---------------------------- MODULE MCSubprocess ----------------------------
(***************************************************************************)
(* A solver with a case directory, input, output and a timeout, next to a  *)
(* call that needs none of these.  For the directories and for the cap     *)
(* both calls have a directory, as two adapters running in parallel do.    *)
(***************************************************************************)
EXTENDS Subprocess

Two == {"solver", "other"}
Stdin == [c \in Two |-> IF c = "solver" THEN 2 ELSE 0]
SolverOutput == [out |-> 2, err |-> 0]
Output == [c \in Two |-> IF c = "solver" THEN SolverOutput ELSE [s \in Streams |-> 0]]
NoOutput == [c \in Two |-> [s \in Streams |-> 0]]
NoStdin == [c \in Two |-> 0]
OneDirectory == [c \in Two |-> IF c = "solver" THEN "case" ELSE "home"]
WorkDirs == [c \in Two |-> IF c = "solver" THEN "case" ELSE "scene"]
AllFaults == [c \in Two |-> IF c = "solver" THEN {"memory", "save", "restore", "poll"} ELSE {}]
NoFaults == [c \in Two |-> {}]
=============================================================================
