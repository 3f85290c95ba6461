-------------------------- MODULE MCParallelRunner --------------------------
(***************************************************************************)
(* A small pipeline for ParallelRunner.  Stages 1 and 2 have the same      *)
(* inputs, hence the same key, and the same serial plugin; a failure of    *)
(* one finds the other running, and leaves stages that become ready while  *)
(* the run is being stopped and one that waits for both branches.          *)
(***************************************************************************)
EXTENDS ParallelRunner

FiveStages == 1..5

Branches == [s \in FiveStages |-> CASE s = 1 -> {}
                                    [] s = 2 -> {}
                                    [] s = 3 -> {1}
                                    [] s = 4 -> {2}
                                    [] s = 5 -> {2, 3}]

MCContent == [s \in FiveStages |-> IF s = 2 THEN 1 ELSE s]

MCPlugin == [s \in FiveStages |->
               CASE s < 3 -> "reader" [] s = 3 -> "mesher" [] s > 3 -> "writer"]

(* Stage 5 refers to stage 2 under a key its capability does not read. *)
MCResolves == [Branches EXCEPT ![5] = {3}]
=============================================================================
