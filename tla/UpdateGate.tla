----------------------------- MODULE UpdateGate -----------------------------
(***************************************************************************)
(* The auto-updater's policy (src/updater/state_machine.cpp): the pure     *)
(* decision whether a verified manifest may be applied to this install.    *)
(*                                                                         *)
(* A version string is abstracted to what the gate tells apart: Empty (the *)
(* empty string: fresh install, no floor), Malformed (anything             *)
(* split_version rejects) or the rank of a well-formed MAJOR.MINOR.PATCH   *)
(* under compare_versions, which compares three numbers lexicographically  *)
(* and so is a strict total order.  Instants are abstracted alike.         *)
(***************************************************************************)
EXTENDS Integers

Empty == 0
Malformed == -1

WellFormed(v) == v > 0

(***************************************************************************)
(* The manifest fields the gate reads.  artifact says whether some         *)
(* [[artifact]] entry matches the host's (os, arch).                       *)
(***************************************************************************)
Manifest(Versions, Instants) ==
    [version : Versions, min_previous : Versions \cup {Empty},
     expires : Instants, artifact : BOOLEAN]

(* Mutant: the replay floor is not consulted. *)
apply_gate_NoFloor(m, cur, floor, now) ==
    /\ WellFormed(m.version)
    /\ cur # Empty => WellFormed(cur) /\ cur < m.version
    /\ m.artifact

(***************************************************************************)
(* apply_gate accepts m for an install that runs version cur and has seen  *)
(* versions up to floor.  The nine checks in the order of the source; the  *)
(* RefusalReason only tells the user which of them failed first.           *)
(***************************************************************************)
apply_gate(m, cur, floor, now) ==
    /\ WellFormed(m.version)
    /\ cur # Empty => WellFormed(cur)
    /\ floor # Empty => WellFormed(floor)
    /\ cur # Empty => cur < m.version
    /\ m.expires # Empty => WellFormed(m.expires) /\ now < m.expires
    /\ m.min_previous # Empty /\ cur # Empty =>
           WellFormed(m.min_previous) /\ m.min_previous <= cur
    /\ floor # Empty => floor <= m.version
    /\ m.artifact

(***************************************************************************)
(* The replay floor after version v was accepted: the greater of the two,  *)
(* with an empty floor below everything.                                   *)
(***************************************************************************)
BumpFloor(floor, v) == IF floor = Empty \/ v > floor THEN v ELSE floor
=============================================================================
