------------------------------- MODULE Checks -------------------------------
(***************************************************************************)
(* Handlers that test their input in a fixed order and report the first    *)
(* defect: a check is a pair of its failing condition and its error code,  *)
(* a handler's verdict the code of the first failing check.                *)
(***************************************************************************)
EXTENDS Naturals, Sequences, SequencesExt

Check(failed, code) == <<failed, code>>

\* The code of the first failing check, "ok" when none fails.
FirstFailure(checks) ==
    LET failing == {i \in DOMAIN checks : checks[i][1]}
        first   == CHOOSE i \in failing : \A j \in failing : i <= j
    IN  IF failing = {} THEN "ok" ELSE checks[first][2]
=============================================================================
