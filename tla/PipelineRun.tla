---------------------------- MODULE PipelineRun ----------------------------
(***************************************************************************)
(* What a pipeline run promises, whichever runner does it (runner.h): each *)
(* stage gets one status, no stage is looked at before everything it       *)
(* refers to has been, and once a failure stops the run nothing downstream *)
(* of it runs.  Both runners are shown to implement this specification.    *)
(***************************************************************************)
CONSTANTS
    Stages,              \* indices of the pipeline's stages
    Upstream,            \* Upstream[s]: the stages s refers to
    stop_on_first_failure

VARIABLES
    results,   \* StageRunResult::Status of each stage, or "none"
    outputs,   \* the stages with an entry in the outputs map
    returned   \* has run_pipeline returned?

runVars == <<results, outputs, returned>>

Statuses == {"none", "Executed", "Cached", "Failed", "Skipped"}

Failure == \E s \in Stages : results[s] = "Failed"

(* May s still be given to its plugin? *)
Eligible(s) ==
    /\ results[s] = "none"
    /\ \A u \in Upstream[s] :
         results[u] \in {"Executed", "Cached"}
                        \cup (IF stop_on_first_failure THEN {} ELSE {"Failed"})

RunInit ==
    /\ results = [s \in Stages |-> "none"]
    /\ outputs = {}
    /\ returned = FALSE

Succeed(s) ==
    /\ Eligible(s)
    /\ \E status \in {"Executed", "Cached"} :
         results' = [results EXCEPT ![s] = status]
    /\ outputs' = outputs \cup {s}
    /\ UNCHANGED returned

Fail(s) ==
    /\ Eligible(s)
    /\ results' = [results EXCEPT ![s] = "Failed"]
    /\ UNCHANGED <<outputs, returned>>

Skip(s) ==
    /\ results[s] = "none"
    /\ stop_on_first_failure /\ Failure
    /\ results' = [results EXCEPT ![s] = "Skipped"]
    /\ UNCHANGED <<outputs, returned>>

(* What never started is Skipped, and the result is packed. *)
Return ==
    /\ ~ returned
    /\ \/ \A s \in Stages : results[s] # "none"
       \/ stop_on_first_failure /\ Failure
    /\ results' = [s \in Stages |->
                     IF results[s] = "none" THEN "Skipped" ELSE results[s]]
    /\ returned' = TRUE
    /\ UNCHANGED outputs

RunNext ==
    \/ ~ returned /\ \E s \in Stages : Succeed(s) \/ Fail(s) \/ Skip(s)
    \/ Return

RunSpec == RunInit /\ [][RunNext]_runVars /\ WF_runVars(RunNext)
============================================================================
