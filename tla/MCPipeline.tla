----------------------------- MODULE MCPipeline -----------------------------
(***************************************************************************)
(* What happens to a pipeline file: validate (Dag) checks and sorts it,    *)
(* and the pipeline of a reader, a mesher that wants a geometry, a solver, *)
(* a postprocessor and a writer is then run, again and again, in the order *)
(* that validate returned (CachedRuns).                                    *)
(*                                                                         *)
(* Validated are all reference graphs over four distinct ids, and all      *)
(* pipelines of four stages whose ids may be empty or equal and whose      *)
(* references, at most one for each stage, may name a stage that does not  *)
(* exist.  A fifth stage refers to the second and the fourth of the former *)
(* and to none of the latter.                                              *)
(***************************************************************************)
EXTENDS CachedRuns, Dag

FiveStages == <<1, 2, 3, 4, 5>>
FiveNs == <<"reader", "mesher", "solver", "postproc", "writer">>
FiveRefs == [s \in 1..5 |->
    CASE s = 1 -> <<>>
      [] s = 2 -> [geometry |-> 1]
      [] s = 3 -> [mesh |-> 2]
      [] s = 4 -> [mesh |-> 2, field |-> 3]
      [] s = 5 -> [mesh |-> 2, field |-> 4]]
All == 1..5

AnyIds == 1..5
First == 1..4

AnyPipelines ==
    [ids : {[i \in Positions |-> i]},
     refs : {f \in [Positions -> SUBSET First] : f[5] = {2, 4}}]
    \cup [ids : {f \in [Positions -> 0..5] : f[5] = 5 /\ \A i \in First : f[i] < 4},
          refs : {f \in [Positions -> {{}} \cup {{id} : id \in First}] : f[5] = {}}]

(* The pipeline that is run, as validate sees it. *)
Runs == /\ pipeline.ids = [i \in Positions |-> i]
        /\ pipeline.refs = [s \in Positions |-> Upstream[s]]

PipelineInit == Init /\ ValidateInit

PipelineNext == \/ ValidateNext /\ UNCHANGED vars
                \/ phase = "ok" /\ Runs /\ order = Order /\ Next /\ UNCHANGED validateVars

PipelineSpec == PipelineInit /\ [][PipelineNext]_<<vars, validateVars>>
=============================================================================
