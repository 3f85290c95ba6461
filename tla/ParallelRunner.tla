--------------------------- MODULE ParallelRunner ---------------------------
(***************************************************************************)
(* run_pipeline_parallel (src/pipeline/parallel_runner.cpp): a pool of     *)
(* workers walks the stage DAG by in-degree.  A critical section under     *)
(* ParallelState::mu is one step; what a worker does outside of it (the    *)
(* key, the caches, the reentrancy guard, the plugin call) is one step per *)
(* shared object it touches.                                               *)
(*                                                                         *)
(* The FIFO ready queue is abstracted to a set: a worker takes any of its  *)
(* members.  validate() has already accepted the pipeline, so that the     *)
(* graph is acyclic and has no unknown references.                         *)
(***************************************************************************)
EXTENDS Naturals, FiniteSets

CONSTANTS
    Stages,              \* indices of the pipeline's stages
    Upstream,            \* Upstream[s]: the stages whose ids s refers to
    Content,             \* Content[s]: plugin@version|extra and literal inputs
    Plugin,              \* Plugin[s]: the plugin that owns the capability
    Reentrant,           \* the plugins declared ThreadingModel::Reentrant
    Workers,             \* min(max_workers, number of stages) threads
    Fallible,            \* stages whose plugin may fail or throw
    Resolves,            \* Resolves[s]: the references the dispatcher needs
    Payloads,            \* stages whose success carries a non-null payload
    Serializable,        \* stages whose payload serialize() accepts
    Warm,                \* stages whose key may be cached by an earlier run
    use_cache,
    disk_backing,        \* RunOptions::disk_backing is set
    stop_on_first_failure

ASSUME RunnerAssumption ==
    /\ IsFiniteSet(Stages) /\ Stages # {}
    /\ IsFiniteSet(Workers) /\ Workers # {}
    /\ Upstream \in [Stages -> SUBSET Stages]
    /\ \A s \in Stages : Resolves[s] \subseteq Upstream[s]
    /\ stop_on_first_failure \in BOOLEAN
    /\ use_cache \in BOOLEAN /\ disk_backing \in BOOLEAN

VARIABLES
    (* ParallelState, protected by mu *)
    ready, in_degree, results, stage_hashes, outputs,
    completed_or_skipped, in_flight, stop_requested,
    (* shared objects with locks of their own *)
    cache,     \* the keys in the in-memory Cache
    disk,      \* the keys in the DiskCache
    locked,    \* the plugins whose mutex in the ReentrancyGuard is held
    (* each worker *)
    pc, stage, key, snapshot,
    (* the thread that called run_pipeline_parallel *)
    returned

scheduler == <<ready, in_degree, results, stage_hashes, outputs,
               completed_or_skipped, in_flight, stop_requested>>
local == <<stage, key, snapshot>>
vars == <<scheduler, cache, disk, locked, pc, local, returned>>

Statuses == {"none", "Executed", "Cached", "Failed", "Skipped"}
Labels == {"wait", "asleep", "hash", "lookup", "lookupDisk", "cached",
           "snapshot", "acquire", "dispatch", "put", "putDisk", "publish",
           "failed", "done"}
Processing == Labels \ {"wait", "asleep", "done"}

NoStage == 0
NoHash == <<>>

Dependents(s) == {d \in Stages : s \in Upstream[d]}

(* The context and the inputs, with the hash of each stage referred to. *)
hash_inputs(s, hashes) == <<Content[s], [u \in Upstream[s] |-> hashes[u]]>>

(* The key of each stage when every stage is hashed after its upstream. *)
KeyOf[s \in Stages] == hash_inputs(s, KeyOf)

(* The graph is acyclic: recursion along its edges gives each stage a key. *)
ASSUME KeysAssumption == \A s \in Stages : KeyOf[s] = hash_inputs(s, KeyOf)

Init ==
    /\ in_degree = [s \in Stages |-> Cardinality(Upstream[s])]
    /\ ready = {s \in Stages : in_degree[s] = 0}
    /\ results = [s \in Stages |-> "none"]
    /\ stage_hashes = [s \in Stages |-> NoHash]
    /\ outputs = {}
    /\ completed_or_skipped = 0
    /\ in_flight = 0
    /\ stop_requested = FALSE
    /\ \E warm \in SUBSET Warm : cache = {KeyOf[s] : s \in warm}
    /\ \E warm \in SUBSET Warm : disk = {KeyOf[s] : s \in warm}
    /\ locked = {}
    /\ pc = [w \in Workers |-> "wait"]
    /\ stage = [w \in Workers |-> NoStage]
    /\ key = [w \in Workers |-> NoHash]
    /\ snapshot = [w \in Workers |-> {}]
    /\ returned = FALSE

-----------------------------------------------------------------------------
Goto(w, label) == pc' = [pc EXCEPT ![w] = label]

(* Mutant: the change is not announced. *)
NotifyAllAndGoto_Silent(w, label) == pc' = [pc EXCEPT ![w] = label]

(* cv.notify_all: w goes on at label and every sleeper tests again. *)
NotifyAllAndGoto(w, label) ==
    pc' = [x \in Workers |-> IF x = w THEN label
                             ELSE IF pc[x] = "asleep" THEN "wait" ELSE pc[x]]

(* Mutant: in_degree is taken down once per reference of a pair. *)
Settle_Twice(s) ==
    /\ completed_or_skipped' = completed_or_skipped + 1
    /\ in_degree' = [d \in Stages |-> IF d \in Dependents(s)
                                      THEN in_degree[d] - 2 ELSE in_degree[d]]

(* Count s as settled and queue the dependents that waited only for it. *)
Settle(s) ==
    /\ completed_or_skipped' = completed_or_skipped + 1
    /\ in_degree' = [d \in Stages |-> IF d \in Dependents(s)
                                      THEN in_degree[d] - 1 ELSE in_degree[d]]

(* Mutant: a dependent is queued when the first of its upstream settles. *)
NewlyReady_TooEarly(s) ==
    {d \in Dependents(s) : in_degree[d] = Cardinality(Upstream[d])}

NewlyReady(s) == {d \in Dependents(s) : in_degree[d] = 1}

-----------------------------------------------------------------------------
(* The worker loop.                                                        *)

AllSettled == completed_or_skipped = Cardinality(Stages)
Stopped == stop_requested /\ in_flight = 0
Wakes == ready # {} \/ AllSettled \/ Stopped

Wait(w) ==
    /\ pc[w] = "wait"
    /\ ~ Wakes
    /\ Goto(w, "asleep")
    /\ UNCHANGED <<scheduler, cache, disk, locked, local, returned>>

Exit(w) ==
    /\ pc[w] = "wait"
    /\ AllSettled \/ Stopped
    /\ Goto(w, "done")
    /\ UNCHANGED <<scheduler, cache, disk, locked, local, returned>>

(* Mutant: what waits for a drained stage is not told. *)
Drain_ForgetsDependents(w, s) ==
    /\ pc[w] = "wait"
    /\ ~ AllSettled /\ stop_requested /\ in_flight # 0
    /\ s \in ready
    /\ ready' = ready \ {s}
    /\ results' = [results EXCEPT ![s] = "Skipped"]
    /\ completed_or_skipped' = completed_or_skipped + 1
    /\ NotifyAllAndGoto(w, "wait")
    /\ UNCHANGED <<in_degree, stage_hashes, outputs, in_flight, stop_requested,
                   cache, disk, locked, local, returned>>

(* A stop was requested and other stages are in flight: nothing new starts. *)
Drain(w, s) ==
    /\ pc[w] = "wait"
    /\ ~ AllSettled /\ stop_requested /\ in_flight # 0
    /\ s \in ready
    /\ ready' = (ready \ {s}) \cup NewlyReady(s)
    /\ results' = [results EXCEPT ![s] = "Skipped"]
    /\ Settle(s)
    /\ NotifyAllAndGoto(w, "wait")
    /\ UNCHANGED <<stage_hashes, outputs, in_flight, stop_requested, cache,
                   disk, locked, local, returned>>

Take(w, s) ==
    /\ pc[w] = "wait"
    /\ ~ AllSettled /\ ~ stop_requested
    /\ s \in ready
    /\ ready' = ready \ {s}
    /\ in_flight' = in_flight + 1
    /\ stage' = [stage EXCEPT ![w] = s]
    /\ Goto(w, "hash")
    /\ UNCHANGED <<in_degree, results, stage_hashes, outputs,
                   completed_or_skipped, stop_requested, cache, disk, locked,
                   key, snapshot, returned>>

-----------------------------------------------------------------------------
(* process_stage.                                                          *)

(* upstream_hashes_for reads stage_hashes without taking mu. *)
Hash(w) ==
    /\ pc[w] = "hash"
    /\ key' = [key EXCEPT ![w] = hash_inputs(stage[w], stage_hashes)]
    /\ Goto(w, IF use_cache THEN "lookup" ELSE "snapshot")
    /\ UNCHANGED <<scheduler, cache, disk, locked, stage, snapshot, returned>>

Lookup(w) ==
    /\ pc[w] = "lookup"
    /\ Goto(w, IF key[w] \in cache THEN "cached"
               ELSE IF disk_backing THEN "lookupDisk" ELSE "snapshot")
    /\ UNCHANGED <<scheduler, cache, disk, locked, local, returned>>

(* A blob that cannot be read or rehydrated is a miss. *)
LookupDisk(w) ==
    /\ pc[w] = "lookupDisk"
    /\ \/ /\ key[w] \in disk
          /\ cache' = cache \cup {key[w]}
          /\ Goto(w, "cached")
       \/ /\ Goto(w, "snapshot")
          /\ UNCHANGED cache
    /\ UNCHANGED <<scheduler, disk, locked, local, returned>>

TakeSnapshot(w) ==
    /\ pc[w] = "snapshot"
    /\ snapshot' = [snapshot EXCEPT ![w] = outputs]
    /\ Goto(w, "acquire")
    /\ UNCHANGED <<scheduler, cache, disk, locked, stage, key, returned>>

(* Mutant: no plugin is ever locked. *)
Acquire_NoLock(w) ==
    /\ pc[w] = "acquire"
    /\ Goto(w, "dispatch")
    /\ UNCHANGED <<scheduler, cache, disk, locked, local, returned>>

(* ReentrancyGuard::acquire, by plugin and not by capability. *)
Acquire(w) ==
    /\ pc[w] = "acquire"
    /\ \/ /\ Plugin[stage[w]] \in Reentrant
          /\ UNCHANGED locked
       \/ /\ Plugin[stage[w]] \notin Reentrant
          /\ Plugin[stage[w]] \notin locked
          /\ locked' = locked \cup {Plugin[stage[w]]}
    /\ Goto(w, "dispatch")
    /\ UNCHANGED <<scheduler, cache, disk, local, returned>>

(* The plugin call returns or throws, and the plugin's mutex is released. *)
Dispatch(w) ==
    /\ pc[w] = "dispatch"
    /\ \/ /\ Resolves[stage[w]] \subseteq snapshot[w]
          /\ Goto(w, IF use_cache /\ stage[w] \in Payloads THEN "put"
                     ELSE "publish")
       \/ /\ stage[w] \in Fallible \/ ~ (Resolves[stage[w]] \subseteq snapshot[w])
          /\ Goto(w, "failed")
    /\ locked' = locked \ {Plugin[stage[w]]}
    /\ UNCHANGED <<scheduler, cache, disk, local, returned>>

Put(w) ==
    /\ pc[w] = "put"
    /\ cache' = cache \cup {key[w]}
    /\ Goto(w, IF disk_backing /\ stage[w] \in Serializable THEN "putDisk"
               ELSE "publish")
    /\ UNCHANGED <<scheduler, disk, locked, local, returned>>

(* A blob that cannot be written is dropped. *)
PutDisk(w) ==
    /\ pc[w] = "putDisk"
    /\ disk' \in {disk, disk \cup {key[w]}}
    /\ Goto(w, "publish")
    /\ UNCHANGED <<scheduler, cache, locked, local, returned>>

(* Mutant: the cached path forgets to publish its hash. *)
PublishedHashes_NotWhenCached(w, status) ==
    IF status = "Cached" THEN stage_hashes
    ELSE [stage_hashes EXCEPT ![stage[w]] = key[w]]

PublishedHashes(w, status) == [stage_hashes EXCEPT ![stage[w]] = key[w]]

(* The closing critical section, with the status that the path led to. *)
Finish(w, status) ==
    LET s == stage[w]
    IN /\ stage_hashes' = PublishedHashes(w, status)
       /\ results' = [results EXCEPT ![s] = status]
       /\ outputs' = IF status = "Failed" THEN outputs ELSE outputs \cup {s}
       /\ stop_requested' = (\/ stop_requested
                             \/ status = "Failed" /\ stop_on_first_failure)
       /\ in_flight' = in_flight - 1
       /\ ready' = ready \cup NewlyReady(s)
       /\ Settle(s)
       /\ NotifyAllAndGoto(w, "wait")
       /\ stage' = [stage EXCEPT ![w] = NoStage]
       /\ key' = [key EXCEPT ![w] = NoHash]
       /\ snapshot' = [snapshot EXCEPT ![w] = {}]
       /\ UNCHANGED <<cache, disk, locked, returned>>

PublishCached(w) == pc[w] = "cached" /\ Finish(w, "Cached")
PublishExecuted(w) == pc[w] = "publish" /\ Finish(w, "Executed")
PublishFailed(w) == pc[w] = "failed" /\ Finish(w, "Failed")

-----------------------------------------------------------------------------
(* The caller joins the workers, marks what never started and returns. *)
Join ==
    /\ ~ returned
    /\ \A w \in Workers : pc[w] = "done"
    /\ results' = [s \in Stages |->
                     IF results[s] = "none" THEN "Skipped" ELSE results[s]]
    /\ returned' = TRUE
    /\ UNCHANGED <<ready, in_degree, stage_hashes, outputs,
                   completed_or_skipped, in_flight, stop_requested,
                   cache, disk, locked, pc, local>>

Loop(w) == Wait(w) \/ Exit(w) \/ \E s \in Stages : Drain(w, s) \/ Take(w, s)

process_stage(w) ==
    \/ Hash(w)
    \/ Lookup(w)
    \/ LookupDisk(w)
    \/ TakeSnapshot(w)
    \/ Acquire(w)
    \/ Dispatch(w)
    \/ Put(w)
    \/ PutDisk(w)
    \/ PublishCached(w)
    \/ PublishExecuted(w)
    \/ PublishFailed(w)

Next == Join \/ \E w \in Workers : Loop(w) \/ process_stage(w)

(***************************************************************************)
(* Every thread is scheduled, every plugin call returns, and a mutex that  *)
(* stays free is obtained.                                                 *)
(***************************************************************************)
Fairness ==
    /\ WF_vars(Join)
    /\ \A w \in Workers : WF_vars(Loop(w)) /\ WF_vars(process_stage(w))

Spec == Init /\ [][Next]_vars /\ Fairness

-----------------------------------------------------------------------------
(* Every variable holds a value of its kind. *)
TypeOK ==
    /\ ready \subseteq Stages
    /\ in_degree \in [Stages -> Nat]
    /\ results \in [Stages -> Statuses]
    /\ DOMAIN stage_hashes = Stages
    /\ outputs \subseteq Stages
    /\ completed_or_skipped \in Nat
    /\ in_flight \in Nat
    /\ stop_requested \in BOOLEAN
    /\ pc \in [Workers -> Labels]
    /\ stage \in [Workers -> Stages \cup {NoStage}]
    /\ snapshot \in [Workers -> SUBSET Stages]
    /\ returned \in BOOLEAN

Settled(s) == results[s] # "none"
Unsettled(s) == {u \in Upstream[s] : ~ Settled(u)}
SettledStages == {s \in Stages : Settled(s)}
Busy == {w \in Workers : pc[w] \in Processing}
InFlight(s) == \E w \in Busy : stage[w] = s

(* in_degree counts exactly the upstream stages without a result. *)
DegreesCount == \A s \in Stages : in_degree[s] = Cardinality(Unsettled(s))

(* A stage with nothing left to wait for is settled, in hand or queued. *)
ReadyIsExact ==
    \A s \in Stages :
        (s \in ready) = (in_degree[s] = 0 /\ ~ Settled(s) /\ ~ InFlight(s))

(* A stage in a worker's hands waits for nothing and is in no other's. *)
OneWorkerPerStage ==
    /\ \A w \in Busy : /\ stage[w] \in Stages
                       /\ in_degree[stage[w]] = 0
                       /\ ~ Settled(stage[w])
    /\ \A v, w \in Busy : stage[v] = stage[w] => v = w

CountersAgree ==
    /\ in_flight = Cardinality(Busy)
    /\ completed_or_skipped = Cardinality(SettledStages)

(***************************************************************************)
(* The scheduler never loses a stage or hands one out twice: until the     *)
(* final sweep a stage is in exactly one of the ready queue, one worker's  *)
(* hands, the results, or held back by in_degree, which counts exactly the *)
(* upstream stages that have no result yet.  The counters agree with it.   *)
(***************************************************************************)
StageAccounting ==
    ~ returned => DegreesCount /\ ReadyIsExact /\ OneWorkerPerStage /\ CountersAgree

(***************************************************************************)
(* When a plugin is called, every stage its input refers to is settled,    *)
(* and the snapshot it was handed holds the output of each that succeeded, *)
(* whatever the other workers published in the meantime.                   *)
(***************************************************************************)
UpstreamBeforeDispatch ==
    \A w \in Workers : pc[w] = "dispatch" =>
        \A u \in Upstream[stage[w]] :
            /\ results[u] \in {"Executed", "Cached", "Failed"}
            /\ results[u] # "Failed" => u \in snapshot[w]

(***************************************************************************)
(* Calls into a plugin that did not declare itself reentrant never overlap.*)
(***************************************************************************)
SerialPluginsExclusive ==
    \A v, w \in Workers :
        /\ v # w
        /\ pc[v] = "dispatch" /\ pc[w] = "dispatch"
        => \/ Plugin[stage[v]] # Plugin[stage[w]]
           \/ Plugin[stage[v]] \in Reentrant

(***************************************************************************)
(* A stage that ran has the key a sequential run computes for it, although *)
(* the hashes of its upstream are read outside of the mutex.               *)
(***************************************************************************)
KeysMatchSequential ==
    \A s \in Stages :
        results[s] \in {"Executed", "Cached", "Failed"} =>
            stage_hashes[s] = KeyOf[s]

(***************************************************************************)
(* The run is a run of PipelineRun: stages settle one at a time, after     *)
(* their upstream, nothing starts downstream of a failure that stops, and  *)
(* the call returns: no worker sleeps through its last notification.       *)
(***************************************************************************)
Run == INSTANCE PipelineRun
ImplementsRun == Run!RunSpec

(***************************************************************************)
(* The safety part of it: whatever the workers interleave, no step of      *)
(* run_pipeline_parallel changes results, outputs or the return in a way   *)
(* that no run of PipelineRun allows.                                      *)
(***************************************************************************)
ImplementsRunSafely == Run!RunInit /\ [][Run!RunNext]_<<results, outputs, returned>>
=============================================================================
