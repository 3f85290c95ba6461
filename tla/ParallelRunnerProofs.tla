------------------------ MODULE ParallelRunnerProofs ------------------------
(***************************************************************************)
(* Theorems about ParallelRunner, for every pipeline, number of workers,   *)
(* plugin and cache configuration.                                         *)
(***************************************************************************)
EXTENDS ParallelRunner, FiniteSetTheorems, TLAPS

Succeeded == {"Executed", "Cached"}
Ran == Succeeded \cup {"Failed"}

(* What the upstream of a stage in a worker's hands may have ended as. *)
Usable == IF stop_on_first_failure THEN Succeeded ELSE Ran

(* A stage that got a result waits for nothing. *)
SettledIsReleased == \A s \in Stages : Settled(s) => in_degree[s] = 0

(* The outputs map holds the stages that succeeded. *)
OutputsExact == outputs = {s \in Stages : results[s] \in Succeeded}

(* A stop is requested by a failure, and nothing is skipped before it. *)
StopHasCause ==
    /\ stop_requested => stop_on_first_failure
                         /\ \E s \in Stages : results[s] = "Failed"
    /\ \A s \in Stages : /\ results[s] = "Skipped" => stop_requested
                         /\ results[s] = "Failed" /\ stop_on_first_failure
                              => stop_requested

UpstreamUsable ==
    \A w \in Busy : \A u \in Upstream[stage[w]] : results[u] \in Usable

Snapshotted == {"acquire", "dispatch"}

SnapshotComplete ==
    \A w \in Workers : pc[w] \in Snapshotted =>
        \A u \in Upstream[stage[w]] : results[u] \in Succeeded => u \in snapshot[w]

LockHeld ==
    \A w \in Workers : pc[w] = "dispatch" /\ Plugin[stage[w]] \notin Reentrant =>
        Plugin[stage[w]] \in locked

ExitJustified ==
    \A w \in Workers : pc[w] = "done" =>
        stop_requested \/ \A s \in Stages : Settled(s)

(***************************************************************************)
(* The inductive invariant.  The scheduler's bookkeeping is only kept until *)
(* the sweep, and the sweep comes after every worker has left.              *)
(***************************************************************************)
Scheduling ==
    /\ DegreesCount
    /\ ReadyIsExact
    /\ OneWorkerPerStage
    /\ CountersAgree
    /\ SettledIsReleased
    /\ OutputsExact
    /\ StopHasCause
    /\ UpstreamUsable
    /\ ExitJustified

IInv ==
    /\ TypeOK
    /\ returned => \A w \in Workers : pc[w] = "done"
    /\ ~ returned => Scheduling /\ SnapshotComplete
    /\ LockHeld
    /\ SerialPluginsExclusive

-----------------------------------------------------------------------------
(* The sets the counters stand for are finite, so that they have a size.   *)
LEMMA FiniteCounts ==
    /\ IsFiniteSet(Busy)
    /\ IsFiniteSet(SettledStages)
    /\ \A s \in Stages : IsFiniteSet(Unsettled(s))
<1>1. IsFiniteSet(Busy)
  BY FS_Subset, RunnerAssumption DEF Busy
<1>2. IsFiniteSet(SettledStages)
  BY FS_Subset, RunnerAssumption DEF SettledStages
<1>3. ASSUME NEW s \in Stages
      PROVE  IsFiniteSet(Unsettled(s))
  <2>1. Unsettled(s) \subseteq Stages
    BY RunnerAssumption DEF Unsettled
  <2> QED
    BY <2>1, FS_Subset, RunnerAssumption
<1> QED
  BY <1>1, <1>2, <1>3

(* Settling s takes one off the degree of exactly the stages that wait for *)
(* it, and those it leaves at zero are the newly ready ones.               *)
LEMMA SettleKeepsDegrees ==
    ASSUME TypeOK, DegreesCount,
           NEW s \in Stages, ~ Settled(s),
           NEW status \in Statuses \ {"none"},
           results' = [results EXCEPT ![s] = status],
           Settle(s)
    PROVE  /\ DegreesCount'
           /\ in_degree' \in [Stages -> Nat]
           /\ \A d \in Stages :
                (in_degree'[d] = 0) <=> (in_degree[d] = 0 \/ d \in NewlyReady(s))
           /\ \A d \in Stages : in_degree[d] = 0 => s \notin Upstream[d]
<1>1. ASSUME NEW d \in Stages, s \in Upstream[d]
      PROVE  /\ in_degree[d] # 0
             /\ in_degree'[d] = in_degree[d] - 1
             /\ in_degree'[d] \in Nat
             /\ in_degree'[d] = Cardinality(Unsettled(d)')
  <2>1. s \in Unsettled(d)
    BY <1>1 DEF Unsettled
  <2>2. Unsettled(d)' = Unsettled(d) \ {s}
    BY <1>1, RunnerAssumption DEF Unsettled, Settled, TypeOK, Statuses
  <2>3. /\ Cardinality(Unsettled(d) \ {s}) = Cardinality(Unsettled(d)) - 1
        /\ Cardinality(Unsettled(d)) \in Nat
        /\ Cardinality(Unsettled(d) \ {s}) \in Nat
    BY <2>1, FiniteCounts, FS_RemoveElement, FS_CardinalityType
  <2>4. in_degree'[d] = in_degree[d] - 1
    BY <1>1 DEF Settle, Dependents
  <2>5. in_degree[d] = Cardinality(Unsettled(d))
    BY DEF DegreesCount
  <2> QED
    BY <2>2, <2>3, <2>4, <2>5
<1>2. ASSUME NEW d \in Stages, s \notin Upstream[d]
      PROVE  /\ in_degree'[d] = in_degree[d]
             /\ in_degree'[d] \in Nat
             /\ in_degree'[d] = Cardinality(Unsettled(d)')
  <2>1. Unsettled(d)' = Unsettled(d)
    BY <1>2, RunnerAssumption DEF Unsettled, Settled, TypeOK
  <2>2. in_degree'[d] = in_degree[d]
    BY <1>2 DEF Settle, Dependents
  <2> QED
    BY <2>1, <2>2 DEF DegreesCount, TypeOK
<1>3. DegreesCount'
  BY <1>1, <1>2 DEF DegreesCount
<1>4. in_degree' \in [Stages -> Nat]
  BY <1>1, <1>2 DEF Settle
<1>5. ASSUME NEW d \in Stages
      PROVE  (in_degree'[d] = 0) <=> (in_degree[d] = 0 \/ d \in NewlyReady(s))
  <2>1. CASE s \in Upstream[d]
    BY <2>1, <1>1 DEF NewlyReady, Dependents, TypeOK
  <2>2. CASE s \notin Upstream[d]
    BY <2>2, <1>2 DEF NewlyReady, Dependents
  <2> QED
    BY <2>1, <2>2
<1> QED
  BY <1>1, <1>3, <1>4, <1>5

(* Settling s adds one to the number of settled stages. *)
LEMMA SettleCounts ==
    ASSUME TypeOK, CountersAgree,
           NEW s \in Stages, ~ Settled(s),
           NEW status \in Statuses \ {"none"},
           results' = [results EXCEPT ![s] = status],
           Settle(s)
    PROVE  /\ completed_or_skipped' = Cardinality(SettledStages')
           /\ completed_or_skipped' \in Nat
<1>1. SettledStages' = SettledStages \cup {s}
  BY DEF SettledStages, Settled, TypeOK, Statuses
<1>2. s \notin SettledStages
  BY DEF SettledStages
<1>3. Cardinality(SettledStages \cup {s})
        = Cardinality(SettledStages) + 1
  BY <1>2, FiniteCounts, FS_AddElement
<1> QED
  BY <1>1, <1>3 DEF CountersAgree, Settle, TypeOK

-----------------------------------------------------------------------------
(* The invariant holds when the workers start. *)
LEMMA InitIInv == Init => IInv
<1> SUFFICES ASSUME Init PROVE IInv
  OBVIOUS
<1>1. Busy = {} /\ SettledStages = {}
  BY DEF Init, Busy, Processing, SettledStages, Settled
<1>2. \A s \in Stages : Unsettled(s) = Upstream[s]
  BY RunnerAssumption DEF Init, Unsettled, Settled
<1>3. \A s \in Stages : Cardinality(Upstream[s]) \in Nat
  BY <1>2, FiniteCounts, FS_CardinalityType
<1>4. TypeOK
  BY <1>3 DEF Init, TypeOK, Statuses, Labels
<1>5. DegreesCount /\ ReadyIsExact
  BY <1>1, <1>2 DEF Init, DegreesCount, ReadyIsExact, Settled, InFlight
<1>6. CountersAgree
  BY <1>1, FS_EmptySet DEF Init, CountersAgree
<1>7. OneWorkerPerStage /\ UpstreamUsable
  BY <1>1 DEF OneWorkerPerStage, UpstreamUsable
<1>8. SettledIsReleased /\ OutputsExact /\ StopHasCause
  BY DEF Init, SettledIsReleased, Settled, OutputsExact, Succeeded, StopHasCause
<1>9. SnapshotComplete /\ ExitJustified /\ LockHeld /\ SerialPluginsExclusive
  BY DEF Init, SnapshotComplete, Snapshotted, ExitJustified, LockHeld,
         SerialPluginsExclusive
<1> QED
  BY <1>4, <1>5, <1>6, <1>7, <1>8, <1>9 DEF IInv, Scheduling, Init

(* A worker in process_stage is running before the sweep. *)
LEMMA BusyBeforeSweep ==
    ASSUME IInv, NEW w \in Workers, pc[w] # "done"
    PROVE  ~ returned /\ Scheduling /\ SnapshotComplete
BY DEF IInv

(* A step of a worker that stays busy and leaves the scheduler alone. *)
LEMMA LocalStep ==
    ASSUME IInv, NEW w \in Workers, pc[w] \in Processing,
           NEW label \in Processing, Goto(w, label),
           UNCHANGED <<scheduler, stage, returned>>
    PROVE  /\ Busy' = Busy
           /\ pc' \in [Workers -> Labels]
           /\ ~ returned'
           /\ Scheduling'
<1>1. pc[w] # "done" /\ label # "done"
  BY DEF Processing
<1>2. ~ returned /\ Scheduling
  BY <1>1, BusyBeforeSweep
<1>3. pc' = [pc EXCEPT ![w] = label] /\ pc \in [Workers -> Labels]
  BY DEF IInv, TypeOK, Goto
<1>4. Busy' = Busy
  BY <1>3 DEF Busy
<1>5. pc' \in [Workers -> Labels]
  BY <1>3 DEF Processing
<1>6. DegreesCount' /\ ReadyIsExact' /\ OneWorkerPerStage' /\ CountersAgree'
  BY <1>2, <1>4 DEF Scheduling, scheduler, DegreesCount, ReadyIsExact,
       OneWorkerPerStage, CountersAgree, Unsettled, Settled, SettledStages, InFlight
<1>7. SettledIsReleased' /\ OutputsExact' /\ StopHasCause' /\ UpstreamUsable'
  BY <1>2, <1>4 DEF Scheduling, scheduler, SettledIsReleased, Settled,
       OutputsExact, StopHasCause, UpstreamUsable
<1>8. ExitJustified'
  BY <1>1, <1>2, <1>3 DEF Scheduling, scheduler, ExitJustified, Settled
<1> QED
  BY <1>2, <1>4, <1>5, <1>6, <1>7, <1>8 DEF Scheduling

(* Such a step keeps the invariant when it concerns no lock or snapshot. *)
LEMMA QuietStep ==
    ASSUME IInv, NEW w \in Workers, pc[w] \in Processing,
           NEW label \in Processing \ Snapshotted, Goto(w, label),
           UNCHANGED <<scheduler, stage, returned, locked, snapshot>>
    PROVE  IInv'
<1>1. Scheduling' /\ ~ returned' /\ pc' \in [Workers -> Labels]
  BY LocalStep
<1>2. ~ returned /\ SnapshotComplete
  BY BusyBeforeSweep DEF Processing
<1>3. pc' = [pc EXCEPT ![w] = label]
  BY DEF Goto
<1>4. TypeOK'
  BY <1>1 DEF IInv, TypeOK, scheduler
<1>5. SnapshotComplete'
  BY <1>2, <1>3 DEF IInv, TypeOK, SnapshotComplete, scheduler
<1>6. LockHeld' /\ SerialPluginsExclusive'
  BY <1>3 DEF IInv, TypeOK, LockHeld, SerialPluginsExclusive, Snapshotted
<1> QED
  BY <1>1, <1>4, <1>5, <1>6 DEF IInv

(* The snapshot is of outputs that all exist. *)
LEMMA TakeSnapshotKeeps ==
    ASSUME IInv, NEW w \in Workers, TakeSnapshot(w)
    PROVE  IInv'
<1>1. pc[w] \in Processing /\ Goto(w, "acquire") /\ "acquire" \in Processing
  BY DEF TakeSnapshot, Processing, Labels
<1>2. Scheduling' /\ ~ returned' /\ pc' \in [Workers -> Labels]
  BY <1>1, LocalStep DEF TakeSnapshot
<1>3. ~ returned /\ SnapshotComplete /\ Scheduling
  BY <1>1, BusyBeforeSweep DEF Processing
<1>4. /\ pc' = [pc EXCEPT ![w] = "acquire"]
      /\ snapshot' = [snapshot EXCEPT ![w] = outputs]
  BY DEF TakeSnapshot, Goto
<1>5. TypeOK'
  BY <1>2, <1>4 DEF IInv, TypeOK, TakeSnapshot, scheduler
<1>6. stage[w] \in Stages
  BY <1>1, <1>3 DEF Scheduling, OneWorkerPerStage, Busy
<1>7. SnapshotComplete'
  <2> SUFFICES ASSUME NEW x \in Workers, pc'[x] \in Snapshotted,
                      NEW u \in Upstream[stage[x]], results[u] \in Succeeded
               PROVE  u \in snapshot'[x]
    BY DEF SnapshotComplete, TakeSnapshot, scheduler
  <2>1. CASE x = w
    BY <2>1, <1>3, <1>4, <1>6, RunnerAssumption
       DEF IInv, TypeOK, Scheduling, OutputsExact
  <2>2. CASE x # w
    BY <2>2, <1>3, <1>4 DEF IInv, TypeOK, SnapshotComplete
  <2> QED
    BY <2>1, <2>2
<1>8. LockHeld' /\ SerialPluginsExclusive'
  BY <1>4 DEF IInv, TypeOK, LockHeld, SerialPluginsExclusive, TakeSnapshot
<1> QED
  BY <1>2, <1>5, <1>7, <1>8 DEF IInv

(* A plugin that is not reentrant is entered under its mutex. *)
LEMMA AcquireKeeps ==
    ASSUME IInv, NEW w \in Workers, Acquire(w)
    PROVE  IInv'
<1>1. pc[w] \in Processing /\ Goto(w, "dispatch") /\ "dispatch" \in Processing
  BY DEF Acquire, Processing, Labels
<1>2. Scheduling' /\ ~ returned' /\ pc' \in [Workers -> Labels]
  BY <1>1, LocalStep DEF Acquire, local
<1>3. ~ returned /\ SnapshotComplete
  BY <1>1, BusyBeforeSweep DEF Processing
<1>4. /\ pc' = [pc EXCEPT ![w] = "dispatch"] /\ pc \in [Workers -> Labels]
      /\ stage' = stage /\ snapshot' = snapshot /\ results' = results
  BY DEF Acquire, Goto, local, scheduler, IInv, TypeOK
<1>5. TypeOK'
  BY <1>2 DEF IInv, TypeOK, Acquire, scheduler, local
<1>6. SnapshotComplete'
  BY <1>3, <1>4 DEF SnapshotComplete, Acquire, Snapshotted
<1>7. LockHeld'
  BY <1>4 DEF IInv, LockHeld, Acquire
<1>8. SerialPluginsExclusive'
  <2>1. \A x \in Workers : x # w /\ pc[x] = "dispatch" =>
          \/ Plugin[stage[x]] # Plugin[stage[w]]
          \/ Plugin[stage[w]] \in Reentrant
    BY DEF IInv, LockHeld, Acquire
  <2> QED
    BY <2>1, <1>4 DEF IInv, SerialPluginsExclusive
<1> QED
  BY <1>2, <1>5, <1>6, <1>7, <1>8 DEF IInv

(* The call returns, with or without an error. *)
LEMMA DispatchKeeps ==
    ASSUME IInv, NEW w \in Workers, Dispatch(w)
    PROVE  IInv'
<1>1. PICK label \in Processing \ Snapshotted : Goto(w, label)
  BY DEF Dispatch, Processing, Labels, Snapshotted
<1>2. pc[w] \in Processing
  BY DEF Dispatch, Processing, Labels
<1>3. Scheduling' /\ ~ returned' /\ pc' \in [Workers -> Labels]
  BY <1>1, <1>2, LocalStep DEF Dispatch, local
<1>4. ~ returned /\ SnapshotComplete
  BY <1>2, BusyBeforeSweep DEF Processing
<1>5. /\ pc' = [pc EXCEPT ![w] = label] /\ pc \in [Workers -> Labels]
      /\ stage' = stage /\ snapshot' = snapshot /\ results' = results
      /\ locked' = locked \ {Plugin[stage[w]]}
      /\ label # "dispatch" /\ pc[w] = "dispatch"
  BY <1>1 DEF Dispatch, Goto, local, scheduler, IInv, TypeOK, Snapshotted
<1>6. TypeOK'
  BY <1>3 DEF IInv, TypeOK, Dispatch, scheduler, local
<1>7. SnapshotComplete'
  BY <1>1, <1>4, <1>5 DEF SnapshotComplete
<1>8. LockHeld' /\ SerialPluginsExclusive'
  BY <1>5 DEF IInv, LockHeld, SerialPluginsExclusive
<1> QED
  BY <1>3, <1>6, <1>7, <1>8 DEF IInv

(* The remaining steps of process_stage outside of the mutex. *)
LEMMA OtherLocalKeeps ==
    ASSUME IInv, NEW w \in Workers,
           Hash(w) \/ Lookup(w) \/ LookupDisk(w) \/ Put(w) \/ PutDisk(w)
    PROVE  IInv'
<1>1. pc[w] \in Processing
  BY DEF Hash, Lookup, LookupDisk, Put, PutDisk, Processing, Labels
<1>2. \E label \in Processing \ Snapshotted : Goto(w, label)
  BY DEF Hash, Lookup, LookupDisk, Put, PutDisk, Processing, Labels, Snapshotted
<1>3. UNCHANGED <<scheduler, stage, returned, locked, snapshot>>
  BY DEF Hash, Lookup, LookupDisk, Put, PutDisk, local
<1> QED
  BY <1>1, <1>2, <1>3, QuietStep

-----------------------------------------------------------------------------
(* The worker loop. *)

(* The count of settled stages reaches the number of stages only with the  *)
(* last of them.                                                           *)
LEMMA AllSettledMeansAll ==
    ASSUME CountersAgree, AllSettled
    PROVE  \A s \in Stages : Settled(s)
<1>1. SettledStages \subseteq Stages
  BY DEF SettledStages
<1>2. SettledStages = Stages
  BY <1>1, FS_Subset, RunnerAssumption DEF CountersAgree, AllSettled
<1> QED
  BY <1>2 DEF SettledStages

(* A worker that sleeps or leaves touches nothing. *)
LEMMA WaitExitKeeps ==
    ASSUME IInv, NEW w \in Workers, Wait(w) \/ Exit(w)
    PROVE  IInv'
<1>1. /\ pc[w] = "wait"
      /\ UNCHANGED <<scheduler, locked, stage, snapshot, returned>>
  BY DEF Wait, Exit, local
<1>2. ~ returned /\ Scheduling /\ SnapshotComplete
  BY <1>1, BusyBeforeSweep
<1>3. PICK label \in {"asleep", "done"} :
         /\ pc' = [pc EXCEPT ![w] = label]
         /\ label = "done" => AllSettled \/ Stopped
  BY DEF Wait, Exit, Goto
<1>4. pc \in [Workers -> Labels]
  BY DEF IInv, TypeOK
<1>5. Busy' = Busy
  BY <1>1, <1>3, <1>4 DEF Busy, Processing
<1>6. TypeOK'
  BY <1>1, <1>3 DEF IInv, TypeOK, scheduler, Labels
<1>7. DegreesCount' /\ ReadyIsExact' /\ OneWorkerPerStage' /\ CountersAgree'
  BY <1>1, <1>2, <1>5 DEF Scheduling, scheduler, DegreesCount, ReadyIsExact,
       OneWorkerPerStage, CountersAgree, Unsettled, Settled, SettledStages, InFlight
<1>8. SettledIsReleased' /\ OutputsExact' /\ StopHasCause' /\ UpstreamUsable'
  BY <1>1, <1>2, <1>5 DEF Scheduling, scheduler, SettledIsReleased, Settled,
       OutputsExact, StopHasCause, UpstreamUsable
<1>9. ExitJustified'
  <2>1. label = "done" => stop_requested \/ \A s \in Stages : Settled(s)
    BY <1>2, <1>3, AllSettledMeansAll DEF Stopped, Scheduling
  <2> QED
    BY <2>1, <1>1, <1>2, <1>3, <1>4 DEF Scheduling, scheduler, ExitJustified, Settled
<1>10. SnapshotComplete'
  BY <1>1, <1>2, <1>3, <1>4 DEF SnapshotComplete, Snapshotted, scheduler
<1>11. LockHeld' /\ SerialPluginsExclusive'
  BY <1>1, <1>3, <1>4 DEF IInv, LockHeld, SerialPluginsExclusive
<1> QED
  BY <1>1, <1>2, <1>6, <1>7, <1>8, <1>9, <1>10, <1>11 DEF IInv, Scheduling

(* Taking a stage moves it from ready to in flight. *)
LEMMA TakeKeeps ==
    ASSUME IInv, NEW w \in Workers, NEW s \in Stages, Take(w, s)
    PROVE  IInv'
<1>1. /\ pc[w] = "wait" /\ ~ stop_requested /\ s \in ready
      /\ ready' = ready \ {s}
      /\ in_flight' = in_flight + 1
      /\ stage' = [stage EXCEPT ![w] = s]
      /\ pc' = [pc EXCEPT ![w] = "hash"]
      /\ UNCHANGED <<in_degree, results, stage_hashes, outputs,
                     completed_or_skipped, stop_requested, locked, snapshot, returned>>
  BY DEF Take, Goto
<1>2. ~ returned /\ Scheduling /\ SnapshotComplete
  BY <1>1, BusyBeforeSweep
<1>3. pc \in [Workers -> Labels] /\ stage \in [Workers -> Stages \cup {NoStage}]
  BY DEF IInv, TypeOK
<1>4. w \notin Busy /\ Busy' = Busy \cup {w}
  BY <1>1, <1>3 DEF Busy, Processing, Labels
<1>5. in_degree[s] = 0 /\ ~ Settled(s) /\ ~ InFlight(s)
  BY <1>1, <1>2 DEF Scheduling, ReadyIsExact
<1>6. TypeOK'
  BY <1>1 DEF IInv, TypeOK, Labels
<1>7. DegreesCount' /\ SettledIsReleased' /\ OutputsExact' /\ StopHasCause'
  BY <1>1, <1>2 DEF Scheduling, DegreesCount, Unsettled, Settled,
       SettledIsReleased, OutputsExact, StopHasCause
<1>8. \A x \in Stages : InFlight(x)' <=> (InFlight(x) \/ x = s)
  BY <1>1, <1>3, <1>4 DEF InFlight, Busy
<1>9. ReadyIsExact'
  BY <1>1, <1>2, <1>5, <1>8 DEF Scheduling, ReadyIsExact, Settled
<1>10. OneWorkerPerStage'
  BY <1>1, <1>2, <1>3, <1>4, <1>5
     DEF Scheduling, OneWorkerPerStage, Settled, InFlight, Busy
<1>11. CountersAgree'
  <2>1. Cardinality(Busy \cup {w}) = Cardinality(Busy) + 1
    BY <1>4, FiniteCounts, FS_AddElement
  <2> QED
    BY <2>1, <1>1, <1>2, <1>4 DEF Scheduling, CountersAgree, SettledStages, Settled
<1>12. UpstreamUsable'
  <2>1. Unsettled(s) = {}
    BY <1>2, <1>5, FiniteCounts, FS_EmptySet DEF Scheduling, DegreesCount
  <2>2. \A u \in Upstream[s] : results[u] \in Usable
    BY <2>1, <1>1, <1>2, RunnerAssumption
       DEF Unsettled, Settled, Scheduling, StopHasCause, Usable, Ran, Succeeded,
           IInv, TypeOK, Statuses
  <2> QED
    BY <2>2, <1>1, <1>2, <1>3, <1>4 DEF Scheduling, UpstreamUsable, Busy
<1>13. ExitJustified'
  BY <1>1, <1>2, <1>3 DEF Scheduling, ExitJustified, Settled
<1>14. SnapshotComplete'
  BY <1>1, <1>2, <1>3 DEF SnapshotComplete, Snapshotted
<1>15. LockHeld' /\ SerialPluginsExclusive'
  BY <1>1, <1>3 DEF IInv, LockHeld, SerialPluginsExclusive
<1> QED
  BY <1>1, <1>2, <1>6, <1>7, <1>9, <1>10, <1>11, <1>12, <1>13, <1>14, <1>15
     DEF IInv, Scheduling

-----------------------------------------------------------------------------
(* The two steps that settle a stage: draining it and finishing it. *)

(***************************************************************************)
(* Giving s its result and queueing what waited only for it keeps the      *)
(* bookkeeping, provided that the worker that held s, if any, lets it go.  *)
(***************************************************************************)
LEMMA Settling ==
    ASSUME TypeOK, Scheduling,
           NEW s \in Stages, in_degree[s] = 0, ~ Settled(s),
           NEW status \in Statuses \ {"none"},
           results' = [results EXCEPT ![s] = status],
           Settle(s),
           ready' = (ready \ {s}) \cup NewlyReady(s),
           Busy' \subseteq Busy,
           \A w \in Busy' : stage'[w] = stage[w] /\ stage[w] # s,
           \A w \in Busy \ Busy' : stage[w] = s
    PROVE  /\ DegreesCount' /\ ReadyIsExact' /\ OneWorkerPerStage'
           /\ SettledIsReleased' /\ UpstreamUsable'
           /\ in_degree' \in [Stages -> Nat]
           /\ \A d \in Stages : in_degree[d] = 0 => s \notin Upstream[d]
<1>1. /\ DegreesCount'
      /\ in_degree' \in [Stages -> Nat]
      /\ \A d \in Stages :
           (in_degree'[d] = 0) <=> (in_degree[d] = 0 \/ d \in NewlyReady(s))
      /\ \A d \in Stages : in_degree[d] = 0 => s \notin Upstream[d]
  BY SettleKeepsDegrees DEF Scheduling
<1>2. \A d \in Stages : Settled(d)' <=> (Settled(d) \/ d = s)
  BY DEF Settled, TypeOK
<1>3. \A d \in Stages : d # s => (InFlight(d)' <=> InFlight(d))
  BY DEF InFlight
<1>4. ~ InFlight(s)'
  BY DEF InFlight
<1>5. \A d \in NewlyReady(s) : d \in Stages /\ in_degree[d] = 1
  BY DEF NewlyReady, Dependents
<1>6. \A d \in NewlyReady(s) : ~ Settled(d) /\ ~ InFlight(d) /\ d # s
  BY <1>5 DEF Scheduling, SettledIsReleased, OneWorkerPerStage, InFlight
<1>7. ReadyIsExact'
  <2> SUFFICES ASSUME NEW d \in Stages
               PROVE  (d \in ready') <=>
                        (in_degree'[d] = 0 /\ ~ Settled(d)' /\ ~ InFlight(d)')
    BY DEF ReadyIsExact
  <2>1. CASE d = s
    BY <2>1, <1>2, <1>6
  <2>2. CASE d # s
    BY <2>2, <1>1, <1>2, <1>3, <1>6 DEF Scheduling, ReadyIsExact
  <2> QED
    BY <2>1, <2>2
<1>8. OneWorkerPerStage'
  BY <1>1, <1>2 DEF Scheduling, OneWorkerPerStage
<1>9. SettledIsReleased'
  BY <1>1, <1>2 DEF Scheduling, SettledIsReleased
<1>10. UpstreamUsable'
  <2> SUFFICES ASSUME NEW w \in Busy', NEW u \in Upstream[stage[w]]
               PROVE  results'[u] \in Usable
    BY DEF UpstreamUsable
  <2>1. stage[w] \in Stages /\ in_degree[stage[w]] = 0 /\ results[u] \in Usable
    BY DEF Scheduling, OneWorkerPerStage, UpstreamUsable
  <2>2. u # s /\ u \in Stages
    BY <2>1, <1>1, RunnerAssumption
  <2> QED
    BY <2>1, <2>2 DEF TypeOK
<1> QED
  BY <1>1, <1>7, <1>8, <1>9, <1>10

(* A stage drained after a failure is settled without running. *)
LEMMA DrainKeeps ==
    ASSUME IInv, NEW w \in Workers, NEW s \in Stages, Drain(w, s)
    PROVE  IInv'
<1>1. /\ pc[w] = "wait" /\ stop_requested /\ s \in ready
      /\ ready' = (ready \ {s}) \cup NewlyReady(s)
      /\ results' = [results EXCEPT ![s] = "Skipped"]
      /\ Settle(s)
      /\ pc' = [x \in Workers |-> IF x = w THEN "wait"
                                  ELSE IF pc[x] = "asleep" THEN "wait" ELSE pc[x]]
      /\ UNCHANGED <<stage_hashes, outputs, in_flight, stop_requested, locked,
                     stage, snapshot, returned>>
  BY DEF Drain, NotifyAllAndGoto, local
<1>2. ~ returned /\ Scheduling /\ SnapshotComplete /\ TypeOK
  BY <1>1, BusyBeforeSweep DEF IInv
<1>3. in_degree[s] = 0 /\ ~ Settled(s) /\ ~ InFlight(s)
  BY <1>1, <1>2 DEF Scheduling, ReadyIsExact
<1>4. Busy' = Busy
  BY <1>1, <1>2 DEF Busy, Processing, TypeOK
<1>5. \A x \in Busy : stage[x] # s
  BY <1>3 DEF InFlight
<1>6. "Skipped" \in Statuses \ {"none"}
  BY DEF Statuses
<1>7. /\ DegreesCount' /\ ReadyIsExact' /\ OneWorkerPerStage'
      /\ SettledIsReleased' /\ UpstreamUsable'
      /\ in_degree' \in [Stages -> Nat]
      /\ \A d \in Stages : in_degree[d] = 0 => s \notin Upstream[d]
  BY <1>1, <1>2, <1>3, <1>4, <1>5, <1>6, Settling
<1>8. /\ completed_or_skipped' = Cardinality(SettledStages')
      /\ completed_or_skipped' \in Nat
  BY <1>1, <1>2, <1>3, <1>6, SettleCounts DEF Scheduling
<1>9. TypeOK'
  BY <1>1, <1>2, <1>7, <1>8 DEF TypeOK, NewlyReady, Dependents, Statuses, Labels
<1>10. CountersAgree'
  BY <1>1, <1>2, <1>4, <1>8 DEF Scheduling, CountersAgree
<1>11. OutputsExact' /\ StopHasCause'
  BY <1>1, <1>2, <1>3
     DEF Scheduling, OutputsExact, StopHasCause, Settled, Succeeded, TypeOK
<1>12. ExitJustified'
  BY <1>1, <1>2 DEF Scheduling, ExitJustified
<1>13. SnapshotComplete'
  <2> SUFFICES ASSUME NEW x \in Workers, pc'[x] \in Snapshotted,
                      NEW u \in Upstream[stage[x]], results'[u] \in Succeeded
               PROVE  u \in snapshot[x]
    BY <1>1 DEF SnapshotComplete
  <2>1. pc[x] \in Snapshotted
    BY <1>1, <1>2 DEF Snapshotted, TypeOK
  <2>2. x \in Busy /\ stage[x] \in Stages
    BY <2>1, <1>2 DEF Busy, Snapshotted, Processing, Labels, Scheduling,
                      OneWorkerPerStage
  <2>3. u # s /\ u \in Stages
    BY <2>2, <1>2, <1>7, RunnerAssumption DEF Scheduling, OneWorkerPerStage
  <2> QED
    BY <2>1, <2>3, <1>1, <1>2 DEF SnapshotComplete, TypeOK
<1>14. LockHeld' /\ SerialPluginsExclusive'
  BY <1>1 DEF IInv, LockHeld, SerialPluginsExclusive
<1> QED
  BY <1>1, <1>2, <1>7, <1>9, <1>10, <1>11, <1>12, <1>13, <1>14 DEF IInv, Scheduling

(* A result is published and the successors it frees become ready. *)
LEMMA FinishKeeps ==
    ASSUME IInv, NEW w \in Workers, NEW status \in Ran,
           pc[w] \in Processing \ Snapshotted, Finish(w, status)
    PROVE  IInv'
<1> DEFINE s == stage[w]
<1>1. /\ stage_hashes' = [stage_hashes EXCEPT ![s] = key[w]]
      /\ results' = [results EXCEPT ![s] = status]
      /\ outputs' = IF status = "Failed" THEN outputs ELSE outputs \cup {s}
      /\ stop_requested' = (\/ stop_requested
                            \/ status = "Failed" /\ stop_on_first_failure)
      /\ in_flight' = in_flight - 1
      /\ ready' = ready \cup NewlyReady(s)
      /\ Settle(s)
      /\ pc' = [x \in Workers |-> IF x = w THEN "wait"
                                  ELSE IF pc[x] = "asleep" THEN "wait" ELSE pc[x]]
      /\ stage' = [stage EXCEPT ![w] = NoStage]
      /\ snapshot' = [snapshot EXCEPT ![w] = {}]
      /\ UNCHANGED <<locked, returned>>
  BY DEF Finish, PublishedHashes, NotifyAllAndGoto
<1>2. ~ returned /\ Scheduling /\ SnapshotComplete /\ TypeOK
  BY BusyBeforeSweep DEF IInv, Processing
<1>3. w \in Busy /\ Busy' = Busy \ {w}
  BY <1>1, <1>2 DEF Busy, Processing, TypeOK
<1>4. s \in Stages /\ in_degree[s] = 0 /\ ~ Settled(s)
  BY <1>2, <1>3 DEF Scheduling, OneWorkerPerStage
<1>5. s \notin ready
  BY <1>2, <1>3, <1>4 DEF Scheduling, ReadyIsExact, InFlight
<1>6. /\ \A x \in Busy' : stage'[x] = stage[x] /\ stage[x] # s
      /\ \A x \in Busy \ Busy' : stage[x] = s
  <2>1. \A x \in Busy : x \in Workers /\ (stage[x] = s => x = w)
    BY <1>2, <1>3 DEF Scheduling, OneWorkerPerStage, Busy
  <2> QED
    BY <2>1, <1>1, <1>2, <1>3 DEF TypeOK
<1>7. status \in Statuses \ {"none"}
  BY DEF Statuses, Ran, Succeeded
<1>8. ready' = (ready \ {s}) \cup NewlyReady(s)
  BY <1>1, <1>5
<1>9. /\ DegreesCount' /\ ReadyIsExact' /\ OneWorkerPerStage'
      /\ SettledIsReleased' /\ UpstreamUsable'
      /\ in_degree' \in [Stages -> Nat]
      /\ \A d \in Stages : in_degree[d] = 0 => s \notin Upstream[d]
  <2>1. results' = [results EXCEPT ![s] = status] /\ Settle(s)
    BY <1>1
  <2>2. Busy' \subseteq Busy
    BY <1>3
  <2> HIDE DEF s
  <2> QED
    BY <2>1, <2>2, <1>2, <1>4, <1>6, <1>7, <1>8, Settling
<1>10. /\ completed_or_skipped' = Cardinality(SettledStages')
       /\ completed_or_skipped' \in Nat
  BY <1>1, <1>2, <1>4, <1>7, SettleCounts DEF Scheduling
<1>11. CountersAgree' /\ in_flight' \in Nat
  <2>1. /\ Cardinality(Busy \ {w}) = Cardinality(Busy) - 1
        /\ Cardinality(Busy \ {w}) \in Nat
    BY <1>3, FiniteCounts, FS_RemoveElement, FS_CardinalityType
  <2> QED
    BY <2>1, <1>1, <1>2, <1>3, <1>10 DEF Scheduling, CountersAgree
<1>12. TypeOK'
  BY <1>1, <1>2, <1>4, <1>7, <1>9, <1>10, <1>11
     DEF TypeOK, NewlyReady, Dependents, Labels
<1>13. OutputsExact'
  BY <1>1, <1>2, <1>4 DEF Scheduling, OutputsExact, Settled, Ran, Succeeded, TypeOK
<1>14. StopHasCause'
  BY <1>1, <1>2, <1>4 DEF Scheduling, StopHasCause, Settled, Ran, Succeeded, TypeOK
<1>15. ExitJustified'
  BY <1>1, <1>2, <1>4 DEF Scheduling, ExitJustified
<1>16. SnapshotComplete'
  <2> SUFFICES ASSUME NEW x \in Workers, pc'[x] \in Snapshotted,
                      NEW u \in Upstream[stage'[x]], results'[u] \in Succeeded
               PROVE  u \in snapshot'[x]
    BY DEF SnapshotComplete
  <2>1. x # w /\ pc[x] \in Snapshotted
    BY <1>1, <1>2 DEF Snapshotted, TypeOK
  <2>2. stage'[x] = stage[x] /\ snapshot'[x] = snapshot[x]
    BY <2>1, <1>1, <1>2 DEF TypeOK
  <2>3. x \in Busy /\ stage[x] \in Stages
    BY <2>1, <1>2 DEF Busy, Snapshotted, Processing, Labels, Scheduling,
                      OneWorkerPerStage
  <2>4. u # s /\ u \in Stages
    BY <2>2, <2>3, <1>2, <1>9, RunnerAssumption DEF Scheduling, OneWorkerPerStage
  <2> QED
    BY <2>1, <2>2, <2>4, <1>1, <1>2 DEF SnapshotComplete, TypeOK
<1>17. LockHeld' /\ SerialPluginsExclusive'
  <2>1. \A x \in Workers : pc'[x] = "dispatch" =>
            x # w /\ pc[x] = "dispatch" /\ stage'[x] = stage[x]
    BY <1>1, <1>2 DEF TypeOK
  <2> QED
    BY <2>1, <1>1 DEF IInv, LockHeld, SerialPluginsExclusive
<1> QED
  BY <1>1, <1>2, <1>9, <1>11, <1>12, <1>13, <1>14, <1>15, <1>16, <1>17
     DEF IInv, Scheduling

(* The sweep, after every worker has left. *)
LEMMA JoinKeeps ==
    ASSUME IInv, Join
    PROVE  IInv'
<1>1. TypeOK'
  BY DEF IInv, TypeOK, Join, local, Statuses
<1>2. LockHeld' /\ SerialPluginsExclusive'
  BY DEF IInv, Join, local, LockHeld, SerialPluginsExclusive
<1> QED
  BY <1>1, <1>2 DEF IInv, Join

(* A stuttering step. *)
LEMMA StutterKeeps ==
    ASSUME IInv, UNCHANGED vars
    PROVE  IInv'
<1>1. TypeOK' /\ LockHeld' /\ SerialPluginsExclusive' /\ SnapshotComplete' = SnapshotComplete
  BY DEF IInv, vars, scheduler, local, TypeOK, LockHeld, SerialPluginsExclusive,
         SnapshotComplete
<1>2. Scheduling' = Scheduling
  BY DEF vars, scheduler, local, Scheduling, DegreesCount, ReadyIsExact,
         OneWorkerPerStage, CountersAgree, SettledIsReleased, OutputsExact,
         StopHasCause, UpstreamUsable, ExitJustified, Unsettled, Settled,
         SettledStages, Busy, InFlight
<1> QED
  BY <1>1, <1>2 DEF IInv, vars

(* One step of the runner, by the action taken. *)
LEMMA NextKeeps ==
    ASSUME IInv, [Next]_vars
    PROVE  IInv'
<1>1. CASE Join
  BY <1>1, JoinKeeps
<1>2. ASSUME NEW w \in Workers, Loop(w)
      PROVE  IInv'
  BY <1>2, WaitExitKeeps, DrainKeeps, TakeKeeps DEF Loop
<1>3. ASSUME NEW w \in Workers, process_stage(w)
      PROVE  IInv'
  <2>1. CASE Hash(w) \/ Lookup(w) \/ LookupDisk(w) \/ Put(w) \/ PutDisk(w)
    BY <2>1, OtherLocalKeeps
  <2>2. CASE TakeSnapshot(w) \/ Acquire(w) \/ Dispatch(w)
    BY <2>2, TakeSnapshotKeeps, AcquireKeeps, DispatchKeeps
  <2>3. CASE PublishCached(w) \/ PublishExecuted(w) \/ PublishFailed(w)
    <3>1. PICK status \in Ran : Finish(w, status)
      BY <2>3 DEF PublishCached, PublishExecuted, PublishFailed, Ran, Succeeded
    <3>2. pc[w] \in Processing \ Snapshotted
      BY <2>3 DEF PublishCached, PublishExecuted, PublishFailed, Processing,
                  Snapshotted, Labels
    <3> QED
      BY <3>1, <3>2, FinishKeeps
  <2> QED
    BY <1>3, <2>1, <2>2, <2>3 DEF process_stage
<1>4. CASE UNCHANGED vars
  BY <1>4, StutterKeeps
<1> QED
  BY <1>1, <1>2, <1>3, <1>4 DEF Next

(***************************************************************************)
(* IInv holds in every reachable state of the runner, whatever the         *)
(* pipeline, the plugins, the caches and the number of workers.            *)
(***************************************************************************)
THEOREM Invariance == Spec => []IInv
<1>1. Init => IInv
  BY InitIInv
<1>2. IInv /\ [Next]_vars => IInv'
  BY NextKeeps
<1> QED
  BY <1>1, <1>2, PTL DEF Spec

(* Every variable of the runner holds a value of its kind. *)
THEOREM TypeCorrect == Spec => []TypeOK
<1>1. IInv => TypeOK
  BY DEF IInv
<1> QED
  BY <1>1, Invariance, PTL

(***************************************************************************)
(* run_pipeline_parallel never loses a stage or hands one out twice, and   *)
(* its counters are the sizes of what they count.                          *)
(***************************************************************************)
THEOREM AccountingHolds == Spec => []StageAccounting
<1>1. IInv => StageAccounting
  BY DEF IInv, Scheduling, StageAccounting
<1> QED
  BY <1>1, Invariance, PTL

(***************************************************************************)
(* process_stage calls a plugin only after everything its inputs refer to  *)
(* has run, with the outputs that were produced.                           *)
(***************************************************************************)
THEOREM DispatchAfterUpstream == Spec => []UpstreamBeforeDispatch
<1>1. IInv => UpstreamBeforeDispatch
  <2> SUFFICES ASSUME IInv, NEW w \in Workers, pc[w] = "dispatch",
                      NEW u \in Upstream[stage[w]]
               PROVE  /\ results[u] \in Ran
                      /\ results[u] # "Failed" => u \in snapshot[w]
    BY DEF UpstreamBeforeDispatch, Ran, Succeeded
  <2>1. w \in Busy /\ Scheduling /\ SnapshotComplete
    BY DEF IInv, Busy, Processing, Labels
  <2>2. results[u] \in Ran
    BY <2>1 DEF Scheduling, UpstreamUsable, Usable, Ran
  <2> QED
    BY <2>1, <2>2 DEF SnapshotComplete, Ran, Snapshotted
<1> QED
  BY <1>1, Invariance, PTL

(***************************************************************************)
(* The ReentrancyGuard keeps calls into a plugin that did not declare      *)
(* itself reentrant apart.                                                 *)
(***************************************************************************)
THEOREM ReentrancyGuardWorks == Spec => []SerialPluginsExclusive
<1>1. IInv => SerialPluginsExclusive
  BY DEF IInv
<1> QED
  BY <1>1, Invariance, PTL

-----------------------------------------------------------------------------
(* The runner implements PipelineRun. *)

(* Draining a stage is the Skip of the abstract run. *)
LEMMA DrainIsSkip ==
    ASSUME IInv, NEW w \in Workers, NEW s \in Stages, Drain(w, s)
    PROVE  ~ returned /\ Run!Skip(s)
<1>1. ~ returned /\ Scheduling
  BY BusyBeforeSweep DEF Drain
<1>2. results[s] = "none"
  BY <1>1 DEF Drain, Scheduling, ReadyIsExact, Settled
<1>3. stop_on_first_failure /\ \E x \in Stages : results[x] = "Failed"
  BY <1>1 DEF Drain, Scheduling, StopHasCause
<1> QED
  BY <1>1, <1>2, <1>3 DEF Drain, Run!Skip, Run!Failure

(* Publishing a result is the Succeed or the Fail of the abstract run. *)
LEMMA FinishIsSucceedOrFail ==
    ASSUME IInv, NEW w \in Workers, NEW status \in Ran,
           pc[w] \in Processing, Finish(w, status)
    PROVE  /\ ~ returned
           /\ stage[w] \in Stages
           /\ Run!Succeed(stage[w]) \/ Run!Fail(stage[w])
<1>1. ~ returned /\ Scheduling
  BY BusyBeforeSweep DEF Processing
<1>2. w \in Busy
  BY DEF Busy
<1>3. stage[w] \in Stages /\ results[stage[w]] = "none"
  BY <1>1, <1>2 DEF Scheduling, OneWorkerPerStage, Settled
<1>4. \A u \in Upstream[stage[w]] : results[u] \in Usable
  BY <1>1, <1>2 DEF Scheduling, UpstreamUsable
<1>5. Run!Eligible(stage[w])
  BY <1>3, <1>4 DEF Run!Eligible, Usable, Ran, Succeeded
<1>6. CASE status = "Failed"
  BY <1>1, <1>3, <1>5, <1>6 DEF Finish, Run!Fail
<1>7. CASE status \in Succeeded
  BY <1>1, <1>3, <1>5, <1>7 DEF Finish, Run!Succeed, Succeeded
<1> QED
  BY <1>6, <1>7 DEF Ran

(* The sweep after the join is the Return of the abstract run. *)
LEMMA JoinIsReturn ==
    ASSUME IInv, Join
    PROVE  Run!Return
<1>1. PICK w \in Workers : pc[w] = "done"
  BY RunnerAssumption DEF Join
<1>2. Scheduling
  BY DEF IInv, Join
<1>3. stop_requested \/ \A s \in Stages : results[s] # "none"
  BY <1>1, <1>2 DEF Scheduling, ExitJustified, Settled
<1>4. stop_requested => stop_on_first_failure /\ \E s \in Stages : results[s] = "Failed"
  BY <1>2 DEF Scheduling, StopHasCause
<1> QED
  BY <1>3, <1>4 DEF Join, Run!Return, Run!Failure

(***************************************************************************)
(* Every step of the workers and of the thread that joins them is a step   *)
(* of PipelineRun or leaves the results, the outputs and the return as     *)
(* they are.                                                               *)
(***************************************************************************)
THEOREM RunnerImplementsRun == Spec => ImplementsRunSafely
<1>1. Init => Run!RunInit
  BY DEF Init, Run!RunInit
<1>2. ASSUME IInv, [Next]_vars
      PROVE  [Run!RunNext]_<<results, outputs, returned>>
  <2>1. CASE Join
    BY <1>2, <2>1, JoinIsReturn DEF Run!RunNext
  <2>2. ASSUME NEW w \in Workers, NEW s \in Stages, Drain(w, s)
        PROVE  Run!RunNext
    BY <1>2, <2>2, DrainIsSkip DEF Run!RunNext
  <2>3. ASSUME NEW w \in Workers,
               PublishCached(w) \/ PublishExecuted(w) \/ PublishFailed(w)
        PROVE  Run!RunNext
    <3>1. PICK status \in Ran : Finish(w, status)
      BY <2>3 DEF PublishCached, PublishExecuted, PublishFailed, Ran, Succeeded
    <3>2. pc[w] \in Processing
      BY <2>3 DEF PublishCached, PublishExecuted, PublishFailed, Processing, Labels
    <3> QED
      BY <1>2, <3>1, <3>2, FinishIsSucceedOrFail DEF Run!RunNext
  <2>4. ASSUME NEW w \in Workers,
               \/ Wait(w) \/ Exit(w) \/ \E s \in Stages : Take(w, s)
               \/ Hash(w) \/ Lookup(w) \/ LookupDisk(w) \/ TakeSnapshot(w)
               \/ Acquire(w) \/ Dispatch(w) \/ Put(w) \/ PutDisk(w)
        PROVE  UNCHANGED <<results, outputs, returned>>
    BY <2>4 DEF Wait, Exit, Take, Hash, Lookup, LookupDisk, TakeSnapshot, Acquire,
                Dispatch, Put, PutDisk, scheduler
  <2>5. CASE UNCHANGED vars
    BY <2>5 DEF vars, scheduler
  <2> QED
    BY <1>2, <2>1, <2>2, <2>3, <2>4, <2>5 DEF Next, Loop, process_stage
<1> QED
  BY <1>1, <1>2, Invariance, PTL DEF Spec, ImplementsRunSafely

-----------------------------------------------------------------------------
(* The cache keys. *)

(***************************************************************************)
(* A stage that ran has published its key, and a worker past the hash      *)
(* holds the key of its stage.  Inductive together with IInv, which says   *)
(* that all of a worker's upstream had run when it computed the hash.      *)
(***************************************************************************)
KeysKnown ==
    /\ DOMAIN key = Workers
    /\ \A w \in Busy : pc[w] # "hash" => key[w] = KeyOf[stage[w]]
    /\ KeysMatchSequential

(* A worker hashes its stage with the published hashes of its upstream. *)
LEMMA HashIsKey ==
    ASSUME IInv, KeysKnown, NEW w \in Workers, pc[w] = "hash"
    PROVE  hash_inputs(stage[w], stage_hashes) = KeyOf[stage[w]]
<1>1. w \in Busy /\ Scheduling
  BY DEF Busy, Processing, Labels, IInv
<1>2. stage[w] \in Stages
  BY <1>1 DEF Scheduling, OneWorkerPerStage
<1>3. \A u \in Upstream[stage[w]] : u \in Stages /\ results[u] \in Ran
  BY <1>1, <1>2, RunnerAssumption DEF Scheduling, UpstreamUsable, Usable, Ran
<1>4. \A u \in Upstream[stage[w]] : stage_hashes[u] = KeyOf[u]
  BY <1>3 DEF KeysKnown, KeysMatchSequential, Ran, Succeeded
<1>5. KeyOf[stage[w]] = hash_inputs(stage[w], KeyOf)
  BY <1>2, KeysAssumption
<1> QED
  BY <1>4, <1>5 DEF hash_inputs

(* The keys of finished stages stay what a sequential run computes. *)
LEMMA KeysKept ==
    ASSUME IInv, KeysKnown, [Next]_vars
    PROVE  KeysKnown'
<1>1. pc \in [Workers -> Labels] /\ results \in [Stages -> Statuses]
  BY DEF IInv, TypeOK
<1>2. ASSUME NEW w \in Workers, Hash(w)
      PROVE  KeysKnown'
  <2>1. key' = [key EXCEPT ![w] = KeyOf[stage[w]]]
    BY <1>2, HashIsKey DEF Hash
  <2>2. \A x \in Workers : x # w => pc'[x] = pc[x]
    BY <1>1, <1>2 DEF Hash, Goto
  <2>3. /\ DOMAIN key' = Workers
        /\ \A x \in Busy' : key'[x] = IF x = w THEN KeyOf[stage[w]] ELSE key[x]
    BY <2>1 DEF Busy, KeysKnown
  <2> QED
    BY <1>2, <2>2, <2>3
       DEF Hash, KeysKnown, KeysMatchSequential, Busy, scheduler
<1>3. ASSUME NEW w \in Workers, NEW s \in Stages, Take(w, s)
      PROVE  KeysKnown'
  <2>1. \A x \in Busy' : pc'[x] # "hash" => x \in Busy /\ pc[x] # "hash" /\ x # w
    BY <1>1, <1>3 DEF Take, Goto, Busy
  <2> QED
    BY <1>3, <2>1 DEF Take, KeysKnown, KeysMatchSequential, IInv, TypeOK, Busy
<1>4. ASSUME NEW w \in Workers, NEW status \in Ran,
             pc[w] \in Processing \ {"hash"}, Finish(w, status)
      PROVE  KeysKnown'
  <2>1. w \in Busy /\ stage[w] \in Stages /\ key[w] = KeyOf[stage[w]]
    BY <1>4, BusyBeforeSweep
       DEF Busy, Processing, Scheduling, OneWorkerPerStage, KeysKnown
  <2>2. \A x \in Busy' : x \in Busy /\ x # w /\ pc[x] = pc'[x]
    BY <1>4 DEF Finish, NotifyAllAndGoto, Busy, Processing
  <2>3. /\ stage' = [stage EXCEPT ![w] = NoStage]
        /\ key' = [key EXCEPT ![w] = NoHash]
        /\ stage_hashes' = [stage_hashes EXCEPT ![stage[w]] = key[w]]
        /\ results' = [results EXCEPT ![stage[w]] = status]
    BY <1>4 DEF Finish, PublishedHashes
  <2>4. /\ DOMAIN key' = Workers
        /\ \A x \in Busy' : key'[x] = key[x] /\ stage'[x] = stage[x]
    BY <2>2, <2>3 DEF KeysKnown, Busy, IInv, TypeOK
  <2>5. KeysMatchSequential'
    BY <1>1, <2>1, <2>3 DEF KeysKnown, KeysMatchSequential, IInv, TypeOK
  <2> QED
    BY <2>2, <2>4, <2>5 DEF KeysKnown
<1>5. ASSUME NEW w \in Workers, NEW s \in Stages, Drain(w, s)
      PROVE  KeysKnown'
  <2>1. \A x \in Busy' : x \in Busy /\ pc[x] = pc'[x]
    BY <1>5 DEF Drain, NotifyAllAndGoto, Busy, Processing
  <2> QED
    BY <1>1, <1>5, <2>1 DEF Drain, KeysKnown, KeysMatchSequential, local
<1>6. CASE Join
  BY <1>6 DEF Join, KeysKnown, KeysMatchSequential, Busy, local
<1>7. ASSUME NEW w \in Workers,
             \/ Wait(w) \/ Exit(w) \/ Lookup(w) \/ LookupDisk(w)
             \/ TakeSnapshot(w) \/ Acquire(w) \/ Dispatch(w) \/ Put(w) \/ PutDisk(w)
      PROVE  KeysKnown'
  <2>1. UNCHANGED <<stage, key, results, stage_hashes>>
    BY <1>7 DEF Wait, Exit, Lookup, LookupDisk, TakeSnapshot, Acquire, Dispatch,
                Put, PutDisk, scheduler, local
  <2>2. /\ pc[w] # "hash"
        /\ \/ pc[w] \in Processing
           \/ pc'[w] \notin Processing
        /\ \A x \in Workers : x # w => pc'[x] = pc[x]
    BY <1>1, <1>7 DEF Wait, Exit, Lookup, LookupDisk, TakeSnapshot, Acquire,
                      Dispatch, Put, PutDisk, Goto, Processing, Labels
  <2> QED
    BY <2>1, <2>2 DEF KeysKnown, KeysMatchSequential, Busy
<1>8. CASE UNCHANGED vars
  BY <1>8 DEF vars, scheduler, local, KeysKnown, KeysMatchSequential, Busy
<1>9. ASSUME NEW w \in Workers,
             PublishCached(w) \/ PublishExecuted(w) \/ PublishFailed(w)
      PROVE  KeysKnown'
  <2>1. PICK status \in Ran : Finish(w, status)
    BY <1>9 DEF PublishCached, PublishExecuted, PublishFailed, Ran, Succeeded
  <2>2. pc[w] \in Processing \ {"hash"}
    BY <1>9 DEF PublishCached, PublishExecuted, PublishFailed, Processing, Labels
  <2> QED
    BY <2>1, <2>2, <1>4
<1> QED
  BY <1>2, <1>3, <1>5, <1>6, <1>7, <1>8, <1>9 DEF Next, Loop, process_stage

(***************************************************************************)
(* process_stage reads the hashes of its upstream without the mutex, and   *)
(* the key it computes is nevertheless the one a sequential run computes.  *)
(***************************************************************************)
THEOREM KeysAreSequential == Spec => []KeysMatchSequential
<1>1. Init => KeysKnown
  BY DEF Init, KeysKnown, KeysMatchSequential, Busy, Processing
<1>2. IInv /\ KeysKnown /\ [Next]_vars => KeysKnown'
  BY KeysKept
<1>3. KeysKnown => KeysMatchSequential
  BY DEF KeysKnown
<1> QED
  BY <1>1, <1>2, <1>3, Invariance, PTL DEF Spec
=============================================================================
