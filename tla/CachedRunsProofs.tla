-------------------------- MODULE CachedRunsProofs --------------------------
(***************************************************************************)
(* Theorems about CachedRuns, for every pipeline, every number of runs and *)
(* every mix of cache options, edits, failures and crashes.                *)
(***************************************************************************)
EXTENDS CachedRuns, IndexLemmas

N == Len(Order)
Good == {"Executed", "Cached"}
Ran == Good \cup {"Failed"}
Statuses == {"none", "Executed", "Cached", "Failed", "Skipped"}
Working == {"dispatch", "settle", "persist"}

(***************************************************************************)
(* Where a run is: the stages before next have a status, and the maps hold *)
(* what those statuses say.                                                *)
(***************************************************************************)
Progress ==
    /\ runs \in Nat
    /\ pc \in Working \cup {"idle", "stage"}
    /\ next \in 1..(N + 1)
    /\ results \in [Stages -> Statuses]
    /\ pc \in Working =>
         next <= N /\ ~ (encountered_failure /\ stop_on_first_failure)
    /\ \A i \in 1..N : results[Order[i]] = "none" <=> next <= i
    /\ encountered_failure <=> \E s \in Stages : results[s] = "Failed"
    /\ \A s \in Stages :
         results[s] = "Skipped" => encountered_failure /\ stop_on_first_failure
    /\ DOMAIN outputs = {s \in Stages : results[s] \in Good}
    /\ DOMAIN stage_hashes = {s \in Stages : results[s] \in Ran}
                             \cup (IF pc \in Working THEN {Current} ELSE {})

-----------------------------------------------------------------------------
(* Lemmas about the pipeline and the operators. *)

(* The stages are those of the order, each once, after what it refers to. *)
LEMMA OrderFacts ==
    /\ N \in Nat
    /\ \A i \in 1..N : Order[i] \in Stages
    /\ \A s \in Stages : \E i \in 1..N : s = Order[i]
    /\ \A i, j \in 1..N : Order[i] = Order[j] => i = j
    /\ \A j \in 1..N : \A u \in Upstream[Order[j]] :
         \E i \in 1..N : i < j /\ u = Order[i]
BY CachedRunsAssumption DEF Stages, N

(* With adds to a function or replaces in it. *)
LEMMA WithIs ==
    ASSUME NEW f, NEW s, NEW v
    PROVE  /\ DOMAIN With(f, s, v) = DOMAIN f \cup {s}
           /\ With(f, s, v)[s] = v
           /\ \A u \in DOMAIN f : u # s => With(f, s, v)[u] = f[u]
BY DEF With

(* The current stage has no status yet, and what it refers to has one. *)
LEMMA CurrentFacts ==
    ASSUME Progress, next <= N
    PROVE  /\ Current \in Stages
           /\ results[Current] = "none"
           /\ Current \notin DOMAIN outputs
           /\ next \in 1..N
           /\ \A u \in Upstream[Current] : u \in Stages /\ results[u] # "none"
<1>1. next \in 1..N
  BY OrderFacts DEF Progress
<1>2. Current \in Stages /\ results[Current] = "none"
  BY <1>1, OrderFacts DEF Progress, Current
<1>3. ASSUME NEW u \in Upstream[Current]
      PROVE  u \in Stages /\ results[u] # "none"
  <2>1. PICK i \in 1..N : i < next /\ u = Order[i]
    BY <1>1, OrderFacts DEF Current
  <2> QED
    BY <1>1, <2>1, OrderFacts DEF Progress
<1> QED
  BY <1>1, <1>2, <1>3 DEF Progress, Good

-----------------------------------------------------------------------------
(* The progress of a run. *)

(* A stage gets its status and the loop goes on. *)
LEMMA StatusKeeps ==
    ASSUME Progress, next <= N, NEW status \in Statuses \ {"none"},
           runs' = runs, next' = next + 1,
           results' = [results EXCEPT ![Current] = status],
           encountered_failure' <=> encountered_failure \/ status = "Failed"
    PROVE  /\ next' \in 1..(N + 1)
           /\ results' \in [Stages -> Statuses]
           /\ results'[Current] = status
           /\ \A s \in Stages : s # Current => results'[s] = results[s]
           /\ \A i \in 1..N : results'[Order[i]] = "none" <=> next' <= i
           /\ encountered_failure' <=> \E s \in Stages : results'[s] = "Failed"
<1>1. Current \in Stages /\ results[Current] = "none" /\ next \in 1..N
  BY CurrentFacts
<1>2. /\ results' \in [Stages -> Statuses]
      /\ results'[Current] = status
      /\ \A s \in Stages : s # Current => results'[s] = results[s]
  BY <1>1 DEF Progress
<1>3. ASSUME NEW i \in 1..N
      PROVE  results'[Order[i]] = "none" <=> next' <= i
  <2>1. CASE i = next
    BY <1>1, <1>2, <2>1, OrderFacts DEF Current
  <2>2. CASE i # next
    <3>1. Order[i] # Current /\ Order[i] \in Stages
      BY <1>1, <2>2, OrderFacts DEF Current
    <3>2. next <= i <=> next' <= i
      BY <1>1, <2>2, OrderFacts
    <3> QED
      BY <1>2, <3>1, <3>2 DEF Progress
  <2> QED
    BY <2>1, <2>2
<1>4. encountered_failure' <=> \E s \in Stages : results'[s] = "Failed"
  BY <1>1, <1>2 DEF Progress
<1> QED
  BY <1>1, <1>2, <1>3, <1>4, OrderFacts

(* StageDone does that, whether the stage ran or not. *)
LEMMA DoneKeepsProgress ==
    ASSUME Progress, next <= N, NEW status \in Ran, NEW key,
           ~ (encountered_failure /\ stop_on_first_failure),
           UNCHANGED runs,
           encountered_failure' <=> encountered_failure \/ status = "Failed",
           StageDone(status, key),
           DOMAIN outputs' = DOMAIN outputs
                             \cup (IF status = "Failed" THEN {} ELSE {Current})
    PROVE  Progress'
<1>1. Current \in Stages /\ results[Current] = "none"
  BY CurrentFacts
<1>2. /\ next' = next + 1 /\ pc' = "stage"
      /\ results' = [results EXCEPT ![Current] = status]
      /\ status \in Statuses \ {"none"}
      /\ DOMAIN stage_hashes' = DOMAIN stage_hashes \cup {Current}
  BY WithIs DEF StageDone, Ran, Good, Statuses
<1>3. /\ next' \in 1..(N + 1)
      /\ results' \in [Stages -> Statuses]
      /\ results'[Current] = status
      /\ \A s \in Stages : s # Current => results'[s] = results[s]
      /\ \A i \in 1..N : results'[Order[i]] = "none" <=> next' <= i
      /\ encountered_failure' <=> \E s \in Stages : results'[s] = "Failed"
  BY <1>2, StatusKeeps
<1>4. \A s \in Stages : results'[s] # "Skipped"
  BY <1>1, <1>2, <1>3 DEF Progress, Ran, Good
<1>5. DOMAIN outputs' = {s \in Stages : results'[s] \in Good}
  BY <1>1, <1>3 DEF Progress, Ran, Good
<1>6. DOMAIN stage_hashes' = {s \in Stages : results'[s] \in Ran}
  <2>1. DOMAIN stage_hashes \cup {Current} = {s \in Stages : results[s] \in Ran} \cup {Current}
    BY <1>1 DEF Progress
  <2> QED
    BY <1>1, <1>2, <1>3, <2>1
<1> QED
  BY <1>2, <1>3, <1>4, <1>5, <1>6 DEF Progress, Working
(* A run that starts, and a process that ends, leave nothing of the last. *)
LEMMA ResetProgress ==
    ASSUME runs' \in Nat, pc' \in {"idle", "stage"}, next' = 1,
           results' = [s \in Stages |-> "none"], stage_hashes' = <<>>,
           outputs' = <<>>, encountered_failure' = FALSE
    PROVE  Progress'
<1>1. next' \in 1..(N + 1) /\ \A i \in 1..N : next' <= i
  BY OrderFacts
<1>2. /\ results' \in [Stages -> Statuses]
      /\ \A s \in Stages : results'[s] = "none"
      /\ \A i \in 1..N : results'[Order[i]] = "none"
  BY OrderFacts DEF Statuses
<1>3. DOMAIN outputs' = {} /\ DOMAIN stage_hashes' = {}
  OBVIOUS
<1> QED
  BY <1>1, <1>2, <1>3 DEF Progress, Working, Ran, Good

(* A step inside a stage, or outside of the loop. *)
LEMMA WithinKeepsProgress ==
    ASSUME Progress,
           UNCHANGED <<runs, next, results, encountered_failure>>,
           DOMAIN outputs' = DOMAIN outputs,
           \/ /\ pc \in {"stage", "dispatch", "settle"} /\ pc' \in Working
              /\ next <= N /\ ~ (encountered_failure /\ stop_on_first_failure)
              /\ DOMAIN stage_hashes' = DOMAIN stage_hashes \cup {Current}
           \/ /\ pc' \in {"idle", "stage"} /\ pc \notin Working
              /\ UNCHANGED stage_hashes
    PROVE  Progress'
<1>1. Current' = Current
  BY DEF Current
<1>2. DOMAIN stage_hashes' = {s \in Stages : results'[s] \in Ran}
                             \cup (IF pc' \in Working THEN {Current'} ELSE {})
  <2>1. CASE pc' \in Working
    BY <1>1, <2>1 DEF Progress, Working
  <2>2. CASE pc' \notin Working
    BY <2>2 DEF Progress
  <2> QED
    BY <2>1, <2>2
<1>3. pc' \in Working => next <= N /\ ~ (encountered_failure /\ stop_on_first_failure)
  BY DEF Working
<1> QED
  BY <1>2, <1>3 DEF Progress

(* Skipping a stage after a failure. *)
LEMMA SkipKeepsProgress ==
    ASSUME Progress, SkipStage
    PROVE  Progress'
<1>1. /\ next <= N /\ next' = next + 1
      /\ results' = [results EXCEPT ![Current] = "Skipped"]
      /\ encountered_failure /\ stop_on_first_failure /\ pc = "stage"
      /\ UNCHANGED <<runs, pc, stage_hashes, outputs, encountered_failure>>
  BY DEF SkipStage, N
<1>2. Current \in Stages /\ results[Current] = "none"
  BY <1>1, CurrentFacts
<1>3. /\ next' \in 1..(N + 1)
      /\ results' \in [Stages -> Statuses]
      /\ results'[Current] = "Skipped"
      /\ \A s \in Stages : s # Current => results'[s] = results[s]
      /\ \A i \in 1..N : results'[Order[i]] = "none" <=> next' <= i
      /\ encountered_failure' <=> \E s \in Stages : results'[s] = "Failed"
  BY <1>1, StatusKeeps DEF Statuses
<1>4. ASSUME NEW s \in Stages
      PROVE  /\ results'[s] \in Good <=> results[s] \in Good
             /\ results'[s] \in Ran <=> results[s] \in Ran
  <2>1. CASE s = Current
    BY <1>2, <1>3, <2>1 DEF Good, Ran
  <2>2. CASE s # Current
    BY <1>3, <2>2
  <2> QED
    BY <2>1, <2>2
<1>5. /\ DOMAIN outputs' = {s \in Stages : results'[s] \in Good}
      /\ DOMAIN stage_hashes' = {s \in Stages : results'[s] \in Ran}
  BY <1>1, <1>4 DEF Progress, Working
<1> QED
  BY <1>1, <1>3, <1>5 DEF Progress, Working

(* A stage that ran, or was found in a cache. *)
LEMMA SucceedKeepsProgress ==
    ASSUME Progress, next <= N, NEW status \in Good, NEW key, NEW out,
           ~ (encountered_failure /\ stop_on_first_failure),
           UNCHANGED <<runs, encountered_failure>>,
           StageDone(status, key), outputs' = With(outputs, Current, out)
    PROVE  Progress'
<1>1. DOMAIN outputs' = DOMAIN outputs \cup {Current}
  BY WithIs
<1>2. status \in Ran /\ status # "Failed"
  BY DEF Good, Ran
<1> QED
  BY <1>1, <1>2, DoneKeepsProgress

(* What a failure does to the maps. *)
LEMMA FailKeepsProgress ==
    ASSUME Progress, pc \in Working, FailStage, UNCHANGED runs
    PROVE  Progress'
<1>1. /\ StageDone("Failed", stage_hashes[Current]) /\ UNCHANGED outputs
      /\ encountered_failure' = TRUE
  BY DEF FailStage
<1> QED
  BY <1>1, DoneKeepsProgress DEF Progress, Ran

(* Every step of a run, one action at a time. *)
LEMMA RunKeepsProgress ==
    ASSUME Progress, Run
    PROVE  Progress'
<1>1. CASE SkipStage
  BY <1>1, SkipKeepsProgress
<1>2. CASE LookupStage
  <2> DEFINE key == KeyOf(Current)
  <2>1. /\ next <= N /\ pc = "stage" /\ UNCHANGED <<runs, encountered_failure>>
        /\ ~ (encountered_failure /\ stop_on_first_failure)
    BY <1>2 DEF LookupStage, N
  <2>2. ASSUME NEW out, outputs' = With(outputs, Current, out), StageDone("Cached", key)
        PROVE  Progress'
    <3> HIDE DEF key
    <3> QED
      BY <2>1, <2>2, SucceedKeepsProgress DEF Good
  <2>3. ASSUME stage_hashes' = With(stage_hashes, Current, key), pc' = "dispatch",
               UNCHANGED <<outputs, next, results>>
        PROVE  Progress'
    <3> HIDE DEF key
    <3> QED
      BY <2>1, <2>3, WithinKeepsProgress, WithIs DEF Working
  <2> QED
    BY <1>2, <2>2, <2>3 DEF LookupStage
<1>3. CASE DispatchRefused \/ SettleFailure
  BY <1>3, FailKeepsProgress DEF DispatchRefused, SettleFailure, Working
<1>4. CASE CallPlugin
  <2>1. /\ pc = "dispatch" /\ pc' = "settle"
        /\ UNCHANGED <<runs, next, results, stage_hashes, outputs, encountered_failure>>
    BY <1>4 DEF CallPlugin, progress
  <2>2. Current \in DOMAIN stage_hashes
    BY <2>1 DEF Progress, Working
  <2> QED
    BY <2>1, <2>2, WithinKeepsProgress DEF Working, Progress
<1>5. CASE SettleSuccess
  <2>1. pc = "settle" /\ UNCHANGED <<runs, encountered_failure>>
    BY <1>5 DEF SettleSuccess
  <2>2. Current \in DOMAIN stage_hashes
    BY <2>1 DEF Progress, Working
  <2>3. CASE pc' = "persist" /\ UNCHANGED <<next, results, stage_hashes, outputs>>
    BY <2>1, <2>2, <2>3, WithinKeepsProgress DEF Working, Progress
  <2>4. CASE /\ outputs' = With(outputs, Current, NewOutput)
             /\ StageDone("Executed", stage_hashes[Current])
    BY <2>1, <2>4, SucceedKeepsProgress DEF Progress, Working, Good
  <2> QED
    BY <1>5, <2>3, <2>4 DEF SettleSuccess
<1>6. CASE PersistStage
  <2>1. /\ pc = "persist" /\ UNCHANGED <<runs, encountered_failure>>
        /\ outputs' = With(outputs, Current, PathOutput(WholePath))
        /\ StageDone("Executed", stage_hashes[Current])
    BY <1>6 DEF PersistStage
  <2> QED
    BY <2>1, SucceedKeepsProgress DEF Progress, Working, Good
<1>7. CASE ReturnResult
  BY <1>7, WithinKeepsProgress DEF ReturnResult, progress, Working
<1> QED
  BY <1>1, <1>2, <1>3, <1>4, <1>5, <1>6, <1>7 DEF Run

(* A run's steps, and what happens between runs. *)
LEMMA NextKeepsProgress ==
    ASSUME Progress, [Next]_vars
    PROVE  Progress'
<1>1. CASE StartRun
  <2>1. runs' \in Nat
    BY <1>1 DEF StartRun, Progress
  <2> QED
    BY <1>1, <2>1, ResetProgress DEF StartRun
<1>2. CASE ProcessEnds
  BY <1>2, ResetProgress DEF ProcessEnds, Progress
<1>3. CASE EditInput \/ DeleteArtifact
  BY <1>3, WithinKeepsProgress DEF EditInput, DeleteArtifact, progress, Working
<1>4. CASE UNCHANGED vars
  BY <1>4 DEF vars, progress, Progress, Current
<1> QED
  BY <1>1, <1>2, <1>3, <1>4, RunKeepsProgress DEF Next

(* Nothing has run yet. *)
LEMMA InitProgress ==
    ASSUME Init
    PROVE  Progress
<1>1. next \in 1..(N + 1) /\ \A i \in 1..N : next <= i
  BY OrderFacts DEF Init
<1>2. /\ results \in [Stages -> Statuses]
      /\ \A s \in Stages : results[s] = "none"
      /\ \A i \in 1..N : results[Order[i]] = "none"
  BY OrderFacts DEF Init, Statuses
<1>3. DOMAIN outputs = {} /\ DOMAIN stage_hashes = {}
  BY DEF Init
<1> QED
  BY <1>1, <1>2, <1>3 DEF Init, Progress, Working, Ran, Good

-----------------------------------------------------------------------------
(* The cached runner implements PipelineRun. *)

(* A stage that is not skipped comes after upstreams it may use. *)
LEMMA CurrentIsEligible ==
    ASSUME Progress, next <= N, ~ (encountered_failure /\ stop_on_first_failure)
    PROVE  Promise!Eligible(Current)
<1>1. /\ results[Current] = "none"
      /\ \A u \in Upstream[Current] : u \in Stages /\ results[u] # "none"
  BY CurrentFacts
<1>2. ASSUME NEW u \in Upstream[Current]
      PROVE  results[u] \in Good
                \cup (IF stop_on_first_failure THEN {} ELSE {"Failed"})
  <2>1. results[u] \in Statuses \ {"none", "Skipped"}
    BY <1>1 DEF Progress
  <2>2. results[u] = "Failed" => encountered_failure
    BY <1>1 DEF Progress
  <2> QED
    BY <2>1, <2>2 DEF Statuses, Good
<1> QED
  BY <1>1, <1>2 DEF Promise!Eligible, Good

(* A stage that ends well, executed or taken from a cache, is a success of
   PipelineRun. *)
LEMMA SucceedIsPromised ==
    ASSUME Progress, next <= N, pc # "idle", NEW status \in Good, NEW key, NEW out,
           ~ (encountered_failure /\ stop_on_first_failure),
           StageDone(status, key), outputs' = With(outputs, Current, out)
    PROVE  Promise!RunNext
<1>1. Current \in Stages /\ Promise!Eligible(Current)
  BY CurrentFacts, CurrentIsEligible
<1>2. DOMAIN outputs' = DOMAIN outputs \cup {Current}
  BY WithIs
<1>3. pc' # "idle" /\ results' = [results EXCEPT ![Current] = status]
  BY DEF StageDone
<1>4. Promise!Succeed(Current)
  BY <1>1, <1>2, <1>3 DEF Promise!Succeed, Good
<1> QED
  BY <1>1, <1>4 DEF Promise!RunNext

(* A stage that fails is a failure of PipelineRun. *)
LEMMA FailIsPromised ==
    ASSUME Progress, pc \in Working, FailStage
    PROVE  Promise!RunNext
<1>1. Current \in Stages /\ Promise!Eligible(Current) /\ pc # "idle"
  BY CurrentFacts, CurrentIsEligible DEF Progress, Working
<1>2. /\ pc' # "idle" /\ UNCHANGED outputs
      /\ results' = [results EXCEPT ![Current] = "Failed"]
  BY DEF FailStage, StageDone
<1>3. Promise!Fail(Current)
  BY <1>1, <1>2 DEF Promise!Fail
<1> QED
  BY <1>1, <1>3 DEF Promise!RunNext

(* Every step of a run is a step of PipelineRun or none. *)
LEMMA RunIsPromised ==
    ASSUME Progress, Run
    PROVE  Promise!RunNext \/ UNCHANGED Promise!runVars
<1>1. CASE SkipStage
  <2>1. /\ next <= N /\ pc = "stage" /\ pc' = "stage" /\ UNCHANGED outputs
        /\ encountered_failure /\ stop_on_first_failure
        /\ results' = [results EXCEPT ![Current] = "Skipped"]
    BY <1>1 DEF SkipStage, N
  <2>2. Current \in Stages /\ results[Current] = "none" /\ Promise!Failure
    BY <2>1, CurrentFacts DEF Progress, Promise!Failure
  <2>3. Promise!Skip(Current)
    BY <2>1, <2>2 DEF Promise!Skip
  <2> QED
    BY <2>1, <2>2, <2>3 DEF Promise!RunNext
<1>2. CASE LookupStage
  <2> DEFINE key == KeyOf(Current)
  <2>1. /\ next <= N /\ pc = "stage"
        /\ ~ (encountered_failure /\ stop_on_first_failure)
    BY <1>2 DEF LookupStage, N
  <2>2. ASSUME NEW out, outputs' = With(outputs, Current, out), StageDone("Cached", key)
        PROVE  Promise!RunNext
    <3> HIDE DEF key
    <3> QED
      BY <2>1, <2>2, SucceedIsPromised DEF Good
  <2>3. CASE pc' = "dispatch" /\ UNCHANGED <<outputs, results>>
    BY <2>1, <2>3 DEF Promise!runVars
  <2> QED
    BY <1>2, <2>2, <2>3 DEF LookupStage
<1>3. CASE DispatchRefused \/ SettleFailure
  BY <1>3, FailIsPromised DEF DispatchRefused, SettleFailure, Working
<1>4. CASE CallPlugin
  BY <1>4 DEF CallPlugin, progress, Promise!runVars
<1>5. CASE SettleSuccess
  <2>1. pc = "settle"
    BY <1>5 DEF SettleSuccess
  <2>2. CASE pc' = "persist" /\ UNCHANGED <<results, outputs>>
    BY <2>1, <2>2 DEF Promise!runVars
  <2>3. CASE /\ outputs' = With(outputs, Current, NewOutput)
             /\ StageDone("Executed", stage_hashes[Current])
    BY <2>1, <2>3, SucceedIsPromised DEF Progress, Working, Good
  <2> QED
    BY <1>5, <2>2, <2>3 DEF SettleSuccess
<1>6. CASE PersistStage
  <2>1. /\ pc = "persist" /\ outputs' = With(outputs, Current, PathOutput(WholePath))
        /\ StageDone("Executed", stage_hashes[Current])
    BY <1>6 DEF PersistStage
  <2> QED
    BY <2>1, SucceedIsPromised DEF Progress, Working, Good
<1>7. CASE ReturnResult
  <2>1. /\ pc = "stage" /\ pc' = "idle" /\ next > N
        /\ UNCHANGED <<results, outputs>>
    BY <1>7 DEF ReturnResult, progress, N
  <2>2. \A s \in Stages : results[s] # "none"
    <3>1. \A i \in 1..N : results[Order[i]] # "none"
      BY <2>1, OrderFacts DEF Progress
    <3> QED
      BY <3>1, OrderFacts
  <2>3. results' = [s \in Stages |-> IF results[s] = "none" THEN "Skipped" ELSE results[s]]
    BY <2>1, <2>2 DEF Progress
  <2>4. Promise!Return
    BY <2>1, <2>2, <2>3 DEF Promise!Return
  <2> QED
    BY <2>4 DEF Promise!RunNext
<1> QED
  BY <1>1, <1>2, <1>3, <1>4, <1>5, <1>6, <1>7 DEF Run

(***************************************************************************)
(* ImplementsRun: from where the run is, each step of the cached runner is *)
(* one that PipelineRun allows, a new run or the end of the process.       *)
(***************************************************************************)
THEOREM CachedRunnerImplementsRun == Spec => ImplementsRun
<1> DEFINE Step == \/ Promise!RunNext
                   \/ pc = "idle" /\ pc' = "stage"
                   \/ pc' = "idle" /\ cache' = {}
<1>1. Init => Progress
  BY InitProgress
<1>2. Progress /\ [Next]_vars => Progress'
  BY NextKeepsProgress
<1>3. Progress /\ [Next]_vars => [Step]_(Promise!runVars)
  <2> SUFFICES ASSUME Progress, [Next]_vars
               PROVE  Step \/ UNCHANGED Promise!runVars
    OBVIOUS
  <2>1. CASE StartRun
    BY <2>1 DEF StartRun
  <2>2. CASE Run
    BY <2>2, RunIsPromised
  <2>3. CASE ProcessEnds
    BY <2>3 DEF ProcessEnds
  <2>4. CASE EditInput \/ DeleteArtifact
    BY <2>4 DEF EditInput, DeleteArtifact, progress, Promise!runVars
  <2>5. CASE UNCHANGED vars
    BY <2>5 DEF vars, progress, Promise!runVars
  <2> QED
    BY <2>1, <2>2, <2>3, <2>4, <2>5 DEF Next
<1> QED
  BY <1>1, <1>2, <1>3, PTL DEF Spec, ImplementsRun

-----------------------------------------------------------------------------
(* Who owns the handles. *)

(* The handles of a call that is not settled yet. *)
Pending == IF pc = "settle" THEN {HandleOf(h) : h \in call.handles} ELSE {}

AllOwned == OwnedByRun \cup OwnedByCache

(* A handle that is owned was named before the current stage was called. *)
NamedBefore ==
    \A r \in Nat, s \in Stages, k \in Kinds :
        <<r, s, k>> \in AllOwned => r < runs \/ (r = runs /\ results[s] # "none")

(* What the call returned, and that it was given what it needs. *)
Called ==
    pc = "settle" => /\ call \in CallResult(Ns[Current])
                     /\ Resolved(Ns[Current], Refs[Current], KindOf)

(* A stage is run only for want of an entry under its key. *)
Missed ==
    use_cache /\ pc \in {"dispatch", "settle"} =>
        \A e \in cache : e.key # stage_hashes[Current]

Handling ==
    /\ live = AllOwned \cup Pending
    /\ NamedBefore
    /\ Called
    /\ Missed

(* Who owns x. *)
LEMMA OwnersAre ==
    /\ \A x : x \in OwnedByRun <=> \E u \in DOMAIN outputs : x \in Owned(outputs[u])
    /\ \A x : x \in OwnedByCache <=> \E e \in cache : x \in Owned(e.out)
BY DEF OwnedByRun, OwnedByCache

(* An output added for a stage that had none. *)
LEMMA OwnedWith ==
    ASSUME NEW s, s \notin DOMAIN outputs, NEW out, outputs' = With(outputs, s, out)
    PROVE  OwnedByRun' = OwnedByRun \cup Owned(out)
<1>1. /\ DOMAIN outputs' = DOMAIN outputs \cup {s} /\ outputs'[s] = out
      /\ \A u \in DOMAIN outputs : outputs'[u] = outputs[u]
  <2>1. /\ DOMAIN With(outputs, s, out) = DOMAIN outputs \cup {s}
        /\ With(outputs, s, out)[s] = out
        /\ \A u \in DOMAIN outputs : u # s => With(outputs, s, out)[u] = outputs[u]
    BY DEF With
  <2> QED
    BY <2>1
<1>2. OwnedByRun' = UNION {Owned(outputs'[u]) : u \in DOMAIN outputs'}
  BY DEF OwnedByRun, Owned
<1>3. ASSUME NEW x
      PROVE  x \in OwnedByRun' <=> x \in OwnedByRun \cup Owned(out)
  BY <1>1, <1>2, OwnersAre
<1> QED
  BY <1>3

(* A path owns nothing. *)
LEMMA PathsOwnNothing == \A path : Owned(PathOutput(path)) = {}
BY DEF Owned, PathOutput

(* A call that succeeded, other than a writer's, left exactly one handle. *)
LEMMA OneHandle ==
    ASSUME Called, pc = "settle", Succeeded(Ns[Current], call), Ns[Current] # "writer"
    PROVE  \E h \in Handles(Ns[Current]) :
             call.handles = {h} /\ OutputKind(Ns[Current], call) = h
<1>1. call.handles \subseteq Handles(Ns[Current])
  BY DEF Called, CallResult
<1>2. IsFiniteSet({"Mesh", "Geometry", "Field"})
  <2>1. IsFiniteSet({"Mesh"}) /\ IsFiniteSet({"Geometry"}) /\ IsFiniteSet({"Field"})
    BY FS_Singleton
  <2>2. IsFiniteSet({"Mesh"} \cup {"Geometry"} \cup {"Field"})
    BY <2>1, FS_Union
  <2>3. {"Mesh", "Geometry", "Field"} = {"Mesh"} \cup {"Geometry"} \cup {"Field"}
    OBVIOUS
  <2> QED
    BY <2>2, <2>3
<1>3. Cardinality(call.handles) = 1 /\ IsFiniteSet(call.handles)
  <2>1. call.handles \subseteq {"Mesh", "Geometry", "Field"}
    BY <1>1 DEF Handles
  <2> QED
    BY <1>2, <2>1, FS_Subset DEF Succeeded
<1>4. PICK h : call.handles = {h}
  BY <1>3, FS_Singleton
<1> QED
  BY <1>1, <1>4 DEF OutputKind

(* The handle of a call is the one its output owns. *)
LEMMA NewOutputOwns ==
    ASSUME Called, pc = "settle", Succeeded(Ns[Current], call)
    PROVE  Owned(NewOutput) = Pending
<1>1. CASE Ns[Current] = "writer"
  <2>1. call.handles = {}
    BY <1>1 DEF Called, CallResult, Handles
  <2> QED
    BY <1>1, <2>1, PathsOwnNothing DEF Pending, NewOutput, OutputKind
<1>2. CASE Ns[Current] # "writer"
  <2>1. PICK h \in Handles(Ns[Current]) :
          call.handles = {h} /\ OutputKind(Ns[Current], call) = h
    BY <1>2, OneHandle
  <2>2. h # "Path"
    BY DEF Handles
  <2> QED
    BY <2>1, <2>2 DEF Pending, NewOutput, Owned
<1> QED
  BY <1>1, <1>2

(* The names stay old when the owned handles stay and stages get results. *)
LEMMA NamesKept ==
    ASSUME Progress, NamedBefore, UNCHANGED runs, AllOwned' \subseteq AllOwned,
           \/ UNCHANGED results
           \/ \E status \in Statuses \ {"none"} :
                results' = [results EXCEPT ![Current] = status]
    PROVE  NamedBefore'
<1>1. \A s \in Stages : results[s] # "none" => results'[s] # "none"
  BY DEF Progress
<1> QED
  BY <1>1 DEF NamedBefore

(* A step that moves no handle. *)
LEMMA SameHandles ==
    ASSUME Progress, Handling, UNCHANGED <<runs, live>>, AllOwned' = AllOwned,
           pc # "settle", pc' # "settle",
           \/ UNCHANGED results
           \/ \E status \in Statuses \ {"none"} :
                results' = [results EXCEPT ![Current] = status],
           pc' = "dispatch" => Missed'
    PROVE  Handling'
<1>1. NamedBefore'
  BY NamesKept DEF Handling
<1>2. Pending' = Pending
  BY DEF Pending
<1> QED
  BY <1>1, <1>2 DEF Handling, Called, Missed

(* A memory hit shares the handle of the entry; a disk hit has none. *)
LEMMA LookupKeepsHandles ==
    ASSUME Progress, Handling, LookupStage
    PROVE  Handling'
<1> DEFINE key == KeyOf(Current)
<1>1. /\ pc = "stage" /\ next <= N /\ UNCHANGED <<runs, live>>
      /\ Current \notin DOMAIN outputs
  BY CurrentFacts DEF LookupStage, N
<1>2. ASSUME NEW e \in cache, outputs' = With(outputs, Current, e.out),
             StageDone("Cached", key), UNCHANGED cache
      PROVE  Handling'
  <2>1. OwnedByRun' = OwnedByRun \cup Owned(e.out) /\ OwnedByCache' = OwnedByCache
    BY <1>1, <1>2, OwnedWith DEF OwnedByCache, Owned
  <2>2. AllOwned' = AllOwned
    BY <2>1, OwnersAre DEF AllOwned
  <2> HIDE DEF key
  <2> QED
    BY <1>1, <1>2, <2>2, SameHandles DEF StageDone, Statuses
<1>3. ASSUME NEW out, Owned(out) = {}, outputs' = With(outputs, Current, out),
             StageDone("Cached", key), cache' = cache \cup {[key |-> key, out |-> out]}
      PROVE  Handling'
  <2> HIDE DEF key
  <2>1. OwnedByRun' = OwnedByRun
    BY <1>1, <1>3, OwnedWith
  <2>2. OwnedByCache' = OwnedByCache
    <3>1. OwnedByCache' = UNION {Owned(e.out) : e \in cache'}
      BY DEF OwnedByCache, Owned
    <3>2. ASSUME NEW x
          PROVE  x \in OwnedByCache' <=> x \in OwnedByCache
      BY <1>3, <3>1, OwnersAre
    <3> QED
      BY <3>2
  <2> QED
    BY <1>1, <1>3, <2>1, <2>2, SameHandles DEF StageDone, Statuses, AllOwned
<1>4. ASSUME stage_hashes' = With(stage_hashes, Current, key), pc' = "dispatch",
             UNCHANGED <<cache, outputs, next, results>>,
             ~ use_cache \/ {e \in cache : e.key = key} = {}
      PROVE  Handling'
  <2>1. AllOwned' = AllOwned
    BY <1>4 DEF AllOwned, OwnedByRun, OwnedByCache, Owned
  <2>2. Current' = Current /\ stage_hashes'[Current'] = key
    BY <1>4 DEF Current, With
  <2>3. Missed'
    BY <1>4, <2>2 DEF Missed
  <2> QED
    BY <1>1, <1>4, <2>1, <2>3, SameHandles
<1> QED
  BY <1>2, <1>3, <1>4, PathsOwnNothing DEF LookupStage

(* What a failed call left is freed, and nothing else is. *)
LEMMA SettleFailureKeepsHandles ==
    ASSUME Progress, Handling, SettleFailure
    PROVE  Handling'
<1>1. /\ pc = "settle" /\ pc' = "stage" /\ UNCHANGED <<runs, cache, outputs>>
      /\ live' = live \ Pending
      /\ results' = [results EXCEPT ![Current] = "Failed"]
  BY DEF SettleFailure, FailStage, StageDone, Pending
<1>2. AllOwned' = AllOwned
  BY <1>1 DEF AllOwned, OwnedByRun, OwnedByCache, Owned
<1>3. AllOwned \cap Pending = {}
  <2>1. /\ Current \in Stages /\ results[Current] = "none" /\ runs \in Nat
    BY <1>1, CurrentFacts DEF Progress, Working
  <2>2. call.handles \subseteq Kinds
    BY <1>1 DEF Handling, Called, CallResult, Handles, Kinds
  <2>3. ASSUME NEW h \in call.handles PROVE HandleOf(h) \notin AllOwned
    BY <2>1, <2>2 DEF Handling, NamedBefore, HandleOf
  <2> QED
    BY <1>1, <2>3 DEF Pending
<1>4. live' = AllOwned'
  BY <1>1, <1>2, <1>3 DEF Handling
<1>5. NamedBefore'
  BY <1>1, <1>2, NamesKept DEF Handling, Statuses
<1> QED
  BY <1>1, <1>4, <1>5 DEF Handling, Pending, Called, Missed

(* The plugin's new handle is in flight until the call is settled. *)
LEMMA CallKeepsHandles ==
    ASSUME Progress, Handling, CallPlugin
    PROVE  Handling'
<1>1. /\ pc = "dispatch" /\ pc' = "settle"
      /\ UNCHANGED <<runs, cache, next, results, stage_hashes, outputs>>
      /\ Resolved(Ns[Current], Refs[Current], KindOf)
      /\ call' \in CallResult(Ns[Current])
      /\ live' = live \cup {HandleOf(h) : h \in call'.handles}
  BY DEF CallPlugin, progress
<1>2. AllOwned' = AllOwned
  BY <1>1 DEF AllOwned, OwnedByRun, OwnedByCache, Owned
<1>3. Current' = Current /\ KindOf' = KindOf
  BY <1>1 DEF Current, KindOf
<1>4. Pending' = {HandleOf(h) : h \in call'.handles} /\ Pending = {}
  BY <1>1 DEF Pending, HandleOf, Current
<1>5. NamedBefore'
  BY <1>1, <1>2, NamesKept DEF Handling
<1>6. Called' /\ Missed'
  BY <1>1, <1>3 DEF Handling, Called, Missed
<1> QED
  BY <1>1, <1>2, <1>4, <1>5, <1>6 DEF Handling

(* The output of a call that succeeded owns its handle from then on. *)
LEMMA SettleSuccessKeepsHandles ==
    ASSUME Progress, Handling, SettleSuccess
    PROVE  Handling'
<1> DEFINE entry == [key |-> stage_hashes[Current], out |-> NewOutput]
<1>1. /\ pc = "settle" /\ UNCHANGED <<runs, live>>
      /\ Succeeded(Ns[Current], call)
      /\ cache' = IF use_cache
                  THEN {e \in cache : e.key # stage_hashes[Current]} \cup {entry}
                  ELSE cache
  BY DEF SettleSuccess
<1>2. Owned(NewOutput) = Pending
  BY <1>1, NewOutputOwns DEF Handling
<1>3. cache' = IF use_cache THEN cache \cup {entry} ELSE cache
  <2>1. use_cache => {e \in cache : e.key # stage_hashes[Current]} = cache
    BY <1>1 DEF Handling, Missed
  <2> HIDE DEF entry
  <2> QED
    BY <1>1, <2>1
<1>4. OwnedByCache' = IF use_cache THEN OwnedByCache \cup Pending ELSE OwnedByCache
  <2>1. OwnedByCache' = UNION {Owned(e.out) : e \in cache'}
    BY DEF OwnedByCache, Owned
  <2>2. entry.out = NewOutput
    OBVIOUS
  <2> HIDE DEF entry
  <2>3. ASSUME NEW x, use_cache
        PROVE  x \in OwnedByCache' <=> x \in OwnedByCache \cup Pending
    BY <1>2, <1>3, <2>1, <2>2, <2>3, OwnersAre
  <2> QED
    BY <1>3, <2>1, <2>3 DEF OwnedByCache
<1>5. CASE /\ use_cache /\ NewOutput.kind = "Path" /\ pc' = "persist"
           /\ UNCHANGED <<next, results, stage_hashes, outputs>>
  <2>1. Pending = {}
    BY <1>2, <1>5 DEF Owned
  <2>2. AllOwned' = AllOwned
    BY <1>4, <1>5, <2>1 DEF AllOwned, OwnedByRun, Owned
  <2>3. NamedBefore'
    BY <1>1, <1>5, <2>2, NamesKept DEF Handling
  <2> QED
    BY <1>1, <1>5, <2>1, <2>2, <2>3 DEF Handling, Called, Missed, Pending
<1>6. CASE /\ outputs' = With(outputs, Current, NewOutput)
           /\ StageDone("Executed", stage_hashes[Current])
  <2>1. /\ Current \in Stages /\ Current \notin DOMAIN outputs /\ next <= N
        /\ runs \in Nat
    BY <1>1, CurrentFacts DEF Progress, Working
  <2>2. OwnedByRun' = OwnedByRun \cup Pending
    BY <1>2, <1>6, <2>1, OwnedWith
  <2>3. AllOwned' = AllOwned \cup Pending
    BY <1>4, <2>2 DEF AllOwned
  <2>4. /\ pc' = "stage" /\ results'[Current] = "Executed"
        /\ \A s \in Stages : results[s] # "none" => results'[s] # "none"
    BY <1>6, <2>1 DEF StageDone, Progress
  <2>5. NamedBefore'
    <3>1. \A r, s, k : <<r, s, k>> \in Pending => r = runs /\ s = Current
      BY <1>1 DEF Pending, HandleOf
    <3> QED
      BY <1>1, <2>3, <2>4, <3>1 DEF Handling, NamedBefore
  <2>6. live' = AllOwned' /\ Pending' = {}
    BY <1>1, <2>3, <2>4 DEF Handling, Pending
  <2> QED
    BY <2>4, <2>5, <2>6 DEF Handling, Called, Missed
<1> QED
  BY <1>5, <1>6 DEF SettleSuccess

(* The path that replaces an output owns no handle. *)
LEMMA PersistKeepsHandles ==
    ASSUME Progress, Handling, PersistStage
    PROVE  Handling'
<1>1. /\ pc = "persist" /\ UNCHANGED <<runs, live, cache>>
      /\ outputs' = With(outputs, Current, PathOutput(WholePath))
      /\ StageDone("Executed", stage_hashes[Current])
  BY DEF PersistStage
<1>2. Current \notin DOMAIN outputs
  BY <1>1, CurrentFacts DEF Progress, Working
<1>3. OwnedByRun' = OwnedByRun /\ OwnedByCache' = OwnedByCache
  BY <1>1, <1>2, OwnedWith, PathsOwnNothing DEF OwnedByCache, Owned
<1> QED
  BY <1>1, <1>3, SameHandles DEF AllOwned, StageDone, Statuses

(* Every step of the system keeps account of the handles. *)
LEMMA NextKeepsHandles ==
    ASSUME Progress, Handling, [Next]_vars
    PROVE  Handling'
<1>1. CASE StartRun
  <2>1. /\ pc = "idle" /\ pc' = "stage" /\ runs' = runs + 1 /\ outputs' = <<>>
        /\ live' = live \cap OwnedByCache /\ UNCHANGED cache /\ runs \in Nat
    BY <1>1 DEF StartRun, Progress
  <2>2. AllOwned' = OwnedByCache
    BY <2>1 DEF AllOwned, OwnedByRun, OwnedByCache, Owned
  <2>3. live' = AllOwned'
    BY <2>1, <2>2 DEF Handling, AllOwned
  <2>4. NamedBefore'
    BY <2>1, <2>2 DEF Handling, NamedBefore, AllOwned
  <2> QED
    BY <2>1, <2>3, <2>4 DEF Handling, Pending, Called, Missed
<1>2. CASE ProcessEnds
  <2>1. /\ pc' = "idle" /\ outputs' = <<>> /\ cache' = {} /\ live' = {}
    BY <1>2 DEF ProcessEnds
  <2>2. AllOwned' = {}
    BY <2>1 DEF AllOwned, OwnedByRun, OwnedByCache, Owned
  <2> QED
    BY <2>1, <2>2 DEF Handling, Pending, Called, Missed, NamedBefore
<1>3. ASSUME UNCHANGED <<cache, outputs, live, runs>>, pc # "settle",
             pc' \in {"idle", "stage"},
             \/ UNCHANGED results
             \/ \E status \in Statuses \ {"none"} :
                  results' = [results EXCEPT ![Current] = status]
      PROVE  Handling'
  <2>1. AllOwned' = AllOwned
    BY <1>3 DEF AllOwned, OwnedByRun, OwnedByCache, Owned
  <2> QED
    BY <1>3, <2>1, SameHandles
<1>4. CASE EditInput \/ DeleteArtifact \/ ReturnResult
  BY <1>3, <1>4 DEF EditInput, DeleteArtifact, ReturnResult, progress
<1>5. CASE SkipStage
  BY <1>3, <1>5 DEF SkipStage, Statuses
<1>6. CASE DispatchRefused
  BY <1>3, <1>6 DEF DispatchRefused, FailStage, StageDone, Statuses
<1>7. CASE UNCHANGED vars
  <2>1. /\ UNCHANGED <<cache, outputs, live, runs, pc, next, results, call>>
        /\ UNCHANGED stage_hashes
    BY <1>7 DEF vars, progress
  <2>2. AllOwned' = AllOwned /\ Pending' = Pending
    BY <2>1 DEF AllOwned, OwnedByRun, OwnedByCache, Owned, Pending, HandleOf, Current
  <2>3. NamedBefore'
    BY <2>1, <2>2, NamesKept DEF Handling
  <2>4. Called' = Called /\ Missed' = Missed
    BY <2>1 DEF Called, Missed, KindOf, Current
  <2> QED
    BY <2>1, <2>2, <2>3, <2>4 DEF Handling
<1> QED
  BY <1>1, <1>2, <1>4, <1>5, <1>6, <1>7, LookupKeepsHandles, CallKeepsHandles,
     SettleFailureKeepsHandles, SettleSuccessKeepsHandles, PersistKeepsHandles
     DEF Next, Run

(* At first there are no handles. *)
LEMMA InitHandling ==
    ASSUME Init
    PROVE  Handling
<1>1. pc = "idle" /\ outputs = <<>> /\ cache = {} /\ live = {}
  BY DEF Init
<1>2. AllOwned = {}
  BY <1>1 DEF AllOwned, OwnedByRun, OwnedByCache
<1> QED
  BY <1>1, <1>2 DEF Handling, Pending, Called, Missed, NamedBefore

(***************************************************************************)
(* HandlesOwned: what a failed call left is freed once, what a call that   *)
(* succeeded left has an owner, and no owner is dropped with its handle.   *)
(***************************************************************************)
THEOREM HandlesHaveOwners == Spec => []HandlesOwned
<1>1. Init => Progress /\ Handling
  BY InitProgress, InitHandling
<1>2. Progress /\ Handling /\ [Next]_vars => (Progress /\ Handling)'
  BY NextKeepsProgress, NextKeepsHandles
<1>3. Handling => HandlesOwned
  BY DEF Handling, HandlesOwned, AllOwned, Pending
<1> QED
  BY <1>1, <1>2, <1>3, PTL DEF Spec

-----------------------------------------------------------------------------
(* What the stages would compute afresh. *)

(* Extra, for a given input file. *)
ExtraWith(i, s) == IF Ns[s] = "reader" THEN i ELSE 0

(* The slots of its input that a stage looks at. *)
Slotted(s) == Read(Ns[s]) \cap DOMAIN Refs[s]

(* The keys and the results of the stages, for a given input file. *)
FreshKeys(i) ==
    CHOOSE f : f = [s \in Stages |-> <<s, ExtraWith(i, s), [u \in Upstream[s] |-> f[u]]>>]
FreshWorks(i) ==
    CHOOSE f : f = [s \in Stages |-> <<s, ExtraWith(i, s),
                                      [slot \in Slotted(s) |-> f[Refs[s][slot]]]>>]

(* What a stage refers to. *)
LEMMA RefsAreUpstream ==
    ASSUME NEW s \in Stages
    PROVE  /\ Upstream[s] \subseteq Stages
           /\ \A slot \in DOMAIN Refs[s] : Refs[s][slot] \in Upstream[s]
BY CachedRunsAssumption DEF Upstream

(* Recursion along the references of the stages defines a function. *)
LEMMA StageTermsExist ==
    ASSUME NEW E, NEW D, NEW R,
           \A s \in Stages : \A x \in D[s] : R[s][x] \in Upstream[s]
    PROVE  \E f : f = Terms(Stages, E, D, R, f)
<1>1. InLine(Stages, Upstream, Order, N)
  BY OrderFacts DEF InLine
<1>2. Along(Stages, Upstream, D, R)
  BY DEF Along
<1> QED
  BY <1>1, <1>2, TermsExist

(* A term of two parts and a map. *)
LEMMA TermIs == \A a, b, c : <<a, b>> \o <<c>> = <<a, b, c>>
<1> SUFFICES ASSUME NEW a, NEW b, NEW c
             PROVE  <<a, b>> \o <<c>> = <<a, b, c>>
  OBVIOUS
<1> DEFINE S == {a, b, c}
           s == <<a, b>> \o <<c>>
<1>1. <<a, b>> \in Seq(S) /\ <<c>> \in Seq(S)
  OBVIOUS
<1>2. s \in Seq(S) /\ Len(s) = 3 /\ s[1] = a /\ s[2] = b /\ s[3] = c
  BY <1>1
<1> HIDE DEF s
<1>3. s = <<a, b, c>>
  BY <1>2
<1> QED
  BY <1>3 DEF s

(* The key of a stage, spelled out. *)
LEMMA FreshKeyIs ==
    ASSUME NEW i, NEW s \in Stages
    PROVE  FreshKeys(i)[s] =
             <<s, ExtraWith(i, s), [u \in Upstream[s] |-> FreshKeys(i)[u]]>>
<1> DEFINE E == [t \in Stages |-> <<t, ExtraWith(i, t)>>]
           R == [t \in Stages |-> [u \in Upstream[t] |-> u]]
<1>1. PICK f : f = Terms(Stages, E, Upstream, R, f)
  <2>1. \A t \in Stages : \A u \in Upstream[t] : R[t][u] \in Upstream[t]
    OBVIOUS
  <2> HIDE DEF E, R
  <2> QED
    BY <2>1, StageTermsExist
<1>2. f = [t \in Stages |-> <<t, ExtraWith(i, t), [u \in Upstream[t] |-> f[u]]>>]
  <2>1. ASSUME NEW t \in Stages
        PROVE  [u \in Upstream[t] |-> f[R[t][u]]] = [u \in Upstream[t] |-> f[u]]
    OBVIOUS
  <2>2. \A m : \A t \in Stages : E[t] \o <<m>> = <<t, ExtraWith(i, t), m>>
    BY TermIs
  <2> HIDE DEF E, R
  <2> QED
    BY <1>1, <2>1, <2>2 DEF Terms
<1>3. FreshKeys(i) =
        [t \in Stages |-> <<t, ExtraWith(i, t), [u \in Upstream[t] |-> FreshKeys(i)[u]]>>]
  BY <1>2 DEF FreshKeys
<1> QED
  BY <1>3

(* The result of a stage, spelled out. *)
LEMMA FreshWorkIs ==
    ASSUME NEW i, NEW s \in Stages
    PROVE  FreshWorks(i)[s] =
             <<s, ExtraWith(i, s), [slot \in Slotted(s) |-> FreshWorks(i)[Refs[s][slot]]]>>
<1> DEFINE E == [t \in Stages |-> <<t, ExtraWith(i, t)>>]
           D == [t \in Stages |-> Slotted(t)]
<1>1. PICK f : f = Terms(Stages, E, D, Refs, f)
  <2>1. \A t \in Stages : \A slot \in D[t] : Refs[t][slot] \in Upstream[t]
    BY RefsAreUpstream DEF Slotted
  <2> HIDE DEF E, D
  <2> QED
    BY <2>1, StageTermsExist
<1>2. f = [t \in Stages |-> <<t, ExtraWith(i, t),
                                  [slot \in Slotted(t) |-> f[Refs[t][slot]]]>>]
  <2>1. \A t \in Stages : D[t] = Slotted(t) /\ \A m : E[t] \o <<m>> = <<t, ExtraWith(i, t), m>>
    BY TermIs
  <2> HIDE DEF E, D
  <2> QED
    BY <1>1, <2>1 DEF Terms
<1>3. FreshWorks(i) =
        [t \in Stages |-> <<t, ExtraWith(i, t),
                            [slot \in Slotted(t) |-> FreshWorks(i)[Refs[t][slot]]]>>]
  BY <1>2 DEF FreshWorks
<1> QED
  BY <1>3

(* The reference of CachedIsFresh is that, for the input file as it is. *)
LEMMA FreshWorkIsFor == FreshWork = FreshWorks(input)
BY DEF FreshWork, FreshWorks, Slotted, Extra, ExtraWith

(***************************************************************************)
(* A key tells the result: two stages with the same key, perhaps for       *)
(* different contents of the input file, are one and compute the same.     *)
(***************************************************************************)
LEMMA SameKeySameWork ==
    ASSUME NEW i, NEW j, NEW s \in Stages, NEW t \in Stages,
           FreshKeys(i)[s] = FreshKeys(j)[t]
    PROVE  s = t /\ FreshWorks(i)[s] = FreshWorks(j)[t]
<1> DEFINE Same(u) == FreshKeys(i)[u] = FreshKeys(j)[u] => FreshWorks(i)[u] = FreshWorks(j)[u]
           good == {k \in 1..N : Same(Order[k])}
<1>1. ASSUME NEW u \in Stages, \A v \in Upstream[u] : Same(v),
             FreshKeys(i)[u] = FreshKeys(j)[u]
      PROVE  FreshWorks(i)[u] = FreshWorks(j)[u]
  <2> DEFINE A == [v \in Upstream[u] |-> FreshKeys(i)[v]]
             B == [v \in Upstream[u] |-> FreshKeys(j)[v]]
  <2>1. <<u, ExtraWith(i, u), A>> = <<u, ExtraWith(j, u), B>>
    <3>1. FreshKeys(i)[u] = <<u, ExtraWith(i, u), A>>
      BY FreshKeyIs
    <3>2. FreshKeys(j)[u] = <<u, ExtraWith(j, u), B>>
      BY FreshKeyIs
    <3> HIDE DEF A, B
    <3> QED
      BY <1>1, <3>1, <3>2
  <2>2. ExtraWith(i, u) = ExtraWith(j, u) /\ A = B
    <3> HIDE DEF A, B
    <3> QED
      BY <2>1
  <2>3. ASSUME NEW v \in Upstream[u]
        PROVE  FreshWorks(i)[v] = FreshWorks(j)[v]
    <3>1. A[v] = FreshKeys(i)[v] /\ B[v] = FreshKeys(j)[v]
      OBVIOUS
    <3> HIDE DEF A, B
    <3> QED
      BY <1>1, <2>2, <3>1
  <2>4. \A slot \in Slotted(u) : FreshWorks(i)[Refs[u][slot]] = FreshWorks(j)[Refs[u][slot]]
    BY <2>3, RefsAreUpstream DEF Slotted
  <2>5. [slot \in Slotted(u) |-> FreshWorks(i)[Refs[u][slot]]]
          = [slot \in Slotted(u) |-> FreshWorks(j)[Refs[u][slot]]]
    BY <2>4
  <2>6. /\ FreshWorks(i)[u] = <<u, ExtraWith(i, u),
                               [slot \in Slotted(u) |-> FreshWorks(i)[Refs[u][slot]]]>>
        /\ FreshWorks(j)[u] = <<u, ExtraWith(j, u),
                               [slot \in Slotted(u) |-> FreshWorks(j)[Refs[u][slot]]]>>
    BY FreshWorkIs
  <2> QED
    BY <2>2, <2>5, <2>6
<1>2. ASSUME NEW m \in 1..N, \A k \in 1..N : k < m => k \in good
      PROVE  m \in good
  <2>1. ASSUME NEW v \in Upstream[Order[m]]
        PROVE  Same(v)
    <3>1. PICK k \in 1..N : k < m /\ v = Order[k]
      BY OrderFacts
    <3>2. k \in good
      <4> HIDE DEF good
      <4> QED
        BY <1>2, <3>1
    <3> QED
      BY <3>1, <3>2
  <2>2. Order[m] \in Stages
    BY OrderFacts
  <2>3. Same(Order[m])
    BY <1>1, <2>1, <2>2
  <2> QED
    BY <2>3
<1>3. \A m \in 1..N : m \in good
  <2> HIDE DEF good
  <2> QED
    BY <1>2, OrderFacts, AlongIndices
<1>4. s = t
  <2> DEFINE A == [v \in Upstream[s] |-> FreshKeys(i)[v]]
             B == [v \in Upstream[t] |-> FreshKeys(j)[v]]
  <2>1. <<s, ExtraWith(i, s), A>> = <<t, ExtraWith(j, t), B>>
    BY FreshKeyIs, ZenonT(40)
  <2> HIDE DEF A, B
  <2> QED
    BY <2>1
<1>5. PICK m \in 1..N : s = Order[m]
  BY OrderFacts
<1>6. Same(Order[m])
  BY <1>3
<1> QED
  BY <1>4, <1>5, <1>6

-----------------------------------------------------------------------------
(* Nothing stale: keys, outputs and cache entries. *)

(* An output is what a stage computes afresh from an input file. *)
Right(out, i, s) ==
    out.work = IF out.kind = "Path" THEN WholePath ELSE FreshWorks(i)[s]

KeysFresh == \A s \in DOMAIN stage_hashes : stage_hashes[s] = FreshKeys(input)[s]
OutputsFresh == \A s \in DOMAIN outputs : Right(outputs[s], input, s)

(* Every entry is of some stage and of some input file, perhaps an old one. *)
CacheFresh ==
    \A e \in cache : \E i : \E s \in Stages : e.key = FreshKeys(i)[s] /\ Right(e.out, i, s)

Fresh ==
    /\ disk \cap torn = {}
    /\ pc # "idle" => KeysFresh /\ OutputsFresh
    /\ CacheFresh

(* What a working stage refers to has a key: it was not skipped. *)
LEMMA UpstreamHasKeys ==
    ASSUME Progress, next <= N, ~ (encountered_failure /\ stop_on_first_failure)
    PROVE  Upstream[Current] \subseteq DOMAIN stage_hashes
BY CurrentFacts DEF Progress, Statuses, Ran, Good

(* The key that is looked up is that of the input file as it is. *)
LEMMA KeyIsFresh ==
    ASSUME Progress, KeysFresh, next <= N,
           ~ (encountered_failure /\ stop_on_first_failure)
    PROVE  KeyOf(Current) = FreshKeys(input)[Current]
<1>1. Current \in Stages /\ Upstream[Current] \subseteq DOMAIN stage_hashes
  BY CurrentFacts, UpstreamHasKeys
<1>2. Upstream[Current] \cap DOMAIN stage_hashes = Upstream[Current]
  BY <1>1
<1>3. [u \in Upstream[Current] |-> stage_hashes[u]]
        = [u \in Upstream[Current] |-> FreshKeys(input)[u]]
  BY <1>1 DEF KeysFresh
<1>4. Extra(Current) = ExtraWith(input, Current)
  BY DEF Extra, ExtraWith
<1>5. FreshKeys(input)[Current] =
        <<Current, ExtraWith(input, Current), [u \in Upstream[Current] |-> FreshKeys(input)[u]]>>
  BY <1>1, FreshKeyIs
<1> QED
  BY <1>2, <1>3, <1>4, <1>5 DEF KeyOf

(* What the plugin computes from resolved references is the fresh result. *)
LEMMA WorkIsFresh ==
    ASSUME Current \in Stages, OutputsFresh, Resolved(Ns[Current], Refs[Current], KindOf)
    PROVE  Work(Current) = FreshWorks(input)[Current]
<1>1. ASSUME NEW slot \in Slotted(Current)
      PROVE  outputs[Refs[Current][slot]].work = FreshWorks(input)[Refs[Current][slot]]
  <2>1. slot \in {"geometry", "mesh", "field"}
    BY DEF Slotted, Read
  <2>2. PICK u \in DOMAIN outputs : u = Refs[Current][slot] /\ outputs[u].kind = SlotKind(slot)
    BY DEF Resolved, Slotted, KindOf
  <2>3. SlotKind(slot) # "Path"
    BY <2>1 DEF SlotKind
  <2> QED
    BY <2>2, <2>3 DEF OutputsFresh, Right
<1>2. [slot \in Slotted(Current) |-> outputs[Refs[Current][slot]].work]
        = [slot \in Slotted(Current) |-> FreshWorks(input)[Refs[Current][slot]]]
  BY <1>1
<1>3. Extra(Current) = ExtraWith(input, Current)
  BY DEF Extra, ExtraWith
<1>4. FreshWorks(input)[Current] =
        <<Current, ExtraWith(input, Current),
          [slot \in Slotted(Current) |-> FreshWorks(input)[Refs[Current][slot]]]>>
  BY FreshWorkIs
<1>5. Work(Current) = <<Current, Extra(Current),
                        [slot \in Slotted(Current) |-> outputs[Refs[Current][slot]].work]>>
  BY DEF Work, Slotted
<1> QED
  BY <1>2, <1>3, <1>4, <1>5

(* Another key and another output of the current stage. *)
LEMMA WithKeepsKeys ==
    ASSUME KeysFresh, UNCHANGED input,
           stage_hashes' = With(stage_hashes, Current, FreshKeys(input)[Current])
    PROVE  KeysFresh'
BY DEF KeysFresh, With

(* An output that is right joins outputs that are right. *)
LEMMA WithKeepsOutputs ==
    ASSUME OutputsFresh, UNCHANGED input, NEW out, Right(out, input, Current),
           outputs' = With(outputs, Current, out)
    PROVE  OutputsFresh'
BY DEF OutputsFresh, With, Right

(* A path is right wherever it is whole. *)
LEMMA PathIsRight == \A i, s : Right(PathOutput(WholePath), i, s)
BY DEF Right, PathOutput

(* What a call that succeeded computed is the fresh result. *)
LEMMA NewOutputIsRight ==
    ASSUME Progress, Handling, OutputsFresh, pc = "settle"
    PROVE  Right(NewOutput, input, Current)
<1>1. Current \in Stages /\ Resolved(Ns[Current], Refs[Current], KindOf)
  BY CurrentFacts DEF Progress, Working, Handling, Called
<1>2. Work(Current) = FreshWorks(input)[Current]
  BY <1>1, WorkIsFresh
<1> QED
  BY <1>2 DEF Right, NewOutput, PathOutput

(* A hit in the memory cache is of this stage and of this input file. *)
LEMMA HitIsRight ==
    ASSUME CacheFresh, NEW e \in cache, NEW s \in Stages, e.key = FreshKeys(input)[s]
    PROVE  Right(e.out, input, s)
<1>1. PICK i : \E t \in Stages : e.key = FreshKeys(i)[t] /\ Right(e.out, i, t)
  BY DEF CacheFresh
<1>2. PICK t \in Stages : e.key = FreshKeys(i)[t] /\ Right(e.out, i, t)
  BY <1>1
<1>3. FreshWorks(i)[t] = FreshWorks(input)[s]
  <2>1. FreshKeys(i)[t] = FreshKeys(input)[s]
    BY <1>2
  <2>2. t = s /\ FreshWorks(i)[t] = FreshWorks(input)[s]
    BY ONLY <2>1, SameKeySameWork
  <2> QED
    BY <2>2
<1> QED
  BY <1>2, <1>3 DEF Right

(* An entry of the current stage enters the cache. *)
LEMMA EntryKeepsCache ==
    ASSUME CacheFresh, NEW s \in Stages, NEW i, NEW out, Right(out, i, s),
           cache' \subseteq cache \cup {[key |-> FreshKeys(i)[s], out |-> out]}
    PROVE  CacheFresh'
BY DEF CacheFresh

(* The current stage of a working step has the fresh key. *)
LEMMA StageKeyIsFresh ==
    ASSUME Progress, KeysFresh, pc \in Working
    PROVE  Current \in Stages /\ stage_hashes[Current] = FreshKeys(input)[Current]
BY CurrentFacts DEF Progress, KeysFresh

(* What a lookup finds under the stage's key is what the stage would compute. *)
LEMMA LookupKeepsFresh ==
    ASSUME Progress, Fresh, LookupStage
    PROVE  Fresh'
<1> DEFINE key == FreshKeys(input)[Current]
<1>1. /\ pc = "stage" /\ next <= N /\ UNCHANGED <<input, disk, torn>>
      /\ ~ (encountered_failure /\ stop_on_first_failure)
      /\ KeysFresh /\ OutputsFresh /\ CacheFresh /\ disk \cap torn = {}
  BY DEF LookupStage, N, files, Fresh
<1>2. KeyOf(Current) = key /\ Current \in Stages
  BY <1>1, KeyIsFresh, CurrentFacts
<1>3. stage_hashes' = With(stage_hashes, Current, key)
  BY <1>2 DEF LookupStage, StageDone
<1>4. KeysFresh'
  BY <1>1, <1>3, WithKeepsKeys
<1>5. \/ \E e \in cache : e.key = key /\ outputs' = With(outputs, Current, e.out)
                         /\ UNCHANGED cache
      \/ /\ Rehydrates(key)
         /\ outputs' = With(outputs, Current, PathOutput(PathIn(key)))
         /\ cache' = cache \cup {[key |-> key, out |-> PathOutput(PathIn(key))]}
      \/ UNCHANGED <<cache, outputs>>
  BY <1>2 DEF LookupStage
<1>6. OutputsFresh' /\ CacheFresh'
  <2>1. ASSUME NEW e \in cache, e.key = key, outputs' = With(outputs, Current, e.out),
               UNCHANGED cache
        PROVE  OutputsFresh' /\ CacheFresh'
    <3>1. Right(e.out, input, Current)
      BY <1>1, <1>2, <2>1, HitIsRight
    <3> QED
      BY <1>1, <2>1, <3>1, WithKeepsOutputs DEF CacheFresh
  <2>2. CASE /\ Rehydrates(key)
             /\ outputs' = With(outputs, Current, PathOutput(PathIn(key)))
             /\ cache' = cache \cup {[key |-> key, out |-> PathOutput(PathIn(key))]}
    <3>1. PathIn(key) = WholePath
      BY <1>1, <2>2 DEF Rehydrates, PathIn
    <3>2. Right(PathOutput(PathIn(key)), input, Current)
      BY <3>1, PathIsRight
    <3>3. OutputsFresh'
      BY <1>1, <2>2, <3>2, WithKeepsOutputs
    <3>4. CacheFresh'
      BY <1>1, <1>2, <2>2, <3>2, EntryKeepsCache
    <3> QED
      BY <3>3, <3>4
  <2>3. CASE UNCHANGED <<cache, outputs>>
    BY <1>1, <2>3 DEF OutputsFresh, CacheFresh
  <2> HIDE DEF key
  <2> QED
    BY <1>5, <2>1, <2>2, <2>3
<1> QED
  BY <1>1, <1>4, <1>6 DEF Fresh

(* A stage that failed keeps its key and gets no output. *)
LEMMA FailKeepsFresh ==
    ASSUME Progress, Fresh, pc \in Working, FailStage, UNCHANGED <<files, cache>>
    PROVE  Fresh'
<1>1. KeysFresh /\ OutputsFresh /\ CacheFresh /\ disk \cap torn = {}
  BY DEF Fresh, Working
<1>2. /\ UNCHANGED <<input, disk, torn, cache, outputs>>
      /\ stage_hashes' = With(stage_hashes, Current, stage_hashes[Current])
  BY DEF FailStage, StageDone, files
<1>3. KeysFresh'
  BY <1>1, <1>2, StageKeyIsFresh, WithKeepsKeys
<1>4. OutputsFresh' /\ CacheFresh'
  BY <1>1, <1>2 DEF OutputsFresh, CacheFresh
<1> QED
  BY <1>1, <1>2, <1>3, <1>4 DEF Fresh

(* What the plugin returned is entered under the key it was computed for. *)
LEMMA SettleKeepsFresh ==
    ASSUME Progress, Handling, Fresh, SettleSuccess
    PROVE  Fresh'
<1>1. /\ pc = "settle" /\ UNCHANGED <<input, disk, torn>>
      /\ KeysFresh /\ OutputsFresh /\ CacheFresh /\ disk \cap torn = {}
  BY DEF SettleSuccess, files, Fresh
<1>2. Current \in Stages /\ stage_hashes[Current] = FreshKeys(input)[Current]
  BY <1>1, StageKeyIsFresh DEF Working
<1>3. Right(NewOutput, input, Current)
  BY <1>1, NewOutputIsRight
<1>4. CacheFresh'
  <2>1. cache' \subseteq cache \cup {[key |-> FreshKeys(input)[Current], out |-> NewOutput]}
    BY <1>2 DEF SettleSuccess
  <2> QED
    BY <1>1, <1>2, <1>3, <2>1, EntryKeepsCache
<1>5. CASE UNCHANGED <<stage_hashes, outputs>>
  BY <1>1, <1>4, <1>5 DEF Fresh, KeysFresh, OutputsFresh
<1>6. CASE /\ outputs' = With(outputs, Current, NewOutput)
           /\ StageDone("Executed", stage_hashes[Current])
  <2>1. KeysFresh'
    BY <1>1, <1>2, <1>6, WithKeepsKeys DEF StageDone
  <2>2. OutputsFresh'
    BY <1>1, <1>3, <1>6, WithKeepsOutputs
  <2> QED
    BY <1>1, <1>4, <2>1, <2>2 DEF Fresh
<1> QED
  BY <1>5, <1>6 DEF SettleSuccess

(* What the writer left on disk, if whole, is what its key stands for. *)
LEMMA PersistKeepsFresh ==
    ASSUME Progress, Fresh, PersistStage
    PROVE  Fresh'
<1>1. /\ pc = "persist" /\ UNCHANGED <<input, cache>>
      /\ outputs' = With(outputs, Current, PathOutput(WholePath))
      /\ stage_hashes' = With(stage_hashes, Current, stage_hashes[Current])
      /\ KeysFresh /\ OutputsFresh /\ CacheFresh /\ disk \cap torn = {}
  BY DEF PersistStage, StageDone, Fresh
<1>2. disk' \cap torn' = {}
  BY <1>1 DEF PersistStage
<1>3. KeysFresh'
  BY <1>1, StageKeyIsFresh, WithKeepsKeys DEF Working
<1>4. OutputsFresh'
  BY <1>1, PathIsRight, WithKeepsOutputs
<1> QED
  BY <1>1, <1>2, <1>3, <1>4 DEF Fresh, CacheFresh

(* Every step of the system keeps the caches and outputs fresh. *)
LEMMA NextKeepsFresh ==
    ASSUME Progress, Handling, Fresh, [Next]_vars
    PROVE  Fresh'
<1>1. ASSUME UNCHANGED <<disk, torn>>, cache' \subseteq cache,
             \/ pc' = "idle"
             \/ stage_hashes' = <<>> /\ outputs' = <<>>
             \/ pc # "idle" /\ UNCHANGED <<input, stage_hashes, outputs>>
      PROVE  Fresh'
  BY <1>1 DEF Fresh, KeysFresh, OutputsFresh, CacheFresh
<1>2. CASE StartRun
  BY <1>1, <1>2 DEF StartRun, files
<1>3. CASE ProcessEnds
  BY <1>1, <1>3 DEF ProcessEnds, files
<1>4. CASE EditInput
  BY <1>1, <1>4 DEF EditInput
<1>5. CASE DeleteArtifact
  BY <1>1, <1>5 DEF DeleteArtifact
<1>6. CASE ReturnResult
  BY <1>1, <1>6 DEF ReturnResult, files
<1>7. CASE SkipStage
  BY <1>1, <1>7 DEF SkipStage, files
<1>8. CASE CallPlugin
  BY <1>1, <1>8 DEF CallPlugin, progress
<1>9. CASE DispatchRefused \/ SettleFailure
  BY <1>9, FailKeepsFresh DEF DispatchRefused, SettleFailure, Working
<1>10. CASE UNCHANGED vars
  BY <1>10 DEF vars, files, progress, Fresh, KeysFresh, OutputsFresh, CacheFresh
<1> QED
  BY <1>2, <1>3, <1>4, <1>5, <1>6, <1>7, <1>8, <1>9, <1>10, LookupKeepsFresh,
     SettleKeepsFresh, PersistKeepsFresh DEF Next, Run

(***************************************************************************)
(* CachedIsFresh: whatever was edited, torn, lost or left over by runs     *)
(* before this one, an output it took from a cache is the one that would   *)
(* be computed from the input file as it is.                               *)
(***************************************************************************)
THEOREM CachedResultsAreFresh == Spec => []CachedIsFresh
<1>1. Init => Progress /\ Handling /\ Fresh
  <2> SUFFICES ASSUME Init PROVE Handling /\ Fresh
    BY InitProgress
  <2>1. Handling
    BY InitHandling
  <2>2. Fresh
    BY DEF Init, Fresh, CacheFresh
  <2> QED
    BY <2>1, <2>2
<1>2. Progress /\ Handling /\ Fresh /\ [Next]_vars => (Progress /\ Handling /\ Fresh)'
  BY NextKeepsProgress, NextKeepsHandles, NextKeepsFresh
<1>3. Fresh => CachedIsFresh
  BY FreshWorkIsFor DEF Fresh, CachedIsFresh, OutputsFresh, Right
<1> QED
  BY <1>1, <1>2, <1>3, PTL DEF Spec

-----------------------------------------------------------------------------
(* Types. *)

(* What Progress, Handling and Fresh leave open. *)
Typed ==
    /\ input \in 0..MaxInput
    /\ \A s \in DOMAIN outputs : outputs[s].kind \in Kinds
    /\ \A e \in cache : e.out.kind \in Kinds
    /\ call \in [raised : BOOLEAN, ok : BOOLEAN, handles : SUBSET Kinds]

(* The call that is none has the type of one. *)
LEMMA NoCallTyped ==
    NoCall \in [raised : BOOLEAN, ok : BOOLEAN, handles : SUBSET Kinds]
BY DEF NoCall

(* The outputs and the entries that a step adds are of some kind. *)
LEMMA AddedKinds ==
    ASSUME Typed, NEW out, out.kind \in Kinds,
           UNCHANGED outputs \/ outputs' = With(outputs, Current, out),
           \A e \in cache' : e \in cache \/ e.out = out,
           UNCHANGED input,
           UNCHANGED call \/ call' = NoCall
    PROVE  Typed'
<1>1. \A s \in DOMAIN outputs' : outputs'[s].kind \in Kinds
  BY DEF Typed, With
<1> QED
  BY <1>1, NoCallTyped DEF Typed

(* Every step of the system keeps the types. *)
LEMMA NextKeepsTypes ==
    ASSUME Progress, Handling, Typed, [Next]_vars
    PROVE  Typed'
<1>1. ASSUME input' \in 0..MaxInput, cache' \subseteq cache,
             outputs' = <<>> \/ UNCHANGED outputs, UNCHANGED call \/ call' = NoCall
      PROVE  Typed'
  <2>1. \A s \in DOMAIN outputs' : outputs'[s].kind \in Kinds
    BY <1>1 DEF Typed
  <2> QED
    BY <1>1, <2>1, NoCallTyped DEF Typed
<1>2. CASE StartRun \/ ProcessEnds \/ EditInput \/ DeleteArtifact
  BY <1>1, <1>2 DEF StartRun, ProcessEnds, EditInput, DeleteArtifact, files, progress, Typed
<1>3. CASE SkipStage \/ ReturnResult \/ DispatchRefused \/ SettleFailure
  BY <1>1, <1>3 DEF SkipStage, ReturnResult, DispatchRefused, SettleFailure, FailStage,
                    files, progress, Typed
<1>4. CASE LookupStage
  <2>1. \A path : PathOutput(path).kind \in Kinds
    BY DEF PathOutput, Kinds
  <2>2. ASSUME NEW e \in cache, UNCHANGED <<cache, input, call>>,
               outputs' = With(outputs, Current, e.out)
        PROVE  Typed'
    BY <2>2, AddedKinds DEF Typed
  <2>3. ASSUME NEW path, UNCHANGED <<input, call>>,
               outputs' = With(outputs, Current, PathOutput(path)),
               cache' = cache \cup {[key |-> KeyOf(Current), out |-> PathOutput(path)]}
        PROVE  Typed'
    <3> DEFINE out == PathOutput(path)
    <3>1. \A e \in cache' : e \in cache \/ e.out = out
      BY <2>3
    <3>2. out.kind \in Kinds
      BY <2>1
    <3> HIDE DEF out
    <3>3. outputs' = With(outputs, Current, out)
      BY <2>3 DEF out
    <3> QED
      BY <2>3, <3>1, <3>2, <3>3, AddedKinds
  <2>4. ASSUME UNCHANGED <<cache, outputs, input, call>>
        PROVE  Typed'
    BY <2>4 DEF Typed
  <2> QED
    BY <1>4, <2>2, <2>3, <2>4 DEF LookupStage, files
<1>5. CASE CallPlugin
  <2>1. \A ns : CallResult(ns) \subseteq [raised : BOOLEAN, ok : BOOLEAN, handles : SUBSET Kinds]
    BY DEF CallResult, Handles, Kinds
  <2>2. UNCHANGED <<input, outputs, cache>> /\ call' \in CallResult(Ns[Current])
    BY <1>5 DEF CallPlugin, progress
  <2> QED
    BY <2>1, <2>2 DEF Typed
<1>6. CASE SettleSuccess
  <2>1. NewOutput.kind \in Kinds
    <3>1. CASE Ns[Current] = "writer"
      BY <3>1 DEF NewOutput, OutputKind, PathOutput, Kinds
    <3>2. CASE Ns[Current] # "writer"
      <4>1. PICK h \in Handles(Ns[Current]) : OutputKind(Ns[Current], call) = h
        BY <1>6, <3>2, OneHandle DEF SettleSuccess, Handling
      <4>2. h \in Kinds
        BY DEF Handles, Kinds
      <4> QED
        BY <4>1, <4>2 DEF NewOutput, PathOutput
    <3> QED
      BY <3>1, <3>2
  <2>2. /\ UNCHANGED outputs \/ outputs' = With(outputs, Current, NewOutput)
        /\ \A e \in cache' : e \in cache \/ e.out = NewOutput
        /\ UNCHANGED input /\ call' = NoCall
    BY <1>6 DEF SettleSuccess, files
  <2> QED
    BY <2>1, <2>2, AddedKinds
<1>7. CASE PersistStage
  <2>1. PathOutput(WholePath).kind \in Kinds
    BY DEF PathOutput, Kinds
  <2> QED
    BY <1>7, <2>1, AddedKinds DEF PersistStage
<1>8. CASE UNCHANGED vars
  BY <1>8 DEF vars, files, progress, Typed
<1> QED
  BY <1>2, <1>3, <1>4, <1>5, <1>6, <1>7, <1>8 DEF Next, Run

(* TypeOK: every variable holds a value of its kind. *)
THEOREM TypeCorrect == Spec => []TypeOK
<1>1. Init => Progress /\ Handling /\ Fresh /\ Typed
  <2> SUFFICES ASSUME Init PROVE Fresh /\ Typed
    BY InitProgress, InitHandling
  <2>1. Fresh
    BY DEF Init, Fresh, CacheFresh
  <2>2. DOMAIN outputs = {} /\ cache = {} /\ call = NoCall /\ input \in 0..MaxInput
    BY CachedRunsAssumption DEF Init
  <2> QED
    BY <2>1, <2>2, NoCallTyped DEF Typed
<1>2. Progress /\ Handling /\ Fresh /\ Typed /\ [Next]_vars
        => (Progress /\ Handling /\ Fresh /\ Typed)'
  BY NextKeepsProgress, NextKeepsHandles, NextKeepsFresh, NextKeepsTypes
<1>3. Progress /\ Fresh /\ Typed => TypeOK
  BY CurrentFacts, OrderFacts
     DEF Progress, Fresh, Typed, TypeOK, N, Working, Good, Ran, Statuses
<1> QED
  BY <1>1, <1>2, <1>3, PTL DEF Spec
=============================================================================
