----------------------------- MODULE CachedRuns -----------------------------
(***************************************************************************)
(* Runs of one pipeline, one after another, with the sequential runner     *)
(* (src/pipeline/runner.cpp), the in-memory cache and the disk cache       *)
(* (cache.cpp) and the dispatcher (registry_dispatcher.cpp).  The memory   *)
(* cache lives as long as its process: the CLI starts one for every run,   *)
(* the Python bindings keep one.  Between runs the user changes the file   *)
(* that the readers read; a process may die at any step.                   *)
(*                                                                         *)
(* The steps of a stage: its key is computed and looked up, its plugin is  *)
(* called, what the call left is settled, the output is written to disk.   *)
(***************************************************************************)
EXTENDS Naturals, Sequences, FiniteSets, Dispatcher

CONSTANTS
    Order,       \* the stages in the order validate returned
    Ns,          \* Ns[s]: the namespace of the stage's capability
    Refs,        \* Refs[s]: slot |-> stage, the stage references of its input
    Registered,  \* the stages whose capability some plugin registered
    MaxInput,    \* bound: the input file has contents 1..MaxInput
    MaxRuns,     \* bound: runs started
    use_cache, stop_on_first_failure,
    DiskFaults   \* may a put fail, or be torn by a full disk?

Stages == {Order[i] : i \in 1..Len(Order)}
Upstream == [s \in Stages |-> {Refs[s][slot] : slot \in DOMAIN Refs[s]}]

Unreadable == 0
NoFile == <<>>
NoKey == <<>>
NoCall == [raised |-> TRUE, ok |-> FALSE, handles |-> {}]

ASSUME CachedRunsAssumption ==
    /\ Order \in Seq(Stages)
    /\ \A i, j \in 1..Len(Order) : /\ Order[i] = Order[j] => i = j
                                   /\ Order[i] \in Upstream[Order[j]] => i < j
    /\ \A s \in Stages : Upstream[s] \subseteq Stages
    /\ Registered \subseteq Stages
    /\ MaxInput \in Nat \ {0} /\ MaxRuns \in Nat
    /\ {use_cache, stop_on_first_failure, DiskFaults} \subseteq BOOLEAN

VARIABLES
    input,        \* what the readers' file holds, or Unreadable
    artifact,     \* what the writers' file holds
    disk,         \* disk cache: the keys with an entry that reads back whole
    torn,         \* the keys whose entry a full disk cut short
    cache,        \* memory cache: a set of [key, out]
    live,         \* handles allocated by plugins and not freed
    runs, pc,     \* runs started; where the current one is
    next, results, stage_hashes, outputs, encountered_failure,
    call          \* what the plugin call returned, until it is settled

files == <<input, artifact, disk, torn>>
progress == <<next, results, stage_hashes, outputs, encountered_failure>>
vars == <<files, cache, live, runs, pc, progress, call>>

Init ==
    /\ input = 1
    /\ artifact = NoFile
    /\ disk = {} /\ torn = {}
    /\ cache = {}
    /\ live = {}
    /\ runs = 0
    /\ pc = "idle"
    /\ next = 1
    /\ results = [s \in Stages |-> "none"]
    /\ stage_hashes = <<>>
    /\ outputs = <<>>
    /\ encountered_failure = FALSE
    /\ call = NoCall

-----------------------------------------------------------------------------
(* Keys and what a stage computes.                                         *)

Current == Order[next]

(* cache_key_extra: readers add the digest of the bytes they will read. *)
Extra(s) == IF Ns[s] = "reader" THEN input ELSE 0

(* hash_inputs over capability, ABI version, input tree and the upstream   *)
(* keys; s stands for what the pipeline file says of the stage.            *)
KeyOf(s) ==
    <<s, Extra(s), [u \in Upstream[s] \cap DOMAIN stage_hashes |-> stage_hashes[u]]>>

KindOf == [u \in DOMAIN outputs |-> outputs[u].kind]

(* What the plugin computes: a term over what it was given. *)
Work(s) == <<s, Extra(s), [slot \in Read(Ns[s]) \cap DOMAIN Refs[s] |->
                             outputs[Refs[s][slot]].work]>>

(* The handle, if any, that an output owns: named by run, stage and kind.  *)
Owned(out) == IF out.kind = "Path" THEN {} ELSE {out.handle}
OwnedByCache == UNION {Owned(e.out) : e \in cache}
OwnedByRun == UNION {Owned(outputs[u]) : u \in DOMAIN outputs}

-----------------------------------------------------------------------------
(* A run.                                                                  *)

StartRun ==
    /\ pc = "idle"
    /\ runs < MaxRuns
    /\ runs' = runs + 1
    /\ pc' = "stage"
    /\ next' = 1
    /\ results' = [s \in Stages |-> "none"]
    /\ stage_hashes' = <<>>
    /\ outputs' = <<>>
    /\ encountered_failure' = FALSE
    /\ live' = live \cap OwnedByCache   \* the last RunResult is dropped
    /\ UNCHANGED <<files, cache, call>>

With(f, s, v) == [u \in DOMAIN f \cup {s} |-> IF u = s THEN v ELSE f[u]]

(* The stage is over with a status; its key is kept for those downstream. *)
StageDone(status, key) ==
    /\ results' = [results EXCEPT ![Current] = status]
    /\ stage_hashes' = With(stage_hashes, Current, key)
    /\ next' = next + 1
    /\ pc' = "stage"

SkipStage ==
    /\ pc = "stage" /\ next <= Len(Order)
    /\ encountered_failure /\ stop_on_first_failure
    /\ results' = [results EXCEPT ![Current] = "Skipped"]
    /\ next' = next + 1
    /\ UNCHANGED <<files, cache, live, runs, pc, stage_hashes, outputs,
                   encountered_failure, call>>

(* Mutant: the length in the blob is not compared with the blob. *)
Rehydrates_Unchecked(key) == key \in disk \cup torn /\ artifact # NoFile

(* deserialize_stage_output: a whole blob whose path still exists. *)
Rehydrates(key) == key \in disk /\ artifact # NoFile

(* A path read from a blob cut short is a prefix of the one that was put. *)
WholePath == "path"
PathIn(key) == IF key \in torn THEN "prefix" ELSE WholePath
PathOutput(path) == [kind |-> "Path", work |-> path, handle |-> <<>>]

(* Memory first, then disk, whose entry re-warms the memory cache.         *)
LookupStage ==
    /\ pc = "stage" /\ next <= Len(Order)
    /\ ~ (encountered_failure /\ stop_on_first_failure)
    /\ LET key == KeyOf(Current)
           hits == {e \in cache : e.key = key}
       IN \/ /\ use_cache /\ hits # {}
             /\ \E e \in hits : outputs' = With(outputs, Current, e.out)
             /\ StageDone("Cached", key)
             /\ UNCHANGED cache
          \/ /\ use_cache /\ hits = {} /\ Rehydrates(key)
             /\ outputs' = With(outputs, Current, PathOutput(PathIn(key)))
             /\ cache' = cache \cup {[key |-> key, out |-> PathOutput(PathIn(key))]}
             /\ StageDone("Cached", key)
          \/ /\ ~ use_cache \/ (hits = {} /\ ~ Rehydrates(key))
             /\ stage_hashes' = With(stage_hashes, Current, key)
             /\ pc' = "dispatch"
             /\ UNCHANGED <<cache, outputs, next, results>>
    /\ UNCHANGED <<files, live, runs, encountered_failure, call>>

(* Mutant: the failure is noted on the stage and not for the loop. *)
FailStage_GoesOn ==
    /\ StageDone("Failed", stage_hashes[Current])
    /\ UNCHANGED <<outputs, encountered_failure>>

FailStage ==
    /\ encountered_failure' = TRUE
    /\ StageDone("Failed", stage_hashes[Current])
    /\ UNCHANGED outputs

(* No plugin, or an upstream output that is missing or of another kind. *)
DispatchRefused ==
    /\ pc = "dispatch"
    /\ ~ (Current \in Registered /\ Resolved(Ns[Current], Refs[Current], KindOf))
    /\ FailStage
    /\ UNCHANGED <<files, cache, live, runs, call>>

HandleOf(kind) == <<runs, Current, kind>>

(* The plugin runs under guard_call and leaves handles, a status and, if   *)
(* it is a writer, a file that is whole when it reports success.           *)
CallPlugin ==
    /\ pc = "dispatch"
    /\ Current \in Registered /\ Resolved(Ns[Current], Refs[Current], KindOf)
    /\ \E c \in CallResult(Ns[Current]) :
         /\ call' = c
         /\ Ns[Current] = "reader" /\ input = Unreadable => ~ (c.ok /\ ~ c.raised)
         /\ live' = live \cup {HandleOf(h) : h \in c.handles}
         /\ artifact' \in IF Ns[Current] = "writer"
                          THEN IF Succeeded("writer", c) THEN {Work(Current)}
                               ELSE {artifact, NoFile} ELSE {artifact}
    /\ pc' = "settle"
    /\ UNCHANGED <<input, disk, torn, cache, runs, progress>>

(* Mutant: only a call that raised or reported an error is cleaned up. *)
SettleFailure_Leaks ==
    /\ pc = "settle"
    /\ ~ Succeeded(Ns[Current], call)
    /\ live' = IF call.raised \/ ~ call.ok
               THEN live \ {HandleOf(h) : h \in call.handles} ELSE live
    /\ FailStage
    /\ call' = NoCall
    /\ UNCHANGED <<files, cache, runs>>

(* Every error path frees what the plugin handed back. *)
SettleFailure ==
    /\ pc = "settle"
    /\ ~ Succeeded(Ns[Current], call)
    /\ live' = live \ {HandleOf(h) : h \in call.handles}
    /\ FailStage
    /\ call' = NoCall
    /\ UNCHANGED <<files, cache, runs>>

NewOutput ==
    LET kind == OutputKind(Ns[Current], call)
    IN IF kind = "Path" THEN PathOutput(WholePath)
       ELSE [kind |-> kind, work |-> Work(Current), handle |-> HandleOf(kind)]

(* The output enters the memory cache; only a Path has a serialised form. *)
SettleSuccess ==
    /\ pc = "settle"
    /\ Succeeded(Ns[Current], call)
    /\ cache' = IF use_cache
                THEN {e \in cache : e.key # stage_hashes[Current]}
                     \cup {[key |-> stage_hashes[Current], out |-> NewOutput]}
                ELSE cache
    /\ call' = NoCall
    /\ \/ /\ use_cache /\ NewOutput.kind = "Path"
          /\ pc' = "persist"
          /\ UNCHANGED <<next, results, stage_hashes, outputs>>
       \/ /\ ~ (use_cache /\ NewOutput.kind = "Path")
          /\ outputs' = With(outputs, Current, NewOutput)
          /\ StageDone("Executed", stage_hashes[Current])
    /\ UNCHANGED <<files, live, runs, encountered_failure>>

(* put_bytes: a temp file renamed over the entry.  The stream is tested    *)
(* before it is closed, so a full disk can leave a torn file that is       *)
(* renamed all the same; other failures leave the old entry.               *)
PersistStage ==
    /\ pc = "persist"
    /\ LET key == stage_hashes[Current]
       IN \/ disk' = disk \cup {key} /\ torn' = torn \ {key}
          \/ DiskFaults /\ disk' = disk \ {key} /\ torn' = torn \cup {key}
          \/ DiskFaults /\ UNCHANGED <<disk, torn>>
    /\ outputs' = With(outputs, Current, PathOutput(WholePath))
    /\ StageDone("Executed", stage_hashes[Current])
    /\ UNCHANGED <<input, artifact, cache, live, runs, encountered_failure,
                   call>>

ReturnResult ==
    /\ pc = "stage" /\ next > Len(Order)
    /\ pc' = "idle"
    /\ UNCHANGED <<files, cache, live, runs, progress, call>>

-----------------------------------------------------------------------------
(* The environment.                                                        *)

(* The process ends, by itself or not: its memory is gone. *)
ProcessEnds ==
    /\ runs > 0
    /\ cache' = {} /\ live' = {}
    /\ outputs' = <<>> /\ stage_hashes' = <<>>
    /\ results' = [s \in Stages |-> "none"]
    /\ next' = 1
    /\ encountered_failure' = FALSE
    /\ call' = NoCall
    /\ pc' = "idle"
    /\ UNCHANGED <<files, runs>>

(* Between runs, the user edits, replaces or takes away the input file. *)
EditInput ==
    /\ pc = "idle" /\ runs < MaxRuns
    /\ input' \in (0..MaxInput) \ {input}
    /\ UNCHANGED <<artifact, disk, torn, cache, live, runs, pc, progress, call>>

DeleteArtifact ==
    /\ pc = "idle" /\ artifact # NoFile
    /\ artifact' = NoFile
    /\ UNCHANGED <<input, disk, torn, cache, live, runs, pc, progress, call>>

Run == \/ SkipStage \/ LookupStage \/ DispatchRefused \/ CallPlugin
       \/ SettleFailure \/ SettleSuccess \/ PersistStage \/ ReturnResult

Next == StartRun \/ Run \/ ProcessEnds \/ EditInput \/ DeleteArtifact

Spec == Init /\ [][Next]_vars

-----------------------------------------------------------------------------
(* Properties.                                                             *)

(* Every variable holds a value of its kind.                               *)
TypeOK ==
    /\ input \in 0..MaxInput
    /\ pc \in {"idle", "stage", "dispatch", "settle", "persist"}
    /\ next \in 1..(Len(Order) + 1)
    /\ DOMAIN outputs \subseteq DOMAIN stage_hashes
    /\ DOMAIN stage_hashes \subseteq Stages
    /\ \A s \in DOMAIN outputs : outputs[s].kind \in Kinds
    /\ disk \cap torn = {}
    /\ call \in [raised : BOOLEAN, ok : BOOLEAN, handles : SUBSET Kinds]

(***************************************************************************)
(* Mesh, geometry and field handles are neither leaked nor shared by two   *)
(* owners' deleters: outside a plugin call the live handles are exactly    *)
(* those that a stage output of this run or of the memory cache owns.      *)
(***************************************************************************)
HandlesOwned == pc # "settle" => live = OwnedByRun \cup OwnedByCache

(* What the stage would compute if everything were run again now. *)
FreshWork[s \in Stages] ==
    <<s, Extra(s), [slot \in Read(Ns[s]) \cap DOMAIN Refs[s] |-> FreshWork[Refs[s][slot]]]>>

(***************************************************************************)
(* A cached mesh, geometry or field is the one a run without cache would   *)
(* produce from the input file as it is, and a cached path is the whole    *)
(* path: no sequence of edits, failures, crashes and torn disk entries     *)
(* between runs makes a hit stale or cuts it short.                        *)
(***************************************************************************)
CachedIsFresh ==
    pc # "idle" => \A s \in DOMAIN outputs :
        outputs[s].work = IF outputs[s].kind = "Path" THEN WholePath ELSE FreshWork[s]

(***************************************************************************)
(* Within a run the cached runner does what PipelineRun promises; a new    *)
(* run, or a new process, starts over.                                     *)
(***************************************************************************)
Promise == INSTANCE PipelineRun WITH
              outputs <- DOMAIN outputs,
              returned <- pc = "idle"

ImplementsRun ==
    [][\/ Promise!RunNext
       \/ pc = "idle" /\ pc' = "stage"      \* StartRun
       \/ pc' = "idle" /\ cache' = {}]_(Promise!runVars)
=============================================================================
