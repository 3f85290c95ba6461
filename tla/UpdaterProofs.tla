---------------------------- MODULE UpdaterProofs ----------------------------
(***************************************************************************)
(* Theorems about Updater, for every set of versions, every clock and      *)
(* every machine.  The types hold however many commands run; the other     *)
(* theorems assume that commands follow one another, as nothing locks the  *)
(* install root.                                                           *)
(***************************************************************************)
EXTENDS Updater, IndexLemmas

(* Phases of a command, by what it has done to current.txt and the log.    *)
Staging == {"stage", "place"}
Preparing == {"readCurrent", "readTarget", "checkPayload", "writePrevious",
              "writeCurrent"}
Before == Staging \cup Preparing
Flipped == {"loadLog", "appendLog"}
Collecting == {"gc", "gcCheck", "gcRemove"}
Switching == {"apply", "rollback"}

(***************************************************************************)
(* What the labels say about the command: the types of the log need it.    *)
(***************************************************************************)
Labelled ==
    \A p \in Procs :
        /\ pc[p] \in Staging \cup Collecting => job[p].op = "apply"
        /\ pc[p] \in Before \cup Flipped => job[p].op \in Switching
        /\ pc[p] \in Before \cup Flipped /\ job[p].op = "apply"
             => job[p].to \in Versions
        /\ pc[p] = "readTarget" => job[p].op = "rollback"
        /\ pc[p] \in Collecting => job[p].result = "applied"
        /\ job[p].result = "applied" => job[p].op = "apply"

Typed == TypeOK /\ Labelled

-----------------------------------------------------------------------------
(* Lemmas about the operators. *)

(* What the machine of a behaviour allows. *)
LEMMA MachineTyped ==
    ASSUME machine \in Machines
    PROVE  /\ machine.faults \subseteq FaultKinds
           /\ \A m \in machine.manifests :
                m.version \in Versions /\ m.version \in Nat /\ m.version > 0
<1>1. machine \in Machine
  BY UpdaterAssumption
<1>2. /\ machine.faults \subseteq FaultKinds
      /\ machine.manifests \subseteq Manifest(Versions, Instants \cup {Empty, Malformed})
  BY <1>1 DEF Machine
<1>3. \A m \in machine.manifests : m.version \in Versions
  BY <1>2 DEF Manifest
<1>4. \A v \in Versions : v \in Nat /\ v > 0
  BY UpdaterAssumption DEF Empty
<1> QED
  BY <1>2, <1>3, <1>4

(* A small file ends as one of the three contents, and a step that cannot  *)
(* tear it reports the truth about it.                                     *)
LEMMA WriteReports ==
    ASSUME NEW fault, NEW w \in WriteResults(fault)
    PROVE  /\ w.ok \in BOOLEAN
           /\ w.leaves \in {"old", "new", "torn"}
           /\ NothingTorn => w.leaves = (IF w.ok THEN "new" ELSE "old")
           /\ NothingTorn /\ fault \notin machine.faults => w.ok
<1> DEFINE Reports == [ok : BOOLEAN, leaves : {"old", "new", "torn"}]
<1>1. w \in Reports
  <2>1. /\ [ok |-> TRUE, leaves |-> "new"] \in Reports
        /\ [ok |-> FALSE, leaves |-> "old"] \in Reports
        /\ [ok |-> TRUE, leaves |-> "torn"] \in Reports
    OBVIOUS
  <2> HIDE DEF Reports
  <2> QED
    BY <2>1 DEF WriteResults, Reports
<1>2. \/ w.ok = TRUE /\ w.leaves = "new"
      \/ fault \in machine.faults /\ w.ok = FALSE /\ w.leaves = "old"
      \/ "full" \in machine.faults \/ "rename" \in machine.faults
  BY DEF WriteResults
<1>3. w.ok \in BOOLEAN /\ w.leaves \in {"old", "new", "torn"}
  BY <1>1
<1>4. CASE w.ok = TRUE /\ w.leaves = "new"
  BY <1>3, <1>4
<1>5. CASE fault \in machine.faults /\ w.ok = FALSE /\ w.leaves = "old"
  BY <1>3, <1>5
<1>6. CASE "full" \in machine.faults \/ "rename" \in machine.faults
  BY <1>3, <1>6 DEF NothingTorn
<1> QED
  BY <1>2, <1>4, <1>5, <1>6

(* Each outcome of a write picks its content. *)
LEMMA ContentsAre ==
    ASSUME NEW w, w.leaves \in {"old", "new", "torn"}, NEW old, NEW new, NEW torn
    PROVE  /\ Contents(w, old, new, torn) \in {old, new, torn}
           /\ w.leaves = "old" => Contents(w, old, new, torn) = old
           /\ w.leaves = "new" => Contents(w, old, new, torn) = new
BY DEF Contents

(* The bumped floor is a version, and above both. *)
LEMMA BumpIsMax ==
    ASSUME NEW floor \in MaybeVersion, NEW v \in Versions
    PROVE  /\ BumpFloor(floor, v) \in MaybeVersion
           /\ floor <= BumpFloor(floor, v)
           /\ v <= BumpFloor(floor, v)
           /\ floor <= v => BumpFloor(floor, v) = v
BY UpdaterAssumption DEF BumpFloor, MaybeVersion, Empty

(* The rollback target in the log is the from of one of its events. *)
LEMMA TargetIsLogged ==
    ASSUME NEW events \in Seq(Event), NEW v
    PROVE  \/ find_rollback_target(events, v) = Empty
           \/ \E i \in DOMAIN events : find_rollback_target(events, v) = events[i].from
<1> DEFINE hits == {i \in DOMAIN events : /\ events[i].type = "apply"
                                          /\ events[i].to = v
                                          /\ events[i].from # Empty}
<1>1. CASE hits = {}
  BY <1>1 DEF find_rollback_target
<1>2. CASE hits # {}
  <2>1. Len(events) \in Nat /\ hits \subseteq 1..Len(events)
    OBVIOUS
  <2>2. \E i \in hits : \A j \in hits : j <= i
    BY <1>2, <2>1, LastIndex
  <2> DEFINE last == CHOOSE i \in hits : \A j \in hits : j <= i
  <2>3. last \in hits
    BY <2>2
  <2>4. find_rollback_target(events, v) = events[last].from
    BY <1>2 DEF find_rollback_target
  <2> QED
    BY <2>3, <2>4
<1> QED
  BY <1>1, <1>2

(* The fields of a logged event. *)
LEMMA EventFields ==
    ASSUME NEW events \in Seq(Event), NEW i \in DOMAIN events
    PROVE  /\ events[i] \in Event
           /\ events[i].from \in MaybeVersion
           /\ events[i].to \in MaybeVersion
<1>1. events[i] \in Event
  OBVIOUS
<1> QED
  BY <1>1 DEF Event

(* The step and the job of a command after it moved on. *)
LEMMA Moved ==
    ASSUME TypeOK, NEW p \in Procs, NEW step \in Steps, NEW j \in Job,
           Goto(p, step), Update(p, j)
    PROVE  /\ pc' \in [Procs -> Steps] /\ job' \in [Procs -> Job]
           /\ pc'[p] = step /\ job'[p] = j
           /\ \A q \in Procs : q # p => pc'[q] = pc[q] /\ job'[q] = job[q]
BY DEF TypeOK, Goto, Update

(* What Finish does to the job, whatever its result. *)
LEMMA Finished ==
    ASSUME TypeOK, NEW p \in Procs, NEW r \in Results, Finish(p, r)
    PROVE  /\ pc' \in [Procs -> Steps] /\ job' \in [Procs -> Job]
           /\ pc'[p] = "save" /\ job'[p] = [job[p] EXCEPT !.result = r]
           /\ \A q \in Procs : q # p => pc'[q] = pc[q] /\ job'[q] = job[q]
<1>1. [job[p] EXCEPT !.result = r] \in Job
  BY DEF TypeOK, Job
<1> QED
  BY <1>1, Moved DEF Finish, Steps

-----------------------------------------------------------------------------
(* Every step keeps the types. *)

(* A step that leaves the others alone keeps what the labels say of them. *)
LEMMA LabelledStep ==
    ASSUME Labelled, NEW p \in Procs,
           \A q \in Procs : q # p => pc'[q] = pc[q] /\ job'[q] = job[q],
           pc'[p] \in Staging \cup Collecting => job'[p].op = "apply",
           pc'[p] \in Before \cup Flipped => job'[p].op \in Switching,
           pc'[p] \in Before \cup Flipped /\ job'[p].op = "apply"
             => job'[p].to \in Versions,
           pc'[p] = "readTarget" => job'[p].op = "rollback",
           pc'[p] \in Collecting => job'[p].result = "applied",
           job'[p].result = "applied" => job'[p].op = "apply"
    PROVE  Labelled'
BY DEF Labelled

(* An idle job and an empty log are of their kinds. *)
LEMMA NoJobTyped == NoJob \in Job /\ NoLog \in Log
BY DEF NoJob, NoLog, Job, Log, Results, MaybeVersion

(* Starting a command. *)
LEMMA StartTyped ==
    ASSUME Typed, NEW p \in Procs, Start(p)
    PROVE  Typed'
<1>1. TypeOK /\ Labelled
  BY DEF Typed
<1>2. stateFile.cur \in MaybeVersion /\ stateFile.floor \in MaybeVersion
  BY <1>1 DEF TypeOK
<1>3. ASSUME NEW op \in {"check", "apply", "rollback"}
      PROVE  /\ Loaded(op) \in Job
             /\ Loaded(op).op = op
             /\ Loaded(op).result = "none"
  BY <1>2, NoJobTyped DEF Loaded, Job, NoJob
<1>4. UNCHANGED disk
  BY DEF Start, Check, ApplyAccept, ApplyRefuse, Rollback
<1>5. TypeOK' <=> pc' \in [Procs -> Steps] /\ job' \in [Procs -> Job]
  BY <1>1, <1>4 DEF TypeOK, disk
<1>6. ASSUME NEW m \in machine.manifests, NEW override, NEW now,
             Check(p, m, override, now)
      PROVE  Typed'
  <2> DEFINE floor == IF Accepts(m, override, now)
                      THEN BumpFloor(Loaded("check").floor, m.version)
                      ELSE Loaded("check").floor
             j == [Loaded("check") EXCEPT !.floor = floor]
  <2>1. floor \in MaybeVersion
    BY <1>1, <1>3, MachineTyped, BumpIsMax DEF TypeOK, Job
  <2>2. j \in Job /\ j.op = "check" /\ j.result = "none"
    BY <1>3, <2>1 DEF Job
  <2>3. Goto(p, "save") /\ Update(p, j)
    BY <1>6 DEF Check
  <2> QED
    BY <1>1, <1>5, <2>2, <2>3, Moved, LabelledStep
       DEF Typed, Steps, Staging, Collecting, Before, Preparing, Flipped
<1>7. ASSUME NEW m \in machine.manifests, NEW override, NEW now,
             ApplyAccept(p, m, override, now)
      PROVE  Typed'
  <2> DEFINE j == [Loaded("apply") EXCEPT !.to = m.version]
  <2>1. m.version \in Versions
    BY <1>1, MachineTyped DEF TypeOK
  <2>2. j \in Job /\ j.op = "apply" /\ j.result = "none" /\ j.to = m.version
    BY <1>3, <2>1 DEF Job, MaybeVersion
  <2>3. Goto(p, "stage") /\ Update(p, j) /\ "stage" \in Steps
    BY <1>7 DEF ApplyAccept, Steps
  <2> HIDE DEF j
  <2>4. /\ pc' \in [Procs -> Steps] /\ job' \in [Procs -> Job]
        /\ pc'[p] = "stage" /\ job'[p] = j
        /\ \A q \in Procs : q # p => pc'[q] = pc[q] /\ job'[q] = job[q]
    BY <1>1, <2>2, <2>3, Moved
  <2>5. Labelled'
    BY <1>1, <2>1, <2>2, <2>4, LabelledStep DEF Collecting, Switching
  <2> QED
    BY <1>5, <2>4, <2>5 DEF Typed
<1>8. ASSUME NEW m \in machine.manifests, NEW override, NEW now,
             ApplyRefuse(p, m, override, now)
      PROVE  Typed'
  <2>1. PICK r \in {"refused", "artifactMismatch"} :
           Update(p, [Loaded("apply") EXCEPT !.result = r])
    BY <1>8 DEF ApplyRefuse
  <2> DEFINE j == [Loaded("apply") EXCEPT !.result = r]
  <2>2. j \in Job /\ j.op = "apply" /\ j.result = r
    BY <1>3, <2>1 DEF Job, Results
  <2>3. Goto(p, "save") /\ Update(p, j)
    BY <1>8, <2>1 DEF ApplyRefuse
  <2> QED
    BY <1>1, <1>5, <2>1, <2>2, <2>3, Moved, LabelledStep, ZenonT(40)
       DEF Typed, Steps, Staging, Collecting, Before, Preparing, Flipped
<1>9. CASE Rollback(p)
  <2>1. Goto(p, "readCurrent") /\ Update(p, Loaded("rollback"))
    BY <1>9 DEF Rollback
  <2> QED
    BY <1>1, <1>3, <1>5, <2>1, Moved, LabelledStep
       DEF Typed, Steps, Staging, Collecting, Before, Preparing, Flipped, Switching
<1> QED
  BY <1>6, <1>7, <1>8, <1>9 DEF Start

(* A command that gives up or ends keeps the types of what it leaves. *)
LEMMA FinishTyped ==
    ASSUME Typed, NEW p \in Procs, NEW r \in Results \ {"applied"}, Finish(p, r)
    PROVE  /\ pc' \in [Procs -> Steps] /\ job' \in [Procs -> Job]
           /\ Labelled'
<1>1. TypeOK /\ Labelled
  BY DEF Typed
<1>2. /\ pc' \in [Procs -> Steps] /\ job' \in [Procs -> Job]
      /\ pc'[p] = "save" /\ job'[p] = [job[p] EXCEPT !.result = r]
      /\ \A q \in Procs : q # p => pc'[q] = pc[q] /\ job'[q] = job[q]
  BY <1>1, Finished
<1>3. job'[p].result = r
  BY <1>1, <1>2 DEF TypeOK, Job
<1>4. Labelled'
  BY <1>1, <1>2, <1>3, LabelledStep
     DEF Staging, Collecting, Before, Preparing, Flipped
<1> QED
  BY <1>2, <1>4

(* A command that ends leaves no job. *)
LEMMA ResetTyped ==
    ASSUME Typed, NEW p \in Procs, Goto(p, "idle"), Update(p, NoJob)
    PROVE  /\ pc' \in [Procs -> Steps] /\ job' \in [Procs -> Job]
           /\ Labelled'
<1>1. TypeOK /\ Labelled
  BY DEF Typed
<1> QED
  BY <1>1, NoJobTyped, Moved, LabelledStep
     DEF Steps, NoJob, Staging, Collecting, Before, Preparing, Flipped

(* A command that goes on in the same phase with the same job. *)
LEMMA GotoTyped ==
    ASSUME Typed, NEW p \in Procs, NEW step \in Steps \ {"readTarget"},
           Goto(p, step), UNCHANGED job,
           step \in Staging \cup Collecting => job[p].op = "apply",
           step \in Before \cup Flipped => pc[p] \in Before \cup Flipped,
           step \in Collecting => pc[p] \in Collecting
    PROVE  /\ pc' \in [Procs -> Steps] /\ job' \in [Procs -> Job]
           /\ Labelled'
<1>1. TypeOK /\ Labelled
  BY DEF Typed
<1>2. pc' = [pc EXCEPT ![p] = step] /\ pc \in [Procs -> Steps]
  BY <1>1 DEF Goto, TypeOK
<1>3. Labelled'
  BY <1>1, <1>2, LabelledStep DEF Labelled
<1> QED
  BY <1>1, <1>2, <1>3 DEF TypeOK

(* ... or with another job of the same command. *)
LEMMA UpdateTyped ==
    ASSUME Typed, NEW p \in Procs, NEW step \in Steps \ Staging, NEW j \in Job,
           Goto(p, step), Update(p, j),
           j.op = job[p].op, j.result = job[p].result,
           step \in Before \cup Flipped =>
             /\ pc[p] \in Before \cup Flipped
             /\ j.to = job[p].to \/ j.op = "rollback",
           step = "readTarget" => j.op = "rollback",
           step \in Collecting => pc[p] \in Collecting
    PROVE  /\ pc' \in [Procs -> Steps] /\ job' \in [Procs -> Job]
           /\ Labelled'
<1>1. TypeOK /\ Labelled
  BY DEF Typed
<1>2. /\ pc' \in [Procs -> Steps] /\ job' \in [Procs -> Job]
      /\ pc'[p] = step /\ job'[p] = j
      /\ \A q \in Procs : q # p => pc'[q] = pc[q] /\ job'[q] = job[q]
  BY <1>1, Moved
<1>3. Labelled'
  BY <1>1, <1>2, LabelledStep DEF Labelled
<1> QED
  BY <1>2, <1>3

(* Staging: the leftover is cleared, the payload placed. *)
LEMMA StageTyped ==
    ASSUME Typed, NEW p \in Procs, StageClear(p) \/ StagePlace(p)
    PROVE  Typed'
<1>1. TypeOK /\ job[p] \in Job /\ pc[p] \in Staging
  BY DEF Typed, TypeOK, StageClear, StagePlace, Staging
<1>2. job[p].op = "apply" /\ job[p].to \in Versions
  BY <1>1 DEF Typed, Labelled, Before
<1>3. \/ Finish(p, "stageFailed")
      \/ Goto(p, "place") /\ UNCHANGED job
      \/ Goto(p, "readCurrent") /\ UNCHANGED job
  BY DEF StageClear, StagePlace
<1>4. /\ pc' \in [Procs -> Steps] /\ job' \in [Procs -> Job]
      /\ Labelled'
  BY <1>1, <1>2, <1>3, FinishTyped, GotoTyped
     DEF Results, Steps, Staging, Collecting, Before, Preparing
<1>5. payload' \subseteq Versions /\ orphans' \in BOOLEAN
  BY <1>1, <1>2 DEF TypeOK, StageClear, StagePlace
<1>6. UNCHANGED <<machine, current, previous, rollbackLog, stateFile>>
  BY DEF StageClear, StagePlace
<1> QED
  BY <1>1, <1>4, <1>5, <1>6 DEF Typed, TypeOK

(* The markers and the log name versions, so what is read from them does. *)
LEMMA ReadTyped ==
    ASSUME Typed, NEW p \in Procs, ReadCurrent(p) \/ ReadTarget(p)
    PROVE  Typed'
<1>1. TypeOK /\ job[p] \in Job /\ pc[p] \in Before
  BY DEF Typed, TypeOK, ReadCurrent, ReadTarget, Before, Preparing
<1>2. job[p].op \in Switching
  BY <1>1 DEF Typed, Labelled
<1>3. UNCHANGED disk
  BY DEF ReadCurrent, ReadTarget
<1>4. CASE Finish(p, "refused")
  BY <1>1, <1>3, <1>4, FinishTyped DEF Results, disk, Typed, TypeOK
<1>5. ASSUME NEW step \in {"checkPayload", "readTarget"}, Goto(p, step),
             step = "readTarget" => job[p].op = "rollback",
             Update(p, [job[p] EXCEPT !.from = current])
      PROVE  Typed'
  <2> DEFINE j == [job[p] EXCEPT !.from = current]
  <2>1. j \in Job /\ j.op = job[p].op /\ j.to = job[p].to /\ j.result = job[p].result
    BY <1>1 DEF TypeOK, Job
  <2>2. step \in Steps \ Staging /\ step \notin Collecting
    BY DEF Steps, Staging, Collecting
  <2> HIDE DEF j
  <2>3. Update(p, j)
    BY <1>5 DEF j
  <2>4. pc' \in [Procs -> Steps] /\ job' \in [Procs -> Job] /\ Labelled'
    BY <1>1, <1>5, <2>1, <2>2, <2>3, UpdateTyped
  <2> QED
    BY <1>1, <1>3, <2>4 DEF disk, Typed, TypeOK
<1>6. ASSUME ReadTarget(p), ~ Finish(p, "refused")
      PROVE  Typed'
  <2> DEFINE logged == IF rollbackLog.readable
                       THEN find_rollback_target(rollbackLog.events, job[p].from)
                       ELSE Empty
             target == IF previous # Empty THEN previous ELSE logged
             j == [job[p] EXCEPT !.to = target]
  <2>1. logged \in MaybeVersion
    <3>1. rollbackLog.events \in Seq(Event)
      BY <1>1 DEF TypeOK, Log
    <3>2. \A i \in DOMAIN rollbackLog.events : rollbackLog.events[i].from \in MaybeVersion
      BY <3>1, EventFields
    <3>3. find_rollback_target(rollbackLog.events, job[p].from) \in MaybeVersion
      BY <3>1, <3>2, TargetIsLogged DEF MaybeVersion
    <3>4. Empty \in MaybeVersion
      BY DEF MaybeVersion
    <3>5. CASE rollbackLog.readable
      BY <3>3, <3>5
    <3>6. CASE ~ rollbackLog.readable
      BY <3>4, <3>6
    <3> QED
      BY <3>5, <3>6
  <2>2. j \in Job /\ j.op = job[p].op /\ j.result = job[p].result
    BY <1>1, <2>1 DEF TypeOK, Job
  <2>3. Goto(p, "checkPayload") /\ Update(p, j)
    BY <1>6 DEF ReadTarget
  <2>4. job[p].op = "rollback"
    BY <1>6 DEF Typed, Labelled, ReadTarget
  <2> HIDE DEF j
  <2>5. pc' \in [Procs -> Steps] /\ job' \in [Procs -> Job] /\ Labelled'
    BY <1>1, <2>2, <2>3, <2>4, UpdateTyped DEF Steps, Staging, Collecting
  <2> QED
    BY <1>1, <1>3, <2>5 DEF disk, Typed, TypeOK
<1> QED
  BY <1>4, <1>5, <1>6 DEF ReadCurrent

(* atomic_switch_to: the payload is looked for and the two markers written. *)
LEMMA SwitchTyped ==
    ASSUME Typed, NEW p \in Procs,
           CheckPayload(p) \/ WritePrevious(p) \/ WriteCurrent(p)
    PROVE  Typed'
<1>1. TypeOK /\ job[p] \in Job /\ pc[p] \in Before
  BY DEF Typed, TypeOK, CheckPayload, WritePrevious, WriteCurrent, Before, Preparing
<1>2. \/ \E r \in {"switchFailed", "refused"} : Finish(p, r)
      \/ \E step \in {"writePrevious", "writeCurrent", "loadLog"} :
            Goto(p, step) /\ UNCHANGED job
  BY DEF CheckPayload, WritePrevious, WriteCurrent
<1>3. /\ pc' \in [Procs -> Steps] /\ job' \in [Procs -> Job]
      /\ Labelled'
  BY <1>1, <1>2, FinishTyped, GotoTyped
     DEF Results, Steps, Staging, Collecting, Before, Preparing
<1>4. UNCHANGED <<machine, payload, orphans, rollbackLog, stateFile>>
  BY DEF CheckPayload, WritePrevious, WriteCurrent, disk
<1>5. current' \in MaybeVersion /\ previous' \in MaybeVersion
  <2>1. Empty \in MaybeVersion /\ {current, previous, job[p].from, job[p].to} \subseteq MaybeVersion
    BY <1>1 DEF TypeOK, Job, MaybeVersion
  <2>2. ASSUME NEW w \in WriteResults("io"), NEW old \in MaybeVersion, NEW new \in MaybeVersion
        PROVE  Contents(w, old, new, Empty) \in MaybeVersion
    BY <2>1, WriteReports, ContentsAre
  <2> QED
    BY <2>1, <2>2 DEF CheckPayload, WritePrevious, WriteCurrent, disk
<1> QED
  BY <1>1, <1>3, <1>4, <1>5 DEF Typed, TypeOK

(* The event goes into the log, whose type it has. *)
LEMMA LogTyped ==
    ASSUME Typed, NEW p \in Procs, LoadLog(p) \/ AppendLog(p)
    PROVE  Typed'
<1>1. TypeOK /\ Labelled /\ job[p] \in Job /\ rollbackLog \in Log
  BY DEF Typed, TypeOK
<1>2. pc[p] \in Flipped /\ job[p].op \in Switching
  BY <1>1 DEF Labelled, LoadLog, AppendLog, Flipped
<1>3. CASE LoadLog(p)
  <2> DEFINE j == [job[p] EXCEPT !.loaded = rollbackLog]
  <2>1. j \in Job /\ j.op = job[p].op /\ j.to = job[p].to /\ j.result = job[p].result
    BY <1>1 DEF Job
  <2>2. Goto(p, "appendLog") /\ Update(p, j) /\ UNCHANGED disk
    BY <1>3 DEF LoadLog
  <2> HIDE DEF j
  <2>3. pc' \in [Procs -> Steps] /\ job' \in [Procs -> Job] /\ Labelled'
    BY <1>2, <2>1, <2>2, UpdateTyped DEF Steps, Staging, Collecting
  <2> QED
    BY <1>1, <2>2, <2>3 DEF disk, Typed, TypeOK
<1>4. CASE AppendLog(p)
  <2> DEFINE j == Switched(job[p])
             step == IF job[p].op = "apply" THEN "gc" ELSE "save"
  <2>1. j \in Job
    <3>1. (IF job[p].op = "apply" THEN BumpFloor(job[p].floor, job[p].to)
           ELSE job[p].floor) \in MaybeVersion
      BY <1>1, <1>2, BumpIsMax DEF Labelled, Job
    <3>2. (IF job[p].op = "apply" THEN "applied" ELSE "rolledBack") \in Results
      BY DEF Results
    <3> QED
      BY <1>1, <3>1, <3>2, NoJobTyped DEF Switched, Job
  <2>2. /\ j.op = job[p].op
        /\ j.result = IF job[p].op = "apply" THEN "applied" ELSE "rolledBack"
    BY <1>1 DEF Switched, Job
  <2>3. Goto(p, step) /\ Update(p, j) /\ step \in Steps
    BY <1>4 DEF AppendLog, Steps
  <2> HIDE DEF j
  <2>4. /\ pc' \in [Procs -> Steps] /\ job' \in [Procs -> Job]
        /\ pc'[p] = step /\ job'[p] = j
        /\ \A q \in Procs : q # p => pc'[q] = pc[q] /\ job'[q] = job[q]
    BY <1>1, <2>1, <2>3, Moved
  <2>5. Labelled'
    BY <1>1, <1>2, <2>2, <2>4, LabelledStep
       DEF Staging, Before, Preparing, Flipped, Collecting, Switching
  <2>6. rollbackLog' \in Log
    <3> DEFINE e == [type |-> job[p].op, from |-> job[p].from, to |-> job[p].to]
               appended == [readable |-> TRUE, events |-> Append(job[p].loaded.events, e)]
               torn == [readable |-> FALSE, events |-> <<>>]
    <3>1. e \in Event /\ job[p].loaded.events \in Seq(Event)
      BY <1>1, <1>2 DEF Event, Job, Log, Switching
    <3>2. appended \in Log /\ torn \in Log
      BY <3>1 DEF Log
    <3> HIDE DEF appended, torn
    <3>3. \/ UNCHANGED rollbackLog
          \/ \E w \in WriteResults("log") : rollbackLog' = Contents(w, rollbackLog, appended, torn)
      BY <1>4 DEF AppendLog, appended, torn
    <3> QED
      BY <1>1, <3>2, <3>3, WriteReports, ContentsAre
  <2>7. UNCHANGED <<machine, current, previous, payload, orphans, stateFile>>
    BY <1>4 DEF AppendLog
  <2> QED
    BY <1>1, <2>4, <2>5, <2>6, <2>7 DEF Typed, TypeOK
<1> QED
  BY <1>3, <1>4

(* gc dooms and removes versions only. *)
LEMMA CollectTyped ==
    ASSUME Typed, NEW p \in Procs, Gc(p) \/ GcCheck(p) \/ GcRemove(p)
    PROVE  Typed'
<1>1. TypeOK /\ job[p] \in Job /\ pc[p] \in Collecting
  BY DEF Typed, TypeOK, Gc, GcCheck, GcRemove, Collecting
<1>2. job[p].op = "apply"
  BY <1>1 DEF Typed, Labelled
<1>3. UNCHANGED <<machine, current, previous, orphans, rollbackLog, stateFile>>
  BY DEF Gc, GcCheck, GcRemove, disk
<1>4. payload' \subseteq payload
  BY DEF Gc, GcCheck, GcRemove, disk
<1>5. ASSUME NEW step \in {"gcCheck", "gcRemove"}, NEW j \in Job,
             j.op = job[p].op, j.result = job[p].result,
             Goto(p, step), Update(p, j)
      PROVE  pc' \in [Procs -> Steps] /\ job' \in [Procs -> Job] /\ Labelled'
  <2>1. step \in Steps \ Staging /\ step \notin Before \cup Flipped /\ step # "readTarget"
    BY DEF Steps, Staging, Before, Preparing, Flipped
  <2> QED
    BY <1>1, <1>5, <2>1, UpdateTyped
<1>6. ASSUME NEW doomed \in SUBSET Versions, NEW victim \in MaybeVersion
      PROVE  /\ [job[p] EXCEPT !.doomed = doomed] \in Job
             /\ [job[p] EXCEPT !.victim = victim] \in Job
             /\ [job[p] EXCEPT !.doomed = doomed, !.victim = victim] \in Job
  BY <1>1 DEF Job
<1>7. ASSUME Gc(p)
      PROVE  pc' \in [Procs -> Steps] /\ job' \in [Procs -> Job] /\ Labelled'
  <2> DEFINE j == [job[p] EXCEPT !.doomed = payload \ Referenced]
  <2>1. j \in Job /\ j.op = job[p].op /\ j.result = job[p].result
    BY <1>1, <1>6 DEF TypeOK, Job
  <2>2. Goto(p, "gcCheck") /\ Update(p, j)
    BY <1>7 DEF Gc
  <2> HIDE DEF j
  <2> QED
    BY <1>5, <2>1, <2>2
<1>8. ASSUME GcCheck(p)
      PROVE  pc' \in [Procs -> Steps] /\ job' \in [Procs -> Job] /\ Labelled'
  <2>1. ASSUME Goto(p, "save"), UNCHANGED job
        PROVE  pc' \in [Procs -> Steps] /\ job' \in [Procs -> Job] /\ Labelled'
    BY <1>1, <2>1, GotoTyped DEF Steps, Staging, Collecting, Before, Preparing, Flipped
  <2>2. ASSUME NEW v \in job[p].doomed,
               UNCHANGED pc,
               Update(p, [job[p] EXCEPT !.doomed = @ \ {v}])
        PROVE  pc' \in [Procs -> Steps] /\ job' \in [Procs -> Job] /\ Labelled'
    <3> DEFINE j == [job[p] EXCEPT !.doomed = @ \ {v}]
    <3>1. j \in Job /\ j.op = job[p].op /\ j.result = job[p].result
      BY <1>1 DEF Job
    <3>2. Goto(p, "gcCheck")
      BY <1>1, <1>8, <2>2 DEF GcCheck, Goto, TypeOK
    <3>3. Update(p, j)
      BY <2>2
    <3> HIDE DEF j
    <3> QED
      BY <1>5, <3>1, <3>2, <3>3
  <2>3. ASSUME NEW v \in job[p].doomed, Goto(p, "gcRemove"),
               Update(p, [[job[p] EXCEPT !.doomed = @ \ {v}] EXCEPT !.victim = v])
        PROVE  pc' \in [Procs -> Steps] /\ job' \in [Procs -> Job] /\ Labelled'
    <3> DEFINE j == [[job[p] EXCEPT !.doomed = @ \ {v}] EXCEPT !.victim = v]
    <3>1. j \in Job /\ j.op = job[p].op /\ j.result = job[p].result
      BY <1>1 DEF Job, MaybeVersion
    <3>2. Update(p, j)
      BY <2>3
    <3> HIDE DEF j
    <3> QED
      BY <1>5, <2>3, <3>1, <3>2
  <2> QED
    BY <1>8, <2>1, <2>2, <2>3 DEF GcCheck
<1>9. ASSUME GcRemove(p)
      PROVE  pc' \in [Procs -> Steps] /\ job' \in [Procs -> Job] /\ Labelled'
  <2> DEFINE j == [job[p] EXCEPT !.victim = Empty]
  <2>1. j \in Job /\ j.op = job[p].op /\ j.result = job[p].result
    BY <1>1, <1>6 DEF Job, MaybeVersion
  <2>2. Goto(p, "gcCheck") /\ Update(p, j)
    BY <1>9 DEF GcRemove
  <2> HIDE DEF j
  <2> QED
    BY <1>5, <2>1, <2>2
<1>10. pc' \in [Procs -> Steps] /\ job' \in [Procs -> Job] /\ Labelled'
  BY <1>7, <1>8, <1>9
<1> QED
  BY <1>1, <1>3, <1>4, <1>10 DEF Typed, TypeOK

(* The command saves and ends, or dies. *)
LEMMA EndTyped ==
    ASSUME Typed, NEW p \in Procs, Save(p) \/ Crash(p)
    PROVE  Typed'
<1>1. TypeOK /\ job[p] \in Job
  BY DEF Typed, TypeOK
<1>2. pc' \in [Procs -> Steps] /\ job' \in [Procs -> Job] /\ Labelled'
  BY ResetTyped DEF Save, Crash
<1>3. UNCHANGED <<machine, current, previous, payload, rollbackLog>>
  BY DEF Save, Crash
<1>4. orphans' \in BOOLEAN
  BY <1>1 DEF Save, Crash, TypeOK
<1>5. stateFile' \in [cur : MaybeVersion, floor : MaybeVersion]
  <2> DEFINE Files == [cur : MaybeVersion, floor : MaybeVersion]
             saved == [cur |-> job[p].cur, floor |-> job[p].floor]
  <2>1. stateFile \in Files /\ saved \in Files /\ FreshState \in Files
    BY <1>1 DEF TypeOK, Job, FreshState, MaybeVersion
  <2> HIDE DEF Files, saved
  <2>2. \/ UNCHANGED stateFile
        \/ \E w \in WriteResults("save") : stateFile' = Contents(w, stateFile, saved, FreshState)
    BY DEF Save, Crash, saved
  <2>3. stateFile' \in Files
    BY <2>1, <2>2, WriteReports, ContentsAre
  <2> QED
    BY <2>3 DEF Files
<1> QED
  BY <1>1, <1>2, <1>3, <1>4, <1>5 DEF Typed, TypeOK

(* What a fresh machine starts with. *)
LEMMA InitTyped ==
    ASSUME Init
    PROVE  Typed
<1>1. TypeOK
  BY NoJobTyped DEF Init, TypeOK, MaybeVersion, FreshState, Steps
<1>2. Labelled
  BY DEF Init, Labelled, NoJob, Staging, Collecting, Before, Preparing, Flipped
<1> QED
  BY <1>1, <1>2 DEF Typed

(***************************************************************************)
(* Every variable of the updater holds a value of its kind, however many   *)
(* commands run at once and whatever fails.                                *)
(***************************************************************************)
THEOREM TypeInvariance == Spec => []Typed
<1>1. Init => Typed
  BY InitTyped
<1>2. Typed /\ [Next]_vars => Typed'
  <2> SUFFICES ASSUME Typed, [Next]_vars PROVE Typed'
    OBVIOUS
  <2>1. CASE UNCHANGED vars
    BY <2>1 DEF Typed, TypeOK, Labelled, vars, disk
  <2>2. ASSUME NEW p \in Procs, Continue(p)
        PROVE  Typed'
    BY <2>2, StageTyped, ReadTyped, SwitchTyped, LogTyped, CollectTyped, EndTyped
       DEF Continue
  <2> QED
    BY <2>1, <2>2, StartTyped DEF Next
<1> QED
  BY <1>1, <1>2, PTL DEF Spec

(***************************************************************************)
(* TypeOK, which the runs check, is a part of it.                          *)
(***************************************************************************)
THEOREM TypeCorrect == Spec => []TypeOK
<1>1. Typed => TypeOK
  BY DEF Typed
<1> QED
  BY <1>1, TypeInvariance, PTL

-----------------------------------------------------------------------------
(* One command at a time. *)

(* Nothing locks the install root: the user runs one command at a time.    *)
OneCommand == \A p, q \in Procs : p = q

Done == {"applied", "rolledBack"}

(* Has p not flipped current.txt, or has it also recorded that it did?     *)
NotYet(p) == pc[p] \in Before \/ (pc[p] = "save" /\ job[p].result \notin Done)
Recorded(p) == pc[p] \in Collecting \/ (pc[p] = "save" /\ job[p].result \in Done)

(* p has read the version to switch to, and has not yet recorded the switch. *)
Aimed == Flipped \cup {"checkPayload", "writePrevious", "writeCurrent"}

(* What p is about to remove is not referenced. *)
Unreferenced(p) == pc[p] = "gcRemove" => job[p].victim \notin Referenced

(* What p will save as the floor is no lower than the floor. *)
FloorKept(p) == pc[p] # "idle" => stateFile.floor <= job[p].floor

(* What p switches to and from is there. *)
Present(p) ==
    NothingTorn =>
        /\ NotYet(p) => job[p].cur = stateFile.cur
        /\ pc[p] \in {"writePrevious", "writeCurrent"} => job[p].to \in payload
        /\ pc[p] \in Flipped \/ Recorded(p) => current = job[p].to /\ current \in payload
        /\ Recorded(p) => job[p].cur = current

(* The gate lets no apply replace the version on record by itself. *)
Newer(p) ==
    RecordedVersion /\ pc[p] \in Before /\ job[p].op = "apply"
        => job[p].to # stateFile.cur

(* The version that the last event of the log put in place. *)
LogEnd == LET events == rollbackLog.events
          IN IF events = <<>> THEN Empty ELSE events[Len(events)].to

Chained == LET events == rollbackLog.events
           IN \A i \in 2..Len(events) : events[i].from = events[i - 1].to

(* No version that was ever in place is above the floor. *)
BelowFloor(floor) ==
    /\ previous <= floor
    /\ \A i \in DOMAIN rollbackLog.events : /\ rollbackLog.events[i].from <= floor
                                            /\ rollbackLog.events[i].to <= floor

AtRest ==
    /\ stateFile.cur = current /\ LogEnd = current
    /\ current <= stateFile.floor /\ BelowFloor(stateFile.floor)

(* The records as p will leave them, at each phase of p. *)
Accounted(p) ==
    OnlyReportedFailures =>
        /\ pc[p] # "idle" => BelowFloor(job[p].floor)
        /\ NotYet(p) => /\ stateFile.cur = current /\ LogEnd = current
                        /\ current <= job[p].floor
        /\ pc[p] \in Flipped => LogEnd = job[p].from /\ job[p].from <= job[p].floor
        /\ Recorded(p) => LogEnd = current /\ current <= job[p].floor
        /\ pc[p] \in Preparing \ {"readCurrent"} => job[p].from = current
        /\ pc[p] = "appendLog" => job[p].loaded = rollbackLog
        /\ job[p].op = "apply" /\ pc[p] \in Before \cup Flipped
             => job[p].floor <= job[p].to
        /\ job[p].op = "rollback" /\ pc[p] \in Aimed
             => job[p].to <= job[p].floor

(* What an apply replaces stays in previous.txt and on disk. *)
Undoable(p) ==
    OnlyReportedFailures /\ RecordedVersion /\ job[p].op = "apply" /\ job[p].from # Empty =>
        /\ pc[p] = "writeCurrent" => previous = job[p].from
        /\ pc[p] \in Flipped \/ Recorded(p) =>
             /\ previous = job[p].from
             /\ previous # current
             /\ previous \in payload

CommandOK(p) ==
    /\ Unreferenced(p)
    /\ FloorKept(p)
    /\ Present(p)
    /\ Newer(p)
    /\ Accounted(p)
    /\ Undoable(p)

RecordsOK ==
    OnlyReportedFailures =>
        /\ rollbackLog.readable
        /\ Chained
        /\ (\A p \in Procs : pc[p] = "idle") => AtRest

(* The inductive invariant. *)
IInv ==
    /\ Typed
    /\ AgreedCurrentHasPayload
    /\ RecordsOK
    /\ \A p \in Procs : CommandOK(p)

(* With one command it is enough to look at the one that moved. *)
LEMMA OneIsAll ==
    ASSUME OneCommand, NEW p \in Procs, Typed', AgreedCurrentHasPayload',
           OnlyReportedFailures' => /\ rollbackLog'.readable
                                    /\ Chained'
                                    /\ pc'[p] = "idle" => AtRest',
           CommandOK(p)'
    PROVE  IInv'
BY DEF OneCommand, IInv, RecordsOK

(* The fault hypotheses are about the machine. *)
LEMMA SameFaults ==
    ASSUME UNCHANGED machine
    PROVE  /\ NothingTorn' = NothingTorn
           /\ RecordedVersion' = RecordedVersion
           /\ OnlyReportedFailures' = OnlyReportedFailures
BY DEF NothingTorn, RecordedVersion, OnlyReportedFailures

(* Failures that are reported tear nothing. *)
LEMMA ReportedMeansWhole ==
    ASSUME OnlyReportedFailures
    PROVE  NothingTorn
BY DEF OnlyReportedFailures, NothingTorn

(* Versions are naturals, wherever they are kept. *)
LEMMA VersionsAreNat == \A v \in MaybeVersion : v \in Nat
BY UpdaterAssumption DEF MaybeVersion, Empty

(* The versions in the files and in memory can be compared. *)
LEMMA Naturals ==
    ASSUME Typed
    PROVE  /\ current \in Nat /\ previous \in Nat
           /\ stateFile.cur \in Nat /\ stateFile.floor \in Nat
           /\ \A p \in Procs : /\ job[p].from \in Nat /\ job[p].to \in Nat
                               /\ job[p].cur \in Nat /\ job[p].floor \in Nat
           /\ \A i \in DOMAIN rollbackLog.events :
                /\ rollbackLog.events[i].from \in Nat
                /\ rollbackLog.events[i].to \in Nat
<1>1. \A v \in MaybeVersion : v \in Nat
  BY VersionsAreNat
<1>2. /\ current \in MaybeVersion /\ previous \in MaybeVersion
      /\ stateFile.cur \in MaybeVersion /\ stateFile.floor \in MaybeVersion
      /\ rollbackLog.events \in Seq(Event)
  BY DEF Typed, TypeOK, Log
<1>3. ASSUME NEW p \in Procs
      PROVE  /\ job[p].from \in MaybeVersion /\ job[p].to \in MaybeVersion
             /\ job[p].cur \in MaybeVersion /\ job[p].floor \in MaybeVersion
  BY DEF Typed, TypeOK, Job
<1>4. \A i \in DOMAIN rollbackLog.events :
        /\ rollbackLog.events[i].from \in MaybeVersion
        /\ rollbackLog.events[i].to \in MaybeVersion
  BY <1>2, EventFields
<1> QED
  BY <1>1, <1>2, <1>3, <1>4

(* The same of the state after a step. *)
LEMMA NextNaturals ==
    ASSUME Typed', NEW p \in Procs
    PROVE  job'[p].floor \in Nat /\ job'[p].to \in Nat
<1>1. job'[p].floor \in MaybeVersion /\ job'[p].to \in MaybeVersion
  BY DEF Typed, TypeOK, Job
<1> QED
  BY <1>1, VersionsAreNat

(* What is below a floor is below a higher one. *)
LEMMA BelowFloorGrows ==
    ASSUME Typed, NEW floor \in Nat, NEW higher \in Nat, floor <= higher,
           BelowFloor(floor)
    PROVE  BelowFloor(higher)
BY Naturals DEF BelowFloor

(* What a command starts with. *)
LEMMA StartLoads ==
    ASSUME Typed, NEW p \in Procs, Start(p)
    PROVE  /\ UNCHANGED disk
           /\ pc[p] = "idle"
           /\ pc'[p] \in {"save", "stage", "readCurrent"}
           /\ job'[p].cur = stateFile.cur
           /\ stateFile.floor <= job'[p].floor
           /\ job'[p].result \notin Done
           /\ pc'[p] = "stage" =>
                /\ job'[p].op = "apply"
                /\ job'[p].floor <= job'[p].to
                /\ RecordedVersion => job'[p].to # stateFile.cur
           /\ pc'[p] = "readCurrent" => job'[p].op = "rollback"
<1>1. /\ TypeOK /\ pc \in [Procs -> Steps] /\ job \in [Procs -> Job]
      /\ stateFile.cur \in MaybeVersion /\ stateFile.floor \in MaybeVersion
      /\ stateFile.floor \in Nat
  BY Naturals DEF Typed, TypeOK
<1>2. ASSUME NEW op \in {"check", "apply", "rollback"}
      PROVE  /\ Loaded(op) \in Job
             /\ Loaded(op).op = op /\ Loaded(op).result = "none"
             /\ Loaded(op).cur = stateFile.cur /\ Loaded(op).floor = stateFile.floor
  BY <1>1, NoJobTyped DEF Loaded, NoJob, Job
<1>3. UNCHANGED disk /\ pc[p] = "idle"
  BY DEF Start, Check, ApplyAccept, ApplyRefuse, Rollback
<1>4. ASSUME NEW m \in machine.manifests, NEW override, NEW now,
             Check(p, m, override, now)
      PROVE  /\ pc'[p] = "save" /\ job'[p].result = "none"
             /\ job'[p].cur = stateFile.cur /\ stateFile.floor <= job'[p].floor
  <2> DEFINE floor == IF Accepts(m, override, now)
                      THEN BumpFloor(Loaded("check").floor, m.version)
                      ELSE Loaded("check").floor
             j == [Loaded("check") EXCEPT !.floor = floor]
  <2>1. stateFile.floor <= floor
    BY <1>1, <1>2, MachineTyped, BumpIsMax DEF TypeOK
  <2>2. j.floor = floor /\ j.cur = stateFile.cur /\ j.result = "none"
    BY <1>2 DEF Job
  <2>3. Goto(p, "save") /\ Update(p, j)
    BY <1>4 DEF Check
  <2> HIDE DEF j, floor
  <2> QED
    BY <1>1, <2>1, <2>2, <2>3 DEF Goto, Update
<1>5. ASSUME NEW m \in machine.manifests, NEW override \in machine.overrides \cup {Empty},
             NEW now, ApplyAccept(p, m, override, now)
      PROVE  /\ pc'[p] = "stage" /\ job'[p].result = "none" /\ job'[p].op = "apply"
             /\ job'[p].cur = stateFile.cur /\ job'[p].floor = stateFile.floor
             /\ stateFile.floor <= job'[p].to
             /\ RecordedVersion => job'[p].to # stateFile.cur
  <2> DEFINE j == [Loaded("apply") EXCEPT !.to = m.version]
  <2>1. m.version \in Nat /\ m.version > 0
    BY <1>1, MachineTyped DEF TypeOK
  <2>2. /\ j.to = m.version /\ j.op = "apply" /\ j.result = "none"
        /\ j.cur = stateFile.cur /\ j.floor = stateFile.floor
    BY <1>2 DEF Job
  <2>3. Goto(p, "stage") /\ Update(p, j) /\ Accepts(m, override, now)
    BY <1>5 DEF ApplyAccept
  <2>4. stateFile.floor <= m.version
    BY <1>1, <2>1, <2>3 DEF Accepts, apply_gate, Empty
  <2>5. RecordedVersion => m.version # stateFile.cur
    <3> SUFFICES ASSUME RecordedVersion, stateFile.cur # Empty
                 PROVE  m.version # stateFile.cur
      BY <2>1 DEF Empty
    <3>1. CurrentVersion(override) = stateFile.cur
      BY DEF RecordedVersion, CurrentVersion
    <3>2. stateFile.cur < m.version /\ stateFile.cur \in Nat
      BY <1>1, <2>3, <3>1, UpdaterAssumption DEF Accepts, apply_gate, MaybeVersion, Empty
    <3> QED
      BY <2>1, <3>2
  <2> HIDE DEF j
  <2> QED
    BY <1>1, <2>2, <2>3, <2>4, <2>5 DEF Goto, Update
<1>6. ASSUME NEW m, NEW override, NEW now, ApplyRefuse(p, m, override, now)
      PROVE  /\ pc'[p] = "save" /\ job'[p].result \notin Done
             /\ job'[p].cur = stateFile.cur /\ job'[p].floor = stateFile.floor
  <2>1. PICK r \in {"refused", "artifactMismatch"} :
           Update(p, [Loaded("apply") EXCEPT !.result = r])
    BY <1>6 DEF ApplyRefuse
  <2> DEFINE j == [Loaded("apply") EXCEPT !.result = r]
  <2>2. j.result = r /\ j.cur = stateFile.cur /\ j.floor = stateFile.floor
    BY <1>2 DEF Job
  <2>3. Goto(p, "save") /\ Update(p, j)
    BY <1>6, <2>1 DEF ApplyRefuse
  <2> HIDE DEF j
  <2> QED
    BY <1>1, <2>2, <2>3 DEF Goto, Update, Done
<1>7. ASSUME Rollback(p)
      PROVE  /\ pc'[p] = "readCurrent" /\ job'[p].op = "rollback"
             /\ job'[p].result \notin Done
             /\ job'[p].cur = stateFile.cur /\ stateFile.floor <= job'[p].floor
  <2>1. pc'[p] = "readCurrent" /\ job'[p] = Loaded("rollback")
    BY <1>1, <1>7 DEF Rollback, Goto, Update
  <2> QED
    BY <1>1, <1>2, <2>1 DEF Done
<1> DEFINE Loads ==
             /\ pc'[p] \in {"save", "stage", "readCurrent"}
             /\ job'[p].cur = stateFile.cur
             /\ stateFile.floor <= job'[p].floor
             /\ job'[p].result \notin Done
             /\ pc'[p] = "stage" =>
                  /\ job'[p].op = "apply"
                  /\ job'[p].floor <= job'[p].to
                  /\ RecordedVersion => job'[p].to # stateFile.cur
             /\ pc'[p] = "readCurrent" => job'[p].op = "rollback"
<1>8. ASSUME NEW m \in machine.manifests, NEW override \in machine.overrides \cup {Empty},
             NEW now,
             \/ Check(p, m, override, now)
             \/ ApplyAccept(p, m, override, now)
             \/ ApplyRefuse(p, m, override, now)
      PROVE  Loads
  <2>1. CASE Check(p, m, override, now)
    BY <1>4, <2>1 DEF Done
  <2>2. CASE ApplyAccept(p, m, override, now)
    BY <1>1, <1>5, <2>2 DEF Done
  <2>3. CASE ApplyRefuse(p, m, override, now)
    BY <1>1, <1>6, <2>3
  <2> QED
    BY <1>8, <2>1, <2>2, <2>3
<1>9. Loads
  BY <1>7, <1>8 DEF Start
<1> QED
  BY <1>3, <1>9

(* A command starts from records at rest. *)
LEMMA StartKeeps ==
    ASSUME OneCommand, IInv, NEW p \in Procs, Start(p)
    PROVE  IInv'
<1>1. Typed /\ Typed'
  BY StartTyped DEF IInv
<1>2. /\ UNCHANGED disk
      /\ pc[p] = "idle"
      /\ pc'[p] \in {"save", "stage", "readCurrent"}
      /\ job'[p].cur = stateFile.cur
      /\ stateFile.floor <= job'[p].floor
      /\ job'[p].result \notin Done
      /\ pc'[p] = "stage" =>
           /\ job'[p].op = "apply"
           /\ job'[p].floor <= job'[p].to
           /\ RecordedVersion => job'[p].to # stateFile.cur
      /\ pc'[p] = "readCurrent" => job'[p].op = "rollback"
  BY <1>1, StartLoads
<1>3. /\ NothingTorn' = NothingTorn
      /\ RecordedVersion' = RecordedVersion
      /\ OnlyReportedFailures' = OnlyReportedFailures
  BY <1>2, SameFaults DEF disk
<1>4. ~ Recorded(p)' /\ pc'[p] \notin Flipped
  BY <1>2 DEF Recorded, Collecting, Flipped
<1>5. AgreedCurrentHasPayload'
  BY <1>2, <1>3 DEF IInv, AgreedCurrentHasPayload, disk
<1>6. OnlyReportedFailures => rollbackLog.readable /\ Chained /\ AtRest
  BY <1>2 DEF IInv, RecordsOK, OneCommand
<1>7. Unreferenced(p)' /\ FloorKept(p)' /\ Present(p)' /\ Newer(p)' /\ Undoable(p)'
  BY <1>2, <1>3, <1>4 DEF Unreferenced, FloorKept, Present, Newer, Undoable, disk,
       Before, Staging, Preparing
<1>8. Accounted(p)'
  <2> SUFFICES ASSUME OnlyReportedFailures PROVE Accounted(p)'
    BY <1>3 DEF Accounted
  <2>1. current <= stateFile.floor /\ BelowFloor(stateFile.floor)
    BY <1>6 DEF AtRest
  <2>2. job'[p].floor \in Nat /\ current <= job'[p].floor
    BY <1>1, <1>2, <2>1, Naturals, NextNaturals
  <2>3. BelowFloor(job'[p].floor)
    BY <1>1, <1>2, <2>1, <2>2, BelowFloorGrows, Naturals
  <2>4. LogEnd' = LogEnd
    BY <1>2 DEF LogEnd, disk
  <2>5. BelowFloor(job[p].floor)'
    BY <1>2, <2>3 DEF BelowFloor, disk
  <2>6. UNCHANGED <<current, stateFile>> /\ LogEnd = current /\ stateFile.cur = current
    BY <1>2, <1>6 DEF disk, AtRest
  <2>7. pc'[p] \notin Flipped /\ pc'[p] \notin Preparing \ {"readCurrent"}
    BY <1>2 DEF Flipped, Preparing
  <2>8. job'[p].op = "apply" /\ pc'[p] \in Before \cup Flipped
          => job'[p].floor <= job'[p].to
    BY <1>2 DEF Before, Staging, Preparing, Flipped
  <2>9. pc'[p] \notin Aimed /\ pc'[p] # "appendLog"
    BY <1>2 DEF Aimed, Flipped
  <2> QED
    BY <1>4, <2>2, <2>4, <2>5, <2>6, <2>7, <2>8, <2>9 DEF Accounted
<1>9. UNCHANGED rollbackLog /\ Chained' = Chained
  BY <1>2 DEF Chained, disk
<1> QED
  BY <1>1, <1>2, <1>3, <1>5, <1>6, <1>7, <1>8, <1>9, OneIsAll DEF CommandOK

(* A step that moves p, and may add payloads or remove some that what p    *)
(* has switched to and from does not need.                                 *)
LEMMA MoveKeeps ==
    ASSUME OneCommand, IInv, Typed', NEW p \in Procs,
           UNCHANGED <<machine, current, previous, rollbackLog, stateFile>>,
           AgreedCurrentHasPayload',
           pc'[p] \in Flipped \/ Recorded(p)' =>
             \A v \in {current, previous} : v \in payload => v \in payload',
           pc[p] # "idle", pc'[p] # "idle",
           job'[p].op = job[p].op, job'[p].cur = job[p].cur,
           job'[p].floor = job[p].floor,
           NotYet(p)' => NotYet(p),
           pc'[p] \in Flipped => pc[p] \in Flipped,
           Recorded(p)' => Recorded(p),
           pc'[p] \in Flipped \/ Recorded(p)' =>
             job'[p].from = job[p].from /\ job'[p].to = job[p].to,
           pc'[p] \in Before /\ job[p].op = "apply" =>
             pc[p] \in Before /\ job'[p].to = job[p].to,
           Unreferenced(p)',
           NothingTorn /\ pc'[p] \in {"writePrevious", "writeCurrent"}
             => job'[p].to \in payload',
           pc'[p] = "writeCurrent" => job'[p].from = Empty,
           OnlyReportedFailures =>
             /\ pc'[p] \in Preparing \ {"readCurrent"} => job'[p].from = current
             /\ pc'[p] = "appendLog" => job'[p].loaded = rollbackLog
             /\ job[p].op = "rollback" /\ pc'[p] \in Aimed
                  => job'[p].to <= job[p].floor
    PROVE  IInv'
<1>1. /\ NothingTorn' = NothingTorn
      /\ RecordedVersion' = RecordedVersion
      /\ OnlyReportedFailures' = OnlyReportedFailures
  BY SameFaults
<1>2. CommandOK(p)
  BY DEF IInv
<1>4. OnlyReportedFailures => rollbackLog'.readable /\ Chained'
  BY DEF IInv, RecordsOK, Chained
<1>5. FloorKept(p)'
  BY <1>2 DEF CommandOK, FloorKept
<1>6. Present(p)'
  BY <1>1, <1>2 DEF CommandOK, Present
<1>7. Newer(p)'
  BY <1>1, <1>2 DEF CommandOK, Newer
<1>8. Accounted(p)'
  <2> SUFFICES ASSUME OnlyReportedFailures PROVE Accounted(p)'
    BY <1>1 DEF Accounted
  <2>1. LogEnd' = LogEnd /\ (BelowFloor(job[p].floor) => BelowFloor(job[p].floor)')
    BY DEF LogEnd, BelowFloor
  <2>2. pc'[p] \in Before \cup Flipped /\ job[p].op = "apply" =>
          pc[p] \in Before \cup Flipped /\ job'[p].to = job[p].to
    OBVIOUS
  <2> QED
    BY <1>1, <1>2, <2>1, <2>2 DEF CommandOK, Accounted
<1>9. Undoable(p)'
  BY <1>1, <1>2 DEF CommandOK, Undoable
<1> QED
  BY <1>1, <1>4, <1>5, <1>6, <1>7, <1>8, <1>9, OneIsAll DEF CommandOK

(* A step that only moves p and what p has in memory. *)
LEMMA QuietKeeps ==
    ASSUME OneCommand, IInv, Typed', NEW p \in Procs,
           UNCHANGED disk, pc[p] # "idle", pc'[p] # "idle",
           job'[p].op = job[p].op, job'[p].cur = job[p].cur,
           job'[p].floor = job[p].floor,
           NotYet(p)' => NotYet(p),
           pc'[p] \in Flipped => pc[p] \in Flipped,
           Recorded(p)' => Recorded(p),
           pc'[p] \in Flipped \/ Recorded(p)' =>
             job'[p].from = job[p].from /\ job'[p].to = job[p].to,
           pc'[p] \in Before /\ job[p].op = "apply" =>
             pc[p] \in Before /\ job'[p].to = job[p].to,
           Unreferenced(p)',
           NothingTorn /\ pc'[p] \in {"writePrevious", "writeCurrent"}
             => job'[p].to \in payload,
           pc'[p] = "writeCurrent" => job'[p].from = Empty,
           OnlyReportedFailures =>
             /\ pc'[p] \in Preparing \ {"readCurrent"} => job'[p].from = current
             /\ pc'[p] = "appendLog" => job'[p].loaded = rollbackLog
             /\ job[p].op = "rollback" /\ pc'[p] \in Aimed
                  => job'[p].to <= job[p].floor
    PROVE  IInv'
<1>1. AgreedCurrentHasPayload'
  BY SameFaults DEF IInv, AgreedCurrentHasPayload, disk
<1>2. UNCHANGED <<machine, current, previous, payload, rollbackLog, stateFile>>
  BY DEF disk
<1> QED
  BY <1>1, <1>2, MoveKeeps

(* A command that gives up before the flip. *)
LEMMA RefusalKeeps ==
    ASSUME OneCommand, IInv, NEW p \in Procs, NEW r \in Results \ Done, Typed',
           Finish(p, r), UNCHANGED disk, pc[p] \in Before
    PROVE  IInv'
<1>1. Typed /\ TypeOK /\ job[p] \in Job
  BY DEF IInv, Typed, TypeOK
<1>2. pc'[p] = "save" /\ job'[p] = [job[p] EXCEPT !.result = r]
  BY <1>1, Finished
<1>3. /\ job'[p].op = job[p].op /\ job'[p].cur = job[p].cur
      /\ job'[p].floor = job[p].floor /\ job'[p].result = r
  BY <1>1, <1>2 DEF Job
<1>4. ~ Recorded(p)' /\ NotYet(p) /\ Unreferenced(p)'
  BY <1>2, <1>3 DEF Recorded, Collecting, NotYet, Unreferenced
<1>5. pc'[p] \notin Flipped \cup Before \cup Aimed /\ pc[p] # "idle"
  BY <1>2 DEF Flipped, Before, Aimed, Staging, Preparing
<1> QED
  BY <1>1, <1>2, <1>3, <1>4, <1>5, QuietKeeps DEF Before, Flipped

(* What current.txt names at the start of the switch. *)
LEMMA ReadCurrentKeeps ==
    ASSUME OneCommand, IInv, NEW p \in Procs, ReadCurrent(p)
    PROVE  IInv'
<1>1. Typed /\ TypeOK /\ job[p] \in Job /\ current \in MaybeVersion
  BY DEF IInv, Typed, TypeOK
<1>2. Typed' /\ pc[p] = "readCurrent" /\ pc[p] \in Before /\ UNCHANGED disk
  BY <1>1, ReadTyped DEF ReadCurrent, Before, Preparing
<1> DEFINE j == [job[p] EXCEPT !.from = current]
<1>3. /\ j \in Job /\ j.from = current /\ j.to = job[p].to
      /\ j.op = job[p].op /\ j.cur = job[p].cur /\ j.floor = job[p].floor
  BY <1>1 DEF Job
<1>4. \/ Finish(p, "refused")
      \/ /\ Update(p, j)
         /\ \/ job[p].op = "apply" /\ Goto(p, "checkPayload")
            \/ job[p].op = "rollback" /\ Goto(p, "readTarget")
  BY DEF ReadCurrent
<1> HIDE DEF j
<1>5. CASE Finish(p, "refused")
  BY <1>2, <1>5, RefusalKeeps DEF Results, Done
<1>6. ASSUME NEW step \in {"checkPayload", "readTarget"}, Update(p, j), Goto(p, step),
             step = "checkPayload" => job[p].op = "apply"
      PROVE  IInv'
  <2>1. pc'[p] = step /\ job'[p] = j
    BY <1>1, <1>3, <1>6, Moved DEF Steps
  <2>2. /\ step \notin Flipped /\ step \notin Collecting /\ step # "save"
        /\ step \notin {"writePrevious", "writeCurrent"}
        /\ step \in Before
        /\ step \in Aimed => step = "checkPayload"
    BY DEF Flipped, Collecting, Before, Preparing, Aimed
  <2>3. NotYet(p) /\ ~ Recorded(p)' /\ Unreferenced(p)'
    BY <1>2, <2>1, <2>2 DEF NotYet, Recorded, Unreferenced
  <2> QED
    BY <1>2, <1>3, <1>6, <2>1, <2>2, <2>3, QuietKeeps DEF Flipped
<1> QED
  BY <1>4, <1>5, <1>6

(* Every version previous.txt and the log name is below the floor, so the  *)
(* one a rollback finds there is.                                          *)
LEMMA ReadTargetKeeps ==
    ASSUME OneCommand, IInv, NEW p \in Procs, ReadTarget(p)
    PROVE  IInv'
<1>1. Typed /\ TypeOK /\ job[p] \in Job /\ CommandOK(p)
  BY DEF IInv, Typed, TypeOK
<1>2. Typed' /\ pc[p] = "readTarget" /\ pc[p] \in Before /\ UNCHANGED disk
  BY <1>1, ReadTyped DEF ReadTarget, Before, Preparing
<1>3. CASE Finish(p, "refused")
  BY <1>2, <1>3, RefusalKeeps DEF Results, Done
<1>4. ASSUME ~ Finish(p, "refused") PROVE IInv'
  <2> DEFINE logged == IF rollbackLog.readable
                       THEN find_rollback_target(rollbackLog.events, job[p].from)
                       ELSE Empty
             target == IF previous # Empty THEN previous ELSE logged
             j == [job[p] EXCEPT !.to = target]
  <2>1. Goto(p, "checkPayload") /\ Update(p, j) /\ job[p].op = "rollback"
    BY <1>1, <1>2, <1>4 DEF ReadTarget, Typed, Labelled
  <2>2. /\ j.to = target /\ j.from = job[p].from
        /\ j.op = job[p].op /\ j.cur = job[p].cur /\ j.floor = job[p].floor
    BY <1>1 DEF Job
  <2>3. pc'[p] = "checkPayload" /\ job'[p] = j
    BY <1>1, <2>1 DEF TypeOK, Goto, Update
  <2>4. OnlyReportedFailures =>
          /\ job[p].from = current
          /\ previous <= job[p].floor
          /\ \A i \in DOMAIN rollbackLog.events :
                rollbackLog.events[i].from <= job[p].floor
    BY <1>1, <1>2 DEF CommandOK, Accounted, BelowFloor, Preparing
  <2>5. ASSUME OnlyReportedFailures PROVE target <= job[p].floor
    <3>1. rollbackLog.events \in Seq(Event)
      BY <1>1 DEF TypeOK, Log
    <3>2. find_rollback_target(rollbackLog.events, job[p].from) <= job[p].floor
      BY <1>1, <2>4, <2>5, <3>1, TargetIsLogged, Naturals DEF Empty
    <3>3. Empty <= job[p].floor
      BY <1>1, Naturals DEF Empty
    <3> QED
      BY <2>4, <2>5, <3>2, <3>3
  <2> HIDE DEF j, target
  <2>6. NotYet(p) /\ ~ Recorded(p)' /\ Unreferenced(p)'
    BY <1>2, <2>3 DEF NotYet, Recorded, Unreferenced, Collecting
  <2>7. pc'[p] \notin Flipped /\ pc'[p] # "appendLog"
    BY <2>3 DEF Flipped
  <2> QED
    BY <1>2, <2>1, <2>2, <2>3, <2>4, <2>5, <2>6, <2>7, QuietKeeps
<1> QED
  BY <1>3, <1>4

(* The switch looks for the payload of its target. *)
LEMMA CheckPayloadKeeps ==
    ASSUME OneCommand, IInv, NEW p \in Procs, CheckPayload(p)
    PROVE  IInv'
<1>1. Typed /\ TypeOK /\ CommandOK(p)
  BY DEF IInv, Typed
<1>2. Typed' /\ pc[p] = "checkPayload" /\ pc[p] \in Before /\ UNCHANGED disk
  BY <1>1, SwitchTyped DEF CheckPayload, Before, Preparing
<1>3. CASE \E r \in {"switchFailed", "refused"} : Finish(p, r)
  BY <1>2, <1>3, RefusalKeeps DEF Results, Done
<1>4. ASSUME Goto(p, "writePrevious"), UNCHANGED job, job[p].to \in payload
      PROVE  IInv'
  <2>1. pc'[p] = "writePrevious" /\ job' = job
    BY <1>1, <1>4 DEF TypeOK, Goto
  <2>2. NotYet(p) /\ ~ Recorded(p)' /\ Unreferenced(p)'
    BY <1>2, <2>1 DEF NotYet, Recorded, Unreferenced, Collecting
  <2>3. pc'[p] \notin Flipped /\ pc[p] \in Preparing \ {"readCurrent"}
    BY <1>2, <2>1 DEF Flipped, Preparing
  <2>4. OnlyReportedFailures =>
          /\ job[p].from = current
          /\ job[p].op = "rollback" => job[p].to <= job[p].floor
    BY <1>1, <1>2, <2>3 DEF CommandOK, Accounted, Aimed
  <2> QED
    BY <1>2, <1>4, <2>1, <2>2, <2>3, <2>4, QuietKeeps
<1> QED
  BY <1>3, <1>4 DEF CheckPayload

(* The log is read as it stands. *)
LEMMA LoadLogKeeps ==
    ASSUME OneCommand, IInv, NEW p \in Procs, LoadLog(p)
    PROVE  IInv'
<1>1. Typed /\ TypeOK /\ job[p] \in Job /\ CommandOK(p)
  BY DEF IInv, Typed, TypeOK
<1>2. Typed' /\ pc[p] = "loadLog" /\ pc[p] \in Flipped /\ UNCHANGED disk
  BY <1>1, LogTyped DEF LoadLog, Flipped
<1> DEFINE j == [job[p] EXCEPT !.loaded = rollbackLog]
<1>3. pc'[p] = "appendLog" /\ job'[p] = j
  BY <1>1 DEF LoadLog, TypeOK, Goto, Update
<1>4. /\ j.loaded = rollbackLog /\ j.from = job[p].from /\ j.to = job[p].to
      /\ j.op = job[p].op /\ j.cur = job[p].cur /\ j.floor = job[p].floor
  BY <1>1 DEF Job
<1> HIDE DEF j
<1>5. ~ NotYet(p)' /\ ~ Recorded(p)' /\ Unreferenced(p)'
  BY <1>3 DEF NotYet, Recorded, Unreferenced, Collecting, Before, Staging, Preparing
<1>6. pc'[p] \notin Before /\ pc'[p] \notin Preparing
  BY <1>3 DEF Before, Staging, Preparing
<1>7. OnlyReportedFailures /\ job[p].op = "rollback" => job[p].to <= job[p].floor
  BY <1>1, <1>2 DEF CommandOK, Accounted, Aimed
<1> QED
  BY <1>2, <1>3, <1>4, <1>5, <1>6, <1>7, QuietKeeps

(* gc lists the versions, and picks only unreferenced ones. *)
LEMMA GcListKeeps ==
    ASSUME OneCommand, IInv, NEW p \in Procs, Gc(p) \/ GcCheck(p)
    PROVE  IInv'
<1>1. Typed /\ TypeOK /\ job[p] \in Job
  BY DEF IInv, Typed, TypeOK
<1>2. Typed' /\ pc[p] \in {"gc", "gcCheck"} /\ UNCHANGED disk
  BY <1>1, CollectTyped DEF Gc, GcCheck
<1>3. /\ pc[p] \in Collecting /\ job[p].op = "apply" /\ job[p].result = "applied"
      /\ Recorded(p)
  BY <1>1, <1>2 DEF Collecting, Recorded, Typed, Labelled
<1>4. ASSUME NEW step \in {"gcCheck", "gcRemove", "save"}, NEW j,
             pc'[p] = step, job'[p] = j,
             j.op = job[p].op, j.from = job[p].from, j.to = job[p].to,
             j.cur = job[p].cur, j.floor = job[p].floor, j.result = job[p].result,
             step = "gcRemove" => j.victim \notin Referenced
      PROVE  IInv'
  <2>1. Unreferenced(p)'
    BY <1>2, <1>4 DEF Unreferenced, Referenced, disk
  <2>2. ~ NotYet(p)'
    BY <1>3, <1>4 DEF NotYet, Before, Staging, Preparing, Done
  <2>3. /\ step \notin Flipped /\ step \notin Before /\ step \notin Preparing
        /\ step \notin Aimed
    BY DEF Flipped, Before, Staging, Preparing, Aimed
  <2> QED
    BY <1>2, <1>3, <1>4, <2>1, <2>2, <2>3, QuietKeeps
<1>5. CASE Gc(p)
  <2> DEFINE j == [job[p] EXCEPT !.doomed = payload \ Referenced]
  <2>1. /\ j.op = job[p].op /\ j.from = job[p].from /\ j.to = job[p].to
        /\ j.cur = job[p].cur /\ j.floor = job[p].floor /\ j.result = job[p].result
    BY <1>1 DEF Job
  <2>2. pc'[p] = "gcCheck" /\ job'[p] = j
    BY <1>1, <1>5 DEF Gc, TypeOK, Goto, Update
  <2> HIDE DEF j
  <2> QED
    BY <1>4, <2>1, <2>2
<1>6. ASSUME GcCheck(p) PROVE IInv'
  <2>1. CASE Goto(p, "save") /\ UNCHANGED job
    <3>1. pc'[p] = "save" /\ job'[p] = job[p]
      BY <1>1, <2>1 DEF TypeOK, Goto
    <3> QED
      BY <1>4, <3>1
  <2>2. ASSUME NEW v \in job[p].doomed,
               Update(p, [job[p] EXCEPT !.doomed = @ \ {v}]), UNCHANGED pc
        PROVE  IInv'
    <3> DEFINE j == [job[p] EXCEPT !.doomed = @ \ {v}]
    <3>1. /\ j.op = job[p].op /\ j.from = job[p].from /\ j.to = job[p].to
          /\ j.cur = job[p].cur /\ j.floor = job[p].floor /\ j.result = job[p].result
      BY <1>1 DEF Job
    <3>2. pc'[p] = "gcCheck" /\ job'[p] = j
      BY <1>1, <1>6, <2>2 DEF GcCheck, TypeOK, Update
    <3> HIDE DEF j
    <3> QED
      BY <1>4, <3>1, <3>2
  <2>3. ASSUME NEW v \in job[p].doomed, v \notin Referenced,
               Update(p, [[job[p] EXCEPT !.doomed = @ \ {v}] EXCEPT !.victim = v]),
               Goto(p, "gcRemove")
        PROVE  IInv'
    <3> DEFINE rest == [job[p] EXCEPT !.doomed = @ \ {v}]
               j == [rest EXCEPT !.victim = v]
    <3>1. v \in Versions /\ rest \in Job
      BY <1>1 DEF Job
    <3>2. /\ rest.op = job[p].op /\ rest.from = job[p].from /\ rest.to = job[p].to
          /\ rest.cur = job[p].cur /\ rest.floor = job[p].floor
          /\ rest.result = job[p].result
      BY <1>1 DEF Job
    <3> HIDE DEF rest
    <3>3. /\ j.op = job[p].op /\ j.from = job[p].from /\ j.to = job[p].to
          /\ j.cur = job[p].cur /\ j.floor = job[p].floor
          /\ j.result = job[p].result /\ j.victim = v
      BY <3>1, <3>2 DEF Job
    <3>4. pc'[p] = "gcRemove" /\ job'[p] = j
      BY <1>1, <2>3 DEF TypeOK, Update, Goto, rest
    <3> HIDE DEF j
    <3> QED
      BY <1>4, <2>3, <3>3, <3>4
  <2> QED
    BY <1>6, <2>1, <2>2, <2>3 DEF GcCheck
<1> QED
  BY <1>5, <1>6

(* gc removes what nothing names. *)
LEMMA GcRemoveKeeps ==
    ASSUME OneCommand, IInv, NEW p \in Procs, GcRemove(p)
    PROVE  IInv'
<1>1. Typed /\ TypeOK /\ job[p] \in Job /\ CommandOK(p)
  BY DEF IInv, Typed, TypeOK
<1>2. /\ Typed' /\ pc[p] = "gcRemove"
      /\ UNCHANGED <<machine, current, previous, rollbackLog, stateFile>>
  BY <1>1, CollectTyped DEF GcRemove
<1>3. Recorded(p)
  BY <1>2 DEF Collecting, Recorded
<1> DEFINE j == [job[p] EXCEPT !.victim = Empty]
<1>4. /\ j.op = job[p].op /\ j.from = job[p].from /\ j.to = job[p].to
      /\ j.cur = job[p].cur /\ j.floor = job[p].floor
  BY <1>1 DEF Job
<1>5. pc'[p] = "gcCheck" /\ job'[p] = j
  BY <1>1 DEF GcRemove, TypeOK, Goto, Update
<1> HIDE DEF j
<1>6. \A v \in {current, previous} : v \in payload => v \in payload'
  BY <1>1, <1>2 DEF GcRemove, CommandOK, Unreferenced, Referenced
<1>7. AgreedCurrentHasPayload'
  BY <1>2, <1>6, SameFaults DEF IInv, AgreedCurrentHasPayload
<1>8. /\ ~ NotYet(p)' /\ Unreferenced(p)'
      /\ pc'[p] \notin Flipped \cup Before \cup Preparing \cup Aimed
  BY <1>5 DEF NotYet, Unreferenced, Flipped, Before, Staging, Preparing, Aimed
<1> QED
  BY <1>2, <1>3, <1>4, <1>5, <1>6, <1>7, <1>8, MoveKeeps

(* Staging removes a leftover of the version it stages, which is not the   *)
(* version on record.                                                      *)
LEMMA StageKeeps ==
    ASSUME OneCommand, IInv, NEW p \in Procs, StageClear(p) \/ StagePlace(p)
    PROVE  IInv'
<1>1. Typed /\ TypeOK /\ job[p] \in Job /\ CommandOK(p)
  BY DEF IInv, Typed, TypeOK
<1>2. /\ Typed' /\ pc[p] \in Staging /\ job[p].op = "apply"
      /\ UNCHANGED <<machine, current, previous, rollbackLog, stateFile>>
  BY <1>1, StageTyped DEF StageClear, StagePlace, Staging, Typed, Labelled
<1>3. pc[p] \in Before /\ NotYet(p)
  BY <1>2 DEF Before, NotYet
<1>4. payload \ {job[p].to} \subseteq payload'
  BY DEF StageClear, StagePlace
<1>5. AgreedCurrentHasPayload'
  BY <1>1, <1>2, <1>3, <1>4, SameFaults
     DEF IInv, AgreedCurrentHasPayload, CommandOK, Newer
<1>6. \/ Finish(p, "stageFailed")
      \/ \E step \in {"place", "readCurrent"} : Goto(p, step) /\ UNCHANGED job
  BY DEF StageClear, StagePlace
<1>7. /\ pc'[p] \in {"place", "readCurrent", "save"}
      /\ job'[p].op = job[p].op /\ job'[p].cur = job[p].cur
      /\ job'[p].floor = job[p].floor /\ job'[p].to = job[p].to
      /\ pc'[p] = "save" => job'[p].result = "stageFailed"
  <2>1. CASE Finish(p, "stageFailed")
    <3>1. pc'[p] = "save" /\ job'[p] = [job[p] EXCEPT !.result = "stageFailed"]
      BY <1>1, <2>1, Finished DEF Results
    <3> QED
      BY <1>1, <3>1 DEF Job
  <2>2. CASE \E step \in {"place", "readCurrent"} : Goto(p, step) /\ UNCHANGED job
    BY <1>1, <2>2 DEF TypeOK, Goto
  <2> QED
    BY <1>6, <2>1, <2>2
<1>8. /\ ~ Recorded(p)' /\ Unreferenced(p)'
      /\ pc'[p] \notin Flipped \cup Aimed
      /\ pc'[p] \notin Preparing \ {"readCurrent"}
      /\ pc'[p] \notin {"writePrevious", "writeCurrent", "appendLog", "idle"}
  BY <1>7 DEF Recorded, Unreferenced, Flipped, Collecting, Preparing, Aimed, Done
<1>9. pc[p] # "idle"
  BY <1>2 DEF Staging
<1> QED
  BY <1>2, <1>3, <1>5, <1>7, <1>8, <1>9, MoveKeeps

(* How writing a marker ends: p goes on to step, or gives up.              *)
LEMMA MarkerWritten ==
    ASSUME TypeOK, NEW p \in Procs, NEW ok \in BOOLEAN, NEW step \in Steps,
           \/ ok /\ Goto(p, step) /\ UNCHANGED job
           \/ ~ ok /\ Finish(p, "switchFailed")
    PROVE  /\ job'[p].op = job[p].op /\ job'[p].from = job[p].from
           /\ job'[p].to = job[p].to /\ job'[p].cur = job[p].cur
           /\ job'[p].floor = job[p].floor
           /\ ok => pc'[p] = step
           /\ ~ ok => pc'[p] = "save" /\ job'[p].result = "switchFailed"
<1>1. CASE ok /\ Goto(p, step) /\ UNCHANGED job
  BY <1>1 DEF TypeOK, Goto
<1>2. CASE ~ ok /\ Finish(p, "switchFailed")
  <2>1. /\ pc'[p] = "save" /\ job'[p] = [job[p] EXCEPT !.result = "switchFailed"]
        /\ job[p] \in Job
    BY <1>2, Finished DEF Results, TypeOK
  <2> QED
    BY <1>2, <2>1 DEF Job
<1> QED
  BY <1>1, <1>2

(* What a rollback will go back to is written before the flip. *)
LEMMA WritePreviousKeeps ==
    ASSUME OneCommand, IInv, NEW p \in Procs, WritePrevious(p)
    PROVE  IInv'
<1>1. Typed /\ TypeOK /\ job[p] \in Job /\ CommandOK(p)
  BY DEF IInv, Typed, TypeOK
<1>2. /\ Typed' /\ pc[p] = "writePrevious"
      /\ UNCHANGED <<machine, current, payload, rollbackLog, stateFile>>
  BY <1>1, SwitchTyped DEF WritePrevious
<1>3. /\ pc[p] \in Before /\ pc[p] \in Preparing \ {"readCurrent"}
      /\ pc[p] \in Aimed /\ NotYet(p) /\ pc[p] # "idle"
  BY <1>2 DEF Before, Preparing, Aimed, NotYet
<1>4. PICK ok \in BOOLEAN :
        /\ previous' \in {previous, job[p].from, Empty}
        /\ NothingTorn /\ ok /\ job[p].from # Empty => previous' = job[p].from
        /\ \/ ok /\ Goto(p, "writeCurrent") /\ UNCHANGED job
           \/ ~ ok /\ Finish(p, "switchFailed")
  <2>1. CASE job[p].from = Empty
    BY <2>1 DEF WritePrevious
  <2>2. CASE job[p].from # Empty
    <3>1. PICK w \in WriteResults("io") :
             /\ previous' = Contents(w, previous, job[p].from, Empty)
             /\ \/ w.ok /\ Goto(p, "writeCurrent") /\ UNCHANGED job
                \/ ~ w.ok /\ Finish(p, "switchFailed")
      BY <2>2 DEF WritePrevious
    <3>2. w.ok \in BOOLEAN /\ w.leaves \in {"old", "new", "torn"}
      BY WriteReports
    <3>3. NothingTorn /\ w.ok => w.leaves = "new"
      BY WriteReports
    <3>4. /\ previous' \in {previous, job[p].from, Empty}
          /\ w.leaves = "new" => previous' = job[p].from
      BY <3>1, <3>2, ContentsAre
    <3> QED
      BY <2>2, <3>1, <3>2, <3>3, <3>4
  <2> QED
    BY <2>1, <2>2
<1>5. /\ job'[p].op = job[p].op /\ job'[p].from = job[p].from
      /\ job'[p].to = job[p].to /\ job'[p].cur = job[p].cur
      /\ job'[p].floor = job[p].floor
      /\ ok => pc'[p] = "writeCurrent"
      /\ ~ ok => pc'[p] = "save" /\ job'[p].result = "switchFailed"
  BY <1>1, <1>4, MarkerWritten DEF Steps
<1>6. /\ ~ Recorded(p)' /\ pc'[p] \notin Flipped
      /\ pc'[p] \notin {"idle", "gcRemove", "writePrevious", "appendLog"}
  BY <1>5 DEF Recorded, Collecting, Flipped, Done
<1>7. /\ NothingTorn' = NothingTorn
      /\ RecordedVersion' = RecordedVersion
      /\ OnlyReportedFailures' = OnlyReportedFailures
  BY <1>2, SameFaults
<1>8. AgreedCurrentHasPayload'
  BY <1>2, <1>7 DEF IInv, AgreedCurrentHasPayload
<1>9. OnlyReportedFailures => rollbackLog'.readable /\ Chained'
  BY <1>2 DEF IInv, RecordsOK, Chained
<1>10. Unreferenced(p)' /\ FloorKept(p)' /\ Present(p)' /\ Newer(p)'
  BY <1>1, <1>2, <1>3, <1>5, <1>6, <1>7
     DEF CommandOK, Unreferenced, FloorKept, Present, Newer
<1>11. Accounted(p)'
  <2> SUFFICES ASSUME OnlyReportedFailures PROVE Accounted(p)'
    BY <1>7 DEF Accounted
  <2>1. /\ BelowFloor(job[p].floor) /\ job[p].from <= job[p].floor
        /\ job[p].floor \in Nat
    BY <1>1, <1>3, Naturals DEF CommandOK, Accounted
  <2>2. previous' <= job[p].floor
    BY <1>4, <2>1 DEF BelowFloor, Empty
  <2>3. LogEnd' = LogEnd /\ BelowFloor(job[p].floor)'
    BY <1>2, <1>5, <2>1, <2>2 DEF LogEnd, BelowFloor
  <2>4. pc[p] \in Before \cup Flipped
    BY <1>3
  <2> QED
    BY <1>1, <1>2, <1>3, <1>5, <1>6, <2>3, <2>4 DEF CommandOK, Accounted
<1>12. Undoable(p)'
  BY <1>4, <1>5, <1>6, <1>7, ReportedMeansWhole DEF Undoable
<1> QED
  BY <1>2, <1>6, <1>7, <1>8, <1>9, <1>10, <1>11, <1>12, OneIsAll DEF CommandOK

(* The flip: current.txt names a version that is there, and what it named  *)
(* before is the version p will record as replaced.                        *)
LEMMA WriteCurrentKeeps ==
    ASSUME OneCommand, IInv, NEW p \in Procs, WriteCurrent(p)
    PROVE  IInv'
<1>1. Typed /\ TypeOK /\ job[p] \in Job /\ CommandOK(p)
  BY DEF IInv, Typed, TypeOK
<1>2. /\ Typed' /\ pc[p] = "writeCurrent"
      /\ UNCHANGED <<machine, previous, payload, rollbackLog, stateFile>>
  BY <1>1, SwitchTyped DEF WriteCurrent
<1>3. /\ pc[p] \in Before /\ pc[p] \in Preparing \ {"readCurrent"}
      /\ pc[p] \in Aimed /\ NotYet(p) /\ pc[p] # "idle"
  BY <1>2 DEF Before, Preparing, Aimed, NotYet
<1>4. PICK ok \in BOOLEAN :
        /\ NothingTorn => current' = IF ok THEN job[p].to ELSE current
        /\ \/ ok /\ Goto(p, "loadLog") /\ UNCHANGED job
           \/ ~ ok /\ Finish(p, "switchFailed")
  <2>1. PICK w \in WriteResults("io") :
           /\ current' = Contents(w, current, job[p].to, Empty)
           /\ \/ w.ok /\ Goto(p, "loadLog") /\ UNCHANGED job
              \/ ~ w.ok /\ Finish(p, "switchFailed")
    BY DEF WriteCurrent
  <2>2. w.ok \in BOOLEAN /\ w.leaves \in {"old", "new", "torn"}
    BY WriteReports
  <2>3. NothingTorn => w.leaves = (IF w.ok THEN "new" ELSE "old")
    BY WriteReports
  <2>4. /\ w.leaves = "old" => current' = current
        /\ w.leaves = "new" => current' = job[p].to
    BY <2>1, <2>2, ContentsAre
  <2> QED
    BY <2>1, <2>2, <2>3, <2>4
<1>5. /\ job'[p].op = job[p].op /\ job'[p].from = job[p].from
      /\ job'[p].to = job[p].to /\ job'[p].cur = job[p].cur
      /\ job'[p].floor = job[p].floor
      /\ ok => pc'[p] = "loadLog"
      /\ ~ ok => pc'[p] = "save" /\ job'[p].result = "switchFailed"
  BY <1>1, <1>4, MarkerWritten DEF Steps
<1>6. /\ ~ Recorded(p)' /\ pc'[p] \notin Before /\ pc'[p] \notin Preparing
      /\ pc'[p] \in Flipped => ok
      /\ NotYet(p)' => ~ ok
      /\ pc'[p] \notin {"idle", "gcRemove", "writePrevious", "writeCurrent", "appendLog"}
  BY <1>5 DEF Recorded, NotYet, Collecting, Before, Staging, Preparing, Flipped, Done
<1>7. /\ NothingTorn' = NothingTorn
      /\ RecordedVersion' = RecordedVersion
      /\ OnlyReportedFailures' = OnlyReportedFailures
  BY <1>2, SameFaults
<1>8. NothingTorn => job[p].to \in payload /\ job[p].cur = stateFile.cur
  BY <1>1, <1>2, <1>3 DEF CommandOK, Present
<1>9. AgreedCurrentHasPayload'
  BY <1>2, <1>4, <1>7, <1>8 DEF IInv, AgreedCurrentHasPayload
<1>10. OnlyReportedFailures => rollbackLog'.readable /\ Chained'
  BY <1>2 DEF IInv, RecordsOK, Chained
<1>11. Unreferenced(p)' /\ FloorKept(p)' /\ Newer(p)'
  BY <1>1, <1>2, <1>3, <1>5, <1>6, <1>7
     DEF CommandOK, Unreferenced, FloorKept, Newer
<1>12. Present(p)'
  BY <1>2, <1>4, <1>5, <1>6, <1>7, <1>8 DEF Present
<1>13. Accounted(p)'
  <2> SUFFICES ASSUME OnlyReportedFailures PROVE Accounted(p)'
    BY <1>7 DEF Accounted
  <2>1. current' = IF ok THEN job[p].to ELSE current
    BY <1>4, ReportedMeansWhole
  <2>2. LogEnd' = LogEnd /\ (BelowFloor(job[p].floor) => BelowFloor(job[p].floor)')
    BY <1>2, <1>5 DEF LogEnd, BelowFloor
  <2>3. /\ BelowFloor(job[p].floor) /\ LogEnd = current /\ job[p].from = current
        /\ stateFile.cur = current /\ current <= job[p].floor
        /\ job[p].op = "apply" => job[p].floor <= job[p].to
        /\ job[p].op = "rollback" => job[p].to <= job[p].floor
    BY <1>1, <1>3 DEF CommandOK, Accounted
  <2> QED
    BY <1>2, <1>5, <1>6, <2>1, <2>2, <2>3 DEF Accounted
<1>14. Undoable(p)'
  <2> SUFFICES ASSUME OnlyReportedFailures, RecordedVersion,
                      job[p].op = "apply", job[p].from # Empty
               PROVE  Undoable(p)'
    BY <1>5, <1>7 DEF Undoable
  <2>1. previous = job[p].from /\ job[p].to # stateFile.cur
    BY <1>1, <1>2, <1>3 DEF CommandOK, Undoable, Newer
  <2>2. job[p].from = current /\ stateFile.cur = current
    BY <1>1, <1>3 DEF CommandOK, Accounted
  <2>3. current \in payload
    BY <2>2, ReportedMeansWhole DEF IInv, AgreedCurrentHasPayload
  <2>4. ok => current' = job[p].to
    BY <1>4, ReportedMeansWhole
  <2> QED
    BY <1>2, <1>5, <1>6, <2>1, <2>2, <2>3, <2>4 DEF Undoable
<1> QED
  BY <1>2, <1>6, <1>7, <1>9, <1>10, <1>11, <1>12, <1>13, <1>14, OneIsAll DEF CommandOK

(* The event appended to the log is its end. *)
LEMMA Appended ==
    ASSUME NEW events \in Seq(Event), NEW e \in Event
    PROVE  /\ Append(events, e) \in Seq(Event)
           /\ Append(events, e) # <<>>
           /\ Len(Append(events, e)) = Len(events) + 1
           /\ DOMAIN Append(events, e) = DOMAIN events \cup {Len(events) + 1}
           /\ Append(events, e)[Len(events) + 1] = e
           /\ \A i \in DOMAIN events : Append(events, e)[i] = events[i]
OBVIOUS

(* What p has in memory after the switch. *)
LEMMA SwitchedAre ==
    ASSUME NEW j \in Job, j.op \in Switching, j.op = "apply" => j.to \in Versions
    PROVE  /\ Switched(j).op = j.op /\ Switched(j).from = j.from
           /\ Switched(j).to = j.to /\ Switched(j).cur = j.to
           /\ Switched(j).result \in Done
           /\ Switched(j).floor \in Nat /\ j.floor <= Switched(j).floor
           /\ j.op = "apply" => j.to <= Switched(j).floor
<1> DEFINE floor == IF j.op = "apply" THEN BumpFloor(j.floor, j.to) ELSE j.floor
           result == IF j.op = "apply" THEN "applied" ELSE "rolledBack"
<1>1. /\ Switched(j).op = j.op /\ Switched(j).from = j.from
      /\ Switched(j).to = j.to /\ Switched(j).cur = j.to
      /\ Switched(j).floor = floor /\ Switched(j).result = result
  BY DEF Switched, Job
<1>2. j.floor \in MaybeVersion
  BY DEF Job
<1>3. /\ floor \in MaybeVersion /\ j.floor <= floor
      /\ j.op = "apply" => j.to <= floor
  <2>1. CASE j.op = "apply"
    BY <1>2, <2>1, BumpIsMax
  <2>2. CASE j.op # "apply"
    BY <1>2, <2>2, VersionsAreNat
  <2> QED
    BY <2>1, <2>2
<1>4. floor \in Nat
  BY <1>3, VersionsAreNat
<1>5. result \in Done
  BY DEF Done
<1> HIDE DEF floor, result
<1> QED
  BY <1>1, <1>3, <1>4, <1>5

(* The event of the switch is appended to the log that p read. *)
LEMMA AppendLogKeeps ==
    ASSUME OneCommand, IInv, NEW p \in Procs, AppendLog(p)
    PROVE  IInv'
<1>1. /\ Typed /\ TypeOK /\ job[p] \in Job /\ CommandOK(p)
      /\ rollbackLog.events \in Seq(Event)
  BY DEF IInv, Typed, TypeOK, Log
<1>2. /\ Typed' /\ pc[p] = "appendLog"
      /\ UNCHANGED <<machine, current, previous, payload, stateFile>>
  BY <1>1, LogTyped DEF AppendLog
<1>3. /\ pc[p] \in Flipped /\ pc[p] \in Aimed /\ pc[p] # "idle"
      /\ pc[p] \in Before \cup Flipped
      /\ job[p].op \in Switching /\ (job[p].op = "apply" => job[p].to \in Versions)
  BY <1>1, <1>2 DEF Flipped, Aimed, Typed, Labelled
<1>4. /\ pc'[p] = IF job[p].op = "apply" THEN "gc" ELSE "save"
      /\ job'[p] = Switched(job[p])
  BY <1>1 DEF AppendLog, TypeOK, Goto, Update
<1>5. /\ job'[p].op = job[p].op /\ job'[p].from = job[p].from
      /\ job'[p].to = job[p].to /\ job'[p].cur = job[p].to
      /\ job'[p].result \in Done
      /\ job'[p].floor \in Nat /\ job[p].floor <= job'[p].floor
      /\ job[p].op = "apply" => job[p].to <= job'[p].floor
  BY <1>1, <1>3, <1>4, SwitchedAre
<1>6. /\ ~ NotYet(p)' /\ Unreferenced(p)'
      /\ pc'[p] \notin Flipped \cup Before \cup Preparing \cup Aimed
      /\ pc'[p] \notin {"idle", "writePrevious", "writeCurrent", "appendLog"}
  BY <1>4, <1>5 DEF NotYet, Unreferenced, Flipped, Before, Staging, Preparing, Aimed
<1>7. /\ NothingTorn' = NothingTorn
      /\ RecordedVersion' = RecordedVersion
      /\ OnlyReportedFailures' = OnlyReportedFailures
  BY <1>2, SameFaults
<1>8. NothingTorn => current = job[p].to /\ current \in payload
  BY <1>1, <1>3 DEF CommandOK, Present
<1>9. AgreedCurrentHasPayload'
  BY <1>2, <1>7 DEF IInv, AgreedCurrentHasPayload
<1>10. FloorKept(p)'
  BY <1>1, <1>2, <1>3, <1>5, Naturals DEF CommandOK, FloorKept
<1>11. Present(p)' /\ Newer(p)' /\ Undoable(p)'
  BY <1>1, <1>2, <1>3, <1>5, <1>6, <1>7, <1>8
     DEF CommandOK, Present, Newer, Undoable
<1>12. ASSUME OnlyReportedFailures
       PROVE  rollbackLog'.readable /\ Chained' /\ Accounted(p)'
  <2> DEFINE events == rollbackLog.events
             e == [type |-> job[p].op, from |-> job[p].from, to |-> job[p].to]
             appended == [readable |-> TRUE, events |-> Append(events, e)]
             torn == [readable |-> FALSE, events |-> <<>>]
  <2>1. job[p].loaded = rollbackLog /\ rollbackLog.readable /\ Chained
    BY <1>1, <1>2, <1>12 DEF CommandOK, Accounted, IInv, RecordsOK
  <2>2. rollbackLog' = appended
    <3>1. PICK w \in WriteResults("log") :
             rollbackLog' = Contents(w, rollbackLog, appended, torn)
      BY <2>1 DEF AppendLog
    <3>2. NothingTorn /\ "log" \notin machine.faults
      BY <1>12, ReportedMeansWhole DEF OnlyReportedFailures
    <3>3. w.leaves = "new"
      BY <3>2, WriteReports
    <3> HIDE DEF appended, torn
    <3> QED
      BY <3>1, <3>3, ContentsAre
  <2>3. e \in Event /\ e.from = job[p].from /\ e.to = job[p].to
    BY <1>1, <1>3 DEF Event, Job, Switching
  <2> HIDE DEF e
  <2>4. rollbackLog'.readable /\ rollbackLog'.events = Append(events, e)
    BY <2>2
  <2>5. /\ Append(events, e) # <<>>
        /\ Len(Append(events, e)) = Len(events) + 1
        /\ DOMAIN Append(events, e) = DOMAIN events \cup {Len(events) + 1}
        /\ Append(events, e)[Len(events) + 1] = e
        /\ \A i \in DOMAIN events : Append(events, e)[i] = events[i]
    BY <1>1, <2>3, Appended
  <2>6. /\ LogEnd = job[p].from /\ job[p].from <= job[p].floor
        /\ BelowFloor(job[p].floor)
        /\ job[p].op = "rollback" => job[p].to <= job[p].floor
    BY <1>1, <1>3, <1>12 DEF CommandOK, Accounted
  <2>7. LogEnd' = job[p].to
    BY <2>3, <2>4, <2>5 DEF LogEnd
  <2>8. Chained'
    <3>1. \A i \in 2..Len(events) : events[i].from = events[i - 1].to
      BY <2>1 DEF Chained
    <3>2. events # <<>> => events[Len(events)].to = job[p].from
      BY <2>6 DEF LogEnd
    <3>3. Len(events) \in Nat /\ DOMAIN events = 1..Len(events)
      BY <1>1
    <3>4. ASSUME NEW i \in 2..Len(events)
          PROVE  Append(events, e)[i].from = Append(events, e)[i - 1].to
      BY <2>5, <3>1, <3>3, <3>4
    <3>5. ASSUME Len(events) + 1 >= 2
          PROVE  Append(events, e)[Len(events) + 1].from = Append(events, e)[Len(events)].to
      BY <1>1, <2>3, <2>5, <3>2, <3>3, <3>5
    <3>6. ASSUME NEW i \in 2..(Len(events) + 1)
          PROVE  Append(events, e)[i].from = Append(events, e)[i - 1].to
      <4>1. CASE i \in 2..Len(events)
        BY <3>4, <4>1
      <4>2. CASE i = Len(events) + 1
        <5>1. Len(events) + 1 >= 2 /\ i - 1 = Len(events)
          BY <3>3, <4>2
        <5> QED
          BY <3>5, <4>2, <5>1
      <4> QED
        BY <3>3, <4>1, <4>2
    <3> QED
      BY <2>4, <2>5, <3>6 DEF Chained
  <2>9. job[p].to <= job'[p].floor /\ job[p].from <= job'[p].floor
    BY <1>1, <1>3, <1>5, <2>6, Naturals DEF Switching
  <2>10. BelowFloor(job[p].floor)'
    <3>1. BelowFloor(job'[p].floor)
      BY <1>1, <1>5, <2>6, BelowFloorGrows, Naturals
    <3>2. \A i \in DOMAIN rollbackLog'.events :
             /\ rollbackLog'.events[i].from <= job'[p].floor
             /\ rollbackLog'.events[i].to <= job'[p].floor
      BY <2>3, <2>4, <2>5, <2>9, <3>1 DEF BelowFloor
    <3> QED
      BY <1>2, <3>1, <3>2 DEF BelowFloor
  <2>11. Accounted(p)'
    BY <1>2, <1>5, <1>6, <1>8, <1>12, <2>7, <2>9, <2>10, ReportedMeansWhole
       DEF Accounted
  <2> QED
    BY <2>4, <2>8, <2>11
<1>13. Accounted(p)'
  BY <1>7, <1>12 DEF Accounted
<1> QED
  BY <1>2, <1>6, <1>7, <1>9, <1>10, <1>11, <1>12, <1>13, OneIsAll DEF CommandOK

(* Done, the command saves the version in place and its floor. *)
LEMMA SaveKeeps ==
    ASSUME OneCommand, IInv, NEW p \in Procs, Save(p)
    PROVE  IInv'
<1>1. Typed /\ TypeOK /\ job[p] \in Job /\ CommandOK(p)
  BY DEF IInv, Typed, TypeOK
<1>2. /\ Typed' /\ pc[p] = "save" /\ pc[p] # "idle"
      /\ UNCHANGED <<machine, current, previous, payload, rollbackLog>>
  BY <1>1, EndTyped DEF Save
<1>3. pc'[p] = "idle" /\ job'[p] = NoJob
  BY <1>1 DEF Save, TypeOK, Goto, Update
<1>4. /\ ~ NotYet(p)' /\ ~ Recorded(p)'
      /\ pc'[p] \notin Flipped \cup Before \cup Preparing \cup Aimed
      /\ pc'[p] \notin {"gcRemove", "writePrevious", "writeCurrent", "appendLog"}
  BY <1>3 DEF NotYet, Recorded, Flipped, Before, Staging, Preparing, Collecting, Aimed
<1>5. /\ NothingTorn' = NothingTorn
      /\ RecordedVersion' = RecordedVersion
      /\ OnlyReportedFailures' = OnlyReportedFailures
  BY <1>2, SameFaults
<1>6. NotYet(p) \/ Recorded(p)
  BY <1>2 DEF NotYet, Recorded
<1>7. PICK w \in WriteResults("save") :
         stateFile' = Contents(w, stateFile,
                        [cur |-> job[p].cur, floor |-> job[p].floor], FreshState)
  BY DEF Save
<1>8. NothingTorn =>
        \/ UNCHANGED stateFile
        \/ stateFile'.cur = job[p].cur /\ stateFile'.floor = job[p].floor
  BY <1>7, WriteReports, ContentsAre
<1>9. OnlyReportedFailures =>
        stateFile'.cur = job[p].cur /\ stateFile'.floor = job[p].floor
  <2>1. OnlyReportedFailures => NothingTorn /\ "save" \notin machine.faults
    BY ReportedMeansWhole DEF OnlyReportedFailures
  <2> QED
    BY <1>7, <2>1, WriteReports, ContentsAre
<1>10. AgreedCurrentHasPayload'
  BY <1>1, <1>2, <1>5, <1>6, <1>8
     DEF IInv, AgreedCurrentHasPayload, CommandOK, Present
<1>11. ASSUME OnlyReportedFailures
       PROVE  rollbackLog'.readable /\ Chained' /\ AtRest'
  <2>1. rollbackLog.readable /\ Chained
    BY <1>11 DEF IInv, RecordsOK
  <2>2. /\ BelowFloor(job[p].floor) /\ LogEnd = current /\ current <= job[p].floor
        /\ job[p].cur = current
    BY <1>1, <1>2, <1>6, <1>11, ReportedMeansWhole DEF CommandOK, Accounted, Present
  <2>3. LogEnd' = LogEnd /\ Chained' = Chained
    BY <1>2 DEF LogEnd, Chained
  <2>4. BelowFloor(stateFile.floor)'
    BY <1>2, <1>9, <1>11, <2>2 DEF BelowFloor
  <2> QED
    BY <1>2, <1>9, <1>11, <2>1, <2>2, <2>3, <2>4 DEF AtRest
<1>12. CommandOK(p)'
  BY <1>3, <1>4 DEF CommandOK, Unreferenced, FloorKept, Present, Newer, Accounted,
       Undoable, NoJob
<1> QED
  BY <1>2, <1>3, <1>5, <1>10, <1>11, <1>12, OneIsAll

(* A crash leaves the files as they are. *)
LEMMA CrashKeeps ==
    ASSUME OneCommand, IInv, NEW p \in Procs, Crash(p)
    PROVE  IInv'
<1>1. Typed /\ TypeOK
  BY DEF IInv, Typed
<1>2. /\ Typed' /\ "crash" \in machine.faults
      /\ UNCHANGED <<machine, current, previous, payload, rollbackLog, stateFile>>
  BY <1>1, EndTyped DEF Crash
<1>3. pc'[p] = "idle" /\ job'[p] = NoJob
  BY <1>1 DEF Crash, TypeOK, Goto, Update
<1>4. /\ ~ NotYet(p)' /\ ~ Recorded(p)'
      /\ pc'[p] \notin Flipped \cup Before \cup Preparing \cup Aimed
      /\ pc'[p] \notin {"gcRemove", "writePrevious", "writeCurrent", "appendLog"}
  BY <1>3 DEF NotYet, Recorded, Flipped, Before, Staging, Preparing, Collecting, Aimed
<1>5. ~ OnlyReportedFailures'
  BY <1>2 DEF OnlyReportedFailures
<1>6. AgreedCurrentHasPayload'
  BY <1>2, SameFaults DEF IInv, AgreedCurrentHasPayload
<1>7. CommandOK(p)'
  BY <1>3, <1>4 DEF CommandOK, Unreferenced, FloorKept, Present, Newer, Accounted,
       Undoable, NoJob
<1> QED
  BY <1>2, <1>5, <1>6, <1>7, OneIsAll

(* A step that changes nothing keeps the invariant. *)
LEMMA StutterKeeps ==
    ASSUME IInv, UNCHANGED vars
    PROVE  IInv'
BY SameFaults
   DEF vars, disk, IInv, Typed, TypeOK, Labelled, AgreedCurrentHasPayload, RecordsOK,
       CommandOK, Unreferenced, Referenced, FloorKept, Present, Newer, Accounted, Undoable,
       NotYet, Recorded, LogEnd, Chained, BelowFloor, AtRest

(* The inductive invariant, when commands follow one another. *)
THEOREM Invariance ==
    ASSUME OneCommand
    PROVE  Spec => []IInv
<1>1. Init => IInv
  <2> SUFFICES ASSUME Init PROVE IInv
    OBVIOUS
  <2>1. Typed
    BY InitTyped
  <2>2. /\ current = Empty /\ previous = Empty /\ stateFile.cur = Empty
        /\ stateFile.floor = Empty /\ rollbackLog.readable
        /\ rollbackLog.events = <<>>
        /\ \A p \in Procs : pc[p] = "idle" /\ job[p].op = "none"
    BY DEF Init, FreshState, NoLog, NoJob
  <2>3. RecordsOK /\ AgreedCurrentHasPayload
    BY <2>2 DEF RecordsOK, AgreedCurrentHasPayload, Chained, AtRest, LogEnd, BelowFloor, Empty
  <2>4. ASSUME NEW p \in Procs PROVE CommandOK(p)
    BY <2>2 DEF CommandOK, Unreferenced, FloorKept, Present, Newer, Accounted, Undoable,
         NotYet, Recorded, Flipped, Before, Staging, Preparing, Collecting, Aimed
  <2> QED
    BY <2>1, <2>3, <2>4 DEF IInv
<1>2. IInv /\ [Next]_vars => IInv'
  <2> SUFFICES ASSUME IInv, [Next]_vars PROVE IInv'
    OBVIOUS
  <2>1. ASSUME NEW p \in Procs, Start(p) PROVE IInv'
    BY <2>1, StartKeeps
  <2>2. ASSUME NEW p \in Procs, Continue(p) PROVE IInv'
    <3>1. CASE StageClear(p) \/ StagePlace(p)
      BY <3>1, StageKeeps
    <3>2. CASE ReadCurrent(p)
      BY <3>2, ReadCurrentKeeps
    <3>3. CASE ReadTarget(p)
      BY <3>3, ReadTargetKeeps
    <3>4. CASE CheckPayload(p)
      BY <3>4, CheckPayloadKeeps
    <3>5. CASE WritePrevious(p)
      BY <3>5, WritePreviousKeeps
    <3>6. CASE WriteCurrent(p)
      BY <3>6, WriteCurrentKeeps
    <3>7. CASE LoadLog(p)
      BY <3>7, LoadLogKeeps
    <3>8. CASE AppendLog(p)
      BY <3>8, AppendLogKeeps
    <3>9. CASE Gc(p) \/ GcCheck(p)
      BY <3>9, GcListKeeps
    <3>10. CASE GcRemove(p)
      BY <3>10, GcRemoveKeeps
    <3>11. CASE Save(p)
      BY <3>11, SaveKeeps
    <3>12. CASE Crash(p)
      BY <3>12, CrashKeeps
    <3> QED
      BY <2>2, <3>1, <3>2, <3>3, <3>4, <3>5, <3>6, <3>7, <3>8, <3>9, <3>10, <3>11,
         <3>12 DEF Continue
  <2>3. CASE UNCHANGED vars
    BY <2>3, StutterKeeps
  <2> QED
    BY <2>1, <2>2, <2>3 DEF Next
<1> QED
  BY <1>1, <1>2, PTL DEF Spec

(* Which steps write the state file. *)
LEMMA OnlySaveWritesState ==
    ASSUME NEW p \in Procs, Start(p) \/ Continue(p), stateFile' # stateFile
    PROVE  Save(p)
<1>1. ~ Start(p)
  BY DEF Start, Check, ApplyAccept, ApplyRefuse, Rollback, disk
<1>2. ~ (StageClear(p) \/ StagePlace(p) \/ WritePrevious(p) \/ WriteCurrent(p)
           \/ AppendLog(p) \/ GcRemove(p) \/ Crash(p))
  BY DEF StageClear, StagePlace, WritePrevious, WriteCurrent, AppendLog, GcRemove, Crash
<1>3. ~ (ReadCurrent(p) \/ ReadTarget(p) \/ CheckPayload(p) \/ LoadLog(p)
           \/ Gc(p) \/ GcCheck(p))
  BY DEF ReadCurrent, ReadTarget, CheckPayload, LoadLog, Gc, GcCheck, disk
<1> QED
  BY <1>1, <1>2, <1>3 DEF Continue

(***************************************************************************)
(* AgreedCurrentHasPayload, a part of the invariant.                       *)
(***************************************************************************)
THEOREM InstalledIsThere ==
    ASSUME OneCommand
    PROVE  Spec => []AgreedCurrentHasPayload
<1>1. IInv => AgreedCurrentHasPayload
  BY DEF IInv
<1> QED
  BY <1>1, Invariance, PTL

(***************************************************************************)
(* ReplayDefence: the gate admits nothing below the floor an apply loads,  *)
(* and no event of the log is above it.                                    *)
(***************************************************************************)
THEOREM NoReplay ==
    ASSUME OneCommand
    PROVE  Spec => []ReplayDefence
<1>1. IInv => ReplayDefence
  <2> SUFFICES ASSUME IInv, OnlyReportedFailures, NEW p \in Procs,
                      pc[p] = "writeCurrent", job[p].op = "apply",
                      NEW i \in DOMAIN rollbackLog.events
               PROVE  rollbackLog.events[i].to <= job[p].to
    BY DEF ReplayDefence
  <2>1. Accounted(p) /\ Typed
    BY DEF IInv, CommandOK
  <2>2. rollbackLog.events[i].to <= job[p].floor /\ job[p].floor <= job[p].to
    BY <2>1 DEF Accounted, BelowFloor, Before, Preparing
  <2> QED
    BY <2>1, <2>2, Naturals
<1> QED
  BY <1>1, Invariance, PTL

(***************************************************************************)
(* AppliedIsReversible: what an apply replaced was current and on disk     *)
(* before, is another version, and gc spares what previous.txt names.      *)
(***************************************************************************)
THEOREM ApplyCanBeUndone ==
    ASSUME OneCommand
    PROVE  Spec => []AppliedIsReversible
<1>1. IInv => AppliedIsReversible
  <2> SUFFICES ASSUME IInv, OnlyReportedFailures, RecordedVersion, NEW p \in Procs,
                      pc[p] = "save", job[p].result = "applied", job[p].from # Empty
               PROVE  /\ current = job[p].to
                      /\ previous = job[p].from
                      /\ previous # current
                      /\ {current, previous} \subseteq payload
    BY DEF AppliedIsReversible
  <2>1. CommandOK(p) /\ job[p].op = "apply" /\ Recorded(p)
    BY DEF IInv, Typed, Labelled, Recorded, Done
  <2>2. current = job[p].to /\ current \in payload
    BY <2>1, ReportedMeansWhole DEF CommandOK, Present
  <2>3. previous = job[p].from /\ previous # current /\ previous \in payload
    BY <2>1 DEF CommandOK, Undoable
  <2> QED
    BY <2>2, <2>3
<1> QED
  BY <1>1, Invariance, PTL

(***************************************************************************)
(* RecordsAgree: every way a command ends leaves the state file,           *)
(* current.txt and the log telling the same story.                         *)
(***************************************************************************)
THEOREM RecordsTellTheSame ==
    ASSUME OneCommand
    PROVE  Spec => []RecordsAgree
<1>1. IInv => RecordsAgree
  BY DEF IInv, RecordsOK, RecordsAgree, AtRest, Chained, LogEnd
<1> QED
  BY <1>1, Invariance, PTL

(***************************************************************************)
(* FloorNeverRegresses: only a save writes the state file, and what it     *)
(* saves was loaded by the same command and only raised since.             *)
(***************************************************************************)
THEOREM FloorIsMonotone ==
    ASSUME OneCommand
    PROVE  Spec => FloorNeverRegresses
<1>1. IInv /\ [Next]_vars =>
        [NothingTorn => stateFile.floor <= stateFile'.floor]_stateFile
  <2> SUFFICES ASSUME IInv, Next, NothingTorn, stateFile' # stateFile
               PROVE  stateFile.floor <= stateFile'.floor
    BY DEF vars, disk
  <2>1. PICK p \in Procs : Save(p)
    BY OnlySaveWritesState DEF Next
  <2>2. PICK w \in WriteResults("save") :
           stateFile' = Contents(w, stateFile,
                          [cur |-> job[p].cur, floor |-> job[p].floor], FreshState)
    BY <2>1 DEF Save
  <2>3. stateFile'.floor = job[p].floor
    BY <2>2, WriteReports, ContentsAre
  <2> QED
    BY <2>1, <2>3 DEF Save, IInv, CommandOK, FloorKept
<1> QED
  BY <1>1, Invariance, PTL DEF Spec, FloorNeverRegresses

-----------------------------------------------------------------------------
(* LeftoversAreReaped. *)

(* What is on disk and not referenced is still to be removed by p, until p *)
(* has been through its list.                                              *)
Reaping(p) ==
    /\ job[p].result = "applied" => pc[p] \in Collecting \cup {"save"}
    /\ "io" \notin machine.faults =>
         /\ pc[p] = "gcCheck" => payload \subseteq Referenced \cup job[p].doomed
         /\ pc[p] = "gcRemove" =>
              payload \subseteq Referenced \cup job[p].doomed \cup {job[p].victim}
         /\ pc[p] = "save" /\ job[p].result = "applied" => payload \subseteq Referenced

(* A command that has not applied anything has nothing to collect. *)
LEMMA NothingToReap ==
    ASSUME NEW p \in Procs, job'[p].result # "applied",
           pc'[p] \notin {"gcCheck", "gcRemove"}
    PROVE  Reaping(p)'
BY DEF Reaping

(* The steps up to the switch, and those that end a command. *)
LEMMA ReapingBegins ==
    ASSUME Typed, NEW p \in Procs, Reaping(p),
           \/ Start(p) \/ StageClear(p) \/ StagePlace(p) \/ ReadCurrent(p)
           \/ ReadTarget(p) \/ CheckPayload(p) \/ WritePrevious(p)
           \/ WriteCurrent(p) \/ LoadLog(p) \/ Save(p) \/ Crash(p)
    PROVE  Reaping(p)'
<1>1. TypeOK /\ job[p] \in Job
  BY DEF Typed, TypeOK
<1>2. ASSUME NEW step \in {"save", "stage", "readCurrent"}, Goto(p, step),
             NEW j, Update(p, j), j.result # "applied"
      PROVE  Reaping(p)'
  <2>1. pc'[p] = step /\ job'[p] = j
    BY <1>1, <1>2 DEF TypeOK, Goto, Update
  <2> QED
    BY <1>2, <2>1, NothingToReap
<1>3. ASSUME NEW r \in Results, r # "applied", Finish(p, r)
      PROVE  Reaping(p)'
  <2>1. pc'[p] = "save" /\ job'[p] = [job[p] EXCEPT !.result = r]
    BY <1>1, <1>3, Finished
  <2>2. job'[p].result = r
    BY <1>1, <2>1 DEF Job
  <2> QED
    BY <1>3, <2>1, <2>2, NothingToReap
<1>4. ASSUME pc[p] \notin Collecting \cup {"save"},
             NEW step \in Before \cup Flipped, Goto(p, step),
             job'[p].result = job[p].result
      PROVE  Reaping(p)'
  <2>1. job[p].result # "applied" /\ pc'[p] = step
    BY <1>1, <1>4 DEF Reaping, TypeOK, Goto
  <2> QED
    BY <1>4, <2>1, NothingToReap DEF Before, Flipped, Staging, Preparing
<1>5. CASE Start(p)
  <2>1. /\ Loaded("check").result = "none" /\ Loaded("apply").result = "none"
        /\ Loaded("rollback").result = "none"
    BY DEF Loaded, NoJob
  <2>2. ASSUME NEW m, NEW o, NEW now, Check(p, m, o, now) PROVE Reaping(p)'
    <3>1. PICK f : Update(p, [Loaded("check") EXCEPT !.floor = f])
      BY <2>2 DEF Check
    <3>2. [Loaded("check") EXCEPT !.floor = f].result = "none"
      BY DEF Loaded, NoJob
    <3> QED
      BY <1>2, <2>2, <3>1, <3>2 DEF Check
  <2>3. ASSUME NEW m, NEW o, NEW now, ApplyAccept(p, m, o, now) PROVE Reaping(p)'
    <3>1. [Loaded("apply") EXCEPT !.to = m.version].result = "none"
      BY DEF Loaded, NoJob
    <3> QED
      BY <1>2, <2>3, <3>1 DEF ApplyAccept
  <2>4. ASSUME NEW m, NEW o, NEW now, ApplyRefuse(p, m, o, now) PROVE Reaping(p)'
    <3>1. PICK r \in {"refused", "artifactMismatch"} :
             Update(p, [Loaded("apply") EXCEPT !.result = r])
      BY <2>4 DEF ApplyRefuse
    <3>2. [Loaded("apply") EXCEPT !.result = r].result = r
      BY DEF Loaded, NoJob
    <3> QED
      BY <1>2, <2>4, <3>1, <3>2 DEF ApplyRefuse
  <2>5. CASE Rollback(p)
    BY <1>2, <2>1, <2>5 DEF Rollback
  <2> QED
    BY <1>5, <2>2, <2>3, <2>4, <2>5 DEF Start
<1>6. CASE StageClear(p) \/ StagePlace(p)
  <2>1. pc[p] \notin Collecting \cup {"save"}
    BY <1>6 DEF StageClear, StagePlace, Collecting
  <2>2. \/ Finish(p, "stageFailed")
        \/ \E step \in {"place", "readCurrent"} : Goto(p, step) /\ UNCHANGED job
    BY <1>6 DEF StageClear, StagePlace
  <2> QED
    BY <1>3, <1>4, <2>1, <2>2 DEF Results, Before, Staging, Preparing
<1>7. CASE ReadCurrent(p)
  <2>1. pc[p] \notin Collecting \cup {"save"}
    BY <1>7 DEF ReadCurrent, Collecting
  <2>2. [job[p] EXCEPT !.from = current].result = job[p].result
    BY <1>1 DEF Job
  <2>3. Update(p, [job[p] EXCEPT !.from = current]) => job'[p].result = job[p].result
    BY <1>1, <2>2 DEF TypeOK, Update
  <2> QED
    BY <1>3, <1>4, <1>7, <2>1, <2>3 DEF ReadCurrent, Results, Before, Preparing
<1>8. CASE ReadTarget(p)
  <2>1. pc[p] \notin Collecting \cup {"save"}
    BY <1>8 DEF ReadTarget, Collecting
  <2>2. PICK target : \/ Update(p, [job[p] EXCEPT !.to = target]) /\ Goto(p, "checkPayload")
                      \/ Finish(p, "refused")
    BY <1>8 DEF ReadTarget
  <2>3. [job[p] EXCEPT !.to = target].result = job[p].result
    BY <1>1 DEF Job
  <2>4. Update(p, [job[p] EXCEPT !.to = target]) => job'[p].result = job[p].result
    BY <1>1, <2>3 DEF TypeOK, Update
  <2> QED
    BY <1>3, <1>4, <2>1, <2>2, <2>4 DEF Results, Before, Preparing
<1>9. CASE CheckPayload(p)
  <2>1. pc[p] \notin Collecting \cup {"save"}
    BY <1>9 DEF CheckPayload, Collecting
  <2> QED
    BY <1>3, <1>4, <1>9, <2>1 DEF CheckPayload, Results, Before, Preparing
<1>10. CASE WritePrevious(p) \/ WriteCurrent(p)
  <2>1. pc[p] \notin Collecting \cup {"save"}
    BY <1>10 DEF WritePrevious, WriteCurrent, Collecting
  <2>2. \/ Finish(p, "switchFailed")
        \/ \E step \in {"writeCurrent", "loadLog"} : Goto(p, step) /\ UNCHANGED job
    BY <1>10 DEF WritePrevious, WriteCurrent
  <2> QED
    BY <1>3, <1>4, <2>1, <2>2 DEF Results, Before, Preparing, Flipped
<1>11. CASE LoadLog(p)
  <2>1. pc[p] \notin Collecting \cup {"save"}
    BY <1>11 DEF LoadLog, Collecting
  <2>2. [job[p] EXCEPT !.loaded = rollbackLog].result = job[p].result
    BY <1>1 DEF Job
  <2>3. job'[p].result = job[p].result
    BY <1>1, <1>11, <2>2 DEF LoadLog, TypeOK, Update
  <2> QED
    BY <1>4, <1>11, <2>1, <2>3 DEF LoadLog, Flipped
<1>12. CASE Save(p) \/ Crash(p)
  <2>1. pc'[p] = "idle" /\ job'[p] = NoJob
    BY <1>1, <1>12 DEF Save, Crash, TypeOK, Goto, Update
  <2> QED
    BY <2>1, NothingToReap DEF NoJob
<1> QED
  BY <1>5, <1>6, <1>7, <1>8, <1>9, <1>10, <1>11, <1>12

(* The log entry, and gc itself. *)
LEMMA ReapingGoesOn ==
    ASSUME Typed, NEW p \in Procs, Reaping(p),
           AppendLog(p) \/ Gc(p) \/ GcCheck(p) \/ GcRemove(p)
    PROVE  Reaping(p)'
<1>1. TypeOK /\ Labelled /\ job[p] \in Job
  BY DEF Typed, TypeOK
<1>2. CASE AppendLog(p)
  <2>1. job'[p] = Switched(job[p])
    BY <1>1, <1>2 DEF AppendLog, TypeOK, Update
  <2>2. pc'[p] = IF job[p].op = "apply" THEN "gc" ELSE "save"
    BY <1>1, <1>2 DEF AppendLog, TypeOK, Goto
  <2>3. job'[p].result = IF job[p].op = "apply" THEN "applied" ELSE "rolledBack"
    BY <1>1, <2>1 DEF Switched, Job
  <2> QED
    BY <2>2, <2>3 DEF Reaping, Collecting
<1>3. CASE Gc(p)
  <2>1. job'[p] = [job[p] EXCEPT !.doomed = payload \ Referenced] /\ pc'[p] = "gcCheck"
    BY <1>1, <1>3 DEF Gc, TypeOK, Goto, Update
  <2>2. job'[p].doomed = payload \ Referenced
    BY <1>1, <2>1 DEF Job
  <2>3. payload' = payload /\ Referenced' = Referenced
    BY <1>3 DEF Gc, disk, Referenced
  <2> QED
    BY <2>1, <2>2, <2>3 DEF Reaping, Collecting
<1>4. CASE GcCheck(p)
  <2>1. /\ payload' = payload /\ Referenced' = Referenced /\ machine' = machine
        /\ pc[p] = "gcCheck" /\ job[p].result = "applied"
    BY <1>1, <1>4 DEF GcCheck, disk, Referenced, Labelled, Collecting
  <2>2. CASE job[p].doomed = {} /\ Goto(p, "save") /\ UNCHANGED job
    <3>1. pc'[p] = "save"
      BY <1>1, <2>2 DEF TypeOK, Goto
    <3> QED
      BY <2>1, <2>2, <3>1 DEF Reaping
  <2>3. ASSUME NEW v \in job[p].doomed,
               \/ /\ v \in Referenced
                  /\ Update(p, [job[p] EXCEPT !.doomed = @ \ {v}])
                  /\ UNCHANGED pc
               \/ /\ v \notin Referenced
                  /\ Update(p, [[job[p] EXCEPT !.doomed = @ \ {v}] EXCEPT !.victim = v])
                  /\ Goto(p, "gcRemove")
        PROVE  Reaping(p)'
    <3> DEFINE rest == [job[p] EXCEPT !.doomed = @ \ {v}]
    <3>1. rest \in Job /\ rest.doomed = job[p].doomed \ {v} /\ rest.result = "applied"
      BY <1>1, <2>1 DEF Job
    <3> HIDE DEF rest
    <3>2. CASE v \in Referenced /\ Update(p, rest) /\ UNCHANGED pc
      <4>1. job'[p] = rest /\ pc'[p] = "gcCheck"
        BY <1>1, <2>1, <3>2 DEF TypeOK, Update
      <4> QED
        BY <2>1, <3>1, <3>2, <4>1 DEF Reaping, Collecting
    <3>3. CASE Update(p, [rest EXCEPT !.victim = v]) /\ Goto(p, "gcRemove")
      <4>1. job'[p] = [rest EXCEPT !.victim = v] /\ pc'[p] = "gcRemove"
        BY <1>1, <3>3 DEF TypeOK, Update, Goto
      <4>2. job'[p].victim = v /\ job'[p].doomed = job[p].doomed \ {v}
        BY <3>1, <4>1 DEF Job
      <4> QED
        BY <2>1, <4>1, <4>2 DEF Reaping, Collecting
    <3> QED
      BY <2>3, <3>2, <3>3 DEF rest
  <2> QED
    BY <1>4, <2>2, <2>3 DEF GcCheck
<1>5. CASE GcRemove(p)
  <2>1. /\ job'[p] = [job[p] EXCEPT !.victim = Empty] /\ pc'[p] = "gcCheck"
        /\ pc[p] = "gcRemove" /\ Referenced' = Referenced /\ machine' = machine
    BY <1>1, <1>5 DEF GcRemove, TypeOK, Goto, Update, Referenced
  <2>2. job'[p].doomed = job[p].doomed
    BY <1>1, <2>1 DEF Job
  <2>3. "io" \notin machine.faults => payload' = payload \ {job[p].victim}
    BY <1>5 DEF GcRemove
  <2> QED
    BY <2>1, <2>2, <2>3 DEF Reaping, Collecting
<1> QED
  BY <1>2, <1>3, <1>4, <1>5

(***************************************************************************)
(* LeftoversAreReaped: gc lists all that the markers do not name, whatever *)
(* earlier commands left there, and strikes off only what it removes or    *)
(* finds named.                                                            *)
(***************************************************************************)
THEOREM LeftoversGo ==
    ASSUME OneCommand
    PROVE  Spec => []LeftoversAreReaped
<1> DEFINE R == \A p \in Procs : Reaping(p)
<1>1. Init => R
  BY DEF Init, Reaping, NoJob
<1>2. R /\ Typed /\ [Next]_vars => R'
  <2> SUFFICES ASSUME R, Typed, [Next]_vars PROVE R'
    OBVIOUS
  <2>1. CASE UNCHANGED vars
    BY <2>1 DEF vars, disk, Reaping, Referenced
  <2>2. ASSUME NEW p \in Procs, Start(p) \/ Continue(p) PROVE R'
    <3>1. Reaping(p)'
      BY <2>2, ReapingBegins, ReapingGoesOn DEF Continue
    <3> QED
      BY <3>1 DEF OneCommand
  <2> QED
    BY <2>1, <2>2 DEF Next
<1>3. R => LeftoversAreReaped
  BY DEF Reaping, LeftoversAreReaped, Referenced
<1> QED
  BY <1>1, <1>2, <1>3, TypeInvariance, PTL DEF Spec

=============================================================================
