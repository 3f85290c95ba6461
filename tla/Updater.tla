------------------------------- MODULE Updater -------------------------------
(***************************************************************************)
(* `souxmar update check | apply | rollback`: the orchestration of         *)
(* src/updater/apply.cpp over the install root (install_layout.cpp), the   *)
(* rollback log (rollback_log.cpp) and the per-user state file             *)
(* (update_state.cpp), driven by the commands of src/cli/main.cpp.         *)
(*                                                                         *)
(* Every file operation that another process, a crash or an I/O error can  *)
(* separate from the next one is a step of its own.  Nothing locks the     *)
(* install root, so any number of commands (Procs) may run at once.        *)
(***************************************************************************)
EXTENDS Integers, Sequences, UpdateGate

CONSTANTS
    Procs,       \* command invocations that may run at the same time
    Versions,    \* ranks of the released versions
    Instants,    \* values the wall clock (or --as-of) may show
    CliVersion,  \* souxmar::version_string() of the running binary
    Machines     \* the machines the commands may run on, see Machine

(***************************************************************************)
(* "crash": the process dies between two file operations.                  *)
(* "io":    an operation under the install root fails and says so.         *)
(* "log", "save": the same for the rollback log and for the state file.    *)
(* "full":  the disk is full when a buffered file is closed: the writers   *)
(*          test the stream before its destructor flushes it.              *)
(* "rename": renaming over an existing file fails (on Windows, because the *)
(*          target is open), and the copy_file fallback runs instead.      *)
(***************************************************************************)
FaultKinds == {"crash", "io", "log", "save", "full", "rename"}

(***************************************************************************)
(* What surrounds the commands: the faults that may happen, the signed     *)
(* manifests and --current-version values a command may be given, and the  *)
(* bound max_log: no new apply or rollback once the log is that long.      *)
(***************************************************************************)
Machine ==
    [faults : SUBSET FaultKinds,
     manifests : SUBSET Manifest(Versions, Instants \cup {Empty, Malformed}),
     overrides : SUBSET (Versions \cup {Malformed}),
     max_log : Nat]

ASSUME UpdaterAssumption ==
    /\ Versions \subseteq Nat \ {Empty}
    /\ Instants \subseteq Nat \ {Empty}
    /\ CliVersion \in Versions \cup {Empty, Malformed}
    /\ Machines \subseteq Machine

VARIABLES
    machine,     \* the machine of this behaviour; it never changes
    current,     \* the version current.txt names, or Empty
    previous,    \* the version previous.txt names, or Empty
    payload,     \* the versions v with a non-empty versions/<v>/payload
    orphans,     \* does staging/ hold a scratch directory nobody owns?
    rollbackLog, \* rollback.log: does it parse, and the events in it
    stateFile,   \* update-state.toml; unreadable loads as a fresh one
    pc,          \* where each command is
    job          \* what each command has in memory

disk == <<machine, current, previous, payload, orphans, rollbackLog, stateFile>>
vars == <<disk, pc, job>>

MaybeVersion == Versions \cup {Empty}
FreshState == [cur |-> Empty, floor |-> Empty]
Event == [type : {"apply", "rollback"}, from : MaybeVersion, to : MaybeVersion]
Log == [readable : BOOLEAN, events : Seq(Event)]
NoLog == [readable |-> TRUE, events |-> <<>>]

Steps == {"idle", "stage", "place", "readCurrent", "readTarget",
          "checkPayload", "writePrevious", "writeCurrent", "loadLog",
          "appendLog", "gc", "gcCheck", "gcRemove", "save"}
Results == {"none", "refused", "artifactMismatch", "stageFailed",
            "switchFailed", "applied", "rolledBack"}
Job == [op : {"none", "check", "apply", "rollback"}, from : MaybeVersion,
        to : MaybeVersion, cur : MaybeVersion, floor : MaybeVersion,
        loaded : Log, doomed : SUBSET Versions, victim : MaybeVersion,
        result : Results]
NoJob == [op |-> "none", from |-> Empty, to |-> Empty, cur |-> Empty,
          floor |-> Empty, loaded |-> NoLog, doomed |-> {}, victim |-> Empty,
          result |-> "none"]

(* Every variable holds a value of its kind. *)
TypeOK ==
    /\ machine \in Machines
    /\ current \in MaybeVersion
    /\ previous \in MaybeVersion
    /\ payload \subseteq Versions
    /\ orphans \in BOOLEAN
    /\ rollbackLog \in Log
    /\ stateFile \in [cur : MaybeVersion, floor : MaybeVersion]
    /\ pc \in [Procs -> Steps]
    /\ job \in [Procs -> Job]

Init ==
    /\ machine \in Machines
    /\ current = Empty
    /\ previous = Empty
    /\ payload = {}
    /\ orphans = FALSE
    /\ rollbackLog = NoLog
    /\ stateFile = FreshState
    /\ pc = [p \in Procs |-> "idle"]
    /\ job = [p \in Procs |-> NoJob]

-----------------------------------------------------------------------------
(* Writing a small file: temp file, rename, and copy_file when the rename  *)
(* fails.                                                                  *)

(***************************************************************************)
(* What write_marker_atomic, append_rollback_event and save_update_state   *)
(* may return (ok) and leave in the file (leaves).  After a failed rename  *)
(* the copy may do its work, none of it or half of it, and the error code  *)
(* returned is that of the fs::remove of the temp file that follows.       *)
(***************************************************************************)
WriteResults(fault) ==
    {[ok |-> TRUE, leaves |-> "new"]}
    \cup (IF fault \in machine.faults THEN {[ok |-> FALSE, leaves |-> "old"]} ELSE {})
    \cup (IF "full" \in machine.faults THEN {[ok |-> TRUE, leaves |-> "torn"]} ELSE {})
    \cup (IF "rename" \in machine.faults
          THEN [ok : BOOLEAN, leaves : {"old", "new", "torn"}] ELSE {})

Contents(w, old, new, torn) ==
    CASE w.leaves = "old" -> old
      [] w.leaves = "new" -> new
      [] w.leaves = "torn" -> torn

-----------------------------------------------------------------------------
(* The commands' starts.                                                   *)

Goto(p, step) == pc' = [pc EXCEPT ![p] = step]
Update(p, j) == job' = [job EXCEPT ![p] = j]
Finish(p, result) ==
    /\ Goto(p, "save")
    /\ Update(p, [job[p] EXCEPT !.result = result])

(* update_preflight: --current-version, else the state file, else the CLI. *)
CurrentVersion(override) ==
    IF override # Empty THEN override
    ELSE IF stateFile.cur # Empty THEN stateFile.cur
    ELSE CliVersion

Accepts(m, override, now) ==
    apply_gate(m, CurrentVersion(override), stateFile.floor, now)

Loaded(op) == [NoJob EXCEPT !.op = op, !.cur = stateFile.cur,
                            !.floor = stateFile.floor]

(* cmd_update_check, up to the saving of the state file. *)
Check(p, m, override, now) ==
    /\ pc[p] = "idle"
    /\ LET accepted == Accepts(m, override, now)
       IN Update(p, [Loaded("check") EXCEPT
               !.floor = IF accepted THEN BumpFloor(@, m.version) ELSE @])
    /\ Goto(p, "save")
    /\ UNCHANGED disk

(* cmd_update_apply: the gate, then size and sha256 of the artifact bytes. *)
ApplyAccept(p, m, override, now) ==
    /\ pc[p] = "idle"
    /\ Len(rollbackLog.events) < machine.max_log
    /\ Accepts(m, override, now)
    /\ Update(p, [Loaded("apply") EXCEPT !.to = m.version])
    /\ Goto(p, "stage")
    /\ UNCHANGED disk

ApplyRefuse(p, m, override, now) ==
    /\ pc[p] = "idle"
    /\ \/ /\ ~ Accepts(m, override, now)
          /\ Update(p, [Loaded("apply") EXCEPT !.result = "refused"])
       \/ /\ Accepts(m, override, now)
          /\ Update(p, [Loaded("apply") EXCEPT !.result = "artifactMismatch"])
    /\ Goto(p, "save")
    /\ UNCHANGED disk

(* cmd_update_rollback loads the state file. *)
Rollback(p) ==
    /\ pc[p] = "idle"
    /\ Len(rollbackLog.events) < machine.max_log
    /\ Update(p, Loaded("rollback"))
    /\ Goto(p, "readCurrent")
    /\ UNCHANGED disk

-----------------------------------------------------------------------------
(* stage_version.                                                          *)

(* The scratch payload is written and a leftover versions/<to> removed.    *)
StageClear(p) ==
    /\ pc[p] = "stage"
    /\ \/ /\ payload' = payload \ {job[p].to}
          /\ Goto(p, "place")
          /\ UNCHANGED <<orphans, job>>
       \/ /\ "io" \in machine.faults
          /\ payload' \in {payload, payload \ {job[p].to}}
          /\ orphans' \in {orphans, TRUE}
          /\ Finish(p, "stageFailed")
    /\ UNCHANGED <<machine, current, previous, rollbackLog, stateFile>>

(* The scratch directory is renamed to versions/<to>, which fails when     *)
(* another command has put a directory there in the meantime.  On a full   *)
(* disk the payload in it may be empty.                                    *)
StagePlace(p) ==
    /\ pc[p] = "place"
    /\ \/ /\ job[p].to \notin payload
          /\ \/ payload' = payload \cup {job[p].to}
             \/ "full" \in machine.faults /\ UNCHANGED payload
          /\ Goto(p, "readCurrent")
          /\ UNCHANGED <<orphans, job>>
       \/ /\ "io" \in machine.faults \/ job[p].to \in payload
          /\ orphans' \in {orphans, TRUE}
          /\ UNCHANGED payload
          /\ Finish(p, "stageFailed")
    /\ UNCHANGED <<machine, current, previous, rollbackLog, stateFile>>

-----------------------------------------------------------------------------
(* Both commands read current.txt; a rollback also looks for its target.   *)

ReadCurrent(p) ==
    /\ pc[p] = "readCurrent"
    /\ \/ /\ job[p].op = "apply"
          /\ Update(p, [job[p] EXCEPT !.from = current])
          /\ Goto(p, "checkPayload")
       \/ /\ job[p].op = "rollback" /\ current # Empty
          /\ Update(p, [job[p] EXCEPT !.from = current])
          /\ Goto(p, "readTarget")
       \/ /\ job[p].op = "rollback" /\ current = Empty
          /\ Finish(p, "refused")
    /\ UNCHANGED disk

(* The newest apply that put v in place from a known version. *)
find_rollback_target(events, v) ==
    LET hits == {i \in DOMAIN events : /\ events[i].type = "apply"
                                       /\ events[i].to = v
                                       /\ events[i].from # Empty}
    IN IF hits = {} THEN Empty
       ELSE events[CHOOSE i \in hits : \A j \in hits : j <= i].from

ReadTarget(p) ==
    /\ pc[p] = "readTarget"
    /\ LET target == IF previous # Empty THEN previous
                     ELSE IF rollbackLog.readable
                     THEN find_rollback_target(rollbackLog.events, job[p].from)
                     ELSE Empty
       IN \/ /\ target # Empty
             /\ Update(p, [job[p] EXCEPT !.to = target])
             /\ Goto(p, "checkPayload")
          \/ /\ target = Empty
             /\ Finish(p, "refused")
    /\ UNCHANGED disk

-----------------------------------------------------------------------------
(* atomic_switch_to: previous.txt first, then current.txt.                 *)

(* Mutant: the switch does not look for the target's payload. *)
CheckPayload_Unchecked(p) ==
    /\ pc[p] = "checkPayload"
    /\ Goto(p, "writePrevious")
    /\ UNCHANGED <<disk, job>>

CheckPayload(p) ==
    /\ pc[p] = "checkPayload"
    /\ \/ /\ job[p].to \in payload
          /\ Goto(p, "writePrevious")
          /\ UNCHANGED job
       \/ /\ job[p].to \notin payload
          /\ Finish(p, IF job[p].op = "apply" THEN "switchFailed" ELSE "refused")
    /\ UNCHANGED disk

(* Mutant: the outgoing version is not recorded in previous.txt. *)
WritePrevious_Skipped(p) ==
    /\ pc[p] = "writePrevious"
    /\ Goto(p, "writeCurrent")
    /\ UNCHANGED <<disk, job>>

WritePrevious(p) ==
    /\ pc[p] = "writePrevious"
    /\ \/ /\ job[p].from = Empty
          /\ Goto(p, "writeCurrent")
          /\ UNCHANGED <<previous, job>>
       \/ /\ job[p].from # Empty
          /\ \E w \in WriteResults("io") :
               /\ previous' = Contents(w, previous, job[p].from, Empty)
               /\ \/ w.ok /\ Goto(p, "writeCurrent") /\ UNCHANGED job
                  \/ ~ w.ok /\ Finish(p, "switchFailed")
    /\ UNCHANGED <<machine, current, payload, orphans, rollbackLog, stateFile>>

WriteCurrent(p) ==
    /\ pc[p] = "writeCurrent"
    /\ \E w \in WriteResults("io") :
         /\ current' = Contents(w, current, job[p].to, Empty)
         /\ \/ w.ok /\ Goto(p, "loadLog") /\ UNCHANGED job
            \/ ~ w.ok /\ Finish(p, "switchFailed")
    /\ UNCHANGED <<machine, previous, payload, orphans, rollbackLog, stateFile>>

-----------------------------------------------------------------------------
(* After the switch: the log event, the in-memory state, gc, the save.     *)

LoadLog(p) ==
    /\ pc[p] = "loadLog"
    /\ Update(p, [job[p] EXCEPT !.loaded = rollbackLog])
    /\ Goto(p, "appendLog")
    /\ UNCHANGED disk

(* Mutants: a rollback lowers the floor, or forgets to record the version. *)
Switched_LowersFloor(j) ==
    [j EXCEPT !.cur = j.to,
              !.floor = IF j.op = "apply" THEN BumpFloor(@, j.to) ELSE j.to,
              !.loaded = NoLog,
              !.result = IF j.op = "apply" THEN "applied" ELSE "rolledBack"]

Switched_ForgetsRollback(j) ==
    [j EXCEPT !.cur = IF j.op = "apply" THEN j.to ELSE @,
              !.floor = IF j.op = "apply" THEN BumpFloor(@, j.to) ELSE @,
              !.loaded = NoLog,
              !.result = IF j.op = "apply" THEN "applied" ELSE "rolledBack"]

(* The state the command will save: an apply bumps the replay floor, a     *)
(* rollback leaves it alone.                                               *)
Switched(j) ==
    [j EXCEPT !.cur = j.to,
              !.floor = IF j.op = "apply" THEN BumpFloor(@, j.to) ELSE @,
              !.loaded = NoLog,
              !.result = IF j.op = "apply" THEN "applied" ELSE "rolledBack"]

(* A log that did not load is not written, and neither outcome of the      *)
(* append stops the command.                                               *)
AppendLog(p) ==
    /\ pc[p] = "appendLog"
    /\ \/ /\ ~ job[p].loaded.readable
          /\ UNCHANGED rollbackLog
       \/ /\ job[p].loaded.readable
          /\ \E w \in WriteResults("log") :
               LET e == [type |-> job[p].op, from |-> job[p].from, to |-> job[p].to]
                   old == job[p].loaded.events
               IN rollbackLog' = Contents(w, rollbackLog,
                                   [readable |-> TRUE, events |-> Append(old, e)],
                                   [readable |-> FALSE, events |-> <<>>])
    /\ Update(p, Switched(job[p]))
    /\ Goto(p, IF job[p].op = "apply" THEN "gc" ELSE "save")
    /\ UNCHANGED <<machine, current, previous, payload, orphans, stateFile>>

(* The versions gc may not touch. *)
Referenced == {current, previous}

(* Mutant: gc looks only at the versions that the log says were installed. *)
Gc_LoggedOnly(p) ==
    /\ pc[p] = "gc"
    /\ LET events == rollbackLog.events
       IN Update(p, [job[p] EXCEPT
              !.doomed = {events[i].to : i \in DOMAIN events} \ Referenced])
    /\ Goto(p, "gcCheck")
    /\ UNCHANGED disk

(* gc_unreferenced lists versions/ and the markers once, ...               *)
Gc(p) ==
    /\ pc[p] = "gc"
    /\ Update(p, [job[p] EXCEPT !.doomed = payload \ Referenced])
    /\ Goto(p, "gcCheck")
    /\ UNCHANGED disk

(* ... remove_version reads the markers again for each version, ...        *)
GcCheck(p) ==
    /\ pc[p] = "gcCheck"
    /\ \/ /\ job[p].doomed = {}
          /\ Goto(p, "save")
          /\ UNCHANGED job
       \/ \E v \in job[p].doomed :
             LET rest == [job[p] EXCEPT !.doomed = @ \ {v}]
             IN \/ /\ v \in Referenced
                   /\ Update(p, rest)
                   /\ UNCHANGED pc
                \/ /\ v \notin Referenced
                   /\ Update(p, [rest EXCEPT !.victim = v])
                   /\ Goto(p, "gcRemove")
    /\ UNCHANGED disk

(* ... and removes it, best effort.                                        *)
GcRemove(p) ==
    /\ pc[p] = "gcRemove"
    /\ \/ payload' = payload \ {job[p].victim}
       \/ "io" \in machine.faults /\ UNCHANGED payload
    /\ Update(p, [job[p] EXCEPT !.victim = Empty])
    /\ Goto(p, "gcCheck")
    /\ UNCHANGED <<machine, current, previous, orphans, rollbackLog, stateFile>>

(* save_update_state; the command only warns when it fails. *)
Save(p) ==
    /\ pc[p] = "save"
    /\ \E w \in WriteResults("save") :
         stateFile' = Contents(w, stateFile,
                        [cur |-> job[p].cur, floor |-> job[p].floor], FreshState)
    /\ Goto(p, "idle")
    /\ Update(p, NoJob)
    /\ UNCHANGED <<machine, current, previous, payload, orphans, rollbackLog>>

(* The process dies: its memory is gone, the files stay as they are. *)
Crash(p) ==
    /\ "crash" \in machine.faults
    /\ pc[p] # "idle"
    /\ orphans' \in CASE pc[p] = "stage" -> {orphans, TRUE}
                      [] pc[p] = "place" -> {TRUE}
                      [] OTHER -> {orphans}
    /\ Goto(p, "idle")
    /\ Update(p, NoJob)
    /\ UNCHANGED <<machine, current, previous, payload, rollbackLog, stateFile>>

-----------------------------------------------------------------------------
Start(p) ==
    \/ \E m \in machine.manifests, override \in machine.overrides \cup {Empty},
          now \in Instants :
         \/ Check(p, m, override, now)
         \/ ApplyAccept(p, m, override, now)
         \/ ApplyRefuse(p, m, override, now)
    \/ Rollback(p)

Continue(p) ==
    \/ StageClear(p)
    \/ StagePlace(p)
    \/ ReadCurrent(p)
    \/ ReadTarget(p)
    \/ CheckPayload(p)
    \/ WritePrevious(p)
    \/ WriteCurrent(p)
    \/ LoadLog(p)
    \/ AppendLog(p)
    \/ Gc(p)
    \/ GcCheck(p)
    \/ GcRemove(p)
    \/ Save(p)
    \/ Crash(p)

Next == \E p \in Procs : Start(p) \/ Continue(p)

Spec == Init /\ [][Next]_vars

-----------------------------------------------------------------------------
(* Properties.  Each says which faults it survives.                        *)

(* No fault but operations under the install root that fail and say so.    *)
OnlyReportedFailures == machine.faults \subseteq {"io"}

(* No write that fails without saying so.                                  *)
NothingTorn == machine.faults \cap {"full", "rename"} = {}

(* No --current-version: the gate compares with the version on record.     *)
RecordedVersion == machine.overrides = {}

(***************************************************************************)
(* The replay floor of the state file never goes down: neither a rollback, *)
(* a refusal, a failed save nor a crash lowers what the next command will  *)
(* load as max_version_ever_seen, unless a full disk or a failing rename   *)
(* tears the file.                                                         *)
(***************************************************************************)
FloorNeverRegresses ==
    [][NothingTorn => stateFile.floor <= stateFile'.floor]_stateFile

(***************************************************************************)
(* An apply about to flip current.txt installs a version no older than any *)
(* version the rollback log says was ever in place.                        *)
(***************************************************************************)
ReplayDefence ==
    OnlyReportedFailures =>
      \A p \in Procs : pc[p] = "writeCurrent" /\ job[p].op = "apply" =>
        \A i \in DOMAIN rollbackLog.events :
            rollbackLog.events[i].to <= job[p].to

(***************************************************************************)
(* While state file and install root agree on what is installed, what is   *)
(* installed is there: no stage, gc or crash takes its payload away.  An   *)
(* override lets an apply restage the installed version, and crash.        *)
(***************************************************************************)
AgreedCurrentHasPayload ==
    NothingTorn /\ RecordedVersion /\ current # Empty /\ stateFile.cur = current
        => current \in payload

(***************************************************************************)
(* What crashed applies, interrupted collections and rollbacks left under  *)
(* versions/ is gone after the next apply that succeeds: when it is about  *)
(* to save its state only versions the two markers name are on disk        *)
(* (install_layout.h: gc "reaps it on the next apply"), unless a removal   *)
(* failed.                                                                 *)
(***************************************************************************)
LeftoversAreReaped ==
    "io" \notin machine.faults =>
      \A p \in Procs : pc[p] = "save" /\ job[p].result = "applied" =>
        payload \subseteq {current, previous}

(***************************************************************************)
(* When an apply has reported success and is about to save its state, the  *)
(* version it replaced is still on disk and previous.txt names it, so that *)
(* `update rollback` can bring it back.  (With an override an apply may    *)
(* replace a version by itself.)                                           *)
(***************************************************************************)
AppliedIsReversible ==
    OnlyReportedFailures /\ RecordedVersion =>
      \A p \in Procs :
        pc[p] = "save" /\ job[p].result = "applied" /\ job[p].from # Empty =>
            /\ current = job[p].to
            /\ previous = job[p].from
            /\ previous # current
            /\ {current, previous} \subseteq payload

(***************************************************************************)
(* Between commands the three records of what is installed agree: the      *)
(* state file, current.txt, and the last event of a log whose events chain.*)
(***************************************************************************)
RecordsAgree ==
    OnlyReportedFailures /\ (\A p \in Procs : pc[p] = "idle") =>
        LET events == rollbackLog.events
        IN /\ stateFile.cur = current
           /\ stateFile.cur <= stateFile.floor
           /\ \A i \in 2..Len(events) : events[i].from = events[i - 1].to
           /\ current = IF events = <<>> THEN Empty ELSE events[Len(events)].to

-----------------------------------------------------------------------------
(* What comments and headers say, and the code does not do.                *)

(***************************************************************************)
(* apply.cpp, rollback: the floor stays put, "so we can't be tricked into  *)
(* re-applying the version we just rolled back from via a replayed         *)
(* manifest".  The floor equals that version, and the gate refuses only    *)
(* versions below the floor.                                               *)
(***************************************************************************)
RolledBackIsNotReapplied ==
    \A p \in Procs : pc[p] = "writeCurrent" /\ job[p].op = "apply" =>
        LET events == rollbackLog.events
        IN ~ /\ events # <<>>
             /\ events[Len(events)].type = "rollback"
             /\ events[Len(events)].from = job[p].to
=============================================================================
