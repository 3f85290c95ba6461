----------------------------- MODULE Subprocess -----------------------------
(***************************************************************************)
(* run_subprocess on POSIX (plugin-host/subprocess.cpp): the calls that    *)
(* threads of one host process make, their children, the pipes between     *)
(* them, and the two things all calls share, the working directory and the *)
(* descriptor table.  Descriptors are not close-on-exec, so that a child   *)
(* inherits what other calls have open.  Data is counted in units of what  *)
(* one read returns.  SIGPIPE is ignored, as in the desktop app's process. *)
(***************************************************************************)
EXTENDS Naturals, FiniteSets

CONSTANTS
    Calls,
    StdinLen,      \* units of stdin_bytes of a call
    OutLen,        \* bound: units the call's child may write to a stream
    Timed,         \* the calls with a timeout
    WorkDir,       \* work_dir of a call; Home when it is empty
    Home,          \* the host's working directory
    PipeSize,      \* units a pipe holds
    max_capture,   \* units; 0 is unlimited
    Faults         \* what may fail in a call for want of luck alone

Streams == {"out", "err"}
Pipes == {"in"} \cup Streams

ASSUME SubprocessAssumption ==
    /\ StdinLen \in [Calls -> Nat]
    /\ OutLen \in [Calls -> [Streams -> Nat]]
    /\ Timed \subseteq Calls
    /\ PipeSize \in Nat \ {0}
    /\ max_capture \in Nat
    /\ Faults \in [Calls -> SUBSET {"memory", "save", "restore", "poll"}]

VARIABLES
    cwd,          \* the process's working directory
    fds,          \* pipe ends open in the host
    pc,
    saved_cwd,    \* a set of one directory; {} is the empty path
    unwritten,    \* units of stdin_bytes still to be written
    child,        \* a call's child, see Child
    fill,         \* fill[c][p]: units in a pipe
    produced,     \* produced[c][s]: units the child has written
    todo,         \* todo[c]: the streams poll returned, still to be drained
    hup,          \* those of them that are closed after the drain
    got,          \* units kept by the current drain
    captured, truncated, timed_out, ok,
    error,        \* error_message: "system" is a failed system call
    mishaps       \* history: what went wrong in a call that the code ignores

calls == <<pc, saved_cwd, unwritten, todo, hup, got, captured, truncated,
           timed_out, ok, error, mishaps>>
vars == <<cwd, fds, calls, child, fill, produced>>

Ends(c) == {c} \X Pipes \X {"r", "w"}
Dirs == {Home} \cup {WorkDir[c] : c \in Calls}

Labels == {"start", "prepare", "save", "chdir", "spawn", "restore", "closeEnds",
           "write", "poll", "drain", "close", "wait", "done"}

(* "overlap": the call went to its directory while another was in its own; *)
(* "stray": it did not put the directory back; "poll": poll failed.        *)
Mishaps == {"overlap", "stray", "poll"}

(* killed: SIGKILL is on its way; dir: where the child was started; ends:  *)
(* the pipe ends it holds.                                                 *)
Child == [state : {"none", "running", "killed", "exited", "reaped"}, dir : Dirs,
          ends : SUBSET UNION {Ends(c) : c \in Calls}]
NoChild == [state |-> "none", dir |-> Home, ends |-> {}]

TypeOK ==
    /\ cwd \in Dirs
    /\ fds \subseteq UNION {Ends(c) : c \in Calls}
    /\ pc \in [Calls -> Labels]
    /\ saved_cwd \in [Calls -> SUBSET Dirs]
    /\ unwritten \in [Calls -> Nat]
    /\ \A c \in Calls : unwritten[c] <= StdinLen[c]
    /\ child \in [Calls -> Child]
    /\ fill \in [Calls -> [Pipes -> 0..PipeSize]]
    /\ produced \in [Calls -> [Streams -> Nat]]
    /\ \A c \in Calls, s \in Streams : produced[c][s] <= OutLen[c][s]
    /\ todo \in [Calls -> SUBSET Streams]
    /\ hup \in [Calls -> SUBSET Streams]
    /\ got \in [Calls -> IF max_capture = 0 THEN Nat ELSE 0..max_capture]
    /\ captured \in [Calls -> [Streams -> Nat]]
    /\ truncated \in [Calls -> SUBSET Streams]
    /\ timed_out \in [Calls -> BOOLEAN]
    /\ ok \in [Calls -> BOOLEAN]
    /\ error \in [Calls -> {"none", "system", "memory"}]
    /\ mishaps \in [Calls -> SUBSET Mishaps]

Init ==
    /\ cwd = Home
    /\ fds = {}
    /\ pc = [c \in Calls |-> "start"]
    /\ saved_cwd = [c \in Calls |-> {}]
    /\ unwritten = StdinLen
    /\ child = [c \in Calls |-> NoChild]
    /\ fill = [c \in Calls |-> [p \in Pipes |-> 0]]
    /\ produced = [c \in Calls |-> [s \in Streams |-> 0]]
    /\ todo = [c \in Calls |-> {}]
    /\ hup = [c \in Calls |-> {}]
    /\ got = [c \in Calls |-> 0]
    /\ captured = [c \in Calls |-> [s \in Streams |-> 0]]
    /\ truncated = [c \in Calls |-> {}]
    /\ timed_out = [c \in Calls |-> FALSE]
    /\ ok = [c \in Calls |-> FALSE]
    /\ error = [c \in Calls |-> "none"]
    /\ mishaps = [c \in Calls |-> {}]

Goto(c, label) == pc' = [pc EXCEPT ![c] = label]

(* Is a pipe end open in the host or in some child? *)
Open(end) == end \in fds \/ \E d \in Calls : end \in child[d].ends

-----------------------------------------------------------------------------
(* The start of a call.                                                    *)

locals == <<unwritten, todo, hup, got, captured, truncated, timed_out, ok>>
world == <<child, fill, produced>>

(* Mutant: a failed call leaves its pipes open. *)
CloseAll_Forgotten(c) == UNCHANGED fds

CloseAll(c) == fds' = fds \ Ends(c)

Return(c, message) == Goto(c, "done") /\ error' = [error EXCEPT ![c] = message]

(* bad_alloc leaves run_posix, which has no handler and no owner for its   *)
(* descriptors and its child; run_subprocess turns it into a result.       *)
Throw(c) == "memory" \in Faults[c] /\ Return(c, "memory")

(* An error return once the pipes are there: close_all, ok stays FALSE.    *)
Fail(c) == CloseAll(c) /\ Return(c, "system")

Goes(c, label) == Goto(c, label) /\ UNCHANGED error

(* Three pipe() calls.  When one fails those before it are closed again,   *)
(* after the message has been built.                                       *)
OpenPipes(c) ==
    /\ pc[c] = "start"
    /\ \/ fds' = fds \cup Ends(c) /\ Goes(c, "prepare")
       \/ Fail(c)
       \/ /\ \E made \in {{}, {"in"}, {"in", "out"}} :
                 fds' = fds \cup {end \in Ends(c) : end[2] \in made}
          /\ Throw(c)
    /\ UNCHANGED <<cwd, saved_cwd, mishaps, locals, world>>

(* argv, envp and the file actions. *)
Prepare(c) ==
    /\ pc[c] = "prepare"
    /\ \/ Goes(c, IF WorkDir[c] = Home THEN "spawn" ELSE "save")
       \/ Throw(c)
    /\ UNCHANGED <<cwd, fds, saved_cwd, mishaps, locals, world>>

(* Is some other call between its own save and its own restore? *)
OtherMoves(c) ==
    \E d \in Calls \ {c} : WorkDir[d] # Home /\ pc[d] \in {"chdir", "spawn", "restore"}

(* Only for a call with a work_dir, as ChangeCwd.  When the directory      *)
(* cannot be read the path stays empty, and nobody looks at the error.     *)
SaveCwd(c) ==
    /\ pc[c] = "save"
    /\ \/ saved_cwd' = [saved_cwd EXCEPT ![c] = {cwd}] /\ Goes(c, "chdir")
       \/ "save" \in Faults[c] /\ Goes(c, "chdir") /\ UNCHANGED saved_cwd
       \/ Throw(c) /\ UNCHANGED saved_cwd
    /\ mishaps' = IF OtherMoves(c) THEN [mishaps EXCEPT ![c] = @ \cup {"overlap"}]
                                   ELSE mishaps
    /\ UNCHANGED <<cwd, fds, locals, world>>

(* The pipes are closed before the message is built. *)
ChangeCwd(c) ==
    /\ pc[c] = "chdir"
    /\ \/ cwd' = WorkDir[c] /\ Goes(c, "spawn") /\ UNCHANGED fds
       \/ Fail(c) /\ UNCHANGED cwd
       \/ CloseAll(c) /\ Throw(c) /\ UNCHANGED cwd
    /\ UNCHANGED <<saved_cwd, mishaps, locals, world>>

(* posix_spawnp with its file actions: the child keeps its own three ends, *)
(* and whatever else is open in the host at this moment.                   *)
SpawnedEnds(c) == (fds \ Ends(c)) \cup {<<c, "in", "r">>, <<c, "out", "w">>, <<c, "err", "w">>}

Spawn(c) ==
    /\ pc[c] = "spawn"
    /\ \/ child' = [child EXCEPT ![c] =
                      [state |-> "running", dir |-> cwd, ends |-> SpawnedEnds(c)]]
       \/ UNCHANGED child
    /\ Goes(c, "restore")
    /\ UNCHANGED <<cwd, fds, saved_cwd, mishaps, locals, fill, produced>>

(* The directory is put back, as far as it is known and can be entered. *)
PutBack(c) ==
    \/ cwd' \in saved_cwd[c] /\ UNCHANGED mishaps
    \/ /\ saved_cwd[c] = {} \/ "restore" \in Faults[c]
       /\ UNCHANGED cwd
       /\ mishaps' = IF WorkDir[c] = Home THEN mishaps
                     ELSE [mishaps EXCEPT ![c] = @ \cup {"stray"}]

(* Mutant: the directory is restored only when the spawn succeeded. *)
RestoreCwd_OnSuccess(c) ==
    /\ pc[c] = "restore"
    /\ \/ child[c].state = "none" /\ Fail(c) /\ UNCHANGED <<cwd, mishaps>>
       \/ child[c].state # "none" /\ Goes(c, "closeEnds") /\ UNCHANGED fds /\ PutBack(c)
    /\ UNCHANGED <<saved_cwd, locals, world>>

(* Then the spawn's result is looked at; its message is built before the   *)
(* pipes are closed.                                                       *)
RestoreCwd(c) ==
    /\ pc[c] = "restore"
    /\ PutBack(c)
    /\ \/ child[c].state = "none" /\ Fail(c)
       \/ child[c].state = "none" /\ Throw(c) /\ UNCHANGED fds
       \/ child[c].state # "none" /\ Goes(c, "closeEnds") /\ UNCHANGED fds
    /\ UNCHANGED <<saved_cwd, locals, world>>

CloseChildEnds(c) ==
    /\ pc[c] = "closeEnds"
    /\ fds' = fds \ {<<c, "in", "r">>, <<c, "out", "w">>, <<c, "err", "w">>}
    /\ Goes(c, "write")
    /\ UNCHANGED <<cwd, saved_cwd, mishaps, locals, world>>

-----------------------------------------------------------------------------
(* stdin: blocking writes, given up when nobody can read them; then the    *)
(* pipe is closed.                                                         *)

WriteStdin(c) ==
    /\ pc[c] = "write"
    /\ \/ /\ unwritten[c] = 0 \/ ~ Open(<<c, "in", "r">>)
          /\ fds' = fds \ {<<c, "in", "w">>}
          /\ unwritten' = [unwritten EXCEPT ![c] = 0]
          /\ Goes(c, "poll")
          /\ UNCHANGED fill
       \/ /\ unwritten[c] > 0 /\ Open(<<c, "in", "r">>)
          /\ fill[c]["in"] < PipeSize
          /\ fill' = [fill EXCEPT ![c]["in"] = @ + 1]
          /\ unwritten' = [unwritten EXCEPT ![c] = @ - 1]
          /\ UNCHANGED <<pc, error, fds>>
    /\ UNCHANGED <<cwd, saved_cwd, mishaps, todo, hup, got, captured, truncated,
                   timed_out, ok, child, produced>>

-----------------------------------------------------------------------------
(* The poll loop.                                                          *)

Watched(c) == {s \in Streams : <<c, s, "r">> \in fds}
HungUp(c) == {s \in Watched(c) : ~ Open(<<c, s, "w">>)}
Ready(c) == {s \in Watched(c) : fill[c][s] > 0} \cup HungUp(c)

(* Mutant: a hang-up is taken for the end of the data. *)
Poll_HangupIsTheEnd(c) ==
    /\ pc[c] = "poll"
    /\ Ready(c) # {}
    /\ todo' = [todo EXCEPT ![c] = Ready(c)]
    /\ hup' = [hup EXCEPT ![c] = HungUp(c)]
    /\ fill' = [fill EXCEPT ![c] = [p \in Pipes |-> IF p \in HungUp(c) THEN 0 ELSE @[p]]]
    /\ Goes(c, "drain")
    /\ UNCHANGED <<cwd, fds, saved_cwd, mishaps, unwritten, got, captured, truncated,
                   timed_out, ok, child, produced>>

(* POLLIN or POLLHUP on some stream. *)
Poll(c) ==
    /\ pc[c] = "poll"
    /\ Ready(c) # {}
    /\ todo' = [todo EXCEPT ![c] = Ready(c)]
    /\ hup' = [hup EXCEPT ![c] = HungUp(c)]
    /\ Goes(c, "drain")
    /\ UNCHANGED <<cwd, fds, saved_cwd, mishaps, unwritten, got, captured, truncated,
                   timed_out, ok, world>>

(* The loop is left: both streams are drained once more and closed. *)
Leave(c) ==
    /\ pc[c] = "poll"
    /\ Watched(c) # {}
    /\ todo' = [todo EXCEPT ![c] = Watched(c)]
    /\ hup' = [hup EXCEPT ![c] = Watched(c)]
    /\ Goes(c, "drain")
    /\ UNCHANGED <<cwd, fds, saved_cwd, unwritten, got, captured, truncated, ok,
                   fill, produced>>

(* Mutant: the deadline ends the loop and nobody kills the child. *)
PollTimeout_NoKill(c) ==
    /\ c \in Timed /\ Ready(c) = {}
    /\ timed_out' = [timed_out EXCEPT ![c] = TRUE]
    /\ Leave(c)
    /\ UNCHANGED <<mishaps, child>>

(* poll returned 0: there is nothing to read and the deadline has passed.  *)
(* SIGKILL, which ends a child that has not ended, not at once.            *)
PollTimeout(c) ==
    /\ c \in Timed /\ Ready(c) = {}
    /\ timed_out' = [timed_out EXCEPT ![c] = TRUE]
    /\ child' = IF child[c].state = "running"
                THEN [child EXCEPT ![c].state = "killed"]
                ELSE child
    /\ Leave(c)
    /\ UNCHANGED mishaps

(* poll itself fails: nothing is killed and timed_out stays FALSE. *)
PollFails(c) ==
    /\ "poll" \in Faults[c]
    /\ mishaps' = [mishaps EXCEPT ![c] = @ \cup {"poll"}]
    /\ Leave(c)
    /\ UNCHANGED <<timed_out, child>>

(* The stream at hand: stdout first. *)
Current(c, s) == s \in todo[c] /\ (s = "out" \/ "out" \notin todo[c])

(* The unit does not fit: it and the rest of this drain go to a sink. *)
Discard(c, s) ==
    /\ truncated' = [truncated EXCEPT ![c] = @ \cup {s}]
    /\ UNCHANGED <<got, captured>>

(* The cap is that of one drain. *)
Fits(c) == max_capture = 0 \/ got[c] < max_capture

Keep(c, s) ==
    /\ got' = [got EXCEPT ![c] = @ + 1]
    /\ captured' = [captured EXCEPT ![c][s] = @ + 1]
    /\ UNCHANGED truncated

(* One read of drain_fd_capped.  Keeping what was read may take memory.    *)
Read(c, s) ==
    /\ pc[c] = "drain"
    /\ Current(c, s)
    /\ fill[c][s] > 0
    /\ fill' = [fill EXCEPT ![c][s] = @ - 1]
    /\ \/ Fits(c) /\ Keep(c, s) /\ UNCHANGED <<pc, error>>
       \/ Fits(c) /\ Throw(c) /\ UNCHANGED <<got, captured, truncated>>
       \/ ~ Fits(c) /\ Discard(c, s) /\ UNCHANGED <<pc, error>>
    /\ UNCHANGED <<cwd, fds, saved_cwd, mishaps, unwritten, todo, hup, timed_out,
                   ok, child, produced>>

(* Its last read: nothing left at this moment, or end of file. *)
EndOfData(c, s) ==
    /\ pc[c] = "drain"
    /\ Current(c, s)
    /\ fill[c][s] = 0
    /\ Goes(c, "close")
    /\ UNCHANGED <<cwd, fds, saved_cwd, mishaps, locals, world>>

(* What was read is added to the stream's bytes, and a stream that hung up *)
(* is closed.  After the last stream the loop polls again or is left.      *)
CloseStream(c, s) ==
    /\ pc[c] = "close"
    /\ Current(c, s)
    /\ fds' = IF s \in hup[c] THEN fds \ {<<c, s, "r">>} ELSE fds
    /\ todo' = [todo EXCEPT ![c] = @ \ {s}]
    /\ hup' = [hup EXCEPT ![c] = @ \ {s}]
    /\ got' = [got EXCEPT ![c] = 0]
    /\ Goes(c, IF todo[c] # {s} THEN "drain"
               ELSE IF \E t \in Streams : <<c, t, "r">> \in fds' THEN "poll" ELSE "wait")
    /\ UNCHANGED <<cwd, saved_cwd, mishaps, unwritten, captured, truncated, timed_out,
                   ok, world>>

(* There is no memory to add it. *)
AppendThrows(c) ==
    /\ pc[c] = "close"
    /\ got[c] > 0
    /\ Throw(c)
    /\ UNCHANGED <<cwd, fds, saved_cwd, mishaps, locals, world>>

(* waitpid blocks until the child is gone; there is no deadline here.      *)
Wait(c) ==
    /\ pc[c] = "wait"
    /\ child[c].state = "exited"
    /\ child' = [child EXCEPT ![c].state = "reaped"]
    /\ ok' = [ok EXCEPT ![c] = TRUE]
    /\ CloseAll(c)
    /\ Goes(c, "done")
    /\ UNCHANGED <<cwd, saved_cwd, mishaps, unwritten, todo, hup, got, captured, truncated,
                   timed_out, fill, produced>>

-----------------------------------------------------------------------------
(* The child, which may do anything a program does with its streams.       *)

ChildRead(c) ==
    /\ <<c, "in", "r">> \in child[c].ends
    /\ fill[c]["in"] > 0
    /\ fill' = [fill EXCEPT ![c]["in"] = @ - 1]
    /\ UNCHANGED <<cwd, fds, calls, child, produced>>

ChildWrite(c, s) ==
    /\ <<c, s, "w">> \in child[c].ends
    /\ Open(<<c, s, "r">>)
    /\ fill[c][s] < PipeSize
    /\ produced[c][s] < OutLen[c][s]
    /\ fill' = [fill EXCEPT ![c][s] = @ + 1]
    /\ produced' = [produced EXCEPT ![c][s] = @ + 1]
    /\ UNCHANGED <<cwd, fds, calls, child>>

(* A child that goes on in the background closes its three streams. *)
ChildClose(c) ==
    /\ child[c].ends \cap Ends(c) # {}
    /\ child' = [child EXCEPT ![c].ends = @ \ Ends(c)]
    /\ UNCHANGED <<cwd, fds, calls, fill, produced>>

(* By itself, by a signal of its own, or by SIGKILL. *)
ChildExit(c) ==
    /\ child[c].state \in {"running", "killed"}
    /\ child' = [child EXCEPT ![c].state = "exited", ![c].ends = {}]
    /\ UNCHANGED <<cwd, fds, calls, fill, produced>>

-----------------------------------------------------------------------------
Works(c) ==
    \/ OpenPipes(c) \/ Prepare(c) \/ SaveCwd(c) \/ ChangeCwd(c) \/ Spawn(c)
    \/ RestoreCwd(c) \/ CloseChildEnds(c) \/ WriteStdin(c)
    \/ Poll(c) \/ PollTimeout(c)
    \/ \E s \in Streams : Read(c, s) \/ EndOfData(c, s) \/ CloseStream(c, s)
    \/ Wait(c)

Host(c) == Works(c) \/ PollFails(c) \/ AppendThrows(c)

ChildStep(c) ==
    \/ ChildRead(c) \/ ChildClose(c) \/ ChildExit(c)
    \/ \E s \in Streams : ChildWrite(c, s)

Next == \E c \in Calls : Host(c) \/ ChildStep(c)

(* Host threads keep running, a poll with a timeout returns, and SIGKILL   *)
(* ends a process.                                                         *)
Fairness ==
    \A c \in Calls :
        WF_vars(Works(c)) /\ WF_vars(child[c].state = "killed" /\ ChildExit(c))

Spec == Init /\ [][Next]_vars /\ Fairness

-----------------------------------------------------------------------------
(* Properties.                                                             *)

(***************************************************************************)
(* Whatever failed on the way and whatever other calls did, a call that    *)
(* has returned holds no pipe, and has waited for its child.  A call that  *)
(* ran out of memory may leave both; once it has a child, not more than    *)
(* the two ends it reads.                                                  *)
(***************************************************************************)
NothingLeftBehind ==
    \A c \in Calls : pc[c] = "done" =>
        /\ error[c] # "memory" =>
               fds \cap Ends(c) = {} /\ child[c].state \in {"none", "reaped"}
        /\ child[c].state # "none" =>
               fds \cap Ends(c) \subseteq {<<c, "out", "r">>, <<c, "err", "r">>}

(***************************************************************************)
(* SubprocessResult: a stream's truncated flag is set only when some of    *)
(* what the child wrote was dropped.  If the child was not killed and poll *)
(* did not fail, it is set whenever something is missing from stdout_bytes *)
(* or stderr_bytes.                                                        *)
(***************************************************************************)
OutputIsComplete ==
    \A c \in Calls, s \in Streams : pc[c] = "done" /\ ok[c] =>
        /\ s \in truncated[c] => captured[c][s] < produced[c][s]
        /\ ~ timed_out[c] /\ "poll" \notin mishaps[c] =>
               (captured[c][s] < produced[c][s] => s \in truncated[c])

(* The call is where the process is in its work_dir. *)
Away(c) == pc[c] \in {"spawn", "restore"} /\ WorkDir[c] # Home

Strayed == {c \in Calls : "stray" \in mishaps[c]}

(***************************************************************************)
(* subprocess.cpp 184-185: the temporary change of directory is safe       *)
(* across stages.  A child starts in its own work_dir, and no call leaves  *)
(* the host elsewhere, but one whose save or restore failed.               *)
(***************************************************************************)
SafeAcrossStages ==
    /\ (\A c \in Calls : ~ Away(c)) => cwd \in {Home} \cup {WorkDir[c] : c \in Strayed}
    /\ \A c \in Calls : child[c].state # "none" /\ WorkDir[c] # Home =>
           child[c].dir = WorkDir[c]

(***************************************************************************)
(* This is so as long as no call has started its change of directory       *)
(* between another's save and its restore, on every path through both.     *)
(***************************************************************************)
DirectoryRestored ==
    (\A c \in Calls : "overlap" \notin mishaps[c]) => SafeAcrossStages

(***************************************************************************)
(* SubprocessOptions.max_capture_bytes: not more than the cap is captured  *)
(* of each stream.                                                         *)
(***************************************************************************)
CapPerStream ==
    \A c \in Calls, s \in Streams :
        pc[c] = "done" /\ ok[c] /\ max_capture > 0 => captured[c][s] <= max_capture

(***************************************************************************)
(* A call with a timeout returns, given a child whose output is finite.    *)
(* There are two exceptions, the blocking calls that have no deadline: the *)
(* write of stdin to a process that does not read it, and the wait for a   *)
(* child that nobody killed and that lives on, after it closed its streams *)
(* or poll failed.                                                         *)
(***************************************************************************)
TimedCallReturns ==
    \A c \in Timed :
        \/ <>(pc[c] = "done")
        \/ <>[](/\ pc[c] = "write" /\ fill[c]["in"] = PipeSize
                /\ \E d \in Calls : <<c, "in", "r">> \in child[d].ends)
        \/ <>[](pc[c] = "wait" /\ child[c].state = "running" /\ ~ timed_out[c])
=============================================================================
