-------------------------- MODULE SubprocessProofs --------------------------
(***************************************************************************)
(* Theorems about Subprocess, for any number of calls at once, any amount  *)
(* of input and output, any capacity of the pipes and any cap.             *)
(***************************************************************************)
EXTENDS Subprocess, TLAPS

AllEnds == UNION {Ends(c) : c \in Calls}

-----------------------------------------------------------------------------
(* Types. *)

(* The ends of a call's pipes are its own. *)
LEMMA EndsAreOwn ==
    /\ \A c \in Calls : Ends(c) \subseteq AllEnds
    /\ \A c, d \in Calls : c # d => Ends(c) \cap Ends(d) = {}
    /\ \A c \in Calls, p \in Pipes : <<c, p, "r">> \in Ends(c) /\ <<c, p, "w">> \in Ends(c)
    /\ \A c, d, p, q, x, y : <<c, p, x>> = <<d, q, y>> => c = d /\ p = q /\ x = y
<1>1. \A c \in Calls : Ends(c) \subseteq AllEnds
  BY DEF AllEnds
<1>2. \A c, d \in Calls : c # d => Ends(c) \cap Ends(d) = {}
  BY DEF Ends
<1>3. \A c \in Calls, p \in Pipes : <<c, p, "r">> \in Ends(c) /\ <<c, p, "w">> \in Ends(c)
  BY DEF Ends
<1> QED
  BY <1>1, <1>2, <1>3

(* What a child inherits is open in the host, or its own. *)
LEMMA SpawnedEndsAreEnds ==
    ASSUME NEW c \in Calls, fds \subseteq AllEnds
    PROVE  SpawnedEnds(c) \subseteq AllEnds
<1>1. {"in", "out", "err"} \subseteq Pipes
  BY DEF Pipes, Streams
<1>2. <<c, "in", "r">> \in Ends(c) /\ <<c, "out", "w">> \in Ends(c) /\ <<c, "err", "w">> \in Ends(c)
  BY <1>1, EndsAreOwn
<1>3. Ends(c) \subseteq AllEnds
  BY EndsAreOwn
<1> QED
  BY <1>2, <1>3 DEF SpawnedEnds

(* A message, or none. *)
LEMMA ErrorStays ==
    ASSUME TypeOK, NEW c \in Calls,
           \/ UNCHANGED error
           \/ error' = [error EXCEPT ![c] = "system"]
           \/ error' = [error EXCEPT ![c] = "memory"]
    PROVE  error' \in [Calls -> {"none", "system", "memory"}]
BY DEF TypeOK

(* The steps of a call before its child's output matters. *)
LEMMA StartKeepsTypes ==
    ASSUME TypeOK, NEW c \in Calls,
           \/ OpenPipes(c) \/ Prepare(c) \/ SaveCwd(c) \/ ChangeCwd(c) \/ Spawn(c)
           \/ RestoreCwd(c) \/ CloseChildEnds(c)
    PROVE  TypeOK'
<1>1. /\ UNCHANGED <<unwritten, todo, hup, got, captured, truncated, timed_out, ok>>
      /\ UNCHANGED <<fill, produced>>
  BY DEF OpenPipes, Prepare, SaveCwd, ChangeCwd, Spawn, RestoreCwd, CloseChildEnds, locals, world
<1>2. cwd' \in Dirs /\ saved_cwd' \in [Calls -> SUBSET Dirs]
  <2>1. WorkDir[c] \in Dirs /\ cwd \in Dirs /\ saved_cwd \in [Calls -> SUBSET Dirs]
    BY DEF Dirs, TypeOK
  <2>2. /\ UNCHANGED cwd \/ cwd' = WorkDir[c] \/ cwd' \in saved_cwd[c]
        /\ UNCHANGED saved_cwd \/ saved_cwd' = [saved_cwd EXCEPT ![c] = {cwd}]
    BY DEF OpenPipes, Prepare, SaveCwd, ChangeCwd, Spawn, RestoreCwd, PutBack, CloseChildEnds
  <2> QED
    BY <2>1, <2>2
<1>3. fds' \subseteq AllEnds
  <2>1. \/ fds' \subseteq fds \cup Ends(c)
        \/ UNCHANGED fds
    BY DEF OpenPipes, Prepare, SaveCwd, ChangeCwd, Spawn, RestoreCwd, CloseChildEnds,
           Fail, CloseAll
  <2>2. Ends(c) \subseteq AllEnds /\ fds \subseteq AllEnds
    BY EndsAreOwn DEF TypeOK, AllEnds
  <2> QED
    BY <2>1, <2>2
<1>4. pc' \in [Calls -> Labels]
  BY ZenonT(40) DEF OpenPipes, Prepare, SaveCwd, ChangeCwd, Spawn, RestoreCwd, CloseChildEnds,
                    Fail, Throw, Return, Goes, Goto, TypeOK, Labels
<1>5. child' \in [Calls -> Child]
  <2>1. CASE UNCHANGED child
    BY <2>1 DEF TypeOK
  <2>2. CASE child' = [child EXCEPT ![c] =
                         [state |-> "running", dir |-> cwd, ends |-> SpawnedEnds(c)]]
    <3>1. SpawnedEnds(c) \subseteq AllEnds
      BY SpawnedEndsAreEnds DEF TypeOK, AllEnds
    <3>2. [state |-> "running", dir |-> cwd, ends |-> SpawnedEnds(c)] \in Child
      BY <3>1 DEF Child, TypeOK, AllEnds
    <3> QED
      BY <2>2, <3>2 DEF TypeOK
  <2> QED
    BY <2>1, <2>2
       DEF OpenPipes, Prepare, SaveCwd, ChangeCwd, Spawn, RestoreCwd, CloseChildEnds, world
<1>6. error' \in [Calls -> {"none", "system", "memory"}]
  <2>1. \/ UNCHANGED error
        \/ error' = [error EXCEPT ![c] = "system"]
        \/ error' = [error EXCEPT ![c] = "memory"]
    BY DEF OpenPipes, Prepare, SaveCwd, ChangeCwd, Spawn, RestoreCwd, CloseChildEnds,
           Fail, Throw, Return, Goes
  <2> QED
    BY <2>1, ErrorStays
<1>7. mishaps' \in [Calls -> SUBSET Mishaps]
  <2>1. \/ UNCHANGED mishaps
        \/ \E m \in Mishaps : mishaps' = [mishaps EXCEPT ![c] = mishaps[c] \cup {m}]
    BY DEF OpenPipes, Prepare, SaveCwd, ChangeCwd, Spawn, RestoreCwd, PutBack, CloseChildEnds,
           Mishaps
  <2>2. mishaps \in [Calls -> SUBSET Mishaps]
    BY DEF TypeOK
  <2>3. ASSUME NEW m \in Mishaps, mishaps' = [mishaps EXCEPT ![c] = mishaps[c] \cup {m}]
        PROVE  mishaps' \in [Calls -> SUBSET Mishaps]
    <3>1. mishaps[c] \cup {m} \in SUBSET Mishaps
      BY <2>2
    <3> QED
      BY <2>2, <2>3, <3>1
  <2> QED
    BY <2>1, <2>2, <2>3
<1> QED
  BY <1>1, <1>2, <1>3, <1>4, <1>5, <1>6, <1>7 DEF TypeOK, AllEnds

(* One unit more or less in a pipe that has room, or something in it. *)
LEMMA FillStays ==
    ASSUME TypeOK, NEW c \in Calls, NEW p \in Pipes,
           \/ UNCHANGED fill
           \/ fill[c][p] < PipeSize /\ fill' = [fill EXCEPT ![c][p] = @ + 1]
           \/ fill[c][p] > 0 /\ fill' = [fill EXCEPT ![c][p] = @ - 1]
    PROVE  fill' \in [Calls -> [Pipes -> 0..PipeSize]]
<1>1. fill[c][p] \in 0..PipeSize /\ PipeSize \in Nat
  BY SubprocessAssumption DEF TypeOK
<1>2. ASSUME NEW n \in 0..PipeSize, fill' = [fill EXCEPT ![c][p] = n]
      PROVE  fill' \in [Calls -> [Pipes -> 0..PipeSize]]
  BY <1>2 DEF TypeOK
<1>3. CASE fill[c][p] < PipeSize /\ fill' = [fill EXCEPT ![c][p] = @ + 1]
  <2>1. fill[c][p] + 1 \in 0..PipeSize
    BY <1>1, <1>3
  <2>2. fill' = [fill EXCEPT ![c][p] = fill[c][p] + 1]
    BY <1>3 DEF TypeOK
  <2> QED
    BY <1>2, <2>1, <2>2
<1>4. CASE fill[c][p] > 0 /\ fill' = [fill EXCEPT ![c][p] = @ - 1]
  <2>1. fill[c][p] - 1 \in 0..PipeSize
    BY <1>1, <1>4
  <2>2. fill' = [fill EXCEPT ![c][p] = fill[c][p] - 1]
    BY <1>4 DEF TypeOK
  <2> QED
    BY <1>2, <2>1, <2>2
<1> QED
  BY <1>3, <1>4 DEF TypeOK

(* The children, one of them with another state and other ends. *)
ChildWith(c, state, ends) ==
    [child EXCEPT ![c] = [state |-> state, dir |-> child[c].dir, ends |-> ends]]

(* A child that goes on, with another state or with fewer ends. *)
LEMMA ChildStays ==
    ASSUME TypeOK, NEW c \in Calls, NEW state \in {"none", "running", "killed", "exited", "reaped"},
           NEW ends \in SUBSET child[c].ends
    PROVE  ChildWith(c, state, ends) \in [Calls -> Child]
<1>1. child[c] \in Child
  BY DEF TypeOK
<1>2. [state |-> state, dir |-> child[c].dir, ends |-> ends] \in Child
  BY <1>1 DEF Child
<1> QED
  BY <1>2 DEF TypeOK, ChildWith

(* What is read back. *)
LEMMA ChildWithIs ==
    ASSUME TypeOK, NEW c \in Calls
    PROVE  \A state, ends : /\ ChildWith(c, state, ends)[c].state = state
                           /\ ChildWith(c, state, ends)[c].dir = child[c].dir
                           /\ ChildWith(c, state, ends)[c].ends = ends
BY DEF ChildWith, TypeOK

(* What changes in a child, field by field. *)
LEMMA ChildExcept ==
    ASSUME TypeOK, NEW c \in Calls
    PROVE  /\ [child EXCEPT ![c].state = "exited", ![c].ends = {}]
                = ChildWith(c, "exited", {})
           /\ \A state : [child EXCEPT ![c].state = state] = ChildWith(c, state, child[c].ends)
           /\ [child EXCEPT ![c].ends = @ \ Ends(c)]
                = ChildWith(c, child[c].state, child[c].ends \ Ends(c))
<1>1. child[c] \in Child
  BY DEF TypeOK
<1>2. [child[c] EXCEPT !.state = "exited", !.ends = {}]
        = [state |-> "exited", dir |-> child[c].dir, ends |-> {}]
  <2> DEFINE new == [child[c] EXCEPT !.state = "exited", !.ends = {}]
             k == [state |-> "exited", dir |-> child[c].dir, ends |-> {}]
  <2>1. DOMAIN child[c] = {"state", "dir", "ends"}
    BY <1>1 DEF Child
  <2>2. new.state = "exited" /\ new.dir = child[c].dir /\ new.ends = {}
    BY <2>1
  <2>3. new = [f \in {"state", "dir", "ends"} |-> new[f]]
    BY <2>1
  <2>4. k = [f \in {"state", "dir", "ends"} |-> k[f]]
    OBVIOUS
  <2>5. k.state = "exited" /\ k.dir = child[c].dir /\ k.ends = {}
    OBVIOUS
  <2> HIDE DEF new, k
  <2>6. \A f \in {"state", "dir", "ends"} : new[f] = k[f]
    BY <2>2, <2>5
  <2>7. new = k
    BY <2>3, <2>4, <2>6
  <2> QED
    BY <2>7 DEF new, k
<1>3. \A state : [child[c] EXCEPT !.state = state]
                     = [state |-> state, dir |-> child[c].dir, ends |-> child[c].ends]
  BY <1>1 DEF Child
<1>4. \A ends : [child[c] EXCEPT !.ends = ends]
                    = [state |-> child[c].state, dir |-> child[c].dir, ends |-> ends]
  BY <1>1 DEF Child
<1>5. [child EXCEPT ![c].state = "exited", ![c].ends = {}]
        = [child EXCEPT ![c] = [child[c] EXCEPT !.state = "exited", !.ends = {}]]
  BY DEF TypeOK
<1>6. \A state : [child EXCEPT ![c].state = state]
                     = [child EXCEPT ![c] = [child[c] EXCEPT !.state = state]]
  BY DEF TypeOK
<1>7. [child EXCEPT ![c].ends = @ \ Ends(c)]
        = [child EXCEPT ![c] = [child[c] EXCEPT !.ends = child[c].ends \ Ends(c)]]
  BY DEF TypeOK
<1> QED
  BY <1>2, <1>3, <1>4, <1>5, <1>6, <1>7 DEF ChildWith

(* Hence what is read back after such a step. *)
LEMMA ChildGets ==
    ASSUME TypeOK, NEW c \in Calls
    PROVE  /\ child' = [child EXCEPT ![c].state = "exited", ![c].ends = {}]
                => /\ child'[c].state = "exited" /\ child'[c].dir = child[c].dir
                   /\ child'[c].ends = {}
           /\ \A state : child' = [child EXCEPT ![c].state = state]
                => /\ child'[c].state = state /\ child'[c].dir = child[c].dir
                   /\ child'[c].ends = child[c].ends
           /\ child' = [child EXCEPT ![c].ends = @ \ Ends(c)]
                => /\ child'[c].state = child[c].state /\ child'[c].dir = child[c].dir
                   /\ child'[c].ends \subseteq child[c].ends
<1>1. child' = ChildWith(c, "exited", {})
        => /\ child'[c].state = "exited" /\ child'[c].dir = child[c].dir
           /\ child'[c].ends = {}
  BY ChildWithIs
<1>2. \A state : child' = ChildWith(c, state, child[c].ends)
        => /\ child'[c].state = state /\ child'[c].dir = child[c].dir
           /\ child'[c].ends = child[c].ends
  BY ChildWithIs
<1>3. child' = ChildWith(c, child[c].state, child[c].ends \ Ends(c))
        => /\ child'[c].state = child[c].state /\ child'[c].dir = child[c].dir
           /\ child'[c].ends \subseteq child[c].ends
  BY ChildWithIs
<1>4. ASSUME NEW state, child' = [child EXCEPT ![c].state = state]
      PROVE  /\ child'[c].state = state /\ child'[c].dir = child[c].dir
             /\ child'[c].ends = child[c].ends
  BY <1>2, <1>4, ChildExcept
<1>5. child' = [child EXCEPT ![c].ends = @ \ Ends(c)]
        => child' = ChildWith(c, child[c].state, child[c].ends \ Ends(c))
  BY ChildExcept
<1>6. child' = [child EXCEPT ![c].state = "exited", ![c].ends = {}]
        => child' = ChildWith(c, "exited", {})
  BY ChildExcept
<1> QED
  BY <1>1, <1>3, <1>4, <1>5, <1>6

(* The write of stdin and the poll loop. *)
LEMMA LoopKeepsTypes ==
    ASSUME TypeOK, NEW c \in Calls,
           WriteStdin(c) \/ Poll(c) \/ PollTimeout(c) \/ PollFails(c)
    PROVE  TypeOK'
<1>1. /\ UNCHANGED <<cwd, saved_cwd, got, captured, truncated, ok, error, produced>>
      /\ fds' \subseteq fds
  BY DEF WriteStdin, Poll, PollTimeout, PollFails, Leave, Goes, world
<1>2. pc' \in [Calls -> Labels]
  BY ZenonT(40) DEF WriteStdin, Poll, PollTimeout, PollFails, Leave, Goes, Goto, TypeOK, Labels
<1>3. fill' \in [Calls -> [Pipes -> 0..PipeSize]]
  <2>1. \/ UNCHANGED fill
        \/ fill[c]["in"] < PipeSize /\ fill' = [fill EXCEPT ![c]["in"] = @ + 1]
    BY DEF WriteStdin, Poll, PollTimeout, PollFails, Leave, world
  <2>2. "in" \in Pipes
    BY DEF Pipes
  <2> QED
    BY <2>1, <2>2, FillStays
<1>4. unwritten' \in [Calls -> Nat] /\ \A d \in Calls : unwritten'[d] <= StdinLen[d]
  <2>1. unwritten[c] \in Nat /\ unwritten[c] <= StdinLen[c] /\ StdinLen[c] \in Nat
    BY SubprocessAssumption DEF TypeOK
  <2>2. \/ UNCHANGED unwritten
        \/ unwritten' = [unwritten EXCEPT ![c] = 0]
        \/ unwritten[c] > 0 /\ unwritten' = [unwritten EXCEPT ![c] = unwritten[c] - 1]
    BY DEF WriteStdin, Poll, PollTimeout, PollFails, Leave
  <2>3. CASE UNCHANGED unwritten
    BY <2>3 DEF TypeOK
  <2>4. CASE unwritten' = [unwritten EXCEPT ![c] = 0]
    BY <2>1, <2>4 DEF TypeOK
  <2>5. CASE unwritten[c] > 0 /\ unwritten' = [unwritten EXCEPT ![c] = unwritten[c] - 1]
    BY <2>1, <2>5 DEF TypeOK
  <2> QED
    BY <2>2, <2>3, <2>4, <2>5
<1>5. child' \in [Calls -> Child]
  <2>1. CASE UNCHANGED child
    BY <2>1 DEF TypeOK
  <2>2. CASE child' = [child EXCEPT ![c].state = "killed"]
    <3>1. child' = ChildWith(c, "killed", child[c].ends)
      BY <2>2, ChildExcept
    <3> QED
      BY <3>1, ChildStays
  <2> QED
    BY <2>1, <2>2 DEF WriteStdin, Poll, PollTimeout, PollFails, world
<1>6. /\ todo' \in [Calls -> SUBSET Streams] /\ hup' \in [Calls -> SUBSET Streams]
      /\ timed_out' \in [Calls -> BOOLEAN] /\ mishaps' \in [Calls -> SUBSET Mishaps]
  <2>1. /\ Ready(c) \subseteq Streams /\ HungUp(c) \subseteq Streams
        /\ Watched(c) \subseteq Streams
    BY DEF Ready, HungUp, Watched
  <2>2. /\ \/ todo' = todo
           \/ \E t \in SUBSET Streams : todo' = [todo EXCEPT ![c] = t]
        /\ \/ hup' = hup
           \/ \E t \in SUBSET Streams : hup' = [hup EXCEPT ![c] = t]
        /\ UNCHANGED timed_out \/ timed_out' = [timed_out EXCEPT ![c] = TRUE]
        /\ UNCHANGED mishaps \/ mishaps' = [mishaps EXCEPT ![c] = mishaps[c] \cup {"poll"}]
    BY <2>1 DEF WriteStdin, Poll, PollTimeout, PollFails, Leave
  <2>3. todo' \in [Calls -> SUBSET Streams]
    BY <2>2 DEF TypeOK
  <2>4. hup' \in [Calls -> SUBSET Streams]
    BY <2>2 DEF TypeOK
  <2>5. mishaps' \in [Calls -> SUBSET Mishaps]
    BY <2>2 DEF TypeOK, Mishaps
  <2> QED
    BY <2>2, <2>3, <2>4, <2>5 DEF TypeOK
<1> QED
  BY <1>1, <1>2, <1>3, <1>4, <1>5, <1>6 DEF TypeOK

(* One read of an output stream keeps the types. *)
LEMMA ReadKeepsTypes ==
    ASSUME TypeOK, NEW c \in Calls, NEW s \in Streams, Read(c, s)
    PROVE  TypeOK'
<1>1. UNCHANGED <<cwd, fds, saved_cwd, mishaps, unwritten, todo, hup, timed_out, ok, child,
                  produced>>
  BY DEF Read
<1>2. s \in Pipes
  BY DEF Pipes
<1>3. fill' \in [Calls -> [Pipes -> 0..PipeSize]]
  BY <1>2, FillStays DEF Read
<1>4. CASE Fits(c) /\ Keep(c, s) /\ UNCHANGED <<pc, error>>
  <2>1. got' \in [Calls -> IF max_capture = 0 THEN Nat ELSE 0..max_capture]
    <3>1. got[c] + 1 \in IF max_capture = 0 THEN Nat ELSE 0..max_capture
      BY <1>4, SubprocessAssumption DEF Fits, TypeOK
    <3>2. got' = [got EXCEPT ![c] = got[c] + 1]
      BY <1>4 DEF Keep
    <3> DEFINE range == IF max_capture = 0 THEN Nat ELSE 0..max_capture
    <3>3. got \in [Calls -> range] /\ got[c] + 1 \in range
      BY <3>1 DEF TypeOK
    <3> HIDE DEF range
    <3>4. got' \in [Calls -> range]
      BY <3>2, <3>3
    <3> QED
      BY <3>4 DEF range
  <2>2. captured' \in [Calls -> [Streams -> Nat]]
    <3>1. captured[c][s] + 1 \in Nat
      BY DEF TypeOK
    <3>2. captured' = [captured EXCEPT ![c][s] = captured[c][s] + 1]
      BY <1>4 DEF Keep
    <3> QED
      BY <3>1, <3>2 DEF TypeOK
  <2> QED
    BY <1>1, <1>3, <1>4, <2>1, <2>2 DEF Keep, TypeOK
<1>5. CASE Fits(c) /\ Throw(c) /\ UNCHANGED <<got, captured, truncated>>
  <2>1. pc' \in [Calls -> Labels]
    BY <1>5 DEF Throw, Return, Goto, TypeOK, Labels
  <2>2. error' \in [Calls -> {"none", "system", "memory"}]
    BY <1>5, ErrorStays DEF Throw, Return
  <2> QED
    BY <1>1, <1>3, <1>5, <2>1, <2>2 DEF TypeOK
<1>6. CASE Discard(c, s) /\ UNCHANGED <<pc, error>>
  <2>1. truncated' \in [Calls -> SUBSET Streams]
    BY <1>6 DEF Discard, TypeOK
  <2> QED
    BY <1>1, <1>3, <1>6, <2>1 DEF Discard, TypeOK
<1> QED
  BY <1>4, <1>5, <1>6 DEF Read

(* So do the end of a drain and the close of the stream. *)
LEMMA DrainEndKeepsTypes ==
    ASSUME TypeOK, NEW c \in Calls,
           AppendThrows(c) \/ \E s \in Streams : EndOfData(c, s) \/ CloseStream(c, s)
    PROVE  TypeOK'
<1>1. CASE \E s \in Streams : EndOfData(c, s)
  <2>1. pc' \in [Calls -> Labels]
    BY <1>1 DEF EndOfData, Goes, Goto, TypeOK, Labels
  <2> QED
    BY <1>1, <2>1 DEF EndOfData, Goes, locals, world, TypeOK
<1>2. ASSUME NEW s \in Streams, CloseStream(c, s)
      PROVE  TypeOK'
  <2>1. todo' \in [Calls -> SUBSET Streams] /\ hup' \in [Calls -> SUBSET Streams]
    BY <1>2 DEF CloseStream, TypeOK
  <2>2. got' \in [Calls -> IF max_capture = 0 THEN Nat ELSE 0..max_capture]
    <3> DEFINE range == IF max_capture = 0 THEN Nat ELSE 0..max_capture
    <3>1. got \in [Calls -> range] /\ 0 \in range
      BY SubprocessAssumption DEF TypeOK
    <3> HIDE DEF range
    <3>2. got' \in [Calls -> range]
      BY <1>2, <3>1 DEF CloseStream
    <3> QED
      BY <3>2 DEF range
  <2>3. pc' \in [Calls -> Labels] /\ UNCHANGED error
    BY <1>2 DEF CloseStream, Goes, Goto, TypeOK, Labels
  <2>4. fds' \subseteq fds
    BY <1>2 DEF CloseStream
  <2>5. /\ UNCHANGED <<cwd, saved_cwd, mishaps, unwritten, captured, truncated>>
        /\ UNCHANGED <<timed_out, ok, child, fill, produced>>
    BY <1>2 DEF CloseStream, world
  <2> QED
    BY <2>1, <2>2, <2>3, <2>4, <2>5 DEF TypeOK
<1>3. CASE AppendThrows(c)
  <2>1. pc' \in [Calls -> Labels]
    BY <1>3 DEF AppendThrows, Throw, Return, Goto, TypeOK, Labels
  <2>2. error' \in [Calls -> {"none", "system", "memory"}]
    BY <1>3, ErrorStays DEF AppendThrows, Throw, Return
  <2> QED
    BY <1>3, <2>1, <2>2 DEF AppendThrows, locals, world, TypeOK
<1> QED
  BY <1>1, <1>2, <1>3

(* Waiting for a child, and what a child does, keep the types. *)
LEMMA ChildKeepsTypes ==
    ASSUME TypeOK, NEW c \in Calls, Wait(c) \/ ChildStep(c)
    PROVE  TypeOK'
<1>1. CASE Wait(c)
  <2>1. /\ UNCHANGED <<cwd, saved_cwd, unwritten, todo, hup, got, captured, truncated>>
        /\ UNCHANGED <<timed_out, fill, produced, error, mishaps>>
        /\ fds' \subseteq fds
    BY <1>1 DEF Wait, CloseAll, Goes
  <2>2. pc' \in [Calls -> Labels] /\ ok' \in [Calls -> BOOLEAN]
    <3>1. pc' = [pc EXCEPT ![c] = "done"] /\ ok' = [ok EXCEPT ![c] = TRUE]
      BY <1>1 DEF Wait, Goes, Goto
    <3> QED
      BY <3>1 DEF TypeOK, Labels
  <2>3. child' \in [Calls -> Child]
    <3>1. child' = ChildWith(c, "reaped", child[c].ends)
      BY <1>1, ChildExcept DEF Wait
    <3> QED
      BY <3>1, ChildStays
  <2> QED
    BY <2>1, <2>2, <2>3 DEF TypeOK
<1>2. ASSUME UNCHANGED <<cwd, fds, calls>>, child' \in [Calls -> Child],
             fill' \in [Calls -> [Pipes -> 0..PipeSize]],
             produced' \in [Calls -> [Streams -> Nat]],
             \A d \in Calls, t \in Streams : produced'[d][t] <= OutLen[d][t]
      PROVE  TypeOK'
  BY <1>2 DEF TypeOK, calls
<1>3. CASE ChildRead(c)
  <2>1. "in" \in Pipes
    BY DEF Pipes
  <2>2. fill' \in [Calls -> [Pipes -> 0..PipeSize]]
    BY <1>3, <2>1, FillStays DEF ChildRead
  <2> QED
    BY <1>2, <1>3, <2>2 DEF ChildRead, TypeOK
<1>4. ASSUME NEW s \in Streams, ChildWrite(c, s)
      PROVE  TypeOK'
  <2>1. s \in Pipes
    BY DEF Pipes
  <2>2. fill' \in [Calls -> [Pipes -> 0..PipeSize]]
    BY <1>4, <2>1, FillStays DEF ChildWrite
  <2>3. /\ produced' \in [Calls -> [Streams -> Nat]]
        /\ \A d \in Calls, t \in Streams : produced'[d][t] <= OutLen[d][t]
    <3>1. produced[c][s] \in Nat /\ OutLen[c][s] \in Nat
      BY SubprocessAssumption DEF TypeOK
    <3>2. /\ produced[c][s] + 1 <= OutLen[c][s]
          /\ produced' = [produced EXCEPT ![c][s] = produced[c][s] + 1]
      BY <1>4, <3>1 DEF ChildWrite
    <3> QED
      BY <3>1, <3>2 DEF TypeOK
  <2> QED
    BY <1>2, <1>4, <2>2, <2>3 DEF ChildWrite, TypeOK
<1>5. CASE ChildClose(c) \/ ChildExit(c)
  <2>1. child' \in [Calls -> Child]
    <3>1. child[c].state \in {"none", "running", "killed", "exited", "reaped"}
      BY DEF TypeOK, Child
    <3>2. CASE ChildClose(c)
      <4>1. child' = ChildWith(c, child[c].state, child[c].ends \ Ends(c))
        BY <3>2, ChildExcept DEF ChildClose
      <4> QED
        BY <3>1, <4>1, ChildStays
    <3>3. CASE ChildExit(c)
      <4>1. child' = ChildWith(c, "exited", {})
        BY <3>3, ChildExcept DEF ChildExit
      <4> QED
        BY <4>1, ChildStays
    <3> QED
      BY <1>5, <3>2, <3>3
  <2> QED
    BY <1>2, <1>5, <2>1 DEF ChildClose, ChildExit, TypeOK
<1> QED
  BY <1>1, <1>3, <1>4, <1>5 DEF ChildStep

(* The types hold at first and every step keeps them. *)
LEMMA TypeInvariance ==
    /\ Init => TypeOK
    /\ TypeOK /\ [Next]_vars => TypeOK'
<1>1. ASSUME Init PROVE TypeOK
  <2>1. NoChild \in Child
    BY DEF NoChild, Child, Dirs
  <2>2. unwritten \in [Calls -> Nat] /\ \A c \in Calls : unwritten[c] <= StdinLen[c]
    BY <1>1, SubprocessAssumption DEF Init
  <2>3. /\ produced \in [Calls -> [Streams -> Nat]]
        /\ \A c \in Calls, s \in Streams : produced[c][s] <= OutLen[c][s]
    BY <1>1, SubprocessAssumption DEF Init
  <2>4. fill \in [Calls -> [Pipes -> 0..PipeSize]]
    BY <1>1, SubprocessAssumption DEF Init
  <2> QED
    BY <1>1, <2>1, <2>2, <2>3, <2>4, SubprocessAssumption DEF Init, TypeOK, Dirs, Labels
<1>2. ASSUME TypeOK, [Next]_vars PROVE TypeOK'
  <2>1. CASE UNCHANGED vars
    BY <1>2, <2>1 DEF vars, calls, TypeOK
  <2> QED
    BY <1>2, <2>1, StartKeepsTypes, LoopKeepsTypes, ReadKeepsTypes, DrainEndKeepsTypes,
       ChildKeepsTypes DEF Next, Host, Works
<1> QED
  BY <1>1, <1>2

(* TypeOK: every variable holds a value of its kind. *)
THEOREM TypeCorrect == Spec => []TypeOK
BY TypeInvariance, PTL DEF Spec

-----------------------------------------------------------------------------
(* What a call knows of its own pipes and of its child, whatever others do. *)

Opened == {"prepare", "save", "chdir", "spawn", "restore", "closeEnds", "write"}
Spawned == {"closeEnds", "write", "poll", "drain", "close", "wait"}
ReadEnds(c) == {<<c, "out", "r">>, <<c, "err", "r">>}

(* No pipe before a call or after it, and a child that is waited for, unless *)
(* memory ran out.                                                           *)
Tidy(c) ==
    /\ pc[c] = "start" => fds \cap Ends(c) = {}
    /\ pc[c] = "write" => fds \cap Ends(c) \subseteq ReadEnds(c) \cup {<<c, "in", "w">>}
    /\ pc[c] \in {"poll", "drain", "close", "wait"} => fds \cap Ends(c) \subseteq ReadEnds(c)
    /\ pc[c] = "done" /\ error[c] # "memory" =>
           fds \cap Ends(c) = {} /\ child[c].state \in {"none", "reaped"}
    /\ pc[c] = "done" /\ child[c].state # "none" => fds \cap Ends(c) \subseteq ReadEnds(c)
    /\ pc[c] \in {"start", "prepare", "save", "chdir", "spawn"} => child[c].state = "none"
    /\ pc[c] \in Spawned => child[c].state \in {"running", "killed", "exited"}
    /\ pc[c] = "restore" => child[c].state # "reaped"

(* What the child wrote is captured, in the pipe, or marked as dropped. *)
Counted(c, s) ==
    error[c] # "memory" =>
        /\ captured[c][s] + fill[c][s] <= produced[c][s]
        /\ s \in truncated[c] <=> captured[c][s] + fill[c][s] < produced[c][s]

(* Nobody killed the child, and poll did not fail. *)
Normal(c) == ~ timed_out[c] /\ "poll" \notin mishaps[c]

(* The child does not write to the stream any more. *)
Silent(c, s) == <<c, s, "w">> \notin child[c].ends

(* Then a stream is closed when its writer is gone and nothing is left in it. *)
Emptied(c, s) ==
    /\ pc[c] \in {"poll", "drain", "close"} =>
           <<c, s, "r">> \in fds \/ (Silent(c, s) /\ fill[c][s] = 0)
    /\ pc[c] \in {"drain", "close"} /\ s \in hup[c] => Silent(c, s)
    /\ pc[c] = "close" /\ Current(c, s) /\ s \in hup[c] => fill[c][s] = 0
    /\ pc[c] = "wait" \/ ok[c] => Silent(c, s) /\ fill[c][s] = 0

Local(c) ==
    /\ Tidy(c)
    /\ ok[c] => pc[c] = "done" /\ error[c] = "none"
    /\ pc[c] # "done" => error[c] = "none"
    /\ \A s \in Streams :
         /\ pc[c] \in Opened => <<c, s, "r">> \in fds
         /\ Counted(c, s)
         /\ Normal(c) => Emptied(c, s)

(* A step that leaves a call's own things alone. *)
LEMMA OthersKeepLocal ==
    ASSUME NEW c \in Calls, Local(c),
           pc'[c] = pc[c], child'[c] = child[c], fill'[c] = fill[c],
           produced'[c] = produced[c], captured'[c] = captured[c],
           truncated'[c] = truncated[c], ok'[c] = ok[c], error'[c] = error[c],
           mishaps'[c] = mishaps[c], timed_out'[c] = timed_out[c],
           todo'[c] = todo[c], hup'[c] = hup[c],
           \A end \in Ends(c) : end \in fds' <=> end \in fds
    PROVE  Local(c)'
<1>1. fds' \cap Ends(c) = fds \cap Ends(c)
  OBVIOUS
<1>2. \A s \in Streams : <<c, s, "r">> \in Ends(c)
  BY DEF Ends, Pipes
<1>3. Tidy(c)'
  BY <1>1 DEF Local, Tidy
<1>4. ASSUME NEW s \in Streams
      PROVE  /\ (pc[c] \in Opened => <<c, s, "r">> \in fds)'
             /\ Counted(c, s)' /\ (Normal(c) => Emptied(c, s))'
  BY <1>2 DEF Local, Counted, Normal, Emptied, Silent, Current
<1> QED
  BY <1>3, <1>4 DEF Local

(* Steps touch the things of one call. *)
LEMMA StepsAreOfOneCall ==
    ASSUME TypeOK, NEW d \in Calls, Host(d) \/ ChildStep(d), NEW c \in Calls, c # d
    PROVE  /\ pc'[c] = pc[c] /\ child'[c] = child[c] /\ fill'[c] = fill[c]
           /\ produced'[c] = produced[c] /\ captured'[c] = captured[c]
           /\ truncated'[c] = truncated[c] /\ ok'[c] = ok[c]
           /\ error'[c] = error[c] /\ mishaps'[c] = mishaps[c]
           /\ timed_out'[c] = timed_out[c] /\ todo'[c] = todo[c] /\ hup'[c] = hup[c]
           /\ saved_cwd'[c] = saved_cwd[c]
           /\ \A end \in Ends(c) : end \in fds' <=> end \in fds
<1>1. \A end \in Ends(c) : end \notin Ends(d)
  BY EndsAreOwn
<1>2. \A p \in Pipes : <<d, p, "r">> \in Ends(d) /\ <<d, p, "w">> \in Ends(d)
  BY EndsAreOwn
<1>3. {"in", "out", "err"} = Pipes
  BY DEF Pipes, Streams
<1>4. CASE OpenPipes(d) \/ Prepare(d) \/ SaveCwd(d) \/ ChangeCwd(d) \/ Spawn(d) \/ RestoreCwd(d)
  <2>1. /\ UNCHANGED <<fill, produced, captured, truncated, ok, timed_out, todo, hup>>
        /\ child'[c] = child[c] /\ saved_cwd'[c] = saved_cwd[c]
    BY <1>4 DEF OpenPipes, Prepare, SaveCwd, ChangeCwd, Spawn, RestoreCwd, locals, world, TypeOK
  <2>2. pc'[c] = pc[c] /\ error'[c] = error[c] /\ mishaps'[c] = mishaps[c]
    BY <1>4 DEF OpenPipes, Prepare, SaveCwd, ChangeCwd, Spawn, RestoreCwd, PutBack, Fail, Throw,
                Return, Goes, Goto, TypeOK
  <2>3. \A end \in Ends(c) : end \in fds' <=> end \in fds
    BY <1>1, <1>4 DEF OpenPipes, Prepare, SaveCwd, ChangeCwd, Spawn, RestoreCwd, Fail, CloseAll
  <2> QED
    BY <2>1, <2>2, <2>3
<1>5. CASE CloseChildEnds(d)
  BY <1>1, <1>2, <1>3, <1>5 DEF CloseChildEnds, Goes, Goto, locals, world, TypeOK
<1>6. CASE WriteStdin(d)
  <2>1. fds' = fds \ {<<d, "in", "w">>} \/ fds' = fds
    BY <1>6 DEF WriteStdin
  <2>2. fds' = fds \ {<<d, "in", "w">>} => \A end \in Ends(c) : end \in fds' <=> end \in fds
    BY <1>1, <1>2, <1>3
  <2>3. fill'[c] = fill[c]
    BY <1>6 DEF WriteStdin, TypeOK
  <2>4. pc'[c] = pc[c] /\ UNCHANGED error
    BY <1>6 DEF WriteStdin, Goes, Goto, TypeOK
  <2> QED
    BY <1>6, <2>1, <2>2, <2>3, <2>4 DEF WriteStdin
<1>7. CASE Poll(d) \/ PollTimeout(d) \/ PollFails(d)
  <2>1. child'[c] = child[c]
    BY <1>7 DEF Poll, PollTimeout, PollFails, world, TypeOK
  <2> QED
    BY <1>7, <2>1 DEF Poll, PollTimeout, PollFails, Leave, Goes, Goto, world, TypeOK
<1>8. ASSUME NEW s \in Streams, Read(d, s)
      PROVE  /\ pc'[c] = pc[c] /\ error'[c] = error[c] /\ fill'[c] = fill[c]
             /\ captured'[c] = captured[c] /\ truncated'[c] = truncated[c]
  BY <1>8 DEF Read, Keep, Discard, Throw, Return, Goto, TypeOK
<1>9. ASSUME NEW s \in Streams, CloseStream(d, s)
      PROVE  /\ pc'[c] = pc[c] /\ todo'[c] = todo[c] /\ hup'[c] = hup[c]
             /\ \A end \in Ends(c) : end \in fds' <=> end \in fds
  <2>1. fds' = fds \/ fds' = fds \ {<<d, s, "r">>}
    BY <1>9 DEF CloseStream
  <2>2. <<d, s, "r">> \in Ends(d)
    BY <1>2 DEF Pipes
  <2>3. \A end \in Ends(c) : end \in fds' <=> end \in fds
    BY <1>1, <2>1, <2>2
  <2> QED
    BY <1>9, <2>3 DEF CloseStream, Goes, Goto, TypeOK
<1>10. CASE AppendThrows(d) \/ \E s \in Streams : EndOfData(d, s)
  BY <1>10 DEF AppendThrows, EndOfData, Throw, Return, Goes, Goto, locals, world, TypeOK
<1>11. CASE Wait(d)
  BY <1>1, <1>11 DEF Wait, CloseAll, Goes, Goto, TypeOK
<1>12. CASE ChildStep(d)
  BY <1>12 DEF ChildStep, ChildRead, ChildWrite, ChildClose, ChildExit, calls, TypeOK
<1>13. CASE \E s \in Streams : Read(d, s)
  BY <1>8, <1>13 DEF Read
<1>14. CASE \E s \in Streams : CloseStream(d, s)
  BY <1>9, <1>14 DEF CloseStream, Goes, world
<1> QED
  BY <1>4, <1>5, <1>6, <1>7, <1>10, <1>11, <1>12, <1>13, <1>14 DEF Host, Works

(* Opening the pipes, starting the child, closing its ends. *)
LEMMA StartKeepsLocal ==
    ASSUME TypeOK, NEW c \in Calls, Local(c),
           \/ OpenPipes(c) \/ Prepare(c) \/ SaveCwd(c) \/ ChangeCwd(c) \/ Spawn(c)
           \/ RestoreCwd(c) \/ CloseChildEnds(c)
    PROVE  Local(c)'
<1>1. UNCHANGED <<fill, produced, captured, truncated, ok>>
  BY DEF OpenPipes, Prepare, SaveCwd, ChangeCwd, Spawn, RestoreCwd, CloseChildEnds, locals, world
<1>2. ASSUME NEW label \in Labels, Goes(c, label)
      PROVE  pc'[c] = label /\ error'[c] = error[c]
  BY <1>2 DEF Goes, Goto, TypeOK
<1>3. ASSUME NEW message \in {"system", "memory"}, Return(c, message)
      PROVE  pc'[c] = "done" /\ error'[c] = message
  BY <1>3 DEF Return, Goto, TypeOK
<1>4. /\ pc[c] \in {"start", "prepare", "save", "chdir", "spawn", "restore", "closeEnds"}
      /\ error[c] = "none" /\ ~ ok[c]
  BY DEF OpenPipes, Prepare, SaveCwd, ChangeCwd, Spawn, RestoreCwd, CloseChildEnds, Local
<1>5. \A s \in Streams : Counted(c, s)'
  BY <1>1, <1>4 DEF Local, Counted
<1>6. /\ \A p \in Pipes : <<c, p, "r">> \in Ends(c)
      /\ \A s \in Streams : s \in Pipes /\ s # "in"
  BY EndsAreOwn DEF Pipes, Streams
<1> DEFINE Closed == pc'[c] = "done" /\ error'[c] = "system" /\ fds' = fds \ Ends(c)
           Thrown == pc'[c] = "done" /\ error'[c] = "memory"
<1>7. ASSUME Fail(c) PROVE Closed
  BY <1>3, <1>7 DEF Fail, CloseAll
<1>8. ASSUME Throw(c) PROVE Thrown
  BY <1>3, <1>8 DEF Throw
<1>9. CASE OpenPipes(c)
  <2>1. child[c].state = "none" /\ UNCHANGED child
    BY <1>9 DEF OpenPipes, Local, Tidy, world
  <2>2. \/ pc'[c] = "prepare" /\ error'[c] = "none" /\ fds' = fds \cup Ends(c)
        \/ Closed
        \/ Thrown
    BY <1>2, <1>4, <1>7, <1>8, <1>9 DEF OpenPipes, Labels
  <2>3. Tidy(c)'
    BY <2>1, <2>2 DEF Tidy, Spawned
  <2> QED
    BY <1>1, <1>4, <1>5, <1>6, <2>2, <2>3 DEF Local, Emptied, Opened
<1>10. CASE Prepare(c) \/ SaveCwd(c) \/ ChangeCwd(c)
  <2>1. child[c].state = "none" /\ UNCHANGED child
    BY <1>10 DEF Prepare, SaveCwd, ChangeCwd, Local, Tidy, world
  <2>2. \/ pc'[c] \in {"save", "chdir", "spawn"} /\ error'[c] = "none" /\ UNCHANGED fds
        \/ Closed
        \/ Thrown
    BY <1>2, <1>4, <1>7, <1>8, <1>10 DEF Prepare, SaveCwd, ChangeCwd, Labels
  <2>3. Tidy(c)'
    BY <2>1, <2>2 DEF Tidy, Spawned
  <2>4. pc[c] \in Opened
    BY <1>10 DEF Prepare, SaveCwd, ChangeCwd, Opened
  <2> QED
    BY <1>1, <1>4, <1>5, <2>2, <2>3, <2>4 DEF Local, Emptied, Opened
<1>11. CASE Spawn(c)
  <2>1. pc'[c] = "restore" /\ error'[c] = "none" /\ UNCHANGED fds
    BY <1>2, <1>4, <1>11 DEF Spawn, Labels
  <2>2. child'[c].state \in {"none", "running"}
    BY <1>11 DEF Spawn, Local, Tidy, TypeOK
  <2>3. Tidy(c)'
    BY <2>1, <2>2 DEF Tidy, Spawned
  <2>4. pc[c] \in Opened
    BY <1>11 DEF Spawn, Opened
  <2> QED
    BY <1>1, <1>4, <1>5, <2>1, <2>3, <2>4 DEF Local, Emptied, Opened
<1>12. CASE RestoreCwd(c)
  <2>1. UNCHANGED child /\ child[c].state \in {"none", "running", "killed", "exited"}
    BY <1>12 DEF RestoreCwd, world, Local, Tidy, TypeOK, Child
  <2>2. \/ pc'[c] = "closeEnds" /\ error'[c] = "none" /\ UNCHANGED fds /\ child[c].state # "none"
        \/ Closed /\ child[c].state = "none"
        \/ Thrown /\ child[c].state = "none"
    BY <1>2, <1>4, <1>7, <1>8, <1>12 DEF RestoreCwd, Labels
  <2>3. Tidy(c)'
    BY <2>1, <2>2 DEF Tidy, Spawned
  <2>4. pc[c] \in Opened
    BY <1>12 DEF RestoreCwd, Opened
  <2> QED
    BY <1>1, <1>4, <1>5, <2>2, <2>3, <2>4 DEF Local, Emptied, Opened
<1>13. CASE CloseChildEnds(c)
  <2>1. /\ pc'[c] = "write" /\ error'[c] = "none" /\ UNCHANGED child
        /\ pc[c] = "closeEnds"
        /\ fds' = fds \ {<<c, "in", "r">>, <<c, "out", "w">>, <<c, "err", "w">>}
    BY <1>2, <1>4, <1>13 DEF CloseChildEnds, world, Labels
  <2>2. fds' \cap Ends(c) \subseteq ReadEnds(c) \cup {<<c, "in", "w">>}
    BY <2>1 DEF Ends, ReadEnds, Pipes, Streams
  <2>3. Tidy(c)'
    BY <2>1, <2>2 DEF Tidy, Spawned, Local
  <2>4. \A s \in Streams : <<c, s, "r">> \in fds'
    BY <1>6, <2>1 DEF Local, Opened
  <2> QED
    BY <1>1, <1>4, <1>5, <2>1, <2>3, <2>4 DEF Local, Emptied, Opened
<1> QED
  BY <1>9, <1>10, <1>11, <1>12, <1>13

(* The write of stdin, which touches no output stream. *)
LEMMA WriteKeepsLocal ==
    ASSUME TypeOK, NEW c \in Calls, Local(c), WriteStdin(c)
    PROVE  Local(c)'
<1>1. /\ UNCHANGED <<produced, captured, truncated, ok, error, mishaps, timed_out, child>>
      /\ pc[c] = "write" /\ ~ ok[c] /\ error[c] = "none"
  BY DEF WriteStdin, Goes, Local
<1>2. \A s \in Streams : fill'[c][s] = fill[c][s]
  <2>1. \A s \in Streams : s # "in" /\ s \in Pipes
    BY DEF Streams, Pipes
  <2> QED
    BY <2>1 DEF WriteStdin, TypeOK
<1>3. \/ pc'[c] = "poll" /\ fds' = fds \ {<<c, "in", "w">>}
      \/ pc'[c] = "write" /\ fds' = fds
  BY DEF WriteStdin, Goes, Goto, TypeOK
<1>4. \A s \in Streams : <<c, s, "r">> \in fds'
  BY <1>1, <1>3 DEF Local, Opened
<1>5. Tidy(c)'
  BY <1>1, <1>3 DEF Tidy, Local, Spawned
<1> QED
  BY <1>1, <1>2, <1>3, <1>4, <1>5 DEF Local, Counted, Emptied

(* A stream that hung up has no writer left. *)
LEMMA PollKeepsLocal ==
    ASSUME TypeOK, NEW c \in Calls, Local(c), Poll(c) \/ PollTimeout(c) \/ PollFails(c)
    PROVE  Local(c)'
<1>1. /\ UNCHANGED <<fds, fill, produced, captured, truncated, ok, error>>
      /\ pc[c] = "poll" /\ pc'[c] = "drain" /\ ~ ok[c] /\ error[c] = "none"
  BY DEF Poll, PollTimeout, PollFails, Leave, Goes, Goto, world, Local, TypeOK
<1>2. child'[c].state \in {"running", "killed", "exited"}
  <2>1. child[c].state \in {"running", "killed", "exited"}
    BY <1>1 DEF Local, Tidy, Spawned
  <2>2. UNCHANGED child \/ child' = [child EXCEPT ![c].state = "killed"]
    BY DEF Poll, PollTimeout, PollFails, world
  <2>3. CASE child' = [child EXCEPT ![c].state = "killed"]
    BY <2>3, ChildGets
  <2> QED
    BY <2>1, <2>2, <2>3
<1>3. Tidy(c)'
  BY <1>1, <1>2 DEF Tidy, Spawned, Local
<1>4. \A s \in Streams : Counted(c, s)'
  BY <1>1 DEF Counted, Local
<1>5. CASE Poll(c)
  <2>1. UNCHANGED <<child, mishaps, timed_out>> /\ hup'[c] = HungUp(c)
    BY <1>5 DEF Poll, world, TypeOK
  <2>2. \A s \in hup'[c] : Silent(c, s)
    BY <2>1 DEF HungUp, Open, Silent
  <2>3. ASSUME NEW s \in Streams, Normal(c)
        PROVE  Emptied(c, s)'
    BY <1>1, <2>1, <2>2, <2>3 DEF Local, Emptied, Silent
  <2> QED
    BY <1>1, <1>3, <1>4, <2>1, <2>3 DEF Local, Normal, Opened
<1>6. CASE PollTimeout(c) \/ PollFails(c)
  <2>1. ~ Normal(c)'
    BY <1>6 DEF PollTimeout, PollFails, Normal, TypeOK
  <2> QED
    BY <1>1, <1>3, <1>4, <2>1 DEF Local, Opened
<1> QED
  BY <1>5, <1>6

(* A unit read is kept or marked as dropped. *)
LEMMA ReadKeepsLocal ==
    ASSUME TypeOK, NEW c \in Calls, NEW t \in Streams, Local(c), Read(c, t)
    PROVE  Local(c)'
<1>1. /\ pc[c] = "drain" /\ ~ ok[c] /\ error[c] = "none" /\ fill[c][t] > 0
      /\ UNCHANGED <<fds, child, produced, ok, mishaps, timed_out, todo, hup>>
  BY DEF Read, Local
<1>2. \A s \in Streams : /\ fill[c][s] \in Nat /\ captured[c][s] \in Nat
                         /\ produced[c][s] \in Nat /\ s \in Pipes
  BY SubprocessAssumption DEF TypeOK, Pipes
<1>3. /\ fill'[c][t] = fill[c][t] - 1
      /\ \A s \in Streams : s # t => fill'[c][s] = fill[c][s]
  BY <1>2 DEF Read, TypeOK
<1>4. CASE Fits(c) /\ Throw(c) /\ UNCHANGED <<got, captured, truncated>>
  <2>1. pc'[c] = "done" /\ error'[c] = "memory"
    BY <1>4 DEF Throw, Return, Goto, TypeOK
  <2>2. Tidy(c)'
    BY <1>1, <2>1 DEF Tidy, Local, Spawned
  <2> QED
    BY <1>1, <2>1, <2>2 DEF Local, Counted, Emptied, Opened
<1>5. CASE UNCHANGED <<pc, error>> /\ (Keep(c, t) \/ Discard(c, t))
  <2>1. Tidy(c)'
    BY <1>1, <1>5 DEF Tidy, Local
  <2>2. ASSUME NEW s \in Streams
        PROVE  Counted(c, s)'
    <3>1. CASE Keep(c, t)
      <4>1. /\ captured'[c][t] = captured[c][t] + 1
            /\ \A u \in Streams : u # t => captured'[c][u] = captured[c][u]
            /\ UNCHANGED truncated
        BY <3>1 DEF Keep, TypeOK
      <4>2. captured'[c][s] + fill'[c][s] = captured[c][s] + fill[c][s]
        BY <1>2, <1>3, <4>1
      <4> QED
        BY <1>1, <1>5, <4>1, <4>2 DEF Counted, Local
    <3>2. CASE Discard(c, t)
      <4>1. UNCHANGED captured /\ truncated'[c] = truncated[c] \cup {t}
        BY <3>2 DEF Discard, TypeOK
      <4>2. CASE s = t
        <5>1. captured[c][t] + fill[c][t] <= produced[c][t]
          BY <1>1 DEF Counted, Local
        <5>2. captured[c][t] + fill'[c][t] < produced[c][t]
          BY <1>2, <1>3, <5>1
        <5> QED
          BY <1>1, <1>2, <1>3, <4>1, <4>2, <5>2 DEF Counted
      <4>3. CASE s # t
        BY <1>1, <1>3, <1>5, <4>1, <4>3 DEF Counted, Local
      <4> QED
        BY <4>2, <4>3
    <3> QED
      BY <1>5, <3>1, <3>2
  <2>3. ASSUME NEW s \in Streams, Normal(c)
        PROVE  Emptied(c, s)'
    BY <1>1, <1>2, <1>3, <1>5, <2>3 DEF Emptied, Local, Silent
  <2> QED
    BY <1>1, <1>5, <2>1, <2>2, <2>3 DEF Local, Normal, Opened
<1> QED
  BY <1>4, <1>5 DEF Read

(* The end of a drain, and the close of a stream that hung up. *)
LEMMA DrainEndKeepsLocal ==
    ASSUME TypeOK, NEW c \in Calls, Local(c),
           AppendThrows(c) \/ \E t \in Streams : EndOfData(c, t) \/ CloseStream(c, t)
    PROVE  Local(c)'
<1>1. CASE AppendThrows(c)
  <2>1. /\ pc[c] = "close" /\ pc'[c] = "done" /\ error'[c] = "memory"
        /\ UNCHANGED <<fds, child, ok>> /\ ~ ok[c]
    BY <1>1 DEF AppendThrows, Throw, Return, Goto, locals, world, TypeOK, Local
  <2>2. Tidy(c)'
    BY <2>1 DEF Tidy, Local, Spawned
  <2> QED
    BY <2>1, <2>2 DEF Local, Counted, Emptied, Opened
<1>2. ASSUME NEW t \in Streams, EndOfData(c, t)
      PROVE  Local(c)'
  <2>1. /\ pc[c] = "drain" /\ pc'[c] = "close" /\ fill[c][t] = 0 /\ Current(c, t)
        /\ UNCHANGED <<fds, child, fill, produced, captured, truncated, ok, error, mishaps>>
        /\ UNCHANGED <<timed_out, todo, hup>>
        /\ ~ ok[c]
    BY <1>2 DEF EndOfData, Goes, Goto, locals, world, TypeOK, Local
  <2>2. \A s \in Streams : Current(c, s) => s = t
    BY <2>1 DEF Current, Streams
  <2>3. Tidy(c)'
    BY <2>1 DEF Tidy, Local, Spawned
  <2>4. ASSUME NEW s \in Streams, Normal(c)
        PROVE  Emptied(c, s)'
    BY <2>1, <2>2, <2>4 DEF Emptied, Local, Silent, Current
  <2> QED
    BY <2>1, <2>3, <2>4 DEF Local, Counted, Normal, Opened
<1>3. ASSUME NEW t \in Streams, CloseStream(c, t)
      PROVE  Local(c)'
  <2>1. /\ pc[c] = "close" /\ Current(c, t) /\ ~ ok[c]
        /\ fds' = IF t \in hup[c] THEN fds \ {<<c, t, "r">>} ELSE fds
        /\ hup'[c] = hup[c] \ {t}
        /\ UNCHANGED <<child, fill, produced, captured, truncated, ok, error, mishaps>>
        /\ UNCHANGED timed_out
    BY <1>3 DEF CloseStream, Goes, world, TypeOK, Local
  <2>2. \/ pc'[c] \in {"poll", "drain"}
        \/ pc'[c] = "wait" /\ \A s \in Streams : <<c, s, "r">> \notin fds'
    BY <1>3 DEF CloseStream, Goes, Goto, TypeOK
  <2>3. Tidy(c)'
    BY <2>1, <2>2 DEF Tidy, Local, Spawned
  <2>4. ASSUME NEW s \in Streams, Normal(c)
        PROVE  Emptied(c, s)'
    <3>1. <<c, s, "r">> \in fds' \/ (Silent(c, s) /\ fill[c][s] = 0)
      <4>1. CASE s = t /\ t \in hup[c]
        BY <2>1, <2>4, <4>1 DEF Local, Emptied
      <4>2. CASE s # t \/ t \notin hup[c]
        BY <2>1, <2>4, <4>2, EndsAreOwn DEF Local, Emptied
      <4> QED
        BY <4>1, <4>2
    <3>2. s \in hup'[c] => Silent(c, s)
      BY <2>1, <2>4 DEF Local, Emptied
    <3> QED
      BY <2>1, <2>2, <3>1, <3>2 DEF Emptied, Silent
  <2> QED
    BY <2>1, <2>2, <2>3, <2>4 DEF Local, Counted, Normal, Opened
<1> QED
  BY <1>1, <1>2, <1>3

(* The child is reaped when its streams have been closed. *)
LEMMA WaitKeepsLocal ==
    ASSUME TypeOK, NEW c \in Calls, Local(c), Wait(c)
    PROVE  Local(c)'
<1>1. /\ pc[c] = "wait" /\ pc'[c] = "done" /\ fds' = fds \ Ends(c)
      /\ error'[c] = error[c] /\ error[c] = "none"
      /\ UNCHANGED <<fill, produced, captured, truncated, mishaps, timed_out>>
  BY DEF Wait, CloseAll, Goes, Goto, TypeOK, Local
<1>2. child'[c].state = "reaped" /\ child'[c].ends = child[c].ends
  BY ChildGets DEF Wait
<1>3. Tidy(c)'
  BY <1>1, <1>2 DEF Tidy, Spawned
<1>4. \A s \in Streams : Counted(c, s)' /\ (Normal(c) => Emptied(c, s)')
  BY <1>1, <1>2 DEF Counted, Emptied, Silent, Local
<1> QED
  BY <1>1, <1>3, <1>4 DEF Local, Normal, Opened

(* A child writes only to what it holds. *)
LEMMA ChildKeepsLocal ==
    ASSUME TypeOK, NEW c \in Calls, Local(c), ChildStep(c)
    PROVE  Local(c)'
<1>1. UNCHANGED <<fds, pc, captured, truncated, ok, error, mishaps, timed_out, todo, hup>>
  BY DEF ChildStep, ChildRead, ChildWrite, ChildClose, ChildExit, calls
<1>2. \A s \in Streams : /\ fill[c][s] \in Nat /\ captured[c][s] \in Nat
                         /\ produced[c][s] \in Nat /\ s \in Pipes /\ s # "in"
  BY SubprocessAssumption DEF TypeOK, Pipes, Streams
<1>3. CASE ChildRead(c)
  <2>1. UNCHANGED <<child, produced>> /\ \A s \in Streams : fill'[c][s] = fill[c][s]
    BY <1>2, <1>3 DEF ChildRead, TypeOK
  <2> QED
    BY <1>1, <2>1 DEF Local, Tidy, Counted, Normal, Emptied, Silent, Current
<1>4. ASSUME NEW t \in Streams, ChildWrite(c, t)
      PROVE  Local(c)'
  <2>1. UNCHANGED child /\ ~ Silent(c, t)
    BY <1>4 DEF ChildWrite, Silent
  <2>2. /\ fill'[c][t] = fill[c][t] + 1 /\ produced'[c][t] = produced[c][t] + 1
        /\ \A s \in Streams : s # t => fill'[c][s] = fill[c][s]
                                       /\ produced'[c][s] = produced[c][s]
    BY <1>2, <1>4 DEF ChildWrite, TypeOK
  <2>3. Tidy(c)'
    BY <1>1, <2>1 DEF Local, Tidy
  <2>4. ASSUME NEW s \in Streams
        PROVE  Counted(c, s)' /\ (Normal(c) => Emptied(c, s)')
    <3>1. CASE s = t
      <4>1. Counted(c, t)'
        <5>1. Counted(c, t)
          BY DEF Local
        <5>2. /\ captured[c][t] + (fill[c][t] + 1) <= produced[c][t] + 1
                  <=> captured[c][t] + fill[c][t] <= produced[c][t]
              /\ captured[c][t] + (fill[c][t] + 1) < produced[c][t] + 1
                  <=> captured[c][t] + fill[c][t] < produced[c][t]
          BY <1>2
        <5> QED
          BY <1>1, <2>2, <5>1, <5>2 DEF Counted
      <4>2. Normal(c) => Emptied(c, t)'
        BY <1>1, <2>1 DEF Local, Emptied, Silent
      <4> QED
        BY <3>1, <4>1, <4>2
    <3>2. CASE s # t
      BY <1>1, <2>1, <2>2, <3>2 DEF Local, Counted, Emptied, Silent, Current
    <3> QED
      BY <3>1, <3>2
  <2> QED
    BY <1>1, <2>3, <2>4 DEF Local, Normal
<1>5. ASSUME UNCHANGED <<fill, produced>>, child'[c].ends \subseteq child[c].ends, Tidy(c)'
      PROVE  Local(c)'
  BY <1>1, <1>5 DEF Local, Counted, Normal, Emptied, Silent, Current
<1>6. CASE ChildClose(c)
  <2>1. /\ UNCHANGED <<fill, produced>> /\ child'[c].state = child[c].state
        /\ child'[c].ends \subseteq child[c].ends
    BY <1>6, ChildGets DEF ChildClose
  <2>2. Tidy(c)'
    BY <1>1, <2>1 DEF Local, Tidy
  <2> QED
    BY <1>5, <2>1, <2>2
<1>7. CASE ChildExit(c)
  <2>1. /\ UNCHANGED <<fill, produced>> /\ child[c].state \in {"running", "killed"}
        /\ child'[c].state = "exited" /\ child'[c].ends = {}
    BY <1>7, ChildGets DEF ChildExit
  <2>2. Tidy(c)'
    BY <1>1, <2>1 DEF Local, Tidy
  <2> QED
    BY <1>5, <2>1, <2>2
<1> QED
  BY <1>3, <1>4, <1>6, <1>7 DEF ChildStep

(* Every call keeps its own things in order, in every step of any call. *)
LEMMA LocalInvariance ==
    /\ Init => \A c \in Calls : Local(c)
    /\ TypeOK /\ (\A c \in Calls : Local(c)) /\ [Next]_vars => \A c \in Calls : Local(c)'
<1>1. ASSUME Init, NEW c \in Calls
      PROVE  Local(c)
  BY <1>1 DEF Init, NoChild, Local, Tidy, Counted, Emptied, Spawned, Opened, Pipes
<1>2. ASSUME TypeOK, \A c \in Calls : Local(c), [Next]_vars, NEW c \in Calls
      PROVE  Local(c)'
  <2>1. CASE UNCHANGED vars
    BY <1>2, <2>1 DEF vars, calls, Local, Tidy, Counted, Normal, Emptied, Silent, Current
  <2>2. ASSUME NEW d \in Calls, d # c, Host(d) \/ ChildStep(d)
        PROVE  Local(c)'
    BY <1>2, <2>2, StepsAreOfOneCall, OthersKeepLocal
  <2>3. ASSUME Host(c) \/ ChildStep(c)
        PROVE  Local(c)'
    BY <1>2, <2>3, StartKeepsLocal, WriteKeepsLocal, PollKeepsLocal, ReadKeepsLocal,
       DrainEndKeepsLocal, WaitKeepsLocal, ChildKeepsLocal DEF Host, Works
  <2> QED
    BY <1>2, <2>1, <2>2, <2>3 DEF Next
<1> QED
  BY <1>1, <1>2

(***************************************************************************)
(* NothingLeftBehind: whatever system call fails and whatever other calls  *)
(* do, a call that has returned has closed its pipes and reaped its child; *)
(* one that ran out of memory after the spawn still closed all but the     *)
(* ends it reads.                                                          *)
(***************************************************************************)
THEOREM CallsTidyUp == Spec => []NothingLeftBehind
<1> DEFINE AllLocal == \A c \in Calls : Local(c)
<1>1. Init => TypeOK /\ AllLocal
  BY TypeInvariance, LocalInvariance
<1>2. TypeOK /\ AllLocal /\ [Next]_vars => (TypeOK /\ AllLocal)'
  BY TypeInvariance, LocalInvariance
<1>3. AllLocal => NothingLeftBehind
  BY DEF Local, Tidy, ReadEnds, NothingLeftBehind
<1> HIDE DEF AllLocal
<1> QED
  BY <1>1, <1>2, <1>3, PTL DEF Spec

(***************************************************************************)
(* OutputIsComplete: in a call that returned ok a flag means that          *)
(* something was dropped, and unless the child was killed or poll failed   *)
(* the call has all its child wrote, or the flag.                          *)
(***************************************************************************)
THEOREM NothingUnread == Spec => []OutputIsComplete
<1> DEFINE AllLocal == \A c \in Calls : Local(c)
<1>1. Init => TypeOK /\ AllLocal
  BY TypeInvariance, LocalInvariance
<1>2. TypeOK /\ AllLocal /\ [Next]_vars => (TypeOK /\ AllLocal)'
  BY TypeInvariance, LocalInvariance
<1>3. TypeOK /\ AllLocal => OutputIsComplete
  <2> SUFFICES ASSUME TypeOK, AllLocal, NEW c \in Calls, NEW s \in Streams, ok[c]
               PROVE  /\ s \in truncated[c] => captured[c][s] < produced[c][s]
                      /\ Normal(c) => (captured[c][s] < produced[c][s] => s \in truncated[c])
    BY DEF OutputIsComplete, Normal
  <2>1. /\ fill[c][s] \in Nat /\ captured[c][s] \in Nat /\ produced[c][s] \in Nat
        /\ error[c] = "none"
    BY SubprocessAssumption DEF TypeOK, Pipes, Local
  <2>2. s \in truncated[c] <=> captured[c][s] + fill[c][s] < produced[c][s]
    BY <2>1 DEF Local, Counted
  <2>3. Normal(c) => fill[c][s] = 0
    BY DEF Local, Emptied
  <2> QED
    BY <2>1, <2>2, <2>3
<1> HIDE DEF AllLocal
<1> QED
  BY <1>1, <1>2, <1>3, PTL DEF Spec

-----------------------------------------------------------------------------
(* The working directory, as long as no two changes of it overlap. *)

NoOverlap == \A c \in Calls : "overlap" \notin mishaps[c]

(* Where the host may be while nobody is away. *)
Resting == {Home} \cup {WorkDir[c] : c \in Strayed}

(* The call is between its save and its restore. *)
Moves(c) == pc[c] \in {"chdir", "spawn", "restore"} /\ WorkDir[c] # Home

(* What was saved, and when: {} but after a save. *)
Saved ==
    \A c \in Calls :
        /\ pc[c] \in {"save", "chdir"} => WorkDir[c] # Home
        /\ WorkDir[c] = Home \/ pc[c] \in {"start", "prepare", "save"} => saved_cwd[c] = {}

(* One call moves at a time; it is in its directory and knows the way back. *)
InTurn ==
    /\ SafeAcrossStages
    /\ \A c, d \in Calls : Moves(c) /\ Moves(d) => c = d
    /\ \A c \in Calls : Moves(c) => saved_cwd[c] \subseteq Resting
    /\ \A c \in Calls : Away(c) => cwd = WorkDir[c]

Directories == Saved /\ (NoOverlap => InTurn)

(* What the steps of a call do to the directory and to its way there. *)
LEMMA DirectorySteps ==
    ASSUME TypeOK, NEW d \in Calls, Local(d), Host(d) \/ ChildStep(d)
    PROVE  /\ mishaps[d] \subseteq mishaps'[d]
           /\ \/ /\ pc[d] = "start" /\ UNCHANGED <<cwd, saved_cwd, child>>
                 /\ pc'[d] \in {"prepare", "done"}
              \/ /\ pc[d] = "prepare" /\ UNCHANGED <<cwd, saved_cwd, child>>
                 /\ \/ pc'[d] = "spawn" /\ WorkDir[d] = Home
                    \/ pc'[d] = "save" /\ WorkDir[d] # Home
                    \/ pc'[d] = "done"
              \/ /\ pc[d] = "save" /\ UNCHANGED <<cwd, child>>
                 /\ saved_cwd'[d] \in {{cwd}, saved_cwd[d]} /\ pc'[d] \in {"chdir", "done"}
                 /\ OtherMoves(d) => "overlap" \in mishaps'[d]
              \/ /\ pc[d] = "chdir" /\ UNCHANGED <<saved_cwd, child>>
                 /\ \/ cwd' = WorkDir[d] /\ pc'[d] = "spawn"
                    \/ UNCHANGED cwd /\ pc'[d] = "done"
              \/ /\ pc[d] = "spawn" /\ UNCHANGED <<cwd, saved_cwd>>
                 /\ pc'[d] = "restore"
                 /\ UNCHANGED child \/ child'[d].dir = cwd
              \/ /\ pc[d] = "restore" /\ UNCHANGED <<saved_cwd, child>>
                 /\ \/ cwd' \in saved_cwd[d]
                    \/ UNCHANGED cwd /\ (WorkDir[d] = Home \/ "stray" \in mishaps'[d])
                 /\ pc'[d] \in {"done", "closeEnds"}
              \/ /\ UNCHANGED <<cwd, saved_cwd>>
                 /\ \/ pc'[d] = pc[d]
                    \/ {pc[d], pc'[d]} \cap {"start", "prepare", "save", "chdir", "spawn",
                                             "restore"} = {}
                 /\ child'[d].dir = child[d].dir
                 /\ child'[d].state # "none" => child[d].state # "none"
<1>1. ASSUME NEW label \in Labels, Goes(d, label)
      PROVE  pc'[d] = label
  BY <1>1 DEF Goes, Goto, TypeOK
<1>2. ASSUME NEW message, Return(d, message)
      PROVE  pc'[d] = "done"
  BY <1>2 DEF Return, Goto, TypeOK
<1>3. CASE OpenPipes(d)
  BY <1>1, <1>2, <1>3 DEF OpenPipes, Fail, Throw, world, Labels
<1>4. CASE Prepare(d)
  BY <1>1, <1>2, <1>4 DEF Prepare, Throw, world, Labels
<1>5. CASE SaveCwd(d)
  <2>1. pc'[d] \in {"chdir", "done"}
    BY <1>1, <1>2, <1>5 DEF SaveCwd, Throw, Labels
  <2>2. saved_cwd'[d] \in {{cwd}, saved_cwd[d]}
    BY <1>5 DEF SaveCwd, TypeOK
  <2>3. mishaps[d] \subseteq mishaps'[d] /\ (OtherMoves(d) => "overlap" \in mishaps'[d])
    BY <1>5 DEF SaveCwd, TypeOK
  <2> QED
    BY <1>5, <2>1, <2>2, <2>3 DEF SaveCwd, world
<1>6. CASE ChangeCwd(d)
  BY <1>1, <1>2, <1>6 DEF ChangeCwd, Fail, Throw, world, Labels
<1>7. CASE Spawn(d)
  BY <1>1, <1>7 DEF Spawn, Labels, TypeOK
<1>8. CASE RestoreCwd(d)
  <2>1. pc'[d] \in {"done", "closeEnds"}
    BY <1>1, <1>2, <1>8 DEF RestoreCwd, Fail, Throw, Labels
  <2>2. /\ mishaps[d] \subseteq mishaps'[d]
        /\ \/ cwd' \in saved_cwd[d]
           \/ UNCHANGED cwd /\ (WorkDir[d] = Home \/ "stray" \in mishaps'[d])
    BY <1>8 DEF RestoreCwd, PutBack, TypeOK
  <2> QED
    BY <1>8, <2>1, <2>2 DEF RestoreCwd, world
<1>9. CASE CloseChildEnds(d)
  BY <1>1, <1>9 DEF CloseChildEnds, world, Labels
<1>10. CASE WriteStdin(d)
  BY <1>1, <1>10 DEF WriteStdin, Labels
<1>11. CASE Poll(d)
  BY <1>1, <1>11 DEF Poll, world, Labels
<1>12. CASE PollTimeout(d) \/ PollFails(d)
  <2>1. pc[d] = "poll" /\ pc'[d] = "drain" /\ UNCHANGED <<cwd, saved_cwd>>
    BY <1>1, <1>12 DEF PollTimeout, PollFails, Leave, Labels
  <2>2. mishaps[d] \subseteq mishaps'[d]
    BY <1>12 DEF PollTimeout, PollFails, TypeOK
  <2>3. child'[d].dir = child[d].dir /\ child[d].state # "none"
    BY <1>12, <2>1, ChildGets DEF PollTimeout, PollFails, Local, Tidy, Spawned
  <2> QED
    BY <2>1, <2>2, <2>3
<1>13. CASE AppendThrows(d) \/ \E s \in Streams : Read(d, s) \/ EndOfData(d, s) \/ CloseStream(d, s)
  <2>1. pc[d] \in {"drain", "close"} /\ UNCHANGED <<cwd, saved_cwd, child, mishaps>>
    BY <1>13 DEF AppendThrows, Read, EndOfData, CloseStream, world
  <2>2. pc'[d] \in {"drain", "close", "poll", "wait", "done"}
    BY <1>1, <1>2, <1>13, <2>1 DEF AppendThrows, Read, EndOfData, CloseStream, Throw, Labels
  <2> QED
    BY <2>1, <2>2
<1>14. CASE Wait(d)
  <2>1. pc[d] = "wait" /\ pc'[d] = "done" /\ UNCHANGED <<cwd, saved_cwd, mishaps>>
    BY <1>1, <1>14 DEF Wait, Labels
  <2>2. child'[d].dir = child[d].dir /\ child[d].state # "none"
    BY <1>14, ChildGets DEF Wait
  <2> QED
    BY <2>1, <2>2
<1>15. CASE ChildRead(d)
  BY <1>15 DEF ChildRead, calls
<1>16. CASE \E s \in Streams : ChildWrite(d, s)
  BY <1>16 DEF ChildWrite, calls
<1>17. CASE ChildClose(d)
  BY <1>17, ChildGets DEF ChildClose, calls
<1>18. CASE ChildExit(d)
  BY <1>18, ChildGets DEF ChildExit, calls
<1> QED
  BY <1>3, <1>4, <1>5, <1>6, <1>7, <1>8, <1>9, <1>10, <1>11, <1>12, <1>13, <1>14, <1>15,
     <1>16, <1>17, <1>18 DEF Host, Works, ChildStep

(* A step of any call keeps all this. *)
LEMMA DirectoriesKept ==
    ASSUME TypeOK, Directories, NEW d \in Calls, Local(d), Host(d) \/ ChildStep(d)
    PROVE  Directories'
<1>1. \A c \in Calls : c # d => /\ pc'[c] = pc[c] /\ saved_cwd'[c] = saved_cwd[c]
                                /\ child'[c] = child[c] /\ mishaps'[c] = mishaps[c]
  BY StepsAreOfOneCall
<1>2. mishaps[d] \subseteq mishaps'[d]
  BY DirectorySteps
<1>3. \A c \in Calls : mishaps[c] \subseteq mishaps'[c]
  BY <1>1, <1>2
<1>4. /\ NoOverlap' => NoOverlap
      /\ Resting \subseteq Resting'
  BY <1>3 DEF NoOverlap, Resting, Strayed
<1>5. Saved'
  BY <1>1, DirectorySteps DEF Directories, Saved
<1>6. \A c \in Calls : c # d => (Moves(c)' <=> Moves(c)) /\ (Away(c)' <=> Away(c))
  BY <1>1 DEF Moves, Away
<1>7. \A c \in Calls : Away(c) => Moves(c)
  BY DEF Moves, Away
<1>8. ASSUME NoOverlap' PROVE InTurn'
  <2>1. InTurn /\ Saved
    BY <1>4, <1>8 DEF Directories
  (* Only a call that moves changes the directory, and only one moves. *)
  <2>2. \A c \in Calls : Moves(c)' => \/ Moves(c)
                                     \/ (c = d /\ pc[d] = "save" /\ pc'[d] = "chdir")
    BY <1>6, <2>1, DirectorySteps DEF Moves, Saved
  <2>3. pc[d] = "save" /\ pc'[d] # "save" => \A c \in Calls : c # d => ~ Moves(c)
    <3>1. pc[d] = "save" /\ pc'[d] # "save" => (OtherMoves(d) => "overlap" \in mishaps'[d])
      BY DirectorySteps
    <3> QED
      BY <1>8, <3>1 DEF OtherMoves, Moves, NoOverlap
  <2>4. \A c, e \in Calls : Moves(c)' /\ Moves(e)' => c = e
    BY <1>6, <2>1, <2>2, <2>3 DEF InTurn
  <2>5. (\A c \in Calls : ~ Away(c)) => cwd \in Resting
    BY <2>1 DEF InTurn, SafeAcrossStages, Resting
  <2>6. \/ UNCHANGED cwd
        \/ Moves(d) /\ pc[d] \in {"chdir", "restore"}
    BY <2>1, DirectorySteps DEF Moves, Saved
  <2>7. ASSUME NEW c \in Calls, Away(c)'
        PROVE  cwd' = WorkDir[c]
    <3>1. CASE c # d
      <4>1. Away(c) /\ Moves(c) /\ ~ Moves(d)
        BY <1>6, <1>7, <2>1, <2>7, <3>1 DEF InTurn
      <4> QED
        BY <2>1, <2>6, <4>1 DEF InTurn
    <3>2. CASE c = d
      <4>1. \/ pc[d] = "chdir" /\ cwd' = WorkDir[d]
            \/ Away(d) /\ UNCHANGED cwd
        BY <2>7, <3>2, DirectorySteps DEF Away
      <4> QED
        BY <2>1, <3>2, <4>1 DEF InTurn
    <3> QED
      BY <3>1, <3>2
  <2>8. ASSUME NEW c \in Calls, Moves(c)'
        PROVE  saved_cwd'[c] \subseteq Resting'
    <3>1. CASE c = d /\ pc[d] = "save" /\ pc'[d] = "chdir"
      <4>1. \A e \in Calls : ~ Away(e)
        <5>1. ~ Away(d)
          BY <3>1 DEF Away
        <5> QED
          BY <1>7, <2>3, <3>1, <5>1
      <4>2. saved_cwd'[d] \in {{cwd}, saved_cwd[d]} /\ saved_cwd[d] = {}
        BY <2>1, <3>1, DirectorySteps DEF Saved
      <4> QED
        BY <1>4, <2>5, <3>1, <4>1, <4>2
    <3>2. CASE Moves(c)
      <4>1. saved_cwd'[c] = saved_cwd[c]
        BY <1>1, <3>2, DirectorySteps DEF Moves
      <4> QED
        BY <1>4, <2>1, <3>2, <4>1 DEF InTurn
    <3> QED
      BY <2>2, <2>8, <3>1, <3>2
  <2>9. ASSUME \A c \in Calls : ~ Away(c)'
        PROVE  cwd' \in Resting'
    <3>1. CASE \A c \in Calls : ~ Away(c)
      <4>1. UNCHANGED cwd
        BY <2>9, <3>1, <2>6, DirectorySteps DEF Moves, Away
      <4> QED
        BY <1>4, <2>5, <3>1, <4>1
    <3>2. CASE Away(d)
      <4>1. pc[d] = "restore" /\ pc'[d] # "restore" /\ WorkDir[d] # Home
        BY <2>9, <3>2, DirectorySteps DEF Away
      <4>2. cwd' \in saved_cwd[d] \/ (UNCHANGED cwd /\ "stray" \in mishaps'[d])
        BY <4>1, DirectorySteps
      <4>3. saved_cwd[d] \subseteq Resting /\ cwd = WorkDir[d]
        BY <1>7, <2>1, <3>2 DEF InTurn
      <4>4. "stray" \in mishaps'[d] => WorkDir[d] \in Resting'
        BY DEF Resting, Strayed
      <4> QED
        BY <1>4, <4>2, <4>3, <4>4
    <3>3. ASSUME NEW c \in Calls, c # d, Away(c)
          PROVE  FALSE
      BY <1>6, <2>9, <3>3
    <3> QED
      BY <3>1, <3>2, <3>3
  <2>10. ASSUME NEW c \in Calls, child'[c].state # "none", WorkDir[c] # Home
         PROVE  child'[c].dir = WorkDir[c]
    <3>1. child[c].state # "none" => child[c].dir = WorkDir[c]
      BY <2>1, <2>10 DEF InTurn, SafeAcrossStages
    <3>2. CASE c # d
      BY <1>1, <2>10, <3>1, <3>2
    <3>3. CASE c = d /\ pc[d] = "spawn"
      <4>1. cwd = WorkDir[d]
        BY <2>1, <2>10, <3>3 DEF InTurn, Away
      <4> QED
        BY <2>10, <3>1, <3>3, <4>1, DirectorySteps
    <3>4. CASE c = d /\ pc[d] # "spawn"
      BY <2>10, <3>1, <3>4, DirectorySteps
    <3> QED
      BY <3>2, <3>3, <3>4
  <2>11. SafeAcrossStages'
    BY <2>9, <2>10 DEF SafeAcrossStages, Resting
  <2> QED
    BY <2>4, <2>7, <2>8, <2>11 DEF InTurn
<1> QED
  BY <1>5, <1>8 DEF Directories

(***************************************************************************)
(* DirectoryRestored, for any number of calls with a work_dir: until one   *)
(* of them starts its change of directory between another's save and its   *)
(* restore, every child starts in its work_dir, and the host is back after *)
(* every path through run_subprocess on which the directory could be saved *)
(* and entered again.  The run subprocess_dirs shows what an overlap does. *)
(***************************************************************************)
THEOREM DirectoryComesBack == Spec => []DirectoryRestored
<1> DEFINE AllLocal == \A c \in Calls : Local(c)
           IInv == TypeOK /\ AllLocal /\ Directories
<1>1. Init => IInv
  <2> SUFFICES ASSUME Init PROVE Directories
    BY TypeInvariance, LocalInvariance
  <2> QED
    BY DEF Init, NoChild, Directories, Saved, InTurn, SafeAcrossStages, Moves, Away
<1>2. IInv /\ [Next]_vars => IInv'
  <2> SUFFICES ASSUME IInv, [Next]_vars PROVE Directories'
    BY TypeInvariance, LocalInvariance
  <2>1. CASE UNCHANGED vars
    BY <2>1 DEF vars, calls, Directories, Saved, NoOverlap, InTurn, SafeAcrossStages, Moves,
                Away, Resting, Strayed
  <2>2. ASSUME NEW d \in Calls, Host(d) \/ ChildStep(d)
        PROVE  Directories'
    BY <2>2, DirectoriesKept
  <2> QED
    BY <2>1, <2>2 DEF Next
<1>3. IInv => DirectoryRestored
  BY DEF Directories, NoOverlap, InTurn, DirectoryRestored
<1> HIDE DEF IInv
<1> QED
  BY <1>1, <1>2, <1>3, PTL DEF Spec
=============================================================================
