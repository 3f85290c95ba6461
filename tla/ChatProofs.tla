----------------------------- MODULE ChatProofs -----------------------------
(***************************************************************************)
(* Proofs about ChatBridge, for any tools, any number of projects and of   *)
(* suspended turns, any budget and any answers of the model.               *)
(*                                                                         *)
(* A turn moves between the variables of the loop and a session of the     *)
(* bridge.  Turn(p) is where the turn of project p is at the moment; seen  *)
(* so, a step begins a turn, forgets it, lets the model ask for calls, or  *)
(* settles the first call that waits, and leaves the other turns alone.    *)
(*                                                                         *)
(* The last part is about ToolSession: the tools behind those calls.       *)
(***************************************************************************)
EXTENDS ChatBridge, ToolSession, IndexLemmas, SequenceTheorems

NoTurn ==
    [history |-> <<>>, calls |-> <<>>, steps_used |-> 0,
     overrides |-> {}, confirmed_once |-> {}, settled |-> 0]

Turn(p) ==
    IF busy /\ p = owner THEN Session
    ELSE IF sessions[p] = NoSession THEN NoTurn ELSE sessions[p]

Budget == IF max_steps = 0 THEN 1 ELSE max_steps

(* Who runs how, and what there is when no turn is under way. *)
Modes ==
    /\ IF front = "desktop"
       THEN /\ suspend_on_confirmation /\ ~ prompter /\ overrides = {}
            /\ \A p \in Projects : sessions[p] # NoSession => sessions[p].overrides = {}
       ELSE /\ ~ suspend_on_confirmation /\ overrides \in {{}, Registered}
            /\ \A p \in Projects : sessions[p] = NoSession
    /\ front = "invoke" => ~ busy /\ ~ prompter
    /\ running => stop_reason = "none" /\ history # <<>>
    /\ ~ busy => /\ history = <<>> /\ calls = <<>> /\ rows = <<>>
                 /\ confirmed_once = {}
                 /\ steps_used = 0 /\ limit = 0 /\ settled = 0
    /\ stop_reason = "AwaitingConfirmation" =>
           calls # <<>> /\ Gated(overrides, confirmed_once, Head(calls).name)

(* The round trips of a turn, here and in the sessions. *)
Budgeted ==
    /\ limit <= Budget + settled
    /\ running => steps_used <= limit
    /\ steps_used <= Budget + settled
    /\ \A p \in Projects : sessions[p] # NoSession =>
           sessions[p].steps_used <= Budget + sessions[p].settled

(* Answered as far as the calls that wait, waiting, allow. *)
WellFormed(messages, waiting) ==
    /\ \A i \in DOMAIN messages : (messages[i].role = "system") <=> (i = 1)
    /\ \A i \in DOMAIN messages : messages[i].role = "assistant" =>
         \A j \in DOMAIN messages[i].ids :
           IF i + j <= Len(messages)
           THEN messages[i + j] = Message("tool", <<messages[i].ids[j]>>)
           ELSE /\ i + j - Len(messages) \in DOMAIN waiting
                /\ waiting[i + j - Len(messages)].id = messages[i].ids[j]
    /\ \A k \in DOMAIN messages : messages[k].role = "tool" =>
         \E i \in 1..(k - 1) :
           messages[i].role = "assistant" /\ (k - i) \in DOMAIN messages[i].ids
    /\ waiting # <<>> =>
         \E i \in DOMAIN messages :
           /\ messages[i].role = "assistant"
           /\ i + Len(messages[i].ids) = Len(messages) + Len(waiting)

(* The calls of one history that were entered, were so in their order, and *)
(* those that wait come after them; last is the last id given out.         *)
InOrder(messages, waiting, entered, last) ==
    LET told == Told(messages) IN
    /\ told \subseteq 1..last
    /\ \A k \in DOMAIN waiting : waiting[k].id \in told
    /\ \A j, k \in DOMAIN waiting : j < k => waiting[j].id < waiting[k].id
    /\ \A i \in DOMAIN entered, k \in DOMAIN waiting :
         entered[i].id \in told => entered[i].id < waiting[k].id
    /\ \A i, j \in DOMAIN entered :
         i < j /\ entered[i].id \in told /\ entered[j].id \in told
         => entered[i].id < entered[j].id

Histories ==
    \A p \in Projects : WellFormed(Turn(p).history, Turn(p).calls)

Orders ==
    /\ \A i \in DOMAIN ran : ran[i].id <= issued
    /\ \A i, j \in DOMAIN ran : i < j => ran[i].id # ran[j].id
    /\ \A p \in Projects : InOrder(Turn(p).history, Turn(p).calls, ran, issued)
    /\ \A p, q \in Projects : p # q => Told(Turn(p).history) \cap Told(Turn(q).history) = {}

(* A tool counts as confirmed because a call of it was let through, and ran. *)
LetThrough(name) ==
    name \in Registered =>
        \E i \in DOMAIN ran : ran[i].name = name /\ ran[i].id \in granted \cup allowed

Approvals ==
    /\ OnlyApprovedToolsRun
    /\ \A n \in confirmed_once : LetThrough(n)
    /\ \A p \in Projects : sessions[p] # NoSession =>
           \A n \in sessions[p].confirmed_once : LetThrough(n)

(* Every tool that ran has a row, on the panel or on its way to it. *)
Rows ==
    /\ LoopAndDispatcherAgree
    /\ front = "desktop" => \A i \in DOMAIN ran :
           ran[i].id \in shown \cup {rows[k].call.id : k \in DOMAIN rows}

IInv == TypeOK /\ Modes /\ Budgeted /\ Histories /\ Orders /\ Approvals /\ Rows

OneProject == \A p, q \in Projects : p = q

OnCard ==
    /\ ApprovalMatchesCard
    /\ front = "desktop" /\ ~ busy /\ pending # NoCard /\ sessions[project] # NoSession =>
         Head(sessions[project].calls) = pending

-----------------------------------------------------------------------------
(* What dispatch_tool does: it refuses a call, or enters its handler. *)

Denied(call, auto, once, result) ==
    /\ confirmed_once' = once
    /\ UNCHANGED <<ran, granted>>
    /\ \/ call.name \notin Registered /\ result = "NOT_FOUND"
       \/ Gated(auto, once, call.name) /\ ~ prompter /\ result = "NOT_CONFIRMED"
       \/ Gated(auto, once, call.name) /\ prompter /\ result = "DENIED"

Entered(call, auto, once, result) ==
    /\ ran' = Append(ran, call)
    /\ result \in {"ok", "failed"}
    /\ \/ /\ Gated(auto, once, call.name) /\ prompter
          /\ confirmed_once' = once \cup {n \in {call.name} : Confirmation[n] = "ConfirmOnce"}
          /\ granted' = granted \cup {call.id}
       \/ /\ call.name \in Registered
          /\ ~ Gated(auto, once, call.name)
          /\ confirmed_once' = once
          /\ UNCHANGED granted

(* The four outcomes of the gate are these two. *)
LEMMA DispatchIs ==
    ASSUME NEW call, NEW auto, NEW once, NEW result, Dispatch(call, auto, once, result)
    PROVE  Denied(call, auto, once, result) \/ Entered(call, auto, once, result)
BY DEF Dispatch, Denied, Entered, Handler

(* A dispatched call leaves variables of the right types. *)
LEMMA DispatchKeepsTypes ==
    ASSUME TypeOK, NEW call \in Calls, NEW auto, NEW once \in SUBSET Names, NEW result,
           Dispatch(call, auto, once, result)
    PROVE  /\ ran' \in Seq(Calls) /\ granted' \subseteq 1..MaxCalls
           /\ confirmed_once' \subseteq Names
           /\ result \in Results
<1>1. ran \in Seq(Calls) /\ granted \subseteq 1..MaxCalls
  BY DEF TypeOK, AgentTypeOK
<1>2. call.id \in 1..MaxCalls /\ call.name \in Names
  BY DEF Calls
<1>3. CASE Denied(call, auto, once, result)
  BY <1>1, <1>3 DEF Denied, Results
<1>4. CASE Entered(call, auto, once, result)
  <2>1. ran' = Append(ran, call) /\ result \in {"ok", "failed"}
    BY <1>4 DEF Entered
  <2>2. ran' \in Seq(Calls)
    BY <1>1, <2>1
  <2>3. granted' \in {granted, granted \cup {call.id}}
    BY <1>4 DEF Entered
  <2>4. confirmed_once' \subseteq once \cup {call.name}
    BY <1>4 DEF Entered
  <2> QED
    BY <1>1, <1>2, <2>1, <2>2, <2>3, <2>4 DEF Results
<1> QED
  BY <1>3, <1>4, DispatchIs

(* A batch is numbered from the last id given out. *)
LEMMA BatchFacts ==
    ASSUME TypeOK, NEW batch \in Batches
    PROVE  /\ batch \in Seq(Calls) /\ Len(batch) >= 1
           /\ issued + Len(batch) \in 0..MaxCalls
           /\ \A k \in DOMAIN batch : batch[k].id = issued + k
           /\ [k \in DOMAIN batch |-> batch[k].id] \in Seq(1..MaxCalls)
           /\ Len([k \in DOMAIN batch |-> batch[k].id]) = Len(batch)
<1>1. issued \in 0..MaxCalls /\ MaxCalls \in Nat /\ MaxBatch \in Nat
  BY AgentAssumption DEF TypeOK, AgentTypeOK
<1>2. PICK n \in 1..MaxBatch :
        /\ issued + n <= MaxCalls
        /\ \E names \in [1..n -> Names] :
             batch = [i \in 1..n |-> [id |-> issued + i, name |-> names[i]]]
  BY DEF Batches
<1> PICK names \in [1..n -> Names] :
        batch = [i \in 1..n |-> [id |-> issued + i, name |-> names[i]]]
  BY <1>2
<1>3. \A i \in 1..n : batch[i] = [id |-> issued + i, name |-> names[i]]
  BY <1>2
<1>4. \A i \in 1..n : names[i] \in Names /\ issued + i \in 1..MaxCalls
  BY <1>1, <1>2
<1>5. \A i \in 1..n : batch[i] \in Calls /\ batch[i].id = issued + i
  BY <1>3, <1>4 DEF Calls
<1>6. DOMAIN batch = 1..n
  BY <1>2
<1>7. batch \in Seq(Calls) /\ Len(batch) = n
  BY <1>2, <1>5, <1>6
<1>8. /\ [k \in DOMAIN batch |-> batch[k].id] \in Seq(1..MaxCalls)
      /\ Len([k \in DOMAIN batch |-> batch[k].id]) = n
  BY <1>1, <1>4, <1>5, <1>6
<1> QED
  BY <1>1, <1>2, <1>5, <1>6, <1>7, <1>8

(* Telling the model a result keeps the history one. *)
LEMMA ResultKeepsTypes ==
    ASSUME NEW messages \in Seq(Messages), NEW call \in Calls, NEW result
    PROVE  WithResult(messages, call, result) \in Seq(Messages)
<1>1. call.id \in 1..MaxCalls
  BY DEF Calls
<1>2. Message("tool", <<call.id>>) \in Messages
  BY <1>1 DEF Message, Messages, Roles
<1> QED
  BY <1>2 DEF WithResult

(* The loop's variables keep their types. *)
LEMMA LoopKeepsTypes ==
    ASSUME TypeOK, Modes, run_loop
    PROVE  AgentTypeOK'
<1>0. /\ AgentTypeOK /\ MaxCalls \in Nat /\ max_steps \in Nat
  BY AgentAssumption DEF TypeOK
<1>1. CASE ProviderCalls
  <2>1. PICK batch \in Batches :
          /\ calls' = batch /\ issued' = issued + Len(batch)
          /\ history' = Append(history, Message("assistant", [i \in DOMAIN batch |-> batch[i].id]))
    BY <1>1 DEF ProviderCalls
  <2>2. calls' \in Seq(Calls) /\ issued' \in 0..MaxCalls
    BY <2>1, BatchFacts
  <2>3. Message("assistant", [i \in DOMAIN batch |-> batch[i].id]) \in Messages
    BY BatchFacts DEF Message, Messages, Roles
  <2>4. history' \in Seq(Messages)
    BY <1>0, <2>1, <2>3 DEF AgentTypeOK
  <2> QED
    BY <1>0, <1>1, <2>2, <2>4 DEF ProviderCalls, AgentTypeOK, mode, policy
<1>2. CASE ProviderAnswers
  <2>1. Message("assistant", <<>>) \in Messages
    BY DEF Message, Messages, Roles
  <2>2. history' \in Seq(Messages)
    BY <1>0, <1>2, <2>1 DEF ProviderAnswers, AgentTypeOK
  <2>3. steps_used' \in Nat /\ running' = FALSE /\ stop_reason' \in Reasons
    BY <1>0, <1>2 DEF ProviderAnswers, AgentTypeOK, Stop, Reasons
  <2> QED
    BY <1>0, <1>2, <2>2, <2>3 DEF ProviderAnswers, AgentTypeOK, mode, policy
<1>3. CASE ProviderFails \/ MaxStepsReached \/ Suspend
  BY <1>0, <1>3 DEF ProviderFails, MaxStepsReached, Suspend, AgentTypeOK, mode, policy, Stop, Reasons
<1>4. CASE execute_call
  <2>1. calls \in Seq(Calls) /\ calls # <<>> /\ calls' = Tail(calls)
    BY <1>0, <1>4 DEF execute_call, AgentTypeOK
  <2>2. Head(calls) \in Calls /\ calls' \in Seq(Calls)
    BY <2>1
  <2>3. PICK result \in Results :
          /\ Dispatch(Head(calls), overrides, confirmed_once, result)
          /\ history' = WithResult(history, Head(calls), result)
          /\ rows' = Append(rows, Row(Head(calls), result))
    BY <1>4 DEF execute_call
  <2>4. /\ ran' \in Seq(Calls) /\ granted' \subseteq 1..MaxCalls
        /\ confirmed_once' \subseteq Names
    BY <1>0, <2>2, <2>3, DispatchKeepsTypes DEF AgentTypeOK
  <2>5. history' \in Seq(Messages)
    BY <1>0, <2>2, <2>3, ResultKeepsTypes DEF AgentTypeOK
  <2>6. rows' \in Seq([call : Calls, result : Results])
    BY <1>0, <2>2, <2>3 DEF AgentTypeOK, Row
  <2> QED
    BY <1>0, <1>4, <2>2, <2>4, <2>5, <2>6 DEF execute_call, AgentTypeOK, mode
<1> QED
  BY <1>1, <1>2, <1>3, <1>4 DEF run_loop

(* What a new turn starts with. *)
LEMMA NewTurnTypes ==
    ASSUME run_agent_turn
    PROVE  /\ history' \in Seq(Messages) /\ calls' \in Seq(Calls)
           /\ rows' \in Seq([call : Calls, result : Results])
           /\ steps_used' \in Nat /\ limit' \in Nat
           /\ running' \in BOOLEAN /\ stop_reason' \in Reasons
<1>1. Message("system", <<>>) \in Messages /\ Message("user", <<>>) \in Messages
  BY DEF Message, Messages, Roles
<1>2. history' \in Seq(Messages)
  BY <1>1 DEF run_agent_turn
<1> QED
  BY <1>2, AgentAssumption DEF run_agent_turn, Reasons

(* A session of the right type, with calls that wait. *)
LEMMA SessionFacts ==
    ASSUME TypeOK, NEW p \in Projects, sessions[p] # NoSession
    PROVE  /\ sessions[p] \in Sessions /\ sessions[p].calls # <<>>
           /\ sessions[p].calls \in Seq(Calls) /\ Head(sessions[p].calls) \in Calls
           /\ Tail(sessions[p].calls) \in Seq(Calls)
           /\ sessions[p].history \in Seq(Messages)
           /\ sessions[p].steps_used \in Nat /\ sessions[p].settled \in Nat
           /\ sessions[p].overrides \subseteq Names
           /\ sessions[p].confirmed_once \subseteq Names
           /\ Gated(sessions[p].overrides, sessions[p].confirmed_once,
                    Head(sessions[p].calls).name)
<1>1. sessions[p] \in Sessions /\ sessions[p].calls # <<>>
      /\ Gated(sessions[p].overrides, sessions[p].confirmed_once,
               Head(sessions[p].calls).name)
  BY DEF TypeOK
<1>2. sessions[p].calls \in Seq(Calls)
  BY <1>1 DEF Sessions
<1>3. Head(sessions[p].calls) \in Calls /\ Tail(sessions[p].calls) \in Seq(Calls)
  BY <1>1, <1>2
<1> QED
  BY <1>1, <1>2, <1>3 DEF Sessions

(* What a resumed turn goes on with. *)
LEMMA ResumedTurnTypes ==
    ASSUME TypeOK, NEW p \in Projects, sessions[p] # NoSession, NEW allow,
           resume_agent_turn(sessions[p], allow)
    PROVE  /\ history' \in Seq(Messages) /\ calls' \in Seq(Calls)
           /\ rows' \in Seq([call : Calls, result : Results])
           /\ steps_used' \in Nat /\ limit' \in Nat
           /\ running' \in BOOLEAN /\ stop_reason' \in Reasons
           /\ ran' \in Seq(Calls) /\ granted' \subseteq 1..MaxCalls
           /\ overrides' \subseteq Names /\ confirmed_once' \subseteq Names
<1> DEFINE s == sessions[p]
           asked == Head(s.calls)
<1>1. /\ asked \in Calls /\ Tail(s.calls) \in Seq(Calls) /\ s.history \in Seq(Messages)
      /\ s.steps_used \in Nat /\ s.overrides \subseteq Names /\ s.confirmed_once \subseteq Names
  BY SessionFacts
<1>2. asked.name \in Names
  BY <1>1 DEF Calls
<1>3. PICK result \in Results :
        /\ history' = WithResult(s.history, asked, result)
        /\ rows' = <<Row(asked, result)>>
        /\ \/ /\ Dispatch(asked, s.overrides \cup {asked.name},
                          s.confirmed_once \cup {asked.name}, result)
              /\ overrides' = AfterApproval(s.overrides, asked.name)
           \/ /\ overrides' = s.overrides
              /\ confirmed_once' = s.confirmed_once
              /\ UNCHANGED <<ran, granted>>
  BY DEF resume_agent_turn
<1> HIDE DEF s, asked
<1>4. history' \in Seq(Messages)
  BY <1>1, <1>3, ResultKeepsTypes
<1>5. rows' \in Seq([call : Calls, result : Results])
  BY <1>1, <1>3 DEF Row
<1>6. /\ ran' \in Seq(Calls) /\ granted' \subseteq 1..MaxCalls
      /\ overrides' \subseteq Names /\ confirmed_once' \subseteq Names
  <2>1. ran \in Seq(Calls) /\ granted \subseteq 1..MaxCalls
    BY DEF TypeOK, AgentTypeOK
  <2>2. CASE /\ Dispatch(asked, s.overrides \cup {asked.name},
                         s.confirmed_once \cup {asked.name}, result)
             /\ overrides' = AfterApproval(s.overrides, asked.name)
    <3>1. s.confirmed_once \cup {asked.name} \in SUBSET Names
      BY <1>1, <1>2
    <3> QED
      BY <1>1, <2>2, <3>1, DispatchKeepsTypes DEF AfterApproval
  <2> QED
    BY <1>1, <1>3, <2>1, <2>2
<1>7. /\ calls' = Tail(s.calls) /\ steps_used' = s.steps_used
      /\ limit' = ContinuedLimit(s.steps_used) /\ running' = TRUE /\ stop_reason' = "none"
  BY DEF resume_agent_turn, s
<1> QED
  BY <1>1, <1>4, <1>5, <1>6, <1>7, AgentAssumption DEF ContinuedLimit, Reasons

(* A session takes over the running turn as it is. *)
LEMMA SessionTyped ==
    ASSUME TypeOK
    PROVE  Session \in Sessions
BY DEF TypeOK, AgentTypeOK, Session, Sessions

(* Every step keeps the types. *)
LEMMA NextKeepsTypes ==
    ASSUME TypeOK, Modes, [Next]_vars
    PROVE  TypeOK'
<1> DEFINE Terminal == /\ front' \in {"desktop", "chat", "invoke"}
                    /\ project' \in Projects /\ owner' \in Projects
                    /\ pending' \in Calls \cup {NoCard}
                    /\ settled' \in Nat
                    /\ allowed' \subseteq 1..MaxCalls
                    /\ consented' \subseteq 1..MaxCalls /\ shown' \subseteq 1..MaxCalls
           Kept(p) == /\ sessions'[p] \in Sessions \cup {NoSession}
                      /\ sessions'[p] # NoSession =>
                           /\ sessions'[p].calls # <<>>
                           /\ Gated(sessions'[p].overrides, sessions'[p].confirmed_once,
                                    Head(sessions'[p].calls).name)
           Store == sessions' \in [Projects -> Sessions \cup {NoSession}]
                    /\ \A p \in Projects : Kept(p)
<1>1. AgentTypeOK' /\ Terminal /\ Store => TypeOK'
  BY DEF TypeOK, Gated
<1>2. /\ AgentTypeOK
      /\ front \in {"desktop", "chat", "invoke"} /\ project \in Projects /\ owner \in Projects
      /\ pending \in Calls \cup {NoCard} /\ settled \in Nat
      /\ allowed \subseteq 1..MaxCalls /\ consented \subseteq 1..MaxCalls
      /\ shown \subseteq 1..MaxCalls
      /\ sessions \in [Projects -> Sessions \cup {NoSession}]
  BY DEF TypeOK
<1>3. UNCHANGED sessions => Store
  BY <1>2, SessionFacts
<1>4. ASSUME NEW p \in Projects, sessions' = [sessions EXCEPT ![p] = NoSession]
      PROVE  Store
  <2>1. sessions' \in [Projects -> Sessions \cup {NoSession}]
    BY <1>2, <1>4
  <2>2. \A q \in Projects : sessions'[q] = NoSession \/ sessions'[q] = sessions[q]
    BY <1>2, <1>4
  <2> QED
    BY <2>1, <2>2, SessionFacts
<1> HIDE DEF Store
<1>5. CASE cmd_agent_chat
  <2>1. run_agent_turn /\ UNCHANGED sessions
    BY <1>5 DEF cmd_agent_chat
  <2>2. AgentTypeOK'
    BY <1>2, <1>5, <2>1, NewTurnTypes DEF cmd_agent_chat, AgentTypeOK, mode, policy
  <2> QED
    BY <1>1, <1>2, <1>3, <1>5, <2>1, <2>2 DEF cmd_agent_chat, panel
<1>6. CASE cmd_agent_invoke
  <2>1. PICK name \in Names, result \in Results :
          Dispatch([id |-> 1, name |-> name], overrides, confirmed_once, result)
    BY <1>6 DEF cmd_agent_invoke
  <2>2. [id |-> 1, name |-> name] \in Calls
    BY AgentAssumption DEF Calls
  <2>3. /\ ran' \in Seq(Calls) /\ granted' \subseteq 1..MaxCalls
        /\ confirmed_once' \subseteq Names
    BY <1>2, <2>1, <2>2, DispatchKeepsTypes DEF AgentTypeOK
  <2>4. issued' \in 0..MaxCalls
    BY <1>6, AgentAssumption DEF cmd_agent_invoke
  <2>5. AgentTypeOK'
    BY <1>2, <1>6, <2>3, <2>4 DEF cmd_agent_invoke, AgentTypeOK, mode, turn
  <2> QED
    BY <1>1, <1>2, <1>3, <1>6, <2>5 DEF cmd_agent_invoke, panel
<1>7. CASE SwitchProject
  <2>1. AgentTypeOK'
    BY <1>2, <1>7 DEF SwitchProject, AgentTypeOK, agentVars, mode, policy, turn
  <2> QED
    BY <1>1, <1>2, <1>3, <1>7, <2>1 DEF SwitchProject
<1>8. CASE chat_send
  <2>1. run_agent_turn /\ sessions' = [sessions EXCEPT ![project] = NoSession]
    BY <1>8 DEF chat_send
  <2>2. AgentTypeOK'
    BY <1>2, <1>8, <2>1, NewTurnTypes DEF chat_send, AgentTypeOK, mode
  <2>3. Store
    BY <1>2, <1>4, <2>1
  <2> QED
    BY <1>1, <1>2, <1>8, <2>2, <2>3 DEF chat_send, panel
<1>9. ASSUME NEW allow \in BOOLEAN, Decide(allow)
      PROVE  /\ pending' \in Calls \cup {NoCard} /\ consented' \subseteq 1..MaxCalls
             /\ UNCHANGED <<front, project, shown>> /\ UNCHANGED mode
  <2>1. pending \in Calls /\ pending' = NoCard
        /\ consented' \in {consented, consented \cup {pending.id}}
    BY <1>2, <1>9 DEF Decide
  <2>2. pending.id \in 1..MaxCalls
    BY <2>1 DEF Calls
  <2> QED
    BY <1>2, <1>9, <2>1, <2>2 DEF Decide
<1>10. ASSUME NEW allow \in BOOLEAN, ConfirmRejected(allow)
       PROVE  TypeOK'
  <2>1. Decide(allow) /\ sessions' = [sessions EXCEPT ![project] = NoSession]
    BY <1>10 DEF ConfirmRejected
  <2>2. Store
    BY <1>2, <1>4, <2>1
  <2>3. AgentTypeOK'
    BY <1>2, <1>9, <1>10, <2>1 DEF ConfirmRejected, AgentTypeOK, mode, policy, turn
  <2> QED
    BY <1>1, <1>2, <1>9, <1>10, <2>1, <2>2, <2>3 DEF ConfirmRejected
<1>11. ASSUME NEW allow \in BOOLEAN, chat_confirm(allow)
       PROVE  TypeOK'
  <2> DEFINE s == sessions[project]
  <2>1. /\ Decide(allow) /\ s # NoSession /\ resume_agent_turn(s, allow)
        /\ allowed' \in {allowed, allowed \cup {Head(s.calls).id}}
        /\ settled' = s.settled + 1 /\ owner' = project /\ UNCHANGED <<issued, sessions>>
    BY <1>11 DEF chat_confirm
  <2>2. Head(s.calls) \in Calls /\ s.settled \in Nat
    BY <1>2, <2>1, SessionFacts
  <2>3. allowed' \subseteq 1..MaxCalls /\ settled' \in Nat
    BY <1>2, <2>1, <2>2 DEF Calls
  <2>4. AgentTypeOK'
    BY <1>2, <1>9, <2>1, ResumedTurnTypes DEF AgentTypeOK, mode
  <2> QED
    BY <1>1, <1>2, <1>3, <1>9, <2>1, <2>3, <2>4
<1>12. CASE ChatReturn
  <2>1. shown' \subseteq 1..MaxCalls
    <3> SUFFICES ASSUME NEW i \in DOMAIN rows
                 PROVE  rows[i].call.id \in 1..MaxCalls
      BY <1>2, <1>12 DEF ChatReturn, FillResponse
    <3>0. rows \in Seq([call : Calls, result : Results])
      BY <1>2 DEF AgentTypeOK
    <3>1. rows[i] \in [call : Calls, result : Results]
      <4> DEFINE R == [call : Calls, result : Results]
      <4>1. rows \in Seq(R)
        BY <3>0
      <4> HIDE DEF R
      <4>2. i \in 1..Len(rows)
        BY <4>1
      <4>3. rows[i] \in R
        BY <4>1, <4>2
      <4> QED
        BY <4>3 DEF R
    <3> QED
      BY <3>1 DEF Calls
  <2>2. AgentTypeOK'
    BY <1>2, <1>12 DEF ChatReturn, AgentTypeOK, mode, Reasons
  <2>3. CASE /\ stop_reason = "AwaitingConfirmation"
             /\ pending' = Head(calls)
             /\ sessions' = [sessions EXCEPT ![owner] = Session]
    <3>1. calls # <<>> /\ Gated(overrides, confirmed_once, Head(calls).name)
      BY <2>3 DEF Modes
    <3>2. Head(calls) \in Calls
      BY <1>2, <3>1 DEF AgentTypeOK
    <3>3. sessions' \in [Projects -> Sessions \cup {NoSession}]
      BY <1>2, <2>3, SessionTyped
    <3>4. \A p \in Projects : sessions'[p] = Session \/ sessions'[p] = sessions[p]
      BY <1>2, <2>3
    <3>5. /\ Session.calls # <<>>
          /\ Gated(Session.overrides, Session.confirmed_once, Head(Session.calls).name)
      BY <3>1 DEF Session
    <3>6. Store
      BY <3>3, <3>4, <3>5, SessionFacts DEF Store
    <3> QED
      BY <1>1, <1>2, <1>12, <2>1, <2>2, <2>3, <3>2, <3>6 DEF ChatReturn
  <2>4. CASE pending' = NoCard /\ sessions' = [sessions EXCEPT ![owner] = NoSession]
    <3>1. Store
      BY <1>2, <1>4, <2>4
    <3> QED
      BY <1>1, <1>2, <1>12, <2>1, <2>2, <2>4, <3>1 DEF ChatReturn
  <2> QED
    BY <1>12, <2>3, <2>4 DEF ChatReturn
<1>13. CASE Loop
  <2>1. AgentTypeOK'
    BY <1>13, LoopKeepsTypes DEF Loop
  <2> QED
    BY <1>1, <1>2, <1>3, <1>13, <2>1 DEF Loop, panel
<1>14. CASE UNCHANGED vars
  <2>1. AgentTypeOK'
    BY <1>2, <1>14 DEF vars, AgentTypeOK, agentVars, mode, policy, turn
  <2> QED
    BY <1>1, <1>2, <1>3, <1>14, <2>1 DEF vars, panel
<1> QED
  BY <1>5, <1>6, <1>7, <1>8, <1>10, <1>11, <1>12, <1>13, <1>14 DEF Next

-----------------------------------------------------------------------------
(* Modes and budget. *)

(* The loop's question and the dispatcher's are the same one. *)
LEMMA SameQuestion ==
    ASSUME NEW name
    PROVE  needs_user_decision(name) <=> Gated(overrides, confirmed_once, name) /\ ~ prompter
BY Zenon DEF needs_user_decision, Gated

(* A step of the loop: the turn goes on, or stops; nothing else changes. *)
LEMMA LoopKeepsModes ==
    ASSUME TypeOK, Modes, run_loop
    PROVE  /\ UNCHANGED <<mode, overrides>> /\ running /\ busy'
           /\ running' => stop_reason' = "none" /\ history' # <<>>
           /\ stop_reason' = "AwaitingConfirmation" =>
                /\ UNCHANGED <<calls, confirmed_once>> /\ calls # <<>>
                /\ Gated(overrides, confirmed_once, Head(calls).name)
<1>0. /\ history \in Seq(Messages)
      /\ running => stop_reason = "none" /\ history # <<>>
  BY DEF TypeOK, AgentTypeOK, Modes
<1>1. CASE ProviderCalls
  <2>1. PICK ids : history' = Append(history, Message("assistant", ids))
    BY <1>1 DEF ProviderCalls
  <2>2. history' # <<>>
    BY <1>0, <2>1
  <2> QED
    BY <1>0, <1>1, <2>2 DEF ProviderCalls, Due, busy, mode, policy
<1>2. CASE ProviderAnswers \/ ProviderFails \/ MaxStepsReached
  BY <1>2 DEF ProviderAnswers, ProviderFails, MaxStepsReached, Stop, Due, busy, mode, policy
<1>3. CASE Suspend
  BY <1>3, SameQuestion DEF Suspend, MustAsk, Stop, busy, mode, policy
<1>4. CASE execute_call
  <2>1. PICK result \in Results :
          history' = Append(history, Message("tool", <<Head(calls).id>>))
    BY <1>4 DEF execute_call, WithResult
  <2>2. history' # <<>>
    BY <1>0, <2>1
  <2> QED
    BY <1>0, <1>4, <2>2 DEF execute_call, busy, mode
<1> QED
  BY <1>1, <1>2, <1>3, <1>4 DEF run_loop

(* A turn that begins or goes on is under way, with a history. *)
LEMMA TurnStarts ==
    /\ run_agent_turn => running' /\ busy' /\ stop_reason' = "none" /\ history' # <<>>
    /\ \A p \in Projects, allow \in BOOLEAN :
         /\ TypeOK /\ sessions[p] # NoSession
         /\ resume_agent_turn(sessions[p], allow)
         => running' /\ busy' /\ stop_reason' = "none" /\ history' # <<>>
<1>1. run_agent_turn => running' /\ busy' /\ stop_reason' = "none" /\ history' # <<>>
  BY DEF run_agent_turn, busy
<1>2. ASSUME NEW p \in Projects, NEW allow \in BOOLEAN, TypeOK, sessions[p] # NoSession,
             resume_agent_turn(sessions[p], allow)
      PROVE  running' /\ busy' /\ stop_reason' = "none" /\ history' # <<>>
  <2>1. history' = Append(sessions[p].history,
                          Message("tool", <<Head(sessions[p].calls).id>>))
    BY <1>2 DEF resume_agent_turn, WithResult
  <2>2. history' # <<>>
    BY <1>2, <2>1, SessionFacts
  <2> QED
    BY <1>2, <2>2 DEF resume_agent_turn, busy
<1> QED
  BY <1>1, <1>2

(* Every step keeps the modes. *)
LEMMA NextKeepsModes ==
    ASSUME TypeOK, Modes, [Next]_vars
    PROVE  Modes'
<1> DEFINE Fixed == UNCHANGED <<suspend_on_confirmation, prompter, front>>
           Silent == /\ UNCHANGED overrides
                     /\ \A p \in Projects : sessions'[p] \in {sessions[p], NoSession}
           Going == busy' /\ running' /\ stop_reason' = "none" /\ history' # <<>>
           Same == UNCHANGED <<running, stop_reason, history, calls, rows, confirmed_once,
                               steps_used, limit, settled>>
<1>0. /\ front = "desktop" =>
           /\ suspend_on_confirmation /\ ~ prompter /\ overrides = {}
           /\ \A p \in Projects : sessions[p] # NoSession => sessions[p].overrides = {}
      /\ front # "desktop" =>
           /\ ~ suspend_on_confirmation /\ overrides \in {{}, Registered}
           /\ \A p \in Projects : sessions[p] = NoSession
      /\ front = "invoke" => ~ busy /\ ~ prompter
      /\ sessions \in [Projects -> Sessions \cup {NoSession}]
  BY DEF Modes, TypeOK
<1>1. ASSUME Fixed, Silent, Going, front # "invoke"
      PROVE  Modes'
  BY <1>0, <1>1 DEF Modes
<1>2. ASSUME Fixed, Silent, Same
      PROVE  Modes'
  BY <1>2 DEF Modes, busy, Gated
<1>3. ASSUME NEW p \in Projects, sessions' = [sessions EXCEPT ![p] = NoSession]
      PROVE  \A q \in Projects : sessions'[q] \in {sessions[q], NoSession}
  BY <1>0, <1>3
<1> HIDE DEF Fixed, Silent, Going, Same
<1>4. CASE cmd_agent_chat
  <2>1. Fixed /\ Silent /\ front # "invoke"
    BY <1>4 DEF cmd_agent_chat, mode, policy, Fixed, Silent
  <2>2. Going
    BY <1>4, TurnStarts DEF cmd_agent_chat, Going
  <2> QED
    BY <1>1, <2>1, <2>2
<1>5. CASE cmd_agent_invoke
  <2>1. PICK name \in Names, result \in Results :
          Dispatch([id |-> 1, name |-> name], overrides, confirmed_once, result)
    BY <1>5 DEF cmd_agent_invoke
  <2>2. ~ prompter
    BY <1>0, <1>5 DEF cmd_agent_invoke
  <2>3. UNCHANGED confirmed_once
    BY <2>1, <2>2, DispatchIs DEF Denied, Entered
  <2>4. Fixed /\ Silent /\ Same
    BY <1>5, <2>3 DEF cmd_agent_invoke, mode, turn, Fixed, Silent, Same
  <2> QED
    BY <1>2, <2>4
<1>6. CASE SwitchProject \/ UNCHANGED vars
  <2>1. Fixed /\ Silent /\ Same
    BY <1>6 DEF SwitchProject, vars, agentVars, mode, policy, turn, panel, Fixed, Silent, Same
  <2> QED
    BY <1>2, <2>1
<1>7. CASE chat_send
  <2>1. Fixed /\ front # "invoke" /\ project \in Projects
    BY <1>7 DEF chat_send, mode, Fixed, Idle, TypeOK
  <2>2. Going
    BY <1>7, TurnStarts DEF chat_send, Going
  <2>3. overrides = {}
    BY <1>0, <1>7 DEF chat_send, Idle
  <2>4. Silent
    BY <1>3, <1>7, <2>1, <2>3 DEF chat_send, Silent
  <2> QED
    BY <1>1, <2>1, <2>2, <2>4
<1>8. ASSUME NEW allow \in BOOLEAN, ConfirmRejected(allow)
      PROVE  Modes'
  <2>1. Fixed /\ Same /\ project \in Projects
    BY <1>8 DEF ConfirmRejected, Decide, mode, policy, turn, Fixed, Same, TypeOK
  <2>2. Silent
    BY <1>3, <1>8, <2>1 DEF ConfirmRejected, policy, Silent
  <2> QED
    BY <1>2, <2>1, <2>2
<1>9. ASSUME NEW allow \in BOOLEAN, chat_confirm(allow)
      PROVE  Modes'
  <2> DEFINE s == sessions[project]
  <2>1. Fixed /\ front = "desktop" /\ project \in Projects /\ s # NoSession
        /\ resume_agent_turn(s, allow) /\ UNCHANGED sessions
    BY <1>9 DEF chat_confirm, Decide, Idle, mode, Fixed, TypeOK
  <2>2. Going
    BY <2>1, TurnStarts DEF Going
  <2>3. s.overrides = {} /\ overrides = {}
    BY <1>0, <2>1
  <2>4. overrides' = {}
    BY <2>1, <2>3 DEF resume_agent_turn, AfterApproval
  <2>5. Silent
    BY <2>1, <2>3, <2>4 DEF Silent
  <2> QED
    BY <1>1, <2>1, <2>2, <2>5
<1>10. CASE ChatReturn
  <2>1. front = "desktop" /\ Fixed /\ owner \in Projects
    BY <1>10 DEF ChatReturn, mode, Fixed, TypeOK
  <2>2. /\ ~ busy' /\ stop_reason' = "none" /\ running' = FALSE
        /\ history' = <<>> /\ calls' = <<>> /\ rows' = <<>> /\ confirmed_once' = {}
        /\ overrides' = {} /\ steps_used' = 0 /\ limit' = 0 /\ settled' = 0
    BY <1>10 DEF ChatReturn, busy
  <2>3. \A p \in Projects : sessions'[p] \in {sessions[p], NoSession, Session}
    BY <1>0, <1>10, <2>1 DEF ChatReturn
  <2>4. Session.overrides = {}
    BY <1>0, <2>1 DEF Session
  <2>5. \A p \in Projects : sessions'[p] # NoSession => sessions'[p].overrides = {}
    BY <1>0, <2>1, <2>3, <2>4
  <2>6. suspend_on_confirmation' /\ ~ prompter' /\ front' = "desktop"
    BY <1>0, <2>1 DEF Fixed
  <2> QED
    BY <2>2, <2>5, <2>6 DEF Modes
<1>11. CASE Loop
  <2>1. run_loop /\ UNCHANGED <<front, sessions>>
    BY <1>11 DEF Loop
  <2>2. /\ UNCHANGED <<mode, overrides>> /\ running /\ busy'
        /\ running' => stop_reason' = "none" /\ history' # <<>>
        /\ stop_reason' = "AwaitingConfirmation" =>
             /\ UNCHANGED <<calls, confirmed_once>> /\ calls # <<>>
             /\ Gated(overrides, confirmed_once, Head(calls).name)
    BY <2>1, LoopKeepsModes
  <2>3. front # "invoke"
    BY <1>0, <2>2 DEF busy
  <2>4. stop_reason' = "AwaitingConfirmation" =>
          calls' # <<>> /\ Gated(overrides', confirmed_once', Head(calls').name)
    BY <2>2
  <2> QED
    BY <1>0, <2>1, <2>2, <2>3, <2>4 DEF Modes, mode, Gated
<1> QED
  BY <1>4, <1>5, <1>6, <1>7, <1>8, <1>9, <1>10, <1>11 DEF Next

(* A first leg has the budget, a later one what is left, or one more. *)
LEMMA NextKeepsBudget ==
    ASSUME TypeOK, Modes, Budgeted, [Next]_vars
    PROVE  Budgeted'
<1> DEFINE Kept(p) == sessions'[p] # NoSession =>
                        sessions'[p].steps_used <= Budget + sessions'[p].settled
           Same == UNCHANGED <<limit, settled, running, steps_used>>
<1>0. /\ steps_used \in Nat /\ limit \in Nat /\ settled \in Nat /\ max_steps \in Nat
      /\ sessions \in [Projects -> Sessions \cup {NoSession}]
      /\ project \in Projects /\ owner \in Projects
      /\ Budget \in Nat /\ Budget >= 1 /\ max_steps <= Budget
  BY AgentAssumption DEF TypeOK, AgentTypeOK, Budget
<1>1. \A p \in Projects : sessions'[p] \in {sessions[p], NoSession} => Kept(p)
  BY DEF Budgeted
<1>2. ASSUME NEW p \in Projects, sessions' = [sessions EXCEPT ![p] = NoSession]
      PROVE  \A q \in Projects : Kept(q)
  <2>1. \A q \in Projects : sessions'[q] \in {sessions[q], NoSession}
    BY <1>0, <1>2
  <2> QED
    BY <1>1, <2>1
<1>3. UNCHANGED sessions => \A q \in Projects : Kept(q)
  BY <1>1
<1>4. ASSUME Same, \A p \in Projects : Kept(p)
      PROVE  Budgeted'
  BY <1>4 DEF Budgeted
<1> HIDE DEF Kept, Same
<1>5. CASE run_agent_turn /\ settled' = 0 /\ \A p \in Projects : Kept(p)
  <2>1. limit' = Budget /\ steps_used' = 0
    BY <1>5 DEF run_agent_turn, Budget
  <2> QED
    BY <1>0, <1>5, <2>1 DEF Budgeted, Kept
<1>6. CASE cmd_agent_chat
  <2>1. settled = 0
    BY <1>6 DEF cmd_agent_chat, Modes, busy
  <2>2. run_agent_turn /\ settled' = 0 /\ \A p \in Projects : Kept(p)
    BY <1>3, <1>6, <2>1 DEF cmd_agent_chat
  <2> QED
    BY <1>5, <2>2
<1>7. CASE chat_send
  <2>1. run_agent_turn /\ settled' = 0 /\ \A p \in Projects : Kept(p)
    BY <1>0, <1>2, <1>7 DEF chat_send
  <2> QED
    BY <1>5, <2>1
<1>8. CASE cmd_agent_invoke \/ SwitchProject \/ UNCHANGED vars
  <2>1. Same /\ UNCHANGED sessions
    BY <1>8 DEF cmd_agent_invoke, SwitchProject, vars, agentVars, turn, Same
  <2> QED
    BY <1>3, <1>4, <2>1
<1>9. ASSUME NEW allow \in BOOLEAN, ConfirmRejected(allow)
      PROVE  Budgeted'
  <2>1. Same /\ sessions' = [sessions EXCEPT ![project] = NoSession]
    BY <1>9 DEF ConfirmRejected, turn, Same
  <2> QED
    BY <1>0, <1>2, <1>4, <2>1
<1>10. ASSUME NEW allow \in BOOLEAN, chat_confirm(allow)
       PROVE  Budgeted'
  <2> DEFINE used == sessions[project].steps_used
             answered == sessions[project].settled
  <2>1. /\ sessions[project] # NoSession /\ UNCHANGED sessions
        /\ settled' = answered + 1
        /\ steps_used' = used
        /\ limit' = IF max_steps > used THEN max_steps ELSE used + 1
    BY <1>10 DEF chat_confirm, resume_agent_turn, ContinuedLimit
  <2>2. used \in Nat /\ answered \in Nat /\ used <= Budget + answered
    BY <1>0, <2>1, SessionFacts DEF Budgeted
  <2> HIDE DEF used, answered
  <2>3. limit' <= Budget + settled' /\ steps_used' <= limit'
        /\ steps_used' <= Budget + settled'
    BY <1>0, <2>1, <2>2
  <2> QED
    BY <1>3, <2>1, <2>3 DEF Budgeted, Kept
<1>11. CASE ChatReturn
  <2>1. \A p \in Projects : sessions'[p] \in {sessions[p], NoSession, Session}
    BY <1>0, <1>11 DEF ChatReturn
  <2>2. Session.steps_used <= Budget + Session.settled
    BY DEF Session, Budgeted
  <2>3. \A p \in Projects : Kept(p)
    BY <1>1, <2>1, <2>2 DEF Kept
  <2>4. limit' = 0 /\ settled' = 0 /\ steps_used' = 0
    BY <1>11 DEF ChatReturn
  <2> QED
    BY <1>0, <2>3, <2>4 DEF Budgeted, Kept
<1>12. CASE Loop
  <2>1. UNCHANGED <<limit, settled, sessions>> /\ run_loop
    BY <1>12 DEF Loop, run_loop, ProviderCalls, ProviderAnswers, ProviderFails,
            MaxStepsReached, Suspend, execute_call
  <2>2. CASE UNCHANGED steps_used /\ running
    BY <1>3, <2>1, <2>2 DEF Budgeted, Kept
  <2>3. CASE steps_used < limit /\ steps_used' = steps_used + 1
    <3>1. steps_used' <= limit' /\ steps_used' <= Budget + settled'
      BY <1>0, <2>1, <2>3 DEF Budgeted
    <3> QED
      BY <1>3, <2>1, <3>1 DEF Budgeted, Kept
  <2> QED
    BY <2>1, <2>2, <2>3 DEF run_loop, ProviderCalls, ProviderAnswers, ProviderFails,
            MaxStepsReached, Suspend, execute_call, Due
<1> QED
  BY <1>6, <1>7, <1>8, <1>9, <1>10, <1>11, <1>12 DEF Next

-----------------------------------------------------------------------------
(* The steps as steps of the turns. *)

Same(p) == Turn(p)'.history = Turn(p).history /\ Turn(p)'.calls = Turn(p).calls

Forgotten(p) == Turn(p)'.history = <<>> /\ Turn(p)'.calls = <<>>

Begun(p) ==
    /\ Turn(p)'.history = <<Message("system", <<>>), Message("user", <<>>)>>
    /\ Turn(p)'.calls = <<>>

Answered(p) ==
    /\ Turn(p).calls = <<>> /\ Turn(p)'.calls = <<>>
    /\ Turn(p).history # <<>>
    /\ Turn(p)'.history = Append(Turn(p).history, Message("assistant", <<>>))

Asked(p) ==
    /\ Turn(p).calls = <<>>
    /\ Turn(p).history # <<>>
    /\ Turn(p)'.calls \in Batches
    /\ Turn(p)'.history = Append(Turn(p).history,
           Message("assistant", [k \in DOMAIN Turn(p)'.calls |-> Turn(p)'.calls[k].id]))
    /\ issued' = issued + Len(Turn(p)'.calls)

Settled(p) ==
    /\ Turn(p).calls # <<>>
    /\ Turn(p)'.calls = Tail(Turn(p).calls)
    /\ Turn(p)'.history = WithResult(Turn(p).history, Head(Turn(p).calls), "ok")
    /\ ran' \in {ran, Append(ran, Head(Turn(p).calls))}

TurnStep(p) ==
    /\ \A q \in Projects \ {p} : Same(q)
    /\ \/ /\ Same(p) \/ Forgotten(p) \/ Begun(p) \/ Answered(p)
          /\ UNCHANGED <<ran, issued>>
       \/ Asked(p) /\ UNCHANGED ran
       \/ Settled(p) /\ UNCHANGED issued

(* The single dispatch of the command line, where there are no turns. *)
LoneDispatch ==
    /\ \A p \in Projects : Same(p) /\ Forgotten(p)
    /\ issued = 0 /\ issued' = 1
    /\ \E call \in Calls : call.id = 1 /\ ran' \in {ran, Append(ran, call)}

(* A turn is of the types of the loop's variables. *)
LEMMA TurnTypes ==
    ASSUME TypeOK, NEW p \in Projects
    PROVE  Turn(p).history \in Seq(Messages) /\ Turn(p).calls \in Seq(Calls)
<1>1. CASE busy /\ p = owner
  BY <1>1 DEF Turn, Session, TypeOK, AgentTypeOK
<1>2. CASE ~ (busy /\ p = owner) /\ sessions[p] = NoSession
  BY <1>2 DEF Turn, NoTurn
<1>3. CASE ~ (busy /\ p = owner) /\ sessions[p] # NoSession
  BY <1>3, SessionFacts DEF Turn
<1> QED
  BY <1>1, <1>2, <1>3

(* A dispatch enters the handler of its call, or of none. *)
LEMMA DispatchRuns ==
    ASSUME NEW call, NEW auto, NEW once, NEW result, Dispatch(call, auto, once, result)
    PROVE  ran' \in {ran, Append(ran, call)}
BY DispatchIs DEF Denied, Entered

(* A step of the loop is a step of the owner's turn. *)
LEMMA LoopIsTurnStep ==
    ASSUME TypeOK, Modes, Loop
    PROVE  TurnStep(owner)
<1>0. /\ run_loop /\ UNCHANGED <<owner, sessions>> /\ owner \in Projects
      /\ busy /\ busy' /\ running /\ history # <<>>
  <2>1. run_loop /\ UNCHANGED <<owner, sessions>>
    BY DEF Loop
  <2>2. running /\ busy' /\ history # <<>>
    BY <2>1, LoopKeepsModes DEF Modes
  <2> QED
    BY <2>1, <2>2 DEF busy, TypeOK
<1>1. /\ Turn(owner).history = history /\ Turn(owner).calls = calls
      /\ Turn(owner)'.history = history' /\ Turn(owner)'.calls = calls'
  BY <1>0 DEF Turn, Session
<1>2. \A q \in Projects \ {owner} : Same(q)
  BY <1>0 DEF Same, Turn
<1>3. CASE ProviderCalls
  <2>1. Asked(owner) /\ UNCHANGED ran
    BY <1>0, <1>1, <1>3 DEF ProviderCalls, Due, Asked
  <2> QED
    BY <1>2, <2>1 DEF TurnStep
<1>4. CASE ProviderAnswers
  <2>1. Answered(owner) /\ UNCHANGED <<ran, issued>>
    BY <1>0, <1>1, <1>4 DEF ProviderAnswers, Due, Answered
  <2> QED
    BY <1>2, <2>1 DEF TurnStep
<1>5. CASE ProviderFails \/ MaxStepsReached \/ Suspend
  <2>1. Same(owner) /\ UNCHANGED <<ran, issued>>
    BY <1>1, <1>5 DEF ProviderFails, MaxStepsReached, Suspend, Same
  <2> QED
    BY <1>2, <2>1 DEF TurnStep
<1>6. CASE execute_call
  <2>1. PICK result \in Results :
          /\ Dispatch(Head(calls), overrides, confirmed_once, result)
          /\ history' = WithResult(history, Head(calls), result)
    BY <1>6 DEF execute_call
  <2>2. history' = WithResult(history, Head(calls), "ok")
    BY <2>1 DEF WithResult
  <2>3. ran' \in {ran, Append(ran, Head(calls))}
    BY <2>1, DispatchRuns
  <2>4. Settled(owner) /\ UNCHANGED issued
    BY <1>1, <1>6, <2>2, <2>3 DEF execute_call, Settled
  <2> QED
    BY <1>2, <2>4 DEF TurnStep
<1> QED
  BY <1>0, <1>3, <1>4, <1>5, <1>6 DEF run_loop

(* Every step is a step of one turn, or the single dispatch. *)
LEMMA NextIsTurnStep ==
    ASSUME TypeOK, Modes, [Next]_vars
    PROVE  LoneDispatch \/ \E p \in Projects : TurnStep(p)
<1>0. /\ project \in Projects /\ owner \in Projects
      /\ sessions \in [Projects -> Sessions \cup {NoSession}]
      /\ ~ busy => history = <<>> /\ calls = <<>>
  BY DEF TypeOK, Modes
<1>1. CASE cmd_agent_chat
  <2>1. /\ ~ busy /\ busy' /\ UNCHANGED <<owner, sessions, ran, issued>>
        /\ history' = <<Message("system", <<>>), Message("user", <<>>)>> /\ calls' = <<>>
    BY <1>1, TurnStarts DEF cmd_agent_chat, run_agent_turn, busy
  <2>2. \A q \in Projects \ {owner} : Same(q)
    BY <2>1 DEF Same, Turn
  <2>3. Begun(owner)
    BY <2>1 DEF Begun, Turn, Session
  <2> QED
    BY <1>0, <2>1, <2>2, <2>3 DEF TurnStep
<1>2. CASE cmd_agent_invoke
  <2>1. PICK name \in Names, result \in Results :
          Dispatch([id |-> 1, name |-> name], overrides, confirmed_once, result)
    BY <1>2 DEF cmd_agent_invoke
  <2>2. /\ ~ busy /\ ~ busy' /\ \A p \in Projects : sessions[p] = NoSession
        /\ UNCHANGED sessions
    BY <1>2 DEF cmd_agent_invoke, Modes, busy, turn
  <2>3. \A p \in Projects : Same(p) /\ Forgotten(p)
    BY <2>2 DEF Same, Forgotten, Turn, NoTurn
  <2>4. [id |-> 1, name |-> name] \in Calls
    BY AgentAssumption DEF Calls
  <2>5. ran' \in {ran, Append(ran, [id |-> 1, name |-> name])}
    BY <2>1, DispatchRuns
  <2> QED
    BY <1>2, <2>3, <2>4, <2>5 DEF cmd_agent_invoke, LoneDispatch
<1>3. CASE SwitchProject \/ UNCHANGED vars
  <2>1. /\ UNCHANGED <<running, stop_reason, owner, sessions, ran, issued>>
        /\ UNCHANGED Session
    BY <1>3 DEF SwitchProject, vars, agentVars, policy, turn, Session
  <2>2. \A p \in Projects : Same(p)
    BY <2>1 DEF Same, Turn, busy
  <2> QED
    BY <1>0, <2>1, <2>2 DEF TurnStep
<1>4. CASE chat_send
  <2>1. /\ ~ busy /\ busy' /\ owner' = project /\ UNCHANGED <<project, ran, issued>>
        /\ sessions' = [sessions EXCEPT ![project] = NoSession]
        /\ history' = <<Message("system", <<>>), Message("user", <<>>)>> /\ calls' = <<>>
    BY <1>4, TurnStarts DEF chat_send, run_agent_turn, Idle, panel
  <2>2. \A q \in Projects \ {project} : sessions'[q] = sessions[q]
    BY <1>0, <2>1
  <2>3. \A q \in Projects \ {project} : Same(q)
    BY <2>1, <2>2 DEF Same, Turn
  <2>4. Begun(project)
    BY <2>1 DEF Begun, Turn, Session
  <2> QED
    BY <1>0, <2>1, <2>3, <2>4 DEF TurnStep
<1>5. ASSUME NEW allow \in BOOLEAN, ConfirmRejected(allow)
      PROVE  \E p \in Projects : TurnStep(p)
  <2>1. /\ ~ busy /\ ~ busy' /\ UNCHANGED <<project, ran, issued>>
        /\ sessions' = [sessions EXCEPT ![project] = NoSession]
    BY <1>5 DEF ConfirmRejected, Decide, Idle, busy, turn
  <2>2. \A q \in Projects \ {project} : sessions'[q] = sessions[q]
    BY <1>0, <2>1
  <2>3. \A q \in Projects \ {project} : Same(q)
    BY <2>1, <2>2 DEF Same, Turn
  <2>4. Forgotten(project)
    BY <1>0, <2>1 DEF Forgotten, Turn, NoTurn
  <2> QED
    BY <1>0, <2>1, <2>3, <2>4 DEF TurnStep
<1>6. ASSUME NEW allow \in BOOLEAN, chat_confirm(allow)
      PROVE  \E p \in Projects : TurnStep(p)
  <2> DEFINE s == sessions[project]
  <2>1. /\ ~ busy /\ s # NoSession /\ resume_agent_turn(s, allow)
        /\ owner' = project /\ UNCHANGED <<project, issued, sessions>>
    BY <1>6 DEF chat_confirm, Decide, Idle
  <2>2. busy'
    BY <1>0, <2>1, TurnStarts
  <2>3. s.calls # <<>>
    BY <1>0, <2>1, SessionFacts
  <2>4. Turn(project).history = s.history /\ Turn(project).calls = s.calls
    BY <2>1 DEF Turn
  <2>5. Turn(project)'.history = history' /\ Turn(project)'.calls = calls'
    BY <2>1, <2>2 DEF Turn, Session
  <2>6. PICK result \in Results :
          /\ history' = WithResult(s.history, Head(s.calls), result)
          /\ \/ Dispatch(Head(s.calls), s.overrides \cup {Head(s.calls).name},
                         s.confirmed_once \cup {Head(s.calls).name}, result)
             \/ UNCHANGED ran
    BY <2>1 DEF resume_agent_turn
  <2>7. ran' \in {ran, Append(ran, Head(s.calls))}
    BY <2>6, DispatchRuns
  <2>8. history' = WithResult(s.history, Head(s.calls), "ok") /\ calls' = Tail(s.calls)
    BY <2>1, <2>6 DEF resume_agent_turn, WithResult
  <2>9. Settled(project)
    BY <2>3, <2>4, <2>5, <2>7, <2>8 DEF Settled
  <2>10. \A q \in Projects \ {project} : Same(q)
    BY <2>1, <2>2 DEF Same, Turn
  <2> QED
    BY <1>0, <2>1, <2>9, <2>10 DEF TurnStep
<1>7. CASE ChatReturn
  <2>1. /\ busy /\ ~ busy' /\ UNCHANGED <<ran, issued, owner>>
        /\ \/ sessions' = [sessions EXCEPT ![owner] = Session]
           \/ sessions' = [sessions EXCEPT ![owner] = NoSession]
    BY <1>7 DEF ChatReturn, busy
  <2>2. /\ \A q \in Projects \ {owner} : sessions'[q] = sessions[q]
        /\ sessions'[owner] \in {Session, NoSession}
    BY <1>0, <2>1
  <2>3. \A q \in Projects \ {owner} : Same(q)
    BY <2>1, <2>2 DEF Same, Turn
  <2>4. Same(owner) \/ Forgotten(owner)
    <3>1. CASE sessions'[owner] = NoSession
      BY <1>0, <2>1, <3>1 DEF Forgotten, Turn, NoTurn
    <3>2. CASE sessions'[owner] # NoSession
      BY <1>0, <2>1, <2>2, <3>2 DEF Same, Turn
    <3> QED
      BY <3>1, <3>2
  <2> QED
    BY <1>0, <2>1, <2>3, <2>4 DEF TurnStep
<1>8. CASE Loop
  BY <1>0, <1>8, LoopIsTurnStep
<1> QED
  BY <1>1, <1>2, <1>3, <1>4, <1>5, <1>6, <1>7, <1>8 DEF Next

-----------------------------------------------------------------------------
(* Histories are well-formed. *)

(* Appending a message leaves the others where they are. *)
LEMMA AppendFacts ==
    ASSUME NEW h \in Seq(Messages), NEW m \in Messages
    PROVE  /\ Append(h, m) \in Seq(Messages)
           /\ Len(h) \in Nat /\ DOMAIN h = 1..Len(h)
           /\ Len(Append(h, m)) = Len(h) + 1 /\ DOMAIN Append(h, m) = 1..(Len(h) + 1)
           /\ \A i \in 1..Len(h) : Append(h, m)[i] = h[i]
           /\ Append(h, m)[Len(h) + 1] = m
OBVIOUS

(* A member of a history. *)
LEMMA MessageFacts ==
    ASSUME NEW h \in Seq(Messages), NEW i \in DOMAIN h
    PROVE  /\ h[i] \in Messages /\ h[i].ids \in Seq(1..MaxCalls)
           /\ Len(h[i].ids) \in Nat /\ DOMAIN h[i].ids = 1..Len(h[i].ids)
<1>1. h[i] \in Messages
  OBVIOUS
<1>2. h[i].ids \in Seq(1..MaxCalls)
  BY <1>1 DEF Messages
<1> QED
  BY <1>1, <1>2

(* An answer of the model, to a history without open calls. *)
LEMMA AnswerKeepsWellFormed ==
    ASSUME NEW h \in Seq(Messages), h # <<>>, WellFormed(h, <<>>),
           NEW ids \in Seq(1..MaxCalls), NEW asked \in Seq(Calls),
           Len(asked) = Len(ids), \A k \in 1..Len(ids) : asked[k].id = ids[k]
    PROVE  WellFormed(Append(h, Message("assistant", ids)), asked)
<1> DEFINE m == Message("assistant", ids)
           h2 == Append(h, m)
           n == Len(h)
<1>0. m \in Messages /\ m.role = "assistant" /\ m.ids = ids
  BY DEF Message, Messages, Roles
<1>1. /\ n \in Nat /\ n >= 1 /\ DOMAIN h = 1..n /\ Len(h2) = n + 1 /\ DOMAIN h2 = 1..(n + 1)
      /\ \A i \in 1..n : h2[i] = h[i]
      /\ h2[n + 1] = m
  BY <1>0, AppendFacts
<1>2. /\ Len(ids) \in Nat /\ DOMAIN ids = 1..Len(ids) /\ DOMAIN asked = 1..Len(ids)
      /\ asked # <<>> => Len(ids) >= 1
  OBVIOUS
<1> HIDE DEF m, h2, n
<1>3. \A i \in DOMAIN h2 : (h2[i].role = "system") <=> (i = 1)
  BY <1>0, <1>1 DEF WellFormed
<1>4. ASSUME NEW i \in DOMAIN h2, h2[i].role = "assistant", NEW j \in DOMAIN h2[i].ids
      PROVE  IF i + j <= Len(h2)
             THEN h2[i + j] = Message("tool", <<h2[i].ids[j]>>)
             ELSE /\ i + j - Len(h2) \in DOMAIN asked
                  /\ asked[i + j - Len(h2)].id = h2[i].ids[j]
  <2>1. CASE i = n + 1
    BY <1>0, <1>1, <1>2, <1>4, <2>1, SMTT(30)
  <2>2. CASE i \in 1..n
    <3>1. h2[i] = h[i] /\ i \in DOMAIN h /\ j \in DOMAIN h[i].ids /\ j \in Nat
      BY <1>1, <1>4, <2>2, MessageFacts
    <3>2. IF i + j <= Len(h)
          THEN h[i + j] = Message("tool", <<h[i].ids[j]>>)
          ELSE i + j - Len(h) \in DOMAIN <<>>
      BY <1>4, <3>1 DEF WellFormed
    <3>3. i + j <= n /\ h[i + j] = Message("tool", <<h[i].ids[j]>>)
      BY <3>2 DEF n
    <3> QED
      BY <1>1, <2>2, <3>1, <3>3
  <2> QED
    BY <1>1, <1>4, <2>1, <2>2
<1>5. ASSUME NEW k \in DOMAIN h2, h2[k].role = "tool"
      PROVE  \E i \in 1..(k - 1) : h2[i].role = "assistant" /\ (k - i) \in DOMAIN h2[i].ids
  <2>1. k \in DOMAIN h /\ h[k].role = "tool"
    BY <1>0, <1>1, <1>5
  <2>2. PICK i \in 1..(k - 1) : h[i].role = "assistant" /\ (k - i) \in DOMAIN h[i].ids
    BY <2>1 DEF WellFormed
  <2>3. i \in 1..n /\ h2[i] = h[i]
    BY <1>1, <2>1
  <2> QED
    BY <2>2, <2>3
<1>6. asked # <<>> => \E i \in DOMAIN h2 : /\ h2[i].role = "assistant"
                                           /\ i + Len(h2[i].ids) = Len(h2) + Len(asked)
  <2>1. n + 1 \in DOMAIN h2 /\ h2[n + 1].role = "assistant" /\ h2[n + 1].ids = ids
    BY <1>0, <1>1
  <2>2. (n + 1) + Len(ids) = Len(h2) + Len(asked)
    BY <1>1, <1>2
  <2> QED
    BY <2>1, <2>2
<1> QED
  BY <1>3, <1>4, <1>5, <1>6 DEF WellFormed, h2, m

(* The result of the first open call. *)
LEMMA ResultKeepsWellFormed ==
    ASSUME NEW h \in Seq(Messages), NEW open \in Seq(Calls), open # <<>>, WellFormed(h, open)
    PROVE  WellFormed(WithResult(h, Head(open), "ok"), Tail(open))
<1> DEFINE m == Message("tool", <<Head(open).id>>)
           h2 == Append(h, m)
           n == Len(h)
<1>0. Head(open) \in Calls /\ Head(open) = open[1]
  OBVIOUS
<1>1. m \in Messages /\ m.role = "tool"
  BY <1>0 DEF Calls, Message, Messages, Roles
<1>2. /\ n \in Nat /\ DOMAIN h = 1..n /\ Len(h2) = n + 1 /\ DOMAIN h2 = 1..(n + 1)
      /\ \A i \in 1..n : h2[i] = h[i]
      /\ h2[n + 1] = m
  BY <1>1, AppendFacts
<1>3. /\ Len(open) \in Nat /\ Len(open) >= 1 /\ DOMAIN open = 1..Len(open)
      /\ Len(Tail(open)) = Len(open) - 1 /\ DOMAIN Tail(open) = 1..(Len(open) - 1)
      /\ \A k \in 1..(Len(open) - 1) : Tail(open)[k] = open[k + 1]
  OBVIOUS
<1>4. PICK a \in DOMAIN h : h[a].role = "assistant" /\ a + Len(h[a].ids) = n + Len(open)
  BY DEF WellFormed
<1> HIDE DEF m, h2, n
<1>5. n >= 1 /\ \A i \in DOMAIN h2 : (h2[i].role = "system") <=> (i = 1)
  BY <1>1, <1>2, <1>4 DEF WellFormed
<1>6. ASSUME NEW i \in DOMAIN h2, h2[i].role = "assistant", NEW j \in DOMAIN h2[i].ids
      PROVE  IF i + j <= Len(h2)
             THEN h2[i + j] = Message("tool", <<h2[i].ids[j]>>)
             ELSE /\ i + j - Len(h2) \in DOMAIN Tail(open)
                  /\ Tail(open)[i + j - Len(h2)].id = h2[i].ids[j]
  <2>1. i \in 1..n /\ h2[i] = h[i] /\ i \in DOMAIN h
    BY <1>1, <1>2, <1>6
  <2>2. j \in DOMAIN h[i].ids /\ j \in Nat
    BY <1>6, <2>1, MessageFacts
  <2>3. IF i + j <= n
        THEN h[i + j] = Message("tool", <<h[i].ids[j]>>)
        ELSE /\ i + j - n \in DOMAIN open
             /\ open[i + j - n].id = h[i].ids[j]
    BY <1>6, <2>1, <2>2 DEF WellFormed, n
  <2>4. CASE i + j <= n
    <3>1. i + j \in 1..n
      BY <2>1, <2>2, <2>4
    <3> QED
      BY <1>2, <2>1, <2>3, <2>4, <3>1
  <2>5. CASE i + j = n + 1
    <3>1. i + j - n = 1 /\ ~ (i + j <= n)
      BY <1>2, <2>1, <2>2, <2>5
    <3>2. open[1].id = h[i].ids[j]
      BY <2>3, <3>1
    <3> QED
      BY <1>0, <1>2, <2>1, <2>5, <3>2 DEF m
  <2>6. CASE i + j > n + 1
    BY <1>2, <1>3, <2>1, <2>2, <2>3, <2>6, SMTT(30)
  <2> QED
    BY <1>2, <2>1, <2>2, <2>4, <2>5, <2>6
<1>7. ASSUME NEW k \in DOMAIN h2, h2[k].role = "tool"
      PROVE  \E i \in 1..(k - 1) : h2[i].role = "assistant" /\ (k - i) \in DOMAIN h2[i].ids
  <2>1. CASE k \in 1..n
    <3>1. PICK i \in 1..(k - 1) : h[i].role = "assistant" /\ (k - i) \in DOMAIN h[i].ids
      BY <1>2, <1>7, <2>1 DEF WellFormed
    <3> QED
      BY <1>2, <2>1, <3>1
  <2>2. CASE k = n + 1
    <3>1. a \in 1..n /\ h2[a] = h[a] /\ DOMAIN h[a].ids = 1..Len(h[a].ids)
          /\ Len(h[a].ids) \in Nat
      BY <1>2, MessageFacts
    <3>2. (k - a) \in DOMAIN h2[a].ids /\ a \in 1..(k - 1)
      BY <1>2, <1>3, <1>4, <2>2, <3>1
    <3> QED
      BY <1>4, <3>1, <3>2
  <2> QED
    BY <1>2, <1>7, <2>1, <2>2
<1>8. /\ h2[a].role = "assistant" /\ a \in DOMAIN h2
      /\ a + Len(h2[a].ids) = Len(h2) + Len(Tail(open))
  <2>1. a \in 1..n /\ h2[a] = h[a] /\ Len(h[a].ids) \in Nat
    BY <1>2, MessageFacts
  <2> QED
    BY <1>2, <1>3, <1>4, <2>1
<1> QED
  BY <1>5, <1>6, <1>7, <1>8 DEF WellFormed, WithResult, h2, m

(* Every step keeps the histories well-formed. *)
LEMMA NextKeepsHistories ==
    ASSUME TypeOK, Modes, Histories, [Next]_vars
    PROVE  Histories'
<1>1. ASSUME NEW p \in Projects, Same(p)
      PROVE  WellFormed(Turn(p)'.history, Turn(p)'.calls)
  BY <1>1 DEF Same, Histories
<1>2. ASSUME NEW p \in Projects, Forgotten(p)
      PROVE  WellFormed(Turn(p)'.history, Turn(p)'.calls)
  BY <1>2 DEF Forgotten, WellFormed
<1>3. ASSUME NEW p \in Projects, TurnStep(p)
      PROVE  Histories'
  <2> DEFINE h == Turn(p).history
             cs == Turn(p).calls
             h2 == Turn(p)'.history
             cs2 == Turn(p)'.calls
  <2>1. h \in Seq(Messages) /\ cs \in Seq(Calls) /\ WellFormed(h, cs)
    BY TurnTypes DEF Histories
  <2>2. WellFormed(h2, cs2)
    <3>1. CASE Begun(p)
      <4>1. /\ h2 = <<Message("system", <<>>), Message("user", <<>>)>> /\ cs2 = <<>>
        BY <3>1 DEF Begun
      <4>2. /\ DOMAIN h2 = 1..2 /\ h2[1].role = "system" /\ h2[2].role = "user"
        BY <4>1 DEF Message
      <4> QED
        BY <4>1, <4>2 DEF WellFormed
    <3>2. CASE Answered(p)
      <4>1. h # <<>> /\ cs = <<>> /\ cs2 = <<>> /\ h2 = Append(h, Message("assistant", <<>>))
        BY <3>2 DEF Answered
      <4>2. WellFormed(h, <<>>) /\ <<>> \in Seq(1..MaxCalls) /\ <<>> \in Seq(Calls)
            /\ Len(<<>>) = 0
        BY <2>1, <4>1
      <4> HIDE DEF h, cs, h2, cs2
      <4>3. \A k \in 1..0 : <<>>[k].id = <<>>[k]
        OBVIOUS
      <4>4. WellFormed(Append(h, Message("assistant", <<>>)), <<>>)
        BY <2>1, <4>1, <4>2, <4>3, AnswerKeepsWellFormed
      <4> QED
        BY <4>1, <4>4
    <3>3. CASE Asked(p)
      <4> DEFINE ids == [k \in DOMAIN cs2 |-> cs2[k].id]
      <4>1. h # <<>> /\ cs = <<>> /\ cs2 \in Batches
            /\ h2 = Append(h, Message("assistant", ids))
        BY <3>3 DEF Asked
      <4>2. cs2 \in Seq(Calls) /\ ids \in Seq(1..MaxCalls) /\ Len(ids) = Len(cs2)
        BY <4>1, BatchFacts
      <4>3. \A k \in 1..Len(ids) : cs2[k].id = ids[k]
        BY <4>2
      <4>4. WellFormed(h, <<>>)
        BY <2>1, <4>1
      <4> HIDE DEF h, cs, h2, cs2, ids
      <4>5. WellFormed(Append(h, Message("assistant", ids)), cs2)
        BY <2>1, <4>1, <4>2, <4>3, <4>4, AnswerKeepsWellFormed
      <4> QED
        BY <4>1, <4>5
    <3>4. CASE Settled(p)
      <4>1. cs # <<>> /\ cs2 = Tail(cs) /\ h2 = WithResult(h, Head(cs), "ok")
        BY <3>4 DEF Settled
      <4> HIDE DEF h, cs, h2, cs2
      <4>2. WellFormed(WithResult(h, Head(cs), "ok"), Tail(cs))
        BY <2>1, <4>1, ResultKeepsWellFormed
      <4> QED
        BY <4>1, <4>2
    <3> QED
      BY <1>1, <1>2, <1>3, <3>1, <3>2, <3>3, <3>4 DEF TurnStep
  <2>3. \A q \in Projects \ {p} : WellFormed(Turn(q)'.history, Turn(q)'.calls)
    BY <1>1, <1>3 DEF TurnStep
  <2> QED
    BY <2>2, <2>3 DEF Histories
<1>4. CASE LoneDispatch
  BY <1>1, <1>4 DEF LoneDispatch, Histories
<1> QED
  BY <1>3, <1>4, NextIsTurnStep

-----------------------------------------------------------------------------
(* Calls run once, and in their order. *)

(* The ids of a longer history. *)
LEMMA ToldAppend ==
    ASSUME NEW h \in Seq(Messages), NEW m \in Messages
    PROVE  Told(Append(h, m)) = Told(h) \cup {m.ids[k] : k \in DOMAIN m.ids}
<1> DEFINE h2 == Append(h, m)
           n == Len(h)
<1>1. /\ n \in Nat /\ DOMAIN h = 1..n /\ DOMAIN h2 = 1..(n + 1)
      /\ \A i \in 1..n : h2[i] = h[i]
      /\ h2[n + 1] = m
  BY AppendFacts
<1> HIDE DEF h2, n
<1>2. ASSUME NEW x \in Told(h2)
      PROVE  x \in Told(h) \cup {m.ids[k] : k \in DOMAIN m.ids}
  <2>1. PICK i \in DOMAIN h2 : x \in ToSet(h2[i].ids)
    BY <1>2 DEF Told
  <2> QED
    BY <1>1, <2>1 DEF Told, ToSet
<1>3. ASSUME NEW x \in Told(h)
      PROVE  x \in Told(h2)
  <2>1. PICK i \in DOMAIN h : x \in ToSet(h[i].ids)
    BY <1>3 DEF Told
  <2>2. i \in DOMAIN h2 /\ h2[i] = h[i]
    BY <1>1
  <2> QED
    BY <2>1, <2>2 DEF Told
<1>4. ASSUME NEW k \in DOMAIN m.ids
      PROVE  m.ids[k] \in Told(h2)
  <2>1. n + 1 \in DOMAIN h2 /\ h2[n + 1] = m
    BY <1>1
  <2>2. m.ids[k] \in ToSet(h2[n + 1].ids)
    BY <2>1 DEF ToSet
  <2> QED
    BY <2>1, <2>2 DEF Told
<1> QED
  BY <1>2, <1>3, <1>4 DEF h2

(* Without calls there is nothing to order. *)
LEMMA NoneInOrder ==
    ASSUME NEW h, Told(h) = {}, NEW r, NEW n
    PROVE  InOrder(h, <<>>, r, n)
BY DEF InOrder

(* A history that has not grown, next to new ids and new calls. *)
LEMMA OthersInOrder ==
    ASSUME NEW h, NEW waiting, NEW r \in Seq(Calls), NEW n \in Nat, InOrder(h, waiting, r, n),
           NEW call \in Calls, call.id \notin Told(h)
    PROVE  InOrder(h, waiting, Append(r, call), n)
<1> DEFINE r2 == Append(r, call)
<1>1. /\ Len(r) \in Nat /\ DOMAIN r = 1..Len(r) /\ DOMAIN r2 = 1..(Len(r) + 1)
      /\ \A i \in 1..Len(r) : r2[i] = r[i]
      /\ r2[Len(r) + 1] = call
  OBVIOUS
<1> HIDE DEF r2
<1>2. \A i \in DOMAIN r2 : r2[i].id \in Told(h) => i \in DOMAIN r /\ r2[i] = r[i]
  BY <1>1
<1> QED
  BY <1>2 DEF InOrder, r2

(* New ids leave a history alone. *)
LEMMA LaterInOrder ==
    ASSUME NEW h, NEW waiting, NEW r, NEW n \in Nat, NEW n2 \in Nat, n <= n2,
           InOrder(h, waiting, r, n)
    PROVE  InOrder(h, waiting, r, n2)
BY DEF InOrder

(* Calls with new ids come last. *)
LEMMA AskedInOrder ==
    ASSUME NEW h \in Seq(Messages), NEW n \in Nat, NEW r \in Seq(Calls),
           InOrder(h, <<>>, r, n), \A i \in DOMAIN r : r[i].id <= n,
           NEW asked \in Seq(Calls), NEW ids \in Seq(1..MaxCalls), Len(ids) = Len(asked),
           \A k \in 1..Len(asked) : asked[k].id = n + k /\ ids[k] = n + k
    PROVE  InOrder(Append(h, Message("assistant", ids)), asked, r, n + Len(asked))
<1> DEFINE m == Message("assistant", ids)
           h2 == Append(h, m)
           told == Told(h)
           told2 == Told(h2)
<1>1. m \in Messages /\ m.ids = ids
  BY DEF Message, Messages, Roles
<1>2. Len(asked) \in Nat /\ DOMAIN asked = 1..Len(asked) /\ DOMAIN ids = 1..Len(asked)
  OBVIOUS
<1>3. told2 = told \cup {ids[k] : k \in DOMAIN ids}
  BY <1>1, ToldAppend
<1>4. told \subseteq 1..n
  BY DEF InOrder
<1>5. \A i \in DOMAIN r : r[i].id \in 1..MaxCalls
  <2> SUFFICES ASSUME NEW i \in DOMAIN r PROVE r[i].id \in 1..MaxCalls
    OBVIOUS
  <2>1. r[i] \in Calls
    OBVIOUS
  <2> QED
    BY <2>1 DEF Calls
<1> HIDE DEF m, h2, told, told2
<1>6. told2 \subseteq 1..(n + Len(asked))
  <2>1. ASSUME NEW k \in DOMAIN ids PROVE ids[k] \in 1..(n + Len(asked))
    <3>1. k \in 1..Len(asked) /\ ids[k] = n + k
      BY <1>2
    <3> QED
      BY <1>2, <3>1
  <2>2. 1..n \subseteq 1..(n + Len(asked))
    BY <1>2
  <2> QED
    BY <1>3, <1>4, <2>1, <2>2
<1>7. \A k \in DOMAIN asked : asked[k].id \in told2
  BY <1>2, <1>3
<1>8. \A j, k \in DOMAIN asked : j < k => asked[j].id < asked[k].id
  BY <1>2
<1>9. \A i \in DOMAIN r, k \in DOMAIN asked : r[i].id < asked[k].id
  BY <1>2, <1>5, AgentAssumption
<1>10. \A i \in DOMAIN r : r[i].id \in told2 => r[i].id \in told
  BY <1>2, <1>3, <1>5, AgentAssumption
<1>11. \A i, j \in DOMAIN r : i < j /\ r[i].id \in told2 /\ r[j].id \in told2
                              => r[i].id < r[j].id
  BY <1>10 DEF InOrder, told
<1> QED
  BY <1>6, <1>7, <1>8, <1>9, <1>11 DEF InOrder, told2, h2, m

(* The first call that waits is not among those that ran, nor in any other *)
(* history; when it has run, the others still come after it.               *)
LEMMA SettledInOrder ==
    ASSUME NEW h \in Seq(Messages), NEW open \in Seq(Calls), open # <<>>,
           NEW r \in Seq(Calls), NEW n \in Nat, InOrder(h, open, r, n),
           NEW r2 \in {r, Append(r, Head(open))}
    PROVE  /\ Told(WithResult(h, Head(open), "ok")) = Told(h)
           /\ Head(open).id \in Told(h)
           /\ \A i \in DOMAIN r : r[i].id # Head(open).id
           /\ InOrder(WithResult(h, Head(open), "ok"), Tail(open), r2, n)
<1> DEFINE call == Head(open)
           told == Told(h)
<1>1. /\ call \in Calls /\ call = open[1] /\ 1 \in DOMAIN open
      /\ DOMAIN Tail(open) = 1..(Len(open) - 1) /\ DOMAIN open = 1..Len(open)
      /\ Len(open) \in Nat
      /\ \A k \in 1..(Len(open) - 1) : Tail(open)[k] = open[k + 1]
  OBVIOUS
<1>2. call.id \in told
  BY <1>1 DEF InOrder
<1>3. Told(WithResult(h, call, "ok")) = told
  <2> DEFINE m == Message("tool", <<call.id>>)
  <2>1. m \in Messages /\ m.ids = <<call.id>>
    BY <1>1 DEF Calls, Message, Messages, Roles
  <2>2. Told(Append(h, m)) = told \cup {m.ids[k] : k \in DOMAIN m.ids}
    BY <2>1, ToldAppend
  <2>3. {m.ids[k] : k \in DOMAIN m.ids} = {call.id}
    <3> DEFINE ids == <<call.id>>
    <3>1. DOMAIN ids = {1} /\ ids[1] = call.id
      OBVIOUS
    <3> HIDE DEF ids
    <3>2. {ids[k] : k \in DOMAIN ids} = {call.id}
      BY <3>1
    <3> QED
      BY <2>1, <3>2 DEF ids
  <2> QED
    BY <1>2, <2>2, <2>3 DEF WithResult
<1>4. \A i \in DOMAIN r : r[i].id \in told => r[i].id < call.id
  BY <1>1 DEF InOrder
<1>5. told \subseteq 1..n
  BY DEF InOrder
<1>6. \A i \in DOMAIN r : r[i].id # call.id
  BY <1>2, <1>4, <1>5
<1> DEFINE rest == Tail(open)
<1>7. /\ \A k \in DOMAIN rest : rest[k].id \in told /\ call.id < rest[k].id
      /\ \A j, k \in DOMAIN rest : j < k => rest[j].id < rest[k].id
      /\ \A i \in DOMAIN r, k \in DOMAIN rest : r[i].id \in told => r[i].id < rest[k].id
  <2>1. \A k \in DOMAIN rest : k + 1 \in DOMAIN open /\ rest[k] = open[k + 1] /\ k \in Nat /\ 1 < k + 1
    BY <1>1
  <2>2. /\ \A k \in DOMAIN open : open[k].id \in told
        /\ \A j, k \in DOMAIN open : j < k => open[j].id < open[k].id
        /\ \A i \in DOMAIN r, k \in DOMAIN open : r[i].id \in told => r[i].id < open[k].id
    BY DEF InOrder
  <2> HIDE DEF rest, told, call
  <2>3. \A k \in DOMAIN rest : rest[k].id \in told /\ call.id < rest[k].id
    BY <1>1, <2>1, <2>2
  <2>4. \A j, k \in DOMAIN rest : j < k => rest[j].id < rest[k].id
    <3> SUFFICES ASSUME NEW j \in DOMAIN rest, NEW k \in DOMAIN rest, j < k
                 PROVE  rest[j].id < rest[k].id
      OBVIOUS
    <3>1. /\ j + 1 \in DOMAIN open /\ k + 1 \in DOMAIN open /\ j + 1 < k + 1
          /\ rest[j] = open[j + 1] /\ rest[k] = open[k + 1]
      BY <2>1
    <3> QED
      BY <2>2, <3>1
  <2> QED
    BY <2>1, <2>2, <2>3, <2>4
<1>8. /\ \A i \in DOMAIN r2, k \in DOMAIN rest : r2[i].id \in told => r2[i].id < rest[k].id
      /\ \A i, j \in DOMAIN r2 : i < j /\ r2[i].id \in told /\ r2[j].id \in told
                                 => r2[i].id < r2[j].id
  <2>1. CASE r2 = r
    BY <1>7, <2>1 DEF InOrder
  <2>2. CASE r2 = Append(r, call)
    <3>1. /\ Len(r) \in Nat /\ DOMAIN r = 1..Len(r) /\ DOMAIN r2 = 1..(Len(r) + 1)
          /\ \A i \in 1..Len(r) : r2[i] = r[i]
          /\ r2[Len(r) + 1] = call
      BY <1>1, <2>2
    <3>2. \A i, j \in DOMAIN r : i < j /\ r[i].id \in told /\ r[j].id \in told
                                 => r[i].id < r[j].id
      BY DEF InOrder
    <3> HIDE DEF rest, call, told
    <3>3. ASSUME NEW i \in DOMAIN r2, NEW j \in DOMAIN r2, i < j,
                 r2[i].id \in told, r2[j].id \in told
          PROVE  r2[i].id < r2[j].id
      <4>1. i \in 1..Len(r) /\ r2[i] = r[i]
        BY <3>1, <3>3
      <4>2. CASE j \in 1..Len(r)
        BY <3>1, <3>2, <3>3, <4>1, <4>2
      <4>3. CASE j = Len(r) + 1
        BY <1>4, <3>1, <3>3, <4>1, <4>3
      <4> QED
        BY <3>1, <4>2, <4>3
    <3>4. \A i \in DOMAIN r2, k \in DOMAIN rest : r2[i].id \in told => r2[i].id < rest[k].id
      BY <1>7, <3>1
    <3> QED
      BY <3>3, <3>4
  <2> QED
    BY <2>1, <2>2
<1>9. InOrder(WithResult(h, call, "ok"), rest, r2, n)
  <2> HIDE DEF rest, call, told
  <2> QED
    BY <1>3, <1>5, <1>7, <1>8 DEF InOrder
<1> QED
  BY <1>2, <1>3, <1>6, <1>9

(* Every step keeps the order. *)
LEMMA NextKeepsOrders ==
    ASSUME TypeOK, Modes, Orders, [Next]_vars, TypeOK'
    PROVE  Orders'
<1> DEFINE Told1(p) == Told(Turn(p).history)
           Told2(p) == Told(Turn(p)'.history)
           Order1(p) == InOrder(Turn(p).history, Turn(p).calls, ran, issued)
           Order2(p) == InOrder(Turn(p)'.history, Turn(p)'.calls, ran', issued')
           Ran2 == /\ \A i \in DOMAIN ran' : ran'[i].id <= issued'
                   /\ \A i, j \in DOMAIN ran' : i < j => ran'[i].id # ran'[j].id
<1>0. /\ ran \in Seq(Calls) /\ issued \in Nat /\ issued' \in Nat /\ MaxCalls \in Nat
      /\ \A i \in DOMAIN ran : ran[i].id <= issued
      /\ \A i, j \in DOMAIN ran : i < j => ran[i].id # ran[j].id
      /\ \A p \in Projects : Order1(p)
      /\ \A p, q \in Projects : p # q => Told1(p) \cap Told1(q) = {}
  <2>1. ran \in Seq(Calls) /\ issued \in 0..MaxCalls
    BY DEF TypeOK, AgentTypeOK
  <2>2. issued' \in 0..MaxCalls
    BY DEF TypeOK, AgentTypeOK
  <2>3. MaxCalls \in Nat
    BY AgentAssumption
  <2>4. /\ \A i \in DOMAIN ran : ran[i].id <= issued
        /\ \A i, j \in DOMAIN ran : i < j => ran[i].id # ran[j].id
        /\ \A p \in Projects : Order1(p)
        /\ \A p, q \in Projects : p # q => Told1(p) \cap Told1(q) = {}
    BY Zenon DEF Orders
  <2>5. issued \in Nat /\ issued' \in Nat
    BY <2>1, <2>2, <2>3
  <2> HIDE DEF Order1, Told1
  <2> QED
    BY <2>1, <2>3, <2>4, <2>5
<1>1. Told(<<>>) = {}
  BY DEF Told
<1>2. \A p \in Projects : Told1(p) \subseteq 1..issued
  BY <1>0 DEF InOrder
<1>3. ASSUME Ran2, \A p \in Projects : Order2(p),
             \A p, q \in Projects : p # q => Told2(p) \cap Told2(q) = {}
      PROVE  Orders'
  BY <1>3 DEF Orders
<1> HIDE DEF Ran2, Order2, Told2, Order1, Told1
<1>4. ASSUME NEW p \in Projects, TurnStep(p)
      PROVE  Orders'
  <2> DEFINE h == Turn(p).history
             cs == Turn(p).calls
             h2 == Turn(p)'.history
             cs2 == Turn(p)'.calls
  <2>0. /\ h \in Seq(Messages) /\ cs \in Seq(Calls)
        /\ Told1(p) = Told(h) /\ Told2(p) = Told(h2)
        /\ Order1(p) <=> InOrder(h, cs, ran, issued)
        /\ Order2(p) <=> InOrder(h2, cs2, ran', issued')
    BY TurnTypes DEF Told1, Told2, Order1, Order2
  <2>1. \A q \in Projects \ {p} :
          /\ Told2(q) = Told1(q)
          /\ Order2(q) <=> InOrder(Turn(q).history, Turn(q).calls, ran', issued')
    BY <1>4 DEF TurnStep, Same, Told1, Told2, Order2
  <2> HIDE DEF h, cs, h2, cs2
  <2>2. ASSUME \A q \in Projects \ {p} : Told2(p) \cap Told1(q) = {}
        PROVE  \A q, o \in Projects : q # o => Told2(q) \cap Told2(o) = {}
    <3> SUFFICES ASSUME NEW q \in Projects, NEW o \in Projects, q # o
                 PROVE  Told2(q) \cap Told2(o) = {}
      OBVIOUS
    <3>1. CASE q = p
      BY <2>1, <2>2, <3>1
    <3>2. CASE o = p
      BY <2>1, <2>2, <3>2
    <3>3. CASE q # p /\ o # p
      BY <1>0, <2>1, <3>3
    <3> QED
      BY <3>1, <3>2, <3>3
  <2>3. CASE /\ Same(p) \/ Forgotten(p) \/ Begun(p) \/ Answered(p)
             /\ UNCHANGED <<ran, issued>>
    <3>1. Told2(p) = Told1(p) \/ Told2(p) = {}
      <4>1. CASE Same(p)
        BY <2>0, <4>1 DEF Same, h, h2
      <4>2. CASE Forgotten(p)
        BY <1>1, <2>0, <4>2 DEF Forgotten, h2
      <4>3. CASE Begun(p)
        <5>1. h2 = <<Message("system", <<>>), Message("user", <<>>)>>
          BY <4>3 DEF Begun, h2
        <5>2. DOMAIN h2 = {1, 2} /\ h2[1].ids = <<>> /\ h2[2].ids = <<>>
          BY <5>1 DEF Message
        <5>3. Told(h2) = {}
          BY <5>2 DEF Told, ToSet
        <5> QED
          BY <2>0, <5>3
      <4>4. CASE Answered(p)
        <5>1. h2 = Append(h, Message("assistant", <<>>))
          BY <4>4 DEF Answered, h, h2
        <5>2. Message("assistant", <<>>) \in Messages /\ Message("assistant", <<>>).ids = <<>>
          BY DEF Message, Messages, Roles
        <5>3. Told(h2) = Told(h) \cup {<<>>[k] : k \in DOMAIN <<>>}
          BY <2>0, <5>1, <5>2, ToldAppend
        <5> QED
          BY <2>0, <5>3
      <4> QED
        BY <2>3, <4>1, <4>2, <4>3, <4>4
    <3>2. Order2(p)
      <4>1. CASE Same(p)
        BY <1>0, <2>0, <2>3, <4>1 DEF Same, h, cs, h2, cs2
      <4>2. CASE Forgotten(p) \/ Begun(p) \/ Answered(p)
        <5>1. cs2 = <<>>
          BY <4>2 DEF Forgotten, Begun, Answered, cs2
        <5>2. InOrder(h, cs, ran, issued)
          BY <1>0, <2>0
        <5>3. InOrder(h2, cs2, ran, issued)
          BY <2>0, <3>1, <5>1, <5>2 DEF InOrder
        <5> QED
          BY <2>0, <2>3, <5>3
      <4> QED
        BY <2>3, <4>1, <4>2
    <3>3. \A q \in Projects : Order2(q)
      BY <1>0, <2>1, <2>3, <3>2 DEF Order1
    <3>4. Ran2
      BY <1>0, <2>3 DEF Ran2
    <3>5. \A q \in Projects \ {p} : Told2(p) \cap Told1(q) = {}
      BY <1>0, <3>1
    <3> QED
      BY <1>3, <2>2, <3>3, <3>4, <3>5
  <2>4. CASE Asked(p) /\ UNCHANGED ran
    <3> DEFINE ids == [k \in DOMAIN cs2 |-> cs2[k].id]
    <3>1. /\ cs = <<>> /\ cs2 \in Batches /\ issued' = issued + Len(cs2)
          /\ h2 = Append(h, Message("assistant", ids))
      BY <2>4 DEF Asked, h, cs, h2, cs2
    <3>2. /\ cs2 \in Seq(Calls) /\ Len(cs2) \in Nat
          /\ ids \in Seq(1..MaxCalls) /\ Len(ids) = Len(cs2)
          /\ \A k \in 1..Len(cs2) : cs2[k].id = issued + k /\ ids[k] = issued + k
      <4>1. /\ cs2 \in Seq(Calls) /\ \A k \in DOMAIN cs2 : cs2[k].id = issued + k
            /\ ids \in Seq(1..MaxCalls) /\ Len(ids) = Len(cs2)
        BY <3>1, BatchFacts
      <4>2. DOMAIN cs2 = 1..Len(cs2) /\ Len(cs2) \in Nat
        BY <4>1
      <4> QED
        BY <4>1, <4>2
    <3> HIDE DEF ids
    <3>3. InOrder(h, <<>>, ran, issued)
      BY <1>0, <2>0, <3>1
    <3>4. InOrder(Append(h, Message("assistant", ids)), cs2, ran, issued + Len(cs2))
      BY <1>0, <2>0, <3>2, <3>3, AskedInOrder
    <3>5. Order2(p)
      BY <2>0, <2>4, <3>1, <3>4
    <3>6. \A q \in Projects \ {p} : Order2(q)
      <4> SUFFICES ASSUME NEW q \in Projects \ {p}
                   PROVE  InOrder(Turn(q).history, Turn(q).calls, ran', issued')
        BY <2>1
      <4>1. InOrder(Turn(q).history, Turn(q).calls, ran, issued)
        BY <1>0 DEF Order1
      <4>2. issued <= issued'
        BY <1>0, <3>1, <3>2
      <4>3. InOrder(Turn(q).history, Turn(q).calls, ran, issued')
        BY <1>0, <4>1, <4>2, LaterInOrder
      <4> QED
        BY <2>4, <4>3
    <3>7. Ran2
      <4> SUFFICES ASSUME NEW i \in DOMAIN ran PROVE ran[i].id <= issued'
        BY <1>0, <2>4 DEF Ran2
      <4>1. ran[i] \in Calls
        BY <1>0
      <4> QED
        BY <1>0, <3>1, <3>2, <4>1 DEF Calls
    <3>8. \A q \in Projects \ {p} : Told2(p) \cap Told1(q) = {}
      <4>1. Message("assistant", ids) \in Messages /\ Message("assistant", ids).ids = ids
        BY <3>2 DEF Message, Messages, Roles
      <4>2. Told(h2) = Told(h) \cup {ids[k] : k \in DOMAIN ids}
        BY <2>0, <3>1, <4>1, ToldAppend
      <4>3. \A k \in DOMAIN ids : ids[k] \notin 1..issued
        <5>1. DOMAIN ids = 1..Len(cs2)
          BY <3>2
        <5> SUFFICES ASSUME NEW k \in 1..Len(cs2) PROVE ids[k] \notin 1..issued
          BY <5>1
        <5>2. ids[k] = issued + k
          BY <3>2
        <5> QED
          BY <1>0, <5>2
      <4> QED
        BY <1>0, <1>2, <2>0, <4>2, <4>3
    <3> QED
      BY <1>3, <2>2, <3>5, <3>6, <3>7, <3>8
  <2>5. CASE Settled(p) /\ UNCHANGED issued
    <3>1. /\ cs # <<>> /\ cs2 = Tail(cs) /\ h2 = WithResult(h, Head(cs), "ok")
          /\ ran' \in {ran, Append(ran, Head(cs))}
      BY <2>5 DEF Settled, h, cs, h2, cs2
    <3>2. InOrder(h, cs, ran, issued)
      BY <1>0, <2>0
    <3>3. /\ Told(WithResult(h, Head(cs), "ok")) = Told(h)
          /\ Head(cs).id \in Told(h)
          /\ \A i \in DOMAIN ran : ran[i].id # Head(cs).id
          /\ InOrder(WithResult(h, Head(cs), "ok"), Tail(cs), ran', issued)
      BY <1>0, <2>0, <3>1, <3>2, SettledInOrder
    <3>4. Head(cs) \in Calls /\ Head(cs).id \in 1..issued
      BY <1>2, <2>0, <3>1, <3>3
    <3>5. Order2(p)
      BY <2>0, <2>5, <3>1, <3>3
    <3>6. \A q \in Projects \ {p} : Order2(q)
      <4> SUFFICES ASSUME NEW q \in Projects \ {p}
                   PROVE  InOrder(Turn(q).history, Turn(q).calls, ran', issued)
        BY <2>1, <2>5
      <4>1. InOrder(Turn(q).history, Turn(q).calls, ran, issued)
        BY <1>0 DEF Order1
      <4>2. Head(cs).id \notin Told(Turn(q).history)
        BY <1>0, <2>0, <3>3 DEF Told1
      <4>3. InOrder(Turn(q).history, Turn(q).calls, Append(ran, Head(cs)), issued)
        BY <1>0, <3>4, <4>1, <4>2, OthersInOrder
      <4> QED
        BY <3>1, <4>1, <4>3
    <3>7. Ran2
      <4>1. CASE ran' = ran
        BY <1>0, <2>5, <4>1 DEF Ran2
      <4>2. CASE ran' = Append(ran, Head(cs))
        <5>1. /\ Len(ran) \in Nat /\ DOMAIN ran = 1..Len(ran)
              /\ DOMAIN ran' = 1..(Len(ran) + 1)
              /\ \A i \in 1..Len(ran) : ran'[i] = ran[i]
              /\ ran'[Len(ran) + 1] = Head(cs)
          BY <1>0, <3>4, <4>2
        <5> QED
          BY <1>0, <2>5, <3>3, <3>4, <5>1 DEF Ran2
      <4> QED
        BY <3>1, <4>1, <4>2
    <3>8. Told2(p) = Told1(p)
      BY <2>0, <3>1, <3>3
    <3>9. \A q \in Projects \ {p} : Told2(p) \cap Told1(q) = {}
      BY <1>0, <3>8
    <3> QED
      BY <1>3, <2>2, <3>5, <3>6, <3>7, <3>9
  <2> QED
    BY <1>4, <2>3, <2>4, <2>5 DEF TurnStep
<1>5. CASE LoneDispatch
  <2>1. PICK call \in Calls : call.id = 1 /\ ran' \in {ran, Append(ran, call)}
    BY <1>5 DEF LoneDispatch
  <2>2. issued = 0 /\ issued' = 1
    BY <1>5 DEF LoneDispatch
  <2>3. ran = <<>>
    <3> SUFFICES ASSUME ran # <<>> PROVE FALSE
      OBVIOUS
    <3>1. 1 \in DOMAIN ran /\ ran[1] \in Calls
      BY <1>0
    <3>2. ran[1].id >= 1
      BY <3>1, AgentAssumption DEF Calls
    <3>3. ran[1].id <= 0 /\ ran[1].id \in Nat
      BY <1>0, <2>2, <3>1, AgentAssumption DEF Calls
    <3> QED
      BY <3>2, <3>3
  <2>4. ran' = <<>> \/ ran' = <<call>>
    BY <2>1, <2>3
  <2>5. Ran2
    <3>1. CASE ran' = <<>>
      BY <3>1 DEF Ran2
    <3>2. CASE ran' = <<call>>
      <4>1. DOMAIN ran' = {1} /\ ran'[1].id = 1
        BY <2>1, <3>2
      <4> QED
        BY <2>2, <4>1 DEF Ran2
    <3> QED
      BY <2>4, <3>1, <3>2
  <2>6. \A p \in Projects : Turn(p)'.history = <<>> /\ Turn(p)'.calls = <<>>
    BY <1>5 DEF LoneDispatch, Forgotten
  <2>7. \A p \in Projects : Told2(p) = {} /\ Order2(p)
    BY <1>1, <2>6, NoneInOrder DEF Told2, Order2
  <2> QED
    BY <1>3, <2>5, <2>7
<1> QED
  BY <1>4, <1>5, NextIsTurnStep

-----------------------------------------------------------------------------
(* Only approved tools run. *)

(* What has been entered, and said yes to, only grows. *)
Grows(call) ==
    /\ ran' \in {ran, Append(ran, call)}
    /\ granted \subseteq granted' /\ allowed \subseteq allowed'

(* The ways in which a new call may be let through. *)
MayEnter(call) ==
    \/ Confirmation[call.name] = "Auto"
    \/ front # "desktop" /\ overrides = Registered
    \/ call.id \in granted' \cup allowed'
    \/ /\ Confirmation[call.name] = "ConfirmOnce"
       /\ \E j \in DOMAIN ran : ran[j].name = call.name /\ ran[j].id \in granted \cup allowed

(* What a longer sequence of entered calls looks like. *)
LEMMA GrowsFacts ==
    ASSUME TypeOK, NEW call \in Calls, Grows(call)
    PROVE  /\ Len(ran) \in Nat /\ DOMAIN ran = 1..Len(ran)
           /\ \A i \in DOMAIN ran : i \in DOMAIN ran' /\ ran'[i] = ran[i]
           /\ ran' = Append(ran, call) =>
                /\ DOMAIN ran' = 1..(Len(ran) + 1) /\ ran'[Len(ran) + 1] = call
<1>1. ran \in Seq(Calls)
  BY DEF TypeOK, AgentTypeOK
<1>2. CASE ran' = ran
  <2>1. ran # Append(ran, call)
    BY <1>1
  <2> QED
    BY <1>1, <1>2, <2>1
<1>3. CASE ran' = Append(ran, call)
  BY <1>1, <1>3
<1> QED
  BY <1>2, <1>3 DEF Grows

(* A tool that counts as confirmed goes on to count. *)
LEMMA StillLetThrough ==
    ASSUME TypeOK, NEW call \in Calls, Grows(call)
    PROVE  /\ \A n : LetThrough(n) => LetThrough(n)'
           /\ /\ ran' = Append(ran, call)
              /\ call.id \in granted' \cup allowed'
              => LetThrough(call.name)'
<1>1. /\ Len(ran) \in Nat
      /\ \A i \in DOMAIN ran : i \in DOMAIN ran' /\ ran'[i] = ran[i]
      /\ ran' = Append(ran, call) =>
           /\ DOMAIN ran' = 1..(Len(ran) + 1) /\ ran'[Len(ran) + 1] = call
  BY GrowsFacts
<1>2. granted \subseteq granted' /\ allowed \subseteq allowed'
  BY DEF Grows
<1>3. \A n : LetThrough(n) => LetThrough(n)'
  BY <1>1, <1>2 DEF LetThrough
<1>4. ASSUME ran' = Append(ran, call), call.id \in granted' \cup allowed'
      PROVE  LetThrough(call.name)'
  <2>1. Len(ran) + 1 \in DOMAIN ran' /\ ran'[Len(ran) + 1] = call
    BY <1>1, <1>4
  <2> QED
    BY <1>4, <2>1 DEF LetThrough
<1> QED
  BY <1>3, <1>4

(* Approved entries stay approved, and a new one is approved if it may enter. *)
LEMMA EntriesApproved ==
    ASSUME TypeOK, OnlyApprovedToolsRun, NEW call \in Calls, Grows(call),
           front' = front, front # "desktop" => overrides' = overrides,
           ran' = Append(ran, call) => MayEnter(call)
    PROVE  OnlyApprovedToolsRun'
<1>1. /\ Len(ran) \in Nat /\ DOMAIN ran = 1..Len(ran)
      /\ \A i \in DOMAIN ran : i \in DOMAIN ran' /\ ran'[i] = ran[i]
      /\ ran' = Append(ran, call) =>
           /\ DOMAIN ran' = 1..(Len(ran) + 1) /\ ran'[Len(ran) + 1] = call
  BY GrowsFacts
<1>2. granted \subseteq granted' /\ allowed \subseteq allowed'
  BY DEF Grows
<1> DEFINE Ok(i) == LET yes == granted' \cup allowed' IN
                    \/ Confirmation[ran'[i].name] = "Auto"
                    \/ front' # "desktop" /\ overrides' = Registered
                    \/ ran'[i].id \in yes
                    \/ /\ Confirmation[ran'[i].name] = "ConfirmOnce"
                       /\ \E j \in 1..(i - 1) : ran'[j].name = ran'[i].name /\ ran'[j].id \in yes
<1>3. ASSUME NEW i \in DOMAIN ran
      PROVE  Ok(i)
  <2>1. ran'[i] = ran[i]
    BY <1>1
  <2>2. \A j \in 1..(i - 1) : j \in DOMAIN ran /\ ran'[j] = ran[j]
    BY <1>1
  <2>3. LET yes == granted \cup allowed IN
        \/ Confirmation[ran[i].name] = "Auto"
        \/ front # "desktop" /\ overrides = Registered
        \/ ran[i].id \in yes
        \/ /\ Confirmation[ran[i].name] = "ConfirmOnce"
           /\ \E j \in 1..(i - 1) : ran[j].name = ran[i].name /\ ran[j].id \in yes
    BY DEF OnlyApprovedToolsRun
  <2> QED
    BY <1>2, <2>1, <2>2, <2>3
<1>4. ASSUME ran' = Append(ran, call)
      PROVE  Ok(Len(ran) + 1)
  <2>1. ran'[Len(ran) + 1] = call
    BY <1>1, <1>4
  <2>2. MayEnter(call)
    BY <1>4
  <2>3. \A j \in DOMAIN ran : j \in 1..(Len(ran) + 1 - 1) /\ ran'[j] = ran[j]
    BY <1>1
  <2> QED
    BY <1>2, <2>1, <2>2, <2>3 DEF MayEnter
<1>5. \A i \in DOMAIN ran' : Ok(i)
  <2>1. CASE ran' = ran
    BY <1>3, <2>1
  <2>2. CASE ran' = Append(ran, call)
    <3>1. \A i \in DOMAIN ran' : i \in DOMAIN ran \/ i = Len(ran) + 1
      BY <1>1, <2>2
    <3> HIDE DEF Ok
    <3> QED
      BY <1>3, <1>4, <2>2, <3>1
  <2> QED
    BY <2>1, <2>2 DEF Grows
<1> QED
  BY <1>5 DEF OnlyApprovedToolsRun

(* A call that the gate lets pass without a question may enter. *)
LEMMA UngatedMayEnter ==
    ASSUME TypeOK, Modes, NEW call, call.name \in Registered,
           ~ Gated(overrides, confirmed_once, call.name), \A n \in confirmed_once : LetThrough(n)
    PROVE  MayEnter(call)
<1>1. CASE call.name \in overrides
  BY <1>1 DEF Modes, MayEnter
<1>2. CASE Confirmation[call.name] = "Auto"
  BY <1>2 DEF MayEnter
<1>3. CASE Confirmation[call.name] = "ConfirmOnce" /\ call.name \in confirmed_once
  BY <1>3 DEF LetThrough, MayEnter
<1> QED
  BY <1>1, <1>2, <1>3 DEF Gated

(* A dispatch under the policy of the turn. *)
LEMMA DispatchKeepsApprovals ==
    ASSUME TypeOK, Modes, Approvals, NEW call \in Calls, NEW result,
           Dispatch(call, overrides, confirmed_once, result),
           UNCHANGED <<front, overrides, allowed, sessions>>
    PROVE  Approvals'
<1>0. \A n \in confirmed_once : LetThrough(n)
  BY DEF Approvals
<1>1. Grows(call)
  BY DispatchIs DEF Denied, Entered, Grows
<1>2. ASSUME ran' = Append(ran, call)
      PROVE  MayEnter(call)
  <2>1. Entered(call, overrides, confirmed_once, result)
    <3>1. ran \in Seq(Calls)
      BY DEF TypeOK, AgentTypeOK
    <3>2. ran # Append(ran, call)
      BY <3>1
    <3> QED
      BY <1>2, <3>2, DispatchIs DEF Denied
  <2>2. CASE granted' = granted \cup {call.id}
    BY <2>2 DEF MayEnter
  <2>3. CASE call.name \in Registered /\ ~ Gated(overrides, confirmed_once, call.name)
    BY <1>0, <2>3, UngatedMayEnter
  <2> QED
    BY <2>1, <2>2, <2>3 DEF Entered
<1>3. OnlyApprovedToolsRun'
  BY <1>1, <1>2, EntriesApproved DEF Approvals
<1>4. \A n \in confirmed_once' : n \in confirmed_once \/ LetThrough(n)'
  <2>1. CASE Denied(call, overrides, confirmed_once, result)
    BY <2>1 DEF Denied
  <2>2. CASE Entered(call, overrides, confirmed_once, result) /\ confirmed_once' = confirmed_once
    BY <2>2
  <2>3. CASE /\ Entered(call, overrides, confirmed_once, result)
             /\ granted' = granted \cup {call.id}
             /\ confirmed_once' = confirmed_once \cup
                    {n \in {call.name} : Confirmation[n] = "ConfirmOnce"}
    <3>1. LetThrough(call.name)'
      BY <1>1, <2>3, StillLetThrough DEF Entered
    <3> QED
      BY <2>3, <3>1
  <2> QED
    BY <2>1, <2>2, <2>3, DispatchIs DEF Entered
<1>5. \A n : LetThrough(n) => LetThrough(n)'
  BY <1>1, StillLetThrough
<1> QED
  BY <1>0, <1>3, <1>4, <1>5 DEF Approvals

(* Every step keeps the approvals. *)
LEMMA NextKeepsApprovals ==
    ASSUME TypeOK, Modes, Approvals, [Next]_vars
    PROVE  Approvals'
<1>0. /\ OnlyApprovedToolsRun
      /\ \A n \in confirmed_once : LetThrough(n)
      /\ \A p \in Projects : sessions[p] # NoSession =>
           \A n \in sessions[p].confirmed_once : LetThrough(n)
      /\ sessions \in [Projects -> Sessions \cup {NoSession}]
      /\ project \in Projects /\ owner \in Projects
  BY DEF Approvals, TypeOK
<1>1. ASSUME UNCHANGED <<ran, granted, allowed, front>>,
             front # "desktop" => overrides' = overrides,
             confirmed_once' \in {confirmed_once, {}},
             \A p \in Projects : sessions'[p] \in {sessions[p], NoSession, Session}
      PROVE  Approvals'
  <2>1. OnlyApprovedToolsRun'
    BY <1>0, <1>1 DEF OnlyApprovedToolsRun
  <2>2. \A n : LetThrough(n)' <=> LetThrough(n)
    BY <1>1 DEF LetThrough
  <2>3. Session.confirmed_once = confirmed_once
    BY DEF Session
  <2> QED
    BY <1>0, <1>1, <2>1, <2>2, <2>3 DEF Approvals
<1>2. CASE cmd_agent_chat \/ SwitchProject \/ UNCHANGED vars
  BY <1>1, <1>2 DEF cmd_agent_chat, SwitchProject, vars, agentVars, policy
<1>3. CASE cmd_agent_invoke
  <2>1. PICK name \in Names, result \in Results :
          Dispatch([id |-> 1, name |-> name], overrides, confirmed_once, result)
    BY <1>3 DEF cmd_agent_invoke
  <2>2. [id |-> 1, name |-> name] \in Calls
    BY AgentAssumption DEF Calls
  <2>3. UNCHANGED <<front, overrides, allowed, sessions>>
    BY <1>3 DEF cmd_agent_invoke
  <2> QED
    BY <2>1, <2>2, <2>3, DispatchKeepsApprovals
<1>4. CASE chat_send
  <2>1. \A p \in Projects : sessions'[p] \in {sessions[p], NoSession}
    BY <1>0, <1>4 DEF chat_send
  <2> QED
    BY <1>1, <1>4, <2>1 DEF chat_send, Idle
<1>5. ASSUME NEW allow \in BOOLEAN, ConfirmRejected(allow)
      PROVE  Approvals'
  <2>1. \A p \in Projects : sessions'[p] \in {sessions[p], NoSession}
    BY <1>0, <1>5 DEF ConfirmRejected
  <2> QED
    BY <1>1, <1>5, <2>1 DEF ConfirmRejected, Decide, policy
<1>6. ASSUME NEW allow \in BOOLEAN, chat_confirm(allow)
      PROVE  Approvals'
  <2> DEFINE s == sessions[project]
  <2> PICK asked : asked = Head(s.calls)
    OBVIOUS
  <2>1. /\ s # NoSession /\ resume_agent_turn(s, allow) /\ UNCHANGED <<front, sessions>>
        /\ front = "desktop"
        /\ allowed' = IF allow THEN allowed \cup {asked.id} ELSE allowed
    BY <1>6 DEF chat_confirm, Decide, Idle
  <2>2. asked \in Calls
    BY <1>0, <2>1, SessionFacts
  <2>3. \A n \in s.confirmed_once : LetThrough(n)
    BY <1>0, <2>1
  <2>4. CASE ~ allow
    <3>1. /\ UNCHANGED <<ran, granted, allowed>> /\ confirmed_once' = s.confirmed_once
      BY <2>1, <2>4 DEF resume_agent_turn
    <3>2. \A n : LetThrough(n)' <=> LetThrough(n)
      BY <3>1 DEF LetThrough
    <3>3. OnlyApprovedToolsRun'
      BY <1>0, <2>1, <3>1 DEF OnlyApprovedToolsRun
    <3> QED
      BY <1>0, <2>1, <2>3, <3>1, <3>2, <3>3 DEF Approvals
  <2>5. CASE allow
    <3> DEFINE auto == s.overrides \cup {asked.name}
               once == s.confirmed_once \cup {asked.name}
    <3>1. PICK result \in Results : Dispatch(asked, auto, once, result)
      BY <2>1, <2>5 DEF resume_agent_turn
    <3>2. ~ Gated(auto, once, asked.name)
      BY DEF Gated
    <3>3. allowed' = allowed \cup {asked.id}
      BY <2>1, <2>5
    <3> HIDE DEF auto
    <3>4. /\ confirmed_once' = once /\ UNCHANGED granted
          /\ \/ ran' = ran /\ asked.name \notin Registered
             \/ ran' = Append(ran, asked)
      BY <3>1, <3>2, DispatchIs DEF Denied, Entered
    <3>5. Grows(asked)
      BY <3>3, <3>4 DEF Grows
    <3>6. MayEnter(asked)
      BY <3>3 DEF MayEnter
    <3>7. OnlyApprovedToolsRun'
      BY <1>0, <2>1, <2>2, <3>5, <3>6, EntriesApproved
    <3>8. LetThrough(asked.name)'
      <4>1. CASE asked.name \notin Registered
        BY <4>1 DEF LetThrough
      <4>2. CASE ran' = Append(ran, asked)
        BY <2>2, <3>3, <3>5, <4>2, StillLetThrough
      <4> QED
        BY <3>4, <4>1, <4>2
    <3>9. \A n : LetThrough(n) => LetThrough(n)'
      BY <2>2, <3>5, StillLetThrough
    <3> QED
      BY <1>0, <2>1, <2>3, <3>4, <3>7, <3>8, <3>9 DEF Approvals
  <2> QED
    BY <2>4, <2>5
<1>7. CASE ChatReturn
  <2>1. \A p \in Projects : sessions'[p] \in {sessions[p], NoSession, Session}
    BY <1>0, <1>7 DEF ChatReturn
  <2> QED
    BY <1>1, <1>7, <2>1 DEF ChatReturn
<1>8. CASE Loop
  <2>1. UNCHANGED <<front, sessions, allowed>>
    BY <1>8 DEF Loop
  <2>2. CASE ProviderCalls \/ ProviderAnswers \/ ProviderFails \/ MaxStepsReached \/ Suspend
    BY <1>1, <2>1, <2>2 DEF ProviderCalls, ProviderAnswers, ProviderFails, MaxStepsReached,
            Suspend, policy
  <2>3. CASE execute_call
    <3>1. PICK result \in Results : Dispatch(Head(calls), overrides, confirmed_once, result)
      BY <2>3 DEF execute_call
    <3>2. calls \in Seq(Calls) /\ calls # <<>> /\ UNCHANGED overrides
      BY <2>3 DEF execute_call, TypeOK, AgentTypeOK
    <3>3. Head(calls) \in Calls
      BY <3>2
    <3> QED
      BY <2>1, <3>1, <3>2, <3>3, DispatchKeepsApprovals
  <2> QED
    BY <1>8, <2>2, <2>3 DEF Loop, run_loop
<1> QED
  BY <1>2, <1>3, <1>4, <1>5, <1>6, <1>7, <1>8 DEF Next

-----------------------------------------------------------------------------
(* Rows. *)

(* With no prompter and a tool that is not gated, the gate does not refuse *)
(* for want of the user.                                                   *)
LEMMA UngatedResult ==
    ASSUME NEW call, NEW auto, NEW once, NEW result, Dispatch(call, auto, once, result),
           ~ Gated(auto, once, call.name)
    PROVE  result \notin {"NOT_CONFIRMED", "DENIED"}
BY DispatchIs DEF Denied, Entered

(* Every step keeps the rows. *)
LEMMA NextKeepsRows ==
    ASSUME TypeOK, Modes, Rows, [Next]_vars
    PROVE  Rows'
<1> DEFINE Told2 == {rows'[k].call.id : k \in DOMAIN rows'}
           Agree(i) == /\ rows'[i].result # "NOT_CONFIRMED"
                       /\ rows'[i].result = "DENIED" => i = 1 /\ settled' > 0
           Seen == \A i \in DOMAIN ran' : ran'[i].id \in shown' \cup Told2
<1>0. /\ front = "desktop" =>
           \A i \in DOMAIN rows : /\ rows[i].result # "NOT_CONFIRMED"
                                  /\ rows[i].result = "DENIED" => i = 1 /\ settled > 0
      /\ front = "desktop" => \A i \in DOMAIN ran :
           ran[i].id \in shown \cup {rows[k].call.id : k \in DOMAIN rows}
      /\ ~ busy => rows = <<>>
  BY DEF Rows, LoopAndDispatcherAgree, Modes
<1>1. ASSUME front' = "desktop" => (\A i \in DOMAIN rows' : Agree(i)) /\ Seen
      PROVE  Rows'
  BY <1>1 DEF Rows, LoopAndDispatcherAgree
<1>2. ASSUME UNCHANGED <<front, rows, settled, ran, shown>>
      PROVE  Rows'
  BY <1>0, <1>1, <1>2
<1>3. ASSUME rows = <<>>, rows' = <<>>, UNCHANGED <<front, ran, shown>>
      PROVE  Rows'
  BY <1>0, <1>1, <1>3
<1> HIDE DEF Agree, Seen, Told2
<1>4. CASE cmd_agent_chat \/ cmd_agent_invoke
  BY <1>1, <1>4 DEF cmd_agent_chat, cmd_agent_invoke
<1>5. CASE SwitchProject \/ UNCHANGED vars
  BY <1>2, <1>5 DEF SwitchProject, vars, agentVars, turn, panel
<1>6. CASE chat_send
  BY <1>0, <1>3, <1>6 DEF chat_send, Idle, panel, run_agent_turn
<1>7. ASSUME NEW allow \in BOOLEAN, ConfirmRejected(allow)
      PROVE  Rows'
  BY <1>2, <1>7 DEF ConfirmRejected, Decide, turn
<1>8. ASSUME NEW allow \in BOOLEAN, chat_confirm(allow)
      PROVE  Rows'
  <2> DEFINE s == sessions[project]
             asked == Head(s.calls)
  <2>1. /\ s # NoSession /\ resume_agent_turn(s, allow) /\ settled' = s.settled + 1
        /\ front = "desktop" /\ UNCHANGED <<front, shown>> /\ rows = <<>>
        /\ project \in Projects
    BY <1>0, <1>8 DEF chat_confirm, Decide, Idle, TypeOK
  <2>2. settled' > 0
    BY <2>1, SessionFacts
  <2>3. PICK result \in Results :
          /\ rows' = <<Row(asked, result)>>
          /\ \/ Dispatch(asked, s.overrides \cup {asked.name},
                         s.confirmed_once \cup {asked.name}, result)
             \/ result = "DENIED" /\ UNCHANGED ran
    BY <2>1 DEF resume_agent_turn
  <2>4. ~ Gated(s.overrides \cup {asked.name}, s.confirmed_once \cup {asked.name}, asked.name)
    BY DEF Gated
  <2>5. result # "NOT_CONFIRMED" /\ ran' \in {ran, Append(ran, asked)}
    <3>1. CASE Dispatch(asked, s.overrides \cup {asked.name},
                        s.confirmed_once \cup {asked.name}, result)
      BY <2>4, <3>1, UngatedResult, DispatchRuns
    <3> QED
      BY <2>3, <3>1
  <2>6. /\ DOMAIN rows' = {1} /\ rows'[1].result = result /\ rows'[1].call = asked
    BY <2>3 DEF Row
  <2>7. \A i \in DOMAIN rows' : Agree(i)
    BY <2>2, <2>5, <2>6 DEF Agree
  <2>8. Seen
    <3>1. asked \in Calls /\ ran \in Seq(Calls)
      BY <2>1, SessionFacts DEF TypeOK, AgentTypeOK
    <3>2. \A i \in DOMAIN ran' : (i \in DOMAIN ran /\ ran'[i] = ran[i]) \/ ran'[i] = asked
      BY <2>5, <3>1
    <3>3. asked.id \in Told2
      BY <2>6 DEF Told2
    <3>4. \A i \in DOMAIN ran : ran[i].id \in shown
      BY <1>0, <2>1
    <3> QED
      BY <2>1, <3>2, <3>3, <3>4 DEF Seen
  <2> QED
    BY <1>1, <2>7, <2>8
<1>9. CASE ChatReturn
  <2>1. front = "desktop" /\ rows' = <<>> /\ ran' = ran
        /\ shown' = shown \cup {rows[k].call.id : k \in DOMAIN rows}
    BY <1>9 DEF ChatReturn, FillResponse
  <2>2. Seen
    BY <1>0, <2>1 DEF Seen
  <2> QED
    BY <1>1, <2>1, <2>2
<1>10. CASE Loop
  <2>1. UNCHANGED <<front, settled, shown>>
    BY <1>10 DEF Loop, panel
  <2>2. CASE ProviderCalls \/ ProviderAnswers \/ ProviderFails \/ MaxStepsReached \/ Suspend
    BY <1>2, <2>1, <2>2 DEF ProviderCalls, ProviderAnswers, ProviderFails, MaxStepsReached,
            Suspend
  <2>3. CASE execute_call
    <3> SUFFICES ASSUME front = "desktop"
                 PROVE  (\A i \in DOMAIN rows' : Agree(i)) /\ Seen
      BY <1>1, <2>1
    <3> PICK call : call = Head(calls)
      OBVIOUS
    <3>1. PICK result \in Results :
            /\ Dispatch(call, overrides, confirmed_once, result)
            /\ rows' = Append(rows, Row(call, result))
      BY <2>3 DEF execute_call
    <3>2. ~ Gated(overrides, confirmed_once, call.name)
      BY <2>3, SameQuestion DEF execute_call, MustAsk, Modes
    <3>3. result \notin {"NOT_CONFIRMED", "DENIED"} /\ ran' \in {ran, Append(ran, call)}
      BY <3>1, <3>2, UngatedResult, DispatchRuns
    <3>4. calls \in Seq(Calls) /\ calls # <<>> /\ ran \in Seq(Calls)
          /\ rows \in Seq([call : Calls, result : Results])
      BY <2>3 DEF execute_call, TypeOK, AgentTypeOK
    <3>5. call \in Calls /\ Row(call, result) \in [call : Calls, result : Results]
      BY <3>4 DEF Row
    <3> DEFINE R == [call : Calls, result : Results]
               row == Row(call, result)
    <3>6. row.call = call /\ row.result = result /\ row \in R /\ rows \in Seq(R)
      BY <3>4, <3>5 DEF Row
    <3> HIDE DEF R, row
    <3>7. rows' = Append(rows, row)
      BY <3>1 DEF row
    <3>8. /\ Len(rows) \in Nat /\ DOMAIN rows = 1..Len(rows)
          /\ DOMAIN rows' = 1..(Len(rows) + 1)
          /\ \A i \in 1..Len(rows) : rows'[i] = rows[i]
          /\ rows'[Len(rows) + 1] = row
      BY <3>6, <3>7
    <3>9. \A i \in DOMAIN rows' : Agree(i)
      BY <1>0, <2>1, <3>3, <3>6, <3>8 DEF Agree
    <3>10. \A k \in DOMAIN rows : rows[k].call.id \in Told2
      BY <3>8 DEF Told2
    <3>11. call.id \in Told2
      BY <3>6, <3>8 DEF Told2
    <3>12. \A i \in DOMAIN ran' : (i \in DOMAIN ran /\ ran'[i] = ran[i]) \/ ran'[i] = call
      BY <3>3, <3>4, <3>5, SMTT(30)
    <3>13. Seen
      BY <1>0, <2>1, <3>10, <3>11, <3>12 DEF Seen
    <3> QED
      BY <3>9, <3>13
  <2> QED
    BY <1>10, <2>2, <2>3 DEF Loop, run_loop
<1> QED
  BY <1>4, <1>5, <1>6, <1>7, <1>8, <1>9, <1>10 DEF Next

-----------------------------------------------------------------------------
(* The theorems. *)

(* The invariant holds at first. *)
LEMMA InitIInv ==
    ASSUME Init
    PROVE  IInv
<1>0. /\ MaxCalls \in Nat /\ max_steps \in Nat /\ Registered \subseteq Names
  BY AgentAssumption
<1>1. TypeOK
  <2>1. AgentTypeOK
    <3>1. /\ suspend_on_confirmation \in BOOLEAN /\ prompter \in BOOLEAN
          /\ overrides \subseteq Names /\ confirmed_once \subseteq Names
      BY <1>0 DEF Init
    <3>2. /\ running = FALSE /\ history = <<>> /\ calls = <<>> /\ rows = <<>>
          /\ steps_used = 0 /\ limit = 0 /\ stop_reason = "none"
          /\ issued = 0 /\ ran = <<>> /\ granted = {}
      BY DEF Init, AgentInit
    <3>3. \A S : <<>> \in Seq(S)
      OBVIOUS
    <3>4. /\ history \in Seq(Messages) /\ calls \in Seq(Calls)
          /\ rows \in Seq([call : Calls, result : Results]) /\ ran \in Seq(Calls)
      BY <3>2, <3>3
    <3>5. steps_used \in Nat /\ limit \in Nat /\ issued \in 0..MaxCalls
      BY <1>0, <3>2
    <3>6. running \in BOOLEAN
      BY <3>2
    <3>7. stop_reason \in Reasons
      BY <3>2 DEF Reasons
    <3>8. granted \subseteq 1..MaxCalls
      BY <3>2
    <3> QED
      BY <3>1, <3>4, <3>5, <3>6, <3>7, <3>8 DEF AgentTypeOK
  <2>2. /\ front \in {"desktop", "chat", "invoke"} /\ project \in Projects
        /\ owner \in Projects /\ pending = NoCard
        /\ settled = 0 /\ allowed = {} /\ consented = {} /\ shown = {}
    BY DEF Init
  <2>3. sessions \in [Projects -> Sessions \cup {NoSession}]
        /\ \A p \in Projects : sessions[p] = NoSession
    BY DEF Init
  <2> QED
    BY <2>1, <2>2, <2>3 DEF TypeOK
<1>2. ~ busy
  BY DEF Init, AgentInit, busy
<1>3. Modes
  BY <1>2 DEF Init, AgentInit, Modes
<1>4. Budgeted
  BY <1>0 DEF Init, AgentInit, Budgeted, Budget
<1>5. \A p \in Projects : Turn(p).history = <<>> /\ Turn(p).calls = <<>>
  BY <1>2 DEF Init, Turn, NoTurn
<1>6. Histories
  <2>1. WellFormed(<<>>, <<>>)
    BY DEF WellFormed
  <2> QED
    BY <1>5, <2>1 DEF Histories
<1>7. Told(<<>>) = {}
  BY DEF Told
<1>8. Orders
  BY <1>5, <1>7, NoneInOrder DEF Orders, Init, AgentInit
<1>9. Approvals
  BY DEF Approvals, OnlyApprovedToolsRun, Init, AgentInit
<1>10. Rows
  BY DEF Rows, LoopAndDispatcherAgree, Init, AgentInit
<1> QED
  BY <1>1, <1>3, <1>4, <1>6, <1>8, <1>9, <1>10 DEF IInv

(* Types, modes, budget, histories, order, approvals and rows are kept     *)
(* together by every step, of any front end and any answer of the model.   *)
THEOREM Invariance == Spec => []IInv
<1>1. Init => IInv
  BY InitIInv
<1>2. IInv /\ [Next]_vars => IInv'
  BY NextKeepsTypes, NextKeepsModes, NextKeepsBudget, NextKeepsHistories, NextKeepsOrders,
     NextKeepsApprovals, NextKeepsRows DEF IInv
<1> QED
  BY <1>1, <1>2, PTL DEF Spec

(* The loop, the panel and the bridge's sessions hold values of their kind; *)
(* a suspended turn waits with a call that the gate would ask about.        *)
THEOREM TypeCorrect == Spec => []TypeOK
<1>1. IInv => TypeOK
  BY DEF IInv
<1> QED
  BY <1>1, Invariance, PTL

(* Whatever a turn went through, suspensions and declined calls included,  *)
(* each request that run_loop sends is one the providers accept.           *)
THEOREM RequestsAccepted == Spec => []RequestsAreWellFormed
<1>1. IInv => RequestsAreWellFormed
  <2> SUFFICES ASSUME IInv, Due PROVE RequestsAreWellFormed
    BY DEF RequestsAreWellFormed
  <2>1. /\ history \in Seq(Messages) /\ history # <<>> /\ owner \in Projects
        /\ busy /\ calls = <<>>
    BY DEF IInv, TypeOK, AgentTypeOK, Modes, Due, busy
  <2>2. WellFormed(history, <<>>)
    BY <2>1 DEF IInv, Histories, Turn, Session
  <2>3. {i \in DOMAIN history : history[i].role = "system"} = {1}
    <3>1. 1 \in DOMAIN history
      BY <2>1
    <3> QED
      BY <2>2, <3>1 DEF WellFormed
  <2>4. ASSUME NEW i \in DOMAIN history, history[i].role = "assistant",
               NEW j \in DOMAIN history[i].ids
        PROVE  i + j <= Len(history) /\ history[i + j] = Message("tool", <<history[i].ids[j]>>)
    <3>1. IF i + j <= Len(history)
          THEN history[i + j] = Message("tool", <<history[i].ids[j]>>)
          ELSE i + j - Len(history) \in DOMAIN <<>>
      BY <2>2, <2>4 DEF WellFormed
    <3> QED
      BY <3>1
  <2>5. \A k \in DOMAIN history : history[k].role = "tool" =>
          \E i \in 1..(k - 1) :
            history[i].role = "assistant" /\ (k - i) \in DOMAIN history[i].ids
    BY <2>2 DEF WellFormed
  <2> QED
    BY <2>3, <2>4, <2>5 DEF RequestsAreWellFormed
<1> QED
  BY <1>1, Invariance, PTL

(* No handler is entered twice for one call, and the calls of a history    *)
(* are entered in the order in which the model asked for them.             *)
THEOREM ToolsOnceInOrder == Spec => []ToolsRunOnceInOrder
<1>1. IInv => ToolsRunOnceInOrder
  <2> SUFFICES ASSUME IInv, NEW i \in DOMAIN ran, NEW j \in DOMAIN ran, i < j
               PROVE  /\ ran[i].id # ran[j].id
                      /\ {ran[i].id, ran[j].id} \subseteq Told(history) => ran[i].id < ran[j].id
    BY DEF ToolsRunOnceInOrder
  <2>1. ran[i].id # ran[j].id
    BY DEF IInv, Orders
  <2>2. CASE busy
    <3>1. owner \in Projects /\ Turn(owner).history = history
      BY <2>2 DEF IInv, TypeOK, Turn, Session
    <3>2. InOrder(history, Turn(owner).calls, ran, issued)
      BY <3>1 DEF IInv, Orders
    <3> QED
      BY <2>1, <3>2 DEF InOrder
  <2>3. CASE ~ busy
    <3>1. Told(history) = {}
      BY <2>3 DEF IInv, Modes, Told
    <3> QED
      BY <2>1, <3>1
  <2> QED
    BY <2>2, <2>3
<1> QED
  BY <1>1, Invariance, PTL

(* A tool whose level asks for the user is entered only after a yes that   *)
(* covers the call, on every front end and over suspended turns.           *)
THEOREM ApprovalIsNeeded == Spec => []OnlyApprovedToolsRun
<1>1. IInv => OnlyApprovedToolsRun
  BY DEF IInv, Approvals
<1> QED
  BY <1>1, Invariance, PTL

(* needs_user_decision and dispatch_tool ask the same question: on the     *)
(* desktop no call is refused because the loop forgot to ask.              *)
THEOREM QuestionsAgree == Spec => []LoopAndDispatcherAgree
<1>1. IInv => LoopAndDispatcherAgree
  BY DEF IInv, Rows
<1> QED
  BY <1>1, Invariance, PTL

(* Each answered confirmation buys at most one round trip over max_steps.  *)
THEOREM BudgetIsKept == Spec => []RoundTripsBounded
<1>1. IInv => RoundTripsBounded
  BY DEF IInv, Budgeted, Budget, Ceiling, RoundTripsBounded
<1> QED
  BY <1>1, Invariance, PTL

(* When the panel is idle, it has shown each tool that ran.                *)
THEOREM PanelTellsAll == Spec => []NoSilentChange
<1>1. IInv => NoSilentChange
  <2> SUFFICES ASSUME IInv, Idle, NEW i \in DOMAIN ran PROVE ran[i].id \in shown
    BY DEF NoSilentChange
  <2>1. rows = <<>> /\ front = "desktop"
    BY DEF IInv, Modes, Idle
  <2>2. ran[i].id \in shown \cup {rows[k].call.id : k \in DOMAIN rows}
    BY <2>1 DEF IInv, Rows
  <2> QED
    BY <2>1, <2>2
<1> QED
  BY <1>1, Invariance, PTL

(* With a single project, what chat_confirm lets run is the call on the    *)
(* card: the run chat_switch shows that a second project breaks this.      *)
THEOREM CardIsForTheCall ==
    ASSUME OneProject
    PROVE  Spec => []ApprovalMatchesCard
<1>1. Init => OnCard
  BY DEF Init, OnCard, ApprovalMatchesCard
<1>2. IInv /\ OnCard /\ [Next]_vars => OnCard'
  <2> SUFFICES ASSUME IInv, OnCard, [Next]_vars PROVE OnCard'
    OBVIOUS
  <2>0. /\ project \in Projects /\ owner \in Projects /\ owner = project
        /\ sessions \in [Projects -> Sessions \cup {NoSession}]
        /\ allowed \subseteq consented
    BY DEF IInv, TypeOK, OneProject, OnCard, ApprovalMatchesCard
  <2>1. ASSUME UNCHANGED <<allowed, consented>>,
               \/ front' # "desktop"
               \/ busy'
               \/ pending' = NoCard
               \/ UNCHANGED <<front, pending, project, sessions>> /\ (busy' <=> busy)
        PROVE  OnCard'
    BY <2>1 DEF OnCard, ApprovalMatchesCard
  <2>2. CASE cmd_agent_chat \/ cmd_agent_invoke
    BY <2>1, <2>2 DEF cmd_agent_chat, cmd_agent_invoke, panel
  <2>3. CASE SwitchProject
    BY <2>0, <2>3 DEF SwitchProject, OneProject
  <2>4. CASE UNCHANGED vars
    BY <2>1, <2>4 DEF vars, agentVars, turn, panel, busy
  <2>5. CASE chat_send
    BY <2>1, <2>5, TurnStarts DEF chat_send, panel
  <2>6. ASSUME NEW allow \in BOOLEAN, ConfirmRejected(allow)
        PROVE  OnCard'
    BY <2>0, <2>6 DEF ConfirmRejected, Decide, OnCard, ApprovalMatchesCard
  <2>7. ASSUME NEW allow \in BOOLEAN, chat_confirm(allow)
        PROVE  OnCard'
    <3>1. Head(sessions[project].calls) = pending /\ pending' = NoCard
      BY <2>7 DEF chat_confirm, Decide, Idle, OnCard
    <3> QED
      BY <2>0, <2>7, <3>1 DEF chat_confirm, Decide, OnCard, ApprovalMatchesCard
  <2>8. CASE ChatReturn
    <3>1. CASE /\ pending' = Head(calls)
               /\ sessions' = [sessions EXCEPT ![owner] = Session]
      <4>1. sessions'[project'] = Session /\ Session.calls = calls
        BY <2>0, <2>8, <3>1 DEF ChatReturn, Session
      <4> QED
        BY <2>0, <2>8, <3>1, <4>1 DEF ChatReturn, OnCard, ApprovalMatchesCard
    <3>2. CASE pending' = NoCard
      BY <2>1, <2>8, <3>2 DEF ChatReturn
    <3> QED
      BY <2>8, <3>1, <3>2 DEF ChatReturn
  <2>9. CASE Loop
    <3>1. busy'
      BY <2>9, LoopKeepsModes DEF Loop, IInv
    <3> QED
      BY <2>1, <2>9, <3>1 DEF Loop, panel
  <2> QED
    BY <2>2, <2>3, <2>4, <2>5, <2>6, <2>7, <2>8, <2>9 DEF Next
<1>3. OnCard => ApprovalMatchesCard
  BY DEF OnCard
<1> QED
  BY <1>1, <1>2, <1>3, Invariance, PTL DEF Spec

-----------------------------------------------------------------------------
(***************************************************************************)
(* The tools the agent calls, for any session a host starts from, any      *)
(* registry, any tags and directions, and any number of calls.  A call has *)
(* one of a few effects on the session and on the handles; the properties  *)
(* follow from what each effect keeps.                                     *)
(***************************************************************************)

Quiet == UNCHANGED <<wired, session, handles>>

(* A session that was no map may be left an empty one. *)
Emptied == session' = AsMap /\ UNCHANGED <<wired, handles>>

(* The last entry of the new session. *)
Staged ==
    /\ reply'.code = "ok" /\ UNCHANGED <<wired, handles>>
    /\ Len(AsMap.bcs) < MaxBcs
    /\ \E e \in Entries :
         \/ session' = WithBc(AsMap, e)
         \/ /\ e.dir \in Dirs
            /\ session' = [WithBc(AsMap, e) EXCEPT !.setup.dir = e.dir]

MaterialSet ==
    /\ reply'.code = "ok" /\ UNCHANGED <<wired, handles>>
    /\ AsMap.materials < MaxMaterials
    /\ session' = [AsMap EXCEPT !.materials = @ + 1]

SetupStaged ==
    /\ reply'.code = "ok" /\ UNCHANGED <<wired, handles>>
    /\ \E setup \in Setups : setup # NoSetup /\ session' = [AsMap EXCEPT !.setup = setup]

Meshed ==
    /\ reply'.code = "ok" /\ UNCHANGED <<wired, session, field>>
    /\ meshes < MaxMeshes /\ meshes' = meshes + 1 /\ mesh' = meshes' /\ flat' \in BOOLEAN

FieldKept ==
    /\ reply'.code = "ok" /\ UNCHANGED <<wired, session, mesh, flat, meshes>>
    /\ field' \in Fields /\ field'.of # {} /\ field'.of \subseteq 1..meshes

(* A handler's verdict is "ok" only when none of its checks failed. *)
LEMMA NothingFailed ==
    ASSUME NEW checks, NEW n \in Nat, DOMAIN checks = 1..n,
           \A i \in 1..n : checks[i][1] => checks[i][2] # "ok",
           FirstFailure(checks) = "ok"
    PROVE  \A i \in 1..n : ~ checks[i][1]
<1> DEFINE failing == {i \in DOMAIN checks : checks[i][1]}
           first == CHOOSE i \in failing : \A j \in failing : i <= j
<1> SUFFICES ASSUME failing # {} PROVE FALSE
  OBVIOUS
<1>1. failing \subseteq 1..n
  OBVIOUS
<1>2. first \in failing
  <2> HIDE DEF failing
  <2>1. \E i \in failing : \A j \in failing : i <= j
    BY <1>1, FirstIndex
  <2> QED
    BY <2>1
<1>3. checks[first][2] = "ok"
  BY DEF FirstFailure
<1> QED
  BY <1>2, <1>3

(* What the preconditions of a dispatch leave standing. *)
LEMMA ReadyToDispatch ==
    ASSUME NEW cap, NEW needsMesh \in BOOLEAN, NEW needsField \in BOOLEAN,
           NotReady(cap, needsMesh, needsField) = "ok"
    PROVE  /\ cap \in Capabilities
           /\ needsMesh => mesh # 0
           /\ needsField => field # NoField
<1> DEFINE checks == <<Check(~wired, "INTERNAL"),
                       Check(cap \notin Capabilities, "PLUGIN_NOT_FOUND"),
                       Check(needsMesh /\ mesh = 0, "PRECONDITION_FAILED"),
                       Check(needsField /\ field = NoField, "PRECONDITION_FAILED")>>
<1>1. /\ DOMAIN checks = 1..4
      /\ \A i \in 1..4 : checks[i][1] => checks[i][2] # "ok"
      /\ FirstFailure(checks) = "ok"
  BY DEF Check, NotReady
<1>2. \A i \in 1..4 : ~ checks[i][1]
  <2> HIDE DEF checks
  <2> QED
    BY <1>1, NothingFailed
<1>3. ~ checks[2][1] /\ ~ checks[3][1] /\ ~ checks[4][1]
  BY <1>2
<1> QED
  BY <1>3 DEF Check

Codes == {"ok", "INVALID_ARGUMENT", "INTERNAL", "PLUGIN_NOT_FOUND", "PRECONDITION_FAILED",
          "DISPATCH_FAILED"}

LEMMA DispatchCodes ==
    ASSUME NEW o \in Outcomes
    PROVE  DispatchCode(o) \in Codes /\ (o # "ok" => DispatchCode(o) # "ok")
<1>1. CASE o = "error"
  <2>1. DispatchCode(o) = "DISPATCH_FAILED"
    BY <1>1 DEF DispatchCode
  <2> QED
    BY <2>1 DEF Codes
<1>2. CASE o = "unexpected"
  <2>1. DispatchCode(o) = "INTERNAL"
    BY <1>2 DEF DispatchCode
  <2> QED
    BY <2>1 DEF Codes
<1>3. CASE o = "ok"
  <2>1. DispatchCode(o) = "ok"
    BY <1>3 DEF DispatchCode
  <2> QED
    BY <1>3, <2>1 DEF Codes
<1> QED
  BY <1>1, <1>2, <1>3 DEF Outcomes

(* ... and those of a tool that names the capability itself. *)
LEMMA ReadyTool ==
    ASSUME NEW cap, NEW needsMesh \in BOOLEAN, NEW needsField \in BOOLEAN,
           NEW refused \in BOOLEAN, NEW o,
           LET ready == NotReady(cap, needsMesh, needsField)
           IN  FirstFailure(<<Check(refused, "INVALID_ARGUMENT"), Check(ready # "ok", ready),
                              Check(o # "ok", DispatchCode(o))>>) = "ok",
           o \in Outcomes
    PROVE  NotReady(cap, needsMesh, needsField) = "ok"
<1> DEFINE ready == NotReady(cap, needsMesh, needsField)
           checks == <<Check(refused, "INVALID_ARGUMENT"), Check(ready # "ok", ready),
                       Check(o # "ok", DispatchCode(o))>>
<1> HIDE DEF ready
<1>0. o # "ok" => DispatchCode(o) # "ok"
  BY DispatchCodes
<1>1. /\ DOMAIN checks = 1..3
      /\ \A i \in 1..3 : checks[i][1] => checks[i][2] # "ok"
  <2>1. DOMAIN checks = 1..3
    OBVIOUS
  <2>2. checks[1][1] => checks[1][2] # "ok"
    BY <1>0 DEF Check
  <2>3. checks[2][1] => checks[2][2] # "ok"
    BY <1>0 DEF Check
  <2>4. checks[3][1] => checks[3][2] # "ok"
    BY <1>0 DEF Check
  <2> HIDE DEF checks
  <2> QED
    BY <2>1, <2>2, <2>3, <2>4
<1>2. FirstFailure(checks) = "ok"
  BY DEF ready
<1>3. \A i \in 1..3 : ~ checks[i][1]
  <2> HIDE DEF checks
  <2> QED
    BY <1>1, <1>2, NothingFailed
<1>4. ~ checks[2][1]
  BY <1>3
<1> QED
  BY <1>4 DEF Check, ready

(* ... and those of a tool that brings its own capability. *)
LEMMA ReadySummary ==
    ASSUME NEW cap, NEW o \in Outcomes,
           LET ready == NotReady(cap, TRUE, FALSE)
           IN  FirstFailure(<<Check(ready # "ok", ready), Check(o # "ok", DispatchCode(o))>>) = "ok"
    PROVE  NotReady(cap, TRUE, FALSE) = "ok"
<1> DEFINE ready == NotReady(cap, TRUE, FALSE)
           checks == <<Check(ready # "ok", ready), Check(o # "ok", DispatchCode(o))>>
<1> HIDE DEF ready
<1>0. o # "ok" => DispatchCode(o) # "ok"
  BY DispatchCodes
<1>1. /\ DOMAIN checks = 1..2
      /\ \A i \in 1..2 : checks[i][1] => checks[i][2] # "ok"
  <2>1. DOMAIN checks = 1..2
    OBVIOUS
  <2>2. checks[1][1] => checks[1][2] # "ok"
    BY <1>0 DEF Check
  <2>3. checks[2][1] => checks[2][2] # "ok"
    BY <1>0 DEF Check
  <2> HIDE DEF checks
  <2> QED
    BY <2>1, <2>2, <2>3
<1>2. FirstFailure(checks) = "ok"
  BY DEF ready
<1>3. \A i \in 1..2 : ~ checks[i][1]
  <2> HIDE DEF checks
  <2> QED
    BY <1>1, <1>2, NothingFailed
<1>4. ~ checks[1][1]
  BY <1>3
<1> QED
  BY <1>4 DEF Check, ready

LEMMA WantedFacts ==
    ASSUME NEW checks \in (SUBSET {Collapse, Corrosion}) \ {{}}
    PROVE  /\ Wanted(checks) \in Seq(checks)
           /\ Len(Wanted(checks)) \in 1..2
           /\ Wanted(checks)[Len(Wanted(checks))] \in checks
<1>1. CASE checks = {Collapse}
  <2>1. Wanted(checks) = <<Collapse>>
    BY <1>1 DEF Wanted, Collapse, Corrosion
  <2> QED
    BY <1>1, <2>1
<1>2. CASE checks = {Corrosion}
  <2>1. Wanted(checks) = <<Corrosion>>
    BY <1>2 DEF Wanted, Collapse, Corrosion
  <2> QED
    BY <1>2, <2>1
<1>3. CASE Collapse \in checks /\ Corrosion \in checks
  <2> DEFINE s == <<Collapse>>
             t == <<Corrosion>>
  <2>1. Wanted(checks) = s \o t
    BY <1>3 DEF Wanted
  <2>2. s \in Seq(checks) /\ Len(s) = 1 /\ t \in Seq(checks) /\ Len(t) = 1 /\ t[1] = Corrosion
    BY <1>3
  <2> HIDE DEF s, t
  <2>3. /\ s \o t \in Seq(checks) /\ Len(s \o t) = Len(s) + Len(t)
        /\ \A i \in 1..(Len(s) + Len(t)) : (s \o t)[i] = IF i <= Len(s) THEN s[i] ELSE t[i - Len(s)]
    BY <2>2, ConcatProperties
  <2>4. Len(s \o t) = 2 /\ (s \o t)[2] = Corrosion
    BY <2>2, <2>3
  <2> QED
    BY <1>3, <2>1, <2>3, <2>4
<1>4. \/ checks = {Collapse}
      \/ checks = {Corrosion}
      \/ Collapse \in checks /\ Corrosion \in checks
  <2>1. \A c \in checks : c = Collapse \/ c = Corrosion
    OBVIOUS
  <2>2. PICK c : c \in checks
    OBVIOUS
  <2> QED
    BY <2>1, <2>2, Zenon
<1> QED
  BY <1>1, <1>2, <1>3, <1>4

(* ... and those of the two marine checks together. *)
LEMMA ReadyMarine ==
    ASSUME NEW checks \in (SUBSET {Collapse, Corrosion}) \ {{}},
           NEW outcome \in [checks -> Outcomes], NEW refused \in BOOLEAN,
           LET wanted == Wanted(checks)
           IN  FirstFailure(
                 <<Check(refused, "INVALID_ARGUMENT"),
                   Check(~wired, "INTERNAL"),
                   Check(~(checks \subseteq Capabilities), "PLUGIN_NOT_FOUND"),
                   Check(mesh = 0, "PRECONDITION_FAILED")>>
                 \o [i \in DOMAIN wanted |-> Check(outcome[wanted[i]] # "ok",
                                                   DispatchCode(outcome[wanted[i]]))]) = "ok"
    PROVE  mesh # 0 /\ checks \subseteq Capabilities
<1> DEFINE wanted == Wanted(checks)
           first  == <<Check(refused, "INVALID_ARGUMENT"),
                       Check(~wired, "INTERNAL"),
                       Check(~(checks \subseteq Capabilities), "PLUGIN_NOT_FOUND"),
                       Check(mesh = 0, "PRECONDITION_FAILED")>>
           then   == [i \in DOMAIN wanted |-> Check(outcome[wanted[i]] # "ok",
                                                    DispatchCode(outcome[wanted[i]]))]
           all    == first \o then
           n      == 4 + Len(wanted)
           Pairs  == BOOLEAN \X Codes
<1>1. wanted \in Seq(checks) /\ Len(wanted) \in 1..2 /\ DOMAIN wanted = 1..Len(wanted)
  BY WantedFacts
<1>2. /\ first \in Seq(Pairs) /\ Len(first) = 4 /\ DOMAIN first = 1..4
      /\ \A i \in 1..4 : first[i][1] => first[i][2] # "ok"
  <2>1. /\ Check(refused, "INVALID_ARGUMENT") \in Pairs
        /\ Check(~wired, "INTERNAL") \in Pairs
        /\ Check(~(checks \subseteq Capabilities), "PLUGIN_NOT_FOUND") \in Pairs
        /\ Check(mesh = 0, "PRECONDITION_FAILED") \in Pairs
    BY DEF Check, Codes
  <2>2. first \in Seq(Pairs)
    <3> HIDE DEF Pairs
    <3> QED
      BY <2>1
  <2>3. \A i \in 1..4 : first[i][1] => first[i][2] # "ok"
    BY DEF Check
  <2> QED
    BY <2>2, <2>3
<1> HIDE DEF wanted
<1>3. /\ then \in Seq(Pairs) /\ Len(then) = Len(wanted) /\ DOMAIN then = 1..Len(wanted)
      /\ \A i \in 1..Len(wanted) : then[i][1] => then[i][2] # "ok"
  <2>1. \A i \in 1..Len(wanted) : outcome[wanted[i]] \in Outcomes
    BY <1>1
  <2>2. \A o \in Outcomes : /\ Check(o # "ok", DispatchCode(o)) \in Pairs
                            /\ Check(o # "ok", DispatchCode(o))[1]
                                  => Check(o # "ok", DispatchCode(o))[2] # "ok"
    BY DispatchCodes DEF Check
  <2> HIDE DEF Pairs
  <2>3. then \in [1..Len(wanted) -> Pairs]
    BY <1>1, <2>1, <2>2
  <2> QED
    BY <1>1, <2>1, <2>2, <2>3
<1>4. FirstFailure(all) = "ok"
  BY DEF wanted
<1> HIDE DEF first, then, Pairs
<1>5. /\ Len(all) = n /\ n \in Nat /\ DOMAIN all = 1..n
      /\ \A i \in 1..n : all[i] = IF i <= 4 THEN first[i] ELSE then[i - 4]
  <2> HIDE DEF first, then, Pairs
  <2>1. /\ Len(first \o then) = Len(first) + Len(then)
        /\ \A i \in 1..(Len(first) + Len(then)) :
             (first \o then)[i] = IF i <= Len(first) THEN first[i] ELSE then[i - Len(first)]
        /\ first \o then \in Seq(Pairs)
    <3>1. first \in Seq(Pairs) /\ then \in Seq(Pairs)
      BY <1>2, <1>3
    <3> QED
      BY <3>1, ConcatProperties
  <2> QED
    BY <1>1, <1>2, <1>3, <2>1
<1> HIDE DEF all, n
<1>6. \A i \in 1..n : all[i][1] => all[i][2] # "ok"
  BY <1>1, <1>2, <1>3, <1>5 DEF n
<1>7. \A i \in 1..n : ~ all[i][1]
  BY <1>4, <1>5, <1>6, NothingFailed
<1>8. ~ first[3][1] /\ ~ first[4][1]
  BY <1>1, <1>5, <1>7 DEF n
<1> QED
  BY <1>8 DEF first, Check

(* A proposal that is accepted names a process. *)
LEMMA AcceptedProposal ==
    ASSUME NEW spec, propose_am_setup(spec) = "ok"
    PROVE  spec.process \in Processes
<1> DEFINE checks ==
      <<Check(spec.kind # "map", "INVALID_ARGUMENT"),
        Check(spec.process \notin Processes, "INVALID_ARGUMENT"),
        Check(spec.material # "default" /\ ~find_material(spec.material), "INVALID_ARGUMENT"),
        Check(spec.material # "default"
              /\ (spec.material \in Polymers) # (spec.process \in Polymer), "INVALID_ARGUMENT"),
        Check(spec.bad \in {"machine", "layer_height", "build_volume", "build_direction"},
              "INVALID_ARGUMENT")>>
<1>1. FirstFailure(checks) = "ok"
  BY DEF propose_am_setup, SetupRefused
<1>2. /\ DOMAIN checks = 1..5
      /\ \A i \in 1..5 : checks[i][1] => checks[i][2] # "ok"
  BY DEF Check
<1>3. \A i \in 1..5 : ~ checks[i][1]
  <2> HIDE DEF checks
  <2> QED
    BY <1>1, <1>2, NothingFailed
<1>4. ~ checks[2][1]
  BY <1>3
<1> QED
  BY <1>4 DEF Check

(* The session as the tools see it. *)
LEMMA AsMapTyped ==
    ASSUME ToolsTypeOK
    PROVE  AsMap \in SessionBags /\ Len(AsMap.bcs) <= MaxBcs /\ Len(AsMap.bcs) \in Nat
<1>1. EmptyMap \in SessionBags /\ EmptyMap.bcs = <<>>
  <2>1. <<>> \in Seq(Entries)
    OBVIOUS
  <2>2. NoSetup \in Setups
    <3>1. NoMachine \in (SUBSET Rates) \cup {NoMachine}
      BY Zenon
    <3> QED
      BY <3>1, Zenon DEF NoSetup, Setups
  <2> QED
    BY <2>1, <2>2, ToolSessionAssumption DEF EmptyMap, SessionBags
<1>2. session \in SessionBags /\ Len(session.bcs) <= MaxBcs
  BY DEF ToolsTypeOK
<1>3. AsMap \in SessionBags /\ Len(AsMap.bcs) <= MaxBcs
  BY <1>1, <1>2, ToolSessionAssumption DEF AsMap
<1>4. AsMap.bcs \in Seq(Entries)
  BY <1>3 DEF SessionBags
<1> QED
  BY <1>3, <1>4

LEMMA StagingEffects ==
    ASSUME StagingTools
    PROVE  Quiet \/ Emptied \/ Staged \/ MaterialSet \/ SetupStaged
<1>1. ASSUME NEW refused, NEW e \in Entries, StageBc(refused, e)
      PROVE  Quiet \/ Staged
  BY <1>1 DEF StageBc, Fail, Quiet, Staged, Returns
<1>2. ASSUME NEW input \in Plain("tag"), NEW tag \in Tags,
             \/ set_bc(input, "dirichlet", tag)
             \/ apply_inlet(input, tag)
             \/ apply_wall(input, tag)
             \/ apply_outlet(input, tag)
             \/ apply_hydrostatic_load(input, tag)
      PROVE  Quiet \/ Emptied \/ Staged
  <2>1. \A type \in {"dirichlet", "inlet", "wall", "outlet", "hydrostatic"} :
           Entry(type, tag) \in Entries
    BY DEF Entry, Entries
  <2>2. CASE \E refused : \E type \in {"dirichlet", "inlet", "wall", "outlet", "hydrostatic"} :
               StageBc(refused, Entry(type, tag))
    BY <1>1, <2>1, <2>2
  <2>3. CASE \/ session.kind = "absent" /\ Fail("INTERNAL")
             \/ /\ session.kind # "absent"
                /\ session' = AsMap
                /\ Returns("INVALID_ARGUMENT", NoAnswer)
                /\ UNCHANGED <<wired, handles>>
    BY <2>3 DEF Fail, Quiet, Emptied
  <2>4. CASE set_bc(input, "dirichlet", tag)
    BY <2>2, <2>4 DEF set_bc
  <2>5. CASE apply_inlet(input, tag)
    BY <2>2, <2>5 DEF apply_inlet
  <2>6. CASE apply_wall(input, tag)
    BY <2>2, <2>6 DEF apply_wall
  <2>7. CASE apply_outlet(input, tag)
    BY <2>2, <2>7 DEF apply_outlet
  <2>8. CASE apply_hydrostatic_load(input, tag)
    BY <2>2, <2>3, <2>8 DEF apply_hydrostatic_load
  <2> QED
    BY <1>2, <2>4, <2>5, <2>6, <2>7, <2>8
<1>3. ASSUME NEW input \in Plain("model"), set_material(input)
      PROVE  Quiet \/ MaterialSet
  BY <1>3 DEF set_material, Fail, Quiet, MaterialSet, Returns
<1>4. ASSUME validate_bcs
      PROVE  Quiet
  BY <1>4 DEF validate_bcs, ReadOnly, Quiet
<1>5. ASSUME NEW input \in Inputs("weights", {"none"}), NEW tag \in Tags, NEW d \in Dirs,
             set_build_orientation(input, tag, d)
      PROVE  Quiet \/ Staged
  <2> DEFINE e == [Entry("build_orientation", tag) EXCEPT !.dir = d]
  <2>1. e \in Entries /\ e.dir = d
    BY DEF Entry, Entries
  <2> HIDE DEF e
  <2>2. CASE OrientationRefused(input) /\ Fail("INVALID_ARGUMENT")
    BY <2>2 DEF Fail, Quiet
  <2>3. CASE session.kind = "absent" /\ UNCHANGED <<wired, session, handles>>
    BY <2>3 DEF Quiet
  <2>4. CASE /\ session.kind # "absent" /\ Len(AsMap.bcs) < MaxBcs
             /\ session' = [WithBc(AsMap, e) EXCEPT !.setup.dir = d]
             /\ Returns("ok", NoAnswer) /\ UNCHANGED <<wired, handles>>
    BY <2>1, <2>4 DEF Staged, Returns
  <2> QED
    BY <1>5, <2>2, <2>3, <2>4 DEF set_build_orientation, e
<1>6. ASSUME NEW spec \in Specs, ProposeSetup(spec)
      PROVE  Quiet \/ SetupStaged
  <2>1. CASE propose_am_setup(spec) # "ok"
    BY <1>6, <2>1 DEF ProposeSetup, Fail, Quiet
  <2>2. CASE propose_am_setup(spec) = "ok"
    <3>1. StagedSetup(spec) \in Setups /\ StagedSetup(spec) # NoSetup
      <4>1. spec.process \in Processes
        BY <2>2, AcceptedProposal
      <4>2. spec.dir \in Dirs /\ spec.positive \subseteq Rates
        BY ToolSessionAssumption DEF Specs, Proposal, Overrides, Rates
      <4>3. preset_for(spec.process) \subseteq Rates
        BY <4>1 DEF preset_for, Processes, Rates
      <4> QED
        BY <4>1, <4>2, <4>3 DEF StagedSetup, MachineOf, Setups, NoSetup, Processes
    <3>2. CASE session.kind = "absent"
      BY <1>6, <2>2, <3>2 DEF ProposeSetup, Quiet
    <3>3. CASE session.kind # "absent"
      BY <1>6, <2>2, <3>1, <3>3 DEF ProposeSetup, Returns, SetupStaged
    <3> QED
      BY <3>2, <3>3
  <2> QED
    BY <2>1, <2>2
<1> QED
  BY <1>2, <1>3, <1>4, <1>5, <1>6 DEF StagingTools

LEMMA OwnIsBoolean ==
    ASSUME NEW param, NEW caps, NEW input \in Inputs(param, caps)
    PROVE  input.own \in BOOLEAN
<1>1. input \in [kind : {"map", "null", "other"}, bad : {"nothing", param},
                 cap : caps \cup {"none"}, own : BOOLEAN]
  BY Zenon DEF Inputs
<1> QED
  BY <1>1

(* A field computed on the mesh of the session, when there is one. *)
LEMMA FieldOnMesh ==
    ASSUME ToolsTypeOK, mesh # 0, NEW cap \in Capabilities, NEW own \in BOOLEAN
    PROVE  /\ OnSessionMesh(cap, own) \in Fields
           /\ OnSessionMesh(cap, own).of # {}
           /\ OnSessionMesh(cap, own).of \subseteq 1..meshes
BY ToolSessionAssumption DEF ToolsTypeOK, OnSessionMesh, Fields

LEMMA PluginEffects ==
    ASSUME ToolsTypeOK, PluginTools
    PROVE  Quiet \/ Meshed \/ FieldKept
<1> USE DEF Quiet
<1>1. ASSUME NEW o \in Outcomes, NEW input \in Inputs("capability_id", {Mesher, "missing"}),
             NEW isFlat \in BOOLEAN, make_mesh(input, o, isFlat)
      PROVE  Quiet \/ Meshed
  BY <1>1 DEF make_mesh, Fail, Returns, Meshed
<1>2. ASSUME NEW o \in Outcomes, NEW input \in Inputs("capability_id", {Solver, Printer, "missing"}),
             solve(input, o)
      PROVE  Quiet \/ FieldKept
  <2> DEFINE ready == NotReady(input.cap, TRUE, FALSE)
             refused == Refused(input, {"map"}, {"capability_id"})
             code == FirstFailure(<<Check(refused, "INVALID_ARGUMENT"), Check(ready # "ok", ready),
                                    Check(o # "ok", DispatchCode(o))>>)
  <2>1. CASE code # "ok"
    BY <1>2, <2>1 DEF solve, Fail
  <2>2. CASE code = "ok"
    <3>1. refused \in BOOLEAN
      BY DEF Refused
    <3>2. ready = "ok"
      BY <2>2, <3>1, ReadyTool
    <3>3. mesh # 0 /\ input.cap \in Capabilities
      BY <3>2, ReadyToDispatch
    <3>4. input.own \in BOOLEAN
      BY OwnIsBoolean
    <3>5. KeepField(OnSessionMesh(input.cap, input.own)) /\ Returns("ok", NoAnswer)
      BY <1>2, <2>2 DEF solve
    <3> QED
      BY <3>3, <3>4, <3>5, FieldOnMesh DEF KeepField, Returns, FieldKept
  <2> QED
    BY <2>1, <2>2
<1>3. ASSUME NEW o \in Outcomes, NEW input \in Inputs("capability_id", {Derived, "missing"}),
             compute_field(input, o)
      PROVE  Quiet \/ FieldKept
  <2> DEFINE ready == NotReady(input.cap, TRUE, TRUE)
             refused == Refused(input, {"map"}, {"capability_id"})
             code == FirstFailure(<<Check(refused, "INVALID_ARGUMENT"), Check(ready # "ok", ready),
                                    Check(o # "ok", DispatchCode(o))>>)
             derived == [cap |-> input.cap, of |-> {mesh} \cup field.of, own |-> input.own]
  <2>1. CASE code # "ok"
    BY <1>3, <2>1 DEF compute_field, Fail
  <2>2. CASE code = "ok"
    <3>1. refused \in BOOLEAN
      BY DEF Refused
    <3>2. ready = "ok"
      BY <2>2, <3>1, ReadyTool
    <3>3. mesh # 0 /\ input.cap \in Capabilities /\ field # NoField
      BY <3>2, ReadyToDispatch
    <3>4. input.own \in BOOLEAN
      BY OwnIsBoolean
    <3>5. derived \in Fields /\ derived.of # {} /\ derived.of \subseteq 1..meshes
      BY <3>3, <3>4, ToolSessionAssumption DEF ToolsTypeOK, Fields
    <3>6. KeepField(derived) /\ Returns("ok", NoAnswer)
      BY <1>3, <2>2 DEF compute_field
    <3> HIDE DEF derived
    <3> QED
      BY <3>5, <3>6 DEF KeepField, Returns, FieldKept
  <2> QED
    BY <2>1, <2>2
<1>4. ASSUME NEW o \in Outcomes, NEW input \in Inputs("path", {Writer, "missing"}),
             NEW include \in BOOLEAN, export_results(input, o, include)
      PROVE  Quiet
  BY <1>4 DEF export_results, Fail, ReadOnly
<1>5. ASSUME NEW cap, NEW o \in Outcomes, NEW own \in BOOLEAN, NEW tool,
             LET ready == NotReady(cap, TRUE, FALSE)
                 fresh == OnSessionMesh(cap, own)
             IN  /\ FirstFailure(<<Check(ready # "ok", ready), Check(o # "ok", DispatchCode(o))>>)
                       = "ok"
                 /\ KeepField(fresh)
                 /\ Returns("ok", Answer(tool, fresh, own))
      PROVE  FieldKept
  <2>1. NotReady(cap, TRUE, FALSE) = "ok"
    BY <1>5, ReadySummary
  <2>2. mesh # 0 /\ cap \in Capabilities
    BY <2>1, ReadyToDispatch
  <2>3. KeepField(OnSessionMesh(cap, own)) /\ reply'.code = "ok"
    BY <1>5 DEF Returns
  <2> QED
    BY <2>2, <2>3, FieldOnMesh DEF KeepField, FieldKept
<1>6. ASSUME NEW o \in Outcomes, NEW input \in Inputs("vec3", {"none"}), check_printability(input, o)
      PROVE  Quiet \/ FieldKept
  <2>1. input.own \in BOOLEAN
    BY OwnIsBoolean
  <2> QED
    BY <1>5, <1>6, <2>1 DEF check_printability, Fail, ReadOnly
<1>7. ASSUME NEW o \in Outcomes, query_mesh_quality(o)
      PROVE  Quiet \/ FieldKept
  BY <1>5, <1>7 DEF query_mesh_quality, Fail, ReadOnly
<1>8. ASSUME NEW input \in Inputs("unusable", {"none"}),
             NEW checks \in (SUBSET {Collapse, Corrosion}) \ {{}},
             NEW outcome \in [checks -> Outcomes], check_marine_integrity(input, checks, outcome)
      PROVE  Quiet \/ FieldKept
  <2> DEFINE wanted == Wanted(checks)
             refused == MarineRefused(input)
             code == FirstFailure(
                 <<Check(refused, "INVALID_ARGUMENT"),
                   Check(~wired, "INTERNAL"),
                   Check(~(checks \subseteq Capabilities), "PLUGIN_NOT_FOUND"),
                   Check(mesh = 0, "PRECONDITION_FAILED")>>
                 \o [i \in DOMAIN wanted |-> Check(outcome[wanted[i]] # "ok",
                                                   DispatchCode(outcome[wanted[i]]))])
  <2>1. CASE code # "ok"
    BY <1>8, <2>1 DEF check_marine_integrity, Fail
  <2>2. CASE code = "ok"
    <3>1. refused \in BOOLEAN
      BY DEF MarineRefused, Refused
    <3>2. mesh # 0 /\ checks \subseteq Capabilities
      <4> HIDE DEF refused
      <4> QED
        BY <2>2, <3>1, ReadyMarine
    <3>3. input.own \in BOOLEAN /\ wanted[Len(wanted)] \in Capabilities
      BY <3>2, OwnIsBoolean, WantedFacts
    <3>4. /\ KeepField(OnSessionMesh(wanted[Len(wanted)], input.own))
          /\ Returns("ok", NoAnswer)
      BY <1>8, <2>2 DEF check_marine_integrity
    <3> HIDE DEF wanted
    <3> QED
      BY <3>2, <3>3, <3>4, FieldOnMesh DEF KeepField, Returns, FieldKept
  <2> QED
    BY <2>1, <2>2
<1> QED
  BY <1>1, <1>2, <1>3, <1>4, <1>6, <1>7, <1>8 DEF PluginTools

LEMMA LookingEffects ==
    ASSUME LookingTools
    PROVE  Quiet
BY DEF LookingTools, query_field, EstimateCost, read_geometry_summary, list_plugins,
       screenshot_viewport, Fail, ReadOnly, Quiet

LEMMA ToolEffects ==
    ASSUME ToolsTypeOK, ToolsNext
    PROVE  Quiet \/ Emptied \/ Staged \/ MaterialSet \/ SetupStaged \/ Meshed \/ FieldKept
BY StagingEffects, PluginEffects, LookingEffects DEF ToolsNext

LEMMA ToolsKeepTypes ==
    ASSUME ToolsTypeOK, [ToolsNext]_toolVars
    PROVE  ToolsTypeOK'
<1> DEFINE Handles == /\ wired \in BOOLEAN /\ flat \in BOOLEAN
                      /\ meshes \in 0..MaxMeshes /\ mesh = meshes
                      /\ \/ field = NoField
                         \/ field \in Fields /\ field.of # {} /\ field.of \subseteq 1..meshes
           Bag == session \in SessionBags /\ Len(session.bcs) <= MaxBcs
           Made == made \in 0..MaxToolCalls
<1>0. Handles /\ Bag /\ Made
  BY DEF ToolsTypeOK
<1>1. AsMap \in SessionBags /\ Len(AsMap.bcs) <= MaxBcs /\ Len(AsMap.bcs) \in Nat
  BY AsMapTyped
<1>2. ASSUME UNCHANGED <<wired, handles>>
      PROVE  Handles'
  BY <1>0, <1>2 DEF handles
<1>3. ASSUME UNCHANGED session
      PROVE  Bag'
  BY <1>0, <1>3
<1>4. Made'
  <2>1. CASE ToolsNext
    BY <1>0, <2>1, ToolSessionAssumption DEF ToolsNext
  <2>2. CASE UNCHANGED toolVars
    BY <1>0, <2>2 DEF toolVars
  <2> QED
    BY <2>1, <2>2
<1> SUFFICES Handles' /\ Bag'
  BY <1>4 DEF ToolsTypeOK
<1>5. CASE UNCHANGED toolVars
  BY <1>2, <1>3, <1>5 DEF toolVars, handles
<1>6. CASE Quiet
  BY <1>2, <1>3, <1>6 DEF Quiet
<1>7. CASE Emptied
  BY <1>1, <1>2, <1>7 DEF Emptied
<1>8. CASE Staged
  <2>1. PICK e \in Entries :
          \/ session' = WithBc(AsMap, e)
          \/ e.dir \in Dirs /\ session' = [WithBc(AsMap, e) EXCEPT !.setup.dir = e.dir]
    BY <1>8 DEF Staged
  <2>2. Append(AsMap.bcs, e) \in Seq(Entries) /\ Len(Append(AsMap.bcs, e)) = Len(AsMap.bcs) + 1
    BY <1>1 DEF SessionBags
  <2>3. WithBc(AsMap, e) \in SessionBags /\ WithBc(AsMap, e).bcs = Append(AsMap.bcs, e)
    BY <1>1, <2>2 DEF WithBc, SessionBags
  <2>4. ASSUME NEW s \in SessionBags, NEW d \in Dirs
        PROVE  /\ [s EXCEPT !.setup.dir = d] \in SessionBags
               /\ [s EXCEPT !.setup.dir = d].bcs = s.bcs
    <3>1. [s.setup EXCEPT !.dir = d] \in Setups
      BY DEF SessionBags, Setups
    <3> QED
      BY <3>1 DEF SessionBags
  <2>5. session' \in SessionBags /\ session'.bcs = Append(AsMap.bcs, e)
    BY <2>1, <2>3, <2>4
  <2>6. Len(AsMap.bcs) + 1 <= MaxBcs
    BY <1>1, <1>8, ToolSessionAssumption DEF Staged
  <2> QED
    BY <1>2, <1>8, <2>2, <2>5, <2>6 DEF Staged
<1>9. CASE MaterialSet
  <2>1. session' = [AsMap EXCEPT !.materials = @ + 1] /\ AsMap.materials + 1 \in 0..MaxMaterials
    BY <1>1, <1>9, ToolSessionAssumption DEF MaterialSet, SessionBags
  <2>2. session' \in SessionBags /\ session'.bcs = AsMap.bcs
    BY <1>1, <2>1 DEF SessionBags
  <2> QED
    BY <1>1, <1>2, <1>9, <2>2 DEF MaterialSet
<1>10. CASE SetupStaged
  <2>1. PICK setup \in Setups : session' = [AsMap EXCEPT !.setup = setup]
    BY <1>10 DEF SetupStaged
  <2>2. session' \in SessionBags /\ session'.bcs = AsMap.bcs
    BY <1>1, <2>1 DEF SessionBags
  <2> QED
    BY <1>1, <1>2, <1>10, <2>2 DEF SetupStaged
<1>11. CASE Meshed
  <2>1. \/ field' = NoField
        \/ field' \in Fields /\ field'.of # {} /\ field'.of \subseteq 1..meshes'
    BY <1>0, <1>11, ToolSessionAssumption DEF Meshed, Fields
  <2> QED
    BY <1>0, <1>3, <1>11, <2>1, ToolSessionAssumption DEF Meshed
<1>12. CASE FieldKept
  BY <1>0, <1>3, <1>12 DEF FieldKept
<1> QED
  BY <1>5, <1>6, <1>7, <1>8, <1>9, <1>10, <1>11, <1>12, ToolEffects

(* The session bag and the handles have their types: a handle names a mesh *)
(* that some tool made, and the field at hand was computed, by a           *)
(* capability of the registry, on meshes that were made.                   *)
THEOREM ToolTypes == ToolsSpec => []ToolsTypeOK
<1>1. ToolsInit => ToolsTypeOK
  <2> SUFFICES ASSUME ToolsInit PROVE ToolsTypeOK
    OBVIOUS
  <2>1. PICK h \in Hosts : wired = h.wired /\ session = h.session
    BY DEF ToolsInit
  <2>2. h.wired \in BOOLEAN /\ h.session \in SessionBags /\ Len(h.session.bcs) <= MaxBcs
    BY ToolSessionAssumption
  <2>3. wired \in BOOLEAN /\ session \in SessionBags /\ Len(session.bcs) <= MaxBcs
    BY <2>1, <2>2
  <2>4. flat \in BOOLEAN /\ mesh = meshes /\ field = NoField
    BY DEF ToolsInit
  <2>5. meshes \in 0..MaxMeshes /\ made \in 0..MaxToolCalls
    BY ToolSessionAssumption DEF ToolsInit
  <2> QED
    BY <2>3, <2>4, <2>5 DEF ToolsTypeOK
<1>2. ToolsTypeOK /\ [ToolsNext]_toolVars => ToolsTypeOK'
  BY ToolsKeepTypes
<1> QED
  BY <1>1, <1>2, PTL DEF ToolsSpec

(* A tool that reports an error leaves no handle and nothing in the        *)
(* session behind, however far it got: no field of a first check that      *)
(* succeeded, no half of a proposal.                                       *)
THEOREM FailureChangesNothing == ToolsSpec => FailedToolsChangeNothing
<1> DEFINE Kept == reply'.code # "ok" =>
                     /\ UNCHANGED handles
                     /\ session' = session \/ (session.kind # "map" /\ session' = EmptyMap)
<1>1. ToolsTypeOK /\ [ToolsNext]_toolVars => [Kept]_toolVars
  <2> SUFFICES ASSUME ToolsTypeOK, ToolsNext PROVE Kept
    OBVIOUS
  <2>1. ASSUME reply'.code # "ok"
        PROVE  Quiet \/ Emptied
    BY <2>1, ToolEffects DEF Staged, MaterialSet, SetupStaged, Meshed, FieldKept
  <2> QED
    BY <2>1 DEF Quiet, Emptied, AsMap
<1> QED
  BY <1>1, ToolTypes, PTL DEF ToolsSpec, FailedToolsChangeNothing

(* Whatever tool stages something, everything staged before is still       *)
(* there, in its place.                                                    *)
THEOREM NothingStagedIsLost == ToolsSpec => StagingKeepsTheRest
<1> DEFINE Kept == session.kind = "map" =>
               /\ IsPrefix(session.bcs, session'.bcs) /\ Len(session'.bcs) <= Len(session.bcs) + 1
               /\ session'.materials >= session.materials
               /\ session'.geometry = session.geometry
               /\ session.setup # NoSetup => session'.setup # NoSetup
<1>1. ToolsTypeOK /\ [ToolsNext]_toolVars => [Kept]_toolVars
  <2> SUFFICES ASSUME ToolsTypeOK, ToolsNext, session.kind = "map" PROVE Kept
    OBVIOUS
  <2>1. /\ AsMap = session /\ session \in SessionBags
        /\ session.bcs \in Seq(Entries) /\ session.materials \in Nat
    BY DEF AsMap, ToolsTypeOK, SessionBags
  <2>2. ASSUME session'.bcs = session.bcs \/ \E e \in Entries : session'.bcs = Append(session.bcs, e)
        PROVE  IsPrefix(session.bcs, session'.bcs) /\ Len(session'.bcs) <= Len(session.bcs) + 1
    <3>1. CASE session'.bcs = session.bcs
      BY <2>1, <3>1 DEF IsPrefix
    <3>2. ASSUME NEW e \in Entries, session'.bcs = Append(session.bcs, e)
          PROVE  IsPrefix(session.bcs, session'.bcs) /\ Len(session'.bcs) <= Len(session.bcs) + 1
      <4>1. /\ Len(session'.bcs) = Len(session.bcs) + 1 /\ Len(session.bcs) \in Nat
            /\ \A i \in 1..Len(session.bcs) : session'.bcs[i] = session.bcs[i]
        BY <2>1, <3>2
      <4>2. SubSeq(session.bcs, 1, Len(session.bcs)) = SubSeq(session'.bcs, 1, Len(session.bcs))
        BY <4>1
      <4> QED
        BY <4>1, <4>2 DEF IsPrefix
    <3> QED
      BY <2>2, <3>1, <3>2
  <2>3. CASE UNCHANGED session
    BY <2>1, <2>2, <2>3
  <2>4. CASE Staged
    <3>1. PICK e \in Entries :
            \/ session' = WithBc(session, e)
            \/ e.dir \in Dirs /\ session' = [WithBc(session, e) EXCEPT !.setup.dir = e.dir]
      BY <2>1, <2>4 DEF Staged
    <3>2. /\ WithBc(session, e) \in [kind : {"map", "null", "other", "absent"},
                                     bcs : {Append(session.bcs, e)}, materials : {session.materials},
                                     setup : {session.setup}, geometry : {session.geometry}]
      BY <2>1 DEF WithBc, SessionBags
    <3>3. session.setup \in Setups
      BY <2>1 DEF SessionBags
    <3>4. /\ session'.bcs = Append(session.bcs, e)
          /\ session'.materials = session.materials /\ session'.geometry = session.geometry
          /\ \/ session'.setup = session.setup
             \/ e.dir \in Dirs /\ session'.setup = [session.setup EXCEPT !.dir = e.dir]
      BY <3>1, <3>2
    <3>5. ASSUME e.dir \in Dirs
          PROVE  [session.setup EXCEPT !.dir = e.dir] # NoSetup
      <4>1. [session.setup EXCEPT !.dir = e.dir].dir = e.dir /\ e.dir # "none"
        BY <3>3, <3>5, ToolSessionAssumption DEF Setups
      <4> QED
        BY <4>1 DEF NoSetup
    <3> QED
      BY <2>1, <2>2, <3>4, <3>5
  <2>5. CASE MaterialSet
    <3>1. session' = [session EXCEPT !.materials = @ + 1]
      BY <2>1, <2>5 DEF MaterialSet
    <3> QED
      BY <2>1, <2>2, <3>1 DEF SessionBags
  <2>6. CASE SetupStaged
    <3>1. PICK setup \in Setups : setup # NoSetup /\ session' = [session EXCEPT !.setup = setup]
      BY <2>1, <2>6 DEF SetupStaged
    <3> QED
      BY <2>1, <2>2, <3>1 DEF SessionBags
  <2> QED
    BY <2>1, <2>3, <2>4, <2>5, <2>6, ToolEffects DEF Quiet, Emptied, Meshed, FieldKept
<1> QED
  BY <1>1, ToolTypes, PTL DEF ToolsSpec, StagingKeepsTheRest

LEMMA FirstOfTagFacts ==
    ASSUME NEW bcs \in Seq(Entries), Readable(bcs) = DOMAIN bcs, NEW i \in DOMAIN bcs
    PROVE  /\ FirstOfTag(bcs, i) \in 1..i
           /\ bcs[FirstOfTag(bcs, i)].tag = bcs[i].tag
           /\ \A k \in 1..(FirstOfTag(bcs, i) - 1) : bcs[k].tag # bcs[i].tag
<1> DEFINE same == {j \in 1..i : bcs[j].tag = bcs[i].tag}
<1>1. i \in Nat /\ same \subseteq 1..i /\ i \in same
  OBVIOUS
<1>2. PICK j \in same : \A k \in same : j <= k
  <2> HIDE DEF same
  <2>1. same # {}
    BY <1>1
  <2> QED
    BY <1>1, <2>1, FirstIndex
<1>3. ASSUME NEW k \in 1..(j - 1)
      PROVE  bcs[k].tag # bcs[i].tag
  <2>1. k \in 1..i /\ ~ (j <= k)
    BY <1>1, <1>2
  <2>2. k \notin same
    BY <1>2, <2>1
  <2> QED
    BY <2>1, <2>2
<1>4. \E m \in 1..i : /\ bcs[m].tag = bcs[i].tag
                      /\ \A k \in 1..(m - 1) : bcs[k].tag # bcs[i].tag
  BY <1>2, <1>3
<1>5. /\ Readable(bcs) \cap (1..i) = 1..i
      /\ \A m \in 1..i : Readable(bcs) \cap (1..(m - 1)) = 1..(m - 1)
  OBVIOUS
<1> QED
  BY <1>4, <1>5 DEF FirstOfTag

(* Two entries of one tag have the same first. *)
LEMMA SameFirst ==
    ASSUME NEW bcs \in Seq(Entries), Readable(bcs) = DOMAIN bcs,
           NEW i \in DOMAIN bcs, NEW j \in DOMAIN bcs, bcs[i].tag = bcs[j].tag
    PROVE  FirstOfTag(bcs, i) = FirstOfTag(bcs, j)
<1> DEFINE f == FirstOfTag(bcs, i)
           g == FirstOfTag(bcs, j)
<1>1. /\ f \in 1..i /\ bcs[f].tag = bcs[i].tag /\ \A k \in 1..(f - 1) : bcs[k].tag # bcs[i].tag
      /\ g \in 1..j /\ bcs[g].tag = bcs[j].tag /\ \A k \in 1..(g - 1) : bcs[k].tag # bcs[j].tag
  BY FirstOfTagFacts
<1>2. i \in Nat /\ j \in Nat
  OBVIOUS
<1> HIDE DEF f, g
<1>3. ~ (f < g) /\ ~ (g < f)
  BY <1>1, <1>2
<1>4. f = g
  BY <1>1, <1>2, <1>3
<1> QED
  BY <1>4 DEF f, g

(* validate_bcs looks at the first entry of a tag only and yet finds every *)
(* conflict, since all others agree with that one.                         *)
THEOREM ValidationIsExact == ToolsSpec => []ValidatorIsExact
<1>1. ToolsTypeOK => ValidatorIsExact
  <2> SUFFICES ASSUME ToolsTypeOK PROVE ValidatorIsExact
    OBVIOUS
  <2> DEFINE bcs == AsMap.bcs
  <2>1. bcs \in Seq(Entries) /\ DOMAIN bcs = 1..Len(bcs) /\ Len(bcs) \in Nat
    BY AsMapTyped DEF SessionBags
  <2> HIDE DEF bcs
  <2>0. (\A i \in DOMAIN bcs : bcs[i].defect = "none") => Readable(bcs) = DOMAIN bcs
    BY DEF Readable, Unread
  <2>2. ASSUME BagOk(bcs), Readable(bcs) = DOMAIN bcs, NEW i \in DOMAIN bcs, NEW j \in DOMAIN bcs,
               i < j, bcs[i].tag = bcs[j].tag
        PROVE  bcs[i].type = "wall" /\ bcs[j].type = "wall"
    <3>1. /\ ~ DuplicateTag(bcs, i) /\ ~ DuplicateTag(bcs, j)
      BY <2>2 DEF BagOk
    <3>2. FirstOfTag(bcs, i) = FirstOfTag(bcs, j) /\ FirstOfTag(bcs, i) \in 1..i
      BY <2>1, <2>2, SameFirst, FirstOfTagFacts
    <3>3. FirstOfTag(bcs, j) # j
      BY <2>1, <2>2, <3>2
    <3>4. bcs[FirstOfTag(bcs, j)].type = bcs[j].type /\ bcs[j].type = "wall"
      BY <2>2, <3>1, <3>3 DEF DuplicateTag
    <3>5. bcs[i].type = "wall"
      BY <2>2, <3>1, <3>2, <3>4 DEF DuplicateTag
    <3> QED
      BY <3>4, <3>5
  <2>3. ASSUME Readable(bcs) = DOMAIN bcs, NEW i \in DOMAIN bcs, DuplicateTag(bcs, i)
        PROVE  \E f, j \in DOMAIN bcs : /\ f < j /\ bcs[f].tag = bcs[j].tag
                                        /\ ~ (bcs[f].type = "wall" /\ bcs[j].type = "wall")
    <3> DEFINE f == FirstOfTag(bcs, i)
    <3>1. /\ f \in 1..i /\ bcs[f].tag = bcs[i].tag
      BY <2>1, <2>3, FirstOfTagFacts
    <3>2. f # i /\ ~ (bcs[f].type = bcs[i].type /\ bcs[i].type = "wall")
      BY <2>3 DEF DuplicateTag
    <3> HIDE DEF f
    <3>3. f \in DOMAIN bcs /\ f < i
      BY <2>1, <3>1, <3>2
    <3> QED
      BY <3>1, <3>2, <3>3
  <2> QED
    BY <2>0, <2>2, <2>3 DEF ValidatorIsExact, BagOk, bcs
<1> QED
  BY <1>1, ToolTypes, PTL

(* A setup whose machine kept the rates of its preset has every rate the   *)
(* cost of its process divides by, for each process of the planner.        *)
THEOREM SetupsCanBeCosted == ToolsSpec => []SetupCostable
<1>1. SetupCostable
  <2> DEFINE setup == AsMap.setup
             ask   == [kind |-> "null", process |-> "default", bad |-> "nothing",
                       zero |-> {}, positive |-> {}]
  <2> SUFFICES ASSUME setup.process \in Processes,
                      preset_for(setup.process) \subseteq setup.machine
               PROVE  estimate_build_cost(ask, setup, "solid") = "ok"
    BY DEF SetupCostable
  <2> HIDE DEF setup
  <2>1. CostProcess(ask, setup) = setup.process
    BY DEF CostProcess, Processes
  <2>2. /\ "process_layer_height" \in preset_for(setup.process)
        /\ Divisors(setup.process) \subseteq preset_for(setup.process)
        /\ preset_for(setup.process) \subseteq Rates
    BY DEF Processes, preset_for, Divisors, Rates
  <2>3. setup.machine # NoMachine
    BY <2>2 DEF NoMachine
  <2>4. Rates \cap setup.machine \subseteq Resolved(ask, setup.machine, setup.process)
    BY <2>3 DEF Resolved
  <2>5. /\ "process_layer_height" \in Resolved(ask, setup.machine, setup.process)
        /\ Divisors(setup.process) \subseteq Resolved(ask, setup.machine, setup.process)
    BY <2>2, <2>4
  <2> DEFINE resolved == Resolved(ask, setup.machine, setup.process)
             checks ==
               <<Check(ask.kind = "other", "INVALID_ARGUMENT"),
                 Check(setup.process \notin Processes, "INVALID_ARGUMENT"),
                 Check(ask.bad \in {"fill_fraction", "density"}, "INVALID_ARGUMENT"),
                 Check("process_layer_height" \notin resolved, "INVALID_ARGUMENT"),
                 Check(ask.bad = "build_direction", "INVALID_ARGUMENT"),
                 Check("solid" # "solid", "PRECONDITION_FAILED"),
                 Check(~(Divisors(setup.process) \subseteq resolved), "INVALID_ARGUMENT")>>
  <2>6. estimate_build_cost(ask, setup, "solid") = FirstFailure(checks)
    BY <2>1 DEF estimate_build_cost
  <2>7. DOMAIN checks = 1..7 /\ \A i \in 1..7 : ~ checks[i][1]
    <3>1. DOMAIN checks = 1..7
      OBVIOUS
    <3> HIDE DEF resolved
    <3>2. ~ checks[1][1] /\ ~ checks[2][1] /\ ~ checks[3][1]
      BY DEF Check
    <3>3. ~ checks[4][1] /\ ~ checks[5][1] /\ ~ checks[6][1] /\ ~ checks[7][1]
      BY <2>5 DEF Check, resolved
    <3> HIDE DEF checks
    <3> QED
      BY <3>1, <3>2, <3>3
  <2> HIDE DEF checks
  <2>8. FirstFailure(checks) = "ok"
    BY <2>7 DEF FirstFailure
  <2> QED
    BY <2>6, <2>8
<1> QED
  BY <1>1, PTL
=============================================================================
