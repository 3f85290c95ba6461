----------------------------- MODULE ChatBridge -----------------------------
(***************************************************************************)
(* The front ends of the agent.  On the desktop, the chat panel (Chat.tsx) *)
(* and the bridge behind it (c-bridge/provider.cpp), which keeps one       *)
(* suspended session per project between chat_send and chat_confirm; and   *)
(* the commands `souxmar agent chat` and `souxmar agent invoke`.           *)
(*                                                                         *)
(* A desktop turn runs on the app's main thread and under sessions_mutex:  *)
(* while it lasts the panel is busy and nothing else happens.              *)
(***************************************************************************)
EXTENDS Agent, SequencesExt

CONSTANTS Projects, NoCard, NoSession

VARIABLES
    front,       \* "desktop", "chat" or "invoke"
    project,     \* the panel's projectId
    pending,     \* the call on the panel's card, or NoCard
    sessions,    \* the suspended session of a project, or NoSession
    owner,       \* the project whose turn is running
    settled,     \* history: confirmations answered in the running turn
    allowed,     \* history: ids of pending calls that chat_confirm let run
    consented,   \* history: ids of calls the user allowed on a card
    shown        \* history: rows of the panel's transcript

panel == <<project, pending, shown, consented>>
vars == <<agentVars, front, panel, sessions, owner, settled, allowed>>

busy == running \/ stop_reason # "none"

(* What AgentSession keeps of a suspended turn; the head of calls is pending. *)
Session ==
    [history |-> history, calls |-> calls, steps_used |-> steps_used,
     overrides |-> overrides, confirmed_once |-> confirmed_once, settled |-> settled]

Sessions ==
    [history : Seq(Messages), calls : Seq(Calls), steps_used : Nat,
     overrides : SUBSET Names, confirmed_once : SUBSET Names, settled : Nat]

TypeOK ==
    /\ AgentTypeOK
    /\ front \in {"desktop", "chat", "invoke"}
    /\ project \in Projects /\ owner \in Projects
    /\ pending \in Calls \cup {NoCard}
    /\ sessions \in [Projects -> Sessions \cup {NoSession}]
    /\ \A p \in Projects : sessions[p] # NoSession =>
           LET s == sessions[p]
           IN  s.calls # <<>> /\ Gated(s.overrides, s.confirmed_once, Head(s.calls).name)
    /\ settled \in Nat
    /\ allowed \subseteq 1..MaxCalls /\ consented \subseteq 1..MaxCalls /\ shown \subseteq 1..MaxCalls

(* The policies of the callers: `--yes` overrides every tool to Auto. *)
Init ==
    /\ AgentInit
    /\ confirmed_once = {}
    /\ \/ /\ front = "desktop" /\ suspend_on_confirmation = TRUE
          /\ prompter = FALSE /\ overrides = {}
       \/ /\ front = "chat" /\ suspend_on_confirmation = FALSE
          /\ \/ prompter = TRUE /\ overrides = {}
             \/ prompter = FALSE /\ overrides = Registered
       \/ /\ front = "invoke" /\ suspend_on_confirmation = FALSE
          /\ prompter = FALSE /\ overrides \in {{}, Registered}
    /\ project \in Projects /\ owner = project
    /\ pending = NoCard
    /\ sessions = [p \in Projects |-> NoSession]
    /\ settled = 0
    /\ allowed = {} /\ consented = {} /\ shown = {}

-----------------------------------------------------------------------------
(* The command line: one turn, or one dispatch, per process.               *)

cmd_agent_chat ==
    /\ front = "chat" /\ stop_reason = "none" /\ ~ running /\ history = <<>>
    /\ run_agent_turn
    /\ UNCHANGED <<mode, policy, issued, ran, granted, front, panel, sessions, owner,
                   settled, allowed>>

cmd_agent_invoke ==
    /\ front = "invoke" /\ issued = 0
    /\ \E name \in Names, result \in Results :
         Dispatch([id |-> 1, name |-> name], overrides, confirmed_once, result)
    /\ issued' = 1
    /\ UNCHANGED <<mode, overrides, turn, front, panel, sessions, owner, settled, allowed>>

-----------------------------------------------------------------------------
(* The panel.                                                              *)

Idle == front = "desktop" /\ ~ busy

(* The workbench keeps the panel, its card included, over a change of project. *)
SwitchProject ==
    /\ Idle
    /\ project' \in Projects \ {project}
    /\ UNCHANGED <<agentVars, front, pending, shown, consented, sessions, owner, settled, allowed>>

(* chat_send: a new session replaces a suspended one.  A request that is   *)
(* rejected, because the configuration does not parse or names a provider  *)
(* that is not there, changes nothing and is no step.                      *)
chat_send ==
    /\ Idle /\ pending = NoCard
    /\ run_agent_turn
    /\ overrides' = {} /\ confirmed_once' = {}
    /\ owner' = project
    /\ settled' = 0
    /\ sessions' = [sessions EXCEPT ![project] = NoSession]
    /\ UNCHANGED <<mode, issued, ran, granted, front, panel, allowed>>

(* decide: the answer goes to chat_confirm with the panel's projectId.     *)
Decide(allow) ==
    /\ Idle /\ pending # NoCard
    /\ pending' = NoCard
    /\ consented' = IF allow THEN consented \cup {pending.id} ELSE consented
    /\ UNCHANGED <<front, project, shown, mode>>

(* No suspended turn, or no provider any more: the session is gone. *)
ConfirmRejected(allow) ==
    /\ Decide(allow)
    /\ sessions' = [sessions EXCEPT ![project] = NoSession]
    /\ UNCHANGED <<policy, turn, issued, ran, granted, owner, settled, allowed>>

chat_confirm(allow) ==
    /\ Decide(allow)
    /\ sessions[project] # NoSession
    /\ resume_agent_turn(sessions[project], allow)
    /\ allowed' = IF allow THEN allowed \cup {Head(sessions[project].calls).id} ELSE allowed
    /\ settled' = sessions[project].settled + 1
    /\ owner' = project
    /\ UNCHANGED <<issued, sessions>>

(* Mutant: a turn that stops at a question shows only the question. *)
FillResponse_NoRowsWhenAsking ==
    {rows[i].call.id : i \in {k \in DOMAIN rows : stop_reason # "AwaitingConfirmation"}}

FillResponse == {rows[i].call.id : i \in DOMAIN rows}

(***************************************************************************)
(* The turn has stopped: fill_response, the session is kept if it waits    *)
(* for an answer and erased otherwise, and applyTurn updates the panel.    *)
(***************************************************************************)
ChatReturn ==
    /\ front = "desktop" /\ ~ running /\ stop_reason # "none"
    /\ shown' = shown \cup FillResponse
    /\ \/ /\ stop_reason = "AwaitingConfirmation"
          /\ pending' = Head(calls)
          /\ sessions' = [sessions EXCEPT ![owner] = Session]
       \/ /\ stop_reason # "AwaitingConfirmation"
          /\ pending' = NoCard
          /\ sessions' = [sessions EXCEPT ![owner] = NoSession]
    /\ history' = <<>> /\ calls' = <<>> /\ rows' = <<>>
    /\ steps_used' = 0 /\ limit' = 0 /\ stop_reason' = "none"
    /\ overrides' = {} /\ confirmed_once' = {}
    /\ settled' = 0
    /\ UNCHANGED <<mode, running, issued, ran, granted, front, project, consented, owner, allowed>>

Loop ==
    /\ run_loop
    /\ UNCHANGED <<front, panel, sessions, owner, settled, allowed>>

Next ==
    \/ cmd_agent_chat \/ cmd_agent_invoke
    \/ SwitchProject \/ chat_send
    \/ \E allow \in BOOLEAN : ConfirmRejected(allow) \/ chat_confirm(allow)
    \/ ChatReturn \/ Loop

Spec == Init /\ [][Next]_vars

-----------------------------------------------------------------------------
(* Properties.                                                             *)

(***************************************************************************)
(* What both OpenAI and Anthropic insist on (agent.cpp): whenever the      *)
(* provider is called, over however many suspensions, the history has one  *)
(* system message, in front, and each assistant message is followed by the *)
(* results of exactly its calls, in their order.                           *)
(***************************************************************************)
RequestsAreWellFormed ==
    Due =>
        /\ {i \in DOMAIN history : history[i].role = "system"} = {1}
        /\ \A i \in DOMAIN history : history[i].role = "assistant" =>
             \A j \in DOMAIN history[i].ids :
               /\ i + j <= Len(history)
               /\ history[i + j] = Message("tool", <<history[i].ids[j]>>)
        /\ \A k \in DOMAIN history : history[k].role = "tool" =>
             \E i \in 1..(k - 1) :
               history[i].role = "assistant" /\ (k - i) \in DOMAIN history[i].ids

(* The ids of the calls in a history. *)
Told(messages) == UNION {ToSet(messages[k].ids) : k \in DOMAIN messages}

(***************************************************************************)
(* A handler is entered once per call, and the calls of one history in the *)
(* order the model emitted them, "because souxmar tools mutate shared      *)
(* state" (agent.h), also when some of them wait in a suspended session.   *)
(***************************************************************************)
ToolsRunOnceInOrder ==
    \A i, j \in DOMAIN ran : i < j =>
        /\ ran[i].id # ran[j].id
        /\ {ran[i].id, ran[j].id} \subseteq Told(history) => ran[i].id < ran[j].id

(***************************************************************************)
(* A guarded tool runs only when it was let through: this very call by the *)
(* prompter or by chat_confirm, or, for ConfirmOnce, an earlier call of    *)
(* the same tool.  `--yes` is the user's word for all tools.               *)
(***************************************************************************)
OnlyApprovedToolsRun ==
    \A i \in DOMAIN ran :
        LET yes == granted \cup allowed IN
        \/ Confirmation[ran[i].name] = "Auto"
        \/ front # "desktop" /\ overrides = Registered
        \/ ran[i].id \in yes
        \/ /\ Confirmation[ran[i].name] = "ConfirmOnce"
           /\ \E j \in 1..(i - 1) : ran[j].name = ran[i].name /\ ran[j].id \in yes

(***************************************************************************)
(* needs_user_decision mirrors dispatch_tool "so the loop and the          *)
(* dispatcher never disagree": on the desktop no call is refused for want  *)
(* of a prompter, and none is denied that the user was not asked about.    *)
(***************************************************************************)
LoopAndDispatcherAgree ==
    front = "desktop" => \A i \in DOMAIN rows :
        /\ rows[i].result # "NOT_CONFIRMED"
        /\ rows[i].result = "DENIED" => i = 1 /\ settled > 0

(***************************************************************************)
(* "A turn is never silent about having changed the project" (Chat.tsx):   *)
(* when the panel is idle it has shown a row for every tool that ran.      *)
(***************************************************************************)
NoSilentChange ==
    Idle => \A i \in DOMAIN ran : ran[i].id \in shown

(***************************************************************************)
(* agent.h 137 calls max_steps a "hard ceiling on provider round-trips":   *)
(* of the turn, however often it is suspended.  (0 stands for 1.)          *)
(***************************************************************************)
Ceiling == IF max_steps = 0 THEN 1 ELSE max_steps
HardCeiling == steps_used <= Ceiling

(***************************************************************************)
(* What resume_agent_turn keeps to instead: once the ceiling is reached,   *)
(* each confirmation that is answered buys one more round trip.            *)
(***************************************************************************)
RoundTripsBounded == steps_used <= Ceiling + settled

(***************************************************************************)
(* "Settle the call the user was asked about" (resume_agent_turn): what    *)
(* chat_confirm lets run is the call on the card that the user allowed.    *)
(***************************************************************************)
ApprovalMatchesCard == allowed \subseteq consented
=============================================================================
