------------------------------- MODULE Agent --------------------------------
(***************************************************************************)
(* One turn of the agent (ai/agent.cpp) and the gate in front of the tools *)
(* (dispatch_tool, ai/tool_dispatcher.cpp).  The model's answers are an    *)
(* input: it may ask for any tools, answer, or fail.  A call is an id, as  *)
(* providers number them, and a tool's name; arguments, texts, token       *)
(* counts and the audit log are left out.                                  *)
(***************************************************************************)
EXTENDS Naturals, Sequences

CONSTANTS
    Names,        \* tool names a model may ask for
    Confirmation, \* the level of each registered tool
    max_steps,
    MaxCalls,     \* bound: calls of all turns together
    MaxBatch      \* bound: calls in one answer

Levels == {"Auto", "ConfirmOnce", "ConfirmAlways"}
Registered == DOMAIN Confirmation

ASSUME AgentAssumption ==
    /\ Registered \subseteq Names
    /\ Confirmation \in [Registered -> Levels]
    /\ max_steps \in Nat /\ MaxCalls \in Nat \ {0} /\ MaxBatch \in Nat

VARIABLES
    suspend_on_confirmation,
    prompter,        \* is there one?
    overrides,       \* tools overridden to Auto, the only override callers use
    confirmed_once,
    running,         \* is a turn under way?
    history,         \* messages: a role, and the ids of its calls or of its call
    calls,           \* calls of the last answer still to be executed
    steps_used,
    limit,           \* the loop stops when steps_used reaches it
    rows,            \* the calls in outcome.steps
    stop_reason,
    issued,          \* ids given out so far
    ran,             \* history: calls whose handler was entered
    granted          \* history: ids the user said yes to at the prompter

policy == <<overrides, confirmed_once>>
mode == <<suspend_on_confirmation, prompter>>
turn == <<running, history, calls, steps_used, limit, rows, stop_reason>>
agentVars == <<mode, policy, turn, issued, ran, granted>>

Calls == [id : 1..MaxCalls, name : Names]
Roles == {"system", "user", "assistant", "tool"}
Reasons == {"none", "FinalAnswer", "MaxStepsReached", "ProviderFailed",
            "AwaitingConfirmation"}
Messages == [role : Roles, ids : Seq(1..MaxCalls)]
Message(role, ids) == [role |-> role, ids |-> ids]

Results == {"ok", "failed", "NOT_FOUND", "NOT_CONFIRMED", "DENIED"}

AgentTypeOK ==
    /\ suspend_on_confirmation \in BOOLEAN /\ prompter \in BOOLEAN
    /\ overrides \subseteq Names /\ confirmed_once \subseteq Names
    /\ running \in BOOLEAN
    /\ history \in Seq(Messages)
    /\ calls \in Seq(Calls)
    /\ steps_used \in Nat /\ limit \in Nat
    /\ rows \in Seq([call : Calls, result : Results])
    /\ stop_reason \in Reasons
    /\ issued \in 0..MaxCalls
    /\ ran \in Seq(Calls)
    /\ granted \subseteq 1..MaxCalls

AgentInit ==
    /\ running = FALSE
    /\ history = <<>> /\ calls = <<>> /\ rows = <<>>
    /\ steps_used = 0 /\ limit = 0
    /\ stop_reason = "none"
    /\ issued = 0 /\ ran = <<>> /\ granted = {}

-----------------------------------------------------------------------------
(* The gate.                                                               *)

(* Does dispatch_tool need the user for this tool?                         *)
Gated(auto, once, name) ==
    /\ name \in Registered \ auto
    /\ Confirmation[name] # "Auto"
    /\ ~ (Confirmation[name] = "ConfirmOnce" /\ name \in once)

(* Mutant: the loop forgets that a ConfirmOnce tool asks the first time. *)
needs_user_decision_OnlyAlways(name) ==
    /\ name \in Registered
    /\ name \notin overrides
    /\ Confirmation[name] = "ConfirmAlways"
    /\ ~ prompter

(* The loop's own version of the question.                                 *)
needs_user_decision(name) ==
    /\ name \in Registered
    /\ LET level == IF name \in overrides THEN "Auto" ELSE Confirmation[name]
       IN  /\ level # "Auto"
           /\ level = "ConfirmOnce" => name \notin confirmed_once
    /\ ~ prompter

(* The handler runs; it succeeds, or fails or throws. *)
Handler(call, result) ==
    /\ result \in {"ok", "failed"}
    /\ ran' = Append(ran, call)

(* dispatch_tool under the given overrides and confirmations: the result,  *)
(* the confirmations afterwards, and whether the terminal's user said yes. *)
Dispatch(call, auto, once, result) ==
    \/ /\ call.name \notin Registered
       /\ result = "NOT_FOUND"
       /\ confirmed_once' = once
       /\ UNCHANGED <<ran, granted>>
    \/ /\ Gated(auto, once, call.name)
       /\ \/ ~ prompter /\ result = "NOT_CONFIRMED"
          \/ prompter /\ result = "DENIED"
       /\ confirmed_once' = once
       /\ UNCHANGED <<ran, granted>>
    \/ /\ Gated(auto, once, call.name)
       /\ prompter
       /\ confirmed_once' = once \cup {n \in {call.name} : Confirmation[n] = "ConfirmOnce"}
       /\ granted' = granted \cup {call.id}
       /\ Handler(call, result)
    \/ /\ call.name \in Registered
       /\ ~ Gated(auto, once, call.name)
       /\ confirmed_once' = once
       /\ Handler(call, result)
       /\ UNCHANGED granted

(* Mutant: the model is not told about a call that was declined. *)
WithResult_UnlessDenied(messages, call, result) ==
    IF result = "DENIED" THEN messages ELSE Append(messages, Message("tool", <<call.id>>))

(* The model is told every result, errors included. *)
WithResult(messages, call, result) == Append(messages, Message("tool", <<call.id>>))

Row(call, result) == [call |-> call, result |-> result]

-----------------------------------------------------------------------------
(* run_loop.                                                               *)

Stop(reason) ==
    /\ running' = FALSE
    /\ stop_reason' = reason

(* The next provider round trip is due. *)
Due == running /\ calls = <<>> /\ steps_used < limit

(* The provider's call ids are new. *)
Batches ==
    UNION {{[i \in 1..n |-> [id |-> issued + i, name |-> names[i]]] : names \in [1..n -> Names]} :
             n \in {k \in 1..MaxBatch : issued + k <= MaxCalls}}

ProviderCalls ==
    /\ Due
    /\ \E batch \in Batches :
         /\ calls' = batch
         /\ history' = Append(history, Message("assistant", [i \in DOMAIN batch |-> batch[i].id]))
         /\ issued' = issued + Len(batch)
    /\ steps_used' = steps_used + 1
    /\ UNCHANGED <<mode, policy, running, limit, rows, stop_reason, ran, granted>>

ProviderAnswers ==
    /\ Due
    /\ history' = Append(history, Message("assistant", <<>>))
    /\ steps_used' = steps_used + 1
    /\ Stop("FinalAnswer")
    /\ UNCHANGED <<mode, policy, calls, limit, rows, issued, ran, granted>>

ProviderFails ==
    /\ Due
    /\ Stop("ProviderFailed")
    /\ UNCHANGED <<mode, policy, history, calls, steps_used, limit, rows, issued, ran, granted>>

MaxStepsReached ==
    /\ running /\ calls = <<>> /\ steps_used >= limit
    /\ Stop("MaxStepsReached")
    /\ UNCHANGED <<mode, policy, history, calls, steps_used, limit, rows, issued, ran, granted>>

MustAsk == suspend_on_confirmation /\ needs_user_decision(Head(calls).name)

(* Mutant: the calls behind the one that is asked about are run first. *)
Suspend_AtTheEnd ==
    /\ running /\ calls # <<>>
    /\ MustAsk
    /\ IF Len(calls) = 1
       THEN Stop("AwaitingConfirmation") /\ UNCHANGED calls
       ELSE calls' = Append(Tail(calls), Head(calls)) /\ UNCHANGED <<running, stop_reason>>
    /\ UNCHANGED <<mode, policy, history, steps_used, limit, rows, issued, ran, granted>>

(* pending is the head of calls, queued their tail. *)
Suspend ==
    /\ running /\ calls # <<>>
    /\ MustAsk
    /\ Stop("AwaitingConfirmation")
    /\ UNCHANGED <<mode, policy, history, calls, steps_used, limit, rows, issued, ran, granted>>

execute_call ==
    /\ running /\ calls # <<>>
    /\ ~ MustAsk
    /\ \E result \in Results :
         /\ Dispatch(Head(calls), overrides, confirmed_once, result)
         /\ history' = WithResult(history, Head(calls), result)
         /\ rows' = Append(rows, Row(Head(calls), result))
    /\ calls' = Tail(calls)
    /\ UNCHANGED <<mode, overrides, running, steps_used, limit, stop_reason, issued>>

run_loop ==
    \/ ProviderCalls \/ ProviderAnswers \/ ProviderFails \/ MaxStepsReached
    \/ Suspend \/ execute_call

-----------------------------------------------------------------------------
(* The two ways into the loop.                                             *)

run_agent_turn ==
    /\ history' = <<Message("system", <<>>), Message("user", <<>>)>>
    /\ calls' = <<>> /\ rows' = <<>>
    /\ steps_used' = 0
    /\ limit' = IF max_steps = 0 THEN 1 ELSE max_steps
    /\ running' = TRUE
    /\ stop_reason' = "none"

ContinuedLimit(used) == IF max_steps > used THEN max_steps ELSE used + 1

(* Mutant: the override for the approved call stays. *)
AfterApproval_Keeps(auto, name) == auto \cup {name}

AfterApproval(auto, name) == auto \ {name}

(***************************************************************************)
(* s is the suspended turn.  The pending call is settled: approved, it is  *)
(* dispatched under an override that lasts for this call only; declined,   *)
(* the model is told.  Then the queued calls, then the loop.               *)
(***************************************************************************)
resume_agent_turn(s, approved) ==
    LET asked == Head(s.calls) IN
    /\ \E result \in Results :
         /\ history' = WithResult(s.history, asked, result)
         /\ rows' = <<Row(asked, result)>>
         /\ \/ /\ approved
               /\ Dispatch(asked, s.overrides \cup {asked.name},
                           s.confirmed_once \cup {asked.name}, result)
               /\ overrides' = AfterApproval(s.overrides, asked.name)
            \/ /\ ~ approved
               /\ result = "DENIED"
               /\ overrides' = s.overrides
               /\ confirmed_once' = s.confirmed_once
               /\ UNCHANGED <<ran, granted>>
    /\ calls' = Tail(s.calls)
    /\ steps_used' = s.steps_used
    /\ limit' = ContinuedLimit(s.steps_used)
    /\ running' = TRUE
    /\ stop_reason' = "none"
=============================================================================
