---------------------------- MODULE HostedPlugins ----------------------------
(***************************************************************************)
(* The host process (PluginHost) whose pipeline calls plugins              *)
(* (PluginOutcomes): while it runs, the entry points of one of the example *)
(* plugins are called, any number of times and with any failures.          *)
(***************************************************************************)
EXTENDS PluginHost, PluginOutcomes

CONSTANT Callers     \* bound: the contents of the directories with which calls are made

NoCalls ==
    /\ plugin = {} /\ registered = {}
    /\ call = "none" /\ at = 0
    /\ held = {} /\ out = "none" /\ file = "old"
    /\ handler = NoHandler /\ threw = "no"
    /\ status = "none" /\ result = NoResult

\* The pipeline runs: its calls are those of one of the example plugins.
CallsBegin ==
    /\ plugin' \in Registrations
    /\ UNCHANGED <<registered, call, at, held, out, file, handler, threw, status, result>>

CallsEnd ==
    /\ plugin' = {} /\ registered' = {}
    /\ call' = "none" /\ at' = 0
    /\ held' = {} /\ out' = "none" /\ file' = "old"
    /\ handler' = NoHandler /\ threw' = "no"
    /\ status' = "none" /\ result' = NoResult

CallsFollow ==
    \/ pc' = "running" /\ content \in Callers /\ CallsBegin
    \/ pc = "running" /\ CallsEnd
    \/ ~ (pc' = "running" /\ content \in Callers) /\ pc # "running" /\ UNCHANGED outcomesVars

HostedInit == Init /\ NoCalls

\* The pipeline does not end within a call.
HostedNext ==
    \/ pc = "running" /\ content \in Callers /\ OutcomesNext /\ UNCHANGED vars
    \/ at = 0 /\ Next /\ CallsFollow

\* As PluginHost's fairness says: whatever it calls, the pipeline ends.
HostedSpec == HostedInit /\ [][HostedNext]_<<vars, outcomesVars>> /\ Fairness
=============================================================================
