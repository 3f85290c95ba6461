-------------------------------- MODULE Dag --------------------------------
(***************************************************************************)
(* validate (src/pipeline/dag.cpp): checks ids and references, then sorts  *)
(* the stages with Kahn's algorithm, one step per popped stage.  The ready *)
(* vector is kept sorted by declaration order, so that it is a set of      *)
(* which the least member is popped.                                       *)
(***************************************************************************)
EXTENDS Naturals, Sequences, FiniteSets, FiniteSetsExt

CONSTANTS
    N,          \* number of stages; a stage is its position 1..N
    Ids,        \* stage ids
    NoId,       \* the empty id
    Pipelines   \* the pipelines to validate, see Pipeline

Positions == 1..N

(* ids[i] is the id of stage i, refs[i] the distinct ids its input refers to. *)
Pipeline == [ids : [Positions -> Ids \cup {NoId}], refs : [Positions -> SUBSET Ids]]

ASSUME DagAssumption ==
    /\ N \in Nat
    /\ NoId \notin Ids
    /\ Pipelines \subseteq Pipeline

VARIABLES
    pipeline,
    phase,      \* "check", "sort", then "ok", "errors" or "cycle"
    errors,     \* positions and kinds of the errors found
    in_degree, ready, order

validateVars == <<pipeline, phase, errors, in_degree, ready, order>>

(* id_to_index: the first stage with an id owns it. *)
IndexOf(id) == Min({i \in Positions : pipeline.ids[i] = id})
Known(id) == \E i \in Positions : pipeline.ids[i] = id

(* The stages that stage i must come after, and those that wait for it. *)
Producers(i) == {IndexOf(id) : id \in pipeline.refs[i]}
Children(i) == {c \in Positions : i \in Producers(c)}

ValidateInit ==
    /\ pipeline \in Pipelines
    /\ phase = "check"
    /\ errors = {}
    /\ in_degree = [i \in Positions |-> 0]
    /\ ready = {}
    /\ order = <<>>

(* Mutant: duplicates are left to the parser. *)
IdErrors_EmptyOnly ==
    {<<"empty", i>> : i \in {j \in Positions : pipeline.ids[j] = NoId}}

IdErrors ==
    {<<"empty", i>> : i \in {j \in Positions : pipeline.ids[j] = NoId}}
    \cup {<<"duplicate", i>> : i \in {j \in Positions :
            pipeline.ids[j] # NoId /\ IndexOf(pipeline.ids[j]) # j}}

(* An id that is the stage's own is an error even when it is a duplicate. *)
RefErrors ==
    {<<"self", i>> : i \in {j \in Positions : pipeline.ids[j] \in pipeline.refs[j]}}
    \cup {<<"unknown", i>> : i \in {j \in Positions :
            \E id \in pipeline.refs[j] : id # pipeline.ids[j] /\ ~ Known(id)}}

(* Every error is collected before the first is returned. *)
CheckReferences ==
    /\ phase = "check"
    /\ errors' = IdErrors \cup RefErrors
    /\ \/ /\ errors' # {}
          /\ phase' = "errors"
          /\ UNCHANGED <<in_degree, ready>>
       \/ /\ errors' = {}
          /\ phase' = "sort"
          /\ in_degree' = [i \in Positions |-> Cardinality(Producers(i))]
          /\ ready' = {i \in Positions : in_degree'[i] = 0}
    /\ UNCHANGED <<pipeline, order>>

(* Mutant: children are appended to the ready vector, not inserted in order. *)
Front_Any == Max(ready)

Front == Min(ready)

Released(node) == {c \in Children(node) : in_degree[c] = 1}

Pop ==
    /\ phase = "sort"
    /\ ready # {}
    /\ LET node == Front
       IN /\ order' = Append(order, node)
          /\ in_degree' = [c \in Positions |-> IF c \in Children(node)
                                               THEN in_degree[c] - 1 ELSE in_degree[c]]
          /\ ready' = (ready \ {node}) \cup Released(node)
    /\ UNCHANGED <<pipeline, phase, errors>>

(* Mutant: the reported stages are those that were sorted. *)
CycleMembers_Sorted == {i \in Positions : in_degree[i] = 0}

CycleMembers == {i \in Positions : in_degree[i] > 0}

Conclude ==
    /\ phase = "sort"
    /\ ready = {}
    /\ \/ /\ Len(order) = N
          /\ phase' = "ok"
          /\ UNCHANGED errors
       \/ /\ Len(order) # N
          /\ phase' = "cycle"
          /\ errors' = {<<"cycle", i>> : i \in CycleMembers}
    /\ UNCHANGED <<pipeline, in_degree, ready, order>>

ValidateNext == CheckReferences \/ Pop \/ Conclude

ValidateSpec == ValidateInit /\ [][ValidateNext]_validateVars /\ WF_validateVars(ValidateNext)

(* Every variable holds a value of its kind. *)
ValidateTypeOK ==
    /\ pipeline \in Pipelines
    /\ phase \in {"check", "sort", "ok", "errors", "cycle"}
    /\ errors \subseteq {"empty", "duplicate", "self", "unknown", "cycle"} \X Positions
    /\ in_degree \in [Positions -> Nat]
    /\ ready \subseteq Positions
    /\ order \in Seq(Positions)

-----------------------------------------------------------------------------
(* The reference: what is upstream of a stage, within n references. *)
UpstreamWithin[n \in 0..N] ==
    [i \in Positions |->
        IF n = 0 THEN {}
        ELSE Producers(i) \cup UNION {Producers(u) : u \in UpstreamWithin[n - 1][i]}]

OnCycle == LET upstream == UpstreamWithin[N] IN {i \in Positions : i \in upstream[i]}

WellFormedIds ==
    /\ \A i \in Positions : pipeline.ids[i] # NoId
    /\ \A i, j \in Positions : pipeline.ids[i] = pipeline.ids[j] => i = j
    /\ \A i \in Positions : \A id \in pipeline.refs[i] : Known(id)

(***************************************************************************)
(* dag.h: a pipeline is accepted exactly when ids are unique, every        *)
(* reference exists and the graph they induce has no cycle.                *)
(***************************************************************************)
AcceptedIffWellFormed ==
    phase \in {"ok", "errors", "cycle"} =>
        ((phase = "ok") = (WellFormedIds /\ OnCycle = {}))

(***************************************************************************)
(* Every stage comes after all it refers to, and among the stages that     *)
(* could come next it is the one declared first: the order is unique, so   *)
(* that two runs of the same pipeline visit its stages alike.              *)
(***************************************************************************)
OrderIsStable ==
    \A k \in 1..Len(order) :
        LET before == {order[j] : j \in 1..(k - 1)}
            possible == {i \in Positions \ before : Producers(i) \subseteq before}
        IN order[k] = Min(possible)

(***************************************************************************)
(* The cycle error names every stage on a cycle, and besides them only     *)
(* stages that depend on one.                                              *)
(***************************************************************************)
CycleReport ==
    phase = "cycle" =>
        LET named == {i \in Positions : <<"cycle", i>> \in errors}
            upstream == UpstreamWithin[N]
            cyclic == OnCycle
        IN /\ cyclic # {}
           /\ named = cyclic \cup {i \in Positions : upstream[i] \cap cyclic # {}}

(***************************************************************************)
(* validate() tells good pipelines from bad ones, and its error is exact.  *)
(***************************************************************************)
ValidateIsExact == AcceptedIffWellFormed /\ CycleReport
=============================================================================
