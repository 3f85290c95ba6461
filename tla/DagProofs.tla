------------------------------ MODULE DagProofs ------------------------------
(***************************************************************************)
(* Theorems about Dag, for every number of stages and every pipeline:      *)
(* Kahn's queue yields the one order in which every stage comes after what *)
(* it refers to and otherwise as declared, and what validate accepts,      *)
(* refuses and names is exactly what the reference says.                   *)
(***************************************************************************)
EXTENDS Dag, IndexLemmas

-----------------------------------------------------------------------------
(* The least position of a set, which Front and IndexOf take. *)

(* Min is the least member of a non-empty set of positions. *)
LEMMA MinIs ==
    ASSUME NEW S, S \subseteq Positions, S # {}
    PROVE  Min(S) \in S /\ \A y \in S : Min(S) <= y
<1>1. \E x \in S : \A y \in S : x <= y
  BY DagAssumption, FirstIndex DEF Positions
<1> QED
  BY <1>1 DEF Min

(* No stage refers to itself. *)
NoSelf == \A i \in Positions : pipeline.ids[i] \notin pipeline.refs[i]

(* A known id is that of the stage IndexOf finds. *)
LEMMA IndexOfIs ==
    ASSUME NEW id, Known(id)
    PROVE  IndexOf(id) \in Positions /\ pipeline.ids[IndexOf(id)] = id
<1> DEFINE S == {i \in Positions : pipeline.ids[i] = id}
<1>1. S \subseteq Positions /\ S # {}
  BY DEF Known
<1>2. Min(S) \in S
  <2> HIDE DEF S
  <2> QED
    BY <1>1, MinIs
<1> QED
  BY <1>2 DEF IndexOf

(* When the ids are in order, what a stage refers to are stages. *)
LEMMA ProducersAre ==
    ASSUME WellFormedIds, NEW i \in Positions
    PROVE  Producers(i) \subseteq Positions /\ IsFiniteSet(Producers(i))
<1>1. Producers(i) \subseteq Positions
  BY IndexOfIs DEF WellFormedIds, Producers
<1>2. IsFiniteSet(Positions)
  BY DagAssumption, FS_Interval DEF Positions
<1> QED
  BY <1>1, <1>2, FS_Subset

(* validate finds no error exactly when ids and references are in order. *)
LEMMA ErrorsAreExact == (IdErrors \cup RefErrors = {}) <=> (WellFormedIds /\ NoSelf)
<1> DEFINE Mistaken(j) == \E id \in pipeline.refs[j] : id # pipeline.ids[j] /\ ~ Known(id)
           Repeated(j) == pipeline.ids[j] # NoId /\ IndexOf(pipeline.ids[j]) # j
<1>1. (IdErrors \cup RefErrors = {}) <=>
        \A j \in Positions : /\ pipeline.ids[j] # NoId /\ ~ Repeated(j)
                             /\ pipeline.ids[j] \notin pipeline.refs[j] /\ ~ Mistaken(j)
  <2> DEFINE Self(j) == pipeline.ids[j] \in pipeline.refs[j]
             Nameless(j) == pipeline.ids[j] = NoId
             Named(kind, S) == {<<kind, i>> : i \in S}
  <2>1. IdErrors \cup RefErrors =
          Named("empty", {j \in Positions : Nameless(j)})
          \cup Named("duplicate", {j \in Positions : Repeated(j)})
          \cup Named("self", {j \in Positions : Self(j)})
          \cup Named("unknown", {j \in Positions : Mistaken(j)})
    BY Zenon DEF IdErrors, RefErrors
  <2>2. \A kind, S : Named(kind, S) = {} <=> S = {}
    OBVIOUS
  <2> HIDE DEF Named, Repeated, Mistaken, Self, Nameless
  <2>3. \A A, B, C, D : A \cup B \cup C \cup D = {} <=> A = {} /\ B = {} /\ C = {} /\ D = {}
    OBVIOUS
  <2>4. (IdErrors \cup RefErrors = {}) <=>
          /\ Named("empty", {j \in Positions : Nameless(j)}) = {}
          /\ Named("duplicate", {j \in Positions : Repeated(j)}) = {}
          /\ Named("self", {j \in Positions : Self(j)}) = {}
          /\ Named("unknown", {j \in Positions : Mistaken(j)}) = {}
    BY <2>1, <2>3
  <2>5. (IdErrors \cup RefErrors = {}) <=>
          /\ {j \in Positions : Nameless(j)} = {}
          /\ {j \in Positions : Repeated(j)} = {}
          /\ {j \in Positions : Self(j)} = {}
          /\ {j \in Positions : Mistaken(j)} = {}
    BY <2>2, <2>4
  <2>6. (IdErrors \cup RefErrors = {}) <=>
          \A j \in Positions : ~ Nameless(j) /\ ~ Repeated(j) /\ ~ Self(j) /\ ~ Mistaken(j)
    BY <2>5
  <2> QED
    BY <2>6 DEF Self, Nameless
<1>2. ASSUME NEW j \in Positions
      PROVE  Known(pipeline.ids[j])
  BY DEF Known
<1>3. ASSUME \A j \in Positions : pipeline.ids[j] # NoId /\ ~ Repeated(j)
      PROVE  \A i, j \in Positions : pipeline.ids[i] = pipeline.ids[j] => i = j
  <2>1. \A j \in Positions : IndexOf(pipeline.ids[j]) = j
    BY <1>3
  <2> QED
    BY <2>1
<1>4. ASSUME WellFormedIds, NEW j \in Positions
      PROVE  ~ Repeated(j)
  BY <1>2, <1>4, IndexOfIs DEF WellFormedIds
<1>5. ASSUME NEW j \in Positions, ~ Mistaken(j), NEW id \in pipeline.refs[j]
      PROVE  Known(id)
  BY <1>2, <1>5
<1>6. ASSUME WellFormedIds, NEW j \in Positions
      PROVE  pipeline.ids[j] # NoId /\ ~ Mistaken(j)
  BY <1>6 DEF WellFormedIds
<1>7. ASSUME IdErrors \cup RefErrors = {}
      PROVE  WellFormedIds /\ NoSelf
  <2>1. \A j \in Positions : /\ pipeline.ids[j] # NoId /\ ~ Repeated(j)
                             /\ pipeline.ids[j] \notin pipeline.refs[j] /\ ~ Mistaken(j)
    BY <1>1, <1>7
  <2> HIDE DEF Repeated, Mistaken
  <2>2. \A j \in Positions : \A id \in pipeline.refs[j] : Known(id)
    BY <1>5, <2>1
  <2> QED
    BY <1>3, <2>1, <2>2 DEF WellFormedIds, NoSelf
<1>8. ASSUME WellFormedIds, NoSelf
      PROVE  IdErrors \cup RefErrors = {}
  <2> HIDE DEF Repeated, Mistaken
  <2> QED
    BY <1>1, <1>4, <1>6, <1>8 DEF NoSelf
<1> QED
  BY <1>7, <1>8

-----------------------------------------------------------------------------
(* The inductive invariant. *)

(* The stages in the order so far, and those before the k-th of them. *)
Ordered == {order[j] : j \in 1..Len(order)}
Before(k) == {order[j] : j \in 1..(k - 1)}

(* Sorting starts when ids and references are in order. *)
Checked ==
    /\ phase \in {"check", "errors"} => order = <<>>
    /\ phase = "errors" => ~ (WellFormedIds /\ NoSelf)
    /\ phase \in {"sort", "ok", "cycle"} => WellFormedIds /\ NoSelf

(* in_degree counts the producers that are not ordered yet. *)
Counted == \A i \in Positions : in_degree[i] = Cardinality(Producers(i) \ Ordered)

(* The ready stages are those that nothing holds back. *)
Waiting == ready = {i \in Positions \ Ordered : Producers(i) \subseteq Ordered}

(* No stage is ordered twice. *)
Distinct == \A j, k \in 1..Len(order) : order[j] = order[k] => j = k

(* What a stage refers to is ordered before it. *)
Sorted == \A k \in 1..Len(order) : \A i \in Positions :
              order[k] = i => Producers(i) \subseteq Before(k)

(* Acceptance means that all stages are ordered, a cycle that none of the rest can be. *)
Concluded ==
    /\ phase = "ok" => Ordered = Positions
    /\ phase = "cycle" => /\ ready = {} /\ Ordered # Positions
                          /\ errors = {<<"cycle", i>> : i \in CycleMembers}

IInv ==
    /\ ValidateTypeOK
    /\ Checked
    /\ phase \in {"sort", "ok", "cycle"} => Counted /\ Waiting
    /\ Distinct
    /\ Sorted
    /\ OrderIsStable
    /\ Concluded

(* The empty order is as it should be. *)
LEMMA NothingOrdered ==
    ASSUME order = <<>>
    PROVE  Ordered = {} /\ Distinct /\ Sorted /\ OrderIsStable
<1>1. 1..Len(order) = {}
  OBVIOUS
<1> QED
  BY <1>1 DEF Ordered, Distinct, Sorted, OrderIsStable

(* The initial states satisfy it. *)
LEMMA InitIInv == ValidateInit => IInv
<1> SUFFICES ASSUME ValidateInit
             PROVE  IInv
  OBVIOUS
<1>1. ValidateTypeOK /\ Checked
  BY DagAssumption DEF ValidateInit, ValidateTypeOK, Checked
<1>2. Distinct /\ Sorted /\ OrderIsStable
  BY NothingOrdered DEF ValidateInit
<1> QED
  BY <1>1, <1>2 DEF IInv, ValidateInit, Concluded

(* What depends on the pipeline alone does not change. *)
LEMMA SamePipeline ==
    ASSUME pipeline' = pipeline
    PROVE  /\ WellFormedIds' <=> WellFormedIds
           /\ NoSelf' <=> NoSelf
           /\ \A i : Producers(i)' = Producers(i)
<1>1. \A id : Known(id)' <=> Known(id)
  BY DEF Known
<1>2. \A id : IndexOf(id)' = IndexOf(id)
  BY DEF IndexOf
<1> QED
  BY <1>1, <1>2 DEF WellFormedIds, NoSelf, Producers, Known, IndexOf

(* The checks keep the invariant. *)
LEMMA CheckKeeps ==
    ASSUME IInv, CheckReferences
    PROVE  IInv'
<1>1. order' = <<>> /\ order = <<>> /\ pipeline' = pipeline
  BY DEF IInv, Checked, CheckReferences
<1>2. Ordered' = {} /\ Distinct' /\ Sorted' /\ OrderIsStable'
  <2>1. 1..Len(order') = {}
    BY <1>1
  <2> QED
    BY <2>1 DEF Ordered, Distinct, Sorted, OrderIsStable
<1>3. errors' \subseteq {"empty", "duplicate", "self", "unknown", "cycle"} \X Positions
  BY DEF CheckReferences, IdErrors, RefErrors
<1>4. CASE errors' # {}
  <2>1. phase' = "errors" /\ UNCHANGED <<in_degree, ready>> /\ IdErrors \cup RefErrors # {}
    BY <1>4 DEF CheckReferences
  <2>2. ~ (WellFormedIds /\ NoSelf)'
    BY <1>1, <2>1, ErrorsAreExact, SamePipeline
  <2>3. ValidateTypeOK'
    BY <1>1, <1>3, <2>1 DEF IInv, ValidateTypeOK
  <2> QED
    BY <1>1, <1>2, <2>1, <2>2, <2>3 DEF IInv, Checked, Concluded
<1>5. CASE errors' = {}
  <2>1. /\ phase' = "sort" /\ IdErrors \cup RefErrors = {}
        /\ in_degree' = [i \in Positions |-> Cardinality(Producers(i))]
        /\ ready' = {i \in Positions : in_degree'[i] = 0}
    BY <1>5 DEF CheckReferences
  <2>2. WellFormedIds /\ NoSelf /\ WellFormedIds' /\ NoSelf'
    BY <1>1, <2>1, ErrorsAreExact, SamePipeline
  <2>3. \A i \in Positions : IsFiniteSet(Producers(i)) /\ Cardinality(Producers(i)) \in Nat
    BY <2>2, ProducersAre, FS_CardinalityType
  <2>4. \A i \in Positions : Cardinality(Producers(i)) = 0 <=> Producers(i) = {}
    BY <2>3, FS_EmptySet
  <2>5. \A i \in Positions : Producers(i)' = Producers(i)
    BY <1>1, SamePipeline
  <2>6. Counted'
    BY <1>2, <2>1, <2>5 DEF Counted
  <2>7. Waiting'
    BY <1>2, <2>1, <2>4, <2>5 DEF Waiting
  <2>8. ValidateTypeOK'
    BY <1>1, <1>3, <2>1, <2>3 DEF IInv, ValidateTypeOK
  <2> QED
    BY <1>2, <2>1, <2>2, <2>6, <2>7, <2>8 DEF IInv, Checked, Concluded
<1> QED
  BY <1>4, <1>5

(* The stage that is popped is ready, and the first of those that are. *)
LEMMA FrontIs ==
    ASSUME ValidateTypeOK, ready # {}
    PROVE  Front \in ready /\ \A y \in ready : Front <= y
BY MinIs DEF ValidateTypeOK, Front

(* What remains of a set, when one more is ordered. *)
LEMMA OneLess ==
    ASSUME NEW P, IsFiniteSet(P), NEW done, NEW node, node \notin done
    PROVE  /\ Cardinality(P \ done) \in Nat
           /\ node \in P => /\ Cardinality(P \ (done \cup {node})) = Cardinality(P \ done) - 1
                            /\ Cardinality(P \ done) # 0
                            /\ Cardinality(P \ done) = 1 <=> P \subseteq done \cup {node}
           /\ node \notin P => /\ P \ (done \cup {node}) = P \ done
                               /\ P \subseteq done \cup {node} <=> P \subseteq done
<1> DEFINE R == P \ done
<1>1. IsFiniteSet(R)
  BY FS_Subset
<1>2. Cardinality(R) \in Nat
  BY <1>1, FS_CardinalityType
<1>3. ASSUME node \in P
      PROVE  /\ Cardinality(R \ {node}) = Cardinality(R) - 1
             /\ Cardinality(R) # 0
             /\ Cardinality(R) = 1 <=> P \subseteq done \cup {node}
  <2>1. node \in R
    BY <1>3
  <2>2. Cardinality(R \ {node}) = Cardinality(R) - 1
    BY <1>1, <2>1, FS_RemoveElement
  <2>3. Cardinality(R) # 0
    BY <1>1, <2>1, FS_EmptySet
  <2>4. Cardinality(R) = 1 <=> R = {node}
    BY <1>1, <2>1, FS_Singleton
  <2>5. R = {node} <=> P \subseteq done \cup {node}
    BY <2>1
  <2> QED
    BY <2>2, <2>3, <2>4, <2>5
<1>4. P \ (done \cup {node}) = R \ {node}
  OBVIOUS
<1> QED
  BY <1>2, <1>3, <1>4

(* Popping a stage adds it to the order, at the end. *)
LEMMA PopOrders ==
    ASSUME IInv, Pop
    PROVE  /\ Front \in Positions /\ Front \notin Ordered
           /\ Len(order') = Len(order) + 1 /\ Len(order) \in Nat
           /\ order'[Len(order) + 1] = Front
           /\ \A k \in 1..Len(order) : order'[k] = order[k] /\ order[k] \in Positions
           /\ Ordered' = Ordered \cup {Front}
           /\ \A k \in 1..Len(order) : Before(k)' = Before(k)
           /\ Before(Len(order) + 1) = Ordered
           /\ pipeline' = pipeline
<1>1. order \in Seq(Positions) /\ order' = Append(order, Front) /\ ready # {} /\ phase = "sort"
      /\ pipeline' = pipeline
  BY DEF IInv, ValidateTypeOK, Pop
<1>2. Front \in ready
  BY <1>1, FrontIs DEF IInv
<1>3. Front \in Positions /\ Front \notin Ordered
  BY <1>1, <1>2 DEF IInv, Waiting
<1> DEFINE n == Len(order)
<1> HIDE DEF Front
<1>4. n \in Nat /\ Len(order') = n + 1 /\ order'[n + 1] = Front
      /\ \A k \in 1..n : order'[k] = order[k] /\ order[k] \in Positions
  BY <1>1, <1>3
<1>5. Ordered' = Ordered \cup {Front}
  <2>1. 1..(n + 1) = (1..n) \cup {n + 1}
    BY <1>4
  <2>2. Ordered' = {order'[j] : j \in 1..(n + 1)}
    BY <1>4 DEF Ordered
  <2> QED
    BY <1>4, <2>1, <2>2 DEF Ordered
<1>6. \A k \in 1..n : Before(k)' = Before(k)
  <2> SUFFICES ASSUME NEW k \in 1..n
               PROVE  {order'[j] : j \in 1..(k - 1)} = {order[j] : j \in 1..(k - 1)}
    BY DEF Before
  <2>1. \A j \in 1..(k - 1) : j \in 1..n
    BY <1>4
  <2> QED
    BY <1>4, <2>1
<1>7. Before(n + 1) = Ordered
  BY <1>4 DEF Before, Ordered
<1> QED
  BY <1>1, <1>3, <1>4, <1>5, <1>6, <1>7

(* What an ordered stage refers to is ordered. *)
LEMMA OrderedIsClosed ==
    ASSUME ValidateTypeOK, Sorted, NEW i \in Positions, i \in Ordered
    PROVE  Producers(i) \subseteq Ordered
<1>1. PICK k \in 1..Len(order) : order[k] = i
  BY DEF Ordered
<1>2. Producers(i) \subseteq Before(k)
  BY <1>1 DEF Sorted
<1>3. Before(k) \subseteq Ordered
  <2>1. Len(order) \in Nat
    BY DEF ValidateTypeOK
  <2>2. \A j \in 1..(k - 1) : j \in 1..Len(order)
    BY <2>1
  <2> QED
    BY <2>2 DEF Before, Ordered
<1> QED
  BY <1>2, <1>3

(* Popping keeps the count of what is missing, and the ready stages. *)
LEMMA PopKeepsCounts ==
    ASSUME IInv, Pop
    PROVE  /\ Counted' /\ Waiting'
           /\ in_degree' \in [Positions -> Nat] /\ ready' \subseteq Positions
<1> DEFINE node == Front
<1>1. /\ ValidateTypeOK /\ WellFormedIds /\ NoSelf /\ Counted /\ Waiting
  BY DEF IInv, Checked, Pop
<1>2. /\ in_degree' = [c \in Positions |-> IF c \in Children(node)
                                           THEN in_degree[c] - 1 ELSE in_degree[c]]
      /\ ready' = (ready \ {node}) \cup Released(node)
  BY DEF Pop
<1>3. /\ node \in Positions /\ node \notin Ordered /\ Ordered' = Ordered \cup {node}
      /\ \A i : Producers(i)' = Producers(i)
  BY PopOrders, SamePipeline
<1> HIDE DEF node
<1>4. ASSUME NEW i \in Positions
      PROVE  /\ in_degree[i] \in Nat
             /\ node \in Producers(i) =>
                  /\ Cardinality(Producers(i) \ (Ordered \cup {node})) = in_degree[i] - 1
                  /\ in_degree[i] # 0
                  /\ in_degree[i] = 1 <=> Producers(i) \subseteq Ordered \cup {node}
             /\ node \notin Producers(i) =>
                  /\ Cardinality(Producers(i) \ (Ordered \cup {node})) = in_degree[i]
                  /\ Producers(i) \subseteq Ordered \cup {node} <=> Producers(i) \subseteq Ordered
  <2> DEFINE P == Producers(i)
  <2>1. IsFiniteSet(P) /\ in_degree[i] = Cardinality(P \ Ordered)
    BY <1>1, ProducersAre DEF Counted
  <2> HIDE DEF P
  <2>2. /\ Cardinality(P \ Ordered) \in Nat
        /\ node \in P => /\ Cardinality(P \ (Ordered \cup {node})) = Cardinality(P \ Ordered) - 1
                         /\ Cardinality(P \ Ordered) # 0
                         /\ Cardinality(P \ Ordered) = 1 <=> P \subseteq Ordered \cup {node}
        /\ node \notin P => /\ P \ (Ordered \cup {node}) = P \ Ordered
                            /\ P \subseteq Ordered \cup {node} <=> P \subseteq Ordered
    BY <1>3, <2>1, OneLess
  <2>3. /\ in_degree[i] \in Nat
        /\ node \in P => /\ Cardinality(P \ (Ordered \cup {node})) = in_degree[i] - 1
                         /\ in_degree[i] # 0
                         /\ in_degree[i] = 1 <=> P \subseteq Ordered \cup {node}
        /\ node \notin P => /\ Cardinality(P \ (Ordered \cup {node})) = in_degree[i]
                            /\ P \subseteq Ordered \cup {node} <=> P \subseteq Ordered
    BY <2>1, <2>2
  <2> QED
    BY <2>3 DEF P
<1>5. \A i \in Positions : i \in Children(node) <=> node \in Producers(i)
  BY DEF Children
<1>6. Counted'
  <2>1. ASSUME NEW i \in Positions
        PROVE  in_degree'[i] = Cardinality(Producers(i) \ (Ordered \cup {node}))
    BY <1>2, <1>4, <1>5
  <2> QED
    BY <1>3, <2>1 DEF Counted
<1>7. Waiting'
  <2>1. ready' \subseteq Positions
    BY <1>1, <1>2 DEF ValidateTypeOK, Released, Children
  <2>2. ASSUME NEW i \in Positions
        PROVE  i \in ready' <=> (i \notin Ordered \cup {node}
                                 /\ Producers(i) \subseteq Ordered \cup {node})
    <3>1. i \in ready' <=> \/ i \in ready /\ i # node
                           \/ node \in Producers(i) /\ in_degree[i] = 1
      BY <1>2, <1>5 DEF Released, Children
    <3>2. i \in ready <=> i \notin Ordered /\ Producers(i) \subseteq Ordered
      BY <1>1 DEF Waiting
    <3>3. i \in Ordered => Producers(i) \subseteq Ordered
      BY OrderedIsClosed DEF IInv
    <3>4. node \notin Producers(node)
      <4>1. node \in ready
        BY <1>1, FrontIs DEF Pop, node
      <4> QED
        BY <1>1, <1>3, <4>1 DEF Waiting
    <3> QED
      BY <1>3, <1>4, <3>1, <3>2, <3>3, <3>4
  <2>3. ready' = {i \in Positions \ (Ordered \cup {node}) :
                    Producers(i) \subseteq Ordered \cup {node}}
    BY <2>1, <2>2
  <2> QED
    BY <1>3, <2>3 DEF Waiting
<1>8. in_degree' \in [Positions -> Nat] /\ ready' \subseteq Positions
  <2>1. ASSUME NEW i \in Positions, node \in Producers(i)
        PROVE  in_degree[i] - 1 \in Nat
    <3>1. in_degree[i] \in Nat /\ in_degree[i] # 0
      BY <1>4, <2>1
    <3> QED
      BY <3>1
  <2> QED
    BY <1>1, <1>2, <1>4, <1>5, <2>1 DEF ValidateTypeOK, Released, Children
<1> QED
  BY <1>6, <1>7, <1>8

(* Popping keeps the order as it should be. *)
LEMMA PopKeepsOrder ==
    ASSUME IInv, Pop
    PROVE  Distinct' /\ Sorted' /\ OrderIsStable'
<1> DEFINE Possible(S) == {i \in Positions \ S : Producers(i) \subseteq S}
<1>1. /\ ValidateTypeOK /\ Waiting /\ Distinct /\ Sorted /\ OrderIsStable /\ ready # {}
      /\ Front = Min(ready)
  BY DEF IInv, Pop, Front
<1>n. PICK n \in Nat : n = Len(order)
  BY PopOrders
<1>2. /\ Front \in Positions /\ Front \notin Ordered
      /\ Len(order') = n + 1 /\ n \in Nat /\ order'[n + 1] = Front
      /\ \A k \in 1..n : order'[k] = order[k] /\ order[k] \in Positions
      /\ \A k \in 1..n : Before(k)' = Before(k)
      /\ Before(n + 1) = Ordered
      /\ pipeline' = pipeline
  BY <1>n, PopOrders
<1>3. Before(n + 1)' = Ordered
  <2> SUFFICES {order'[j] : j \in 1..((n + 1) - 1)} = {order[j] : j \in 1..n}
    BY <1>n DEF Ordered, Before
  <2>1. (n + 1) - 1 = n
    BY <1>2
  <2> QED
    BY <1>2, <2>1
<1>4. Front \in ready
  BY <1>1, FrontIs
<1>5. \A i : Producers(i)' = Producers(i)
  BY <1>2, SamePipeline
<1>6. \A k \in 1..Len(order') : k \in 1..n \/ k = n + 1
  BY <1>2
<1>7. \A k \in 1..n : order[k] \in Ordered
  BY <1>n DEF Ordered
<1>8. Distinct'
  <2> SUFFICES ASSUME NEW j \in 1..Len(order'), NEW k \in 1..Len(order'), order'[j] = order'[k]
               PROVE  j = k
    BY DEF Distinct
  <2>1. (j \in 1..n \/ j = n + 1) /\ (k \in 1..n \/ k = n + 1)
    BY <1>6
  <2>2. CASE j \in 1..n /\ k \in 1..n
    BY <1>1, <1>2, <1>n, <2>2 DEF Distinct
  <2>3. CASE j = n + 1 /\ k \in 1..n
    BY <1>2, <1>7, <2>3
  <2>4. CASE j \in 1..n /\ k = n + 1
    BY <1>2, <1>7, <2>4
  <2> QED
    BY <2>1, <2>2, <2>3, <2>4
<1>9. Sorted'
  <2> SUFFICES ASSUME NEW k \in 1..Len(order'), NEW i \in Positions, order'[k] = i
               PROVE  Producers(i) \subseteq Before(k)'
    BY <1>5 DEF Sorted
  <2>1. CASE k \in 1..n
    BY <1>1, <1>2, <1>n, <2>1 DEF Sorted
  <2>2. CASE k = n + 1
    <3>1. i \in ready
      BY <1>2, <1>4, <2>2
    <3>2. Producers(i) \subseteq Ordered
      BY <1>1, <3>1 DEF Waiting
    <3> QED
      BY <1>3, <2>2, <3>2
  <2> QED
    BY <1>6, <2>1, <2>2
<1>10. OrderIsStable'
  <2>1. OrderIsStable' <=> \A k \in 1..Len(order') : order'[k] = Min(Possible(Before(k)'))
    BY <1>5 DEF OrderIsStable, Before
  <2>2. OrderIsStable <=> \A k \in 1..n : order[k] = Min(Possible(Before(k)))
    BY <1>n DEF OrderIsStable, Before
  <2>3. ready = Possible(Ordered)
    BY <1>1 DEF Waiting
  <2> HIDE DEF Possible
  <2>4. ASSUME NEW k \in 1..Len(order')
        PROVE  order'[k] = Min(Possible(Before(k)'))
    <3>1. CASE k \in 1..n
      BY <1>1, <1>2, <2>2, <3>1
    <3>2. CASE k = n + 1
      BY <1>1, <1>2, <1>3, <2>3, <3>2
    <3> QED
      BY <1>6, <3>1, <3>2
  <2> QED
    BY <2>1, <2>4
<1> QED
  BY <1>8, <1>9, <1>10

(* Popping keeps the invariant. *)
LEMMA PopKeeps ==
    ASSUME IInv, Pop
    PROVE  IInv'
<1>1. /\ Front \in Positions /\ order \in Seq(Positions) /\ order' = Append(order, Front)
      /\ UNCHANGED <<pipeline, phase, errors>> /\ phase = "sort"
  BY PopOrders DEF IInv, ValidateTypeOK, Pop
<1>2. ValidateTypeOK'
  <2>1. order' \in Seq(Positions)
    BY <1>1
  <2> QED
    BY <1>1, <2>1, PopKeepsCounts DEF IInv, ValidateTypeOK
<1>3. Checked'
  BY <1>1, SamePipeline DEF IInv, Checked
<1>4. Concluded'
  BY <1>1 DEF Concluded
<1> QED
  BY <1>2, <1>3, <1>4, PopKeepsCounts, PopKeepsOrder DEF IInv

(* A full order holds every stage, and only a full one does. *)
LEMMA FullOrder ==
    ASSUME ValidateTypeOK, Distinct
    PROVE  Len(order) = N <=> Ordered = Positions
<1> DEFINE n == Len(order)
           f == [k \in 1..n |-> order[k]]
<1>1. n \in Nat /\ \A k \in 1..n : order[k] \in Positions
  BY DEF ValidateTypeOK
<1>2. f \in Bijection(1..n, Ordered)
  <2>1. f \in [1..n -> Ordered]
    BY DEF Ordered
  <2>2. \A j, k \in 1..n : f[j] = f[k] => j = k
    BY DEF Distinct
  <2>3. \A x \in Ordered : \E k \in 1..n : f[k] = x
    BY DEF Ordered
  <2> HIDE DEF f
  <2> QED
    BY <2>1, <2>2, <2>3 DEF Bijection, Injection, IsInjective, Surjection
<1>3. Cardinality(Ordered) = n /\ IsFiniteSet(Ordered)
  <2>1. ExistsBijection(1..n, Ordered)
    BY <1>2 DEF ExistsBijection
  <2>2. IsFiniteSet(1..n)
    BY <1>1, FS_Interval
  <2> HIDE DEF n
  <2> QED
    BY <1>1, <2>1, <2>2, FS_CountingElements, FS_Bijection
<1>4. IsFiniteSet(Positions) /\ Cardinality(Positions) = N
  BY DagAssumption, FS_Interval DEF Positions
<1>5. Ordered \subseteq Positions
  BY <1>1 DEF Ordered
<1>6. Cardinality(Positions) = Cardinality(Ordered) => Positions = Ordered
  BY <1>4, <1>5, FS_Subset
<1> QED
  BY <1>3, <1>4, <1>6

(* What is said of the order rests on the pipeline and the order alone. *)
LEMMA SameOrder ==
    ASSUME UNCHANGED <<pipeline, order>>
    PROVE  /\ Ordered' = Ordered /\ (Distinct' <=> Distinct)
           /\ (Sorted' <=> Sorted) /\ (OrderIsStable' <=> OrderIsStable)
<1>1. order' = order /\ \A i : Producers(i)' = Producers(i)
  BY SamePipeline
<1>2. Ordered' = Ordered /\ (Distinct' <=> Distinct)
  BY <1>1 DEF Ordered, Distinct
<1> DEFINE Possible(S) == {i \in Positions \ S : Producers(i) \subseteq S}
<1>b. \A k : Before(k)' = Before(k)
  BY <1>1 DEF Before
<1>3. Sorted' <=> Sorted
  BY <1>1, <1>b DEF Sorted
<1>4. OrderIsStable' <=> OrderIsStable
  <2>1. OrderIsStable' <=> \A k \in 1..Len(order') : order'[k] = Min(Possible(Before(k)'))
    BY <1>1 DEF OrderIsStable, Before
  <2>2. OrderIsStable <=> \A k \in 1..Len(order) : order[k] = Min(Possible(Before(k)))
    BY DEF OrderIsStable, Before
  <2> HIDE DEF Possible
  <2> QED
    BY <1>1, <1>b, <2>1, <2>2
<1> QED
  BY <1>2, <1>3, <1>4

(* The verdict keeps the invariant. *)
LEMMA ConcludeKeeps ==
    ASSUME IInv, Conclude
    PROVE  IInv'
<1>1. /\ UNCHANGED <<pipeline, in_degree, ready, order>> /\ phase = "sort" /\ ready = {}
      /\ \/ Len(order) = N /\ phase' = "ok" /\ UNCHANGED errors
         \/ /\ Len(order) # N /\ phase' = "cycle"
            /\ errors' = {<<"cycle", i>> : i \in CycleMembers}
  BY DEF Conclude
<1>2. \A i : Producers(i)' = Producers(i)
  BY <1>1, SamePipeline
<1>3. Counted' /\ Waiting' /\ Distinct' /\ Sorted' /\ OrderIsStable' /\ Ordered' = Ordered
  <2>1. Counted /\ Waiting /\ Distinct /\ Sorted /\ OrderIsStable
    BY <1>1 DEF IInv
  <2>2. Ordered' = Ordered
    BY <1>1 DEF Ordered
  <2>3. Counted' /\ Waiting'
    BY <1>1, <1>2, <2>1, <2>2 DEF Counted, Waiting
  <2>4. Distinct' /\ Sorted' /\ OrderIsStable'
    BY <1>1, <2>1, SameOrder
  <2> QED
    BY <2>2, <2>3, <2>4
<1>4. Checked'
  BY <1>1, SamePipeline DEF IInv, Checked
<1>5. CycleMembers' = CycleMembers /\ CycleMembers \subseteq Positions
  BY <1>1 DEF CycleMembers
<1>6. ValidateTypeOK'
  <2>1. errors' \subseteq {"empty", "duplicate", "self", "unknown", "cycle"} \X Positions
    BY <1>1, <1>5 DEF IInv, ValidateTypeOK
  <2> QED
    BY <1>1, <2>1 DEF IInv, ValidateTypeOK
<1>7. Concluded'
  BY <1>1, <1>3, <1>5, FullOrder DEF IInv, Concluded
<1> QED
  BY <1>3, <1>4, <1>6, <1>7 DEF IInv

(***************************************************************************)
(* The invariant holds throughout validate().                              *)
(***************************************************************************)
THEOREM Invariance == ValidateSpec => []IInv
<1>1. IInv /\ [ValidateNext]_validateVars => IInv'
  <2> SUFFICES ASSUME IInv, [ValidateNext]_validateVars
               PROVE  IInv'
    OBVIOUS
  <2>1. CASE CheckReferences
    BY <2>1, CheckKeeps
  <2>2. CASE Pop
    BY <2>2, PopKeeps
  <2>3. CASE Conclude
    BY <2>3, ConcludeKeeps
  <2>4. CASE UNCHANGED validateVars
    <3>1. UNCHANGED <<pipeline, phase, errors, in_degree, ready, order>>
      BY <2>4 DEF validateVars
    <3>2. \A i : Producers(i)' = Producers(i)
      BY <3>1, SamePipeline
    <3>3. ValidateTypeOK' /\ Checked'
      BY <3>1, SamePipeline DEF IInv, ValidateTypeOK, Checked
    <3>4. Counted => Counted'
      BY <3>1, <3>2, SameOrder DEF Counted
    <3>5. Waiting => Waiting'
      BY <3>1, <3>2, SameOrder DEF Waiting
    <3>6. Concluded'
      BY <3>1, SameOrder DEF IInv, Concluded, CycleMembers
    <3> QED
      BY <3>1, <3>3, <3>4, <3>5, <3>6, SameOrder DEF IInv
  <2> QED
    BY <2>1, <2>2, <2>3, <2>4 DEF ValidateNext
<1> QED
  BY <1>1, InitIInv, PTL DEF ValidateSpec

(***************************************************************************)
(* The types of validate()'s locals hold, in particular in_degree, which   *)
(* the code keeps unsigned, is never decremented below zero.               *)
(***************************************************************************)
THEOREM TypeCorrect == ValidateSpec => []ValidateTypeOK
<1>1. IInv => ValidateTypeOK
  BY DEF IInv
<1> QED
  BY <1>1, Invariance, PTL

(***************************************************************************)
(* Every stage comes after all it refers to, and is the first declared of  *)
(* those that could come next.                                             *)
(***************************************************************************)
THEOREM OrderIsDetermined == ValidateSpec => []OrderIsStable
<1>1. IInv => OrderIsStable
  BY DEF IInv
<1> QED
  BY <1>1, Invariance, PTL

-----------------------------------------------------------------------------
(* The reference: what UpstreamWithin is, and when a stage is on a cycle. *)

(* The stages within n references of each, given those within n - 1. *)
Within(g, n) ==
    [i \in Positions |->
        IF n = 0 THEN {}
        ELSE Producers(i) \cup UNION {Producers(u) : u \in g[n - 1][i]}]

(* A function satisfies the recursion: its values are fixed one after the other. *)
LEMMA WithinExists == \E g : g = [n \in 0..N |-> Within(g, n)]
<1> DEFINE Upto(g, m) == \A n \in 0..N : n < m => g[n] = Within(g, n)
           Total(g) == g = [n \in 0..N |-> g[n]]
           good == {m \in 1..(N + 1) : \E g : Total(g) /\ Upto(g, m)}
<1>n. N \in Nat
  BY DagAssumption
<1>1. ASSUME NEW g, NEW h, NEW n \in 0..N, n # 0 => g[n - 1] = h[n - 1]
      PROVE  Within(g, n) = Within(h, n)
  BY <1>1 DEF Within
<1>2. ASSUME NEW m \in 1..(N + 1), \A i \in 1..(N + 1) : i < m => i \in good
      PROVE  m \in good
  <2>1. CASE m = 1
    <3> DEFINE g == [n \in 0..N |-> Within(<<>>, n)]
    <3>1. Total(g)
      OBVIOUS
    <3>2. ASSUME NEW n \in 0..N, n < m
          PROVE  g[n] = Within(g, n)
      <4>1. n = 0
        BY <1>n, <2>1, <3>2
      <4>2. Within(<<>>, n) = Within(g, n)
        <5> HIDE DEF g
        <5> QED
          BY <1>1, <4>1
      <4>3. g[n] = Within(<<>>, n)
        OBVIOUS
      <4> HIDE DEF g
      <4> QED
        BY <4>2, <4>3
    <3> HIDE DEF g
    <3> QED
      BY <3>1, <3>2
  <2>2. CASE m # 1
    <3>1. m - 1 \in 1..(N + 1) /\ m - 1 < m /\ m - 1 \in 0..N
      BY <1>n, <2>2
    <3>2. PICK g : Total(g) /\ Upto(g, m - 1)
      <4>1. m - 1 \in good
        <5> HIDE DEF good
        <5> QED
          BY <1>2, <3>1
      <4> QED
        BY <4>1
    <3> DEFINE h == [n \in 0..N |-> IF n = m - 1 THEN Within(g, n) ELSE g[n]]
    <3>3. Total(h)
      OBVIOUS
    <3>4. ASSUME NEW n \in 0..N, n < m
          PROVE  h[n] = Within(h, n)
      <4>1. n # 0 => n - 1 \in 0..N /\ n - 1 # m - 1
        BY <1>n, <3>1, <3>4
      <4>2. n # 0 => g[n - 1] = h[n - 1]
        BY <4>1
      <4>3. Within(g, n) = Within(h, n)
        <5> HIDE DEF h
        <5> QED
          BY <1>1, <4>2
      <4>4. n = m - 1 \/ n < m - 1
        BY <1>n, <3>1, <3>4
      <4>5. h[n] = Within(g, n)
        BY <3>2, <4>4
      <4> HIDE DEF h
      <4> QED
        BY <4>3, <4>5
    <3> HIDE DEF h
    <3> QED
      BY <3>3, <3>4
  <2> QED
    BY <2>1, <2>2
<1>3. N + 1 \in good
  <2> HIDE DEF good
  <2>1. N + 1 \in Nat /\ N + 1 \in 1..(N + 1)
    BY <1>n
  <2> QED
    BY <1>2, <2>1, AlongIndices
<1>4. PICK g : Total(g) /\ Upto(g, N + 1)
  BY <1>3
<1>5. \A n \in 0..N : g[n] = Within(g, n)
  BY <1>n, <1>4
<1> QED
  BY <1>4, <1>5

(* The recursion of UpstreamWithin. *)
LEMMA UpstreamIs ==
    ASSUME NEW i \in Positions
    PROVE  /\ UpstreamWithin[0][i] = {}
           /\ \A n \in 1..N : UpstreamWithin[n][i] =
                Producers(i) \cup UNION {Producers(u) : u \in UpstreamWithin[n - 1][i]}
<1>1. UpstreamWithin = CHOOSE g : g = [n \in 0..N |-> Within(g, n)]
  BY DEF UpstreamWithin, Within
<1>2. UpstreamWithin = [n \in 0..N |-> Within(UpstreamWithin, n)]
  BY <1>1, WithinExists
<1>3. \A n \in 0..N : UpstreamWithin[n] = Within(UpstreamWithin, n)
  BY <1>2
<1>4. \A g : /\ Within(g, 0)[i] = {}
            /\ \A n \in 1..N : Within(g, n)[i] =
                 Producers(i) \cup UNION {Producers(u) : u \in g[n - 1][i]}
  <2>1. \A n \in 1..N : n # 0
    BY DagAssumption
  <2> QED
    BY <2>1 DEF Within
<1>5. 0 \in 0..N /\ \A n \in 1..N : n \in 0..N
  BY DagAssumption
<1> QED
  BY <1>3, <1>4, <1>5

(* A set that what its members refer to does not leave holds all that is upstream. *)
LEMMA UpstreamStays ==
    ASSUME WellFormedIds, NEW i \in Positions, NEW S,
           Producers(i) \subseteq S, \A u \in S : Producers(u) \subseteq S
    PROVE  \A n \in 0..N : UpstreamWithin[n][i] \subseteq S
<1> DEFINE good == {m \in 1..(N + 1) : UpstreamWithin[m - 1][i] \subseteq S}
<1>n. N \in Nat
  BY DagAssumption
<1>1. ASSUME NEW m \in 1..(N + 1), \A k \in 1..(N + 1) : k < m => k \in good
      PROVE  m \in good
  <2>1. CASE m = 1
    <3>1. m - 1 = 0
      BY <2>1
    <3> QED
      BY <3>1, UpstreamIs
  <2>2. CASE m # 1
    <3>1. m - 1 \in 1..N /\ m - 1 \in 1..(N + 1) /\ m - 1 < m
      BY <1>n, <2>2
    <3>2. m - 1 \in good
      <4> HIDE DEF good
      <4> QED
        BY <1>1, <3>1
    <3>3. UpstreamWithin[(m - 1) - 1][i] \subseteq S
      BY <3>2
    <3>4. UpstreamWithin[m - 1][i] =
            Producers(i) \cup UNION {Producers(u) : u \in UpstreamWithin[(m - 1) - 1][i]}
      BY <3>1, UpstreamIs
    <3> QED
      BY <3>3, <3>4
  <2> QED
    BY <2>1, <2>2
<1>2. \A m \in 1..(N + 1) : m \in good
  <2> HIDE DEF good
  <2>1. N + 1 \in Nat
    BY <1>n
  <2> QED
    BY <1>1, <2>1, AlongIndices
<1>3. ASSUME NEW n \in 0..N
      PROVE  UpstreamWithin[n][i] \subseteq S
  <2>1. n + 1 \in 1..(N + 1) /\ (n + 1) - 1 = n
    BY <1>n
  <2> QED
    BY <1>2, <2>1
<1> QED
  BY <1>3

(* What is upstream within n references is so within more. *)
LEMMA UpstreamAccumulates ==
    ASSUME WellFormedIds, NEW i \in Positions, NEW m \in 0..N
    PROVE  \A n \in 0..m : UpstreamWithin[n][i] \subseteq UpstreamWithin[m][i]
<1> DEFINE U(k) == UpstreamWithin[k][i]
           good == {k \in 1..N : U(k - 1) \subseteq U(k)}
           full == {k \in 1..(N + 1) : \A n \in 0..(k - 1) : U(n) \subseteq U(k - 1)}
<1>n. N \in Nat /\ N + 1 \in Nat
  BY DagAssumption
<1>1. ASSUME NEW k \in 1..N, \A j \in 1..N : j < k => j \in good
      PROVE  k \in good
  <2>1. CASE k = 1
    <3>1. k - 1 = 0
      BY <2>1
    <3> QED
      BY <3>1, UpstreamIs
  <2>2. CASE k # 1
    <3>1. k - 1 \in 1..N /\ k - 1 < k
      BY <1>n, <2>2
    <3>2. k - 1 \in good
      <4> HIDE DEF good
      <4> QED
        BY <1>1, <3>1
    <3>3. U((k - 1) - 1) \subseteq U(k - 1)
      BY <3>2
    <3>4. /\ U(k - 1) = Producers(i) \cup UNION {Producers(u) : u \in U((k - 1) - 1)}
          /\ U(k) = Producers(i) \cup UNION {Producers(u) : u \in U(k - 1)}
      BY <3>1, UpstreamIs
    <3> HIDE DEF U
    <3>5. U(k - 1) \subseteq U(k)
      BY <3>3, <3>4
    <3> QED
      BY <3>5
  <2> QED
    BY <2>1, <2>2
<1>2. \A k \in 1..N : k \in good
  <2> HIDE DEF good
  <2> QED
    BY <1>n, <1>1, AlongIndices
<1>3. ASSUME NEW k \in 1..(N + 1), \A j \in 1..(N + 1) : j < k => j \in full
      PROVE  k \in full
  <2> SUFFICES ASSUME NEW n \in 0..(k - 1)
               PROVE  U(n) \subseteq U(k - 1)
    OBVIOUS
  <2>1. CASE n = k - 1
    BY <2>1
  <2>2. CASE n # k - 1
    <3>1. k - 1 \in 1..N /\ k - 1 \in 1..(N + 1) /\ k - 1 < k /\ n \in 0..((k - 1) - 1)
      BY <1>n, <2>2
    <3>2. k - 1 \in full
      <4> HIDE DEF full
      <4> QED
        BY <1>3, <3>1
    <3>3. U(n) \subseteq U((k - 1) - 1)
      BY <3>1, <3>2
    <3>4. U((k - 1) - 1) \subseteq U(k - 1)
      BY <1>2, <3>1
    <3> QED
      BY <3>3, <3>4
  <2> QED
    BY <2>1, <2>2
<1>4. m + 1 \in full
  <2> HIDE DEF full
  <2>1. m + 1 \in 1..(N + 1)
    BY <1>n
  <2> QED
    BY <1>n, <1>3, <2>1, AlongIndices
<1>5. (m + 1) - 1 = m
  BY <1>n
<1> QED
  BY <1>4, <1>5

(***************************************************************************)
(* N steps are enough: what is upstream holds all that its members refer   *)
(* to, since until then each step finds a stage.                           *)
(***************************************************************************)
LEMMA UpstreamCloses ==
    ASSUME WellFormedIds, NEW i \in Positions
    PROVE  \A u \in UpstreamWithin[N][i] : Producers(u) \subseteq UpstreamWithin[N][i]
<1> DEFINE U(k) == UpstreamWithin[k][i]
<1>n. N \in Nat /\ N + 1 \in Nat /\ IsFiniteSet(Positions) /\ Cardinality(Positions) = N
  BY DagAssumption, FS_Interval DEF Positions
<1>1. \A n \in 0..N : U(n) \subseteq Positions
  BY ProducersAre, UpstreamStays
<1>2. \A n \in 0..N : IsFiniteSet(U(n)) /\ Cardinality(U(n)) \in Nat
  BY <1>n, <1>1, FS_Subset, FS_CardinalityType
<1>3. \A n \in 0..N : U(n) \subseteq U(N)
  <2>1. N \in 0..N
    BY <1>n
  <2> QED
    BY <2>1, UpstreamAccumulates
<1>4. ASSUME NEW n \in 1..N, U(n) = U(n - 1)
      PROVE  \A u \in U(N) : Producers(u) \subseteq U(N)
  <2>1. U(n) = Producers(i) \cup UNION {Producers(u) : u \in U(n - 1)}
    BY UpstreamIs
  <2>2. Producers(i) \subseteq U(n) /\ \A u \in U(n) : Producers(u) \subseteq U(n)
    BY <1>4, <2>1
  <2>3. n \in 0..N /\ N \in 0..N
    BY <1>n
  <2>4. U(N) \subseteq U(n)
    BY <2>2, <2>3, UpstreamStays
  <2>5. U(N) = U(n)
    BY <1>3, <2>3, <2>4
  <2> HIDE DEF U
  <2> QED
    BY <2>2, <2>5
<1>5. ASSUME \A n \in 1..N : U(n) # U(n - 1)
      PROVE  \A u \in U(N) : Producers(u) \subseteq U(N)
  <2> DEFINE good == {k \in 1..(N + 1) : Cardinality(U(k - 1)) >= k - 1}
  <2>1. ASSUME NEW k \in 1..(N + 1), \A j \in 1..(N + 1) : j < k => j \in good
        PROVE  k \in good
    <3>1. k - 1 \in 0..N
      BY <1>n
    <3>2. CASE k = 1
      <4>1. k - 1 = 0 /\ Cardinality(U(k - 1)) \in Nat
        BY <1>2, <3>1, <3>2
      <4> QED
        BY <4>1
    <3>3. CASE k # 1
      <4>1. k - 1 \in 1..N /\ k - 1 \in 1..(N + 1) /\ k - 1 < k /\ (k - 1) - 1 \in 0..(k - 1)
            /\ (k - 1) - 1 \in 0..N
        BY <1>n, <3>3
      <4>2. k - 1 \in good
        <5> HIDE DEF good
        <5> QED
          BY <2>1, <4>1
      <4>3. Cardinality(U((k - 1) - 1)) >= (k - 1) - 1
        BY <4>2
      <4>4. U((k - 1) - 1) \subseteq U(k - 1) /\ U((k - 1) - 1) # U(k - 1)
        BY <1>5, <3>1, <4>1, UpstreamAccumulates
      <4>5. /\ Cardinality(U((k - 1) - 1)) <= Cardinality(U(k - 1))
            /\ Cardinality(U((k - 1) - 1)) # Cardinality(U(k - 1))
        <5>1. IsFiniteSet(U(k - 1))
          BY <1>2, <3>1
        <5> HIDE DEF U
        <5> QED
          BY <4>4, <5>1, FS_Subset
      <4>6. Cardinality(U((k - 1) - 1)) \in Nat /\ Cardinality(U(k - 1)) \in Nat
        BY <1>2, <3>1, <4>1
      <4> HIDE DEF U
      <4>7. Cardinality(U(k - 1)) >= k - 1
        BY <4>1, <4>3, <4>5, <4>6
      <4> QED
        BY <4>7
    <3> QED
      BY <3>2, <3>3
  <2>2. N + 1 \in good
    <3> HIDE DEF good
    <3>1. N + 1 \in 1..(N + 1)
      BY <1>n
    <3> QED
      BY <1>n, <2>1, <3>1, AlongIndices
  <2>3. Cardinality(U(N)) >= N
    <3>1. (N + 1) - 1 = N
      BY <1>n
    <3> QED
      BY <2>2, <3>1
  <2>4. U(N) \subseteq Positions /\ Cardinality(U(N)) \in Nat
    BY <1>n, <1>1, <1>2
  <2> HIDE DEF U
  <2>5. Cardinality(U(N)) <= N
    BY <1>n, <2>4, FS_Subset
  <2>6. Cardinality(Positions) = Cardinality(U(N))
    BY <1>n, <2>3, <2>4, <2>5
  <2>7. U(N) = Positions
    BY <1>n, <2>4, <2>6, FS_Subset
  <2> QED
    BY <2>7, ProducersAre
<1> HIDE DEF U
<1>6. \A u \in U(N) : Producers(u) \subseteq U(N)
  BY <1>4, <1>5
<1> QED
  BY <1>6 DEF U

(* Where each stage waits for another of the same set, each has a cycle upstream. *)
LEMMA CyclesRemain ==
    ASSUME WellFormedIds, NEW R, R \subseteq Positions,
           \A j \in R : Producers(j) \cap R # {},
           NEW i \in R
    PROVE  UpstreamWithin[N][i] \cap OnCycle # {}
<1> DEFINE U(j) == UpstreamWithin[N][j]
           T == {U(j) \cap R : j \in U(i) \cap R}
<1>n. N \in Nat /\ N # 0 /\ N \in 0..N /\ N \in 1..N /\ IsFiniteSet(Positions)
  BY DagAssumption, FS_Interval DEF Positions
<1>1. \A j \in Positions : Producers(j) \subseteq U(j)
  BY <1>n, UpstreamIs
<1>2. \A j \in Positions : \A u \in U(j) : Producers(u) \subseteq U(j)
  BY UpstreamCloses
<1>3. \A j \in Positions : \A u \in U(j) \cap Positions : U(u) \subseteq U(j)
  BY <1>n, <1>2, UpstreamStays
<1>4. \A j \in Positions : j \in U(j) => j \in OnCycle
  BY DEF OnCycle
<1> HIDE DEF U
<1>5. U(i) \cap R # {}
  BY <1>1
<1>6. T \subseteq FiniteSubsetsOf(Positions) /\ T # {}
  <2>1. FiniteSubsetsOf(Positions) = SUBSET Positions
    BY <1>n, FS_FiniteSubsetsOfFinite
  <2>2. T \subseteq SUBSET Positions
    OBVIOUS
  <2>3. T # {}
    BY <1>5
  <2> QED
    BY <2>1, <2>2, <2>3
<1>7. PICK x \in T : \A y \in T : ~ (<<y, x>> \in StrictSubsetOrdering(Positions))
  <2>1. IsWellFoundedOn(StrictSubsetOrdering(Positions), FiniteSubsetsOf(Positions))
    BY FS_StrictSubsetOrderingWellFounded
  <2> HIDE DEF T
  <2> QED
    BY <1>6, <2>1, WFMin
<1>8. PICK j \in U(i) \cap R : x = U(j) \cap R
  OBVIOUS
<1>9. PICK k \in R : k \in Producers(j)
  BY <1>8
<1>10. k \in U(j) /\ k \in U(i) /\ U(k) \subseteq U(j)
  BY <1>1, <1>3, <1>8, <1>9
<1>11. U(k) \cap R = U(j) \cap R
  <2>1. U(k) \cap R \in T
    BY <1>9, <1>10
  <2>2. U(k) \cap R \subseteq U(j) \cap R
    BY <1>10
  <2> HIDE DEF T
  <2>3. U(k) \cap R \in SUBSET Positions /\ U(j) \cap R \in SUBSET Positions
    OBVIOUS
  <2> QED
    BY <1>7, <1>8, <2>1, <2>2, <2>3 DEF StrictSubsetOrdering
<1>12. k \in OnCycle
  BY <1>4, <1>9, <1>10, <1>11
<1> QED
  BY <1>10, <1>12 DEF U

(* All that is upstream of an ordered stage is ordered before it. *)
LEMMA OrderedUpstream ==
    ASSUME ValidateTypeOK, WellFormedIds, Distinct, Sorted, NEW i \in Ordered
    PROVE  i \notin OnCycle /\ UpstreamWithin[N][i] \subseteq Ordered
<1>1. order \in Seq(Positions) /\ Len(order) \in Nat /\ N \in 0..N
  BY DagAssumption DEF ValidateTypeOK
<1>2. PICK k \in 1..Len(order) : order[k] = i
  BY DEF Ordered
<1>3. i \in Positions /\ Producers(i) \subseteq Before(k)
  BY <1>1, <1>2 DEF Sorted
<1>4. ASSUME NEW u \in Before(k)
      PROVE  Producers(u) \subseteq Before(k)
  <2>1. PICK j \in 1..(k - 1) : u = order[j]
    BY <1>4 DEF Before
  <2>2. j \in 1..Len(order) /\ \A l \in 1..(j - 1) : l \in 1..(k - 1)
    BY <1>1, <2>1
  <2>3. u \in Positions
    BY <1>1, <2>1, <2>2
  <2>4. Producers(u) \subseteq Before(j)
    BY <2>1, <2>2, <2>3 DEF Sorted
  <2>5. Before(j) \subseteq Before(k)
    BY <2>2 DEF Before
  <2> QED
    BY <2>4, <2>5
<1>5. UpstreamWithin[N][i] \subseteq Before(k)
  BY <1>1, <1>3, <1>4, UpstreamStays
<1>6. \A j \in 1..(k - 1) : j \in 1..Len(order) /\ j # k
  BY <1>1, <1>2
<1>7. i \notin Before(k)
  BY <1>2, <1>6 DEF Before, Distinct
<1>8. Before(k) \subseteq Ordered
  BY <1>6 DEF Before, Ordered
<1> QED
  BY <1>5, <1>7, <1>8 DEF OnCycle

(* A stage that refers to itself is on a cycle. *)
LEMMA SelfIsCycle ==
    ASSUME WellFormedIds, ~ NoSelf
    PROVE  OnCycle # {}
<1>1. PICK i \in Positions : pipeline.ids[i] \in pipeline.refs[i]
  BY DEF NoSelf
<1>2. IndexOf(pipeline.ids[i]) = i
  <2>1. Known(pipeline.ids[i])
    BY DEF Known
  <2> QED
    BY <2>1, IndexOfIs DEF WellFormedIds
<1>3. i \in Producers(i)
  BY <1>1, <1>2 DEF Producers
<1>4. N \in 1..N
  BY DagAssumption DEF Positions
<1>5. i \in UpstreamWithin[N][i]
  BY <1>3, <1>4, UpstreamIs
<1> QED
  BY <1>5 DEF OnCycle

(* At a cycle error, those not ordered are those counted as waiting. *)
LEMMA WaitersAre ==
    ASSUME IInv, phase = "cycle"
    PROVE  /\ CycleMembers = Positions \ Ordered
           /\ \A i \in Positions \ Ordered : Producers(i) \cap (Positions \ Ordered) # {}
<1>1. ValidateTypeOK /\ WellFormedIds /\ Counted /\ Waiting /\ Sorted /\ ready = {}
  BY DEF IInv, Checked, Concluded
<1>2. ASSUME NEW i \in Positions
      PROVE  /\ IsFiniteSet(Producers(i) \ Ordered) /\ Producers(i) \subseteq Positions
             /\ Cardinality(Producers(i) \ Ordered) \in Nat
             /\ Cardinality(Producers(i) \ Ordered) = 0 <=> Producers(i) \subseteq Ordered
  <2>1. IsFiniteSet(Producers(i)) /\ Producers(i) \subseteq Positions
    BY <1>1, ProducersAre
  <2>2. IsFiniteSet(Producers(i) \ Ordered)
    BY <2>1, FS_Subset
  <2>3. Cardinality(Producers(i) \ Ordered) = 0 <=> Producers(i) \ Ordered = {}
    BY <2>2, FS_EmptySet
  <2> QED
    BY <2>1, <2>2, <2>3, FS_CardinalityType
<1>3. \A i \in Positions : in_degree[i] > 0 <=> ~ (Producers(i) \subseteq Ordered)
  <2> SUFFICES ASSUME NEW i \in Positions
               PROVE  in_degree[i] > 0 <=> ~ (Producers(i) \subseteq Ordered)
    OBVIOUS
  <2>1. in_degree[i] = Cardinality(Producers(i) \ Ordered)
    BY <1>1 DEF Counted
  <2>2. in_degree[i] \in Nat /\ (in_degree[i] = 0 <=> Producers(i) \subseteq Ordered)
    BY <1>2, <2>1
  <2> QED
    BY <2>2
<1>4. \A i \in Positions \ Ordered : ~ (Producers(i) \subseteq Ordered)
  BY <1>1 DEF Waiting
<1>5. \A i \in Positions \cap Ordered : Producers(i) \subseteq Ordered
  BY <1>1, OrderedIsClosed
<1>6. CycleMembers = Positions \ Ordered
  BY <1>3, <1>4, <1>5 DEF CycleMembers
<1> QED
  BY <1>2, <1>4, <1>6

(***************************************************************************)
(* validate() accepts exactly the pipelines with unique ids, known         *)
(* references and no cycle; and the stages its cycle error names are those *)
(* on a cycle and those that depend on one.                                *)
(***************************************************************************)
THEOREM KahnIsExact == ValidateSpec => []ValidateIsExact
<1>1. ASSUME IInv
      PROVE  AcceptedIffWellFormed
  <2>1. CASE phase = "errors"
    BY <1>1, <2>1, SelfIsCycle DEF IInv, Checked, AcceptedIffWellFormed
  <2>2. CASE phase = "ok"
    <3>1. Ordered = Positions /\ WellFormedIds
      BY <1>1, <2>2 DEF IInv, Concluded, Checked
    <3>2. OnCycle = {}
      BY <1>1, <3>1, OrderedUpstream DEF IInv, OnCycle
    <3> QED
      BY <2>2, <3>1, <3>2 DEF AcceptedIffWellFormed
  <2>3. CASE phase = "cycle"
    <3>1. WellFormedIds /\ Ordered # Positions /\ Ordered \subseteq Positions
      <4>1. order \in Seq(Positions)
        BY <1>1 DEF IInv, ValidateTypeOK
      <4> QED
        BY <1>1, <2>3, <4>1 DEF IInv, Concluded, Checked, Ordered
    <3>2. PICK i \in Positions : i \notin Ordered
      BY <3>1
    <3>3. UpstreamWithin[N][i] \cap OnCycle # {}
      BY <1>1, <2>3, <3>1, <3>2, WaitersAre, CyclesRemain
    <3> QED
      BY <2>3, <3>3 DEF AcceptedIffWellFormed
  <2> QED
    BY <2>1, <2>2, <2>3 DEF AcceptedIffWellFormed
<1>2. ASSUME IInv
      PROVE  CycleReport
  <2> SUFFICES ASSUME phase = "cycle"
               PROVE  CycleReport
    BY DEF CycleReport
  <2> DEFINE R == Positions \ Ordered
             named == {i \in Positions : <<"cycle", i>> \in errors}
             Downstream(i) == UpstreamWithin[N][i] \cap OnCycle # {}
  <2>1. /\ ValidateTypeOK /\ WellFormedIds /\ Distinct /\ Sorted /\ Ordered # Positions
        /\ errors = {<<"cycle", i>> : i \in CycleMembers}
        /\ Ordered \subseteq Positions
    <3>1. order \in Seq(Positions)
      BY <1>2 DEF IInv, ValidateTypeOK
    <3> QED
      BY <1>2, <3>1 DEF IInv, Concluded, Checked, Ordered
  <2>2. named = R
    BY <1>2, <2>1, WaitersAre
  <2>3. \A i \in R : Downstream(i)
    BY <1>2, <2>1, WaitersAre, CyclesRemain
  <2>4. \A i \in Ordered : i \notin OnCycle /\ UpstreamWithin[N][i] \subseteq Ordered
    BY <2>1, OrderedUpstream
  <2>5. \A i \in Ordered : ~ Downstream(i)
    BY <2>4
  <2>6. OnCycle \subseteq Positions /\ OnCycle # {}
    <3>1. R # {}
      BY <2>1
    <3> QED
      BY <2>3, <3>1 DEF OnCycle
  <2>7. R = OnCycle \cup {i \in Positions : Downstream(i)}
    <3> HIDE DEF Downstream
    <3> QED
      BY <2>3, <2>4, <2>5, <2>6
  <2> HIDE DEF named, R
  <2> QED
    BY <2>2, <2>6, <2>7 DEF CycleReport, named
<1>3. IInv => ValidateIsExact
  BY <1>1, <1>2 DEF ValidateIsExact
<1> QED
  BY <1>3, Invariance, PTL

-----------------------------------------------------------------------------
(* What the runners take from validate. *)

(***************************************************************************)
(* An accepted pipeline is as the runners assume theirs to be: the order   *)
(* lists every stage once, after what it refers to, and whatever the       *)
(* stages contribute to it, hashing each stage after those it refers to    *)
(* gives every stage a key.                                                *)
(***************************************************************************)
Runnable ==
    phase = "ok" =>
        /\ Ordered = Positions /\ Distinct
        /\ \A i, j \in 1..Len(order) : order[i] \in Producers(order[j]) => i < j
        /\ \A content : \E keys :
             keys = [s \in Positions |-> <<content[s], [u \in Producers(s) |-> keys[u]]>>]

(* A term of one part and a map. *)
LEMMA PairIs == \A a, b : <<a>> \o <<b>> = <<a, b>>
<1> SUFFICES ASSUME NEW a, NEW b
             PROVE  <<a>> \o <<b>> = <<a, b>>
  OBVIOUS
<1> DEFINE S == {a, b}
           s == <<a>> \o <<b>>
<1>1. <<a>> \in Seq(S) /\ <<b>> \in Seq(S)
  OBVIOUS
<1>2. s \in Seq(S) /\ Len(s) = 2 /\ s[1] = a /\ s[2] = b
  BY <1>1
<1> HIDE DEF s
<1>3. s = <<a, b>>
  BY <1>2
<1> QED
  BY <1>3 DEF s

(***************************************************************************)
(* What validate accepts can be run: its order and the keys satisfy the    *)
(* assumptions under which the theorems about both runners hold.           *)
(***************************************************************************)
THEOREM AcceptedIsRunnable == ValidateSpec => []Runnable
<1>1. ASSUME IInv, phase = "ok"
      PROVE  /\ Ordered = Positions /\ Distinct
             /\ \A i, j \in 1..Len(order) : order[i] \in Producers(order[j]) => i < j
             /\ \A content : \E keys :
                  keys = [s \in Positions |-> <<content[s], [u \in Producers(s) |-> keys[u]]>>]
  <2> DEFINE n == Len(order)
             Up == [s \in Positions |-> Producers(s)]
  <2>1. /\ Ordered = Positions /\ Distinct /\ Sorted /\ n \in Nat
        /\ \A i \in 1..n : order[i] \in Positions
    BY <1>1 DEF IInv, ValidateTypeOK, Concluded
  <2>2. ASSUME NEW j \in 1..n, NEW u \in Producers(order[j])
        PROVE  \E i \in 1..n : i < j /\ u = order[i]
    <3>1. Producers(order[j]) \subseteq Before(j)
      BY <2>1 DEF Sorted
    <3>2. PICK i \in 1..(j - 1) : u = order[i]
      BY <2>2, <3>1 DEF Before
    <3>3. i \in 1..n /\ i < j
      BY <2>1, <3>2
    <3> QED
      BY <3>2, <3>3
  <2>3. ASSUME NEW i \in 1..n, NEW j \in 1..n, order[i] \in Producers(order[j])
        PROVE  i < j
    <3>1. PICK k \in 1..n : k < j /\ order[i] = order[k]
      BY <2>2, <2>3
    <3> QED
      BY <2>1, <3>1 DEF Distinct
  <2>4. ASSUME NEW content
        PROVE  \E keys : keys = [s \in Positions |->
                                   <<content[s], [u \in Producers(s) |-> keys[u]]>>]
    <3> DEFINE E == [s \in Positions |-> <<content[s]>>]
               R == [s \in Positions |-> [u \in Producers(s) |-> u]]
    <3>1. InLine(Positions, Up, order, n)
      BY <2>1, <2>2 DEF InLine, Distinct, Ordered
    <3>2. Along(Positions, Up, Up, R)
      BY DEF Along
    <3>3. PICK keys : keys = Terms(Positions, E, Up, R, keys)
      <4> HIDE DEF E, R, Up
      <4> QED
        BY <3>1, <3>2, TermsExist
    <3>4. \A s \in Positions : \A m : E[s] \o <<m>> = <<content[s], m>>
      BY PairIs
    <3>5. ASSUME NEW s \in Positions
          PROVE  [u \in Up[s] |-> keys[R[s][u]]] = [u \in Producers(s) |-> keys[u]]
      OBVIOUS
    <3> HIDE DEF E, R, Up
    <3>6. keys = [s \in Positions |-> <<content[s], [u \in Producers(s) |-> keys[u]]>>]
      BY <3>3, <3>4, <3>5, ZenonT(40) DEF Terms
    <3> QED
      BY <3>6
  <2> HIDE DEF n
  <2> QED
    BY <2>1, <2>3, <2>4 DEF n
<1>2. IInv => Runnable
  BY <1>1 DEF Runnable
<1> QED
  BY <1>2, Invariance, PTL
=============================================================================
