----------------------------- MODULE IndexLemmas -----------------------------
(***************************************************************************)
(* Lemmas about 1..n that the proofs of several modules rest on: a set of  *)
(* indices has a last and a first member, and a set that contains every    *)
(* index whose predecessors it contains is all of them.                    *)
(***************************************************************************)
EXTENDS Integers, Sequences, FiniteSetTheorems, TLAPS

(* A non-empty set of indices has a last one. *)
LEMMA LastIndex ==
    ASSUME NEW n \in Nat, NEW hits, hits \subseteq 1..n, hits # {}
    PROVE  \E i \in hits : \A j \in hits : j <= i
<1> DEFINE Above(i) == {j \in hits : j > i}
           T == {Above(i) : i \in hits}
<1>1. T \subseteq FiniteSubsetsOf(hits) /\ T # {}
  <2>1. IsFiniteSet(1..n)
    BY FS_Interval
  <2>2. IsFiniteSet(hits)
    BY <2>1, FS_Subset
  <2>3. FiniteSubsetsOf(hits) = SUBSET hits
    BY <2>2, FS_FiniteSubsetsOfFinite
  <2>4. T \subseteq SUBSET hits
    OBVIOUS
  <2>5. T # {}
    OBVIOUS
  <2> QED
    BY <2>3, <2>4, <2>5
<1>2. PICK x \in T : \A y \in T : ~ (<<y, x>> \in StrictSubsetOrdering(hits))
  <2>1. IsWellFoundedOn(StrictSubsetOrdering(hits), FiniteSubsetsOf(hits))
    BY FS_StrictSubsetOrderingWellFounded
  <2> HIDE DEF T
  <2> QED
    BY <1>1, <2>1, WFMin
<1>3. PICK i \in hits : x = Above(i)
  OBVIOUS
<1>4. ASSUME NEW j \in hits, j > i
      PROVE  FALSE
  <2>1. Above(j) \in T
    OBVIOUS
  <2>2. \A k \in hits : k \in Nat
    OBVIOUS
  <2>3. j \in Above(i) /\ j \notin Above(j)
    BY <1>4, <2>2
  <2>4. Above(j) \subseteq Above(i)
    <3>1. ASSUME NEW k \in hits, k > j
          PROVE  k > i
      BY <1>4, <2>2, <3>1
    <3> QED
      BY <3>1
  <2>5. <<Above(j), Above(i)>> \in StrictSubsetOrdering(hits)
    BY <2>3, <2>4 DEF StrictSubsetOrdering
  <2> QED
    BY <1>2, <1>3, <2>1, <2>5
<1> QED
  BY <1>4

(* Induction along 1..n, for a set of indices. *)
LEMMA AlongIndices ==
    ASSUME NEW n \in Nat, NEW good,
           \A j \in 1..n : (\A i \in 1..n : i < j => i \in good) => j \in good
    PROVE  \A j \in 1..n : j \in good
<1> DEFINE hits == {m \in 1..(n + 1) : \A i \in 1..n : i < m => i \in good}
<1>1. hits \subseteq 1..(n + 1) /\ 1 \in hits /\ n + 1 \in Nat
  OBVIOUS
<1>2. PICK m \in hits : \A j \in hits : j <= m
  <2> HIDE DEF hits
  <2>1. hits # {}
    BY <1>1
  <2> QED
    BY <1>1, <2>1, LastIndex
<1>3. m \in 1..(n + 1) /\ \A i \in 1..n : i < m => i \in good
  OBVIOUS
<1>4. CASE m = n + 1
  BY <1>3, <1>4
<1>5. CASE m # n + 1
  <2>1. m \in 1..n /\ m \in good
    BY <1>3, <1>5
  <2>2. m + 1 \in 1..(n + 1)
    BY <2>1
  <2>3. ASSUME NEW i \in 1..n, i < m + 1
        PROVE  i \in good
    <3>1. i < m \/ i = m
      BY <2>1, <2>3
    <3> QED
      BY <1>3, <2>1, <3>1
  <2>4. m + 1 \in hits
    BY <2>2, <2>3
  <2> HIDE DEF hits
  <2>5. m + 1 <= m
    BY <1>2, <2>4
  <2> QED
    BY <2>1, <2>5
<1> QED
  BY <1>4, <1>5

(* A non-empty set of indices has a first one. *)
LEMMA FirstIndex ==
    ASSUME NEW n \in Nat, NEW hits, hits \subseteq 1..n, hits # {}
    PROVE  \E i \in hits : \A j \in hits : i <= j
<1> SUFFICES ASSUME \A i \in hits : \E j \in hits : j < i
             PROVE  FALSE
  OBVIOUS
<1> DEFINE good == (1..n) \ hits
<1>1. ASSUME NEW j \in 1..n, \A i \in 1..n : i < j => i \in good
      PROVE  j \in good
  BY <1>1
<1>2. \A j \in 1..n : j \in good
  <2> HIDE DEF good
  <2> QED
    BY <1>1, AlongIndices
<1> QED
  BY <1>2

-----------------------------------------------------------------------------
(* A function from nodes to terms: the term of s is E[s] and, for each x   *)
(* in D[s], what f gives the node R[s][x].                                 *)
Terms(Nodes, E, D, R, f) == [s \in Nodes |-> E[s] \o <<[x \in D[s] |-> f[R[s][x]]]>>]

(* The nodes are put in line, each after those that Up says it refers to. *)
InLine(Nodes, Up, line, n) ==
    /\ n \in Nat
    /\ \A i \in 1..n : line[i] \in Nodes
    /\ \A s \in Nodes : \E i \in 1..n : s = line[i]
    /\ \A i, j \in 1..n : line[i] = line[j] => i = j
    /\ \A j \in 1..n : \A u \in Up[line[j]] : \E i \in 1..n : i < j /\ u = line[i]

(* The terms are over nodes that Up says are referred to. *)
Along(Nodes, Up, D, R) == \A s \in Nodes : \A x \in D[s] : R[s][x] \in Up[s]

(***************************************************************************)
(* A definition that gives each node a term over those of the nodes it     *)
(* refers to defines a function, when the nodes can be put in line so that *)
(* each comes after those: its values are fixed along the line.            *)
(***************************************************************************)
LEMMA TermsExist ==
    ASSUME NEW Nodes, NEW Up, NEW line, NEW n, NEW E, NEW D, NEW R,
           InLine(Nodes, Up, line, n), Along(Nodes, Up, D, R)
    PROVE  \E f : f = Terms(Nodes, E, D, R, f)
<1> DEFINE Term(f, s) == E[s] \o <<[x \in D[s] |-> f[R[s][x]]]>>
           Defined(f, m) == \A i \in 1..n : i < m => f[line[i]] = Term(f, line[i])
           Total(f) == f = [s \in Nodes |-> f[s]]
           good == {m \in 1..(n + 1) : \E f : Total(f) /\ Defined(f, m)}
<1>n. /\ n \in Nat
      /\ \A i \in 1..n : line[i] \in Nodes
      /\ \A s \in Nodes : \E i \in 1..n : s = line[i]
      /\ \A i, j \in 1..n : line[i] = line[j] => i = j
      /\ \A j \in 1..n : \A u \in Up[line[j]] : \E i \in 1..n : i < j /\ u = line[i]
      /\ \A s \in Nodes : \A x \in D[s] : R[s][x] \in Up[s]
  BY DEF InLine, Along
<1>1. ASSUME NEW f, NEW g, NEW s \in Nodes, \A u \in Up[s] : f[u] = g[u]
      PROVE  Term(f, s) = Term(g, s)
  <2>1. \A x \in D[s] : f[R[s][x]] = g[R[s][x]]
    BY <1>n, <1>1
  <2> QED
    BY <2>1
<1>2. ASSUME NEW j \in 1..(n + 1), \A i \in 1..(n + 1) : i < j => i \in good
      PROVE  j \in good
  <2>1. CASE j = 1
    <3> DEFINE f == [s \in Nodes |-> s]
    <3>1. Total(f)
      OBVIOUS
    <3>2. \A i \in 1..n : ~ (i < j)
      BY <2>1
    <3>3. Defined(f, j)
      BY <3>2
    <3> HIDE DEF f, Total, Defined
    <3> QED
      BY <3>1, <3>3
  <2>2. CASE j # 1
    <3>1. j - 1 \in 1..n /\ j - 1 \in good
      <4>1. j - 1 \in 1..n /\ j - 1 \in 1..(n + 1) /\ j - 1 < j
        BY <2>2, <1>n
      <4> HIDE DEF good
      <4> QED
        BY <1>2, <4>1
    <3>2. PICK f : Total(f) /\ Defined(f, j - 1)
      BY <3>1
    <3> DEFINE s == line[j - 1]
               g == [t \in Nodes |-> IF t = s THEN Term(f, s) ELSE f[t]]
    <3>3. Total(g)
      OBVIOUS
    <3>4. ASSUME NEW i \in 1..n, i < j
          PROVE  g[line[i]] = Term(g, line[i])
      <4>1. line[i] \in Nodes /\ s \in Nodes
        BY <3>1, <1>n
      <4>2. ASSUME NEW u \in Up[line[i]]
            PROVE  f[u] = g[u]
        <5>1. PICK k \in 1..n : k < i /\ u = line[k]
          BY <1>n
        <5>2. k # j - 1
          BY <3>1, <3>4, <5>1, <1>n
        <5>3. u # s /\ u \in Nodes
          BY <3>1, <5>1, <5>2, <1>n
        <5> HIDE DEF s
        <5> QED
          BY <5>3
      <4> HIDE DEF Term
      <4>3. Term(f, line[i]) = Term(g, line[i])
        BY <1>1, <4>1, <4>2
      <4>4. CASE i = j - 1
        BY <4>1, <4>3, <4>4
      <4>5. CASE i # j - 1
        <5>1. i < j - 1 /\ line[i] # s
          BY <3>1, <3>4, <4>5, <1>n
        <5> QED
          BY <3>2, <4>1, <4>3, <5>1
      <4> QED
        BY <4>4, <4>5
    <3> HIDE DEF g, Term
    <3> QED
      BY <3>3, <3>4
  <2> QED
    BY <2>1, <2>2
<1>3. n + 1 \in good
  <2> HIDE DEF good
  <2>1. n + 1 \in Nat /\ n + 1 \in 1..(n + 1)
    BY <1>n
  <2> QED
    BY <1>2, <2>1, AlongIndices
<1>4. PICK f : Total(f) /\ Defined(f, n + 1)
  BY <1>3
<1>5. \A s \in Nodes : f[s] = Term(f, s)
  <2> HIDE DEF Term
  <2>1. \A i \in 1..n : f[line[i]] = Term(f, line[i])
    BY <1>4, <1>n
  <2> QED
    BY <2>1, <1>n
<1>6. f = [s \in Nodes |-> Term(f, s)]
  <2> HIDE DEF Term
  <2> QED
    BY <1>4, <1>5
<1> QED
  BY <1>6 DEF Terms
=============================================================================
