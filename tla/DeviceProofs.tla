---------------------------- MODULE DeviceProofs ----------------------------
(***************************************************************************)
(* What holds of LkmDevice, for any number of processes and any amount of  *)
(* memory: first lemmas about the list of processes, what a walk from      *)
(* htable visits and what key_add, key_del and the other writes to an      *)
(* h_struct do to it; then the invariants of both kernel modules however   *)
(* the calls overlap.                                                      *)
(***************************************************************************)
EXTENDS LkmDevice, HeapOpsProofs

(* Induction over the naturals, for a property given as a set.             *)
LEMMA SetInduction ==
  ASSUME NEW S, 0 \in S, \A n \in Nat : n \in S => n+1 \in S
  PROVE  Nat \subseteq S
<1> DEFINE Bad == {i \in Nat : i \notin S}
<1>1. SUFFICES ASSUME Bad # {} PROVE FALSE
  OBVIOUS
<1>2. PICK b \in Bad : \A j \in Bad : ~ (j < b)
  <2>1. PICK b \in Bad : \A j \in Bad : ~ (<<j, b>> \in OpToRel(<, Nat))
    BY <1>1, NatLessThanWellFounded, WFMin
  <2> QED
    BY <2>1 DEF OpToRel
<1>3. b # 0 /\ b - 1 \in Nat /\ b - 1 \in S
  BY <1>2
<1> QED
  BY <1>2, <1>3
-----------------------------------------------------------------------------
(* Visit is the function that its recursive definition describes.          *)
NextOf(nd, n) == IF n \in DOMAIN nd THEN nd[n].next ELSE n

IsPath(nd, v, m) ==
  v = [i \in 0 .. m |-> IF i = 0 THEN Htable
                        ELSE LET n == v[i-1] IN IF n \in DOMAIN nd THEN nd[n].next ELSE n]

LEMMA PathIs ==
  ASSUME NEW nd, NEW v, NEW m \in Nat
  PROVE  IsPath(nd, v, m) <=> /\ v = [i \in 0 .. m |-> v[i]]
                              /\ v[0] = Htable
                              /\ \A i \in 1 .. m : v[i] = NextOf(nd, v[i-1])
<1>1. IsPath(nd, v, m) => /\ v = [i \in 0 .. m |-> v[i]]
                          /\ v[0] = Htable
                          /\ \A i \in 1 .. m : v[i] = NextOf(nd, v[i-1])
  BY DEF IsPath, NextOf
<1>2. ASSUME v = [i \in 0 .. m |-> v[i]], v[0] = Htable,
             \A i \in 1 .. m : v[i] = NextOf(nd, v[i-1])
      PROVE  IsPath(nd, v, m)
  BY <1>2 DEF IsPath, NextOf
<1> QED
  BY <1>1, <1>2

LEMMA PathExists ==
  ASSUME NEW nd
  PROVE  \A m \in Nat : \E v : IsPath(nd, v, m)
<1> DEFINE S == {m \in Nat : \E v : IsPath(nd, v, m)}
<1>1. 0 \in S
  <2>1. IsPath(nd, [i \in 0 .. 0 |-> Htable], 0)
    BY DEF IsPath
  <2> QED
    BY <2>1
<1>2. ASSUME NEW m \in Nat, m \in S
      PROVE  m+1 \in S
  <2>1. PICK v : IsPath(nd, v, m)
    BY <1>2
  <2> DEFINE w == [i \in 0 .. m+1 |-> IF i = m+1 THEN NextOf(nd, v[m]) ELSE v[i]]
  <2>2. IsPath(nd, w, m+1)
    <3>1. w = [i \in 0 .. m+1 |-> w[i]]
      OBVIOUS
    <3>2. w[0] = Htable
      BY <2>1, PathIs
    <3>3. \A i \in 1 .. m+1 : w[i] = NextOf(nd, w[i-1])
      BY <2>1, PathIs
    <3>4. m+1 \in Nat
      OBVIOUS
    <3> HIDE DEF w
    <3> QED
      BY <3>1, <3>2, <3>3, <3>4, PathIs
  <2> QED
    BY <2>2
<1>3. Nat \subseteq S
  BY <1>1, <1>2, SetInduction
<1> QED
  BY <1>3

VisitFacts ==
  /\ Visit[0] = Htable
  /\ \A i \in 1 .. MaxNodes + 1 : Visit[i] = NextOf(nodes, Visit[i-1])

LEMMA VisitDef == VisitFacts
<1>1. \E v : IsPath(nodes, v, MaxNodes + 1)
  BY PathExists, BoundsAreNaturals
<1>2. IsPath(nodes, Visit, MaxNodes + 1)
  BY <1>1 DEF Visit, IsPath
<1> QED
  BY <1>2, PathIs, BoundsAreNaturals DEF VisitFacts
-----------------------------------------------------------------------------
(* L lists, from htable on, k h_structs in memory, each once.              *)
IsList(nd, k, L) ==
  /\ k \in Nat
  /\ L \in [0 .. k -> DOMAIN nd]
  /\ L[0] = Htable
  /\ \A i, j \in 0 .. k : L[i] = L[j] => i = j
  /\ \A i \in 1 .. k : nd[L[i-1]].next = L[i]
  /\ nd[L[k]].next = Null

ListOK == Loaded => \E k, L : IsList(nodes, k, L)

(* What nothing that is stated here depends on is the last answer: a step  *)
(* that changes no more than that, as a rejected call.                     *)
Untouched == UNCHANGED <<nodes, heaps, heap_mutex, entry, num, topnode, files, pc, loc>>

Addresses == DOMAIN nodes \subseteq NodeIds \cup {Htable}

(* A list fits in memory.                                                  *)
LEMMA ListFits ==
  ASSUME NEW nd, NEW k, NEW L, IsList(nd, k, L), DOMAIN nd \subseteq NodeIds \cup {Htable}
  PROVE  k <= MaxNodes /\ \A i \in 1 .. k : L[i] \in NodeIds
<1> USE BoundsAreNaturals
<1>1. \A i \in 1 .. k : L[i] \in NodeIds
  BY DEF IsList
<1> DEFINE M == [i \in 1 .. k |-> L[i]]
<1>2. M \in [1 .. k -> NodeIds] /\ \A i, j \in 1 .. k : M[i] = M[j] => i = j
  BY <1>1 DEF IsList
<1>3. M \in Injection(1 .. k, NodeIds)
  <2> HIDE DEF M
  <2> QED
    BY <1>2, Fun_IsInj
<1>4. k \in Nat /\ 1 \in Int /\ MaxNodes \in Nat
  BY DEF IsList
<1>5. IsFiniteSet(NodeIds) /\ Cardinality(NodeIds) = MaxNodes
  BY <1>4, FS_Interval DEF NodeIds
<1>6. Cardinality(1 .. k) = k
  BY <1>4, FS_Interval
<1>7. Cardinality(1 .. k) <= Cardinality(NodeIds)
  BY <1>3, <1>5, FS_Injection
<1> QED
  BY <1>1, <1>5, <1>6, <1>7

(* The walk from htable visits the list and stays at its end.              *)
LEMMA VisitIs ==
  ASSUME Addresses, NEW k, NEW L, IsList(nodes, k, L)
  PROVE  /\ \A i \in 0 .. MaxNodes + 1 : Visit[i] = IF i <= k THEN L[i] ELSE Null
         /\ k <= MaxNodes
         /\ Listed = {L[i] : i \in 1 .. k}
         /\ \A i \in 1 .. k : L[i] \in NodeIds
<1> USE BoundsAreNaturals
<1>1. k \in Nat /\ k <= MaxNodes /\ \A i \in 1 .. k : L[i] \in NodeIds
  BY ListFits DEF Addresses, IsList
<1>2. Null \notin DOMAIN nodes
  BY DEF Addresses, NodeIds, Htable, Null
<1> DEFINE S == {i \in Nat : i <= MaxNodes + 1 => Visit[i] = IF i <= k THEN L[i] ELSE Null}
<1>3. 0 \in S
  BY <1>1, VisitDef DEF VisitFacts, IsList
<1>4. ASSUME NEW i \in Nat, i \in S
      PROVE  i+1 \in S
  <2>1. SUFFICES ASSUME i+1 <= MaxNodes + 1
                 PROVE  Visit[i+1] = IF i+1 <= k THEN L[i+1] ELSE Null
    OBVIOUS
  <2>2. Visit[i+1] = NextOf(nodes, Visit[i]) /\ Visit[i] = IF i <= k THEN L[i] ELSE Null
    BY <1>4, <2>1, VisitDef DEF VisitFacts
  <2>3. CASE i < k
    <3>1. i + 1 \in 1 .. k /\ i \in 0 .. k /\ (i+1) - 1 = i
      BY <2>3, <1>1
    <3>2. nodes[L[i]].next = L[i+1] /\ L[i] \in DOMAIN nodes
      BY <3>1 DEF IsList
    <3> QED
      BY <3>1, <3>2, <2>2 DEF NextOf
  <2>4. CASE i = k
    BY <2>2, <2>4, <1>1 DEF IsList, NextOf
  <2>5. CASE i > k
    BY <2>2, <2>5, <1>1, <1>2 DEF NextOf
  <2> QED
    BY <2>3, <2>4, <2>5, <1>1
<1>5. \A i \in 0 .. MaxNodes + 1 : Visit[i] = IF i <= k THEN L[i] ELSE Null
  <2>1. Nat \subseteq S
    <3> HIDE DEF S
    <3> QED
      BY <1>3, <1>4, SetInduction
  <2> QED
    BY <2>1
<1>6. Listed = {L[i] : i \in 1 .. k}
  BY <1>1, <1>2, <1>5 DEF Listed, IsList
<1> QED
  BY <1>1, <1>5, <1>6

WalkFacts ==
  \A k, L : IsList(nodes, k, L) =>
    /\ \A i \in 0 .. MaxNodes + 1 : Visit[i] = IF i <= k THEN L[i] ELSE Null
    /\ k <= MaxNodes
    /\ Listed = {L[i] : i \in 1 .. k}
    /\ \A i \in 1 .. k : L[i] \in NodeIds

LEMMA WalkOf == Addresses => WalkFacts
BY VisitIs DEF WalkFacts

LEMMA WalkOfNext == (Addresses => WalkFacts)'
BY WalkOf, PTL

(* Every walk from htable ends.                                            *)
LEMMA ListOKEnds ==
  ASSUME Addresses, ListOK, Loaded
  PROVE  ListEnds
<1>1. PICK k, L : IsList(nodes, k, L)
  BY DEF ListOK
<1>2. k <= MaxNodes /\ \A i \in 0 .. MaxNodes + 1 : Visit[i] = IF i <= k THEN L[i] ELSE Null
  BY <1>1, WalkOf DEF WalkFacts
<1>3. k \in Nat
  BY <1>1 DEF IsList
<1>4. MaxNodes + 1 \in 0 .. MaxNodes + 1 /\ ~ (MaxNodes + 1 <= k)
  BY <1>2, <1>3, BoundsAreNaturals
<1> QED
  BY <1>2, <1>4 DEF ListEnds, WalkEnd

LEMMA ListedAre ==
  ASSUME Addresses, ListOK, Loaded
  PROVE  /\ Listed \subseteq NodeIds \cap DOMAIN nodes
         /\ \A n \in Listed \cup {Htable} : nodes[n].next \in Listed \cup {Null}
<1>1. PICK k, L : IsList(nodes, k, L)
  BY DEF ListOK
<1>2. Listed = {L[i] : i \in 1 .. k} /\ \A i \in 1 .. k : L[i] \in NodeIds
  BY <1>1, WalkOf DEF WalkFacts
<1>3. ASSUME NEW i \in 0 .. k
      PROVE  nodes[L[i]].next \in Listed \cup {Null}
  <2>1. CASE i = k
    BY <2>1, <1>1 DEF IsList
  <2>2. CASE i # k
    <3>1. i + 1 \in 1 .. k /\ (i + 1) - 1 = i
      BY <2>2, <1>1 DEF IsList
    <3>2. nodes[L[(i + 1) - 1]].next = L[i + 1]
      BY <3>1, <1>1 DEF IsList
    <3> QED
      BY <3>1, <3>2, <1>2
  <2> QED
    BY <2>1, <2>2
<1>4. 0 \in 0 .. k /\ L[0] = Htable /\ 1 .. k \subseteq 0 .. k
  BY <1>1 DEF IsList
<1> QED
  BY <1>1, <1>2, <1>3, <1>4 DEF IsList, Listed

(* Without htable there is no list.                                        *)
LEMMA NotLoaded ==
  ASSUME ~ Loaded
  PROVE  Listed = {}
<1> DEFINE S == {i \in Nat : i <= MaxNodes + 1 => Visit[i] = Htable}
<1> USE BoundsAreNaturals
<1>1. 0 \in S
  BY VisitDef DEF VisitFacts
<1>2. ASSUME NEW i \in Nat, i \in S
      PROVE  i+1 \in S
  <2>1. i + 1 <= MaxNodes + 1 => i + 1 \in 1 .. MaxNodes + 1 /\ (i + 1) - 1 = i
    OBVIOUS
  <2> QED
    BY <1>2, <2>1, VisitDef DEF VisitFacts, Loaded, NextOf
<1>3. Nat \subseteq S
  <2> HIDE DEF S
  <2> QED
    BY <1>1, <1>2, SetInduction
<1>4. \A i \in 1 .. MaxNodes + 1 : Visit[i] = Htable
  BY <1>3
<1> QED
  BY <1>4 DEF Listed, Loaded

LEMMA NotLoadedNext == (~ Loaded => Listed = {})'
<1>1. ~ Loaded => Listed = {}
  BY NotLoaded
<1> QED
  BY <1>1, PTL

(* A write that leaves the `next' of htable and of the listed nodes alone  *)
(* leaves the list alone.                                                  *)
LEMMA ListKept ==
  ASSUME Addresses, Addresses', ListOK, Loaded,
         \A n \in Listed \cup {Htable} : n \in DOMAIN nodes' /\ nodes'[n].next = nodes[n].next
  PROVE  ListOK' /\ Listed' = Listed /\ Loaded'
<1>1. PICK k, L : IsList(nodes, k, L)
  BY DEF ListOK
<1>2. Listed = {L[i] : i \in 1 .. k}
  BY <1>1, WalkOf DEF WalkFacts
<1>3. \A i \in 0 .. k : L[i] \in Listed \cup {Htable}
  BY <1>1, <1>2 DEF IsList
<1>4. k \in Nat /\ k \in 0 .. k /\ \A i \in 1 .. k : i - 1 \in 0 .. k
  BY <1>1 DEF IsList
<1>5. IsList(nodes', k, L)
  BY <1>1, <1>3, <1>4 DEF IsList
<1>6. \A kk, LL : IsList(nodes', kk, LL) => Listed' = {LL[i] : i \in 1 .. kk}
  BY WalkOfNext DEF WalkFacts
<1> QED
  BY <1>2, <1>5, <1>6 DEF ListOK, Loaded

(* key_add(e) puts a new node before the others.                           *)
LEMMA ListAdds ==
  ASSUME Addresses, Addresses', ListOK, Loaded,
         NEW e \in DOMAIN nodes \ (Listed \cup {Htable}),
         DOMAIN nodes' = DOMAIN nodes,
         nodes'[e].next = nodes[Htable].next, nodes'[Htable].next = e,
         \A n \in Listed : nodes'[n].next = nodes[n].next
  PROVE  ListOK' /\ Listed' = Listed \cup {e} /\ Loaded'
<1>1. PICK k, L : IsList(nodes, k, L)
  BY DEF ListOK
<1>2. Listed = {L[i] : i \in 1 .. k}
  BY <1>1, WalkOf DEF WalkFacts
<1>3. k \in Nat /\ L[0] = Htable /\ L \in [0 .. k -> DOMAIN nodes]
  BY <1>1 DEF IsList
<1> DEFINE M == [i \in 0 .. k+1 |-> IF i = 0 THEN Htable ELSE IF i = 1 THEN e ELSE L[i-1]]
<1>4. \A i \in 2 .. k+1 : M[i] = L[i-1] /\ M[i] \in Listed /\ i - 1 \in 1 .. k /\ i - 2 \in 0 .. k
  BY <1>2, <1>3
<1>5. M[0] = Htable /\ M[1] = e /\ 0 .. k+1 = {0, 1} \cup 2 .. k+1
  BY <1>3
<1>6. IsList(nodes', k+1, M)
  <2>1. M \in [0 .. k+1 -> DOMAIN nodes']
    BY <1>3
  <2>2. \A i, j \in 0 .. k+1 : M[i] = M[j] => i = j
    <3>1. Htable \notin Listed
      BY <1>1, <1>2, <1>3 DEF IsList
    <3> HIDE DEF M
    <3>2. \A i, j \in 2 .. k+1 : M[i] = M[j] => i = j
      <4>1. \A i, j \in 0 .. k : L[i] = L[j] => i = j
        BY <1>1 DEF IsList
      <4> QED
        BY <1>3, <1>4, <4>1
    <3> QED
      BY <1>4, <1>5, <3>1, <3>2
  <2>3. ASSUME NEW i \in 1 .. k+1
        PROVE  nodes'[M[i-1]].next = M[i]
    <3>1. CASE i = 1
      BY <3>1, <1>5
    <3>2. CASE i = 2
      <4>1. nodes[Htable].next = L[1] /\ M[2] = L[1]
        BY <3>2, <1>1, <1>3 DEF IsList
      <4> QED
        BY <3>2, <4>1, <1>5
    <3>3. CASE i > 2
      <4>1. i - 1 \in 2 .. k+1 /\ i \in 2 .. k+1 /\ (i-1) - 1 \in 1 .. k /\ i - 1 \in 1 .. k /\ i - 2 = (i - 1) - 1
        BY <3>3, <1>3
      <4>2. M[i-1] = L[i-2] /\ M[i] = L[i-1] /\ L[i-2] \in Listed
        BY <4>1, <1>4
      <4>3. nodes[L[i-2]].next = L[i-1]
        BY <4>1, <1>1 DEF IsList
      <4> QED
        BY <4>2, <4>3
    <3> QED
      BY <3>1, <3>2, <3>3, <1>3
  <2>4. nodes'[M[k+1]].next = Null
    <3>1. CASE k = 0
      BY <3>1, <1>1, <1>5, <1>3 DEF IsList
    <3>2. CASE k # 0
      <4>1. k+1 \in 2 .. k+1 /\ (k+1) - 1 = k
        BY <3>2, <1>3
      <4>2. M[k+1] = L[k] /\ L[k] \in Listed
        BY <4>1, <1>4
      <4> QED
        BY <4>2, <1>1 DEF IsList
    <3> QED
      BY <3>1, <3>2
  <2> HIDE DEF M
  <2> QED
    BY <2>1, <2>2, <2>3, <2>4, <1>3, <1>5 DEF IsList
<1>7. {M[i] : i \in 1 .. k+1} = Listed \cup {e}
  <2>1. ASSUME NEW n \in Listed
        PROVE  \E i \in 1 .. k+1 : M[i] = n
    <3>1. PICK i \in 1 .. k : L[i] = n
      BY <1>2
    <3>2. i + 1 \in 2 .. k+1 /\ (i + 1) - 1 = i
      BY <1>3
    <3> QED
      BY <3>1, <3>2, <1>4
  <2>2. 1 \in 1 .. k+1
    BY <1>3
  <2>3. ASSUME NEW i \in 1 .. k+1
        PROVE  M[i] \in Listed \cup {e}
    <3>1. i = 1 \/ i \in 2 .. k+1
      BY <1>3
    <3> QED
      BY <3>1, <1>4, <1>5
  <2> HIDE DEF M
  <2> QED
    BY <2>1, <2>2, <2>3, <1>5
<1>8. \A kk, LL : IsList(nodes', kk, LL) => Listed' = {LL[i] : i \in 1 .. kk}
  BY WalkOfNext DEF WalkFacts
<1> HIDE DEF M
<1> QED
  BY <1>6, <1>7, <1>8 DEF ListOK, Loaded

(* key_del takes the node at place i out of the list.                      *)
LEMMA ListDeletes ==
  ASSUME Addresses, Addresses', ListOK, Loaded,
         NEW i \in 1 .. MaxNodes + 1, Visit[i] \in DOMAIN nodes,
         nodes' = [nodes EXCEPT ![Visit[i-1]].next = nodes[Visit[i]].next]
  PROVE  /\ ListOK' /\ Visit[i] \in Listed /\ Listed' = Listed \ {Visit[i]} /\ Loaded'
         /\ Visit[i-1] # Visit[i] /\ Visit[i-1] \in DOMAIN nodes
         /\ nodes[Visit[i]].next \in Listed' \cup {Null}
<1>1. PICK k, L : IsList(nodes, k, L)
  BY DEF ListOK
<1>2. Listed = {L[m] : m \in 1 .. k}
  BY <1>1, WalkOf DEF WalkFacts
<1>3. k \in Nat /\ L[0] = Htable /\ L \in [0 .. k -> DOMAIN nodes]
  BY <1>1 DEF IsList
<1>4. i \in 1 .. k /\ i - 1 \in 0 .. k /\ Visit[i] = L[i] /\ Visit[i-1] = L[i-1]
  <2>1. /\ \A m \in 0 .. MaxNodes + 1 : Visit[m] = IF m <= k THEN L[m] ELSE Null
        /\ Null \notin DOMAIN nodes
    BY <1>1, WalkOf DEF WalkFacts, Addresses, NodeIds, Htable, Null
  <2>2. i \in 0 .. MaxNodes + 1 /\ i - 1 \in 0 .. MaxNodes + 1
    BY BoundsAreNaturals
  <2>3. i <= k
    BY <2>1, <2>2
  <2> QED
    BY <2>1, <2>2, <2>3, <1>3
<1>5. /\ DOMAIN nodes' = DOMAIN nodes
      /\ nodes'[L[i-1]].next = nodes[L[i]].next
      /\ \A n \in DOMAIN nodes : n # L[i-1] => nodes'[n].next = nodes[n].next
  BY <1>3, <1>4
<1>6. \A m, n \in 0 .. k : L[m] = L[n] => m = n
  BY <1>1 DEF IsList
<1> DEFINE M == [m \in 0 .. k-1 |-> IF m < i THEN L[m] ELSE L[m+1]]
<1>7. \A m \in 0 .. k-1 : m \in 0 .. k /\ m + 1 \in 1 .. k /\ m+1 \in 0 .. k
  BY <1>3
<1>8. IsList(nodes', k-1, M)
  <2>1. k - 1 \in Nat /\ M \in [0 .. k-1 -> DOMAIN nodes']
    BY <1>3, <1>4, <1>5
  <2>2. M[0] = Htable
    BY <1>3, <1>4
  <2>3. ASSUME NEW m \in 0 .. k-1, NEW n \in 0 .. k-1, M[m] = M[n]
        PROVE  m = n
    BY <2>3, <1>3, <1>4, <1>6
  <2>4. ASSUME NEW m \in 1 .. k-1
        PROVE  nodes'[M[m-1]].next = M[m]
    <3>0. m \in 0 .. k-1 /\ m - 1 \in 0 .. k-1
      BY <1>3
    <3>1. CASE m < i
      <4>1. M[m-1] = L[m-1] /\ M[m] = L[m] /\ L[m-1] # L[i-1] /\ m \in 1 .. k /\ m - 1 \in 0 .. k
        BY <3>0, <3>1, <1>3, <1>4, <1>6
      <4>2. nodes[L[m-1]].next = L[m] /\ L[m-1] \in DOMAIN nodes
        BY <4>1, <1>1, <1>3 DEF IsList
      <4> HIDE DEF M
      <4> QED
        BY <4>1, <4>2, <1>5
    <3>2. CASE m = i
      <4>1. M[m-1] = L[i-1] /\ M[m] = L[i+1] /\ i+1 \in 1 .. k /\ (i + 1) - 1 = i
        BY <3>0, <3>2, <1>3, <1>4
      <4>2. nodes[L[i]].next = L[i+1]
        BY <4>1, <1>1 DEF IsList
      <4> HIDE DEF M
      <4> QED
        BY <4>1, <4>2, <1>5
    <3>3. CASE m > i
      <4>1. M[m-1] = L[m] /\ M[m] = L[m+1] /\ L[m] # L[i-1] /\ m+1 \in 1 .. k /\ m \in 0 .. k /\ (m+1) - 1 = m
        BY <3>0, <3>3, <1>3, <1>4, <1>6
      <4>2. nodes[L[m]].next = L[m+1] /\ L[m] \in DOMAIN nodes
        BY <4>1, <1>1, <1>3 DEF IsList
      <4> HIDE DEF M
      <4> QED
        BY <4>1, <4>2, <1>5
    <3> QED
      BY <3>1, <3>2, <3>3, <1>4
  <2>5. nodes'[M[k-1]].next = Null
    <3>1. CASE i = k
      BY <3>1, <1>1, <1>3, <1>4, <1>5 DEF IsList
    <3>2. CASE i # k
      <4>1. M[k-1] = L[k] /\ L[k] # L[i-1] /\ L[k] \in DOMAIN nodes
        BY <3>2, <1>3, <1>4, <1>6
      <4> HIDE DEF M
      <4> QED
        BY <4>1, <1>1, <1>5 DEF IsList
    <3> QED
      BY <3>1, <3>2
  <2> HIDE DEF M
  <2> QED
    BY <2>1, <2>2, <2>3, <2>4, <2>5 DEF IsList
<1>9. {M[m] : m \in 1 .. k-1} = Listed \ {L[i]}
  <2>1. ASSUME NEW m \in 1 .. k-1
        PROVE  M[m] \in Listed \ {L[i]}
    <3>1. m \in 0 .. k-1 /\ m \in 1 .. k /\ m+1 \in 1 .. k /\ m \in 0 .. k /\ m+1 \in 0 .. k /\ i \in 0 .. k
      BY <1>3, <1>4
    <3>2. CASE m < i
      BY <3>1, <3>2, <1>2, <1>6
    <3>3. CASE ~ (m < i)
      BY <3>1, <3>3, <1>2, <1>6
    <3> QED
      BY <3>2, <3>3
  <2>2. ASSUME NEW n \in Listed \ {L[i]}
        PROVE  \E m \in 1 .. k-1 : M[m] = n
    <3>1. PICK m \in 1 .. k : L[m] = n /\ m # i
      BY <1>2
    <3>2. CASE m < i
      <4>1. m \in 1 .. k-1 /\ M[m] = n
        BY <3>1, <3>2, <1>3, <1>4
      <4> QED
        BY <4>1
    <3>3. CASE m > i
      <4>1. m-1 \in 1 .. k-1 /\ M[m-1] = n
        BY <3>1, <3>3, <1>3, <1>4
      <4> QED
        BY <4>1
    <3> QED
      BY <3>1, <3>2, <3>3, <1>4
  <2> HIDE DEF M
  <2> QED
    BY <2>1, <2>2
<1>10. \A kk, LL : IsList(nodes', kk, LL) => Listed' = {LL[m] : m \in 1 .. kk}
  BY WalkOfNext DEF WalkFacts
<1> HIDE DEF M
<1> QED
  <2>1. ListOK'
    BY <1>8 DEF ListOK
  <2>2. Listed' = {M[m] : m \in 1 .. k-1}
    BY <1>8, <1>10
  <2>3. Visit[i] \in Listed
    BY <1>2, <1>4
  <2>4. L[i-1] # L[i] /\ L[i-1] \in DOMAIN nodes
    BY <1>3, <1>4, <1>6
  <2>5. nodes[L[i]].next \in (Listed \ {L[i]}) \cup {Null}
    <3>1. CASE i = k
      BY <3>1, <1>1 DEF IsList
    <3>2. CASE i # k
      <4>1. i + 1 \in 1 .. k /\ (i + 1) - 1 = i /\ i \in 0 .. k /\ i + 1 \in 0 .. k /\ i + 1 # i
        BY <3>2, <1>3, <1>4
      <4>2. nodes[L[(i + 1) - 1]].next = L[i + 1]
        BY <4>1, <1>1 DEF IsList
      <4> QED
        BY <4>1, <4>2, <1>2, <1>6
    <3> QED
      BY <3>1, <3>2
  <2> QED
    BY <2>1, <2>2, <2>3, <2>4, <2>5, <1>4, <1>5, <1>9 DEF Loaded

(* A module that is loaded has an empty list.                              *)
LEMMA ListOfHtable ==
  ASSUME Addresses, Htable \in DOMAIN nodes, nodes[Htable].next = Null
  PROVE  ListOK /\ Listed = {}
<1> DEFINE L == [i \in 0 .. 0 |-> Htable]
<1>1. IsList(nodes, 0, L)
  BY DEF IsList
<1>2. Listed = {L[i] : i \in 1 .. 0}
  <2> HIDE DEF L
  <2> QED
    BY <1>1, WalkOf DEF WalkFacts
<1> QED
  BY <1>1, <1>2 DEF ListOK

HtableIsAlone ==
  Addresses /\ Htable \in DOMAIN nodes /\ nodes[Htable].next = Null => ListOK /\ Listed = {}

LEMMA ListOfHtableNext == HtableIsAlone'
<1>1. HtableIsAlone
  BY ListOfHtable DEF HtableIsAlone
<1> QED
  BY <1>1, PTL
-----------------------------------------------------------------------------
(* kmalloc returns an address that is not in use, as long as there is one. *)
LEMMA KmallocFresh ==
  ASSUME NEW A \in SUBSET Nat, NEW B
  PROVE  IF A \subseteq B THEN Kmalloc(A, B) = Null ELSE Kmalloc(A, B) \in A \ B
<1>1. CASE A \subseteq B
  BY <1>1 DEF Kmalloc
<1>2. CASE ~ (A \subseteq B)
  <2> DEFINE U == A \ B
  <2>0. U # {} /\ U \subseteq Nat
    BY <1>2
  <2>1. PICK x \in U : \A y \in U : ~ (<<y, x>> \in OpToRel(<, Nat))
    <3> HIDE DEF U
    <3> QED
      BY <2>0, NatLessThanWellFounded, WFMin
  <2>2. \A y \in U : ~ (y < x)
    BY <2>0, <2>1 DEF OpToRel
  <2>3. \A y \in U : x <= y
    BY <2>0, <2>2
  <2>4. Kmalloc(A, B) = CHOOSE z \in U : \A y \in U : z <= y
    BY <1>2 DEF Kmalloc
  <2> HIDE DEF U
  <2>5. (CHOOSE z \in U : \A y \in U : z <= y) \in U
    BY <2>3
  <2> QED
    BY <1>2, <2>4, <2>5 DEF U
<1> QED
  BY <1>1, <1>2

LEMMA IdsAreNaturals ==
  /\ NodeIds \in SUBSET Nat /\ Null \notin NodeIds /\ Htable \notin NodeIds
  /\ HeapIds \in SUBSET Nat /\ Null \notin HeapIds /\ DestroyedNull \notin HeapIds
BY BoundsAreNaturals, ErrorsAreNoAddresses DEF NodeIds, HeapIds, Null, Htable
-----------------------------------------------------------------------------
(* The types of the variables, for keys K and heap types T.                *)
Nodes == [key : Pids \cup {-1}, global_heap : HeapIds \cup {Null, DestroyedNull},
          next : NodeIds \cup {Null}]

NodesOK ==
  /\ Addresses
  /\ \A n \in DOMAIN nodes : nodes[n] \in Nodes
  /\ Loaded => nodes[Htable].key = -1

Arrays(K) == UNION {[0 .. c-1 -> K \cup {0}] : c \in Int}

Heaps(K, T) ==
  [arr : Arrays(K), count : Int, capacity : Int,
   heap_type : T, last_inserted : K \cup {0}]

HeapsOK(K, T) ==
  /\ heaps = [h \in DOMAIN heaps |-> heaps[h]]
  /\ DOMAIN heaps \subseteq HeapIds
  /\ \A h \in DOMAIN heaps : /\ heaps[h] \in Heaps(K, T)
                             /\ heaps[h].arr \in [0 .. heaps[h].capacity - 1 -> K \cup {0}]

GlobalsOK(K) ==
  /\ heap_mutex \in Pids \cup {Free}
  /\ entry \in NodeIds \cup {Null} /\ num \in K \cup {0}
  /\ topnode \in K \cup {0, EmptyPop}
  /\ files \in [Pids -> 0 .. MaxFiles]

Calls(K) ==
  [op : Ops \cup {"none"}, a : Int, b : Int, cur : NodeIds \cup {Null}, heap : HeapIds \cup {Null},
   idx : Int, val : K \cup {0, EmptyPop}]

CallsOK(K) ==
  /\ pc = [p \in Pids |-> pc[p]]
  /\ loc \in [Pids -> Calls(K)]
  /\ \A p \in Pids : /\ pc[p] = "up" => loc[p].val \in K \cup {0}
                     /\ loc[p].op = "open" => files[p] < MaxFiles

DeviceTypes(K, T) == NodesOK /\ HeapsOK(K, T) /\ GlobalsOK(K) /\ CallsOK(K)

(* A step that ends or continues the call of p.                            *)
LEMMA ReturnTypes ==
  ASSUME NEW K, CallsOK(K), NEW p \in Pids, NEW v, Return(p, v), files' = files
  PROVE  CallsOK(K)'
<1>1. NoCall \in Calls(K)
  BY DEF NoCall, Calls, Null
<1> QED
  BY <1>1 DEF CallsOK, Return, Goto, NoCall

LEMMA CallTypes ==
  ASSUME NEW K, NEW T, DeviceTypes(K, T), NEW p \in Pids, NEW op,
         op = "open" => files[p] < MaxFiles, NEW a \in Int, NEW b \in Int, Call(p, op, a, b)
  PROVE  DeviceTypes(K, T)'
<1>1. op \in Ops /\ nodes[Htable].next \in NodeIds \cup {Null}
  BY DEF DeviceTypes, NodesOK, Call, MayCall, Loaded, Nodes
<1> DEFINE call == [NoCall EXCEPT !.op = op, !.a = a, !.b = b, !.cur = nodes[Htable].next]
<1>2. call \in Calls(K)
  <2>1. NoCall \in Calls(K)
    BY DEF NoCall, Calls
  <2> QED
    BY <1>1, <2>1 DEF Calls
<1>3. CallsOK(K)'
  BY <1>2 DEF DeviceTypes, CallsOK, Call, Goto, NoCall
<1> QED
  BY <1>3 DEF DeviceTypes, Call, NodesOK, HeapsOK, GlobalsOK, Addresses, Loaded

(* What a step may do to the parts, one by one.                            *)
LEMMA SameNodes ==
  ASSUME NodesOK, nodes' = nodes
  PROVE  NodesOK'
BY DEF NodesOK, Addresses, Loaded

LEMMA SameHeaps ==
  ASSUME NEW K, NEW T, HeapsOK(K, T), heaps' = heaps
  PROVE  HeapsOK(K, T)'
BY DEF HeapsOK

LEMMA Continues ==
  ASSUME NEW K, CallsOK(K), NEW p \in Pids, NEW label, Goto(p, label), files' = files,
         loc' = [loc EXCEPT ![p] = loc'[p]], loc'[p] \in Calls(K), loc'[p].op = loc[p].op,
         label = "up" => loc'[p].val \in K \cup {0}
  PROVE  CallsOK(K)'
BY DEF CallsOK, Goto

LEMMA OneHeapChanges ==
  ASSUME NEW K, NEW T, HeapsOK(K, T), NEW h \in DOMAIN heaps,
         NEW r \in Heaps(K, T), r.arr \in [0 .. r.capacity - 1 -> K \cup {0}],
         heaps' = [heaps EXCEPT ![h] = r]
  PROVE  HeapsOK(K, T)'
BY DEF HeapsOK

LEMMA InArrays ==
  ASSUME NEW K, NEW c \in Int, NEW a \in [0 .. c-1 -> K \cup {0}]
  PROVE  a \in Arrays(K)
BY DEF Arrays

LEMMA HeapDestroyed ==
  ASSUME NEW K, NEW T, HeapsOK(K, T), NEW h, heaps' = DestroyHeap(h)
  PROVE  HeapsOK(K, T)'
BY DEF HeapsOK, DestroyHeap, Without

(* The heap that a sift of p works on.                                     *)
LEMMA SiftTypes ==
  ASSUME NEW K, NEW T, K \subseteq Int, HeapsOK(K, T), CallsOK(K), NEW p \in Pids, SiftInBounds(p)
  PROVE  LET h == loc[p].heap
             i == loc[p].idx
         IN  /\ h \in DOMAIN heaps
             /\ i \in 0 .. heaps[h].capacity - 1
             /\ Parent(i) \in 0 .. heaps[h].capacity - 1
             /\ Sink(p) \in 0 .. heaps[h].capacity - 1
             /\ heaps[h] \in Heaps(K, T)
             /\ heaps[h].arr \in [0 .. heaps[h].capacity - 1 -> K \cup {0}]
             /\ heaps[h].count \in Int /\ heaps[h].last_inserted \in K \cup {0}
<1> DEFINE h == loc[p].heap
           i == loc[p].idx
<1>1. /\ h \in DOMAIN heaps /\ i \in 0 .. heaps[h].capacity - 1
      /\ heaps[h].count \in 0 .. heaps[h].capacity
      /\ heaps[h].capacity \in Int
      /\ heaps[h] \in Heaps(K, T)
      /\ heaps[h].arr \in [0 .. heaps[h].capacity - 1 -> K \cup {0}]
  BY DEF SiftInBounds, InBounds, HeapsOK, Heaps
<1>2. Parent(i) \in 0 .. heaps[h].capacity - 1
  BY <1>1 DEF Parent
<1>3. Sink(p) \in 0 .. heaps[h].capacity - 1
  <2> HIDE DEF h, i
  <2>1. \A c \in Int : c \in 0 .. heaps[h].count - 1 => c \in 0 .. heaps[h].capacity - 1
    BY <1>1
  <2>2. 2 * i + 1 \in Int /\ 2 * i + 2 \in Int
    BY <1>1
  <2> QED
    BY <1>1, <2>1, <2>2 DEF Sink, TopOfThree, Better, h, i
<1> QED
  BY <1>1, <1>2, <1>3 DEF Heaps

(* A swap within a heap.                                                   *)
LEMMA SwapTypes ==
  ASSUME NEW K, NEW T, K \subseteq Int, HeapsOK(K, T), CallsOK(K), NEW p \in Pids, SiftInBounds(p),
         NEW j \in 0 .. heaps[loc[p].heap].capacity - 1,
         NEW i \in 0 .. heaps[loc[p].heap].capacity - 1,
         heaps' = [heaps EXCEPT ![loc[p].heap].arr = Swapped(@, j, i)]
  PROVE  HeapsOK(K, T)'
<1> DEFINE h == heaps[loc[p].heap]
           a == Swapped(h.arr, j, i)
<1>1. /\ h \in Heaps(K, T) /\ loc[p].heap \in DOMAIN heaps
      /\ h.arr \in [0 .. h.capacity - 1 -> K \cup {0}]
      /\ h.count \in Int /\ h.last_inserted \in K \cup {0}
  BY SiftTypes
<1>2. a \in [0 .. h.capacity - 1 -> K \cup {0}]
  BY <1>1 DEF Swapped
<1>3. [h EXCEPT !.arr = a] \in Heaps(K, T) /\ [h EXCEPT !.arr = a].arr = a
      /\ [h EXCEPT !.arr = a].capacity = h.capacity
  <2> HIDE DEF a, h
  <2> QED
    BY <1>1, <1>2, InArrays DEF Heaps
<1>4. heaps' = [heaps EXCEPT ![loc[p].heap] = [h EXCEPT !.arr = a]]
  OBVIOUS
<1> HIDE DEF a, h
<1> QED
  BY <1>1, <1>2, <1>3, <1>4, OneHeapChanges

(* The steps that only return, and those that only go on.                  *)
LEMMA PlainReturnTypes ==
  ASSUME NEW K, NEW T, DeviceTypes(K, T), NEW p \in Pids, NEW v, Return(p, v),
         UNCHANGED <<nodes, heaps, heap_mutex, num, topnode, files>>,
         entry' \in NodeIds \cup {Null}
  PROVE  DeviceTypes(K, T)'
BY ReturnTypes, SameNodes, SameHeaps DEF DeviceTypes, GlobalsOK

LEMMA GoesOn ==
  ASSUME NEW K, NEW T, DeviceTypes(K, T), NEW p \in Pids, NEW label, label # "up",
         Goto(p, label), loc' = loc, GlobalsOK(K)', files' = files, nodes' = nodes, heaps' = heaps
  PROVE  DeviceTypes(K, T)'
<1>1. loc' = [loc EXCEPT ![p] = loc'[p]] /\ loc'[p] \in Calls(K)
  BY DEF DeviceTypes, CallsOK
<1> QED
  BY <1>1, SameNodes, SameHeaps, Continues DEF DeviceTypes

LEMMA TableStepTypes ==
  ASSUME NEW K, NEW T, DeviceTypes(K, T), Loaded, NEW p \in Pids,
         \/ Walk(p) \/ OpenTwice(p) \/ OpenAllocates(p) \/ OpenBusy(p) \/ OpenLocks(p) \/ KeyAdd(p)
         \/ ReleaseBusy(p) \/ ReleaseLocks(p) \/ KeyDel(p) \/ KeyDelClear(p) \/ KeyDelFree(p)
         \/ KeyDelNone(p) \/ PrintKeyUnlock(p)
  PROVE  DeviceTypes(K, T)'
<1> USE DEF DeviceTypes
<1>0. /\ loc[p] \in Calls(K) /\ entry \in NodeIds \cup {Null}
      /\ \A n \in DOMAIN nodes : nodes[n] \in Nodes
  BY DEF CallsOK, GlobalsOK, NodesOK
<1>1. CASE Walk(p)
  <2>1. CallsOK(K)'
    <3>1. nodes[loc[p].cur].next \in NodeIds \cup {Null}
      BY <1>0, <1>1 DEF Walk, Nodes
    <3>2. loc' = [loc EXCEPT ![p].cur = nodes[loc[p].cur].next]
      BY <1>1 DEF Walk
    <3> QED
      BY <1>1, <3>1, <3>2 DEF Walk, CallsOK, Calls
  <2> QED
    BY <1>1, <2>1, SameNodes, SameHeaps DEF Walk, GlobalsOK
<1>2. CASE OpenTwice(p)
  BY <1>0, <1>2, PlainReturnTypes DEF OpenTwice
<1>3. CASE OpenAllocates(p)
  <2>1. entry' \in NodeIds \ DOMAIN nodes
    BY <1>3, KmallocFresh, IdsAreNaturals DEF OpenAllocates
  <2>2. NewNode(p) \in Nodes
    BY DEF NewNode, Nodes
  <2>3. NodesOK'
    BY <1>3, <2>1, <2>2, IdsAreNaturals DEF OpenAllocates, NodesOK, Addresses, Loaded, With
  <2>4. CallsOK(K)'
    <3>1. loc' = [loc EXCEPT ![p] = loc'[p]] /\ loc'[p] \in Calls(K)
      BY <1>3 DEF OpenAllocates, CallsOK
    <3> QED
      BY <1>3, <3>1, Continues DEF OpenAllocates
  <2> QED
    BY <1>3, <2>1, <2>3, <2>4, SameHeaps DEF OpenAllocates, GlobalsOK
<1>4. CASE OpenBusy(p)
  BY <1>0, <1>4, PlainReturnTypes DEF OpenBusy
<1>5. CASE OpenLocks(p)
  <2>1. GlobalsOK(K)'
    BY <1>5 DEF OpenLocks, GlobalsOK
  <2> QED
    BY <1>5, <2>1, GoesOn DEF OpenLocks
<1>6. CASE KeyAdd(p)
  <2>1. NodesOK'
    <3> DEFINE linked == [nodes EXCEPT ![entry].next = nodes[Htable].next]
    <3>1. nodes' = [linked EXCEPT ![Htable].next = entry]
      BY <1>6 DEF KeyAdd
    <3>2. /\ DOMAIN linked = DOMAIN nodes
          /\ \A n \in DOMAIN nodes : linked[n] \in Nodes /\ linked[n].key = nodes[n].key
      <4>1. nodes[Htable].next \in NodeIds \cup {Null}
        BY <1>0 DEF Loaded, Nodes
      <4> QED
        BY <4>1, <1>0 DEF Nodes
    <3> HIDE DEF linked
    <3>3. /\ DOMAIN nodes' = DOMAIN nodes
          /\ \A n \in DOMAIN nodes : nodes'[n] \in Nodes /\ nodes'[n].key = nodes[n].key
      BY <3>1, <3>2, <1>0 DEF Nodes
    <3> QED
      BY <3>3 DEF NodesOK, Addresses, Loaded
  <2>2. CallsOK(K)'
    <3>1. loc' = [loc EXCEPT ![p] = loc'[p]] /\ loc'[p] \in Calls(K)
      BY <1>6 DEF KeyAdd, CallsOK
    <3> QED
      BY <1>6, <3>1, Continues DEF KeyAdd
  <2> QED
    BY <1>6, <2>1, <2>2, SameHeaps DEF KeyAdd, GlobalsOK
<1>7. CASE ReleaseBusy(p)
  BY <1>0, <1>7, PlainReturnTypes DEF ReleaseBusy
<1>8. CASE ReleaseLocks(p)
  <2>1. GlobalsOK(K)'
    BY <1>8 DEF ReleaseLocks, GlobalsOK
  <2> QED
    BY <1>8, <2>1, GoesOn DEF ReleaseLocks
<1>9. CASE KeyDel(p)
  <2>1. PICK i \in 1 .. MaxNodes + 1 :
          /\ FirstOwn(p, i)
          /\ nodes[Visit[i]].global_heap \in DOMAIN heaps \cup {Null}
          /\ nodes' = [nodes EXCEPT ![Visit[i-1]].next = nodes[Visit[i]].next]
          /\ heaps' = DestroyHeap(nodes[Visit[i]].global_heap)
          /\ loc' = [loc EXCEPT ![p].cur = Visit[i], ![p].heap = nodes[Visit[i]].global_heap]
    BY <1>9 DEF KeyDel
  <2>2. /\ Visit[i] \in DOMAIN nodes /\ nodes[Visit[i]].key = p
        /\ nodes[Visit[i]].next \in NodeIds \cup {Null}
    BY <1>0, <2>1 DEF FirstOwn, OwnAt, Nodes
  <2>3. Visit[i] \in NodeIds
    BY <2>2, PidsArePositive DEF NodesOK, Addresses, Loaded, Htable
  <2>4. NodesOK'
    BY <2>1, <2>2, <1>0 DEF NodesOK, Addresses, Loaded, Nodes
  <2>5. CallsOK(K)'
    <3>1. nodes[Visit[i]].global_heap \in HeapIds \cup {Null}
      BY <2>1 DEF HeapsOK
    <3>2. loc' = [loc EXCEPT ![p] = [loc[p] EXCEPT !.cur = Visit[i],
                                                   !.heap = nodes[Visit[i]].global_heap]]
      BY <2>1
    <3>3. [loc[p] EXCEPT !.cur = Visit[i], !.heap = nodes[Visit[i]].global_heap] \in Calls(K)
      BY <1>0, <2>3, <3>1 DEF Calls
    <3> QED
      BY <1>9, <1>0, <3>2, <3>3, Continues DEF KeyDel, CallsOK, Calls
  <2> QED
    BY <1>9, <2>1, <2>4, <2>5, HeapDestroyed DEF KeyDel, GlobalsOK
<1>10. CASE KeyDelClear(p)
  <2>1. Destroyed(loc[p].heap) \in {Null, DestroyedNull}
    BY DEF Destroyed
  <2>2. NodesOK'
    BY <1>10, <1>0, <2>1 DEF KeyDelClear, NodesOK, Addresses, Loaded, Nodes
  <2>3. CallsOK(K)'
    <3>1. loc' = [loc EXCEPT ![p] = loc'[p]] /\ loc'[p] \in Calls(K)
      BY <1>10 DEF KeyDelClear, CallsOK
    <3> QED
      BY <1>10, <3>1, Continues DEF KeyDelClear
  <2> QED
    BY <1>10, <2>2, <2>3, SameHeaps DEF KeyDelClear, GlobalsOK
<1>11. CASE KeyDelFree(p)
  <2>1. NodesOK'
    BY <1>11 DEF KeyDelFree, NodesOK, Addresses, Loaded, Without
  <2>2. CallsOK(K)'
    BY <1>11 DEF KeyDelFree, CallsOK, Calls, Goto
  <2> QED
    BY <1>11, <2>1, <2>2, SameHeaps DEF KeyDelFree, GlobalsOK
<1>12. CASE KeyDelNone(p)
  <2>1. GlobalsOK(K)'
    BY <1>12 DEF KeyDelNone, GlobalsOK
  <2> QED
    BY <1>12, <2>1, GoesOn DEF KeyDelNone
<1>13. CASE PrintKeyUnlock(p)
  <2>1. GlobalsOK(K)'
    BY <1>13, BoundsAreNaturals DEF PrintKeyUnlock, GlobalsOK, CallsOK
  <2>2. CallsOK(K)'
    <3>1. NoCall \in Calls(K)
      BY DEF NoCall, Calls
    <3>2. \A q \in Pids : q # p => files'[q] = files[q]
      BY <1>13 DEF PrintKeyUnlock, GlobalsOK
    <3> QED
      BY <1>13, <3>1, <3>2 DEF PrintKeyUnlock, Return, Goto, CallsOK, NoCall
  <2> QED
    BY <1>13, <2>1, <2>2, SameNodes, SameHeaps DEF PrintKeyUnlock
<1> QED
  BY <1>1, <1>2, <1>3, <1>4, <1>5, <1>6, <1>7, <1>8, <1>9, <1>10, <1>11, <1>12, <1>13

LEMMA HeapStepTypes ==
  ASSUME NEW K, NEW T, K \subseteq Int, DeviceTypes(K, T), NEW p \in Pids,
         \/ Insert(p) \/ InsertFull(p) \/ HeapifyBottomTop(p) \/ InsertReturns(p)
         \/ HeapifyTopBottom(p)
  PROVE  DeviceTypes(K, T)'
<1> USE DEF DeviceTypes
<1>0. /\ loc[p] \in Calls(K) /\ entry \in NodeIds \cup {Null}
      /\ DOMAIN loc = Pids
  BY DEF CallsOK, GlobalsOK
<1>1. CASE Insert(p)
  <2> DEFINE h == InsertTarget
             c == heaps[h].count
             a == [heaps[h].arr EXCEPT ![c] = num]
             r == [heaps[h] EXCEPT !.arr = a]
  <2>1. /\ h \in DOMAIN heaps /\ c \in 0 .. heaps[h].capacity - 1
        /\ heaps[h] \in Heaps(K, T)
        /\ heaps[h].arr \in [0 .. heaps[h].capacity - 1 -> K \cup {0}]
        /\ h \in HeapIds /\ num \in K \cup {0} /\ heaps[h].capacity \in Int
    BY <1>1 DEF Insert, InBounds, HeapsOK, Heaps, GlobalsOK
  <2>2. heaps' = [heaps EXCEPT ![h] = r]
    BY <1>1 DEF Insert
  <2>3. a \in [0 .. heaps[h].capacity - 1 -> K \cup {0}]
    BY <2>1
  <2>4. HeapsOK(K, T)'
    <3>1. r \in Heaps(K, T) /\ r.arr = a /\ r.capacity = heaps[h].capacity
      <4> HIDE DEF a, h
      <4> QED
        BY <2>1, <2>3, InArrays DEF Heaps
    <3> HIDE DEF r, h
    <3> QED
      BY <2>1, <2>2, <2>3, <3>1, OneHeapChanges
  <2>5. CallsOK(K)'
    <3>1. loc' = [loc EXCEPT ![p] = [loc[p] EXCEPT !.heap = h, !.idx = c, !.val = num]]
      BY <1>1 DEF Insert
    <3> DEFINE l == [loc[p] EXCEPT !.heap = h, !.idx = c, !.val = num]
    <3>2. l \in Calls(K) /\ l.op = loc[p].op /\ l.val = num
      <4>1. c \in Int
        BY <2>1
      <4> HIDE DEF h, c
      <4> QED
        BY <1>0, <2>1, <4>1 DEF Calls
    <3> HIDE DEF l, h, c
    <3>3. loc' = [loc EXCEPT ![p] = loc'[p]] /\ loc'[p] = l
      BY <1>0, <3>1 DEF l
    <3> QED
      BY <1>1, <2>1, <3>2, <3>3, Continues DEF Insert
  <2> QED
    BY <1>1, <2>4, <2>5, SameNodes DEF Insert, GlobalsOK
<1>2. CASE InsertFull(p)
  BY <1>0, <1>2, PlainReturnTypes DEF InsertFull
<1>3. CASE HeapifyBottomTop(p)
  <2>1. HeapsOK(K, T)'
    BY <1>3, SwapTypes, SiftTypes DEF HeapifyBottomTop
  <2>2. CallsOK(K)'
    <3>1. Parent(loc[p].idx) \in Int
      BY <1>0 DEF Parent, Calls
    <3> QED
      BY <1>3, <3>1 DEF HeapifyBottomTop, CallsOK, Calls
  <2> QED
    BY <1>3, <2>1, <2>2, SameNodes DEF HeapifyBottomTop, GlobalsOK
<1>4. CASE InsertReturns(p)
  <2> DEFINE h == heaps[loc[p].heap]
             n == h.count + 1
             r == [h EXCEPT !.count = n, !.last_inserted = loc[p].val]
  <2>1. /\ loc[p].heap \in DOMAIN heaps /\ h \in Heaps(K, T) /\ h.count \in Int
        /\ h.arr \in [0 .. h.capacity - 1 -> K \cup {0}]
        /\ loc[p].val \in K \cup {0}
    BY <1>4, SiftTypes DEF InsertReturns, CallsOK
  <2>2. r \in Heaps(K, T) /\ r.arr = h.arr /\ r.capacity = h.capacity
    <3>1. n \in Int
      BY <2>1
    <3> HIDE DEF h, n
    <3> QED
      BY <2>1, <3>1 DEF Heaps
  <2>3. heaps' = [heaps EXCEPT ![loc[p].heap] = r]
    BY <1>4 DEF InsertReturns
  <2>4. HeapsOK(K, T)'
    <3> HIDE DEF r
    <3> QED
      BY <2>1, <2>2, <2>3, OneHeapChanges
  <2>5. CallsOK(K)'
    BY <1>4, ReturnTypes DEF InsertReturns
  <2> QED
    BY <1>4, <2>4, <2>5, SameNodes DEF InsertReturns, GlobalsOK
<1>5. CASE HeapifyTopBottom(p)
  <2>1. /\ Sink(p) \in 0 .. heaps[loc[p].heap].capacity - 1
        /\ loc[p].idx \in 0 .. heaps[loc[p].heap].capacity - 1
        /\ heaps[loc[p].heap].capacity \in Int
    BY <1>5, SiftTypes DEF HeapifyTopBottom, Heaps
  <2> HIDE DEF Sink
  <2>2. HeapsOK(K, T)'
    BY <1>5, <2>1, SwapTypes DEF HeapifyTopBottom
  <2>3. CallsOK(K)'
    BY <1>5, <2>1 DEF HeapifyTopBottom, CallsOK, Calls
  <2> QED
    BY <1>5, <2>2, <2>3, SameNodes DEF HeapifyTopBottom, GlobalsOK
<1> QED
  BY <1>1, <1>2, <1>3, <1>4, <1>5

(* PopMin, whoever calls it.                                               *)
LEMMA PopLocals ==
  ASSUME NEW K, NEW l \in Calls(K), NEW h \in HeapIds, NEW v \in K \cup {0}, NEW i \in Int
  PROVE  [l EXCEPT !.heap = h, !.val = v, !.idx = i] \in Calls(K)
BY DEF Calls

LEMMA PopTypes ==
  ASSUME NEW K, NEW T, K \subseteq Int, HeapsOK(K, T), CallsOK(K), NEW p \in Pids, NEW h,
         PopMin(p, h), files' = files
  PROVE  HeapsOK(K, T)' /\ CallsOK(K)'
<1> DEFINE c == heaps[h].count
           a == [heaps[h].arr EXCEPT ![0] = heaps[h].arr[c - 1]]
           r == [heaps[h] EXCEPT !.arr = a, !.count = c - 1]
           top == heaps[h].arr[0]
           l == [loc[p] EXCEPT !.heap = h, !.val = top, !.idx = 0]
<1>1. /\ h \in DOMAIN heaps /\ c \in 1 .. heaps[h].capacity
      /\ heaps[h] \in Heaps(K, T) /\ heaps[h].capacity \in Int
      /\ heaps[h].arr \in [0 .. heaps[h].capacity - 1 -> K \cup {0}]
      /\ h \in HeapIds /\ loc[p] \in Calls(K) /\ DOMAIN loc = Pids
  BY DEF PopMin, InBounds, HeapsOK, Heaps, CallsOK
<1>2. /\ a \in [0 .. heaps[h].capacity - 1 -> K \cup {0}]
      /\ heaps[h].arr[0] \in K \cup {0} /\ c - 1 \in Int
  BY <1>1
<1>3. heaps' = [heaps EXCEPT ![h] = r] /\ loc' = [loc EXCEPT ![p] = l]
  BY DEF PopMin
<1>4. HeapsOK(K, T)'
  <2>1. r \in Heaps(K, T) /\ r.arr = a /\ r.capacity = heaps[h].capacity
    <3> HIDE DEF a, c
    <3> QED
      BY <1>1, <1>2, InArrays DEF Heaps
  <2> HIDE DEF r, a
  <2> QED
    BY <1>1, <1>2, <1>3, <2>1, OneHeapChanges
<1>5. CallsOK(K)'
  <2>1. l \in Calls(K) /\ l.op = loc[p].op
    <3>1. loc[p] \in Calls(K) /\ h \in HeapIds /\ top \in K \cup {0}
      BY <1>1, <1>2
    <3> HIDE DEF top
    <3>2. \A i \in Int : [loc[p] EXCEPT !.heap = h, !.val = top, !.idx = i] \in Calls(K)
      BY <3>1, PopLocals
    <3>3. l \in Calls(K)
      <4>1. 0 \in Int
        OBVIOUS
      <4> QED
        BY <3>2, <4>1, Zenon
    <3>4. l.op = loc[p].op
      BY <3>1 DEF Calls
    <3> QED
      BY <3>3, <3>4
  <2> HIDE DEF l
  <2>2. loc' = [loc EXCEPT ![p] = loc'[p]] /\ loc'[p] = l
    BY <1>1, <1>3
  <2> QED
    BY <2>1, <2>2, Continues DEF PopMin
<1> QED
  BY <1>4, <1>5

LEMMA ReadStepTypes ==
  ASSUME NEW K, NEW T, K \subseteq Int, DeviceTypes(K, T), NEW p \in Pids,
         \/ NoEntry(p) \/ ReadUnset(p) \/ ReadEmpty(p) \/ ReadPops(p) \/ ReadSetsTopnode(p)
         \/ CopyToUser(p) \/ ReadReturns(p)
  PROVE  DeviceTypes(K, T)'
<1> USE DEF DeviceTypes
<1>0. /\ loc[p] \in Calls(K) /\ entry \in NodeIds \cup {Null} /\ topnode \in K \cup {0, EmptyPop}
      /\ loc[p].cur \in NodeIds \cup {Null} /\ loc[p].val \in K \cup {0, EmptyPop}
      /\ DOMAIN loc = Pids
  BY DEF CallsOK, GlobalsOK, Calls
<1>1. CASE NoEntry(p)
  BY <1>0, <1>1, PlainReturnTypes DEF NoEntry
<1>2. CASE ReadUnset(p)
  BY <1>0, <1>2, PlainReturnTypes DEF ReadUnset
<1>3. CASE ReadEmpty(p)
  <2>1. GlobalsOK(K)'
    BY <1>0, <1>3 DEF ReadEmpty, GlobalsOK
  <2> QED
    BY <1>3, <2>1, GoesOn DEF ReadEmpty
<1>4. CASE ReadPops(p)
  <2>1. GlobalsOK(K)'
    BY <1>0, <1>4 DEF ReadPops, GlobalsOK
  <2> QED
    BY <1>4, <2>1, PopTypes, SameNodes DEF ReadPops
<1>5. CASE ReadSetsTopnode(p)
  <2>1. GlobalsOK(K)'
    BY <1>0, <1>5 DEF ReadSetsTopnode, GlobalsOK
  <2> QED
    BY <1>5, <2>1, GoesOn DEF ReadSetsTopnode
<1>6. CASE CopyToUser(p)
  <2>1. CallsOK(K)'
    BY <1>0, <1>6 DEF CopyToUser, CallsOK, Calls, Goto
  <2> QED
    BY <1>6, <2>1, SameNodes, SameHeaps DEF CopyToUser, GlobalsOK
<1>7. CASE ReadReturns(p)
  BY <1>0, <1>7, PlainReturnTypes DEF ReadReturns
<1> QED
  BY <1>1, <1>2, <1>3, <1>4, <1>5, <1>6, <1>7

LEMMA StepTypes ==
  ASSUME NEW K, NEW T, K \subseteq Int, DeviceTypes(K, T), Loaded, NEW p \in Pids, DeviceStep(p)
  PROVE  DeviceTypes(K, T)'
BY TableStepTypes, HeapStepTypes, ReadStepTypes DEF DeviceStep

(* CreateHeap stores the heap it allocated in a local variable only.       *)
LEMMA CreateTypes ==
  ASSUME NEW K, NEW T, HeapsOK(K, T), CallsOK(K), NEW p \in Pids,
         NEW size \in Int, NEW type \in T, CreateHeap(p, heaps, size, type), files' = files
  PROVE  HeapsOK(K, T)' /\ CallsOK(K)'
<1> DEFINE h == Kmalloc(HeapIds, DOMAIN heaps)
           new == NewHeap(size, type)
<1>1. IF HeapIds \subseteq DOMAIN heaps THEN h = Null ELSE h \in HeapIds \ DOMAIN heaps
  BY KmallocFresh, IdsAreNaturals
<1>2. /\ heaps' = IF h = Null THEN heaps ELSE With(heaps, h, new)
      /\ loc' = [loc EXCEPT ![p].heap = h] /\ Goto(p, "init_store")
  BY DEF CreateHeap
<1>3. h \in HeapIds \cup {Null}
  BY <1>1
<1>4. /\ new \in Heaps(K, T) /\ new.arr \in [0 .. new.capacity - 1 -> K \cup {0}]
  <2> DEFINE a == [i \in 0 .. size-1 |-> 0]
  <2>1. a \in [0 .. size-1 -> K \cup {0}]
    OBVIOUS
  <2>2. a \in Arrays(K)
    <3> HIDE DEF a
    <3> QED
      BY <2>1, InArrays
  <2>3. new = [arr |-> a, count |-> 0, capacity |-> size, heap_type |-> type, last_inserted |-> 0]
    BY DEF NewHeap
  <2> HIDE DEF a, new
  <2> QED
    BY <2>1, <2>2, <2>3 DEF Heaps
<1> HIDE DEF h, new
<1>5. HeapsOK(K, T)'
  BY <1>2, <1>3, <1>4 DEF HeapsOK, With
<1>6. CallsOK(K)'
  <2>1. loc[p] \in Calls(K) /\ DOMAIN loc = Pids
    BY DEF CallsOK
  <2>2. [loc[p] EXCEPT !.heap = h] \in Calls(K) /\ [loc[p] EXCEPT !.heap = h].op = loc[p].op
    BY <1>3, <2>1 DEF Calls
  <2>3. loc' = [loc EXCEPT ![p] = loc'[p]] /\ loc'[p] = [loc[p] EXCEPT !.heap = h]
    BY <1>2, <2>1
  <2> QED
    BY <1>2, <2>2, <2>3, Continues
<1> QED
  BY <1>5, <1>6

LEMMA SetUpStepTypes ==
  ASSUME NEW K, NEW T, DeviceTypes(K, T), NEW p \in Pids, NEW size \in Int, NEW type \in T,
         \/ InitCreates(p, size, type) \/ InitDestroys(p)
         \/ InitCreatesAgain(p, size, type) \/ InitStores(p)
  PROVE  DeviceTypes(K, T)'
<1> USE DEF DeviceTypes
<1>1. ASSUME NEW v \in HeapIds \cup {Null, DestroyedNull},
             nodes' = [nodes EXCEPT ![entry].global_heap = v]
      PROVE  NodesOK'
  BY <1>1 DEF NodesOK, Addresses, Loaded, Nodes
<1>2. CASE InitCreates(p, size, type)
  <2>1. NodesOK'
    BY <1>1, <1>2 DEF InitCreates
  <2> QED
    BY <1>2, <2>1, CreateTypes DEF InitCreates, GlobalsOK
<1>3. CASE InitDestroys(p)
  <2>1. CallsOK(K)'
    <3>1. loc' = [loc EXCEPT ![p] = loc'[p]] /\ loc'[p] \in Calls(K)
      BY <1>3 DEF InitDestroys, CallsOK
    <3> QED
      BY <1>3, <3>1, Continues DEF InitDestroys
  <2> QED
    BY <1>3, <2>1, SameNodes, HeapDestroyed DEF InitDestroys, GlobalsOK
<1>4. CASE InitCreatesAgain(p, size, type)
  <2>1. NodesOK'
    BY <1>1, <1>4 DEF InitCreatesAgain
  <2> QED
    BY <1>4, <2>1, CreateTypes DEF InitCreatesAgain, GlobalsOK
<1>5. CASE InitStores(p)
  <2>1. loc[p].heap \in HeapIds \cup {Null}
    BY DEF CallsOK, Calls
  <2>2. NodesOK'
    BY <1>1, <1>5, <2>1 DEF InitStores
  <2> QED
    BY <1>5, <2>2, ReturnTypes, SameHeaps DEF InitStores, GlobalsOK
<1> QED
  BY <1>2, <1>3, <1>4, <1>5

LEMMA ReleaseCallTypes ==
  ASSUME NEW K, NEW T, DeviceTypes(K, T), NEW p \in Pids, ReleaseCall(p)
  PROVE  DeviceTypes(K, T)'
<1> USE DEF DeviceTypes
<1>1. "release" \in Ops /\ Idle(p)
  BY DEF ReleaseCall, MayCall
<1>2. [NoCall EXCEPT !.op = "release"] \in Calls(K)
  <2>1. NoCall \in Calls(K)
    BY DEF NoCall, Calls
  <2> QED
    BY <1>1, <2>1 DEF Calls
<1>3. files' \in [Pids -> 0 .. MaxFiles] /\ \A q \in Pids : q # p => files'[q] = files[q]
  BY BoundsAreNaturals DEF ReleaseCall, GlobalsOK
<1>4. CallsOK(K)'
  BY <1>2, <1>3 DEF ReleaseCall, CallsOK, Goto, NoCall
<1> QED
  BY <1>3, <1>4, SameNodes, SameHeaps DEF ReleaseCall, GlobalsOK

LEMMA LoadTypes ==
  ASSUME NEW K, NEW T, DeviceTypes(K, T), HelloExit \/ HelloInit
  PROVE  DeviceTypes(K, T)'
<1> USE DEF DeviceTypes
<1>1. CASE HelloExit
  <2>1. NodesOK'
    BY <1>1 DEF HelloExit, DestroyHashTable, NodesOK, Addresses, Loaded
  <2> QED
    BY <1>1, <2>1, SameHeaps DEF HelloExit, GlobalsOK, CallsOK
<1>2. CASE HelloInit
  <2>1. NewNode(-1) \in Nodes /\ NewNode(-1).key = -1
    BY DEF NewNode, Nodes
  <2>2. NodesOK'
    BY <1>2, <2>1 DEF HelloInit, With, NodesOK, Addresses, Loaded
  <2> QED
    BY <1>2, <2>2, SameHeaps DEF HelloInit, GlobalsOK, CallsOK
<1> QED
  BY <1>1, <1>2

LEMMA InitTypes ==
  ASSUME NEW K, NEW T, Init
  PROVE  DeviceTypes(K, T)
<1>1. NodesOK
  BY DEF Init, NodesOK, Addresses, Loaded, Nodes, NewNode
<1>2. HeapsOK(K, T)
  BY DEF Init, HeapsOK
<1>3. GlobalsOK(K)
  BY BoundsAreNaturals DEF Init, GlobalsOK
<1>4. CallsOK(K)
  BY DEF Init, CallsOK, Calls, NoCall
<1> QED
  BY <1>1, <1>2, <1>3, <1>4 DEF DeviceTypes
-----------------------------------------------------------------------------
(* What the two modules do to the list, to the set of heaps and to the     *)
(* mutex: the steps of LkmDevice that change them, and any others, which   *)
(* do not.                                                                 *)
Marked == {"trylock", "add", "del_trylock", "del", "del_clear", "del_free", "print",
           "init_again", "init_store"}

SetUpOps == {"write2", "PB2_SET_TYPE"}

Plain(p) ==
  /\ pc[p] \notin Marked \cup {"idle"}
  /\ pc'[p] \notin Marked \cup {"walk"}
  /\ pc' = [pc EXCEPT ![p] = pc'[p]]
  /\ loc' = [loc EXCEPT ![p] = loc'[p]]
  /\ UNCHANGED <<nodes, heap_mutex, files>>
  /\ DOMAIN heaps' = DOMAIN heaps
  /\ loc[p].op = "open" => entry' = entry
  /\ pc'[p] = "idle" \/ loc'[p].op = loc[p].op
  /\ pc'[p] \in {"copy_args", "init"} =>
       \/ Found(p) /\ loc[p].op \in SetUpOps /\ entry' = loc[p].cur
       \/ pc[p] = "copy_args" /\ entry' = entry
  /\ pc[p] = "walk" /\ pc'[p] = "down" =>
       Found(p) /\ loc'[p].heap = OwnHeap(p) /\ OwnHeap(p) \in DOMAIN heaps

SetUpStep(p) ==
  \/ \E size, type : InitCreates(p, size, type) \/ InitCreatesAgain(p, size, type)
  \/ InitDestroys(p) \/ InitStores(p)

TableStep(p) ==
  \/ Walk(p)
  \/ OpenAllocates(p) \/ OpenBusy(p) \/ OpenLocks(p) \/ KeyAdd(p)
  \/ ReleaseBusy(p) \/ ReleaseLocks(p)
  \/ KeyDel(p) \/ KeyDelClear(p) \/ KeyDelFree(p) \/ KeyDelNone(p)
  \/ PrintKeyUnlock(p)

AnyCall(p) ==
  \/ \E op, a, b : op # "release" /\ Call(p, op, a, b)
  \/ ReleaseCall(p)

SharedNext ==
  \/ \E p \in Pids : AnyCall(p) \/ TableStep(p) \/ SetUpStep(p) \/ Plain(p)
  \/ HelloExit \/ HelloInit

LEMMA PlainReturn ==
  ASSUME NEW K, CallsOK(K), NEW p \in Pids, NEW v, Return(p, v), pc[p] \notin Marked \cup {"idle"},
         UNCHANGED <<nodes, heap_mutex, files>>, DOMAIN heaps' = DOMAIN heaps,
         loc[p].op = "open" => entry' = entry
  PROVE  Plain(p) /\ pc'[p] = "idle"
<1>1. pc' = [pc EXCEPT ![p] = "idle"] /\ pc'[p] = "idle" /\ loc' = [loc EXCEPT ![p] = loc'[p]]
  BY DEF CallsOK, Return, Goto
<1> QED
  BY <1>1 DEF Plain, Marked

LEMMA PlainMove ==
  ASSUME NEW K, CallsOK(K), NEW p \in Pids, NEW label, Goto(p, label),
         pc[p] \notin Marked \cup {"idle"},
         label \notin Marked \cup {"idle", "walk", "copy_args", "init", "down"},
         loc' = [loc EXCEPT ![p] = loc'[p]], loc'[p].op = loc[p].op,
         UNCHANGED <<nodes, heap_mutex, files>>, DOMAIN heaps' = DOMAIN heaps,
         loc[p].op = "open" => entry' = entry
  PROVE  Plain(p) /\ pc'[p] = label
<1>1. pc' = [pc EXCEPT ![p] = label] /\ pc'[p] = label
  BY DEF CallsOK, Goto
<1> QED
  BY <1>1 DEF Plain, Marked

(* The steps of LkmDevice are such steps.                                  *)
LEMMA DeviceStepIsShared ==
  ASSUME NEW K, CallsOK(K), NEW p \in Pids, DeviceStep(p)
  PROVE  TableStep(p) \/ (Plain(p) /\ pc'[p] \notin {"copy_args", "copy_num", "init"})
<1>1. DOMAIN pc = Pids /\ DOMAIN loc = Pids /\ loc = [loc EXCEPT ![p] = loc[p]]
      /\ pc = [pc EXCEPT ![p] = pc[p]]
      /\ DOMAIN loc[p] = {"op", "a", "b", "cur", "heap", "idx", "val"}
  BY DEF CallsOK, Calls
<1>2. CASE OpenTwice(p)
  BY <1>2, PlainReturn DEF OpenTwice, Found, Marked
<1>3. CASE Insert(p)
  <2>1. loc' = [loc EXCEPT ![p] = loc'[p]] /\ loc'[p].op = loc[p].op
    BY <1>1, <1>3 DEF Insert
  <2>2. DOMAIN heaps' = DOMAIN heaps
    BY <1>3 DEF Insert
  <2>3. Goto(p, "up") /\ pc[p] = "insert" /\ UNCHANGED <<nodes, heap_mutex, files, entry>>
    BY <1>3 DEF Insert
  <2>4. Plain(p) /\ pc'[p] = "up"
    BY <2>1, <2>2, <2>3, PlainMove DEF Marked
  <2> QED
    BY <2>4
<1>4. CASE InsertFull(p)
  BY <1>4, PlainReturn DEF InsertFull, Marked
<1>5. CASE HeapifyBottomTop(p)
  <2>1. loc' = [loc EXCEPT ![p] = loc'[p]] /\ loc'[p].op = loc[p].op
    BY <1>1, <1>5 DEF HeapifyBottomTop
  <2> QED
    BY <1>1, <1>5, <2>1 DEF HeapifyBottomTop, Marked, Plain
<1>6. CASE InsertReturns(p)
  <2>1. DOMAIN heaps' = DOMAIN heaps
    BY <1>6 DEF InsertReturns
  <2> QED
    BY <1>6, <2>1, PlainReturn DEF InsertReturns, Marked
<1>7. CASE HeapifyTopBottom(p)
  <2>1. loc' = [loc EXCEPT ![p] = loc'[p]] /\ loc'[p].op = loc[p].op
    BY <1>1, <1>7 DEF HeapifyTopBottom
  <2> QED
    BY <1>1, <1>7, <2>1 DEF HeapifyTopBottom, Marked, Plain
<1>8. CASE NoEntry(p)
  BY <1>8, PlainReturn DEF NoEntry, NotFound, Marked
<1>9. CASE ReadUnset(p)
  BY <1>9, PlainReturn DEF ReadUnset, Found, Marked
<1>10. CASE ReadEmpty(p)
  <2>1. loc[p].op # "open"
    BY <1>10 DEF ReadEmpty
  <2> QED
    BY <1>1, <1>10, <2>1, PlainMove DEF ReadEmpty, Found, Marked
<1>11. CASE ReadPops(p)
  <2>1. /\ pc[p] = "walk" /\ pc' = [pc EXCEPT ![p] = "down"] /\ pc'[p] = "down"
        /\ Found(p) /\ loc[p].op = "read"
        /\ UNCHANGED <<nodes, heap_mutex, files>>
    BY <1>1, <1>11 DEF ReadPops, PopMin, Goto, Found
  <2>2. /\ loc' = [loc EXCEPT ![p] = loc'[p]] /\ loc'[p].op = loc[p].op
        /\ loc'[p].heap = OwnHeap(p)
    <3> HIDE DEF OwnHeap
    <3> QED
      BY <1>1, <1>11 DEF ReadPops, PopMin
  <2>3. OwnHeap(p) \in DOMAIN heaps /\ DOMAIN heaps' = DOMAIN heaps
    BY <1>11 DEF ReadPops, PopMin, InBounds
  <2> QED
    BY <2>1, <2>2, <2>3 DEF Plain, Marked
<1>12. CASE ReadSetsTopnode(p)
  <2>1. Plain(p) /\ pc'[p] = "copy"
    BY <1>1, <1>12, PlainMove DEF ReadSetsTopnode, Popped, Marked
  <2> QED
    BY <2>1
<1>13. CASE CopyToUser(p)
  <2>1. Plain(p) /\ pc'[p] = "check"
    BY <1>1, <1>13, PlainMove DEF CopyToUser, Marked
  <2> QED
    BY <2>1
<1>14. CASE ReadReturns(p)
  BY <1>14, PlainReturn DEF ReadReturns, Marked
<1>15. CASE TableStep(p)
  BY <1>15
<1> QED
  BY <1>2, <1>3, <1>4, <1>5, <1>6, <1>7, <1>8, <1>9, <1>10, <1>11, <1>12, <1>13, <1>14, <1>15
     DEF DeviceStep, TableStep

(* A step of p moves p only.                                               *)
LEMMA StepsAreOfOne ==
  ASSUME NEW K, CallsOK(K), NEW p \in Pids,
         AnyCall(p) \/ TableStep(p) \/ SetUpStep(p) \/ Plain(p), NEW q \in Pids, q # p
  PROVE  pc'[q] = pc[q] /\ loc'[q] = loc[q]
<1>1. DOMAIN pc = Pids /\ DOMAIN loc = Pids
  BY DEF CallsOK
<1>2. CASE AnyCall(p)
  BY <1>1, <1>2 DEF AnyCall, Call, ReleaseCall, Goto
<1>3. CASE TableStep(p)
  BY <1>1, <1>3 DEF TableStep, Walk, OpenAllocates, OpenBusy, OpenLocks, KeyAdd, ReleaseBusy, ReleaseLocks,
       KeyDel, KeyDelClear, KeyDelFree, KeyDelNone, PrintKeyUnlock, Return, Goto
<1>4. CASE SetUpStep(p)
  BY <1>1, <1>4 DEF SetUpStep, InitCreates, InitCreatesAgain, InitDestroys, InitStores, CreateHeap,
       Return, Goto
<1>5. CASE Plain(p)
  BY <1>1, <1>5 DEF Plain
<1> QED
  BY <1>2, <1>3, <1>4, <1>5

(* No step but a call begins a walk, and a walk keeps its arguments.       *)
LEMMA WalksKeepArguments ==
  ASSUME NEW K, CallsOK(K), NEW p \in Pids, TableStep(p) \/ SetUpStep(p) \/ Plain(p), NEW q \in Pids
  PROVE  pc'[q] = "walk" => /\ pc[q] = "walk" /\ loc'[q].op = loc[q].op
                            /\ loc'[q].a = loc[q].a /\ loc'[q].b = loc[q].b
<1>1. DOMAIN pc = Pids /\ DOMAIN loc = Pids
  BY DEF CallsOK
<1>2. CASE Walk(p)
  BY <1>1, <1>2 DEF Walk
<1>3. CASE TableStep(p) /\ ~ Walk(p)
  <2>1. pc'[p] # "walk" /\ \A r \in Pids : r # p => pc'[r] = pc[r] /\ loc'[r] = loc[r]
    BY <1>1, <1>3 DEF TableStep, OpenAllocates, OpenBusy, OpenLocks, KeyAdd, ReleaseBusy, ReleaseLocks,
         KeyDel, KeyDelClear, KeyDelFree, KeyDelNone, PrintKeyUnlock, Return, Goto
  <2> QED
    BY <2>1
<1>4. CASE SetUpStep(p)
  <2>1. pc'[p] # "walk" /\ \A r \in Pids : r # p => pc'[r] = pc[r] /\ loc'[r] = loc[r]
    BY <1>1, <1>4 DEF SetUpStep, InitCreates, InitCreatesAgain, InitDestroys, InitStores, CreateHeap,
         Return, Goto
  <2> QED
    BY <2>1
<1>5. CASE Plain(p)
  <2>1. pc'[p] # "walk" /\ \A r \in Pids : r # p => pc'[r] = pc[r] /\ loc'[r] = loc[r]
    BY <1>1, <1>5 DEF Plain
  <2> QED
    BY <2>1
<1> QED
  BY <1>2, <1>3, <1>4, <1>5
-----------------------------------------------------------------------------
(* A process holds the mutex exactly while it is inside, and the module is *)
(* loaded while anybody is.                                                *)
MutexInv == (Loaded \/ Quiet) /\ MutexIsHeldInside

Inside == {"add", "del", "del_clear", "del_free", "print"}

LEMMA MutexKept ==
  ASSUME NEW K, CallsOK(K), MutexIsHeldInside, NEW p \in Pids, heap_mutex' = heap_mutex,
         NEW label, Goto(p, label), pc[p] \in Inside <=> label \in Inside
  PROVE  MutexIsHeldInside'
<1>1. /\ pc'[p] = label
      /\ \A q \in Pids : q # p => pc'[q] = pc[q]
  BY DEF Goto, CallsOK
<1>2. ASSUME NEW q \in Pids
      PROVE  pc'[q] \in Inside <=> heap_mutex = q
  <2>1. pc[q] \in Inside <=> heap_mutex = q
    BY DEF MutexIsHeldInside, Critical, Inside
  <2> QED
    BY <1>1, <2>1
<1> QED
  BY <1>2 DEF MutexIsHeldInside, Critical, Inside

LEMMA StepKeepsMutex ==
  ASSUME NEW K, NEW T, DeviceTypes(K, T), MutexInv, SharedNext
  PROVE  MutexInv'
<1> USE DEF DeviceTypes, MutexInv
<1>0. /\ DOMAIN pc = Pids /\ DOMAIN loc = Pids /\ Htable \notin NodeIds
      /\ \A q \in Pids : loc[q].cur \in NodeIds \cup {Null}
      /\ Htable # Null /\ Free \notin Pids
  BY IdsAreNaturals, PidsArePositive DEF CallsOK, Calls, Htable, Null, Free
<1>1. ASSUME NEW p \in Pids, AnyCall(p)
      PROVE  MutexInv'
  <2>1. Loaded'
    BY <1>1 DEF AnyCall, Call, ReleaseCall, MayCall, Loaded
  <2>2. MutexIsHeldInside'
    BY <1>1, MutexKept DEF AnyCall, Call, ReleaseCall, MayCall, Idle, Inside
  <2> QED
    BY <2>1, <2>2
<1>2. ASSUME NEW p \in Pids, TableStep(p)
      PROVE  MutexInv'
  <2>1. pc[p] # "idle"
    BY <1>2 DEF TableStep, Walk, OpenAllocates, NotFound, OpenBusy, OpenLocks, KeyAdd, ReleaseBusy,
         ReleaseLocks, KeyDel, KeyDelClear, KeyDelFree, KeyDelNone, PrintKeyUnlock
  <2>2. Loaded
    BY <2>1 DEF Quiet, Idle
  <2>3. CASE Walk(p)
    BY <2>2, <2>3 DEF Walk, Loaded, MutexIsHeldInside, Critical
  <2>4. CASE OpenAllocates(p)
    <3>1. Loaded'
      BY <2>2, <2>4 DEF OpenAllocates, Loaded, With
    <3> QED
      BY <2>4, <3>1, MutexKept DEF OpenAllocates, NotFound, Inside
  <2>5. CASE OpenBusy(p) \/ ReleaseBusy(p)
    BY <2>2, <2>5, MutexKept DEF OpenBusy, ReleaseBusy, Return, Loaded, Inside
  <2>6. CASE OpenLocks(p) \/ ReleaseLocks(p)
    <3>1. /\ heap_mutex = Free /\ heap_mutex' = p /\ pc'[p] \in {"add", "del"}
          /\ \A q \in Pids : q # p => pc'[q] = pc[q]
      BY <1>0, <2>6 DEF OpenLocks, ReleaseLocks, Goto
    <3>2. MutexIsHeldInside'
      BY <1>0, <3>1 DEF MutexIsHeldInside, Critical
    <3> QED
      BY <2>2, <2>6, <3>2 DEF OpenLocks, ReleaseLocks, Loaded
  <2>7. CASE KeyAdd(p)
    BY <2>2, <2>7, MutexKept DEF KeyAdd, Loaded, Inside
  <2>8. CASE KeyDel(p)
    <3>1. DOMAIN nodes' = DOMAIN nodes
      BY <2>8 DEF KeyDel
    <3> QED
      BY <2>2, <2>8, <3>1, MutexKept DEF KeyDel, Loaded, Inside
  <2>9. CASE KeyDelClear(p)
    BY <2>2, <2>9, MutexKept DEF KeyDelClear, Loaded, Inside
  <2>10. CASE KeyDelFree(p)
    <3>1. Loaded'
      BY <1>0, <2>2, <2>10 DEF KeyDelFree, Loaded, Without
    <3> QED
      BY <2>10, <3>1, MutexKept DEF KeyDelFree, Inside
  <2>11. CASE KeyDelNone(p)
    BY <2>2, <2>11, MutexKept DEF KeyDelNone, Loaded, Inside
  <2>12. CASE PrintKeyUnlock(p)
    <3>1. /\ heap_mutex = p /\ heap_mutex' = Free /\ pc'[p] = "idle"
          /\ \A q \in Pids : q # p => pc'[q] = pc[q]
      BY <1>0, <2>12 DEF PrintKeyUnlock, Return, Goto, MutexIsHeldInside, Critical
    <3>2. MutexIsHeldInside'
      BY <1>0, <3>1 DEF MutexIsHeldInside, Critical
    <3> QED
      BY <2>2, <2>12, <3>2 DEF PrintKeyUnlock, Loaded
  <2> QED
    BY <1>2, <2>3, <2>4, <2>5, <2>6, <2>7, <2>8, <2>9, <2>10, <2>11, <2>12 DEF TableStep
<1>3. ASSUME NEW p \in Pids, SetUpStep(p)
      PROVE  MutexInv'
  <2>1. /\ pc[p] \in {"init", "init_again", "init_store"}
        /\ heap_mutex' = heap_mutex /\ DOMAIN nodes' = DOMAIN nodes
        /\ Goto(p, "init_again") \/ Goto(p, "init_store") \/ Goto(p, "idle")
    BY <1>3 DEF SetUpStep, InitCreates, InitCreatesAgain, InitDestroys, InitStores, CreateHeap, Return
  <2>2. Loaded
    BY <2>1 DEF Quiet, Idle
  <2> QED
    BY <2>1, <2>2, MutexKept DEF Loaded, Inside
<1>4. ASSUME NEW p \in Pids, Plain(p)
      PROVE  MutexInv'
  <2>1. Loaded'
    BY <1>4 DEF Plain, Quiet, Idle, Loaded
  <2>2. Goto(p, pc'[p]) /\ pc[p] \notin Inside /\ pc'[p] \notin Inside /\ heap_mutex' = heap_mutex
    BY <1>4 DEF Plain, Goto, Marked, Inside
  <2> QED
    BY <2>1, <2>2, MutexKept
<1>5. CASE HelloExit
  BY <1>5 DEF HelloExit, Quiet, Idle, MutexIsHeldInside, Critical
<1>6. CASE HelloInit
  BY <1>0, <1>6 DEF HelloInit, Loaded, With, Quiet, Idle, MutexIsHeldInside, Critical
<1> QED
  BY <1>1, <1>2, <1>3, <1>4, <1>5, <1>6 DEF SharedNext

LEMMA InitMutex ==
  ASSUME Init
  PROVE  MutexInv
BY PidsArePositive DEF Init, MutexInv, Loaded, MutexIsHeldInside, Critical, Free
=============================================================================
