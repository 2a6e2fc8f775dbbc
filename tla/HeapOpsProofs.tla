--------------------------- MODULE HeapOpsProofs ---------------------------
(***************************************************************************)
(* Lemmas about the operators of HeapOps, on arrays of every size: what    *)
(* the swaps of the two heapify functions do to the order of the nodes and *)
(* to the number of copies of a key.                                       *)
(***************************************************************************)
EXTENDS HeapOps, FiniteSetTheorems, FunctionTheorems, TLAPS

(* A node other than the root has a smaller parent, of which it is the     *)
(* left or the right child.                                                *)
LEMMA ParentOfNode ==
  ASSUME NEW i \in Nat, i # 0
  PROVE  /\ Parent(i) \in 0 .. i-1
         /\ i = 2 * Parent(i) + 1 \/ i = 2 * Parent(i) + 2
BY DEF Parent

LEMMA ParentOfChild ==
  ASSUME NEW p \in Nat
  PROVE  Parent(2*p + 1) = p /\ Parent(2*p + 2) = p
BY DEF Parent

(* What heapify_top_bottom selects: the node itself or one of its children *)
(* in the heap, and none of the three is out of order below it.            *)
LEMMA TopOfThreeIsTop ==
  ASSUME NEW n \in Nat, NEW a \in [0 .. n -> Int], NEW m \in 0 .. n, NEW type \in Int,
         NEW p \in 0 .. m
  PROVE  LET t == TopOfThree(type, a, m, p) IN
           /\ t = p \/ (t \in {2*p + 1, 2*p + 2} /\ t < m /\ OutOfOrder(type, a[p], a[t]))
           /\ ~ OutOfOrder(type, a[t], a[p])
           /\ \A c \in {2*p + 1, 2*p + 2} : c < m => ~ OutOfOrder(type, a[t], a[c])
<1> DEFINE l == 2*p + 1
           r == 2*p + 2
           b == Better(type, a, m, p, l)
           t == Better(type, a, m, b, r)
<1>1. l \in Nat /\ r \in Nat /\ p \in Nat
  OBVIOUS
<1>2. /\ b = p \/ (b = l /\ l < m /\ OutOfOrder(type, a[p], a[l]))
      /\ ~ OutOfOrder(type, a[b], a[p])
      /\ l < m => ~ OutOfOrder(type, a[b], a[l])
  BY <1>1 DEF Better, OutOfOrder
<1>3. /\ t = b \/ (t = r /\ r < m /\ OutOfOrder(type, a[b], a[r]))
      /\ ~ OutOfOrder(type, a[t], a[b])
      /\ r < m => ~ OutOfOrder(type, a[t], a[r])
  BY <1>1, <1>2 DEF Better, OutOfOrder
<1>4. /\ t = p \/ (t \in {l, r} /\ t < m /\ OutOfOrder(type, a[p], a[t]))
      /\ ~ OutOfOrder(type, a[t], a[p])
      /\ \A c \in {l, r} : c < m => ~ OutOfOrder(type, a[t], a[c])
  BY <1>1, <1>2, <1>3 DEF OutOfOrder
<1>5. TopOfThree(type, a, m, p) = t
  BY DEF TopOfThree
<1> QED
  BY <1>4, <1>5
-----------------------------------------------------------------------------
(* The swap of heapify_bottom_top at node x: node i is in order with its   *)
(* parent afterwards unless it is x's parent, and with its grandparent if  *)
(* it is x's brother or x.                                                 *)
LEMMA SwapUp ==
  ASSUME NEW n \in Nat, NEW a \in [0 .. n -> Int], NEW type \in Int,
         NEW x \in 1 .. n, NEW i \in 1 .. n,
         OutOfOrder(type, a[Parent(x)], a[x]),
         i # x => ~ OutOfOrder(type, a[Parent(i)], a[i]),
         Parent(i) = x => ~ OutOfOrder(type, a[Parent(x)], a[i]),
         Parent(x) # 0 => ~ OutOfOrder(type, a[Parent(Parent(x))], a[Parent(x)])
  PROVE  LET b == Swapped(a, Parent(x), x) IN
           /\ i # Parent(x) => ~ OutOfOrder(type, b[Parent(i)], b[i])
           /\ Parent(i) = Parent(x) /\ Parent(x) # 0 =>
                ~ OutOfOrder(type, b[Parent(Parent(x))], b[i])
<1> DEFINE p == Parent(x)
           q == Parent(i)
           g == Parent(p)
           b == Swapped(a, p, x)
<1>1. /\ p \in 0 .. x-1 /\ q \in 0 .. i-1
      /\ p # 0 => g \in 0 .. p-1
  <2>1. p \in 0 .. x-1 /\ q \in 0 .. i-1
    BY ParentOfNode
  <2> QED
    BY <2>1, ParentOfNode
<1>2. \A k \in 0 .. n :
        /\ b[k] = IF k = x THEN a[p] ELSE IF k = p THEN a[x] ELSE a[k]
        /\ a[k] \in Int
  <2>1. p \in 0 .. n /\ x \in 0 .. n
    BY <1>1
  <2> HIDE DEF p
  <2> QED
    BY <2>1 DEF Swapped
<1>3. /\ OutOfOrder(type, a[p], a[x])
      /\ i # x => ~ OutOfOrder(type, a[q], a[i])
      /\ q = x => ~ OutOfOrder(type, a[p], a[i])
      /\ p # 0 => ~ OutOfOrder(type, a[g], a[p])
  OBVIOUS
<1> HIDE DEF p, q, g, b
<1>4. i # p => ~ OutOfOrder(type, b[q], b[i])
  <2>1. CASE i = x
    BY <1>1, <1>2, <1>3, <2>1 DEF OutOfOrder, p, q
  <2>2. CASE i # x /\ q = x
    BY <1>1, <1>2, <1>3, <2>2 DEF OutOfOrder
  <2>3. CASE i # x /\ q = p
    BY <1>1, <1>2, <1>3, <2>3 DEF OutOfOrder
  <2>4. CASE i # x /\ q # x /\ q # p
    BY <1>1, <1>2, <1>3, <2>4 DEF OutOfOrder
  <2> QED
    BY <2>1, <2>2, <2>3, <2>4
<1>5. q = p /\ p # 0 => ~ OutOfOrder(type, b[g], b[i])
  <2>1. CASE i = x
    BY <1>1, <1>2, <1>3, <2>1 DEF OutOfOrder
  <2>2. CASE i # x
    BY <1>1, <1>2, <1>3, <2>2 DEF OutOfOrder
  <2> QED
    BY <2>1, <2>2
<1> QED
  BY <1>4, <1>5 DEF p, q, g, b

(* The swap of heapify_top_bottom of node x with its child s: node i is in *)
(* order with its parent afterwards unless that is s, and with x if it is. *)
LEMMA SwapDown ==
  ASSUME NEW n \in Nat, NEW a \in [0 .. n -> Int], NEW type \in Int,
         NEW x \in 0 .. n, NEW s \in 1 .. n, NEW i \in 1 .. n,
         Parent(s) = x,
         OutOfOrder(type, a[x], a[s]),
         Parent(i) = x => ~ OutOfOrder(type, a[s], a[i]),
         Parent(i) # x => ~ OutOfOrder(type, a[Parent(i)], a[i]),
         i = x => ~ OutOfOrder(type, a[Parent(x)], a[s])
  PROVE  LET b == Swapped(a, s, x) IN
           /\ Parent(i) # s => ~ OutOfOrder(type, b[Parent(i)], b[i])
           /\ Parent(i) = s => ~ OutOfOrder(type, b[x], b[i])
<1> DEFINE q == Parent(i)
           b == Swapped(a, s, x)
<1>1. q \in 0 .. i-1 /\ x \in 0 .. s-1
  <2>1. i \in Nat /\ i # 0 /\ s \in Nat /\ s # 0
    OBVIOUS
  <2> QED
    BY <2>1, ParentOfNode
<1>2. \A k \in 0 .. n :
        /\ b[k] = IF k = x THEN a[s] ELSE IF k = s THEN a[x] ELSE a[k]
        /\ a[k] \in Int
  <2>1. s \in 0 .. n
    OBVIOUS
  <2> QED
    BY <2>1 DEF Swapped
<1>3. /\ Parent(s) = x
      /\ OutOfOrder(type, a[x], a[s])
      /\ q = x => ~ OutOfOrder(type, a[s], a[i])
      /\ q # x => ~ OutOfOrder(type, a[q], a[i])
      /\ i = x => ~ OutOfOrder(type, a[q], a[s])
      /\ i = s => q = x
  OBVIOUS
<1> HIDE DEF q, b
<1>4. q # s => ~ OutOfOrder(type, b[q], b[i])
  <2>1. CASE i = x
    BY <1>1, <1>2, <1>3, <2>1 DEF OutOfOrder
  <2>2. CASE i = s
    BY <1>1, <1>2, <1>3, <2>2 DEF OutOfOrder
  <2>3. CASE i # x /\ i # s /\ q = x
    BY <1>1, <1>2, <1>3, <2>3 DEF OutOfOrder
  <2>4. CASE i # x /\ i # s /\ q # x
    BY <1>1, <1>2, <1>3, <2>4 DEF OutOfOrder
  <2> QED
    BY <2>1, <2>2, <2>3, <2>4
<1>5. q = s => ~ OutOfOrder(type, b[x], b[i])
  BY <1>1, <1>2, <1>3 DEF OutOfOrder
<1> QED
  BY <1>4, <1>5 DEF q, b
-----------------------------------------------------------------------------
(* In a heap that is in order no node precedes the root: follow the        *)
(* parents down from the least node that would.                            *)
LEMMA RootIsExtremum ==
  ASSUME NEW n \in Nat, NEW a \in [0 .. n -> Int], NEW type \in Int, NEW m \in 0 .. n+1,
         \A i \in 1 .. m-1 : ~ OutOfOrder(type, a[Parent(i)], a[i])
  PROVE  \A i \in 0 .. m-1 : ~ OutOfOrder(type, a[0], a[i])
<1> DEFINE Bad == {i \in Nat : i < m /\ OutOfOrder(type, a[0], a[i])}
<1>1. SUFFICES ASSUME Bad # {} PROVE FALSE
  OBVIOUS
<1>2. PICK b \in Bad : \A j \in Bad : ~ (j < b)
  <2>1. PICK b \in Bad : \A j \in Bad : ~ (<<j, b>> \in OpToRel(<, Nat))
    BY <1>1, NatLessThanWellFounded, WFMin
  <2> QED
    BY <2>1 DEF OpToRel
<1>3. b # 0
  BY <1>2 DEF OutOfOrder
<1>4. Parent(b) \in 0 .. b-1
  BY <1>2, <1>3, ParentOfNode
<1>5. ~ OutOfOrder(type, a[0], a[Parent(b)])
  BY <1>2, <1>4
<1>6. ~ OutOfOrder(type, a[Parent(b)], a[b])
  BY <1>2, <1>3
<1>7. OutOfOrder(type, a[0], a[b])
  BY <1>2
<1>8. a[0] \in Int /\ a[b] \in Int /\ a[Parent(b)] \in Int
  BY <1>2, <1>4
<1> QED
  BY <1>5, <1>6, <1>7, <1>8 DEF OutOfOrder

-----------------------------------------------------------------------------
(* How many of the first m cells of an array hold k: what the abstract bag *)
(* counts.                                                                 *)
Holding(a, m, k) == {i \in 0 .. m-1 : a[i] = k}

Count(a, m, k) == Cardinality(Holding(a, m, k))

LEMMA CountIsNatural ==
  ASSUME NEW a, NEW m \in Nat, NEW k
  PROVE  /\ IsFiniteSet(Holding(a, m, k))
         /\ Count(a, m, k) \in Nat
         /\ Count(a, m, k) > 0 <=> \E i \in 0 .. m-1 : a[i] = k
<1>1. IsFiniteSet(0 .. m-1)
  BY FS_Interval
<1>2. IsFiniteSet(Holding(a, m, k))
  BY <1>1, FS_Subset DEF Holding
<1>3. Count(a, m, k) \in Nat /\ (Count(a, m, k) = 0 <=> Holding(a, m, k) = {})
  BY <1>2, FS_CardinalityType, FS_EmptySet DEF Count
<1> QED
  BY <1>2, <1>3 DEF Holding

(* One cell more counts once if it holds k.                                *)
LEMMA CountOneMore ==
  ASSUME NEW a, NEW b, NEW m \in Nat, NEW k, \A i \in 0 .. m-1 : b[i] = a[i]
  PROVE  Count(b, m + 1, k) = Count(a, m, k) + (IF b[m] = k THEN 1 ELSE 0)
<1>1. IsFiniteSet(Holding(a, m, k)) /\ m \notin Holding(a, m, k)
  <2>1. m \notin Holding(a, m, k)
    BY DEF Holding
  <2> QED
    BY <2>1, CountIsNatural
<1>2. CASE b[m] = k
  <2>1. Holding(b, m + 1, k) = Holding(a, m, k) \cup {m}
    BY <1>2 DEF Holding
  <2> QED
    BY <1>1, <1>2, <2>1, FS_AddElement DEF Count
<1>3. CASE b[m] # k
  <2>1. Holding(b, m + 1, k) = Holding(a, m, k)
    BY <1>3 DEF Holding
  <2> QED
    BY <1>3, <2>1, CountIsNatural DEF Count
<1> QED
  BY <1>2, <1>3

(* A swap of two counted cells leaves every count alone: it renumbers the  *)
(* cells.                                                                  *)
LEMMA SwapKeepsCount ==
  ASSUME NEW n \in Nat, NEW a \in [0 .. n -> Int], NEW m \in 0 .. n+1, NEW k,
         NEW x \in 0 .. m-1, NEW y \in 0 .. m-1
  PROVE  Count(Swapped(a, x, y), m, k) = Count(a, m, k)
<1> DEFINE b == Swapped(a, x, y)
           S == Holding(a, m, k)
           T == Holding(b, m, k)
           move == [i \in S |-> IF i = x THEN y ELSE IF i = y THEN x ELSE i]
<1>1. \A i \in 0 .. m-1 : b[i] = IF i = x THEN a[y] ELSE IF i = y THEN a[x] ELSE a[i]
  BY DEF Swapped
<1> HIDE DEF b
<1>2. move \in Bijection(S, T)
  <2>1. move \in [S -> T]
    BY <1>1 DEF Holding
  <2>2. \A i, j \in S : move[i] = move[j] => i = j
    BY DEF Holding
  <2>3. \A t \in T : \E i \in S : move[i] = t
    <3> SUFFICES ASSUME NEW t \in T
                 PROVE  \E i \in S : move[i] = t
      OBVIOUS
    <3> DEFINE i == IF t = x THEN y ELSE IF t = y THEN x ELSE t
    <3>1. i \in S
      BY <1>1 DEF Holding
    <3>2. move[i] = t
      BY <3>1
    <3> QED
      BY <3>1, <3>2
  <2> QED
    BY <2>1, <2>2, <2>3, Fun_IsBij
<1>3. ExistsBijection(S, T)
  BY <1>2 DEF ExistsBijection
<1>4. IsFiniteSet(S)
  BY CountIsNatural
<1>5. Cardinality(T) = Cardinality(S)
  BY <1>3, <1>4, FS_Bijection
<1> QED
  BY <1>5 DEF Count, b

(* What PopMin does to the array, with one cell less to count: one copy of *)
(* the root's key is gone.                                                 *)
LEMMA PopTakesOneCopy ==
  ASSUME NEW n \in Nat, NEW a \in [0 .. n -> Int], NEW m \in 1 .. n+1, NEW k
  PROVE  LET b == [a EXCEPT ![0] = a[m - 1]] IN
           Count(a, m, k) = Count(b, m - 1, k) + (IF a[0] = k THEN 1 ELSE 0)
<1> DEFINE b == [a EXCEPT ![0] = a[m - 1]]
           c == Swapped(a, 0, m - 1)
<1>1. Count(c, m, k) = Count(a, m, k)
  BY SwapKeepsCount
<1>2. (\A i \in 0 .. (m-1)-1 : c[i] = b[i]) /\ c[m - 1] = a[0]
  BY DEF Swapped
<1>3. Count(c, (m - 1) + 1, k) = Count(b, m - 1, k) + (IF c[m - 1] = k THEN 1 ELSE 0)
  <2> DEFINE l == m - 1
  <2>1. l \in Nat /\ \A i \in 0 .. l-1 : c[i] = b[i]
    BY <1>2
  <2> HIDE DEF b, c, l
  <2>2. \A f, g : (\A i \in 0 .. l-1 : g[i] = f[i]) =>
                  Count(g, l + 1, k) = Count(f, l, k) + (IF g[l] = k THEN 1 ELSE 0)
    BY <2>1, CountOneMore
  <2>3. Count(c, l + 1, k) = Count(b, l, k) + (IF c[l] = k THEN 1 ELSE 0)
    BY <2>1, <2>2
  <2> QED
    BY <2>3 DEF l
<1> QED
  BY <1>1, <1>2, <1>3
-----------------------------------------------------------------------------
(* The first n nodes of an array in order; in order but for node x, which  *)
(* still rises, or but for the children of node x, which still sinks.      *)
Ordered(type, a, n) == \A i \in 1 .. n-1 : ~ OutOfOrder(type, a[Parent(i)], a[i])

Rising(type, a, n, x) ==
  /\ x \in 0 .. n
  /\ \A i \in 1 .. n :
       /\ i # x => ~ OutOfOrder(type, a[Parent(i)], a[i])
       /\ Parent(i) = x /\ x # 0 => ~ OutOfOrder(type, a[Parent(x)], a[i])

Sinking(type, a, n, x) ==
  /\ x = 0 \/ x \in 0 .. n-1
  /\ \A i \in 1 .. n-1 :
       /\ Parent(i) # x => ~ OutOfOrder(type, a[Parent(i)], a[i])
       /\ Parent(i) = x /\ x # 0 => ~ OutOfOrder(type, a[Parent(x)], a[i])

(* insert stores the key behind the last node ...                          *)
LEMMA RiseStarts ==
  ASSUME NEW m \in Nat, NEW a \in [0 .. m -> Int], NEW type, NEW n \in 0 .. m, NEW k \in Int,
         Ordered(type, a, n)
  PROVE  Rising(type, [a EXCEPT ![n] = k], n, n)
<1> DEFINE b == [a EXCEPT ![n] = k]
<1>1. ASSUME NEW i \in 1 .. n
      PROVE  /\ i # n => ~ OutOfOrder(type, b[Parent(i)], b[i])
             /\ Parent(i) # n
  <2>1. Parent(i) \in 0 .. i-1
    BY ParentOfNode
  <2>2. i # n => b[i] = a[i] /\ b[Parent(i)] = a[Parent(i)] /\ i \in 1 .. n-1
    BY <2>1
  <2> QED
    BY <2>1, <2>2 DEF Ordered
<1> QED
  BY <1>1 DEF Rising

(* ... each call of heapify_bottom_top moves it up ...                     *)
LEMMA RiseGoesOn ==
  ASSUME NEW m \in Nat, NEW a \in [0 .. m -> Int], NEW type \in Int, NEW n \in 0 .. m, NEW x,
         Rising(type, a, n, x), OutOfOrder(type, a[Parent(x)], a[x])
  PROVE  /\ x \in 1 .. n /\ Parent(x) \in 0 .. x-1
         /\ Rising(type, Swapped(a, Parent(x), x), n, Parent(x))
<1>1. x \in 0 .. n
  BY DEF Rising
<1>2. x # 0
  BY <1>1 DEF OutOfOrder, Parent
<1>3. Parent(x) \in 0 .. x-1
  BY <1>1, <1>2, ParentOfNode
<1> DEFINE b == Swapped(a, Parent(x), x)
<1>4. ASSUME NEW i \in 1 .. n
      PROVE  /\ i # Parent(x) => ~ OutOfOrder(type, b[Parent(i)], b[i])
             /\ Parent(i) = Parent(x) /\ Parent(x) # 0 =>
                  ~ OutOfOrder(type, b[Parent(Parent(x))], b[i])
  <2>1. /\ i \in 1 .. m /\ x \in 1 .. m
        /\ Parent(x) # 0 => Parent(x) \in 1 .. n /\ Parent(x) # x
    BY <1>1, <1>2, <1>3
  <2>2. /\ i # x => ~ OutOfOrder(type, a[Parent(i)], a[i])
        /\ Parent(i) = x => ~ OutOfOrder(type, a[Parent(x)], a[i])
        /\ Parent(x) # 0 => ~ OutOfOrder(type, a[Parent(Parent(x))], a[Parent(x)])
    BY <1>2, <2>1 DEF Rising
  <2> QED
    BY <2>1, <2>2, SwapUp
<1> HIDE DEF b
<1>5. Rising(type, b, n, Parent(x))
  BY <1>1, <1>3, <1>4 DEF Rising
<1> QED
  BY <1>1, <1>2, <1>3, <1>5 DEF b

(* ... until one node more is in order.                                    *)
LEMMA RiseEnds ==
  ASSUME NEW type, NEW a, NEW n \in Nat, NEW x, Rising(type, a, n, x),
         ~ OutOfOrder(type, a[Parent(x)], a[x])
  PROVE  Ordered(type, a, n + 1)
BY DEF Rising, Ordered

(* PopMin moves the last node to the root, whose key preceded all ...      *)
LEMMA SinkStarts ==
  ASSUME NEW m \in Nat, NEW a \in [0 .. m -> Int], NEW type \in Int, NEW n \in 1 .. m+1,
         Ordered(type, a, n)
  PROVE  LET b == [a EXCEPT ![0] = a[n - 1]] IN
           /\ Sinking(type, b, n - 1, 0)
           /\ \A i \in 0 .. n-2 : b[i] \in {a[j] : j \in 0 .. n-1}
           /\ \A i \in 0 .. n-1 : ~ OutOfOrder(type, a[0], a[i])
<1> DEFINE b == [a EXCEPT ![0] = a[n - 1]]
<1>1. \A i \in 0 .. m : b[i] = IF i = 0 THEN a[n - 1] ELSE a[i]
  OBVIOUS
<1>2. ASSUME NEW i \in 1 .. n-2, Parent(i) # 0
      PROVE  ~ OutOfOrder(type, b[Parent(i)], b[i])
  <2>1. Parent(i) \in 0 .. i-1
    BY ParentOfNode
  <2>2. ~ OutOfOrder(type, a[Parent(i)], a[i])
    BY DEF Ordered
  <2> HIDE DEF b
  <2>3. b[i] = a[i] /\ b[Parent(i)] = a[Parent(i)]
    BY <1>1, <1>2, <2>1
  <2> QED
    BY <2>2, <2>3
<1>3. \A i \in 0 .. n-2 : b[i] \in {a[j] : j \in 0 .. n-1}
  BY <1>1
<1>4. \A i \in 0 .. n-1 : ~ OutOfOrder(type, a[0], a[i])
  <2>1. \A i \in 1 .. n-1 : ~ OutOfOrder(type, a[Parent(i)], a[i])
    BY DEF Ordered
  <2>2. n \in 0 .. m+1
    OBVIOUS
  <2> QED
    BY <2>1, <2>2, RootIsExtremum
<1> HIDE DEF b
<1>5. Sinking(type, b, n - 1, 0)
  BY <1>2 DEF Sinking
<1> QED
  BY <1>3, <1>4, <1>5 DEF b

(* ... each call of heapify_top_bottom moves it down ...                   *)
LEMMA SinkGoesOn ==
  ASSUME NEW m \in Nat, NEW a \in [0 .. m -> Int], NEW type \in Int, NEW n \in 0 .. m, NEW x,
         Sinking(type, a, n, x), TopOfThree(type, a, n, x) # x
  PROVE  LET s == TopOfThree(type, a, n, x) IN
           /\ x \in 0 .. n-1 /\ s \in x+1 .. n-1
           /\ Sinking(type, Swapped(a, s, x), n, s)
<1> DEFINE s == TopOfThree(type, a, n, x)
<1>1. x \in 0 .. n
  BY DEF Sinking
<1>2. /\ s \in {2*x + 1, 2*x + 2} /\ s < n
      /\ OutOfOrder(type, a[x], a[s])
      /\ \A c \in {2*x + 1, 2*x + 2} : c < n => ~ OutOfOrder(type, a[s], a[c])
  BY <1>1, TopOfThreeIsTop
<1> HIDE DEF s
<1>3. Parent(s) = x /\ s \in x+1 .. n-1 /\ x \in 0 .. n-1
  <2>1. x \in Nat
    BY <1>1
  <2>2. Parent(s) = x
    BY <1>2, <2>1, ParentOfChild
  <2> QED
    BY <1>1, <1>2, <2>2
<1> DEFINE b == Swapped(a, s, x)
<1>4. ASSUME NEW i \in 1 .. n-1
      PROVE  /\ Parent(i) # s => ~ OutOfOrder(type, b[Parent(i)], b[i])
             /\ Parent(i) = s => ~ OutOfOrder(type, b[Parent(s)], b[i])
  <2>1. Parent(i) \in 0 .. i-1 /\ i \in {2 * Parent(i) + 1, 2 * Parent(i) + 2} /\ i < n
    BY ParentOfNode
  <2>2. /\ Parent(i) # x => ~ OutOfOrder(type, a[Parent(i)], a[i])
        /\ i = x => ~ OutOfOrder(type, a[Parent(x)], a[s])
    BY <1>3 DEF Sinking
  <2>3. Parent(i) = x => ~ OutOfOrder(type, a[s], a[i])
    BY <1>2, <2>1
  <2>4. x \in 0 .. m /\ s \in 1 .. m /\ i \in 1 .. m
    BY <1>3
  <2> QED
    BY <1>2, <1>3, <2>2, <2>3, <2>4, SwapDown
<1> HIDE DEF b
<1>5. Sinking(type, b, n, s)
  BY <1>3, <1>4 DEF Sinking
<1> QED
  BY <1>3, <1>5 DEF b, s

(* ... until all that are left are in order.                               *)
LEMMA SinkEnds ==
  ASSUME NEW m \in Nat, NEW a \in [0 .. m -> Int], NEW type \in Int, NEW n \in 0 .. m, NEW x,
         Sinking(type, a, n, x), TopOfThree(type, a, n, x) = x
  PROVE  Ordered(type, a, n)
<1>1. x \in 0 .. n
  BY DEF Sinking
<1>2. \A c \in {2*x + 1, 2*x + 2} : c < n => ~ OutOfOrder(type, a[x], a[c])
  BY <1>1, TopOfThreeIsTop
<1>3. ASSUME NEW i \in 1 .. n-1
      PROVE  ~ OutOfOrder(type, a[Parent(i)], a[i])
  <2>1. i = 2 * Parent(i) + 1 \/ i = 2 * Parent(i) + 2
    BY ParentOfNode
  <2> QED
    BY <1>1, <1>2, <2>1 DEF Sinking
<1> QED
  BY <1>3 DEF Ordered
=============================================================================
