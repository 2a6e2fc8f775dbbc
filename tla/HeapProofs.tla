----------------------------- MODULE HeapProofs -----------------------------
(***************************************************************************)
(* Proofs about module Heap, for heaps of every capacity, both types and   *)
(* every set of integer keys.                                              *)
(***************************************************************************)
EXTENDS Heap, HeapOpsProofs

(* The fields of a heap keep their types: count never leaves 0 .. capacity *)
(* and a heapify call never indexes outside the array.                     *)
LEMMA TypeStep ==
  ASSUME TypeOK, FrameOK, [Next]_vars
  PROVE  TypeOK' /\ FrameOK'
<1> USE KeysAreInts, CapacitiesArePositive, HeapTypesAreInts, EmptyPopIsInt
<1> USE DEF TypeOK, FrameOK, Return, heapVars
<1>1. ASSUME NEW key \in Keys, Insert(key)
      PROVE  TypeOK' /\ FrameOK'
  BY <1>1 DEF Insert
<1>2. CASE InsertFull
  BY <1>2 DEF InsertFull, EACCES
<1>3. CASE PopMin
  BY <1>3 DEF PopMin
<1>4. CASE PopMinEmpty
  BY <1>4 DEF PopMinEmpty
<1>5. CASE HeapifyBottomTop
  <2>1. Parent(idx) \in 0 .. capacity-1 /\ Parent(idx) <= idx
    BY ParentOfNode DEF Parent
  <2> QED
    BY <1>5, <2>1 DEF HeapifyBottomTop, Swapped
<1>6. CASE InsertReturns
  BY <1>6 DEF InsertReturns
<1>7. CASE HeapifyTopBottom
  <2>1. Sink \in 0 .. capacity-1 /\ Sink < count
    BY <1>7 DEF HeapifyTopBottom, Sink, TopOfThree, Better
  <2> QED
    BY <1>7, <2>1 DEF HeapifyTopBottom, Swapped
<1>8. CASE PopMinReturns
  BY <1>8 DEF PopMinReturns
<1>9. CASE UNCHANGED vars
  BY <1>9 DEF vars
<1> QED
  BY <1>1, <1>2, <1>3, <1>4, <1>5, <1>6, <1>7, <1>8, <1>9 DEF Next, Sift

THEOREM TypeCorrect == Spec => []TypeOK
<1>1. Init => TypeOK /\ FrameOK
  <2> SUFFICES ASSUME Init PROVE TypeOK /\ FrameOK
    OBVIOUS
  <2> USE DEF Init
  <2>1. capacity \in Nat \ {0}
    BY CapacitiesArePositive
  <2>2. arr \in [0 .. capacity-1 -> Int] /\ last_inserted \in Int
    BY KeysAreInts
  <2>3. FrameOK
    BY DEF FrameOK
  <2> QED
    BY <2>1, <2>2, <2>3 DEF TypeOK
<1>2. TypeOK /\ FrameOK /\ [Next]_vars => (TypeOK /\ FrameOK)'
  BY TypeStep
<1> QED
  BY <1>1, <1>2, PTL DEF Spec
-----------------------------------------------------------------------------
(* The order of the nodes, in the terms of HeapOpsProofs.                  *)
OrderOK ==
  /\ pc = "idle" => Ordered(heap_type, arr, count)
  /\ pc = "up" => Rising(heap_type, arr, count, idx)
  /\ pc = "down" => Sinking(heap_type, arr, count, idx)

LEMMA OrderIs == TypeOK /\ FrameOK => (OrderOK <=> HeapOrder /\ UpOrder /\ DownOrder)
BY CapacitiesArePositive
   DEF TypeOK, FrameOK, OrderOK, Ordered, Rising, Sinking, HeapOrder, UpOrder, DownOrder, InOrder

(* The two sift loops keep SiftOrder, and re-establish HeapOrder when they *)
(* end.                                                                    *)
LEMMA OrderStep ==
  ASSUME HeapInv, [Next]_vars
  PROVE  (HeapOrder /\ UpOrder /\ DownOrder)'
<1>0. /\ TypeOK' /\ FrameOK' /\ OrderOK /\ FrameOK
      /\ capacity \in Nat /\ capacity-1 \in Nat /\ heap_type \in Int
      /\ arr \in [0 .. capacity-1 -> Int] /\ count \in 0 .. (capacity-1)+1
  BY TypeStep, OrderIs, CapacitiesArePositive, HeapTypesAreInts DEF HeapInv, SiftOrder, TypeOK
<1> SUFFICES OrderOK'
  <2>1. (TypeOK /\ FrameOK => (OrderOK <=> HeapOrder /\ UpOrder /\ DownOrder))'
    BY OrderIs, PTL
  <2> QED
    BY <1>0, <2>1
<1>r. pc \in {"up", "down"} => count \in 0 .. capacity-1
  BY <1>0 DEF FrameOK
<1>1. ASSUME NEW key \in Keys, Insert(key)
      PROVE  OrderOK'
  <2>1. Ordered(heap_type, arr, count) /\ count \in 0 .. capacity-1 /\ key \in Int
    BY <1>0, <1>1, KeysAreInts DEF Insert, OrderOK
  <2>2. Rising(heap_type, [arr EXCEPT ![count] = key], count, count)
    BY <1>0, <2>1, RiseStarts
  <2> QED
    BY <1>1, <2>2 DEF Insert, OrderOK
<1>2. CASE HeapifyBottomTop
  <2>1. Rising(heap_type, Swapped(arr, Parent(idx), idx), count, Parent(idx))
    BY <1>0, <1>2, <1>r, RiseGoesOn DEF HeapifyBottomTop, OrderOK
  <2> QED
    BY <1>2, <2>1 DEF HeapifyBottomTop, OrderOK
<1>3. CASE InsertReturns
  <2>1. Ordered(heap_type, arr, count + 1)
    BY <1>0, <1>3, RiseEnds DEF InsertReturns, OrderOK
  <2> QED
    BY <1>3, <2>1 DEF InsertReturns, Return, OrderOK
<1>4. CASE PopMin
  <2>1. Ordered(heap_type, arr, count) /\ count \in 1 .. (capacity-1)+1
    BY <1>0, <1>4 DEF PopMin, OrderOK
  <2>2. Sinking(heap_type, [arr EXCEPT ![0] = arr[count - 1]], count - 1, 0)
    BY <1>0, <2>1, SinkStarts
  <2> QED
    BY <1>4, <2>2 DEF PopMin, OrderOK
<1>5. CASE HeapifyTopBottom
  <2>1. Sinking(heap_type, Swapped(arr, Sink, idx), count, Sink)
    BY <1>0, <1>5, <1>r, SinkGoesOn DEF HeapifyTopBottom, OrderOK, Sink
  <2> QED
    BY <1>5, <2>1 DEF HeapifyTopBottom, OrderOK
<1>6. CASE PopMinReturns
  <2>1. Ordered(heap_type, arr, count)
    BY <1>0, <1>6, <1>r, SinkEnds DEF PopMinReturns, OrderOK, Sink
  <2> QED
    BY <1>6, <2>1 DEF PopMinReturns, Return, heapVars, OrderOK
<1>7. CASE InsertFull \/ PopMinEmpty \/ UNCHANGED vars
  BY <1>0, <1>7 DEF InsertFull, PopMinEmpty, Return, heapVars, vars, OrderOK
<1> QED
  BY <1>1, <1>2, <1>3, <1>4, <1>5, <1>6, <1>7 DEF Next, Sift

LEMMA InvariantStep == HeapInv /\ [Next]_vars => HeapInv'
BY TypeStep, OrderStep DEF HeapInv, SiftOrder

LEMMA HeapInvariant == Spec => []HeapInv
<1>1. Init => HeapInv
  <2> SUFFICES ASSUME Init PROVE HeapInv
    OBVIOUS
  <2>1. TypeOK
    <3>1. capacity \in Nat \ {0}
      BY CapacitiesArePositive DEF Init
    <3>2. arr \in [0 .. capacity-1 -> Int] /\ last_inserted \in Int
      BY KeysAreInts DEF Init
    <3> QED
      BY <3>1, <3>2 DEF Init, TypeOK
  <2> QED
    BY <2>1 DEF Init, HeapInv, HeapOrder, SiftOrder, FrameOK, UpOrder, DownOrder
<1> QED
  BY <1>1, InvariantStep, PTL DEF Spec

(* Between calls every node of the heap is in order with its parent.       *)
THEOREM HeapOrderHolds == Spec => []HeapOrder
BY HeapInvariant, PTL DEF HeapInv

(* While a call sifts, only the path that is left to sift can be out of    *)
(* order, and the cell it writes is below the capacity.                    *)
THEOREM SiftOrderHolds == Spec => []SiftOrder
BY HeapInvariant, PTL DEF HeapInv

(* A pop takes a key that no other key of the heap must precede.           *)
THEOREM PopTakesTheExtremum == Spec => PopTakesExtremum
<1>1. HeapInv /\ [Next]_vars =>
        [pc = "idle" /\ pc' = "down" =>
           \A i \in 0 .. count-1 : ~ OutOfOrder(heap_type, val', arr[i])]_vars
  <2> SUFFICES ASSUME HeapInv, Next, pc = "idle", pc' = "down", NEW i \in 0 .. count-1
               PROVE  ~ OutOfOrder(heap_type, val', arr[i])
    BY DEF vars
  <2>1. val' = arr[0]
    BY DEF Next, Sift, Insert, InsertFull, Return, PopMin, PopMinEmpty, HeapifyBottomTop,
           InsertReturns, HeapifyTopBottom, PopMinReturns
  <2>2. /\ capacity-1 \in Nat /\ arr \in [0 .. capacity-1 -> Int] /\ heap_type \in Int
        /\ count \in 0 .. (capacity-1)+1
    BY CapacitiesArePositive, HeapTypesAreInts DEF HeapInv, TypeOK
  <2>3. \A j \in 1 .. count-1 : ~ OutOfOrder(heap_type, arr[Parent(j)], arr[j])
    BY DEF HeapInv, HeapOrder, InOrder
  <2>4. \A j \in 0 .. count-1 : ~ OutOfOrder(heap_type, arr[0], arr[j])
    BY <2>2, <2>3, RootIsExtremum
  <2> QED
    BY <2>1, <2>4
<1> QED
  BY <1>1, HeapInvariant, PTL DEF Spec, PopTakesExtremum

(* The recursion of both heapify functions is bounded by the depth of the  *)
(* heap.                                                                   *)
THEOREM SiftsProgress == Spec => SiftProgress
<1>1. HeapInv /\ [Next]_vars =>
        [/\ (pc = "up" /\ pc' = "up" => idx' < idx)
         /\ (pc = "down" /\ pc' = "down" => idx < idx' /\ idx' < count)]_vars
  <2> SUFFICES ASSUME HeapInv, Next
               PROVE  /\ (pc = "up" /\ pc' = "up" => idx' < idx)
                      /\ (pc = "down" /\ pc' = "down" => idx < idx' /\ idx' < count)
    BY DEF vars
  <2>1. /\ capacity-1 \in Nat /\ arr \in [0 .. capacity-1 -> Int] /\ heap_type \in Int
        /\ idx \in 0 .. capacity-1 /\ count \in Nat
        /\ pc = "down" => count \in 0 .. capacity-1 /\ idx \in 0 .. count
    BY CapacitiesArePositive, HeapTypesAreInts DEF HeapInv, TypeOK, SiftOrder, FrameOK
  <2>2. ASSUME pc = "up", pc' = "up" PROVE idx' < idx
    <3>1. HeapifyBottomTop
      BY <2>2 DEF Next, Sift, Insert, InsertFull, Return, PopMin, PopMinEmpty,
                  InsertReturns, HeapifyTopBottom, PopMinReturns
    <3>2. idx # 0
      BY <2>1, <3>1 DEF HeapifyBottomTop, OutOfOrder, Parent
    <3>3. Parent(idx) \in 0 .. idx-1
      BY <2>1, <3>2, ParentOfNode
    <3> QED
      BY <2>1, <3>1, <3>3 DEF HeapifyBottomTop
  <2>3. ASSUME pc = "down", pc' = "down" PROVE idx < idx' /\ idx' < count
    <3>1. HeapifyTopBottom
      BY <2>3 DEF Next, Sift, Insert, InsertFull, Return, PopMin, PopMinEmpty, HeapifyBottomTop,
                  InsertReturns, PopMinReturns, heapVars
    <3>2. Sink \in {2*idx + 1, 2*idx + 2} /\ Sink < count
      BY <2>1, <2>3, <3>1, TopOfThreeIsTop DEF HeapifyTopBottom, Sink
    <3> QED
      BY <2>1, <3>1, <3>2 DEF HeapifyTopBottom
  <2> QED
    BY <2>2, <2>3
<1> QED
  BY <1>1, HeapInvariant, PTL DEF Spec, SiftProgress
-----------------------------------------------------------------------------
(* What the refinement needs beside the order of the nodes: every cell     *)
(* that counts holds a key, the cell that rises is the one inserted, and   *)
(* the key that a pop holds precedes what is left.                         *)
HeldOK ==
  /\ \A i \in Cells : arr[i] \in Keys
  /\ pc = "up" => arr[idx] = val
  /\ pc = "down" => /\ val \in Keys
                    /\ \A i \in 0 .. count-1 : ~ OutOfOrder(heap_type, val, arr[i])

(* While a pop sifts, both nodes of a swap are in the heap.                *)
LEMMA SinkInHeap ==
  ASSUME FrameOK, capacity \in Nat, capacity-1 \in Nat, arr \in [0 .. capacity-1 -> Int], heap_type \in Int,
         count \in 0 .. capacity, idx \in 0 .. capacity-1, pc = "down", Sink # idx
  PROVE  Sink \in 0 .. count-1 /\ idx \in 0 .. count-1 /\ count \in 0 .. capacity-1
<1>1. idx \in 0 .. count /\ count \in 0 .. capacity-1
  BY DEF FrameOK
<1>2. Sink \in {2*idx + 1, 2*idx + 2} /\ Sink < count
  BY <1>1, TopOfThreeIsTop DEF Sink
<1> QED
  BY <1>1, <1>2

LEMMA HeldStep ==
  ASSUME HeapInv, HeldOK, [Next]_vars
  PROVE  HeldOK'
<1>0. /\ FrameOK /\ capacity \in Nat /\ capacity-1 \in Nat
      /\ arr \in [0 .. capacity-1 -> Int] /\ heap_type \in Int
      /\ count \in 0 .. capacity /\ idx \in 0 .. capacity-1
  BY CapacitiesArePositive, HeapTypesAreInts DEF HeapInv, SiftOrder, TypeOK
<1>1. ASSUME NEW key \in Keys, Insert(key)
      PROVE  HeldOK'
  <2>1. /\ pc = "idle" /\ pc' = "up" /\ idx' = count /\ count' = count /\ val' = key
        /\ count < capacity /\ arr' = [arr EXCEPT ![count] = key]
    BY <1>1 DEF Insert
  <2>2. \A i \in 0 .. count-1 : arr[i] \in Keys
    BY <2>1 DEF HeldOK, Cells
  <2>3. arr'[count] = key /\ \A i \in 0 .. count-1 : arr'[i] \in Keys
    BY <1>0, <2>1, <2>2
  <2>4. \A i \in 0 .. count : arr'[i] \in Keys
    BY <1>0, <1>1, <2>3
  <2> QED
    BY <2>1, <2>3, <2>4 DEF HeldOK, Cells
<1>2. CASE HeapifyBottomTop
  <2>1. /\ pc = "up" /\ pc' = "up" /\ count' = count /\ val' = val /\ idx' = Parent(idx)
        /\ arr' = Swapped(arr, Parent(idx), idx)
    BY <1>2 DEF HeapifyBottomTop
  <2>2. /\ Parent(idx) \in 0 .. count /\ idx \in 0 .. count /\ count \in 0 .. capacity-1
    <3>1. idx \in 0 .. count /\ count \in 0 .. capacity-1
      BY <1>0, <2>1 DEF FrameOK
    <3>2. Parent(idx) \in 0 .. idx
      BY <3>1, ParentOfNode DEF Parent
    <3> QED
      BY <3>1, <3>2
  <2>3. \A i \in 0 .. count :
          arr'[i] = IF i = idx THEN arr[Parent(idx)]
                    ELSE IF i = Parent(idx) THEN arr[idx] ELSE arr[i]
    BY <1>0, <2>1, <2>2 DEF Swapped
  <2>4. arr[idx] = val /\ \A i \in 0 .. count : arr[i] \in Keys
    BY <2>1 DEF HeldOK, Cells
  <2>5. arr'[Parent(idx)] = val /\ \A i \in 0 .. count : arr'[i] \in Keys
    BY <2>2, <2>3, <2>4
  <2> QED
    BY <2>1, <2>5 DEF HeldOK, Cells
<1>3. CASE InsertReturns
  <2>1. pc = "up" /\ pc' = "idle" /\ count' = count + 1 /\ arr' = arr
    BY <1>3 DEF InsertReturns, Return
  <2> QED
    BY <1>0, <2>1 DEF HeldOK, Cells
<1>4. CASE PopMin
  <2>1. /\ pc = "idle" /\ pc' = "down" /\ count' = count - 1 /\ val' = arr[0]
        /\ arr' = [arr EXCEPT ![0] = arr[count - 1]] /\ heap_type' = heap_type
        /\ count \in 1 .. capacity
    BY <1>0, <1>4 DEF PopMin
  <2>2. \A i \in 0 .. count-1 : ~ OutOfOrder(heap_type, arr[0], arr[i])
    <3>1. \A i \in 1 .. count-1 : ~ OutOfOrder(heap_type, arr[Parent(i)], arr[i])
      BY <2>1 DEF HeapInv, HeapOrder, InOrder
    <3>2. count \in 0 .. (capacity-1)+1
      BY <1>0
    <3> QED
      BY <1>0, <3>1, <3>2, RootIsExtremum
  <2>3. \A i \in 0 .. count-1 : arr[i] \in Keys
    BY <2>1 DEF HeldOK, Cells
  <2>4. \A i \in 0 .. count-2 : arr'[i] = IF i = 0 THEN arr[count - 1] ELSE arr[i]
    BY <1>0, <2>1
  <2>5. \A i \in 0 .. count-2 : arr'[i] \in Keys /\ ~ OutOfOrder(heap_type, arr[0], arr'[i])
    BY <1>0, <2>1, <2>2, <2>3, <2>4
  <2>6. arr[0] \in Keys
    BY <2>1, <2>3
  <2> QED
    BY <1>0, <2>1, <2>5, <2>6 DEF HeldOK, Cells
<1>5. CASE HeapifyTopBottom
  <2>1. /\ pc = "down" /\ pc' = "down" /\ count' = count /\ val' = val
        /\ heap_type' = heap_type /\ Sink # idx /\ arr' = Swapped(arr, Sink, idx)
    BY <1>5 DEF HeapifyTopBottom
  <2>2. Sink \in 0 .. count-1 /\ idx \in 0 .. count-1 /\ count \in 0 .. capacity-1
    BY <1>0, <2>1, SinkInHeap
  <2>3. \A i \in 0 .. count-1 :
          arr'[i] = IF i = idx THEN arr[Sink] ELSE IF i = Sink THEN arr[idx] ELSE arr[i]
    BY <1>0, <2>1, <2>2 DEF Swapped
  <2>4. \A i \in 0 .. count-1 : arr[i] \in Keys /\ ~ OutOfOrder(heap_type, val, arr[i])
    BY <2>1 DEF HeldOK, Cells
  <2>5. \A i \in 0 .. count-1 : arr'[i] \in Keys /\ ~ OutOfOrder(heap_type, val, arr'[i])
    BY <2>2, <2>3, <2>4
  <2> QED
    BY <2>1, <2>5 DEF HeldOK, Cells
<1>6. CASE PopMinReturns
  BY <1>6 DEF PopMinReturns, Return, heapVars, HeldOK, Cells
<1>7. CASE InsertFull \/ PopMinEmpty \/ UNCHANGED vars
  BY <1>7 DEF InsertFull, PopMinEmpty, Return, heapVars, vars, HeldOK, Cells
<1> QED
  BY <1>1, <1>2, <1>3, <1>4, <1>5, <1>6, <1>7 DEF Next, Sift

LEMMA HeldInvariant == Spec => [](HeapInv /\ HeldOK)
<1>1. Init => HeldOK
  BY DEF Init, HeldOK, Cells
<1>2. HeapInv /\ HeldOK /\ [Next]_vars => HeldOK'
  BY HeldStep
<1> QED
  BY <1>1, <1>2, HeapInvariant, PTL DEF Spec

(* The abstract bag in terms of Count: between calls, while a key rises,   *)
(* and while a popped key is held.                                         *)
BagShape ==
  /\ AbstractBag = [k \in Keys |-> AbstractBag[k]]
  /\ \A k \in Keys :
       /\ pc \notin {"up", "down"} => AbstractBag[k] = Count(arr, count, k)
       /\ pc = "up" => AbstractBag[k] = IF k = val THEN Count(arr, count + 1, k) - 1
                                       ELSE Count(arr, count + 1, k)
       /\ pc = "down" => AbstractBag[k] = IF k = val THEN Count(arr, count, k) + 1
                                         ELSE Count(arr, count, k)

LEMMA BagIs == count \in Int => BagShape
<1> SUFFICES ASSUME count \in Int, NEW k \in Keys
             PROVE  /\ pc \notin {"up", "down"} => AbstractBag[k] = Count(arr, count, k)
                    /\ pc = "up" => AbstractBag[k] = IF k = val THEN Count(arr, count + 1, k) - 1
                                                    ELSE Count(arr, count + 1, k)
                    /\ pc = "down" => AbstractBag[k] = IF k = val THEN Count(arr, count, k) + 1
                                                      ELSE Count(arr, count, k)
  BY DEF AbstractBag, BagShape
<1>1. Cells = 0 .. (IF pc = "up" THEN count + 1 ELSE count) - 1
  BY DEF Cells
<1>2. Copies(k) = Count(arr, IF pc = "up" THEN count + 1 ELSE count, k)
  BY <1>1 DEF Copies, Count, Holding
<1> QED
  BY <1>2 DEF AbstractBag

(* A step inside a call leaves the bag alone: the new key is not in it     *)
(* yet, a swap keeps every count, and the popped key is still in it.       *)
LEMMA CallsKeepBag ==
  ASSUME HeapInv, HeldOK, HeapInv',
         (\E key \in Keys : Insert(key)) \/ HeapifyBottomTop \/ PopMin \/ HeapifyTopBottom
  PROVE  AbstractBag' = AbstractBag
<1>0. /\ FrameOK /\ capacity \in Nat /\ capacity-1 \in Nat
      /\ arr \in [0 .. capacity-1 -> Int] /\ heap_type \in Int
      /\ count \in 0 .. capacity /\ idx \in 0 .. capacity-1
      /\ count' \in Int
  BY CapacitiesArePositive, HeapTypesAreInts DEF HeapInv, SiftOrder, TypeOK
<1>b. BagShape
  BY <1>0, BagIs
<1>c. BagShape'
  <2>1. (count \in Int => BagShape)'
    BY BagIs, PTL
  <2> QED
    BY <1>0, <2>1
<1>d. \A m \in Nat : \A a, k : Count(a, m, k) \in Nat
  BY CountIsNatural
<1> SUFFICES ASSUME NEW k \in Keys
             PROVE  AbstractBag'[k] = AbstractBag[k]
  BY <1>b, <1>c DEF BagShape
<1>1. ASSUME NEW key \in Keys, Insert(key)
      PROVE  AbstractBag'[k] = AbstractBag[k]
  <2>1. /\ pc = "idle" /\ pc' = "up" /\ count' = count /\ val' = key /\ count < capacity
        /\ arr' = [arr EXCEPT ![count] = key]
    BY <1>1 DEF Insert
  <2>2. count \in Nat /\ arr'[count] = key /\ \A i \in 0 .. count-1 : arr'[i] = arr[i]
    BY <1>0, <2>1
  <2>3. Count(arr', count + 1, k) = Count(arr, count, k) + (IF key = k THEN 1 ELSE 0)
    BY <2>2, CountOneMore
  <2> QED
    BY <1>b, <1>c, <1>d, <2>1, <2>2, <2>3 DEF BagShape
<1>2. CASE HeapifyBottomTop
  <2>1. /\ pc = "up" /\ pc' = "up" /\ count' = count /\ val' = val
        /\ arr' = Swapped(arr, Parent(idx), idx)
    BY <1>2 DEF HeapifyBottomTop
  <2>2. idx \in 0 .. count /\ count \in 0 .. capacity-1
    BY <1>0, <2>1 DEF FrameOK
  <2>3. Parent(idx) \in 0 .. idx
    BY <2>2, ParentOfNode DEF Parent
  <2>4. /\ idx \in 0 .. (count + 1) - 1 /\ Parent(idx) \in 0 .. (count + 1) - 1
        /\ count + 1 \in 0 .. (capacity-1) + 1
    BY <1>0, <2>2, <2>3
  <2>5. Count(arr', count + 1, k) = Count(arr, count + 1, k)
    BY <1>0, <2>1, <2>4, SwapKeepsCount
  <2> QED
    BY <1>b, <1>c, <2>1, <2>5 DEF BagShape
<1>3. CASE PopMin
  <2>1. /\ pc = "idle" /\ pc' = "down" /\ count' = count - 1 /\ val' = arr[0]
        /\ arr' = [arr EXCEPT ![0] = arr[count - 1]]
        /\ count \in 1 .. (capacity-1) + 1
    BY <1>0, <1>3 DEF PopMin
  <2>2. Count(arr, count, k) = Count(arr', count - 1, k) + (IF arr[0] = k THEN 1 ELSE 0)
    BY <1>0, <2>1, PopTakesOneCopy
  <2>3. count - 1 \in Nat /\ count \in Nat
    BY <2>1
  <2> QED
    BY <1>b, <1>c, <1>d, <2>1, <2>2, <2>3 DEF BagShape
<1>4. CASE HeapifyTopBottom
  <2>1. /\ pc = "down" /\ pc' = "down" /\ count' = count /\ val' = val
        /\ Sink # idx /\ arr' = Swapped(arr, Sink, idx)
    BY <1>4 DEF HeapifyTopBottom
  <2>2. Sink \in 0 .. count-1 /\ idx \in 0 .. count-1 /\ count \in 0 .. capacity-1
    BY <1>0, <2>1, SinkInHeap
  <2>3. Count(arr', count, k) = Count(arr, count, k)
    <3>1. count \in 0 .. (capacity-1) + 1
      BY <1>0
    <3> QED
      BY <1>0, <2>1, <2>2, <3>1, SwapKeepsCount
  <2> QED
    BY <1>b, <1>c, <2>1, <2>3 DEF BagShape
<1> QED
  BY <1>1, <1>2, <1>3, <1>4

(* An insert that returns has added its key to the bag, and a pop that     *)
(* returns has taken one that nothing in the bag precedes.                 *)
LEMMA ReturnsTakeEffect ==
  ASSUME HeapInv, HeldOK, HeapInv', InsertReturns \/ PopMinReturns
  PROVE  \E k \in Keys : PQ!InsertKey(k) \/ PQ!PopKey(k)
<1>0. /\ FrameOK /\ capacity \in Nat /\ capacity-1 \in Nat
      /\ arr \in [0 .. capacity-1 -> Int] /\ heap_type \in Int
      /\ count \in 0 .. capacity /\ count \in Nat /\ idx \in 0 .. capacity-1
      /\ count' \in Int
  BY CapacitiesArePositive, HeapTypesAreInts DEF HeapInv, SiftOrder, TypeOK
<1>b. BagShape
  BY <1>0, BagIs
<1>c. BagShape'
  <2>1. (count \in Int => BagShape)'
    BY BagIs, PTL
  <2> QED
    BY <1>0, <2>1
<1>d. \A m \in Nat : \A a, k : /\ Count(a, m, k) \in Nat
                               /\ Count(a, m, k) > 0 <=> \E i \in 0 .. m-1 : a[i] = k
  BY CountIsNatural
<1>1. CASE InsertReturns
  <2>1. /\ pc = "up" /\ pc' = "idle" /\ count' = count + 1 /\ last_inserted' = val
        /\ ret' = [call |-> "insert", val |-> 0]
        /\ arr' = arr /\ capacity' = capacity /\ heap_type' = heap_type
    BY <1>1 DEF InsertReturns, Return
  <2>2. val \in Keys /\ count < capacity
    <3>1. idx \in 0 .. count /\ count < capacity
      BY <1>0, <2>1 DEF FrameOK
    <3> QED
      BY <2>1, <3>1 DEF HeldOK, Cells
  <2>3. AbstractBag' = [AbstractBag EXCEPT ![val] = @ + 1]
    <3>1. \A k \in Keys : AbstractBag'[k] = IF k = val THEN AbstractBag[k] + 1 ELSE AbstractBag[k]
      <4> SUFFICES ASSUME NEW k \in Keys
                   PROVE  AbstractBag'[k] = IF k = val THEN AbstractBag[k] + 1 ELSE AbstractBag[k]
        OBVIOUS
      <4>1. AbstractBag'[k] = Count(arr, count + 1, k)
        BY <1>c, <2>1 DEF BagShape
      <4>2. AbstractBag[k] = IF k = val THEN Count(arr, count + 1, k) - 1 ELSE Count(arr, count + 1, k)
        BY <1>b, <2>1 DEF BagShape
      <4>3. Count(arr, count + 1, k) \in Nat
        BY <1>0, <1>d
      <4> QED
        BY <4>1, <4>2, <4>3
    <3> QED
      BY <1>b, <1>c, <3>1 DEF BagShape
  <2>4. PQ!InsertKey(val)
    BY <2>1, <2>2, <2>3 DEF PQ!InsertKey
  <2> QED
    BY <2>2, <2>4
<1>2. CASE PopMinReturns
  <2>1. /\ pc = "down" /\ pc' = "idle" /\ count' = count /\ last_inserted' = last_inserted
        /\ ret' = [call |-> "pop", val |-> val]
        /\ arr' = arr /\ capacity' = capacity /\ heap_type' = heap_type
    BY <1>2 DEF PopMinReturns, Return, heapVars
  <2>2. /\ val \in Keys /\ val \in Int
        /\ \A i \in 0 .. count-1 : ~ OutOfOrder(heap_type, val, arr[i])
    BY <2>1, KeysAreInts DEF HeldOK
  <2>3. \A k \in Keys : /\ Count(arr, count, k) \in Nat
                        /\ AbstractBag[k] = IF k = val THEN Count(arr, count, k) + 1
                                            ELSE Count(arr, count, k)
                        /\ AbstractBag'[k] = Count(arr, count, k)
    BY <1>0, <1>b, <1>c, <1>d, <2>1 DEF BagShape
  <2>4. AbstractBag' = [AbstractBag EXCEPT ![val] = @ - 1]
    <3>1. \A k \in Keys : AbstractBag'[k] = IF k = val THEN AbstractBag[k] - 1 ELSE AbstractBag[k]
      BY <2>3
    <3> QED
      BY <1>b, <1>c, <3>1 DEF BagShape
  <2>5. AbstractBag[val] > 0
    BY <2>2, <2>3
  <2>6. ASSUME NEW j \in Keys, AbstractBag[j] > 0
        PROVE  ~ PQ!OutOfOrder(heap_type, val, j)
    <3>1. CASE j = val
      BY <2>2, <3>1 DEF PQ!OutOfOrder
    <3>2. CASE j # val
      <4>1. Count(arr, count, j) > 0
        BY <2>3, <2>6, <3>2
      <4>2. \E i \in 0 .. count-1 : arr[i] = j
        BY <1>0, <1>d, <4>1
      <4> QED
        BY <2>2, <4>2 DEF OutOfOrder, PQ!OutOfOrder
    <3> QED
      BY <3>1, <3>2
  <2>7. PQ!Extremal(val)
    BY <2>2, <2>5, <2>6 DEF PQ!Extremal, PQ!Held
  <2>8. PQ!PopKey(val)
    BY <1>0, <2>1, <2>4, <2>7 DEF PQ!PopKey
  <2> QED
    BY <2>2, <2>8
<1> QED
  BY <1>1, <1>2

(* Every step of the heap is a step of the priority queue or changes       *)
(* nothing that its callers can see.                                       *)
LEMMA RefinementStep ==
  ASSUME HeapInv, HeldOK, HeapInv', [Next]_vars
  PROVE  [PQ!PQNext]_(PQ!pqVars)
<1>0. count \in 0 .. capacity /\ capacity \in Nat
  BY CapacitiesArePositive DEF HeapInv, TypeOK
<1>1. CASE (\E key \in Keys : Insert(key)) \/ HeapifyBottomTop \/ PopMin \/ HeapifyTopBottom
  <2>1. AbstractBag' = AbstractBag
    BY <1>1, CallsKeepBag
  <2>2. /\ (IF pc' = "down" THEN count' + 1 ELSE count') = IF pc = "down" THEN count + 1 ELSE count
        /\ UNCHANGED <<capacity, heap_type, last_inserted, ret>>
    BY <1>0, <1>1 DEF Insert, HeapifyBottomTop, PopMin, HeapifyTopBottom
  <2> QED
    BY <2>1, <2>2 DEF PQ!pqVars
<1>2. CASE InsertReturns \/ PopMinReturns
  BY <1>2, ReturnsTakeEffect DEF PQ!PQNext
<1>3. ASSUME InsertFull \/ PopMinEmpty \/ UNCHANGED vars
      PROVE  /\ UNCHANGED <<AbstractBag, count, pc, capacity, heap_type, last_inserted>>
             /\ pc # "down" \/ UNCHANGED ret
  <2>1. UNCHANGED <<arr, count, capacity, heap_type, last_inserted, pc>> /\ (pc = "idle" \/ UNCHANGED <<val, ret>>)
    BY <1>3 DEF InsertFull, PopMinEmpty, Return, heapVars, vars
  <2> QED
    BY <2>1 DEF AbstractBag, Copies, Cells
<1>4. CASE InsertFull
  BY <1>0, <1>3, <1>4 DEF InsertFull, Return, PQ!PQNext, PQ!RefuseKey, EACCES, PQ!EACCES
<1>5. CASE PopMinEmpty
  BY <1>0, <1>3, <1>5 DEF PopMinEmpty, Return, PQ!PQNext, PQ!PopNothing
<1>6. CASE UNCHANGED vars
  BY <1>3, <1>6 DEF vars, PQ!pqVars
<1> QED
  BY <1>1, <1>2, <1>4, <1>5, <1>6 DEF Next, Sift

(* insert and PopMin implement the bounded bag: nothing is lost,           *)
(* duplicated or handed out in the wrong order, for every capacity, both   *)
(* types and whatever the array held before.                               *)
THEOREM HeapImplementsPQ == Spec => ImplementsPQ
<1>1. Init => PQ!PQInit
  <2> SUFFICES ASSUME Init PROVE PQ!PQInit
    OBVIOUS
  <2>1. \A k : Copies(k) = 0
    <3>1. Cells = {}
      BY DEF Init, Cells
    <3> QED
      BY <3>1, FS_EmptySet DEF Copies
  <2> QED
    BY <2>1 DEF Init, PQ!PQInit, AbstractBag
<1>2. (HeapInv /\ HeldOK) /\ (HeapInv /\ HeldOK)' /\ [Next]_vars => [PQ!PQNext]_(PQ!pqVars)
  BY RefinementStep
<1> QED
  BY <1>1, <1>2, HeldInvariant, PTL DEF Spec, ImplementsPQ, PQ!PQSpec
=============================================================================
