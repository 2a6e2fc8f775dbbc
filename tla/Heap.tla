-------------------------------- MODULE Heap --------------------------------
(***************************************************************************)
(* One heap of the kernel modules, from CreateHeap on, used by one caller  *)
(* at a time.  The two heapify functions are recursive in C; here a call   *)
(* is one step of the frame (pc, idx, val), so that every intermediate     *)
(* array is a state.  lkm_moduleA1.c and lkm_moduleA2.c have the same      *)
(* text, except that A2 returns early from heapify_bottom_top at index 0   *)
(* (where A1 compares the root with itself) and that the value of a pop of *)
(* an empty heap is -INF in A1 and NULL in A2: the constant EmptyPop.      *)
(***************************************************************************)
EXTENDS HeapOps, FiniteSets

CONSTANTS Keys,        \* the keys that callers insert
          Junk,        \* what kmalloc_array may leave in the array
          Capacities,  \* the capacities that the callers of CreateHeap let pass
          HeapTypes,   \* the heap types they pass on
          EmptyPop

ASSUME KeysAreInts == Keys \subseteq Int /\ Junk \subseteq Int
ASSUME CapacitiesArePositive == Capacities \subseteq Nat \ {0}
ASSUME HeapTypesAreInts == HeapTypes \subseteq Int
ASSUME EmptyPopIsInt == EmptyPop \in Int

VARIABLES arr, count, capacity, heap_type, last_inserted,  \* struct Heap
          pc,    \* "idle", or the heapify function that is running
          idx,   \* its index argument
          val,   \* insert's key, or PopMin's local pop
          ret    \* the last call that returned, and its value

heapVars == <<arr, count, capacity, heap_type, last_inserted>>
vars == <<arr, count, capacity, heap_type, last_inserted, pc, idx, val, ret>>

(* CreateHeap: neither module clears the array, and A1 leaves              *)
(* last_inserted as kmalloc returned it.                                   *)
Init ==
  /\ capacity \in Capacities
  /\ heap_type \in HeapTypes
  /\ arr \in [0 .. capacity-1 -> Junk]
  /\ count = 0
  /\ last_inserted \in Junk
  /\ pc = "idle" /\ idx = 0 /\ val = 0
  /\ ret = [call |-> "none", val |-> 0]

Return(call, v) ==
  /\ pc' = "idle" /\ idx' = 0 /\ val' = 0
  /\ ret' = [call |-> call, val |-> v]

(* insert stores the key behind the last element and sifts it up.          *)
Insert(key) ==
  /\ pc = "idle"
  /\ count < capacity
  /\ arr' = [arr EXCEPT ![count] = key]
  /\ pc' = "up" /\ idx' = count /\ val' = key
  /\ UNCHANGED <<count, capacity, heap_type, last_inserted, ret>>

InsertFull ==
  /\ pc = "idle"
  /\ ~ (count < capacity)
  /\ Return("insert", - EACCES)
  /\ UNCHANGED heapVars

(* One call of heapify_bottom_top.                                         *)
HeapifyBottomTop ==
  /\ pc = "up"
  /\ OutOfOrder(heap_type, arr[Parent(idx)], arr[idx])
  /\ arr' = Swapped(arr, Parent(idx), idx)
  /\ idx' = Parent(idx)
  /\ UNCHANGED <<count, capacity, heap_type, last_inserted, pc, val, ret>>

(* A variant of what follows that counts the key twice.                    *)
CountsTwice ==
  /\ pc = "up"
  /\ ~ OutOfOrder(heap_type, arr[Parent(idx)], arr[idx])
  /\ count' = count + 2
  /\ last_inserted' = val
  /\ Return("insert", 0)
  /\ UNCHANGED <<arr, capacity, heap_type>>

(* Its last call returns, and insert completes: only now count grows.      *)
InsertReturns ==
  /\ pc = "up"
  /\ ~ OutOfOrder(heap_type, arr[Parent(idx)], arr[idx])
  /\ count' = count + 1
  /\ last_inserted' = val
  /\ Return("insert", 0)
  /\ UNCHANGED <<arr, capacity, heap_type>>

(* PopMin moves the last element to the root and sifts it down.            *)
PopMin ==
  /\ pc = "idle"
  /\ count # 0
  /\ val' = arr[0]
  /\ arr' = [arr EXCEPT ![0] = arr[count - 1]]
  /\ count' = count - 1
  /\ pc' = "down" /\ idx' = 0
  /\ UNCHANGED <<capacity, heap_type, last_inserted, ret>>

PopMinEmpty ==
  /\ pc = "idle"
  /\ count = 0
  /\ Return("pop", EmptyPop)
  /\ UNCHANGED heapVars

(* One call of heapify_top_bottom.                                         *)
Sink == TopOfThree(heap_type, arr, count, idx)

HeapifyTopBottom ==
  /\ pc = "down"
  /\ Sink # idx
  /\ arr' = Swapped(arr, Sink, idx)
  /\ idx' = Sink
  /\ UNCHANGED <<count, capacity, heap_type, last_inserted, pc, val, ret>>

PopMinReturns ==
  /\ pc = "down"
  /\ Sink = idx
  /\ Return("pop", val)
  /\ UNCHANGED heapVars

Sift == HeapifyBottomTop \/ InsertReturns \/ HeapifyTopBottom \/ PopMinReturns

Next == \/ \E key \in Keys : Insert(key)
        \/ InsertFull
        \/ PopMin
        \/ PopMinEmpty
        \/ Sift

Spec == Init /\ [][Next]_vars

(* The thread that called into the module keeps running its own code.      *)
FairSpec == Spec /\ WF_vars(Sift)
-----------------------------------------------------------------------------
TypeOK ==
  /\ capacity \in Capacities
  /\ heap_type \in HeapTypes
  /\ arr \in [0 .. capacity-1 -> Int]
  /\ count \in 0 .. capacity
  /\ last_inserted \in Int
  /\ pc \in {"idle", "up", "down"}
  /\ idx \in 0 .. capacity-1
  /\ val \in Int
  /\ ret \in [call : {"none", "insert", "pop"}, val : Int]

(* Node i of the first n is where heap_type wants it below its parent.     *)
InOrder(i) == ~ OutOfOrder(heap_type, arr[Parent(i)], arr[i])

(* Whenever no call is inside the heap, every node is in order with its    *)
(* parent: what `insert' and `PopMin' re-establish by their heapify calls. *)
HeapOrder == pc = "idle" => \A i \in 1 .. count-1 : InOrder(i)

(* While a sift is running there is a cell for the key that is sifted: an  *)
(* insert does not complete beyond the capacity, and heapify_top_bottom    *)
(* stays inside what PopMin left.                                          *)
FrameOK ==
  /\ pc = "up" => count < capacity /\ idx <= count
  /\ pc = "down" => count < capacity /\ (idx = 0 \/ idx < count)

(* While a sift is running, only the node that moves (up), or its children *)
(* (down), can be out of order, and its children are in order with its     *)
(* parent: what makes one swap per level enough.                           *)
UpOrder ==
  pc = "up" =>
    \A i \in 1 .. count :
      /\ i # idx => InOrder(i)
      /\ Parent(i) = idx /\ idx # 0 => ~ OutOfOrder(heap_type, arr[Parent(idx)], arr[i])

DownOrder ==
  pc = "down" =>
    \A i \in 1 .. count-1 :
      /\ Parent(i) # idx => InOrder(i)
      /\ Parent(i) = idx /\ idx # 0 => ~ OutOfOrder(heap_type, arr[Parent(idx)], arr[i])

SiftOrder == FrameOK /\ UpOrder /\ DownOrder

HeapInv == TypeOK /\ HeapOrder /\ SiftOrder

(* PopMin takes the extremum of everything the heap holds, not merely of   *)
(* the root's neighbourhood: `extract the top element of the heap'.        *)
PopTakesExtremum ==
  [][pc = "idle" /\ pc' = "down" =>
       \A i \in 0 .. count-1 : ~ OutOfOrder(heap_type, val', arr[i])]_vars

(* The recursion of the heapify functions never comes back to a level it   *)
(* has left: up strictly ascends, down strictly descends and stays inside  *)
(* the heap, so the kernel stack they take is bounded by the heap's depth. *)
SiftProgress ==
  [][/\ (pc = "up" /\ pc' = "up" => idx' < idx)
     /\ (pc = "down" /\ pc' = "down" => idx < idx' /\ idx' < count)]_vars

(* Every call returns.                                                     *)
CallsReturn == pc # "idle" ~> pc = "idle"
-----------------------------------------------------------------------------
(* The promise: seen from outside, a call happens when it returns.  During *)
(* an insert the array has one cell more, the new key's, and during a pop  *)
(* the popped key is still held.                                           *)
Cells == 0 .. (IF pc = "up" THEN count ELSE count - 1)

Copies(k) == Cardinality({i \in Cells : arr[i] = k})

AbstractBag ==
  [k \in Keys |-> CASE pc = "up" /\ k = val   -> Copies(k) - 1
                    [] pc = "down" /\ k = val -> Copies(k) + 1
                    [] OTHER                  -> Copies(k)]

PQ == INSTANCE PriorityQueue WITH
        bag <- AbstractBag,
        size <- IF pc = "down" THEN count + 1 ELSE count

(* insert and PopMin implement the priority queue: nothing is lost,        *)
(* duplicated or handed out in the wrong order by the swaps.               *)
ImplementsPQ == PQ!PQSpec
=============================================================================
