--------------------------- MODULE PriorityQueue ---------------------------
(***************************************************************************)
(* What one heap of the kernel modules promises its callers: a bounded bag *)
(* of keys.  An insert adds the key or is refused when the bag is full; a  *)
(* pop hands out and removes one key that no other key must precede, or    *)
(* reports an empty bag with the value EmptyPop.                           *)
(***************************************************************************)
EXTENDS HeapOps

CONSTANTS Keys,      \* the keys that callers insert
          EmptyPop   \* what a pop of an empty heap returns

VARIABLES bag,            \* how many copies of each key are held
          size,           \* how many keys are held
          capacity, heap_type,
          last_inserted,
          ret             \* the last call that returned, and its value

pqVars == <<bag, size, capacity, heap_type, last_inserted, ret>>

Held == {k \in Keys : bag[k] > 0}

Extremal(k) == k \in Held /\ \A j \in Held : ~ OutOfOrder(heap_type, k, j)

PQInit == /\ bag = [k \in Keys |-> 0]
          /\ size = 0

InsertKey(k) ==
  /\ size < capacity
  /\ bag' = [bag EXCEPT ![k] = @ + 1]
  /\ size' = size + 1
  /\ last_inserted' = k
  /\ ret' = [call |-> "insert", val |-> 0]
  /\ UNCHANGED <<capacity, heap_type>>

RefuseKey ==
  /\ size = capacity
  /\ ret' = [call |-> "insert", val |-> - EACCES]
  /\ UNCHANGED <<bag, size, capacity, heap_type, last_inserted>>

PopKey(k) ==
  /\ Extremal(k)
  /\ bag' = [bag EXCEPT ![k] = @ - 1]
  /\ size' = size - 1
  /\ ret' = [call |-> "pop", val |-> k]
  /\ UNCHANGED <<capacity, heap_type, last_inserted>>

PopNothing ==
  /\ size = 0
  /\ ret' = [call |-> "pop", val |-> EmptyPop]
  /\ UNCHANGED <<bag, size, capacity, heap_type, last_inserted>>

PQNext == \/ \E k \in Keys : InsertKey(k) \/ PopKey(k)
          \/ RefuseKey
          \/ PopNothing

PQSpec == PQInit /\ [][PQNext]_pqVars
=============================================================================
