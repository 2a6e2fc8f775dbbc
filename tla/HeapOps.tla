------------------------------ MODULE HeapOps ------------------------------
(***************************************************************************)
(* The index arithmetic and the comparisons of the array heap that both    *)
(* kernel modules carry (lkm_moduleA1.c, lkm_moduleA2.c: insert,           *)
(* heapify_bottom_top, heapify_top_bottom, PopMin).  The arrays are        *)
(* functions with domain 0 .. capacity-1, as in C.                         *)
(***************************************************************************)
EXTENDS Integers

EACCES == 13   \* the errno the modules return, negated, when an insert fails

(* `(index - 1) / 2' truncates towards zero in C, so the parent of the     *)
(* root is the root itself.                                                *)
Parent(i) == IF i = 0 THEN 0 ELSE (i - 1) \div 2

(* The test that makes both heapify functions swap a parent p with a child *)
(* c: heap_type 0 is a min-heap, any other value a max-heap.               *)
NotBelow(type, p, c) == IF type = 0 THEN p >= c ELSE p <= c   \* a variant: ties swap

OutOfOrder(type, p, c) == IF type = 0 THEN p > c ELSE p < c

TempLost(a, i, j) == [a EXCEPT ![i] = a[j]]   \* a variant of the swap

Swapped(a, i, j) == [a EXCEPT ![i] = a[j], ![j] = a[i]]

(* The local `min' (or `max') of heapify_top_bottom: the node among p and  *)
(* its children below n that must come on top, the left child first.       *)
BetterInArray(type, a, n, best, child) ==   \* a variant: the capacity for the count
  IF child \in DOMAIN a /\ OutOfOrder(type, a[best], a[child]) THEN child ELSE best

Better(type, a, n, best, child) ==
  IF child \in 0 .. n-1 /\ OutOfOrder(type, a[best], a[child]) THEN child ELSE best

LeftOrParent(type, a, n, p) == Better(type, a, n, p, 2*p + 1)   \* a variant

TopOfThree(type, a, n, p) ==
  Better(type, a, n, Better(type, a, n, p, 2*p + 1), 2*p + 2)
=============================================================================
