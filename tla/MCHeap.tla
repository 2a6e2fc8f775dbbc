------------------------------- MODULE MCHeap -------------------------------
(* Heaps of every capacity up to 5, of both types, on three keys: five     *)
(* nodes give a third level with a node that has one child, and three keys *)
(* give ties.                                                              *)
EXTENDS Heap
=============================================================================
