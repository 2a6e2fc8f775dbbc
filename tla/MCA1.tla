-------------------------------- MODULE MCA1 --------------------------------
(* Instances of LkmA1: which calls the processes make, which calls of      *)
(* different processes overlap, and what they write.                       *)
EXTENDS LkmA1

DataOps  == {"write2", "write4", "read"}
TableOps == {"open", "read", "release"}
AllOps   == DataOps \cup TableOps
SerialOps == AllOps \cup {"write5", "rmmod"}

Pairs(A, B) == {{a, b} : a \in A, b \in B}

TakeTurns      == {}
ReleaseOverlap == Pairs({"release"}, AllOps)

(* As in A1/userspace.c, the processes write different keys; one of them   *)
(* is the -INF of an empty heap.                                           *)
OwnKeys    == [p \in Pids |-> IF p = 1 THEN {2, 3} ELSE {MinusINF}]
OneKey     == [p \in Pids |-> {1 + p}]

MinType == {MIN_HEAP}
=============================================================================
