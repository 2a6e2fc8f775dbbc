-------------------------------- MODULE MCA2 --------------------------------
(* Instances of LkmA2: which calls the processes make and what they        *)
(* insert.                                                                 *)
EXTENDS LkmA2

IoctlOps == {"rmmod", "open", "release", "write2", "write4", "write5",
             "PB2_SET_TYPE", "PB2_INSERT", "PB2_GET_INFO", "PB2_EXTRACT"}

TakeTurns   == {}

(* Process 1 asks for a max-heap by ioctl and also writes an unknown type; *)
(* process 2 asks for a max-heap by write.  The key that process 1 inserts *)
(* is the NULL that an empty heap gives.                                   *)
NullKey    == [p \in Pids |-> IF p = 1 THEN {0} ELSE {}]
MaxByIoctl == [p \in Pids |-> IF p = 1 THEN {<<1, 2>>} ELSE {}]
TwoBytesOf == [p \in Pids |-> IF p = 1 THEN {<<5, 1>>} ELSE {<<MAX_HEAP, 1>>}]

(* The state without the struct of PB2_GET_INFO, except while a call fills *)
(* it in or copies it: a later call assigns each field before it reads it. *)
Live == <<nodes, heaps, heap_mutex, entry, num, topnode, files, pc, loc, ret,
          heap_type, heap_size, pb2_args,
          IF \E p \in Pids : pc[p] \in {"empty_info", "copy_info"} THEN heap ELSE << >> >>

MinusEACCES == - EACCES
=============================================================================
