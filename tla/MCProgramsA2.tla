---------------------------- MODULE MCProgramsA2 ----------------------------
(* One process uses the ioctl calls, the other write and read (a max-heap: *)
(* see README.md, `numbers at the edges').                                 *)
EXTENDS ProgramsA2

KeysOfBoth == [p \in Pids |-> {2 * p, 2 * p + 1}]
ShortKey(key) == Do("write2", key, 0, << >>)   \* a number of two bytes
Programs2 == [p \in Pids |->
  IF p = 1 THEN IoctlProgram(0, 1, <<2>>, <<2>>)
  ELSE [ReadWriteProgram(MAX_HEAP, 2, <<4, 5>>, <<5, 4>>) EXCEPT ![4] = ShortKey(5)]]
MinByIoctl == [p \in Pids |-> IF p = 1 THEN {<<0, 1>>} ELSE {}]
MaxByWrite == [p \in Pids |-> IF p = 1 THEN {} ELSE {<<MAX_HEAP, 2>>}]
AllOps == {"open", "write2", "write4", "read", "release",
           "PB2_SET_TYPE", "PB2_INSERT", "PB2_GET_INFO", "PB2_EXTRACT"}
UseOps == {"write4", "read", "PB2_INSERT", "PB2_GET_INFO", "PB2_EXTRACT"}
UsesAndCloses == {{a, b} : a \in UseOps, b \in UseOps} \cup {{"release", a} : a \in AllOps}
MinusEACCES == - EACCES
=============================================================================
