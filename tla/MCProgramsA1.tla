---------------------------- MODULE MCProgramsA1 ----------------------------
(* One process runs test_ass1.c (a min-heap, then a max-heap), the others  *)
(* userspace.c, each with keys of its own.                                 *)
EXTENDS ProgramsA1

KeysOfBoth == [p \in Pids |-> {2 * p, 2 * p + 1}]
OneKey(p, type) == ReadWriteProgram(type, 1, <<2*p>>, <<2*p>>)
TwoKeys(p) == ReadWriteProgram(MIN_HEAP, 2, <<2*p + 1, 2*p>>, <<2*p, 2*p + 1>>)
Programs2 == [p \in Pids |->
  IF p = 1 THEN OneKey(p, MIN_HEAP) \o OneKey(p, MAX_HEAP) ELSE TwoKeys(p)]
ProgramPerKey == [p \in Pids |-> OneKey(p, MIN_HEAP)]
AllTypes == {MIN_HEAP, MAX_HEAP}
AllOps == {"open", "write2", "write4", "read", "release"}
AllOverlap == {{a, b} : a \in AllOps, b \in AllOps}
Uses == {"write4", "read"}
UsesOverlap == {{a, b} : a \in Uses, b \in Uses}
=============================================================================
