----------------------------- MODULE ProgramsA2 -----------------------------
(***************************************************************************)
(* Module A2 with the programs that use it, by ioctl or by read and write. *)
(***************************************************************************)
EXTENDS LkmA2, Programs

pvars == <<vars, programVars>>

PInit == A2Init /\ ProgramsInit

NextCall(p) ==
  /\ BeginCall(p)
  /\ CASE CallOf(p).op = "open"         -> OpenCall(p)
       [] CallOf(p).op = "write2"       -> WriteInitCall(p, CallOf(p).a, CallOf(p).b)
       [] CallOf(p).op = "write4"       -> WriteKeyCall(p, CallOf(p).a)
       [] CallOf(p).op = "read"         -> ReadCall(p)
       [] CallOf(p).op = "PB2_SET_TYPE" -> SetTypeCall(p, CallOf(p).a, CallOf(p).b)
       [] CallOf(p).op = "PB2_INSERT"   -> InsertCall(p, CallOf(p).a)
       [] CallOf(p).op = "PB2_GET_INFO" -> GetInfoCall(p)
       [] CallOf(p).op = "PB2_EXTRACT"  -> ExtractCall(p)
       [] CallOf(p).op = "release"      -> ReleaseCall(p)
  /\ UNCHANGED globals

(* read and PB2_EXTRACT deliver their key by copy_to_user, which the       *)
(* answer stands for; PB2_GET_INFO delivers the global struct.             *)
Got(p) ==
  IF loc[p].op = "PB2_GET_INFO"
  THEN <<heap.heap_size, heap.heap_type, heap.root, heap.last_inserted>>
  ELSE <<ret'.val>>

Progress(p) == NextCall(p) \/ (Step(p) /\ GetAnswer(p, Got(p)))

AllEnded == (\A p \in Pids : Ended(p)) /\ UNCHANGED pvars

PNext ==
  \/ \E p \in Pids : Progress(p) \/ (Stuck(p) /\ UNCHANGED programVars)
  \/ AllEnded

(* The kernel schedules every process.                                     *)
PSpec == PInit /\ [][PNext]_pvars /\ \A p \in Pids : WF_pvars(Progress(p))
-----------------------------------------------------------------------------
(* Every program ends, whatever overlaps, as long as no process faults or  *)
(* spins: nobody waits for anybody.                                        *)
ProgramsEnd == <>((\A p \in Pids : Ended(p)) \/ ~ NoFault)
=============================================================================
