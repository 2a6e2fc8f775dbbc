----------------------------- MODULE ProgramsA1 -----------------------------
(***************************************************************************)
(* Module A1 with the programs that use it.                                *)
(***************************************************************************)
EXTENDS LkmA1, Programs

pvars == <<vars, programVars>>

PInit == A1Init /\ ProgramsInit

NextCall(p) ==
  /\ BeginCall(p)
  /\ CASE CallOf(p).op = "open"    -> OpenCall(p)
       [] CallOf(p).op = "write2"  -> WriteInitCall(p, CallOf(p).a, CallOf(p).b)
       [] CallOf(p).op = "write4"  -> WriteKeyCall(p, CallOf(p).a)
       [] CallOf(p).op = "read"    -> ReadCall(p)
       [] CallOf(p).op = "release" -> ReleaseCall(p)
  /\ UNCHANGED setUp

(* read delivers its key by copy_to_user, which the answer stands for.     *)
Progress(p) == NextCall(p) \/ (Step(p) /\ GetAnswer(p, <<ret'.val>>))

AllEnded == (\A p \in Pids : Ended(p)) /\ UNCHANGED pvars

PNext ==
  \/ \E p \in Pids : Progress(p) \/ (Stuck(p) /\ UNCHANGED programVars)
  \/ AllEnded

(* The kernel schedules every process.                                     *)
PSpec == PInit /\ [][PNext]_pvars /\ \A p \in Pids : WF_pvars(Progress(p))
-----------------------------------------------------------------------------
(* Every program ends, whatever overlaps, as long as no process faults or  *)
(* spins: nobody waits for anybody.                                        *)
ProgramsEnd == <>((\A p \in Pids : Ended(p)) \/ ~ NoFault)
=============================================================================
