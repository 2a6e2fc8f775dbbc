------------------------------ MODULE Programs ------------------------------
(***************************************************************************)
(* The programs that use the device, A1/userspace.c and A2/userspace.c (and *)
(* the test drivers test_ass1.c and test_ass2.c, which make the same calls): *)
(* each opens the device, sets up a heap, inserts its keys, takes them out *)
(* again and compares what it gets with its own sorted copy; a call that   *)
(* fails makes it close the device and end.  Every process runs one.       *)
(***************************************************************************)
EXTENDS LkmDevice, Sequences

CONSTANT Program   \* the calls of each process in their order, see Do

VARIABLES at,      \* the call its program is at
          printed, \* the errors it has printed
          crowd    \* which calls have overlapped so far: none ("turns"), only
                   \* a close with another call ("closes"), or others ("free")

programVars == <<at, printed, crowd>>

(* A call, its arguments, and what the program expects of it, if anything. *)
Do(op, a, b, want) == [op |-> op, a |-> a, b |-> b, want |-> want]

(* Write and read as A1/userspace.c does.                                  *)
ReadWriteProgram(type, size, val, sorted) ==
  <<Do("open", 0, 0, << >>), Do("write2", type, size, << >>)>>
  \o [i \in DOMAIN val |-> Do("write4", val[i], 0, << >>)]
  \o [i \in DOMAIN val |-> Do("read", 0, 0, <<sorted[i]>>)]
  \o <<Do("release", 0, 0, << >>)>>

(* Use the ioctl calls as A2/userspace.c does: a new heap is empty.        *)
IoctlProgram(type, size, val, sorted) ==
  <<Do("open", 0, 0, << >>), Do("PB2_SET_TYPE", type, size, << >>),
    Do("PB2_GET_INFO", 0, 0, <<0, type, 0, 0>>)>>
  \o [i \in DOMAIN val |-> Do("PB2_INSERT", val[i], 0, << >>)]
  \o <<Do("PB2_GET_INFO", 0, 0, << >>)>>
  \o [i \in DOMAIN val |-> Do("PB2_EXTRACT", 0, 0, <<sorted[i]>>)]
  \o <<Do("release", 0, 0, << >>)>>

ProgramsInit ==
  /\ at = [p \in Pids |-> 1]
  /\ printed = [p \in Pids |-> {}]
  /\ crowd = "turns"

LastCall(p) == Len(Program[p])
Ended(p) == at[p] = LastCall(p) + 1
CallOf(p) == Program[p][at[p]]

(* p makes its next call, while these calls of others are on their way.    *)
Underway(p) == {loc[q].op : q \in {r \in Pids \ {p} : ~ Idle(r)}}

BeginCall(p) ==
  /\ ~ Ended(p)
  /\ crowd' = CASE Underway(p) = {} -> crowd
                [] crowd # "free" /\ (CallOf(p).op = "release" \/ Underway(p) = {"release"}) ->
                     "closes"
                [] OTHER -> "free"
  /\ UNCHANGED <<at, printed>>

(* The answer v to a call, with the data the program got by it.  An open   *)
(* that fails ends the program, another call makes it close the device     *)
(* first; nobody looks at the answer to a close or to PB2_GET_INFO.        *)
Matters(op) == op \notin {"release", "PB2_GET_INFO"}

After(p, v) ==
  IF v >= 0 \/ ~ Matters(CallOf(p).op) THEN at[p] + 1
  ELSE IF CallOf(p).op = "open" THEN LastCall(p) + 1 ELSE LastCall(p)

(* What it may print then; a PB2_GET_INFO that fails leaves the struct that *)
(* the program looks at as it happened to be.                              *)
Complaint(op) == IF op = "PB2_GET_INFO" THEN "Info Do Not Match" ELSE "Results Do Not Match"

MayPrint(p, v, got) ==
  LET c == CallOf(p)
  IN  CASE v < 0 /\ Matters(c.op) -> {{"failed"}}
        [] v < 0 /\ c.op = "PB2_GET_INFO" /\ c.want # << >> -> {{}, {Complaint(c.op)}}
        [] v >= 0 /\ c.want \notin {<< >>, got} -> {{Complaint(c.op)}}
        [] OTHER -> {{}}

GetAnswer(p, got) ==
  IF Idle(p)' /\ ~ Idle(p)
  THEN /\ at' = [at EXCEPT ![p] = After(p, ret'.val)]
       /\ \E out \in MayPrint(p, ret'.val, got) : printed' = [printed EXCEPT ![p] = @ \cup out]
       /\ UNCHANGED crowd
  ELSE UNCHANGED programVars
-----------------------------------------------------------------------------
(* Programs whose calls take turns get every answer they expect.           *)
ProgramsSucceed == crowd = "turns" => \A p \in Pids : printed[p] = {}

(* No program ever prints "ERROR! Results Do Not Match".                   *)
NeverMismatch == \A p \in Pids : "Results Do Not Match" \notin printed[p]

(* As long as only closes overlap with other calls, a program may be       *)
(* refused, but no program is ever given a wrong key.                      *)
ResultsMatch == crowd # "free" => NeverMismatch
=============================================================================
