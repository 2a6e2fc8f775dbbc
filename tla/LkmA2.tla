------------------------------- MODULE LkmA2 -------------------------------
(***************************************************************************)
(* The kernel module lkm_moduleA2.c: LkmDevice with the ioctl calls that   *)
(* set up a heap, insert, describe and extract, and with a dev_write of    *)
(* its own.  EmptyPop is the NULL of PopMin, 0; DestroyedNull is -EACCES.  *)
(***************************************************************************)
EXTENDS LkmDevice

CONSTANTS KeysOf,       \* the keys that each process inserts
          BytesOf,      \* the two bytes, <<type, size>>, of its set-ups by dev_write
          TypesOf,      \* the arguments, <<type, size>>, of its set-ups by ioctl
          MaxHeapSize   \* the largest size the module accepts (100)

ASSUME ArgumentsAreNumbers ==
  /\ KeysOf \in [Pids -> SUBSET Int]
  /\ BytesOf \in [Pids -> SUBSET (Int \X Int)] /\ TypesOf \in [Pids -> SUBSET (Int \X Int)]
  /\ MaxHeapSize \in Nat

VARIABLES heap_type, heap_size,  \* the globals dev_write copies its two bytes to
          pb2_args,              \* the global of PB2_SET_TYPE
          heap                   \* the global struct obj_info of PB2_GET_INFO

setUp == <<heap_type, heap_size, pb2_args>>
globals == <<heap_type, heap_size, pb2_args, heap>>
vars == <<nodes, heaps, heap_mutex, entry, num, topnode, files, pc, loc, ret,
          heap_type, heap_size, pb2_args, heap>>

MIN_HEAP == -1    \* (char) 0xFF
MAX_HEAP == -16   \* (char) 0xF0

(* The number that two bytes make when they are written to a heap.         *)
TwoBytes(type, size) == (type % 256) + 256 * (size % 256)

A2Init ==
  /\ Init
  /\ heap_type = 0 /\ heap_size = 0
  /\ pb2_args = [heap_size |-> 0, heap_type |-> 0]
  /\ heap = [heap_size |-> 0, heap_type |-> 0, root |-> 0, last_inserted |-> 0]

WriteKeyCall(p, key) == files[p] > 0 /\ Call(p, "write4", key, 0)
WriteInitCall(p, type, size) == files[p] > 0 /\ Call(p, "write2", type, size)
WriteOtherCall(p) == files[p] > 0 /\ Call(p, "write5", 0, 0)
SetTypeCall(p, type, size) == files[p] > 0 /\ Call(p, "PB2_SET_TYPE", type, size)
InsertCall(p, key) == files[p] > 0 /\ Call(p, "PB2_INSERT", key, 0)
GetInfoCall(p) == files[p] > 0 /\ Call(p, "PB2_GET_INFO", 0, 0)
ExtractCall(p) == files[p] > 0 /\ \E buf \in Buffers(p) : Call(p, "PB2_EXTRACT", buf, 0)

FoundFor(p, op) == Found(p) /\ loc[p].op = op
-----------------------------------------------------------------------------
(* dev_write: once there is a heap, one to four bytes are a number.  A     *)
(* "write2" is a write of two bytes, a "write4" one of four, three or one  *)
(* that make the key, a "write5" one of more than four.                    *)

WriteKey(p) ==
  /\ Found(p) /\ loc[p].op \in {"write2", "write4"}
  /\ OwnHeap(p) # Null
  /\ entry' = loc[p].cur
  /\ num' = IF loc[p].op = "write4" THEN loc[p].a ELSE TwoBytes(loc[p].a, loc[p].b)
  /\ Goto(p, "insert")
  /\ UNCHANGED <<nodes, heaps, heap_mutex, topnode, files, loc, ret, globals>>

WriteRefused(p) ==
  /\ Found(p)
  /\ entry' = loc[p].cur
  /\ \/ loc[p].op = "write5" /\ OwnHeap(p) # Null /\ Return(p, - EINVAL)
     \/ loc[p].op \in {"write4", "write5"} /\ OwnHeap(p) = Null /\ Return(p, - EACCES)
  /\ UNCHANGED <<nodes, heaps, heap_mutex, num, topnode, files, globals>>

WriteInit(p) ==
  /\ FoundFor(p, "write2")
  /\ OwnHeap(p) = Null
  /\ entry' = loc[p].cur
  /\ heap_type' = loc[p].a
  /\ heap_size' = loc[p].b
  /\ Goto(p, "init")
  /\ UNCHANGED <<nodes, heaps, heap_mutex, num, topnode, files, loc, ret, pb2_args, heap>>
-----------------------------------------------------------------------------
(* dev_ioctl, PB2_SET_TYPE: sets up a heap whether there is one or not.    *)

SetType(p) ==
  /\ FoundFor(p, "PB2_SET_TYPE")
  /\ entry' = loc[p].cur
  /\ Goto(p, "copy_args")
  /\ UNCHANGED <<nodes, heaps, heap_mutex, num, topnode, files, loc, ret, globals>>

(* copy_from_user(&pb2_args, arg); in the variant the fields are swapped.  *)
ArgsSwapped(p) ==
  /\ pc[p] = "copy_args"
  /\ pb2_args' = [heap_size |-> loc[p].a, heap_type |-> loc[p].b]
  /\ Goto(p, "init")
  /\ UNCHANGED <<nodes, heaps, heap_mutex, entry, num, topnode, files, loc, ret,
                 heap_type, heap_size, heap>>

CopyArgs(p) ==
  /\ pc[p] = "copy_args"
  /\ pb2_args' = [heap_size |-> loc[p].b, heap_type |-> loc[p].a]
  /\ Goto(p, "init")
  /\ UNCHANGED <<nodes, heaps, heap_mutex, entry, num, topnode, files, loc, ret,
                 heap_type, heap_size, heap>>

(* The copy fails: the fields behind the fault are zero, whatever the heap *)
(* of the caller is.                                                       *)
ArgsNotCopied(p) ==
  /\ pc[p] = "copy_args"
  /\ p \in BadBuffers
  /\ \E size \in {0, loc[p].b} : pb2_args' = [heap_size |-> size, heap_type |-> 0]
  /\ Return(p, - EINVAL)
  /\ UNCHANGED <<nodes, heaps, heap_mutex, entry, num, topnode, files,
                 heap_type, heap_size, heap>>

(* What a set-up finds in the globals, dev_write's or PB2_SET_TYPE's, and  *)
(* its checks of that.  CreateHeap stores the type as it is given.         *)
ByIoctl(p) == loc[p].op = "PB2_SET_TYPE"
TypeGiven(p) == IF ByIoctl(p) THEN pb2_args.heap_type ELSE heap_type
SizeGiven(p) == IF ByIoctl(p) THEN pb2_args.heap_size ELSE heap_size

GoodInit(p) ==
  /\ TypeGiven(p) \in IF ByIoctl(p) THEN {0, 1} ELSE {MIN_HEAP, MAX_HEAP}
  /\ SizeGiven(p) \in 1 .. MaxHeapSize

InitRefused(p) ==
  /\ pc[p] = "init"
  /\ ~ GoodInit(p)
  /\ Return(p, - EINVAL)
  /\ UNCHANGED <<nodes, heaps, heap_mutex, entry, num, topnode, files>>

InitAccepted(p) ==
  \/ GoodInit(p) /\ (InitCreates(p, SizeGiven(p), TypeGiven(p)) \/ InitDestroys(p))
  \/ InitCreatesAgain(p, SizeGiven(p), TypeGiven(p))
  \/ InitStores(p)
-----------------------------------------------------------------------------
(* dev_ioctl, the other calls: they need a heap.                           *)

Unset(p) ==
  /\ Found(p) /\ loc[p].op \in {"PB2_INSERT", "PB2_GET_INFO", "PB2_EXTRACT"}
  /\ OwnHeap(p) = Null
  /\ entry' = loc[p].cur
  /\ Return(p, - EACCES)
  /\ UNCHANGED <<nodes, heaps, heap_mutex, num, topnode, files, globals>>

InsertByIoctl(p) ==
  /\ FoundFor(p, "PB2_INSERT")
  /\ OwnHeap(p) # Null
  /\ entry' = loc[p].cur
  /\ Goto(p, "copy_num")
  /\ UNCHANGED <<nodes, heaps, heap_mutex, num, topnode, files, loc, ret, globals>>

CopyNum(p) ==
  /\ pc[p] = "copy_num"
  /\ num' = loc[p].a
  /\ Goto(p, "insert")
  /\ UNCHANGED <<nodes, heaps, heap_mutex, entry, topnode, files, loc, ret, globals>>

NumNotCopied(p) ==
  /\ pc[p] = "copy_num"
  /\ p \in BadBuffers
  /\ num' = 0
  /\ Return(p, - EINVAL)
  /\ UNCHANGED <<nodes, heaps, heap_mutex, entry, topnode, files, globals>>

(* top() of a heap that holds something; a variant takes the newest cell.  *)
LastCell(h) == h.arr[h.count - 1]
Top(h) == h.arr[0]

(* PB2_GET_INFO on a heap that holds something; on an empty one the printk *)
(* of top() comes before the last field.                                   *)
GetInfo(p) ==
  /\ FoundFor(p, "PB2_GET_INFO")
  /\ InBounds(OwnHeap(p))
  /\ entry' = loc[p].cur
  /\ LET h == heaps[OwnHeap(p)]
     IN  IF h.count # 0
         THEN /\ heap' = [heap_size |-> h.count, heap_type |-> pb2_args.heap_type,
                          root |-> Top(h), last_inserted |-> h.last_inserted]
              /\ Goto(p, "copy_info")
         ELSE /\ heap' = [heap EXCEPT !.heap_size = 0, !.heap_type = pb2_args.heap_type]
              /\ Goto(p, "empty_info")
  /\ UNCHANGED <<nodes, heaps, heap_mutex, num, topnode, files, loc, ret, setUp>>

(* A pointer that was loaded from the global entry after a call.           *)
HeapOfEntry == IF entry \in DOMAIN nodes THEN nodes[entry].global_heap ELSE Null

GetInfoEmpty(p) ==
  /\ pc[p] = "empty_info"
  /\ HeapOfEntry \in DOMAIN heaps
  /\ heap' = [heap EXCEPT !.root = 0, !.last_inserted = heaps[HeapOfEntry].last_inserted]
  /\ Goto(p, "copy_info")
  /\ UNCHANGED <<nodes, heaps, heap_mutex, entry, num, topnode, files, loc, ret, setUp>>

(* copy_to_user(arg, &heap): the caller gets what the global holds now.    *)
CopyInfo(p) ==
  /\ pc[p] = "copy_info"
  /\ Return(p, 0)
  /\ UNCHANGED <<nodes, heaps, heap_mutex, entry, num, topnode, files, globals>>

InfoNotCopied(p) ==
  /\ pc[p] = "copy_info"
  /\ p \in BadBuffers
  /\ Return(p, - EACCES)
  /\ UNCHANGED <<nodes, heaps, heap_mutex, entry, num, topnode, files, globals>>

Extract(p) ==
  /\ FoundFor(p, "PB2_EXTRACT")
  /\ PopMin(p, OwnHeap(p))
  /\ entry' = loc[p].cur
  /\ UNCHANGED <<nodes, heap_mutex, num, topnode, files, ret, globals>>

ExtractEmpty(p) ==
  /\ FoundFor(p, "PB2_EXTRACT")
  /\ OwnHeap(p) \in DOMAIN heaps
  /\ heaps[OwnHeap(p)].count = 0
  /\ entry' = loc[p].cur
  /\ loc' = [loc EXCEPT ![p].val = EmptyPop]
  /\ Goto(p, "extracted")
  /\ UNCHANGED <<nodes, heaps, heap_mutex, num, topnode, files, ret, globals>>

(* The second field of the result, loaded after PopMin.                    *)
ExtractSize(p) ==
  /\ pc[p] = "extracted" \/ (Popped(p) /\ loc[p].op = "PB2_EXTRACT")
  /\ HeapOfEntry \in DOMAIN heaps
  /\ loc' = [loc EXCEPT ![p].b = heaps[HeapOfEntry].count]
  /\ Goto(p, "copy_result")
  /\ UNCHANGED <<nodes, heaps, heap_mutex, entry, num, topnode, files, ret, globals>>

(* The key is gone from the heap even when the call is refused.            *)
ExtractReturns(p) ==
  /\ pc[p] = "copy_result"
  /\ Return(p, IF CopyFails(p) \/ loc[p].val = 0 THEN - EACCES ELSE loc[p].val)
  /\ UNCHANGED <<nodes, heaps, heap_mutex, entry, num, topnode, files, globals>>
-----------------------------------------------------------------------------
IoctlFault(p) ==
  \/ Found(p) /\ loc[p].op = "PB2_GET_INFO" /\ OwnHeap(p) # Null /\ ~ InBounds(OwnHeap(p))
  \/ /\ FoundFor(p, "PB2_EXTRACT")
     /\ OwnHeap(p) # Null /\ ~ InBounds(OwnHeap(p))
     /\ OwnHeap(p) \in DOMAIN heaps => heaps[OwnHeap(p)].count # 0
  \/ /\ pc[p] \in {"empty_info", "extracted"} \/ (Popped(p) /\ loc[p].op = "PB2_EXTRACT")
     /\ HeapOfEntry \notin DOMAIN heaps

Fault(p) ==
  \/ DeviceFault(p)
  \/ SetUpFault(p) /\ (pc[p] = "init" => GoodInit(p))
  \/ IoctlFault(p)

(* A process that faults or spins stays where it is, with what it holds.   *)
(* Next needs no such step: it would be a stuttering step.                 *)
Stuck(p) == (Fault(p) \/ Spins(p)) /\ UNCHANGED vars

NewCall(p) ==
  \/ DeviceCall(p)
  \/ \E key \in KeysOf[p] : WriteKeyCall(p, key) \/ InsertCall(p, key)
  \/ \E two \in BytesOf[p] : WriteInitCall(p, two[1], two[2])
  \/ \E two \in TypesOf[p] : SetTypeCall(p, two[1], two[2])
  \/ WriteOtherCall(p)
  \/ GetInfoCall(p)
  \/ ExtractCall(p)

Step(p) ==
  \/ (DeviceStep(p) \/ InitRefused(p) \/ InitAccepted(p)) /\ UNCHANGED globals
  \/ WriteKey(p) \/ WriteRefused(p) \/ WriteInit(p)
  \/ SetType(p) \/ CopyArgs(p) \/ ArgsNotCopied(p)
  \/ Unset(p) \/ InsertByIoctl(p) \/ CopyNum(p) \/ NumNotCopied(p)
  \/ GetInfo(p) \/ GetInfoEmpty(p) \/ CopyInfo(p) \/ InfoNotCopied(p)
  \/ Extract(p) \/ ExtractEmpty(p) \/ ExtractSize(p) \/ ExtractReturns(p)

(* The module is removed and loaded again.                                 *)
Load ==
  /\ HelloInit
  /\ heap_type' = 0 /\ heap_size' = 0
  /\ pb2_args' = [heap_size |-> 0, heap_type |-> 0]
  /\ heap' = [heap_size |-> 0, heap_type |-> 0, root |-> 0, last_inserted |-> 0]

Next == \/ \E p \in Pids :  \/ (NewCall(p) \/ RejectedCall(p)) /\ UNCHANGED globals
                            \/ Step(p)
        \/ HelloExit /\ UNCHANGED globals
        \/ Load

Spec == A2Init /\ [][Next]_vars
-----------------------------------------------------------------------------
SetUps == UNION {BytesOf[p] \cup TypesOf[p] : p \in Pids}
Types == {two[1] : two \in SetUps}
Sizes == {two[2] : two \in SetUps}
Keys == UNION {KeysOf[p] \cup {TwoBytes(two[1], two[2]) : two \in BytesOf[p]} : p \in Pids}

TypeOK ==
  /\ DOMAIN nodes \subseteq NodeIds \cup {Htable}
  /\ \A n \in DOMAIN nodes :
       nodes[n] \in [key : Pids \cup {-1}, global_heap : HeapIds \cup {Null, DestroyedNull},
                    next : NodeIds \cup {Null}]
  /\ DOMAIN heaps \subseteq HeapIds
  /\ \A h \in DOMAIN heaps :
       /\ heaps[h].heap_type \in {0, 1, MIN_HEAP, MAX_HEAP}
       /\ heaps[h].arr \in [0 .. heaps[h].capacity - 1 -> Keys \cup {0}]
       /\ heaps[h].last_inserted \in Keys \cup {0}
  /\ heap_mutex \in Pids \cup {Free}
  /\ entry \in NodeIds \cup {Null} /\ num \in Keys \cup {0}
  /\ files \in [Pids -> 0 .. MaxFiles]
  /\ heap_type \in Types \cup {0} /\ heap_size \in Sizes \cup {0}
  /\ pb2_args \in [heap_size : Sizes \cup {0}, heap_type : Types \cup {0}]
  /\ heap.root \in Keys \cup {0} /\ heap.last_inserted \in Keys \cup {0}

(* No handler touches memory that is not its object's, or dereferences the *)
(* -EACCES that DestroyHeap returns as a pointer; no walk is endless.      *)
NoFault == \A p \in Pids : ~ Fault(p) /\ ~ Spins(p)

OwnHeapNow(p) == LET n == CHOOSE n \in Listed : nodes[n].key = p IN heaps[nodes[n].global_heap]

(* PB2_GET_INFO tells how many keys the caller's heap holds and the first  *)
(* of all of them in its order: the struct that the ioctl fills in field   *)
(* by field from the root describes the whole heap.                        *)
InfoTellsHeap ==
  \A p \in Pids : pc[p] = "copy_info" =>
    LET h == OwnHeapNow(p)
    IN  /\ heap.heap_size = h.count
        /\ heap.last_inserted = h.last_inserted
        /\ \A i \in 0 .. h.count - 1 : ~ OutOfOrder(h.heap_type, heap.root, h.arr[i])
-----------------------------------------------------------------------------
(* The promise, for processes that take turns and use ioctl and write (but *)
(* do not ask for a min-heap by write): the calls by the names that        *)
(* PrivateHeaps gives them.                                                *)
AbstractOp(op) ==
  CASE op \in {"write2", "write4", "PB2_SET_TYPE", "PB2_INSERT"} -> "write"
    [] op = "PB2_EXTRACT" -> "read"
    [] OTHER -> op

(* A call takes effect when its key_add, key_del, insert or PopMin changes *)
(* memory, a set-up when it destroys the old heap or creates the first.    *)
SettingUp(p) == pc[p] \in {"init_again", "init_store"}

Answer(p) ==
  LET answers == [pid |-> p, op |-> AbstractOp(loc[p].op), val |-> 0]
  IN  CASE pc[p] = "up" \/ SettingUp(p) -> answers
        [] pc[p] \in {"down", "copy_result"} /\ loc[p].heap # Null ->
             [answers EXCEPT !.val =
                IF CopyFails(p) \/ loc[p].val = 0 THEN - EACCES ELSE loc[p].val]
        [] pc[p] \in {"del_clear", "del_free", "print"} -> answers
        [] OTHER -> ret

NewQueue(p) == [heap_type |-> OrderOf(TypeGiven(p)), capacity |-> SizeGiven(p), count |-> 0,
                bag |-> [k \in Keys |-> 0]]

Private == INSTANCE PrivateHeaps WITH
             MinTypes <- {0, MIN_HEAP}, MaxTypes <- {1, MAX_HEAP}, SetUpAgain <- TRUE,
             EmptyMark <- 0,
             KeysOf <- [p \in Pids |-> Keys],
             open <- {nodes[n].key : n \in Listed},
             queue <- [p \in Pids |-> IF SettingUp(p) THEN NewQueue(p) ELSE QueueOf(p, Keys)],
             ret <- IF Quiet THEN [ret EXCEPT !.op = AbstractOp(@)]
                    ELSE Answer(CHOOSE p \in Pids : ~ Idle(p))

(* The module gives each process its own priority queue.                   *)
ImplementsPrivateHeaps == Private!PHSpec
=============================================================================
