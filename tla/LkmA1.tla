------------------------------- MODULE LkmA1 -------------------------------
(***************************************************************************)
(* The kernel module lkm_moduleA1.c: LkmDevice and its dev_write.  A write *)
(* of two bytes sets up the heap, a write of four inserts a key, a read    *)
(* pops one.  A write of five bytes stands for all the other lengths.      *)
(***************************************************************************)
EXTENDS LkmDevice

CONSTANTS KeysOf,       \* the keys that each process writes
          Types, Sizes, \* the two bytes of a set-up
          MaxHeapSize   \* the largest size dev_write accepts (100)

ASSUME ArgumentsAreNumbers ==
  /\ KeysOf \in [Pids -> SUBSET Int] /\ Types \subseteq Int /\ Sizes \subseteq Int
  /\ MaxHeapSize \in Nat

VARIABLES heap_type, heap_size   \* the globals dev_write copies the two bytes to

setUp == <<heap_type, heap_size>>
vars == <<nodes, heaps, heap_mutex, entry, num, topnode, files, pc, loc, ret,
          heap_type, heap_size>>

Keys == UNION {KeysOf[p] : p \in Pids}

MIN_HEAP == -1    \* (char) 0xFF
MAX_HEAP == -16   \* (char) 0xF0

A1Init == Init /\ heap_type = 0 /\ heap_size = 0

WriteKeyCall(p, key) == files[p] > 0 /\ Call(p, "write4", key, 0)
WriteInitCall(p, type, size) == files[p] > 0 /\ Call(p, "write2", type, size)
WriteOtherCall(p) == files[p] > 0 /\ Call(p, "write5", 0, 0)
-----------------------------------------------------------------------------
(* dev_write *)

EntryShadowed(p) ==   \* a variant: entry is a local variable
  /\ Found(p) /\ loc[p].op = "write4"
  /\ OwnHeap(p) # Null
  /\ num' = loc[p].a
  /\ Goto(p, "insert")
  /\ UNCHANGED <<nodes, heaps, heap_mutex, entry, files, loc, ret, topnode, setUp>>

WriteKey(p) ==
  /\ Found(p) /\ loc[p].op = "write4"
  /\ OwnHeap(p) # Null
  /\ entry' = loc[p].cur
  /\ num' = loc[p].a
  /\ Goto(p, "insert")
  /\ UNCHANGED <<nodes, heaps, heap_mutex, files, loc, ret, topnode, setUp>>

(* A length other than four for a heap that exists, or other than two for  *)
(* one that does not.                                                      *)
WriteRefused(p) ==
  /\ Found(p)
  /\ entry' = loc[p].cur
  /\ \/ loc[p].op \in {"write2", "write5"} /\ OwnHeap(p) # Null /\ Return(p, - EINVAL)
     \/ loc[p].op \in {"write4", "write5"} /\ OwnHeap(p) = Null /\ Return(p, - EACCES)
  /\ UNCHANGED <<nodes, heaps, heap_mutex, num, files, topnode, setUp>>

WriteInit(p) ==
  /\ Found(p) /\ loc[p].op = "write2"
  /\ OwnHeap(p) = Null
  /\ entry' = loc[p].cur
  /\ heap_type' = loc[p].a
  /\ heap_size' = loc[p].b
  /\ Goto(p, "init")
  /\ UNCHANGED <<nodes, heaps, heap_mutex, num, files, topnode, loc, ret>>

(* The checks, after the printks.                                          *)
GoodInit == heap_type \in {MIN_HEAP, MAX_HEAP} /\ heap_size \in 1 .. MaxHeapSize

InitRefused(p) ==
  /\ pc[p] = "init"
  /\ ~ GoodInit
  /\ Return(p, - EINVAL)
  /\ UNCHANGED <<nodes, heaps, heap_mutex, entry, num, files, topnode, setUp>>

(* CreateHeap's heap_type: 0 for a min-heap, 1 for a max-heap; the byte    *)
(* itself in the variant.                                                  *)
RawType == heap_type
StoredType == IF heap_type = MIN_HEAP THEN 0 ELSE 1

InitAccepted(p) ==
  \/ GoodInit /\ (InitCreates(p, heap_size, StoredType) \/ InitDestroys(p))
  \/ InitCreatesAgain(p, heap_size, StoredType)
  \/ InitStores(p)
-----------------------------------------------------------------------------
Fault(p) ==
  \/ DeviceFault(p)
  \/ SetUpFault(p) /\ (pc[p] = "init" => GoodInit)

(* A process that faults or spins stays where it is, with what it holds.   *)
Stuck(p) == (Fault(p) \/ Spins(p)) /\ UNCHANGED vars

NewCall(p) ==
  \/ DeviceCall(p)
  \/ \E key \in KeysOf[p] : WriteKeyCall(p, key)
  \/ \E type \in Types, size \in Sizes : WriteInitCall(p, type, size)
  \/ WriteOtherCall(p)

Step(p) ==
  \/ DeviceStep(p) /\ UNCHANGED setUp
  \/ WriteKey(p) \/ WriteRefused(p) \/ WriteInit(p)
  \/ InitRefused(p)
  \/ InitAccepted(p) /\ UNCHANGED setUp

(* The module is removed and loaded again.                                 *)
Load ==
  /\ HelloInit
  /\ heap_type' = 0 /\ heap_size' = 0

Next == \/ \E p \in Pids :  \/ (NewCall(p) \/ RejectedCall(p)) /\ UNCHANGED setUp
                            \/ Step(p)
                            \/ Stuck(p)
        \/ HelloExit /\ UNCHANGED setUp
        \/ Load

Spec == A1Init /\ [][Next]_vars
-----------------------------------------------------------------------------
TypeOK ==
  /\ DOMAIN nodes \subseteq NodeIds \cup {Htable}
  /\ \A n \in DOMAIN nodes :
       nodes[n] \in [key : Pids \cup {-1}, global_heap : HeapIds \cup {Null, DestroyedNull},
                    next : NodeIds \cup {Null}]
  /\ DOMAIN heaps \subseteq HeapIds
  /\ \A h \in DOMAIN heaps :
       /\ heaps[h].heap_type \in {0, 1} /\ heaps[h].count \in Int
       /\ heaps[h].arr \in [0 .. heaps[h].capacity - 1 -> Keys \cup {0}]
  /\ heap_mutex \in Pids \cup {Free}
  /\ entry \in NodeIds \cup {Null} /\ num \in Keys \cup {0}
  /\ files \in [Pids -> 0 .. MaxFiles]
  /\ heap_type \in Types \cup {0} /\ heap_size \in Sizes \cup {0}
  /\ topnode \in Keys \cup {0, EmptyPop}

(* No handler touches memory that is not its object's, and no walk of the  *)
(* list is endless.                                                        *)
NoFault == \A p \in Pids : ~ Fault(p) /\ ~ Spins(p)
-----------------------------------------------------------------------------
(* The promise: a process that has the device open has a priority queue of *)
(* its own.  For processes that take turns: a call takes effect when its   *)
(* key_add, key_del, insert or PopMin changes memory; from then on its     *)
(* answer is known: a popped key that is -INF, or that cannot be copied to *)
(* the user, is lost to a call that is refused.                            *)
AbstractOp(op) == IF op \in {"write2", "write4"} THEN "write" ELSE op

Answer(p) ==
  CASE pc[p] = "up" -> [pid |-> p, op |-> "write", val |-> 0]
    [] pc[p] \in {"down", "copy", "check"} /\ loc[p].heap # Null ->
         [pid |-> p, op |-> "read",
          val |-> IF CopyFails(p) \/ loc[p].val = MinusINF THEN - EACCES ELSE loc[p].val]
    [] pc[p] \in {"del_clear", "del_free", "print"} -> [pid |-> p, op |-> loc[p].op, val |-> 0]
    [] OTHER -> ret

Private == INSTANCE PrivateHeaps WITH
             MinTypes <- {MIN_HEAP}, MaxTypes <- {MAX_HEAP}, SetUpAgain <- FALSE,
             EmptyMark <- MinusINF,
             open <- {nodes[n].key : n \in Listed},
             queue <- [p \in Pids |-> QueueOf(p, Keys)],
             ret <- IF Quiet THEN [ret EXCEPT !.op = AbstractOp(@)]
                    ELSE Answer(CHOOSE p \in Pids : ~ Idle(p))

(* The module gives each process its own priority queue.                   *)
ImplementsPrivateHeaps == Private!PHSpec
=============================================================================
