----------------------------- MODULE LkmDevice -----------------------------
(***************************************************************************)
(* The part of a kernel module that lkm_moduleA1.c and lkm_moduleA2.c      *)
(* share, as many processes run it at once: the list of processes          *)
(* (get_entry_from_key, key_add, key_del, print_key), dev_open,            *)
(* dev_release, dev_read, and the heap calls made from inside a handler.   *)
(*                                                                         *)
(* A step reads or writes shared memory up to the next function call the   *)
(* compiler cannot see through (printk, kmalloc, kfree, copy_to_user, the  *)
(* mutex): what a handler assigned to a global before such a call it loads *)
(* again after it.  The addresses that kmalloc returns are small numbers,  *)
(* and it returns a freed one as soon as it can.                           *)
(***************************************************************************)
EXTENDS HeapOps, FiniteSets

CONSTANTS Pids,
          MaxNodes, MaxHeaps,  \* how many h_structs and Heaps fit in memory
          MaxFiles,            \* how often a process has the device open
          Ops,                 \* the calls the processes make
          MayOverlap,          \* the pairs of them that different processes overlap
          BadBuffers,          \* the processes that may pass a bad buffer
          EmptyPop,            \* what PopMin returns on an empty heap
          DestroyedNull        \* what DestroyHeap(NULL) returns: NULL, or -EACCES

ASSUME PidsArePositive == Pids \subseteq Nat \ {0}
ASSUME BoundsAreNaturals == MaxNodes \in Nat /\ MaxHeaps \in Nat /\ MaxFiles \in Nat
ASSUME ErrorsAreNoAddresses == EmptyPop \in Int /\ DestroyedNull \in Int \ 1 .. MaxHeaps

VARIABLES nodes,      \* h_structs in memory: address -> [key, global_heap, next]
          heaps,      \* Heaps in memory: address -> [arr, count, capacity, heap_type, last_inserted]
          heap_mutex, \* its holder
          entry,      \* the global of that name
          num,        \* likewise: the key to insert
          topnode,    \* likewise: the key to copy to the user
          files,      \* how many open files of the device a process has
          pc, loc,    \* the step a process is at and the locals of its call
          ret         \* who was answered last, and what, until somebody calls again

deviceVars == <<nodes, heaps, heap_mutex, entry, num, topnode, files, pc, loc, ret>>

Null   == 0
Htable == -1   \* the dummy node `htable', whose key is -1
Free   == 0    \* heap_mutex is not held (no pid is 0)
NodeIds == 1 .. MaxNodes
HeapIds == 1 .. MaxHeaps

EBUSY   == 16
EINVAL  == 22
ENOBUFS == 105

NoCall == [op |-> "none", a |-> 0, b |-> 0, cur |-> Null, heap |-> Null, idx |-> 0, val |-> 0]
NoAnswer == [pid |-> Free, op |-> "none", val |-> 0]

(* An h_struct as dev_open and hello_init fill it in.                      *)
NewNode(key) == [key |-> key, global_heap |-> Null, next |-> Null]

Init ==
  /\ nodes = [n \in {Htable} |-> NewNode(-1)]
  /\ heaps = << >>
  /\ heap_mutex = Free
  /\ entry = Null /\ num = 0 /\ topnode = 0
  /\ files = [p \in Pids |-> 0]
  /\ pc = [p \in Pids |-> "idle"]
  /\ loc = [p \in Pids |-> NoCall]
  /\ ret = NoAnswer

Kmalloc(addresses, used) ==
  IF addresses \subseteq used THEN Null
  ELSE CHOOSE x \in addresses \ used : \A y \in addresses \ used : x <= y

(* What was allocated at x is v; kfree of x.                               *)
With(f, x, v) == [y \in DOMAIN f \cup {x} |-> IF y = x THEN v ELSE f[y]]
Without(f, x) == [y \in DOMAIN f \ {x} |-> f[y]]

Idle(p) == pc[p] = "idle"
Quiet == \A p \in Pids : Idle(p)

Goto(p, label) == pc' = [pc EXCEPT ![p] = label]

Return(p, v) ==
  /\ Goto(p, "idle")
  /\ loc' = [loc EXCEPT ![p] = NoCall]
  /\ ret' = [pid |-> p, op |-> loc[p].op, val |-> v]

(* The module is loaded: htable is allocated.                              *)
Loaded == Htable \in DOMAIN nodes

(* The processes that use the device may take turns for some pairs of      *)
(* calls; the module itself makes no call wait for another.                *)
MayCall(p, op) ==
  /\ op \in Ops
  /\ Loaded /\ Idle(p)
  /\ \A q \in Pids \ {p} : pc[q] # "idle" => {op, loc[q].op} \in MayOverlap

(* A call begins by looking up the caller's entry: get_entry_from_key      *)
(* loads htable->next.                                                     *)
Call(p, op, a, b) ==
  /\ MayCall(p, op)
  /\ Goto(p, "walk")
  /\ loc' = [loc EXCEPT ![p] = [NoCall EXCEPT !.op = op, !.a = a, !.b = b,
                                              !.cur = nodes[Htable].next]]
  /\ ret' = NoAnswer
  /\ UNCHANGED <<nodes, heaps, heap_mutex, entry, num, topnode, files>>

(* A bad buffer is one that the kernel cannot copy from or to, or none at  *)
(* all.  A read without a buffer or of no bytes, a write without one, of   *)
(* no bytes or of bytes that copy_from_user cannot get end before the look *)
(* up.                                                                     *)
Rejected(p, op, errno) ==
  /\ files[p] > 0
  /\ p \in BadBuffers
  /\ MayCall(p, op)
  /\ ret' = [pid |-> p, op |-> op, val |-> - errno]
  /\ UNCHANGED <<nodes, heaps, heap_mutex, entry, num, topnode, files, pc, loc>>

RejectedCall(p) ==
  \/ Rejected(p, "read", EINVAL)
  \/ Rejected(p, "write4", EINVAL) \/ Rejected(p, "write4", ENOBUFS)

(* One iteration of get_entry_from_key: no lock is held.                   *)
Walk(p) ==
  /\ pc[p] = "walk"
  /\ loc[p].cur \in DOMAIN nodes
  /\ nodes[loc[p].cur].key # p
  /\ loc' = [loc EXCEPT ![p].cur = nodes[@].next]
  /\ UNCHANGED <<nodes, heaps, heap_mutex, entry, num, topnode, files, pc, ret>>

Found(p) ==
  /\ pc[p] = "walk"
  /\ loc[p].cur \in DOMAIN nodes
  /\ nodes[loc[p].cur].key = p

NotFound(p) == pc[p] = "walk" /\ loc[p].cur = Null
-----------------------------------------------------------------------------
(* What a walk from htable visits, as far as the memory goes: it ends in   *)
(* NULL, in freed memory, or never.                                        *)
Visit[i \in 0 .. MaxNodes + 1] ==
  IF i = 0 THEN Htable
  ELSE LET n == Visit[i-1] IN IF n \in DOMAIN nodes THEN nodes[n].next ELSE n

WalkEnd == Visit[MaxNodes + 1]
ListEnds     == WalkEnd = Null
ListDangles  == WalkEnd \notin DOMAIN nodes \cup {Null}
ListIsCyclic == WalkEnd \in DOMAIN nodes
Listed == {Visit[i] : i \in 1 .. MaxNodes + 1} \cap DOMAIN nodes
-----------------------------------------------------------------------------
(* hello_exit and hello_init.  The administrator removes the module when   *)
(* nobody has the device open; the module itself does not check that.      *)
(* DestroyHashTable frees the listed nodes and htable, but no heaps.       *)
DestroyHashTable == [n \in DOMAIN nodes \ (Listed \cup {Htable}) |-> nodes[n]]

HelloExit ==
  /\ "rmmod" \in Ops
  /\ Loaded /\ Quiet
  /\ \A p \in Pids : files[p] = 0
  /\ ListEnds
  /\ nodes' = DestroyHashTable
  /\ UNCHANGED <<heaps, heap_mutex, entry, num, topnode, files, pc, loc, ret>>

(* The globals of a module that is loaded again are zero.                  *)
HelloInit ==
  /\ ~ Loaded
  /\ nodes' = With(nodes, Htable, NewNode(-1))
  /\ heap_mutex' = Free
  /\ entry' = Null /\ num' = 0 /\ topnode' = 0
  /\ UNCHANGED <<heaps, files, pc, loc, ret>>
-----------------------------------------------------------------------------
(* dev_open *)

OpenCall(p) == files[p] < MaxFiles /\ Call(p, "open", 0, 0)

OpenTwice(p) ==
  /\ Found(p)
  /\ loc[p].op = "open"
  /\ Return(p, - EACCES)
  /\ UNCHANGED <<nodes, heaps, heap_mutex, entry, num, topnode, files>>

OpenAllocates(p) ==
  /\ NotFound(p)
  /\ loc[p].op = "open"
  /\ ~ (NodeIds \subseteq DOMAIN nodes)
  /\ entry' = Kmalloc(NodeIds, DOMAIN nodes)
  /\ nodes' = With(nodes, entry', NewNode(p))
  /\ Goto(p, "trylock")
  /\ UNCHANGED <<heaps, heap_mutex, num, topnode, files, loc, ret>>

OpenBusy(p) ==
  /\ pc[p] = "trylock"
  /\ heap_mutex # Free
  /\ Return(p, - EBUSY)
  /\ UNCHANGED <<nodes, heaps, heap_mutex, entry, num, topnode, files>>

(* Variants of dev_open: without the trylock, and with the two stores of   *)
(* key_add in the other order.                                             *)
OpensUnlocked(p) ==
  /\ pc[p] = "trylock"
  /\ heap_mutex' = p
  /\ Goto(p, "add")
  /\ UNCHANGED <<nodes, heaps, entry, num, topnode, files, loc, ret>>

AddsToItself(p) ==
  /\ pc[p] = "add"
  /\ entry \in DOMAIN nodes
  /\ nodes' = [nodes EXCEPT ![Htable].next = entry, ![entry].next = entry]
  /\ Goto(p, "print")
  /\ UNCHANGED <<heaps, heap_mutex, entry, num, topnode, files, loc, ret>>

OpenLocks(p) ==
  /\ pc[p] = "trylock"
  /\ heap_mutex = Free
  /\ heap_mutex' = p
  /\ Goto(p, "add")
  /\ UNCHANGED <<nodes, heaps, entry, num, topnode, files, loc, ret>>

(* key_add(entry), whatever entry has become.                              *)
KeyAdd(p) ==
  /\ pc[p] = "add"
  /\ entry \in DOMAIN nodes
  /\ nodes' = [nodes EXCEPT ![entry].next = nodes[Htable].next, ![Htable].next = entry]
  /\ Goto(p, "print")
  /\ UNCHANGED <<heaps, heap_mutex, entry, num, topnode, files, loc, ret>>

(* A variant that returns with the mutex.                                  *)
UnlockForgotten(p) ==
  /\ pc[p] = "print"
  /\ ListEnds
  /\ files' = IF loc[p].op = "open" THEN [files EXCEPT ![p] = @ + 1] ELSE files
  /\ Return(p, 0)
  /\ UNCHANGED <<nodes, heaps, heap_mutex, entry, num, topnode>>

(* print_key walks the list to its end before dev_open or dev_release      *)
(* unlock the mutex and return.                                            *)
PrintKeyUnlock(p) ==
  /\ pc[p] = "print"
  /\ ListEnds
  /\ heap_mutex' = Free
  /\ files' = IF loc[p].op = "open" THEN [files EXCEPT ![p] = @ + 1] ELSE files
  /\ Return(p, 0)
  /\ UNCHANGED <<nodes, heaps, entry, num, topnode>>
-----------------------------------------------------------------------------
(* dev_release: the kernel forgets the file whatever the handler returns.  *)

ReleaseCall(p) ==
  /\ files[p] > 0
  /\ MayCall(p, "release")
  /\ files' = [files EXCEPT ![p] = @ - 1]
  /\ loc' = [loc EXCEPT ![p] = [NoCall EXCEPT !.op = "release"]]
  /\ Goto(p, "del_trylock")
  /\ ret' = NoAnswer
  /\ UNCHANGED <<nodes, heaps, heap_mutex, entry, num, topnode>>

ReleaseBusy(p) ==
  /\ pc[p] = "del_trylock"
  /\ heap_mutex # Free
  /\ Return(p, - EBUSY)
  /\ UNCHANGED <<nodes, heaps, heap_mutex, entry, num, topnode, files>>

ReleaseLocks(p) ==
  /\ pc[p] = "del_trylock"
  /\ heap_mutex = Free
  /\ heap_mutex' = p
  /\ Goto(p, "del")
  /\ UNCHANGED <<nodes, heaps, entry, num, topnode, files, loc, ret>>

(* Variants of key_del: it deletes the first node whatever its key, leaves *)
(* the heap or the node in memory, or does not notice the list's end.      *)
AnyAt(p, i) == Visit[i] \in DOMAIN nodes
HeapsKept(h) == heaps

NodeKept(p) ==
  /\ pc[p] = "del_free"
  /\ loc[p].cur \in DOMAIN nodes
  /\ loc' = [loc EXCEPT ![p].cur = Null, ![p].heap = Null]
  /\ Goto(p, "print")
  /\ UNCHANGED <<nodes, heaps, heap_mutex, entry, num, topnode, files, ret>>

NeverNone(p) == FALSE /\ UNCHANGED deviceVars

(* key_del unlinks the first node with the caller's key and destroys its   *)
(* heap ...                                                                *)
DestroyHeap(h) == Without(heaps, h)

OwnAt(p, i) == Visit[i] \in DOMAIN nodes /\ nodes[Visit[i]].key = p

FirstOwn(p, i) == OwnAt(p, i) /\ \A j \in 1 .. i-1 : ~ OwnAt(p, j)

KeyDel(p) ==
  /\ pc[p] = "del"
  /\ \E i \in 1 .. MaxNodes + 1 :
       LET temp == Visit[i]
           h == nodes[temp].global_heap
       IN  /\ FirstOwn(p, i)
           /\ h \in DOMAIN heaps \cup {Null}
           /\ nodes' = [nodes EXCEPT ![Visit[i-1]].next = nodes[temp].next]
           /\ heaps' = DestroyHeap(h)
           /\ loc' = [loc EXCEPT ![p].cur = temp, ![p].heap = h]
  /\ Goto(p, "del_clear")
  /\ UNCHANGED <<heap_mutex, entry, num, topnode, files, ret>>

(* ... clears its pointers ...                                             *)
Destroyed(h) == IF h = Null THEN DestroyedNull ELSE Null

KeyDelClear(p) ==
  /\ pc[p] = "del_clear"
  /\ loc[p].cur \in DOMAIN nodes
  /\ nodes' = [nodes EXCEPT ![loc[p].cur].global_heap = Destroyed(loc[p].heap),
                            ![loc[p].cur].next = Null]
  /\ Goto(p, "del_free")
  /\ UNCHANGED <<heaps, heap_mutex, entry, num, topnode, files, loc, ret>>

(* ... and frees it.                                                       *)
KeyDelFree(p) ==
  /\ pc[p] = "del_free"
  /\ loc[p].cur \in DOMAIN nodes
  /\ nodes' = Without(nodes, loc[p].cur)
  /\ loc' = [loc EXCEPT ![p].cur = Null, ![p].heap = Null]
  /\ Goto(p, "print")
  /\ UNCHANGED <<heaps, heap_mutex, entry, num, topnode, files, ret>>

(* A caller that has no entry: the walk of key_del reaches the end.        *)
KeyDelNone(p) ==
  /\ pc[p] = "del"
  /\ ListEnds
  /\ \A i \in 1 .. MaxNodes + 1 : ~ OwnAt(p, i)
  /\ Goto(p, "print")
  /\ UNCHANGED <<nodes, heaps, heap_mutex, entry, num, topnode, files, loc, ret>>
-----------------------------------------------------------------------------
(* The heap calls, on the heap at address h that the handler has loaded.   *)

(* CreateHeap's heap; kmalloc_array does not clear the array.              *)
NewHeap(size, type) ==
  [arr |-> [i \in 0 .. size-1 |-> 0], count |-> 0, capacity |-> size,
   heap_type |-> type, last_inserted |-> 0]

(* The memory that insert and PopMin touch is the heap's own.              *)
InBounds(h) == h \in DOMAIN heaps /\ heaps[h].count \in 0 .. heaps[h].capacity

SiftInBounds(p) ==
  LET h == loc[p].heap
  IN  InBounds(h) /\ loc[p].idx \in 0 .. heaps[h].capacity - 1

(* insert(entry->global_heap, num), both loaded again after a printk.      *)
InsertTarget == nodes[entry].global_heap

Insert(p) ==
  /\ pc[p] = "insert"
  /\ entry \in DOMAIN nodes
  /\ LET h == InsertTarget
     IN  /\ InBounds(h)
         /\ heaps[h].count < heaps[h].capacity
         /\ heaps' = [heaps EXCEPT ![h].arr[heaps[h].count] = num]
         /\ loc' = [loc EXCEPT ![p].heap = h, ![p].idx = heaps[h].count, ![p].val = num]
  /\ Goto(p, "up")
  /\ UNCHANGED <<nodes, heap_mutex, entry, num, topnode, files, ret>>

InsertFull(p) ==
  /\ pc[p] = "insert"
  /\ entry \in DOMAIN nodes
  /\ InsertTarget \in DOMAIN heaps
  /\ heaps[InsertTarget].count >= heaps[InsertTarget].capacity
  /\ Return(p, - EACCES)
  /\ UNCHANGED <<nodes, heaps, heap_mutex, entry, num, topnode, files>>

MustRise(p) ==
  LET h == heaps[loc[p].heap]
  IN  OutOfOrder(h.heap_type, h.arr[Parent(loc[p].idx)], h.arr[loc[p].idx])

HeapifyBottomTop(p) ==
  /\ pc[p] = "up"
  /\ SiftInBounds(p)
  /\ MustRise(p)
  /\ heaps' = [heaps EXCEPT ![loc[p].heap].arr = Swapped(@, Parent(loc[p].idx), loc[p].idx)]
  /\ loc' = [loc EXCEPT ![p].idx = Parent(@)]
  /\ UNCHANGED <<nodes, heap_mutex, entry, num, topnode, files, pc, ret>>

InsertReturns(p) ==
  /\ pc[p] = "up"
  /\ SiftInBounds(p)
  /\ ~ MustRise(p)
  /\ heaps' = [heaps EXCEPT ![loc[p].heap].count = @ + 1,
                            ![loc[p].heap].last_inserted = loc[p].val]
  /\ Return(p, 0)
  /\ UNCHANGED <<nodes, heap_mutex, entry, num, topnode, files>>

(* PopMin on the heap h that the caller found non-empty.                   *)
PopMin(p, h) ==
  /\ InBounds(h)
  /\ heaps[h].count # 0
  /\ heaps' = [heaps EXCEPT ![h].arr[0] = heaps[h].arr[heaps[h].count - 1],
                            ![h].count = @ - 1]
  /\ loc' = [loc EXCEPT ![p].heap = h, ![p].val = heaps[h].arr[0], ![p].idx = 0]
  /\ Goto(p, "down")

Sink(p) ==
  LET h == heaps[loc[p].heap]
  IN  TopOfThree(h.heap_type, h.arr, h.count, loc[p].idx)

HeapifyTopBottom(p) ==
  /\ pc[p] = "down"
  /\ SiftInBounds(p)
  /\ Sink(p) # loc[p].idx
  /\ heaps' = [heaps EXCEPT ![loc[p].heap].arr = Swapped(@, Sink(p), loc[p].idx)]
  /\ loc' = [loc EXCEPT ![p].idx = Sink(p)]
  /\ UNCHANGED <<nodes, heap_mutex, entry, num, topnode, files, pc, ret>>

(* The last heapify_top_bottom of a pop has returned.                      *)
Popped(p) == pc[p] = "down" /\ SiftInBounds(p) /\ Sink(p) = loc[p].idx
-----------------------------------------------------------------------------
(* The last two statements of a set-up, `entry->global_heap = DestroyHeap( *)
(* entry->global_heap)' and `entry->global_heap = CreateHeap(size, type)', *)
(* when the checks before them have passed.                                *)

(* CreateHeap, given the Heaps in memory.                                  *)
CreateHeap(p, used, size, type) ==
  LET h == Kmalloc(HeapIds, DOMAIN used)
  IN  /\ heaps' = IF h = Null THEN used ELSE With(used, h, NewHeap(size, type))
      /\ loc' = [loc EXCEPT ![p].heap = h]
      /\ Goto(p, "init_store")

(* The process entry points to has no heap yet.                            *)
InitCreates(p, size, type) ==
  /\ pc[p] = "init"
  /\ entry \in DOMAIN nodes
  /\ nodes[entry].global_heap = Null
  /\ nodes' = [nodes EXCEPT ![entry].global_heap = DestroyedNull]
  /\ CreateHeap(p, heaps, size, type)
  /\ UNCHANGED <<heap_mutex, entry, num, topnode, files, ret>>

(* It has one: DestroyHeap, whose kfree calls make the globals be loaded   *)
(* again for everything that follows.                                      *)
InitDestroys(p) ==
  /\ pc[p] = "init"
  /\ entry \in DOMAIN nodes
  /\ nodes[entry].global_heap \in DOMAIN heaps
  /\ heaps' = DestroyHeap(nodes[entry].global_heap)
  /\ Goto(p, "init_again")
  /\ UNCHANGED <<nodes, heap_mutex, entry, num, topnode, files, loc, ret>>

InitCreatesAgain(p, size, type) ==
  /\ pc[p] = "init_again"
  /\ entry \in DOMAIN nodes
  /\ nodes' = [nodes EXCEPT ![entry].global_heap = Null]
  /\ CreateHeap(p, heaps, size, type)
  /\ UNCHANGED <<heap_mutex, entry, num, topnode, files, ret>>

(* A variant that leaves in the entry what DestroyHeap returned.           *)
HeapForgotten(p) ==
  /\ pc[p] = "init_store"
  /\ Return(p, 0)
  /\ UNCHANGED <<nodes, heaps, heap_mutex, entry, num, topnode, files>>

InitStores(p) ==
  /\ pc[p] = "init_store"
  /\ entry \in DOMAIN nodes
  /\ nodes' = [nodes EXCEPT ![entry].global_heap = loc[p].heap]
  /\ Return(p, 0)
  /\ UNCHANGED <<heaps, heap_mutex, entry, num, topnode, files>>

SetUpFault(p) ==
  \/ pc[p] \in {"init", "init_again", "init_store"} /\ entry \notin DOMAIN nodes
  \/ /\ pc[p] = "init" /\ entry \in DOMAIN nodes
     /\ nodes[entry].global_heap \notin DOMAIN heaps \cup {Null}
-----------------------------------------------------------------------------
(* dev_read *)

TrueMinusINF == -1   \* a variant: -INF as it reads
MinusINF == 1     \* -INF with INF an unsigned 0xffffffff, modulo 2^32

(* Whether the copy_to_user of a call that pops a key will fail.           *)
GoodBuffer == 0
BadBuffer  == 1
Buffers(p) == {GoodBuffer} \cup (IF p \in BadBuffers THEN {BadBuffer} ELSE {})
CopyFails(p) == loc[p].a = BadBuffer

ReadCall(p) == files[p] > 0 /\ \E buf \in Buffers(p) : Call(p, "read", buf, 0)

(* The heap of the entry that was looked up, still in a register.  In the  *)
(* variant the global is loaded again.                                     *)
HeapOfGlobal(p) == IF entry \in DOMAIN nodes THEN nodes[entry].global_heap ELSE Null
OwnHeap(p) == nodes[loc[p].cur].global_heap

NoEntry(p) ==
  /\ NotFound(p)
  /\ loc[p].op # "open"
  /\ entry' = Null
  /\ Return(p, - EACCES)
  /\ UNCHANGED <<nodes, heaps, heap_mutex, num, topnode, files>>

ReadUnset(p) ==
  /\ Found(p) /\ loc[p].op = "read"
  /\ OwnHeap(p) = Null
  /\ entry' = loc[p].cur
  /\ Return(p, - EACCES)
  /\ UNCHANGED <<nodes, heaps, heap_mutex, num, topnode, files>>

ReadEmpty(p) ==
  /\ Found(p) /\ loc[p].op = "read"
  /\ OwnHeap(p) \in DOMAIN heaps
  /\ heaps[OwnHeap(p)].count = 0
  /\ entry' = loc[p].cur
  /\ topnode' = EmptyPop
  /\ Goto(p, "copy")
  /\ UNCHANGED <<nodes, heaps, heap_mutex, num, files, loc, ret>>

ReadPops(p) ==
  /\ Found(p) /\ loc[p].op = "read"
  /\ PopMin(p, OwnHeap(p))
  /\ entry' = loc[p].cur
  /\ UNCHANGED <<nodes, heap_mutex, num, topnode, files, ret>>

ReadSetsTopnode(p) ==
  /\ Popped(p) /\ loc[p].op = "read"
  /\ topnode' = loc[p].val
  /\ Goto(p, "copy")
  /\ UNCHANGED <<nodes, heaps, heap_mutex, entry, num, files, loc, ret>>

(* copy_to_user loads topnode; whether it gets it to the user, the check   *)
(* of its retval tells, which is that of ReadReturns.  The key is popped   *)
(* in either case.                                                         *)
CopyToUser(p) ==
  /\ pc[p] = "copy"
  /\ loc' = [loc EXCEPT ![p].val = topnode]
  /\ Goto(p, "check")
  /\ UNCHANGED <<nodes, heaps, heap_mutex, entry, num, topnode, files, ret>>

ReadReturns(p) ==
  /\ pc[p] = "check"
  /\ Return(p, IF ~ CopyFails(p) /\ topnode # MinusINF THEN loc[p].val ELSE - EACCES)
  /\ UNCHANGED <<nodes, heaps, heap_mutex, entry, num, topnode, files>>
-----------------------------------------------------------------------------
(* The next access of p is to memory that was freed or never its object's, *)
(* or through NULL: the model does not follow p any further.               *)
DeviceFault(p) ==
  \/ pc[p] = "walk" /\ loc[p].cur \notin DOMAIN nodes \cup {Null}
  \/ NotFound(p) /\ loc[p].op = "open" /\ NodeIds \subseteq DOMAIN nodes
  \/ pc[p] = "add" /\ entry \notin DOMAIN nodes
  \/ pc[p] = "print" /\ ListDangles
  \/ pc[p] = "del" /\ ListDangles /\ \A i \in 1 .. MaxNodes + 1 : ~ OwnAt(p, i)
  \/ pc[p] = "del" /\ \E i \in 1 .. MaxNodes + 1 :
       FirstOwn(p, i) /\ nodes[Visit[i]].global_heap \notin DOMAIN heaps \cup {Null}
  \/ pc[p] \in {"del_clear", "del_free"} /\ loc[p].cur \notin DOMAIN nodes
  \/ pc[p] = "insert" /\ entry \notin DOMAIN nodes
  \/ /\ pc[p] = "insert" /\ entry \in DOMAIN nodes
     /\ InsertTarget \in DOMAIN heaps => heaps[InsertTarget].count < 0
  \/ pc[p] \in {"up", "down"} /\ ~ SiftInBounds(p)
  \/ /\ Found(p) /\ loc[p].op = "read"
     /\ OwnHeap(p) # Null /\ ~ InBounds(OwnHeap(p))
     /\ OwnHeap(p) \in DOMAIN heaps => heaps[OwnHeap(p)].count # 0

(* A walk that never ends.                                                 *)
Spins(p) ==
  \/ pc[p] = "print" /\ ListIsCyclic
  \/ pc[p] = "del" /\ ListIsCyclic /\ \A i \in 1 .. MaxNodes + 1 : ~ OwnAt(p, i)

DeviceCall(p) == OpenCall(p) \/ ReleaseCall(p) \/ ReadCall(p)

DeviceStep(p) ==
  \/ Walk(p)
  \/ OpenTwice(p) \/ OpenAllocates(p) \/ OpenBusy(p) \/ OpenLocks(p) \/ KeyAdd(p)
  \/ ReleaseBusy(p) \/ ReleaseLocks(p)
  \/ KeyDel(p) \/ KeyDelClear(p) \/ KeyDelFree(p) \/ KeyDelNone(p)
  \/ PrintKeyUnlock(p)
  \/ Insert(p) \/ InsertFull(p) \/ HeapifyBottomTop(p) \/ InsertReturns(p)
  \/ HeapifyTopBottom(p)
  \/ NoEntry(p) \/ ReadUnset(p) \/ ReadEmpty(p) \/ ReadPops(p) \/ ReadSetsTopnode(p)
  \/ CopyToUser(p) \/ ReadReturns(p)
-----------------------------------------------------------------------------
(* What a process has of its own: the contents of its heap, with the key   *)
(* that is on its way up and without the one that is on its way out.       *)
EntriesOf(p) == {n \in Listed : nodes[n].key = p}

CellsOf(h) ==
  LET inserting == \E p \in Pids : pc[p] = "up" /\ loc[p].heap = h
  IN  0 .. (IF inserting THEN heaps[h].count ELSE heaps[h].count - 1)

(* Every type but 0 makes a max-heap.                                      *)
OrderOf(type) == IF type = 0 THEN 0 ELSE 1

QueueIn(h, keys) ==
  LET cells == CellsOf(h)
  IN  [heap_type |-> OrderOf(heaps[h].heap_type), capacity |-> heaps[h].capacity,
       count |-> Cardinality(cells),
       bag |-> [k \in keys |-> Cardinality({i \in cells : heaps[h].arr[i] = k})]]

HeapsOf(p) == {nodes[n].global_heap : n \in EntriesOf(p)} \cap DOMAIN heaps

QueueOf(p, keys) ==
  IF HeapsOf(p) = {} THEN [bag |-> << >>]
  ELSE CHOOSE q \in {QueueIn(h, keys) : h \in HeapsOf(p)} : TRUE

(* The list is what the open files say: it ends, it has one entry for each *)
(* process that has the device open and none for another, and no h_struct  *)
(* is lost.                                                                *)
TableMatchesFiles ==
  Quiet /\ Loaded =>
    /\ ListEnds
    /\ DOMAIN nodes = Listed \cup {Htable}
    /\ \A p \in Pids : files[p] = Cardinality({n \in Listed : nodes[n].key = p})

(* Every Heap in memory belongs to exactly one process of the list, and no *)
(* process of the list has a heap that is not in memory.                   *)
OwnersOf(h) == {n \in Listed : nodes[n].global_heap = h}

HeapsAreOwned ==
  Quiet =>
    /\ \A n \in Listed : nodes[n].global_heap \in DOMAIN heaps \cup {Null}
    /\ \A h \in DOMAIN heaps : Cardinality(OwnersOf(h)) = 1

(* Nothing that the module allocated is in memory once it is removed.      *)
NothingLeft == ~ Loaded => nodes = << >> /\ heaps = << >>

(* The mutex is held exactly by a process that is between its trylock and  *)
(* its unlock: no path returns with it.                                    *)
Critical(p) == pc[p] \in {"add", "del", "del_clear", "del_free", "print"}

MutexIsHeldInside == \A p \in Pids : Critical(p) <=> heap_mutex = p

(* "each process opening the procfile should have its own separate heap":  *)
(* what a process writes, and nothing else, goes into the heap of its own  *)
(* entry, and what it reads is what it popped.                             *)
KeysStayApart ==
  [][\A p \in Pids :
       /\ pc[p] = "insert" /\ pc'[p] = "up" =>
            nodes[entry].key = p /\ loc'[p].val = loc[p].a
       /\ pc[p] = "copy" /\ pc'[p] = "check" /\ loc[p].heap # Null =>
            loc'[p].val = loc[p].val]_deviceVars

(* However the calls overlap, a read pops from the heap of the process     *)
(* that reads: that it looked up is still in a register.                   *)
PopsOwnHeap ==
  [][\A p \in Pids : pc[p] = "walk" /\ pc'[p] = "down" =>
       \A n \in Listed : nodes[n].global_heap = loc'[p].heap => nodes[n].key = p]_deviceVars

(* No walk of the list is endless.                                         *)
WalksEnd == Loaded => ListEnds

(* A process that has opened the device has an entry.                      *)
FilesHaveEntries ==
  \A p \in Pids : Idle(p) /\ files[p] > 0 => \E n \in Listed : nodes[n].key = p

(* dev_open refuses a process only "if same process has already opened the *)
(* file".                                                                  *)
RefusesOnlyOpeners ==
  \A p \in Pids : Found(p) /\ loc[p].op = "open" => files[p] > 0
=============================================================================
