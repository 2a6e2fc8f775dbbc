---------------------------- MODULE PrivateHeaps ----------------------------
(***************************************************************************)
(* What the kernel module promises the processes that open it, by its      *)
(* README: each has a priority queue of its own, from its open to its      *)
(* close.  Each call takes effect at once, and one that is refused has     *)
(* none, but for ReadLoses: a key that a call takes out of the queue is    *)
(* lost when it cannot be handed over.                                     *)
(***************************************************************************)
EXTENDS HeapOps

CONSTANTS Pids, KeysOf, Types, Sizes, MaxHeapSize,
          MinTypes, MaxTypes,  \* how the caller asks for a min-heap or a max-heap
          SetUpAgain,          \* whether a set-up replaces a queue or is refused
          BadBuffers,          \* the processes that may pass a bad buffer
          EmptyMark            \* the key that a read takes for an empty queue

VARIABLES open,   \* the processes that have the device open
          queue,  \* the priority queue of each
          ret     \* who was answered last, and what, until somebody calls again

phVars == <<open, queue, ret>>

EINVAL  == 22
ENOBUFS == 105
Keys == UNION {KeysOf[p] : p \in Pids}

NoQueue == [bag |-> << >>]
NoAnswer == [pid |-> 0, op |-> "none", val |-> 0]

PHInit == /\ open = {}
          /\ queue = [p \in Pids |-> NoQueue]
          /\ ret = NoAnswer

(* A process calls.                                                        *)
Invoke == ret' = NoAnswer /\ UNCHANGED <<open, queue>>

Answer(p, op, v) == ret' = [pid |-> p, op |-> op, val |-> v]
Refuse(p, op, errno) == Answer(p, op, - errno) /\ UNCHANGED <<open, queue>>

Open(p) ==
  /\ Answer(p, "open", 0)
  /\ p \notin open
  /\ open' = open \cup {p}
  /\ UNCHANGED queue

OpenTwice(p) == Refuse(p, "open", EACCES) /\ p \in open

Close(p) ==
  /\ Answer(p, "release", 0)
  /\ p \in open
  /\ open' = open \ {p}
  /\ queue' = [queue EXCEPT ![p] = NoQueue]

HasQueue(p) == p \in open /\ queue[p] # NoQueue

Accepted(type, size) == type \in MinTypes \cup MaxTypes /\ size \in 1 .. MaxHeapSize

SetUp(p, type, size) ==
  /\ Answer(p, "write", 0)
  /\ p \in open /\ (HasQueue(p) => SetUpAgain)
  /\ Accepted(type, size)
  /\ queue' = [queue EXCEPT ![p] = [heap_type |-> IF type \in MinTypes THEN 0 ELSE 1,
                                    capacity |-> size, count |-> 0,
                                    bag |-> [k \in Keys |-> 0]]]
  /\ UNCHANGED open

SetUpRefused(p) ==
  /\ Refuse(p, "write", EINVAL)
  /\ p \in open
  /\ (HasQueue(p) /\ ~ SetUpAgain) \/ \E type \in Types, size \in Sizes : ~ Accepted(type, size)

Write(p, key) ==
  /\ Answer(p, "write", 0)
  /\ HasQueue(p) /\ queue[p].count < queue[p].capacity
  /\ queue' = [queue EXCEPT ![p].bag[key] = @ + 1, ![p].count = @ + 1]
  /\ UNCHANGED open

WriteRefused(p) ==
  /\ Refuse(p, "write", EACCES)
  /\ p \in open
  /\ HasQueue(p) => queue[p].count = queue[p].capacity

(* The key that is next in the order of the queue leaves it.               *)
Take(p, key) ==
  /\ HasQueue(p)
  /\ queue[p].bag[key] > 0
  /\ \A k \in Keys : queue[p].bag[k] > 0 => ~ OutOfOrder(queue[p].heap_type, key, k)
  /\ queue' = [queue EXCEPT ![p].bag[key] = @ - 1, ![p].count = @ - 1]
  /\ UNCHANGED open

Read(p, key) ==
  /\ Answer(p, "read", key)
  /\ key # EmptyMark
  /\ Take(p, key)

ReadLoses(p, key) ==
  /\ Answer(p, "read", - EACCES)
  /\ p \in BadBuffers \/ key = EmptyMark
  /\ Take(p, key)

ReadRefused(p) ==
  /\ Refuse(p, "read", EACCES)
  /\ p \in open
  /\ HasQueue(p) => queue[p].count = 0

(* PB2_GET_INFO: what it tells is the matter of InfoTellsHeap.             *)
Describe(p) ==
  /\ Answer(p, "PB2_GET_INFO", IF HasQueue(p) THEN 0 ELSE - EACCES)
  /\ p \in open
  /\ UNCHANGED <<open, queue>>

(* A call with a bad buffer that takes nothing out of the queue, and a     *)
(* write of a length that nothing has.                                     *)
BadCall(p) ==
  /\ p \in BadBuffers
  /\ p \in open
  /\ \/ Refuse(p, "read", EINVAL)
     \/ Refuse(p, "write", EINVAL) \/ Refuse(p, "write", ENOBUFS)
     \/ Refuse(p, "PB2_GET_INFO", EACCES)

WrongLength(p) ==
  /\ Refuse(p, "write5", IF HasQueue(p) THEN EINVAL ELSE EACCES)
  /\ p \in open

PHNext == Invoke \/ \E p \in Pids :
  \/ Open(p) \/ OpenTwice(p) \/ Close(p)
  \/ \E type \in Types, size \in Sizes : SetUp(p, type, size)
  \/ SetUpRefused(p)
  \/ \E key \in KeysOf[p] : Write(p, key)
  \/ \E key \in KeysOf[p] : Read(p, key) \/ ReadLoses(p, key)
  \/ WriteRefused(p) \/ ReadRefused(p) \/ Describe(p)
  \/ BadCall(p) \/ WrongLength(p)

PHSpec == PHInit /\ [][PHNext]_phVars
=============================================================================
