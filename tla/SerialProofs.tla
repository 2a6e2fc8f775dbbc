---------------------------- MODULE SerialProofs ----------------------------
(***************************************************************************)
(* Processes that take turns, so that every call runs alone: the list is   *)
(* what the open files say, nothing is lost, and no handler faults.        *)
(***************************************************************************)
EXTENDS TableProofs

(* Processes that take turns: no call overlaps with another.               *)
TakeTurns == MayOverlap = {}

(* A process has an entry for each file, ...                               *)
FilesMatch == \A p \in Pids : Held(p) = Cardinality(EntriesOf(p))

(* ... and no h_struct is in memory but those of the list, the one that is *)
(* opened and the one that is closed.                                      *)
AllListed ==
  IF Loaded
  THEN \A n \in DOMAIN nodes :
         \/ n \in Listed \cup {Htable}
         \/ n = entry /\ \E p \in Pids : pc[p] \in Opening
         \/ \E p \in Pids : pc[p] \in {"del_clear", "del_free"} /\ loc[p].cur = n
  ELSE nodes = << >>

TurnsInv == FilesMatch /\ AllListed /\ Owned

LEMMA TurnsAreUses == TakeTurns => UsesOverlap
BY DEF TakeTurns, UsesOverlap

LEMMA OthersAreIdle ==
  ASSUME TakeTurns, TableInv, NEW p \in Pids, NEW q \in Pids, p # q,
         ~ Idle(p) \/ AnyCall(p)
  PROVE  Idle(q)
<1>1. CASE AnyCall(p)
  <2>1. PICK op : MayCall(p, op)
    BY <1>1 DEF AnyCall, Call, ReleaseCall
  <2> QED
    BY <2>1 DEF MayCall, Idle, TakeTurns
<1>2. CASE ~ Idle(p)
  BY <1>2 DEF TakeTurns, TableInv, Apart
<1> QED
  BY <1>1, <1>2

(* The mutex is never busy, and key_del finds an entry.                    *)
LEMMA TurnsNeverFail ==
  ASSUME NEW K, NEW T, TakeTurns, DeviceTypes(K, T), MutexInv, TableInv, FilesMatch, NEW p \in Pids
  PROVE  ~ OpenBusy(p) /\ ~ ReleaseBusy(p) /\ ~ KeyDelNone(p)
<1>1. ASSUME OpenBusy(p) \/ ReleaseBusy(p)
      PROVE  FALSE
  <2>1. pc[p] \in {"trylock", "del_trylock"} /\ heap_mutex \in Pids
    BY <1>1 DEF OpenBusy, ReleaseBusy, DeviceTypes, GlobalsOK
  <2>2. Critical(heap_mutex)
    BY <2>1 DEF MutexInv, MutexIsHeldInside
  <2>3. heap_mutex # p /\ ~ Idle(heap_mutex) /\ ~ Idle(p)
    BY <2>1, <2>2 DEF Critical, Idle
  <2> QED
    BY <2>1, <2>3, OthersAreIdle
<1>2. ASSUME KeyDelNone(p)
      PROVE  FALSE
  <2>1. Held(p) = files[p] + 1 /\ files[p] \in Nat
    BY <1>2 DEF KeyDelNone, Held, Pending, DeviceTypes, GlobalsOK
  <2>2. EntriesOf(p) # {}
    BY <2>1, FS_EmptySet DEF FilesMatch
  <2>3. PICK i \in 1 .. MaxNodes + 1 : Visit[i] \in DOMAIN nodes /\ nodes[Visit[i]].key = p
    BY <2>2 DEF EntriesOf, Listed
  <2> QED
    BY <1>2, <2>3 DEF KeyDelNone, OwnAt
<1> QED
  BY <1>1, <1>2

LEMMA StepKeepsMatch ==
  ASSUME NEW K, NEW T, TakeTurns, DeviceTypes(K, T), DeviceTypes(K, T)', MutexInv, TableInv, FilesMatch,
         NEW p \in Pids, AnyCall(p) \/ TableStep(p) \/ SetUpStep(p) \/ Plain(p)
  PROVE  FilesMatch'
<1>1. /\ \A q \in Pids : Cardinality(EntriesOf(q)) \in Nat
      /\ \A q \in Pids : q # p => EntriesOf(q)' = EntriesOf(q)
      /\ KeyAdd(p) => Cardinality(EntriesOf(p)') = Cardinality(EntriesOf(p)) + 1
      /\ KeyDel(p) => Cardinality(EntriesOf(p)') = Cardinality(EntriesOf(p)) - 1
      /\ ~ KeyAdd(p) /\ ~ KeyDel(p) => EntriesOf(p)' = EntriesOf(p)
  BY EntriesMove
<1>2. /\ \A q \in Pids : q # p => Held(q)' = Held(q)
      /\ KeyAdd(p) => Held(p)' = Held(p) + 1
      /\ KeyDel(p) => Held(p)' = Held(p) - 1
      /\ ~ KeyAdd(p) /\ ~ KeyDel(p) => Held(p)' = Held(p)
  BY StepHolds, TurnsNeverFail
<1>3. ASSUME NEW q \in Pids
      PROVE  Held(q)' = Cardinality(EntriesOf(q)')
  <2>1. Held(q) = Cardinality(EntriesOf(q))
    BY DEF FilesMatch
  <2> QED
    BY <1>1, <1>2, <2>1
<1> QED
  BY <1>3 DEF FilesMatch

LEMMA StepKeepsAllListed ==
  ASSUME NEW K, NEW T, TakeTurns, DeviceTypes(K, T), DeviceTypes(K, T)', MutexInv, TableInv, FilesMatch,
         AllListed, NEW p \in Pids, AnyCall(p) \/ TableStep(p) \/ SetUpStep(p) \/ Plain(p)
  PROVE  AllListed'
<1> USE DEF DeviceTypes
<1>0. /\ DOMAIN pc = Pids /\ DOMAIN loc = Pids /\ Loaded /\ Loaded'
      /\ \A q \in Pids : q # p => pc[q] = "idle" /\ pc'[q] = "idle"
      /\ Unchanged(p) \/ Adds(p) \/ Deletes(p)
  <2>1. AnyCall(p) \/ ~ Idle(p)
    BY StepLabels DEF TableInv
  <2> QED
    BY <2>1, OthersAreIdle, StepsAreOfOne, StepMovesList DEF CallsOK, Idle
<1>1. \A n \in DOMAIN nodes :
         \/ n \in Listed \cup {Htable}
         \/ n = entry /\ pc[p] \in Opening
         \/ pc[p] \in {"del_clear", "del_free"} /\ loc[p].cur = n
  BY <1>0 DEF AllListed, Opening
<1> SUFFICES ASSUME NEW n \in DOMAIN nodes'
             PROVE  \/ n \in Listed' \cup {Htable}
                    \/ n = entry' /\ pc'[p] \in Opening
                    \/ pc'[p] \in {"del_clear", "del_free"} /\ loc'[p].cur = n
  BY <1>0 DEF AllListed
<1>2. CASE OpenAllocates(p)
  <2>1. pc[p] = "walk" /\ pc'[p] = "trylock" /\ DOMAIN nodes' = DOMAIN nodes \cup {entry'}
    BY <1>0, <1>2 DEF OpenAllocates, NotFound, Goto, With
  <2> QED
    BY <1>0, <1>1, <2>1 DEF Opening, Unchanged, Adds, Deletes, KeyAdd, KeyDel
<1>3. CASE KeyAdd(p)
  <2>1. n \in DOMAIN nodes /\ pc[p] = "add" /\ Adds(p)
    BY <1>0, <1>3 DEF KeyAdd, Unchanged, Deletes, KeyDel
  <2> QED
    BY <1>0, <1>1, <2>1 DEF Adds
<1>4. CASE KeyDel(p)
  <2>1. n \in DOMAIN nodes /\ pc[p] = "del" /\ pc'[p] = "del_clear" /\ Deletes(p)
    BY <1>0, <1>4 DEF KeyDel, Unchanged, Adds, KeyAdd, Goto
  <2>2. Listed' = Listed \ {loc'[p].cur}
    BY <2>1 DEF Deletes
  <2> QED
    BY <1>0, <1>1, <2>1, <2>2 DEF Opening
<1>5. CASE OpenLocks(p) \/ KeyDelClear(p)
  <2>1. /\ n \in DOMAIN nodes /\ entry' = entry /\ loc' = loc
        /\ pc[p] \in Opening => pc'[p] \in Opening
        /\ pc[p] \in {"del_clear", "del_free"} => pc'[p] \in {"del_clear", "del_free"}
        /\ Listed' = Listed
    BY <1>0, <1>5 DEF OpenLocks, KeyDelClear, Goto, Opening, Unchanged, Adds, Deletes, KeyAdd, KeyDel
  <2> QED
    BY <1>1, <2>1
<1>6. CASE KeyDelFree(p)
  <2>1. /\ n \in DOMAIN nodes \ {loc[p].cur} /\ pc[p] = "del_free" /\ Listed' = Listed
    BY <1>0, <1>6 DEF KeyDelFree, Without, Unchanged, Adds, Deletes, KeyAdd, KeyDel
  <2> QED
    BY <1>1, <2>1 DEF Opening
<1>7. CASE /\ ~ OpenAllocates(p) /\ ~ KeyAdd(p) /\ ~ KeyDel(p) /\ ~ OpenLocks(p) /\ ~ KeyDelClear(p)
           /\ ~ KeyDelFree(p)
  <2>1. /\ n \in DOMAIN nodes /\ Listed' = Listed
        /\ pc[p] \notin Opening /\ pc[p] \notin {"del_clear", "del_free"}
    <3>1. CASE AnyCall(p)
      BY <1>0, <1>7, <3>1 DEF AnyCall, Call, ReleaseCall, MayCall, Idle, Opening, Unchanged, Adds, Deletes
    <3>2. CASE TableStep(p)
      BY <1>0, <1>7, <3>2, TurnsNeverFail DEF TableStep, Walk, ReleaseLocks, PrintKeyUnlock, Opening, Unchanged,
         Adds, Deletes
    <3>3. CASE SetUpStep(p)
      BY <1>0, <1>7, <3>3 DEF SetUpStep, InitCreates, InitCreatesAgain, InitDestroys, InitStores, Opening,
         Unchanged, Adds, Deletes
    <3>4. CASE Plain(p)
      BY <1>0, <1>7, <3>4 DEF Plain, Marked, Opening, Unchanged, Adds, Deletes
    <3> QED
      BY <3>1, <3>2, <3>3, <3>4
  <2> QED
    BY <1>1, <2>1
<1> QED
  BY <1>2, <1>3, <1>4, <1>5, <1>6, <1>7

(* The module that nobody has open has no entries and no heaps.            *)
LEMMA NothingOpen ==
  ASSUME TableInv, TurnsInv, Quiet, \A p \in Pids : files[p] = 0,
         NEW K, NEW T, DeviceTypes(K, T)
  PROVE  Listed = {} /\ heaps = << >>
<1>1. \A p \in Pids : pc[p] = "idle" /\ Held(p) = 0
  BY DEF Quiet, Idle, Held, Pending
<1>2. Listed = {}
  <2> SUFFICES ASSUME NEW n \in Listed PROVE FALSE
    OBVIOUS
  <2> DEFINE p == nodes[n].key
  <2>1. p \in Pids /\ n \in EntriesOf(p)
    BY DEF TableInv, ListedKeys, EntriesOf
  <2>2. IsFiniteSet(EntriesOf(p))
    <3>1. Listed \subseteq NodeIds
      BY ListedAre, NotLoaded DEF TableInv, DeviceTypes, NodesOK
    <3>2. IsFiniteSet(NodeIds)
      BY FS_Interval, BoundsAreNaturals DEF NodeIds
    <3> QED
      BY <3>1, <3>2, FS_Subset DEF EntriesOf
  <2>3. Cardinality(EntriesOf(p)) = 0
    BY <1>1, <2>1 DEF TurnsInv, FilesMatch
  <2> HIDE DEF p
  <2> QED
    BY <2>1, <2>2, <2>3, FS_EmptySet
<1>3. DOMAIN heaps = {}
  BY <1>1, <1>2 DEF TurnsInv, Owned
<1> QED
  BY <1>2, <1>3 DEF DeviceTypes, HeapsOK

LEMMA StepKeepsTurns ==
  ASSUME NEW K, NEW T, TakeTurns, DeviceTypes(K, T), DeviceTypes(K, T)', MutexInv, TableInv, OwnerInv,
         TurnsInv, SharedNext
  PROVE  TurnsInv'
<1>1. ASSUME NEW p \in Pids, AnyCall(p) \/ TableStep(p) \/ SetUpStep(p) \/ Plain(p)
      PROVE  TurnsInv'
  <2>1. FilesMatch' /\ AllListed'
    BY <1>1, StepKeepsMatch, StepKeepsAllListed DEF TurnsInv
  <2>2. Owned'
    BY <1>1, StepKeepsOwned, TurnsAreUses DEF TurnsInv
  <2> QED
    BY <2>1, <2>2 DEF TurnsInv
<1>2. CASE HelloExit \/ HelloInit
  <2>1. Listed' = {} /\ Quiet
    BY <1>2, LoadingMovesList
  <2>2. \A p \in Pids : pc[p] = "idle" /\ pc'[p] = "idle"
    BY <1>2, <2>1 DEF HelloExit, HelloInit, Quiet, Idle
  <2>3. \A p \in Pids : files[p] = 0
    <3>1. CASE HelloExit
      BY <3>1 DEF HelloExit
    <3>2. CASE HelloInit
      <4>1. \A p \in Pids : EntriesOf(p) = {}
        BY <3>2, NotLoaded DEF HelloInit, EntriesOf
      <4>2. \A p \in Pids : Held(p) = 0
        BY <4>1, FS_EmptySet DEF TurnsInv, FilesMatch
      <4>3. \A p \in Pids : files[p] \in Nat
        BY DEF DeviceTypes, GlobalsOK
      <4> QED
        BY <2>2, <4>2, <4>3 DEF Held, Pending
    <3> QED
      BY <1>2, <3>1, <3>2
  <2>4. Listed = {} /\ heaps = << >>
    BY <2>1, <2>3, NothingOpen
  <2>5. Owned'
    BY <1>2, <2>4 DEF HelloExit, HelloInit, Owned
  <2>6. FilesMatch'
    <3>1. \A p \in Pids : Held(p)' = 0
      BY <1>2, <2>2, <2>3 DEF HelloExit, HelloInit, Held, Pending
    <3>2. \A p \in Pids : EntriesOf(p)' = {}
      BY <2>1 DEF EntriesOf
    <3>3. \A p \in Pids : Cardinality(EntriesOf(p)') = 0
      BY <3>2, FS_EmptySet
    <3> QED
      BY <3>1, <3>3 DEF FilesMatch
  <2>7. AllListed'
    <3>1. CASE HelloExit
      <4>1. \A n \in DOMAIN nodes : n \in {Htable}
        BY <2>2, <2>4, <3>1 DEF HelloExit, TurnsInv, AllListed, Opening
      <4>2. nodes' = [n \in {} |-> nodes[n]]
        BY <2>4, <3>1, <4>1 DEF HelloExit, DestroyHashTable
      <4> QED
        BY <4>2 DEF AllListed, Loaded
    <3>2. CASE HelloInit
      <4>1. DOMAIN nodes' = {Htable}
        BY <3>2 DEF HelloInit, With, TurnsInv, AllListed
      <4> QED
        BY <4>1 DEF AllListed, Loaded
    <3> QED
      BY <1>2, <3>1, <3>2
  <2> QED
    BY <2>5, <2>6, <2>7 DEF TurnsInv
<1> QED
  BY <1>1, <1>2 DEF SharedNext

LEMMA TurnsUnchanged ==
  ASSUME TurnsInv, Untouched
  PROVE  TurnsInv'
<1>1. nodes' = nodes /\ heaps' = heaps /\ pc' = pc /\ loc' = loc /\ files' = files /\ entry' = entry
  BY DEF Untouched
<1>2. Visit' = Visit
  BY <1>1 DEF Visit
<1>3. Listed' = Listed
  BY <1>1, <1>2 DEF Listed
<1>4. \A p \in Pids : EntriesOf(p)' = EntriesOf(p) /\ Held(p)' = Held(p)
  BY <1>1, <1>3 DEF EntriesOf, Held, Pending
<1> QED
  BY <1>1, <1>3, <1>4, OwnedUnchanged DEF TurnsInv, FilesMatch, AllListed, Loaded

LEMMA InitTurns ==
  ASSUME Init, Listed = {}
  PROVE  TurnsInv
<1>1. FilesMatch
  <2>1. \A p \in Pids : EntriesOf(p) = {} /\ Held(p) = 0
    BY DEF Init, EntriesOf, Held, Pending
  <2> QED
    BY <2>1, FS_EmptySet DEF FilesMatch
<1>2. AllListed
  BY DEF Init, AllListed, Loaded
<1>3. Owned
  BY DEF Init, Owned
<1> QED
  BY <1>1, <1>2, <1>3 DEF TurnsInv

LEMMA TurnsShow ==
  ASSUME NEW K, NEW T, DeviceTypes(K, T), TableInv, OwnerInv, TurnsInv, MutexInv
  PROVE  /\ TableMatchesFiles /\ HeapsAreOwned
         /\ NothingLeft
<1>1. TableMatchesFiles
  <2> SUFFICES ASSUME Quiet, Loaded
               PROVE  /\ ListEnds /\ DOMAIN nodes = Listed \cup {Htable}
                      /\ \A p \in Pids : files[p] = Cardinality({n \in Listed : nodes[n].key = p})
    BY DEF TableMatchesFiles
  <2>1. \A p \in Pids : pc[p] = "idle" /\ files[p] \in Nat
    BY DEF Quiet, Idle, DeviceTypes, GlobalsOK
  <2>2. ListEnds
    BY ListOKEnds DEF TableInv, DeviceTypes, NodesOK
  <2>3. DOMAIN nodes = Listed \cup {Htable}
    BY <2>1 DEF TurnsInv, AllListed, Opening, Loaded, Listed
  <2> QED
    BY <2>1, <2>2, <2>3 DEF TurnsInv, FilesMatch, Held, Pending, EntriesOf
<1>2. HeapsAreOwned
  BY OwnedShows DEF TurnsInv
<1>3. ASSUME ~ Loaded
      PROVE  nodes = << >> /\ heaps = << >>
  <2>1. Listed = {} /\ \A p \in Pids : pc[p] = "idle"
    BY <1>3, NotLoaded DEF MutexInv, Quiet, Idle
  <2>2. DOMAIN heaps = {}
    BY <2>1 DEF TurnsInv, Owned
  <2>3. heaps = << >>
    BY <2>2 DEF DeviceTypes, HeapsOK
  <2> QED
    BY <1>3, <2>3 DEF TurnsInv, AllListed
<1> QED
  BY <1>1, <1>2, <1>3 DEF NothingLeft
-----------------------------------------------------------------------------
(* A call that runs alone: the list, the globals and the heaps are for it  *)
(* what its own steps made of them.                                        *)
(*                                                                         *)
(* No process has two entries, or one while it opens the device.           *)
OneEntry ==
  /\ \A m, n \in Listed : nodes[m].key = nodes[n].key => m = n
  /\ \A p \in Pids : pc[p] \in Opening => \A n \in Listed : nodes[n].key # p

(* A walk has passed every entry before the one it looks at.               *)
PassedOthers ==
  \A p \in Pids : pc[p] = "walk" =>
    \E i \in 1 .. MaxNodes + 1 : loc[p].cur = Visit[i] /\ \A j \in 1 .. i-1 : ~ OwnAt(p, j)

(* A handler that uses a heap uses that of its own entry.                  *)
UseLabels == {"copy_num", "insert", "up", "down", "copy", "check", "empty_info", "copy_info",
              "extracted", "copy_result"}

UsesOwnHeap ==
  \A p \in Pids : pc[p] \in UseLabels =>
    /\ entry \in Listed /\ nodes[entry].key = p
    /\ nodes[entry].global_heap \in DOMAIN heaps
    /\ pc[p] \in {"up", "down"} => loc[p].heap = nodes[entry].global_heap

(* Every heap is one, but for what a sift still has to do.                 *)
Sifted(h) == \E p \in Pids : pc[p] \in {"up", "down"} /\ loc[p].heap = h

HeapsWork ==
  /\ \A h \in DOMAIN heaps :
       /\ heaps[h].capacity \in Nat \ {0}
       /\ heaps[h].count \in 0 .. heaps[h].capacity
       /\ ~ Sifted(h) => Ordered(heaps[h].heap_type, heaps[h].arr, heaps[h].count)
  /\ \A p \in Pids : pc[p] \in {"up", "down"} =>
       LET h == heaps[loc[p].heap]
       IN  /\ h.count < h.capacity
           /\ IF pc[p] = "up" THEN Rising(h.heap_type, h.arr, h.count, loc[p].idx)
              ELSE Sinking(h.heap_type, h.arr, h.count, loc[p].idx)

AloneInv == OneEntry /\ PassedOthers /\ UsesOwnHeap /\ HeapsWork

(* What a process does then, in more detail than SharedNext: the steps of  *)
(* insert and PopMin, ...                                                  *)
PopsOwn(p) == Found(p) /\ PopMin(p, OwnHeap(p)) /\ entry' = loc[p].cur

HeapCall(p) ==
  Insert(p) \/ HeapifyBottomTop(p) \/ InsertReturns(p) \/ PopsOwn(p) \/ HeapifyTopBottom(p)

(* ... those that leave the heaps alone, ...                               *)
Steady(p) ==
  /\ heaps' = heaps
  /\ pc[p] # "up" /\ pc'[p] \notin {"up", "down"}
  /\ pc[p] = "down" => Popped(p)
  /\ pc'[p] \in UseLabels =>
       \/ Found(p) /\ entry' = loc[p].cur /\ OwnHeap(p) # Null
       \/ pc[p] \in UseLabels /\ entry' = entry

(* ... and a set-up with a size that the module accepts.                   *)
GoodSetUp(p) ==
  \/ \E size \in Nat \ {0}, type \in Int : InitCreates(p, size, type) \/ InitCreatesAgain(p, size, type)
  \/ InitDestroys(p) \/ InitStores(p)

AloneStep(p) ==
  \/ AnyCall(p) \/ TableStep(p) \/ GoodSetUp(p)
  \/ Plain(p) /\ (HeapCall(p) \/ Steady(p))

LEMMA AloneIsShared ==
  ASSUME NEW p \in Pids, AloneStep(p)
  PROVE  AnyCall(p) \/ TableStep(p) \/ SetUpStep(p) \/ Plain(p)
BY DEF AloneStep, GoodSetUp, SetUpStep

(* Nobody else moves.                                                      *)
LEMMA StepIsAlone ==
  ASSUME NEW K, NEW T, TakeTurns, DeviceTypes(K, T), DeviceTypes(K, T)', MutexInv, TableInv,
         NEW p \in Pids, AloneStep(p)
  PROVE  /\ \A q \in Pids : q # p => pc[q] = "idle" /\ pc'[q] = "idle" /\ loc'[q] = loc[q]
         /\ Loaded /\ Loaded' /\ KeysKept
         /\ Unchanged(p) \/ Adds(p) \/ Deletes(p)
<1>1. AnyCall(p) \/ TableStep(p) \/ SetUpStep(p) \/ Plain(p)
  BY AloneIsShared
<1>2. AnyCall(p) \/ ~ Idle(p)
  BY <1>1, StepLabels DEF TableInv, DeviceTypes
<1>3. \A q \in Pids : q # p => pc[q] = "idle"
  BY <1>2, OthersAreIdle DEF Idle
<1>4. \A q \in Pids : q # p => pc'[q] = pc[q] /\ loc'[q] = loc[q]
  BY <1>1, StepsAreOfOne DEF DeviceTypes
<1> QED
  BY <1>1, <1>3, <1>4, StepMovesList

(* A walk that ends has passed every entry.                                *)
LEMMA NotFoundIsNone ==
  ASSUME NodesOK, ListOK, Loaded, PassedOthers, NEW p \in Pids, NotFound(p)
  PROVE  \A n \in Listed : nodes[n].key # p
<1>1. PICK i \in 1 .. MaxNodes + 1 : loc[p].cur = Visit[i] /\ \A j \in 1 .. i-1 : ~ OwnAt(p, j)
  BY DEF NotFound, PassedOthers
<1>2. PICK k, L : IsList(nodes, k, L)
  BY DEF ListOK
<1>3. /\ \A j \in 0 .. MaxNodes + 1 : Visit[j] = IF j <= k THEN L[j] ELSE Null
      /\ k <= MaxNodes /\ Listed = {L[j] : j \in 1 .. k} /\ \A j \in 1 .. k : L[j] \in NodeIds
  BY <1>2, WalkOf DEF WalkFacts, NodesOK
<1>4. Null \notin NodeIds /\ k \in Nat
  BY <1>2, IdsAreNaturals DEF IsList
<1>5. i > k
  BY <1>1, <1>3, <1>4, BoundsAreNaturals DEF NotFound
<1> SUFFICES ASSUME NEW j \in 1 .. k
             PROVE  nodes[L[j]].key # p
  BY <1>3
<1>6. Visit[j] = L[j] /\ j \in 1 .. i-1 /\ L[j] \in DOMAIN nodes
  BY <1>2, <1>3, <1>4, <1>5, BoundsAreNaturals DEF IsList
<1> QED
  BY <1>1, <1>6 DEF OwnAt

LEMMA StepKeepsOneEntry ==
  ASSUME NEW K, NEW T, TakeTurns, DeviceTypes(K, T), DeviceTypes(K, T)', MutexInv, TableInv,
         OneEntry, PassedOthers, NEW p \in Pids, AloneStep(p)
  PROVE  OneEntry'
<1> USE DEF DeviceTypes
<1>0. /\ \A q \in Pids : q # p => pc[q] = "idle" /\ pc'[q] = "idle"
      /\ Unchanged(p) \/ Adds(p) \/ Deletes(p)
      /\ \A n \in Listed \cap Listed' : nodes'[n].key = nodes[n].key
      /\ DOMAIN pc = Pids /\ Loaded
  BY StepIsAlone DEF KeysKept, Listed, CallsOK
<1>1. \A n \in Listed : pc'[p] \in Opening => nodes[n].key # p
  <2>1. CASE OpenAllocates(p)
    BY <1>0, <2>1, NotFoundIsNone DEF OpenAllocates, TableInv
  <2>2. CASE ~ OpenAllocates(p)
    <3>1. pc'[p] \in Opening => pc[p] \in Opening
      BY <1>0, <2>2
         DEF Opening, AloneStep, AnyCall, Call, ReleaseCall, TableStep, Walk, OpenBusy, OpenLocks, KeyAdd,
             ReleaseBusy, ReleaseLocks, KeyDel, KeyDelClear, KeyDelFree, KeyDelNone, PrintKeyUnlock, Return,
             Goto, GoodSetUp, InitCreates, InitCreatesAgain, InitDestroys, InitStores, CreateHeap, Plain,
             Marked
    <3> QED
      BY <3>1 DEF OneEntry
  <2> QED
    BY <2>1, <2>2
<1>2. CASE Adds(p)
  <2>1. /\ Listed' = Listed \cup {entry} /\ pc[p] = "add" /\ pc'[p] = "print"
        /\ entry \notin Listed /\ nodes[entry].key = p /\ entry \in DOMAIN nodes \cap DOMAIN nodes'
    BY <1>0, <1>2 DEF Adds, KeyAdd, Goto, TableInv, FreshEntry, Opening
  <2>2. nodes'[entry].key = p
    BY <2>1, StepIsAlone DEF KeysKept
  <2>3. \A n \in Listed : nodes[n].key # p
    BY <2>1 DEF OneEntry, Opening
  <2> QED
    BY <1>0, <2>1, <2>2, <2>3 DEF OneEntry, Opening
<1>3. CASE Unchanged(p) \/ Deletes(p)
  <2>1. Listed' \subseteq Listed
    BY <1>3 DEF Unchanged, Deletes
  <2> QED
    BY <1>0, <1>1, <2>1 DEF OneEntry, Opening
<1> QED
  BY <1>0, <1>2, <1>3

LEMMA StepKeepsPassed ==
  ASSUME NEW K, NEW T, TakeTurns, DeviceTypes(K, T), DeviceTypes(K, T)', MutexInv, TableInv,
         PassedOthers, NEW p \in Pids, AloneStep(p)
  PROVE  PassedOthers'
<1> USE DEF DeviceTypes
<1>0. /\ \A q \in Pids : q # p => pc'[q] = "idle"
      /\ DOMAIN pc = Pids /\ DOMAIN loc = Pids /\ Loaded
      /\ DOMAIN loc[p] = {"op", "a", "b", "cur", "heap", "idx", "val"}
      /\ MaxNodes \in Nat
  BY StepIsAlone, BoundsAreNaturals DEF CallsOK, Calls
<1> SUFFICES ASSUME pc'[p] = "walk"
             PROVE  \E i \in 1 .. MaxNodes + 1 :
                      loc'[p].cur = Visit'[i] /\ \A j \in 1 .. i-1 : ~ OwnAt(p, j)'
  BY <1>0 DEF PassedOthers
<1>1. Walk(p) \/ \E op, a, b : Call(p, op, a, b)
  BY <1>0
     DEF AloneStep, AnyCall, ReleaseCall, TableStep, OpenAllocates, OpenBusy, OpenLocks, KeyAdd, ReleaseBusy,
         ReleaseLocks, KeyDel, KeyDelClear, KeyDelFree, KeyDelNone, PrintKeyUnlock, Return, Goto, GoodSetUp,
         InitCreates, InitCreatesAgain, InitDestroys, InitStores, CreateHeap, Plain
<1>2. nodes' = nodes
  BY <1>1 DEF Walk, Call
<1>3. Visit' = Visit
  BY <1>2 DEF Visit
<1>4. \A i \in 1 .. MaxNodes + 1 : OwnAt(p, i)' <=> OwnAt(p, i)
  BY <1>2, <1>3 DEF OwnAt
<1>5. CASE \E op, a, b : Call(p, op, a, b)
  <2>1. loc'[p].cur = nodes[Htable].next
    BY <1>0, <1>5 DEF Call, NoCall
  <2>2. Visit[1] = nodes[Htable].next
    BY <1>0, VisitDef DEF VisitFacts, NextOf, Loaded
  <2> QED
    BY <1>0, <1>3, <2>1, <2>2
<1>6. CASE Walk(p)
  <2>1. PICK i \in 1 .. MaxNodes + 1 : loc[p].cur = Visit[i] /\ \A j \in 1 .. i-1 : ~ OwnAt(p, j)
    BY <1>6 DEF Walk, PassedOthers
  <2>2. /\ Visit[i] \in DOMAIN nodes /\ nodes[Visit[i]].key # p
        /\ loc'[p].cur = nodes[Visit[i]].next
    BY <1>0, <1>6, <2>1 DEF Walk
  <2>3. i <= MaxNodes
    <3>1. PICK k, L : IsList(nodes, k, L)
      BY <1>0 DEF TableInv, ListOK
    <3>2. Visit[i] = (IF i <= k THEN L[i] ELSE Null) /\ k <= MaxNodes /\ k \in Nat
      BY <3>1, WalkOf, BoundsAreNaturals DEF WalkFacts, NodesOK, IsList
    <3>3. Null \notin DOMAIN nodes
      BY IdsAreNaturals DEF NodesOK, Addresses, Null, Htable
    <3> QED
      BY <1>0, <2>2, <3>2, <3>3
  <2>4. i + 1 \in 1 .. MaxNodes + 1 /\ (i + 1) - 1 = i
    BY <1>0, <2>3
  <2>5. Visit[i + 1] = nodes[Visit[i]].next
    BY <2>2, <2>4, VisitDef DEF VisitFacts, NextOf
  <2>6. \A j \in 1 .. (i + 1) - 1 : ~ OwnAt(p, j)
    BY <2>1, <2>2 DEF OwnAt
  <2>7. \A j \in 1 .. (i + 1) - 1 : ~ OwnAt(p, j)'
    <3> SUFFICES ASSUME NEW j \in 1 .. (i + 1) - 1
                 PROVE  ~ OwnAt(p, j)'
      OBVIOUS
    <3>1. j \in 1 .. MaxNodes + 1
      BY <1>0, <2>4
    <3> QED
      BY <1>4, <2>6, <3>1
  <2>8. loc'[p].cur = Visit'[i + 1]
    BY <1>3, <2>2, <2>5
  <2> QED
    BY <2>4, <2>7, <2>8
<1> QED
  BY <1>1, <1>5, <1>6

(* What the steps of a heap call do to the heap at h and to their frame.   *)
HeapBecomes(h, a, n) ==
  /\ h \in DOMAIN heaps /\ heaps' = [heaps EXCEPT ![h] = heaps'[h]]
  /\ heaps'[h].arr = a /\ heaps'[h].count = n
  /\ heaps'[h].capacity = heaps[h].capacity /\ heaps'[h].heap_type = heaps[h].heap_type

LEMMA InsertIs ==
  ASSUME NEW K, NEW T, HeapsOK(K, T), CallsOK(K), NEW p \in Pids, Insert(p)
  PROVE  LET h == InsertTarget
             n == heaps[h].count
         IN  /\ HeapBecomes(h, [heaps[h].arr EXCEPT ![n] = num], n)
             /\ n \in 0 .. heaps[h].capacity /\ n < heaps[h].capacity
             /\ pc'[p] = "up" /\ loc'[p].heap = h /\ loc'[p].idx = n /\ loc'[p].val = num
<1> DEFINE h == InsertTarget
           n == heaps[h].count
           a == [heaps[h].arr EXCEPT ![n] = num]
<1>1. /\ h \in DOMAIN heaps /\ n \in 0 .. heaps[h].capacity /\ n < heaps[h].capacity
      /\ heaps[h] \in Heaps(K, T)
      /\ DOMAIN loc = Pids /\ DOMAIN pc = Pids
      /\ DOMAIN loc[p] = {"op", "a", "b", "cur", "heap", "idx", "val"}
  BY DEF Insert, InBounds, HeapsOK, CallsOK, Calls
<1>2. /\ heaps' = [heaps EXCEPT ![h] = [heaps[h] EXCEPT !.arr = a]]
      /\ loc' = [loc EXCEPT ![p] = [loc[p] EXCEPT !.heap = h, !.idx = n, !.val = num]]
      /\ pc'[p] = "up"
  BY <1>1 DEF Insert, Goto
<1> HIDE DEF h, n, a
<1>3. HeapBecomes(h, a, n)
  BY <1>1, <1>2 DEF HeapBecomes, Heaps, n
<1>4. loc'[p].heap = h /\ loc'[p].idx = n /\ loc'[p].val = num
  BY <1>1, <1>2
<1> QED
  BY <1>1, <1>2, <1>3, <1>4 DEF h, n, a

LEMMA SwapIs ==
  ASSUME NEW K, NEW T, HeapsOK(K, T), CallsOK(K), NEW p \in Pids, NEW i, NEW j,
         loc[p].heap \in DOMAIN heaps,
         heaps' = [heaps EXCEPT ![loc[p].heap].arr = Swapped(@, i, j)],
         loc' = [loc EXCEPT ![p].idx = i]
  PROVE  LET h == loc[p].heap
         IN  /\ HeapBecomes(h, Swapped(heaps[h].arr, i, j), heaps[h].count)
             /\ loc'[p].heap = h /\ loc'[p].idx = i /\ loc'[p].val = loc[p].val
<1> DEFINE h == loc[p].heap
           a == Swapped(heaps[h].arr, i, j)
<1>1. /\ heaps[h] \in Heaps(K, T) /\ DOMAIN loc = Pids
      /\ DOMAIN loc[p] = {"op", "a", "b", "cur", "heap", "idx", "val"}
  BY DEF HeapsOK, CallsOK, Calls
<1>2. heaps' = [heaps EXCEPT ![h] = [heaps[h] EXCEPT !.arr = a]]
  OBVIOUS
<1>3. loc'[p].heap = h /\ loc'[p].idx = i /\ loc'[p].val = loc[p].val
  BY <1>1
<1> HIDE DEF h, a
<1>4. HeapBecomes(h, a, heaps[h].count)
  BY <1>1, <1>2 DEF HeapBecomes, Heaps, h
<1> QED
  BY <1>3, <1>4 DEF h, a

LEMMA InsertReturnsIs ==
  ASSUME NEW K, NEW T, HeapsOK(K, T), CallsOK(K), NEW p \in Pids, InsertReturns(p)
  PROVE  LET h == loc[p].heap
         IN  /\ HeapBecomes(h, heaps[h].arr, heaps[h].count + 1)
             /\ pc'[p] = "idle" /\ heaps'[h].last_inserted = loc[p].val
<1> DEFINE h == loc[p].heap
           n == heaps[h].count + 1
<1>1. /\ h \in DOMAIN heaps /\ heaps[h] \in Heaps(K, T) /\ DOMAIN pc = Pids
  BY DEF InsertReturns, SiftInBounds, InBounds, HeapsOK, CallsOK
<1>2. /\ heaps' = [heaps EXCEPT ![h] = [heaps[h] EXCEPT !.count = n, !.last_inserted = loc[p].val]]
      /\ pc'[p] = "idle"
  BY <1>1 DEF InsertReturns, Return, Goto
<1> HIDE DEF h, n
<1>3. HeapBecomes(h, heaps[h].arr, n) /\ heaps'[h].last_inserted = loc[p].val
  BY <1>1, <1>2 DEF HeapBecomes, Heaps
<1> QED
  BY <1>2, <1>3 DEF h, n

LEMMA PopIs ==
  ASSUME NEW K, NEW T, HeapsOK(K, T), CallsOK(K), NEW p \in Pids, NEW h, PopMin(p, h)
  PROVE  LET n == heaps[h].count
             a == heaps[h].arr
         IN  /\ HeapBecomes(h, [a EXCEPT ![0] = a[n - 1]], n - 1)
             /\ n \in 0 .. heaps[h].capacity /\ n # 0
             /\ pc'[p] = "down" /\ loc'[p].heap = h /\ loc'[p].idx = 0 /\ loc'[p].val = a[0]
<1> DEFINE n == heaps[h].count
           top == heaps[h].arr[0]
           a == [heaps[h].arr EXCEPT ![0] = heaps[h].arr[n - 1]]
<1>1. /\ h \in DOMAIN heaps /\ n \in 0 .. heaps[h].capacity /\ n # 0
      /\ heaps[h] \in Heaps(K, T)
      /\ DOMAIN loc = Pids /\ DOMAIN pc = Pids
      /\ DOMAIN loc[p] = {"op", "a", "b", "cur", "heap", "idx", "val"}
  BY DEF PopMin, InBounds, HeapsOK, CallsOK, Calls
<1>2. /\ heaps' = [heaps EXCEPT ![h] = [heaps[h] EXCEPT !.arr = a, !.count = n - 1]]
      /\ loc' = [loc EXCEPT ![p] = [loc[p] EXCEPT !.heap = h, !.val = top, !.idx = 0]]
      /\ pc'[p] = "down"
  BY <1>1 DEF PopMin, Goto
<1> HIDE DEF n, a, top
<1>3. HeapBecomes(h, a, n - 1)
  BY <1>1, <1>2 DEF HeapBecomes, Heaps
<1>4. loc'[p].heap = h /\ loc'[p].idx = 0 /\ loc'[p].val = top
  BY <1>1, <1>2
<1> QED
  BY <1>1, <1>2, <1>3, <1>4 DEF n, a, top

(* The heap that a handler loads for its entry.                            *)
LEMMA OwnHeapIs ==
  ASSUME NEW K, NEW T, TakeTurns, DeviceTypes(K, T), TableInv, OwnerInv, NEW p \in Pids, Found(p)
  PROVE  /\ loc[p].cur \in Listed /\ nodes[loc[p].cur].key = p
         /\ OwnHeap(p) \in DOMAIN heaps \cup {Null}
<1>1. loc[p].cur \in Listed /\ nodes[loc[p].cur].key = p
  BY FoundIsListed DEF OwnerInv
<1>2. \A q \in Pids : q # p => pc[q] = "idle"
  BY OthersAreIdle DEF Found, Idle
<1>3. ~ Replacing(loc[p].cur)
  BY <1>2 DEF Replacing, Found
<1> QED
  BY <1>1, <1>3 DEF OwnerInv, PtrInv, HeapPtrs, OwnHeap

LEMMA StepKeepsUse ==
  ASSUME NEW K, NEW T, TakeTurns, DeviceTypes(K, T), DeviceTypes(K, T)', MutexInv, TableInv, OwnerInv,
         UsesOwnHeap, NEW p \in Pids, AloneStep(p)
  PROVE  UsesOwnHeap'
<1> USE DEF DeviceTypes
<1>0. /\ \A q \in Pids : q # p => pc'[q] = "idle"
      /\ Unchanged(p) \/ Adds(p) \/ Deletes(p)
      /\ DOMAIN pc = Pids /\ DOMAIN loc = Pids
  BY StepIsAlone DEF CallsOK
<1> SUFFICES ASSUME pc'[p] \in UseLabels
             PROVE  /\ entry' \in Listed' /\ nodes'[entry'].key = p
                    /\ nodes'[entry'].global_heap \in DOMAIN heaps'
                    /\ pc'[p] \in {"up", "down"} => loc'[p].heap = nodes'[entry'].global_heap
  BY <1>0 DEF UsesOwnHeap, UseLabels
<1>1. Plain(p) /\ (HeapCall(p) \/ Steady(p))
  BY <1>0
     DEF AloneStep, AnyCall, Call, ReleaseCall, TableStep, Walk, OpenAllocates, OpenBusy, OpenLocks, KeyAdd,
         ReleaseBusy, ReleaseLocks, KeyDel, KeyDelClear, KeyDelFree, KeyDelNone, PrintKeyUnlock, Return, Goto,
         GoodSetUp, InitCreates, InitCreatesAgain, InitDestroys, InitStores, CreateHeap, UseLabels
<1>2. nodes' = nodes /\ Listed' = Listed /\ DOMAIN heaps' = DOMAIN heaps
  BY <1>0, <1>1 DEF Plain, Marked, Unchanged, Adds, Deletes, KeyAdd, KeyDel
<1>3. Found(p) => /\ loc[p].cur \in Listed /\ nodes[loc[p].cur].key = p
                  /\ OwnHeap(p) \in DOMAIN heaps \cup {Null}
  BY OwnHeapIs
<1>4. CASE Steady(p)
  <2>1. CASE Found(p) /\ entry' = loc[p].cur /\ OwnHeap(p) # Null
    BY <1>2, <1>3, <1>4, <2>1 DEF Steady, OwnHeap
  <2>2. CASE pc[p] \in UseLabels /\ entry' = entry
    BY <1>2, <1>4, <2>2 DEF Steady, UsesOwnHeap
  <2> QED
    BY <1>4, <2>1, <2>2 DEF Steady
<1>5. CASE Insert(p)
  <2>1. entry' = entry /\ pc[p] = "insert" /\ loc'[p].heap = nodes[entry].global_heap
    BY <1>5, InsertIs DEF Insert, InsertTarget
  <2> QED
    BY <1>2, <2>1 DEF UsesOwnHeap, UseLabels
<1>6. CASE HeapifyBottomTop(p) \/ HeapifyTopBottom(p)
  <2>1. PICK i, j : /\ loc' = [loc EXCEPT ![p].idx = i] /\ loc[p].heap \in DOMAIN heaps
                    /\ heaps' = [heaps EXCEPT ![loc[p].heap].arr = Swapped(@, i, j)]
    <3> HIDE DEF Swapped, Sink, Parent
    <3> QED
      BY <1>0, <1>6 DEF HeapifyBottomTop, HeapifyTopBottom, SiftInBounds, InBounds
  <2>2. loc'[p].heap = loc[p].heap
    BY <2>1, SwapIs
  <2>3. pc[p] \in {"up", "down"} /\ entry' = entry
    BY <1>6 DEF HeapifyBottomTop, HeapifyTopBottom
  <2> QED
    BY <1>2, <2>2, <2>3 DEF UsesOwnHeap, UseLabels
<1>7. CASE InsertReturns(p)
  BY <1>7, InsertReturnsIs DEF UseLabels
<1>8. CASE PopsOwn(p)
  <2>1. loc'[p].heap = OwnHeap(p) /\ OwnHeap(p) \in DOMAIN heaps
    BY <1>8, PopIs DEF PopsOwn, HeapBecomes
  <2> QED
    BY <1>2, <1>3, <1>8, <2>1 DEF PopsOwn, OwnHeap
<1> QED
  BY <1>1, <1>4, <1>5, <1>6, <1>7, <1>8 DEF HeapCall

(* What HeapsWork says of a heap.                                          *)
LEMMA HeapIs ==
  ASSUME NEW K, NEW T, K \subseteq Int, T \subseteq Int, HeapsOK(K, T), HeapsWork, NEW h \in DOMAIN heaps
  PROVE  /\ heaps[h].capacity \in Nat /\ heaps[h].capacity - 1 \in Nat
         /\ heaps[h].count \in 0 .. heaps[h].capacity
         /\ heaps[h].arr \in [0 .. heaps[h].capacity - 1 -> Int]
         /\ heaps[h].heap_type \in Int
BY DEF HeapsWork, HeapsOK, Heaps

(* A step of a heap call keeps the other heaps, ...                        *)
LEMMA OneHeapWorks ==
  ASSUME NEW K, NEW T, K \subseteq Int, T \subseteq Int, HeapsOK(K, T), HeapsWork, NEW p \in Pids,
         \A q \in Pids : q # p => pc[q] = "idle" /\ pc'[q] = "idle",
         NEW h, NEW a, NEW n, HeapBecomes(h, a, n), n \in 0 .. heaps[h].capacity,
         pc[p] \in {"up", "down"} => loc[p].heap = h,
         pc'[p] \notin {"up", "down"} => Ordered(heaps[h].heap_type, a, n),
         pc'[p] \in {"up", "down"} => loc'[p].heap = h /\ n < heaps[h].capacity,
         pc'[p] = "up" => Rising(heaps[h].heap_type, a, n, loc'[p].idx),
         pc'[p] = "down" => Sinking(heaps[h].heap_type, a, n, loc'[p].idx)
  PROVE  HeapsWork'
<1>1. /\ h \in DOMAIN heaps /\ DOMAIN heaps' = DOMAIN heaps
      /\ \A g \in DOMAIN heaps : g # h => heaps'[g] = heaps[g]
      /\ heaps'[h].arr = a /\ heaps'[h].count = n
      /\ heaps'[h].capacity = heaps[h].capacity /\ heaps'[h].heap_type = heaps[h].heap_type
  <2>1. heaps' = [heaps EXCEPT ![h] = heaps'[h]] /\ h \in DOMAIN heaps
    BY DEF HeapBecomes
  <2>2. DOMAIN heaps' = DOMAIN heaps /\ \A g \in DOMAIN heaps : g # h => heaps'[g] = heaps[g]
    BY <2>1
  <2> QED
    BY <2>1, <2>2 DEF HeapBecomes
<1>2. ASSUME NEW g \in DOMAIN heaps, g # h
      PROVE  ~ Sifted(g) /\ ~ Sifted(g)'
  BY <1>2 DEF Sifted
<1>3. ASSUME NEW g \in DOMAIN heaps'
      PROVE  /\ heaps'[g].capacity \in Nat \ {0} /\ heaps'[g].count \in 0 .. heaps'[g].capacity
             /\ ~ Sifted(g)' => Ordered(heaps'[g].heap_type, heaps'[g].arr, heaps'[g].count)
  <2>1. CASE g = h
    <3>1. ~ Sifted(h)' => pc'[p] \notin {"up", "down"}
      BY DEF Sifted
    <3> QED
      BY <1>1, <2>1, <3>1 DEF HeapsWork
  <2>2. CASE g # h
    BY <1>1, <1>2, <2>2 DEF HeapsWork
  <2> QED
    BY <2>1, <2>2
<1> QED
  BY <1>1, <1>3 DEF HeapsWork

(* ... and one that creates or destroys heaps keeps the rest.              *)
LEMMA OtherHeapsWork ==
  ASSUME HeapsWork, NEW p \in Pids,
         \A q \in Pids : q # p => pc[q] = "idle" /\ pc'[q] = "idle",
         pc[p] \notin {"up", "down"}, pc'[p] \notin {"up", "down"},
         \A h \in DOMAIN heaps' :
           \/ h \in DOMAIN heaps /\ heaps'[h] = heaps[h]
           \/ heaps'[h].capacity \in Nat \ {0} /\ heaps'[h].count = 0
  PROVE  HeapsWork'
<1>1. \A h : ~ Sifted(h)
  BY DEF Sifted
<1>2. \A type, a : Ordered(type, a, 0)
  BY DEF Ordered
<1>3. ASSUME NEW h \in DOMAIN heaps'
      PROVE  /\ heaps'[h].capacity \in Nat \ {0} /\ heaps'[h].count \in 0 .. heaps'[h].capacity
             /\ Ordered(heaps'[h].heap_type, heaps'[h].arr, heaps'[h].count)
  <2>1. CASE h \in DOMAIN heaps /\ heaps'[h] = heaps[h]
    BY <1>1, <2>1 DEF HeapsWork
  <2>2. CASE heaps'[h].capacity \in Nat \ {0} /\ heaps'[h].count = 0
    BY <1>2, <2>2
  <2> QED
    BY <2>1, <2>2
<1>4. \A q \in Pids : pc'[q] \notin {"up", "down"}
  OBVIOUS
<1> QED
  BY <1>3, <1>4 DEF HeapsWork

LEMMA HeapCallKeepsHeaps ==
  ASSUME NEW K, NEW T, K \subseteq Int, T \subseteq Int, TakeTurns, DeviceTypes(K, T), HeapsWork, UsesOwnHeap,
         NEW p \in Pids, \A q \in Pids : q # p => pc[q] = "idle" /\ pc'[q] = "idle", HeapCall(p)
  PROVE  HeapsWork'
<1> USE DEF DeviceTypes
<1>0. DOMAIN pc = Pids
  BY DEF CallsOK
<1>1. \A h \in DOMAIN heaps : /\ heaps[h].capacity \in Nat /\ heaps[h].capacity - 1 \in Nat
                              /\ heaps[h].count \in 0 .. heaps[h].capacity
                              /\ heaps[h].arr \in [0 .. heaps[h].capacity - 1 -> Int]
                              /\ heaps[h].heap_type \in Int
  BY HeapIs
<1>2. CASE Insert(p)
  <2> DEFINE h == InsertTarget
             n == heaps[h].count
             a == [heaps[h].arr EXCEPT ![n] = num]
             m == heaps[h].capacity - 1
  <2>1. /\ HeapBecomes(h, a, n) /\ n \in 0 .. heaps[h].capacity /\ n < heaps[h].capacity
        /\ pc'[p] = "up" /\ loc'[p].heap = h /\ loc'[p].idx = n
    BY <1>2, InsertIs
  <2>2. h \in DOMAIN heaps /\ pc[p] = "insert" /\ num \in Int
    BY <1>2 DEF Insert, InBounds, GlobalsOK
  <2>3. Ordered(heaps[h].heap_type, heaps[h].arr, n)
    <3>1. ~ Sifted(h)
      BY <2>2 DEF Sifted
    <3> QED
      BY <2>2, <3>1 DEF HeapsWork
  <2>4. m \in Nat /\ n \in 0 .. m /\ heaps[h].arr \in [0 .. m -> Int]
    BY <1>1, <2>1, <2>2
  <2>5. Rising(heaps[h].heap_type, a, n, n)
    <3> HIDE DEF m, n, h
    <3> QED
      BY <2>2, <2>3, <2>4, RiseStarts
  <2> HIDE DEF h, n, a
  <2> QED
    BY <2>1, <2>2, <2>5, OneHeapWorks
<1>3. CASE HeapifyBottomTop(p)
  <2> DEFINE h == loc[p].heap
             n == heaps[h].count
             x == loc[p].idx
             m == heaps[h].capacity - 1
             a == heaps[h].arr
  <2>1. /\ h \in DOMAIN heaps /\ pc[p] = "up" /\ pc'[p] = "up"
        /\ OutOfOrder(heaps[h].heap_type, a[Parent(x)], a[x])
        /\ heaps' = [heaps EXCEPT ![h].arr = Swapped(@, Parent(x), x)]
        /\ loc' = [loc EXCEPT ![p].idx = Parent(x)]
    BY <1>3 DEF HeapifyBottomTop, SiftInBounds, InBounds, MustRise, CallsOK
  <2>2. n < heaps[h].capacity /\ Rising(heaps[h].heap_type, a, n, x)
    BY <2>1 DEF HeapsWork
  <2>3. HeapBecomes(h, Swapped(a, Parent(x), x), n) /\ loc'[p].heap = h /\ loc'[p].idx = Parent(x)
    <3> HIDE DEF Swapped, Parent
    <3> QED
      BY <2>1, SwapIs
  <2>4. m \in Nat /\ n \in 0 .. m /\ a \in [0 .. m -> Int] /\ heaps[h].heap_type \in Int
        /\ n \in 0 .. heaps[h].capacity
    BY <1>1, <2>1, <2>2
  <2> HIDE DEF h, n, x, m, a
  <2>5. Rising(heaps[h].heap_type, Swapped(a, Parent(x), x), n, Parent(x))
    BY <2>1, <2>2, <2>4, RiseGoesOn
  <2> HIDE DEF Swapped, Parent
  <2>6. loc[p].heap = h
    BY DEF h
  <2> QED
    BY <2>1, <2>2, <2>3, <2>4, <2>5, <2>6, OneHeapWorks
<1>4. CASE InsertReturns(p)
  <2> DEFINE h == loc[p].heap
             n == heaps[h].count
             x == loc[p].idx
             a == heaps[h].arr
  <2>1. /\ h \in DOMAIN heaps /\ pc[p] = "up"
        /\ ~ OutOfOrder(heaps[h].heap_type, a[Parent(x)], a[x])
    BY <1>4 DEF InsertReturns, SiftInBounds, InBounds, MustRise
  <2>2. n < heaps[h].capacity /\ Rising(heaps[h].heap_type, a, n, x)
    BY <2>1 DEF HeapsWork
  <2>3. HeapBecomes(h, a, n + 1) /\ pc'[p] = "idle"
    BY <1>4, InsertReturnsIs
  <2>4. n \in Nat /\ n + 1 \in 0 .. heaps[h].capacity
    BY <1>1, <2>1, <2>2
  <2> HIDE DEF h, n, x, a
  <2>5. Ordered(heaps[h].heap_type, a, n + 1)
    BY <2>1, <2>2, <2>4, RiseEnds
  <2>6. loc[p].heap = h
    BY DEF h
  <2> QED
    BY <2>3, <2>4, <2>5, <2>6, OneHeapWorks
<1>5. CASE PopsOwn(p)
  <2> DEFINE h == OwnHeap(p)
             n == heaps[h].count
             a == heaps[h].arr
             b == [a EXCEPT ![0] = a[n - 1]]
             m == heaps[h].capacity - 1
  <2>1. /\ HeapBecomes(h, b, n - 1) /\ n \in 0 .. heaps[h].capacity /\ n # 0
        /\ pc'[p] = "down" /\ loc'[p].heap = h /\ loc'[p].idx = 0
    <3> HIDE DEF OwnHeap
    <3> QED
      BY <1>5, PopIs DEF PopsOwn
  <2>2. h \in DOMAIN heaps /\ pc[p] = "walk"
    BY <1>5 DEF PopsOwn, PopMin, InBounds, Found
  <2>3. Ordered(heaps[h].heap_type, a, n)
    <3>1. ~ Sifted(h)
      BY <2>2 DEF Sifted
    <3> QED
      BY <2>2, <3>1 DEF HeapsWork
  <2>4. /\ m \in Nat /\ n \in 1 .. m+1 /\ a \in [0 .. m -> Int] /\ heaps[h].heap_type \in Int
        /\ n - 1 \in 0 .. heaps[h].capacity /\ n - 1 < heaps[h].capacity
    BY <1>1, <2>1, <2>2
  <2>5. Sinking(heaps[h].heap_type, b, n - 1, 0)
    <3> HIDE DEF m, n, h, a
    <3> QED
      BY <2>2, <2>3, <2>4, SinkStarts
  <2> HIDE DEF h, n, a, b
  <2> QED
    BY <2>1, <2>2, <2>4, <2>5, OneHeapWorks
<1>6. CASE HeapifyTopBottom(p)
  <2> DEFINE h == loc[p].heap
             n == heaps[h].count
             x == loc[p].idx
             m == heaps[h].capacity - 1
             a == heaps[h].arr
             s == TopOfThree(heaps[h].heap_type, a, n, x)
  <2>1. /\ h \in DOMAIN heaps /\ pc[p] = "down" /\ pc'[p] = "down" /\ s # x
        /\ heaps' = [heaps EXCEPT ![h].arr = Swapped(@, s, x)]
        /\ loc' = [loc EXCEPT ![p].idx = s]
    <3> HIDE DEF TopOfThree, Swapped
    <3> QED
      BY <1>6 DEF HeapifyTopBottom, SiftInBounds, InBounds, Sink, CallsOK
  <2>2. n < heaps[h].capacity /\ Sinking(heaps[h].heap_type, a, n, x)
    BY <2>1 DEF HeapsWork
  <2>3. HeapBecomes(h, Swapped(a, s, x), n) /\ loc'[p].heap = h /\ loc'[p].idx = s
    <3> HIDE DEF Swapped, s
    <3> QED
      BY <2>1, SwapIs
  <2>4. m \in Nat /\ n \in 0 .. m /\ a \in [0 .. m -> Int] /\ heaps[h].heap_type \in Int
        /\ n \in 0 .. heaps[h].capacity
    BY <1>1, <2>1, <2>2
  <2>5. Sinking(heaps[h].heap_type, Swapped(a, s, x), n, s)
    <3> HIDE DEF h, n, x, m, a, TopOfThree, Swapped
    <3> QED
      BY <2>1, <2>2, <2>4, SinkGoesOn
  <2>6. loc[p].heap = h
    OBVIOUS
  <2> HIDE DEF h, n, x, m, a, s, Swapped
  <2> QED
    BY <2>1, <2>2, <2>3, <2>4, <2>5, <2>6, OneHeapWorks
<1> QED
  BY <1>2, <1>3, <1>4, <1>5, <1>6 DEF HeapCall

LEMMA StepKeepsHeaps ==
  ASSUME NEW K, NEW T, K \subseteq Int, T \subseteq Int, TakeTurns, DeviceTypes(K, T),
         DeviceTypes(K, T)', MutexInv, TableInv, HeapsWork, UsesOwnHeap, NEW p \in Pids, AloneStep(p)
  PROVE  HeapsWork'
<1> USE DEF DeviceTypes
<1>0. /\ \A q \in Pids : q # p => pc[q] = "idle" /\ pc'[q] = "idle"
      /\ DOMAIN pc = Pids
  BY StepIsAlone DEF CallsOK
<1>1. CASE Plain(p) /\ HeapCall(p)
  BY <1>0, <1>1, HeapCallKeepsHeaps
<1>2. CASE Plain(p) /\ Steady(p)
  <2>1. heaps' = heaps /\ pc'[p] \notin {"up", "down"}
    BY <1>2 DEF Steady
  <2>2. ASSUME NEW h \in DOMAIN heaps
        PROVE  Ordered(heaps[h].heap_type, heaps[h].arr, heaps[h].count)
    <3>1. CASE Sifted(h)
      <4>1. pc[p] = "down" /\ loc[p].heap = h /\ Popped(p)
        BY <1>0, <1>2, <3>1 DEF Sifted, Steady
      <4> DEFINE n == heaps[h].count
                 x == loc[p].idx
                 m == heaps[h].capacity - 1
                 a == heaps[h].arr
      <4>2. TopOfThree(heaps[h].heap_type, a, n, x) = x
        <5> HIDE DEF TopOfThree
        <5> QED
          BY <4>1 DEF Popped, Sink
      <4>3. n < heaps[h].capacity /\ Sinking(heaps[h].heap_type, a, n, x)
        BY <4>1 DEF HeapsWork
      <4>4. m \in Nat /\ n \in 0 .. m /\ a \in [0 .. m -> Int] /\ heaps[h].heap_type \in Int
        <5>1. /\ heaps[h].capacity \in Nat /\ heaps[h].capacity - 1 \in Nat
              /\ heaps[h].count \in 0 .. heaps[h].capacity
              /\ heaps[h].arr \in [0 .. heaps[h].capacity - 1 -> Int]
              /\ heaps[h].heap_type \in Int
          BY HeapIs
        <5> QED
          BY <4>3, <5>1
      <4> HIDE DEF n, x, m, a, TopOfThree
      <4>5. Ordered(heaps[h].heap_type, a, n)
        BY <4>2, <4>3, <4>4, SinkEnds
      <4> QED
        BY <4>5 DEF a, n
    <3>2. CASE ~ Sifted(h)
      BY <3>2 DEF HeapsWork
    <3> QED
      BY <3>1, <3>2
  <2>3. \A q \in Pids : pc'[q] \notin {"up", "down"}
    BY <1>0, <2>1
  <2> QED
    BY <2>1, <2>2, <2>3 DEF HeapsWork
<1>3. CASE AnyCall(p) \/ TableStep(p) \/ GoodSetUp(p)
  <2>1. pc[p] \notin {"up", "down"} /\ pc'[p] \notin {"up", "down"}
    BY <1>0, <1>3
       DEF AnyCall, Call, ReleaseCall, MayCall, Idle, TableStep, Walk, OpenAllocates, NotFound, OpenBusy,
           OpenLocks, KeyAdd, ReleaseBusy, ReleaseLocks, KeyDel, KeyDelClear, KeyDelFree, KeyDelNone,
           PrintKeyUnlock, Return, Goto, GoodSetUp, InitCreates, InitCreatesAgain, InitDestroys, InitStores,
           CreateHeap
  <2>2. ASSUME NEW h \in DOMAIN heaps'
        PROVE  \/ h \in DOMAIN heaps /\ heaps'[h] = heaps[h]
               \/ heaps'[h].capacity \in Nat \ {0} /\ heaps'[h].count = 0
    <3>1. CASE \E g : heaps' = DestroyHeap(g)
      BY <3>1 DEF DestroyHeap, Without
    <3>2. CASE heaps' = heaps
      BY <3>2
    <3>3. CASE \E size \in Nat \ {0}, type \in Int : CreateHeap(p, heaps, size, type)
      <4>1. PICK size \in Nat \ {0}, type \in Int : CreateHeap(p, heaps, size, type)
        BY <3>3
      <4> DEFINE g == Kmalloc(HeapIds, DOMAIN heaps)
      <4>2. NewHeap(size, type).capacity = size /\ NewHeap(size, type).count = 0
        BY DEF NewHeap
      <4>3. heaps' = heaps \/ heaps' = With(heaps, g, NewHeap(size, type))
        BY <4>1 DEF CreateHeap
      <4> HIDE DEF g
      <4> QED
        BY <4>2, <4>3 DEF With
    <3>4. CASE AnyCall(p)
      BY <3>2, <3>4 DEF AnyCall, Call, ReleaseCall
    <3>5. CASE TableStep(p)
      BY <3>1, <3>2, <3>5
         DEF TableStep, Walk, OpenAllocates, OpenBusy, OpenLocks, KeyAdd, ReleaseBusy, ReleaseLocks, KeyDel,
             KeyDelClear, KeyDelFree, KeyDelNone, PrintKeyUnlock
    <3>6. CASE GoodSetUp(p)
      BY <3>1, <3>2, <3>3, <3>6 DEF GoodSetUp, InitCreates, InitCreatesAgain, InitDestroys, InitStores
    <3> QED
      BY <1>3, <3>4, <3>5, <3>6
  <2> QED
    BY <1>0, <2>1, <2>2, OtherHeapsWork
<1> QED
  BY <1>1, <1>2, <1>3 DEF AloneStep

LEMMA StepKeepsAlone ==
  ASSUME NEW K, NEW T, K \subseteq Int, T \subseteq Int, TakeTurns, DeviceTypes(K, T),
         DeviceTypes(K, T)', MutexInv, TableInv, OwnerInv, TurnsInv, AloneInv,
         \/ \E p \in Pids : AloneStep(p)
         \/ HelloExit \/ HelloInit \/ Untouched
  PROVE  AloneInv'
<1>1. ASSUME NEW p \in Pids, AloneStep(p)
      PROVE  AloneInv'
  BY <1>1, StepKeepsOneEntry, StepKeepsPassed, StepKeepsUse, StepKeepsHeaps DEF AloneInv
<1>2. CASE HelloExit \/ HelloInit
  <2>1. Listed' = {} /\ \A p \in Pids : pc[p] = "idle" /\ pc'[p] = "idle"
    BY <1>2, LoadingMovesList DEF HelloExit, HelloInit, Quiet, Idle
  <2>2. heaps' = heaps
    BY <1>2 DEF HelloExit, HelloInit
  <2>3. HeapsWork'
    BY <2>1, <2>2 DEF AloneInv, HeapsWork, Sifted
  <2> QED
    BY <2>1, <2>3 DEF AloneInv, OneEntry, PassedOthers, UsesOwnHeap, Opening, UseLabels
<1>3. CASE Untouched
  <2>1. nodes' = nodes /\ heaps' = heaps /\ pc' = pc /\ loc' = loc /\ entry' = entry
    BY <1>3 DEF Untouched
  <2>2. Visit' = Visit
    BY <2>1 DEF Visit
  <2>3. Listed' = Listed
    BY <2>1, <2>2 DEF Listed
  <2>4. OneEntry' /\ UsesOwnHeap' /\ HeapsWork'
    BY <2>1, <2>3 DEF AloneInv, OneEntry, UsesOwnHeap, HeapsWork, Sifted
  <2>5. PassedOthers'
    BY <2>1, <2>2 DEF AloneInv, PassedOthers, OwnAt
  <2> QED
    BY <2>4, <2>5 DEF AloneInv
<1> QED
  BY <1>1, <1>2, <1>3

LEMMA InitAlone ==
  ASSUME Init, Listed = {}
  PROVE  AloneInv
<1>1. DOMAIN heaps = {} /\ \A p \in Pids : pc[p] = "idle"
  BY DEF Init
<1> QED
  BY <1>1 DEF AloneInv, OneEntry, PassedOthers, UsesOwnHeap, HeapsWork, Opening, UseLabels
-----------------------------------------------------------------------------
(* Memory for an h_struct of each process.                                 *)
NodesSuffice == IsFiniteSet(Pids) /\ Cardinality(Pids) <= MaxNodes

(* Then kmalloc finds room for one more: the others have one each.         *)
LEMMA RoomToOpen ==
  ASSUME NEW K, NEW T, TakeTurns, NodesSuffice, DeviceTypes(K, T), MutexInv, TableInv, TurnsInv, AloneInv,
         NEW p \in Pids, NotFound(p)
  PROVE  ~ (NodeIds \subseteq DOMAIN nodes)
<1> SUFFICES ASSUME NodeIds \subseteq DOMAIN nodes
             PROVE  FALSE
  OBVIOUS
<1>1. \A q \in Pids : q # p => pc[q] = "idle"
  BY OthersAreIdle DEF NotFound, Idle
<1>2. Loaded
  BY DEF MutexInv, Quiet, Idle, NotFound
<1>3. NodeIds \subseteq Listed
  <2>1. Htable \notin NodeIds
    BY IdsAreNaturals
  <2>2. \A q \in Pids : pc[q] \notin Opening \cup {"del_clear", "del_free"}
    BY <1>1 DEF NotFound, Opening
  <2> QED
    BY <1>2, <2>1, <2>2 DEF TurnsInv, AllListed
<1>4. \A n \in Listed : nodes[n].key # p
  BY <1>2, NotFoundIsNone DEF AloneInv, DeviceTypes, TableInv
<1> DEFINE key == [n \in NodeIds |-> nodes[n].key]
<1>5. key \in Injection(NodeIds, Pids \ {p})
  <2>1. key \in [NodeIds -> Pids \ {p}]
    BY <1>3, <1>4 DEF TableInv, ListedKeys
  <2>2. \A m, n \in NodeIds : key[m] = key[n] => m = n
    BY <1>3 DEF AloneInv, OneEntry
  <2> HIDE DEF key
  <2> QED
    BY <2>1, <2>2, Fun_IsInj
<1>6. IsFiniteSet(Pids \ {p}) /\ Cardinality(Pids \ {p}) = Cardinality(Pids) - 1
  BY FS_RemoveElement DEF NodesSuffice
<1>7. Cardinality(NodeIds) = MaxNodes
  BY FS_Interval, BoundsAreNaturals DEF NodeIds
<1>8. Cardinality(NodeIds) <= Cardinality(Pids \ {p})
  BY <1>5, <1>6, FS_Injection
<1>9. Cardinality(Pids) \in Nat
  BY FS_CardinalityType DEF NodesSuffice
<1> QED
  BY <1>6, <1>7, <1>8, <1>9, BoundsAreNaturals DEF NodesSuffice

(* A sift stays inside its heap.                                           *)
LEMMA SiftsAreInBounds ==
  ASSUME NEW K, NEW T, K \subseteq Int, T \subseteq Int, DeviceTypes(K, T), AloneInv,
         NEW p \in Pids, pc[p] \in {"up", "down"}
  PROVE  SiftInBounds(p)
<1> DEFINE h == loc[p].heap
<1>1. h \in DOMAIN heaps
  BY DEF AloneInv, UsesOwnHeap, UseLabels
<1>2. heaps[h].capacity \in Nat /\ heaps[h].count \in 0 .. heaps[h].capacity
      /\ heaps[h].count < heaps[h].capacity
  BY <1>1 DEF AloneInv, HeapsWork
<1>3. loc[p].idx \in 0 .. heaps[h].count
  <2>1. CASE pc[p] = "up"
    BY <2>1 DEF AloneInv, HeapsWork, Rising
  <2>2. CASE pc[p] = "down"
    BY <1>2, <2>2 DEF AloneInv, HeapsWork, Sinking
  <2> QED
    BY <2>1, <2>2
<1> QED
  BY <1>1, <1>2, <1>3 DEF SiftInBounds, InBounds

(* No step of LkmDevice faults or spins.                                   *)
LEMMA AloneIsSafe ==
  ASSUME NEW K, NEW T, K \subseteq Int, T \subseteq Int, TakeTurns, NodesSuffice, DeviceTypes(K, T), MutexInv,
         TableInv, OwnerInv, TurnsInv, AloneInv, NEW p \in Pids
  PROVE  ~ DeviceFault(p) /\ ~ SetUpFault(p) /\ ~ Spins(p)
<1> SUFFICES ASSUME pc[p] # "idle"
             PROVE  ~ DeviceFault(p) /\ ~ SetUpFault(p) /\ ~ Spins(p)
  BY DEF DeviceFault, SetUpFault, Spins, NotFound, Found
<1>1. \A q \in Pids : q # p => pc[q] = "idle"
  BY OthersAreIdle DEF Idle
<1>2. Loaded /\ ListEnds
  <2>1. Loaded
    BY DEF MutexInv, Quiet, Idle
  <2> QED
    BY <2>1, ListOKEnds DEF TableInv, DeviceTypes, NodesOK
<1>3. ~ ListDangles /\ ~ ListIsCyclic
  <2>1. Null \notin DOMAIN nodes
    BY IdsAreNaturals DEF DeviceTypes, NodesOK, Addresses, Null, Htable
  <2> QED
    BY <1>2, <2>1 DEF ListEnds, ListDangles, ListIsCyclic
<1>4. ~ SetUpFault(p)
  <2>1. ASSUME pc[p] \in {"init", "init_again", "init_store"}
        PROVE  entry \in Listed /\ entry \in DOMAIN nodes
    BY <2>1 DEF OwnerInv, SetUpEntry, SetUpLabels, Listed
  <2>2. ASSUME pc[p] = "init"
        PROVE  nodes[entry].global_heap \in DOMAIN heaps \cup {Null}
    <3>1. ~ Replacing(entry)
      BY <1>1, <2>2 DEF Replacing
    <3> QED
      BY <2>1, <2>2, <3>1 DEF OwnerInv, PtrInv, HeapPtrs
  <2> QED
    BY <2>1, <2>2 DEF SetUpFault
<1>5. pc[p] = "walk" => loc[p].cur \in DOMAIN nodes \cup {Null}
  <2> SUFFICES ASSUME pc[p] = "walk"
               PROVE  loc[p].cur \in DOMAIN nodes \cup {Null}
    OBVIOUS
  <2>1. PICK i \in 1 .. MaxNodes + 1 : loc[p].cur = Visit[i]
    BY DEF AloneInv, PassedOthers
  <2>2. PICK k, L : IsList(nodes, k, L)
    BY <1>2 DEF TableInv, ListOK
  <2>3. Visit[i] = IF i <= k THEN L[i] ELSE Null
    BY <2>2, WalkOf, BoundsAreNaturals DEF WalkFacts, DeviceTypes, NodesOK
  <2> QED
    BY <2>1, <2>2, <2>3 DEF IsList
<1>6. ~ (NotFound(p) /\ loc[p].op = "open" /\ NodeIds \subseteq DOMAIN nodes)
  BY RoomToOpen
<1>7. pc[p] = "add" => entry \in DOMAIN nodes
  BY DEF TableInv, FreshEntry, Opening
<1>8. pc[p] = "del" => \A i \in 1 .. MaxNodes + 1 :
        FirstOwn(p, i) => nodes[Visit[i]].global_heap \in DOMAIN heaps \cup {Null}
  <2> SUFFICES ASSUME pc[p] = "del", NEW i \in 1 .. MaxNodes + 1, FirstOwn(p, i)
               PROVE  nodes[Visit[i]].global_heap \in DOMAIN heaps \cup {Null}
    OBVIOUS
  <2>1. Visit[i] \in Listed
    BY DEF FirstOwn, OwnAt, Listed
  <2>2. ~ Replacing(Visit[i])
    BY <1>1 DEF Replacing
  <2> QED
    BY <2>1, <2>2 DEF OwnerInv, PtrInv, HeapPtrs
<1>9. pc[p] \in {"del_clear", "del_free"} => loc[p].cur \in DOMAIN nodes
  BY DEF TableInv, Unlinked
<1>10. pc[p] = "insert" => /\ entry \in DOMAIN nodes /\ InsertTarget \in DOMAIN heaps
                           /\ ~ (heaps[InsertTarget].count < 0)
  <2>1. pc[p] = "insert" => entry \in DOMAIN nodes /\ InsertTarget \in DOMAIN heaps
    BY DEF AloneInv, UsesOwnHeap, UseLabels, Listed, InsertTarget
  <2>2. \A h \in DOMAIN heaps : ~ (heaps[h].count < 0)
    BY DEF AloneInv, HeapsWork
  <2> QED
    BY <2>1, <2>2
<1>11. pc[p] \in {"up", "down"} => SiftInBounds(p)
  BY SiftsAreInBounds
<1>12. Found(p) /\ OwnHeap(p) # Null => InBounds(OwnHeap(p))
  <2>1. Found(p) => OwnHeap(p) \in DOMAIN heaps \cup {Null}
    BY OwnHeapIs
  <2>2. \A h \in DOMAIN heaps : InBounds(h)
    BY DEF AloneInv, HeapsWork, InBounds
  <2> QED
    BY <2>1, <2>2
<1>13. ~ DeviceFault(p)
  BY <1>3, <1>5, <1>6, <1>7, <1>8, <1>9, <1>10, <1>11, <1>12 DEF DeviceFault
<1>14. ~ Spins(p)
  BY <1>3 DEF Spins
<1> QED
  BY <1>4, <1>13, <1>14

(* The steps of LkmDevice are such steps.                                  *)
LEMMA DeviceStepIsAlone ==
  ASSUME NEW K, NEW T, DeviceTypes(K, T), NEW p \in Pids, DeviceStep(p)
  PROVE  TableStep(p) \/ (Plain(p) /\ (HeapCall(p) \/ Steady(p)))
<1>0. CallsOK(K) /\ DOMAIN pc = Pids
  BY DEF DeviceTypes, CallsOK
<1>1. TableStep(p) \/ Plain(p)
  BY <1>0, DeviceStepIsShared
<1>2. ASSUME NEW v, Return(p, v), heaps' = heaps, pc[p] \notin {"up", "down"}
      PROVE  Steady(p)
  BY <1>0, <1>2 DEF Return, Goto, Steady, UseLabels
<1>3. CASE OpenTwice(p) \/ InsertFull(p) \/ NoEntry(p) \/ ReadUnset(p) \/ ReadReturns(p)
  <2>1. heaps' = heaps /\ pc[p] \notin {"up", "down"} /\ \E v : Return(p, v)
    BY <1>3 DEF OpenTwice, InsertFull, NoEntry, ReadUnset, ReadReturns, Found, NotFound
  <2> QED
    BY <1>1, <1>2, <2>1 DEF TableStep
<1>4. CASE ReadEmpty(p)
  <2>1. OwnHeap(p) # Null
    BY <1>4, IdsAreNaturals DEF ReadEmpty, DeviceTypes, HeapsOK, Null
  <2>2. Found(p) /\ entry' = loc[p].cur /\ heaps' = heaps /\ pc[p] = "walk" /\ pc'[p] = "copy"
    BY <1>0, <1>4 DEF ReadEmpty, Found, Goto
  <2> QED
    BY <1>1, <2>1, <2>2 DEF Steady
<1>5. CASE ReadSetsTopnode(p)
  BY <1>0, <1>1, <1>5 DEF ReadSetsTopnode, Popped, Goto, Steady, UseLabels
<1>6. CASE CopyToUser(p)
  BY <1>0, <1>1, <1>6 DEF CopyToUser, Goto, Steady, UseLabels
<1>7. CASE ReadPops(p)
  BY <1>1, <1>7 DEF ReadPops, HeapCall, PopsOwn
<1> QED
  BY <1>1, <1>3, <1>4, <1>5, <1>6, <1>7 DEF DeviceStep, TableStep, HeapCall

-----------------------------------------------------------------------------
(* The queue of a process: how many cells of its heap hold keys, and which *)
(* keys these are.                                                         *)
Filled(p, h) == heaps[h].count + (IF pc[p] = "up" THEN 1 ELSE 0)

FilledNext(p, h) == heaps'[h].count + (IF pc'[p] = "up" THEN 1 ELSE 0)

QueueWith(type, capacity, n, a, K) ==
  [heap_type |-> OrderOf(type), capacity |-> capacity, count |-> n,
   bag |-> [k \in K |-> Count(a, n, k)]]

HeapsHold(KP) ==
  \A n \in Listed : nodes[n].global_heap \in DOMAIN heaps =>
    LET p == nodes[n].key
        h == nodes[n].global_heap
    IN  \A i \in 0 .. Filled(p, h) - 1 : heaps[h].arr[i] \in KP[p]

SerialInv == TableInv /\ OwnerInv /\ AloneInv

(* A heap belongs to one entry: a key rises in it when its owner inserts.  *)
LEMMA RisingIsOwn ==
  ASSUME SerialInv, NEW n \in Listed, nodes[n].global_heap \in DOMAIN heaps
  PROVE  (\E q \in Pids : pc[q] = "up" /\ loc[q].heap = nodes[n].global_heap) <=> pc[nodes[n].key] = "up"
<1>1. nodes[n].key \in Pids
  BY DEF SerialInv, TableInv, ListedKeys
<1>2. ASSUME NEW q \in Pids, pc[q] = "up"
      PROVE  /\ entry \in Listed /\ nodes[entry].key = q /\ loc[q].heap = nodes[entry].global_heap
             /\ nodes[entry].global_heap \in DOMAIN heaps
  BY <1>2 DEF SerialInv, AloneInv, UsesOwnHeap, UseLabels
<1>3. \A m \in Listed : nodes[m].global_heap = nodes[n].global_heap => m = n
  BY DEF SerialInv, OwnerInv, PtrInv, OneOwner
<1>4. \A m \in Listed : nodes[m].key = nodes[n].key => m = n
  BY DEF SerialInv, AloneInv, OneEntry
<1> QED
  BY <1>1, <1>2, <1>3, <1>4

(* The cells of a heap that hold keys, counted.                            *)
LEMMA CellsAre ==
  ASSUME NEW c \in Nat, NEW a, NEW k
  PROVE  /\ Cardinality(0 .. c - 1) = c
         /\ Cardinality({i \in 0 .. c - 1 : a[i] = k}) = Count(a, c, k)
<1>1. Cardinality(0 .. c - 1) = c
  <2>1. 0 \in Int /\ c - 1 \in Int
    OBVIOUS
  <2> QED
    BY <2>1, FS_Interval
<1> QED
  BY <1>1 DEF Count, Holding

(* So the queue that an entry stands for is what its heap holds.           *)
OwnQueue ==
  SerialInv =>
    \A K : \A n \in Listed :
      QueueOf(nodes[n].key, K) =
        LET p == nodes[n].key
            h == nodes[n].global_heap
        IN  IF h \in DOMAIN heaps
            THEN QueueWith(heaps[h].heap_type, heaps[h].capacity, Filled(p, h), heaps[h].arr, K)
            ELSE [bag |-> << >>]

LEMMA OwnQueueIs == OwnQueue
<1> SUFFICES ASSUME SerialInv, NEW K, NEW n \in Listed
             PROVE  QueueOf(nodes[n].key, K) =
                      LET p == nodes[n].key
                          h == nodes[n].global_heap
                      IN  IF h \in DOMAIN heaps
                          THEN QueueWith(heaps[h].heap_type, heaps[h].capacity, Filled(p, h), heaps[h].arr, K)
                          ELSE [bag |-> << >>]
  BY DEF OwnQueue
<1> DEFINE p == nodes[n].key
           h == nodes[n].global_heap
           own == HeapsOf(p)
<1>1. EntriesOf(p) = {n}
  BY DEF EntriesOf, SerialInv, AloneInv, OneEntry
<1>2. own = {h} \cap DOMAIN heaps
  BY <1>1 DEF HeapsOf
<1>3. CASE h \notin DOMAIN heaps
  <2>1. own = {}
    BY <1>2, <1>3
  <2> QED
    BY <1>3, <2>1 DEF QueueOf
<1>4. CASE h \in DOMAIN heaps
  <2>1. HeapsOf(p) = {h}
    BY <1>2, <1>4
  <2> DEFINE m == Filled(p, h)
  <2>2. m \in Nat /\ CellsOf(h) = 0 .. m - 1
    <3>1. heaps[h].count \in Nat
      BY <1>4 DEF SerialInv, AloneInv, HeapsWork
    <3>2. (\E q \in Pids : pc[q] = "up" /\ loc[q].heap = h) <=> pc[p] = "up"
      BY <1>4, RisingIsOwn
    <3> QED
      BY <3>1, <3>2 DEF CellsOf, Filled
  <2> HIDE DEF m
  <2>3. QueueOf(p, K) =
          [heap_type |-> OrderOf(heaps[h].heap_type), capacity |-> heaps[h].capacity,
           count |-> Cardinality(0 .. m - 1),
           bag |-> [k \in K |-> Cardinality({i \in 0 .. m - 1 : heaps[h].arr[i] = k})]]
    <3>1. {QueueIn(x, K) : x \in HeapsOf(p)} = {QueueIn(h, K)} /\ HeapsOf(p) # {}
      BY <2>1
    <3>2. QueueOf(p, K) = QueueIn(h, K)
      BY <3>1 DEF QueueOf
    <3> QED
      BY <2>2, <3>2 DEF QueueIn
  <2>4. QueueOf(p, K) = QueueWith(heaps[h].heap_type, heaps[h].capacity, m, heaps[h].arr, K)
    BY <2>2, <2>3, CellsAre DEF QueueWith
  <2> QED
    BY <1>4, <2>4 DEF m
<1> QED
  BY <1>3, <1>4

LEMMA OwnQueueIsNext == OwnQueue'
BY OwnQueueIs, PTL

(* A process without an entry has no queue.                                *)
LEMMA NoEntryNoQueue ==
  ASSUME NEW K, NEW p, \A n \in Listed : nodes[n].key # p
  PROVE  QueueOf(p, K) = [bag |-> << >>]
BY DEF QueueOf, HeapsOf, EntriesOf

NoneNone == \A K, p : (\A n \in Listed : nodes[n].key # p) => QueueOf(p, K) = [bag |-> << >>]

LEMMA NoQueueIs == NoneNone
BY NoEntryNoQueue DEF NoneNone

LEMMA NoQueueIsNext == NoneNone'
BY NoQueueIs, PTL

(* A queue stays what it is when its heap holds the same keys.             *)
LEMMA QueueStays ==
  ASSUME SerialInv, SerialInv', NEW p \in Pids, NEW K,
         {n \in Listed' : nodes'[n].key = p} = EntriesOf(p),
         \A n \in EntriesOf(p) :
           LET h == nodes[n].global_heap
           IN  /\ nodes'[n].global_heap = h \/ {h, nodes'[n].global_heap} \cap (DOMAIN heaps \cup DOMAIN heaps') = {}
               /\ h \in DOMAIN heaps <=> h \in DOMAIN heaps'
               /\ h \in DOMAIN heaps =>
                    /\ heaps'[h].heap_type = heaps[h].heap_type
                    /\ heaps'[h].capacity = heaps[h].capacity
                    /\ FilledNext(p, h) = Filled(p, h)
                    /\ \A k : Count(heaps'[h].arr, Filled(p, h), k) = Count(heaps[h].arr, Filled(p, h), k)
  PROVE  QueueOf(p, K)' = QueueOf(p, K)
<1>1. CASE EntriesOf(p) = {}
  <2>1. (\A n \in Listed : nodes[n].key # p) /\ (\A n \in Listed' : nodes'[n].key # p)
    BY <1>1 DEF EntriesOf
  <2> QED
    BY <2>1, NoQueueIs, NoQueueIsNext DEF NoneNone
<1>2. ASSUME NEW n \in EntriesOf(p)
      PROVE  QueueOf(p, K)' = QueueOf(p, K)
  <2> DEFINE h == nodes[n].global_heap
  <2>1. n \in Listed /\ nodes[n].key = p /\ n \in Listed' /\ nodes'[n].key = p
    BY DEF EntriesOf
  <2>2. QueueOf(p, K) = IF h \in DOMAIN heaps
                        THEN QueueWith(heaps[h].heap_type, heaps[h].capacity, Filled(p, h), heaps[h].arr, K)
                        ELSE [bag |-> << >>]
    BY <2>1, OwnQueueIs DEF OwnQueue
  <2> DEFINE g == nodes'[n].global_heap
  <2>3. QueueOf(p, K)' = IF g \in DOMAIN heaps'
                         THEN QueueWith(heaps'[g].heap_type, heaps'[g].capacity, FilledNext(p, g), heaps'[g].arr, K)
                         ELSE [bag |-> << >>]
    BY <2>1, OwnQueueIsNext DEF OwnQueue, Filled, FilledNext
  <2>4. CASE h \notin DOMAIN heaps
    BY <2>2, <2>3, <2>4
  <2>5. CASE h \in DOMAIN heaps
    <3>1. g = h /\ h \in DOMAIN heaps'
      BY <2>5
    <3>2. QueueWith(heaps'[h].heap_type, heaps'[h].capacity, FilledNext(p, h), heaps'[h].arr, K)
            = QueueWith(heaps[h].heap_type, heaps[h].capacity, Filled(p, h), heaps[h].arr, K)
      BY <2>5 DEF QueueWith
    <3> QED
      BY <2>2, <2>3, <2>5, <3>1, <3>2
  <2> QED
    BY <2>4, <2>5
<1> QED
  BY <1>1, <1>2

(* A step changes no heap but the one of the caller's entry.               *)
LEMMA OnlyOwnHeapChanges ==
  ASSUME NEW K, NEW T, TakeTurns, DeviceTypes(K, T), MutexInv, SerialInv, NEW p \in Pids, AloneStep(p),
         NEW h \in DOMAIN heaps
  PROVE  \/ h \in DOMAIN heaps' /\ heaps'[h] = heaps[h]
         \/ \E n \in Listed : nodes[n].key = p /\ nodes[n].global_heap = h
<1> USE DEF DeviceTypes, SerialInv
<1>1. CASE heaps' = heaps
  BY <1>1
<1>2. ASSUME NEW g, NEW a, NEW n, HeapBecomes(g, a, n), g # h
      PROVE  h \in DOMAIN heaps' /\ heaps'[h] = heaps[h]
  BY <1>2 DEF HeapBecomes
<1>3. pc[p] \in UseLabels \cup SetUpLabels => entry \in Listed /\ nodes[entry].key = p
  BY DEF OwnerInv, SetUpEntry, AloneInv, UsesOwnHeap
<1>4. CASE Plain(p) /\ HeapCall(p)
  <2>1. CASE Insert(p)
    <3>1. \E a, n : HeapBecomes(nodes[entry].global_heap, a, n)
      BY <2>1, InsertIs DEF InsertTarget
    <3>2. pc[p] \in UseLabels
      BY <2>1 DEF Insert, UseLabels
    <3> QED
      BY <1>2, <1>3, <3>1, <3>2
  <2>2. CASE HeapifyBottomTop(p) \/ HeapifyTopBottom(p)
    <3>1. PICK i, j : /\ loc' = [loc EXCEPT ![p].idx = i] /\ loc[p].heap \in DOMAIN heaps
                      /\ heaps' = [heaps EXCEPT ![loc[p].heap].arr = Swapped(@, i, j)]
      <4> HIDE DEF Swapped, Sink, Parent
      <4> QED
        BY <2>2 DEF HeapifyBottomTop, HeapifyTopBottom, SiftInBounds, InBounds
    <3>2. \E a, n : HeapBecomes(loc[p].heap, a, n)
      BY <3>1, SwapIs
    <3>3. pc[p] \in UseLabels /\ loc[p].heap = nodes[entry].global_heap
      BY <2>2 DEF HeapifyBottomTop, HeapifyTopBottom, UseLabels, AloneInv, UsesOwnHeap
    <3> QED
      BY <1>2, <1>3, <3>2, <3>3
  <2>3. CASE InsertReturns(p)
    <3>1. \E a, n : HeapBecomes(loc[p].heap, a, n)
      BY <2>3, InsertReturnsIs
    <3>2. pc[p] \in UseLabels /\ loc[p].heap = nodes[entry].global_heap
      BY <2>3 DEF InsertReturns, UseLabels, AloneInv, UsesOwnHeap
    <3> QED
      BY <1>2, <1>3, <3>1, <3>2
  <2>4. CASE PopsOwn(p)
    <3>1. \E a, n : HeapBecomes(OwnHeap(p), a, n)
      BY <2>4, PopIs DEF PopsOwn
    <3>2. loc[p].cur \in Listed /\ nodes[loc[p].cur].key = p
      BY <2>4, OwnHeapIs DEF PopsOwn
    <3> QED
      BY <1>2, <3>1, <3>2 DEF OwnHeap
  <2> QED
    BY <1>4, <2>1, <2>2, <2>3, <2>4 DEF HeapCall
<1>5. CASE Plain(p) /\ Steady(p)
  BY <1>5 DEF Steady
<1>6. CASE AnyCall(p)
  BY <1>6 DEF AnyCall, Call, ReleaseCall
<1>7. CASE TableStep(p)
  <2>1. CASE KeyDel(p)
    <3>1. PICK i \in 1 .. MaxNodes + 1 : /\ FirstOwn(p, i)
                                        /\ heaps' = DestroyHeap(nodes[Visit[i]].global_heap)
      BY <2>1 DEF KeyDel
    <3>2. Visit[i] \in Listed /\ nodes[Visit[i]].key = p
      BY <3>1 DEF FirstOwn, OwnAt, Listed
    <3> QED
      BY <3>1, <3>2 DEF DestroyHeap, Without
  <2>2. CASE ~ KeyDel(p)
    BY <1>7, <2>2 DEF TableStep, Walk, OpenAllocates, OpenBusy, OpenLocks, KeyAdd, ReleaseBusy, ReleaseLocks,
       KeyDelClear, KeyDelFree, KeyDelNone, PrintKeyUnlock
  <2> QED
    BY <2>1, <2>2
<1>8. CASE GoodSetUp(p)
  <2>1. CASE InitDestroys(p)
    <3>1. heaps' = DestroyHeap(nodes[entry].global_heap) /\ pc[p] \in SetUpLabels
      BY <2>1 DEF InitDestroys, SetUpLabels
    <3> QED
      BY <1>3, <3>1 DEF DestroyHeap, Without
  <2>2. CASE InitStores(p)
    BY <2>2 DEF InitStores
  <2>3. CASE \E size, type : CreateHeap(p, heaps, size, type)
    <3>1. PICK size, type : CreateHeap(p, heaps, size, type)
      BY <2>3
    <3> DEFINE g == Kmalloc(HeapIds, DOMAIN heaps)
    <3>2. g = Null \/ g \notin DOMAIN heaps
      BY KmallocFresh, IdsAreNaturals
    <3>3. heaps' = IF g = Null THEN heaps ELSE With(heaps, g, NewHeap(size, type))
      BY <3>1 DEF CreateHeap
    <3> HIDE DEF g
    <3> QED
      BY <3>2, <3>3 DEF With
  <2> QED
    BY <1>8, <2>1, <2>2, <2>3 DEF GoodSetUp, InitCreates, InitCreatesAgain
<1> QED
  BY <1>4, <1>5, <1>6, <1>7, <1>8 DEF AloneStep

(* So a call leaves the queues of the other processes alone.               *)
LEMMA OthersKeepQueues ==
  ASSUME NEW K, NEW T, TakeTurns, DeviceTypes(K, T), DeviceTypes(K, T)', MutexInv, SerialInv, SerialInv',
         NEW p \in Pids, AloneStep(p), NEW q \in Pids, q # p, NEW KS
  PROVE  QueueOf(q, KS)' = QueueOf(q, KS)
<1> USE DEF DeviceTypes, SerialInv
<1>1. AnyCall(p) \/ TableStep(p) \/ SetUpStep(p) \/ Plain(p)
  BY AloneIsShared
<1>2. pc[q] = "idle" /\ pc'[q] = "idle" /\ KeysKept
  BY StepIsAlone
<1>3. {n \in Listed' : nodes'[n].key = q} = EntriesOf(q)
  BY <1>1, EntriesMove DEF EntriesOf
<1>4. ASSUME NEW n \in EntriesOf(q)
      PROVE  nodes'[n].global_heap = nodes[n].global_heap
  <2>1. n \in Listed /\ n \in Listed' /\ nodes[n].key = q /\ n \in DOMAIN nodes
    BY <1>3 DEF EntriesOf, Listed
  <2>2. CASE AnyCall(p) \/ TableStep(p) \/ Plain(p)
    BY <2>1, <2>2, HeapsMove
  <2>3. CASE SetUpStep(p)
    <3>1. nodes[entry].key = p
      BY <2>3 DEF SetUpStep, InitCreates, InitCreatesAgain, InitDestroys, InitStores, OwnerInv, SetUpEntry,
         SetUpLabels
    <3> QED
      BY <2>1, <2>3, <3>1 DEF SetUpStep, InitCreates, InitCreatesAgain, InitDestroys, InitStores
  <2> QED
    BY <1>1, <2>2, <2>3
<1>5. ASSUME NEW n \in EntriesOf(q)
      PROVE  LET h == nodes[n].global_heap
             IN  /\ h \in DOMAIN heaps <=> h \in DOMAIN heaps'
                 /\ h \in DOMAIN heaps => heaps'[h] = heaps[h]
  <2> DEFINE h == nodes[n].global_heap
  <2>1. n \in Listed /\ nodes[n].key = q
    BY DEF EntriesOf
  <2>2. CASE h \in DOMAIN heaps
    <3>1. \A m \in Listed : nodes[m].global_heap = h => m = n
      BY <2>1, <2>2 DEF OwnerInv, PtrInv, OneOwner
    <3> QED
      BY <2>1, <2>2, <3>1, OnlyOwnHeapChanges
  <2>3. CASE h \notin DOMAIN heaps
    <3>1. ~ Replacing(n)
      <4>1. ASSUME NEW r \in Pids, pc[r] \in {"init_again", "init_store"}
            PROVE  nodes[entry].key = r /\ r = p
        BY <4>1, StepIsAlone DEF OwnerInv, SetUpEntry, SetUpLabels
      <4> QED
        BY <2>1, <4>1 DEF Replacing
    <3>2. h = Null
      BY <2>1, <2>3, <3>1 DEF OwnerInv, PtrInv, HeapPtrs
    <3>3. Null \notin DOMAIN heaps'
      BY IdsAreNaturals DEF HeapsOK
    <3> QED
      BY <2>3, <3>2, <3>3
  <2> QED
    BY <2>2, <2>3
<1> QED
  <2>1. \A n \in EntriesOf(q) :
          LET h == nodes[n].global_heap
          IN  /\ nodes'[n].global_heap = h
              /\ h \in DOMAIN heaps <=> h \in DOMAIN heaps'
              /\ h \in DOMAIN heaps => heaps'[h] = heaps[h] /\ FilledNext(q, h) = Filled(q, h)
    BY <1>2, <1>4, <1>5 DEF Filled, FilledNext
  <2> QED
    BY <1>3, <2>1, QueueStays

Openers == {nodes[n].key : n \in Listed}

(* Only KeyAdd and KeyDel change who has the device open.                  *)
LEMMA OpenersMove ==
  ASSUME NEW K, NEW T, TakeTurns, DeviceTypes(K, T), DeviceTypes(K, T)', MutexInv, SerialInv, SerialInv',
         NEW p \in Pids, AloneStep(p)
  PROVE  /\ KeyAdd(p) => p \notin Openers /\ Openers' = Openers \cup {p}
         /\ KeyDel(p) => p \in Openers /\ Openers' = Openers \ {p}
         /\ ~ KeyAdd(p) /\ ~ KeyDel(p) => Openers' = Openers
<1> USE DEF SerialInv
<1>1. /\ KeysKept
      /\ Unchanged(p) \/ Adds(p) \/ Deletes(p)
      /\ Listed \subseteq DOMAIN nodes /\ Listed' \subseteq DOMAIN nodes'
  BY StepIsAlone DEF Listed
<1>2. \A n \in Listed \cap Listed' : nodes'[n].key = nodes[n].key
  BY <1>1 DEF KeysKept
<1>3. CASE Unchanged(p)
  BY <1>2, <1>3 DEF Unchanged, Openers
<1>4. CASE Adds(p)
  <2>1. pc[p] = "add" /\ Listed' = Listed \cup {entry} /\ KeyAdd(p) /\ ~ KeyDel(p)
    BY <1>4 DEF Adds, KeyAdd, KeyDel
  <2>2. entry \in DOMAIN nodes /\ entry \notin Listed /\ nodes[entry].key = p
    BY <2>1 DEF TableInv, FreshEntry, Opening
  <2>3. nodes'[entry].key = p
    BY <1>1, <2>1, <2>2 DEF KeysKept
  <2>4. \A n \in Listed : nodes[n].key # p
    BY <2>1 DEF AloneInv, OneEntry, Opening
  <2> QED
    BY <1>2, <2>1, <2>3, <2>4 DEF Openers
<1>5. CASE Deletes(p)
  <2>1. PICK n \in Listed : nodes[n].key = p /\ Listed' = Listed \ {n} /\ KeyDel(p) /\ ~ KeyAdd(p)
    BY <1>5 DEF Deletes, KeyAdd, KeyDel
  <2>2. \A m \in Listed : nodes[m].key = p => m = n
    BY <2>1 DEF AloneInv, OneEntry
  <2> QED
    BY <1>2, <2>1, <2>2 DEF Openers
<1> QED
  BY <1>1, <1>3, <1>4, <1>5

(* Which steps of p change its queue.                                      *)
ChangesQueue(p) ==
  Insert(p) \/ PopsOwn(p) \/ KeyDel(p) \/ InitStores(p) \/ InitDestroys(p)
  \/ pc[p] = "init_again"

(* Sifting a key up or down moves keys and keeps each.                     *)
LEMMA SiftKeepsKeys ==
  ASSUME NEW K, NEW T, K \subseteq Int, T \subseteq Int, DeviceTypes(K, T), SerialInv,
         NEW p \in Pids, HeapifyBottomTop(p) \/ HeapifyTopBottom(p)
  PROVE  LET h == loc[p].heap
         IN  /\ h \in DOMAIN heaps
             /\ HeapBecomes(h, heaps'[h].arr, heaps[h].count)
             /\ \A k : Count(heaps'[h].arr, Filled(p, h), k) = Count(heaps[h].arr, Filled(p, h), k)
<1> DEFINE h == loc[p].heap
           a == heaps[h].arr
           n == heaps[h].count
           m == heaps[h].capacity - 1
           x == loc[p].idx
<1> USE DEF SerialInv, DeviceTypes
<1>1. h \in DOMAIN heaps
  BY DEF HeapifyBottomTop, HeapifyTopBottom, SiftInBounds, InBounds
<1>2. m \in Nat /\ n \in 0 .. m /\ a \in [0 .. m -> Int] /\ heaps[h].heap_type \in Int
  <2>1. n < heaps[h].capacity
    BY DEF AloneInv, HeapsWork, HeapifyBottomTop, HeapifyTopBottom
  <2>2. /\ heaps[h].capacity \in Nat /\ m \in Nat /\ n \in 0 .. heaps[h].capacity
        /\ a \in [0 .. m -> Int] /\ heaps[h].heap_type \in Int
    <3>1. HeapsOK(K, T) /\ HeapsWork
      BY DEF AloneInv
    <3> QED
      BY <1>1, <3>1, HeapIs
  <2> QED
    BY <2>1, <2>2
<1>3. CASE HeapifyBottomTop(p)
  <2>1. Rising(heaps[h].heap_type, a, n, x) /\ OutOfOrder(heaps[h].heap_type, a[Parent(x)], a[x])
    BY <1>3 DEF AloneInv, HeapsWork, HeapifyBottomTop, MustRise
  <2>2. x \in 1 .. n /\ Parent(x) \in 0 .. x - 1
    <3> HIDE DEF a, n, m, x, h
    <3> QED
      BY <1>2, <2>1, RiseGoesOn
  <2>3. HeapBecomes(h, Swapped(a, Parent(x), x), n)
    BY <1>1, <1>3, SwapIs DEF HeapifyBottomTop
  <2>4. Filled(p, h) = n + 1
    BY <1>3 DEF Filled, HeapifyBottomTop
  <2>5. \A k : Count(Swapped(a, Parent(x), x), n + 1, k) = Count(a, n + 1, k)
    <3> HIDE DEF a, n, m, x, h
    <3>1. n + 1 \in 0 .. m + 1 /\ Parent(x) \in 0 .. (n + 1) - 1 /\ x \in 0 .. (n + 1) - 1
      BY <1>2, <2>2
    <3> QED
      BY <1>2, <3>1, SwapKeepsCount
  <2> HIDE DEF a, n, m, x, h
  <2>6. heaps'[h].arr = Swapped(a, Parent(x), x)
    BY <2>3 DEF HeapBecomes
  <2>7. /\ HeapBecomes(h, heaps'[h].arr, n)
        /\ \A k : Count(heaps'[h].arr, Filled(p, h), k) = Count(a, Filled(p, h), k)
    BY <2>3, <2>4, <2>5, <2>6
  <2> QED
    BY <1>1, <2>7 DEF a, n, h
<1>4. CASE HeapifyTopBottom(p)
  <2> DEFINE s == TopOfThree(heaps[h].heap_type, a, n, x)
  <2>1. Sinking(heaps[h].heap_type, a, n, x) /\ s # x
    BY <1>4 DEF AloneInv, HeapsWork, HeapifyTopBottom, Sink
  <2>2. x \in 0 .. n - 1 /\ s \in x + 1 .. n - 1
    <3> HIDE DEF a, n, m, x, h
    <3> QED
      BY <1>2, <2>1, SinkGoesOn
  <2>3. HeapBecomes(h, Swapped(a, s, x), n)
    BY <1>1, <1>4, SwapIs DEF HeapifyTopBottom, Sink
  <2>4. Filled(p, h) = n
    BY <1>2, <1>4 DEF Filled, HeapifyTopBottom
  <2>5. \A k : Count(Swapped(a, s, x), n, k) = Count(a, n, k)
    <3> HIDE DEF a, n, m, x, h, s
    <3>1. n \in 0 .. m + 1 /\ s \in 0 .. n - 1 /\ x \in 0 .. n - 1
      BY <1>2, <2>2
    <3> QED
      BY <1>2, <3>1, SwapKeepsCount
  <2> HIDE DEF a, n, m, x, h, s
  <2>6. heaps'[h].arr = Swapped(a, s, x)
    BY <2>3 DEF HeapBecomes
  <2>7. /\ HeapBecomes(h, heaps'[h].arr, n)
        /\ \A k : Count(heaps'[h].arr, Filled(p, h), k) = Count(a, Filled(p, h), k)
    BY <2>3, <2>4, <2>5, <2>6
  <2> QED
    BY <1>1, <2>7 DEF a, n, h
<1> QED
  BY <1>3, <1>4

(* The other steps leave it as it is, though a sift moves its keys.        *)
LEMMA OwnQueueStays ==
  ASSUME NEW K, NEW T, K \subseteq Int, T \subseteq Int, TakeTurns, DeviceTypes(K, T), DeviceTypes(K, T)',
         MutexInv, SerialInv, SerialInv', NEW p \in Pids, AloneStep(p), ~ ChangesQueue(p), NEW KS
  PROVE  QueueOf(p, KS)' = QueueOf(p, KS)
<1> USE DEF DeviceTypes, SerialInv
<1>0. DOMAIN pc = Pids /\ (AnyCall(p) \/ TableStep(p) \/ SetUpStep(p) \/ Plain(p))
  BY AloneIsShared DEF CallsOK
<1>1. Listed \subseteq DOMAIN nodes /\ Listed' \subseteq DOMAIN nodes' /\ KeysKept
  BY StepIsAlone DEF Listed
<1>2. CASE KeyAdd(p)
  <2>1. (\A n \in Listed : nodes[n].key # p) /\ entry \in DOMAIN nodes /\ nodes[entry].global_heap = Null
    BY <1>2 DEF KeyAdd, AloneInv, OneEntry, TableInv, FreshEntry, Opening
  <2>2. QueueOf(p, KS) = [bag |-> << >>]
    BY <2>1, NoQueueIs DEF NoneNone
  <2>3. entry \in Listed' /\ nodes'[entry].key = p
    <3>1. Adds(p)
      BY <1>2, StepIsAlone DEF Unchanged, Deletes, KeyAdd, KeyDel
    <3>2. nodes[entry].key = p
      BY <1>2 DEF KeyAdd, TableInv, FreshEntry, Opening
    <3> QED
      BY <1>1, <2>1, <3>1, <3>2 DEF Adds, KeysKept
  <2>4. nodes'[entry].global_heap = Null
    BY <1>2, <2>1, <2>3, HeapsMove DEF TableStep
  <2>5. Null \notin DOMAIN heaps'
    BY IdsAreNaturals DEF HeapsOK
  <2> QED
    BY <2>2, <2>3, <2>4, <2>5, OwnQueueIsNext DEF OwnQueue
<1>3. CASE ~ KeyAdd(p)
  <2>1. {n \in Listed' : nodes'[n].key = p} = EntriesOf(p)
    BY <1>0, <1>3, EntriesMove DEF EntriesOf, ChangesQueue
  <2> SUFFICES ASSUME NEW n \in EntriesOf(p)
               PROVE  LET h == nodes[n].global_heap
                      IN  /\ nodes'[n].global_heap = h \/ {h, nodes'[n].global_heap} \cap (DOMAIN heaps \cup DOMAIN heaps') = {}
                          /\ h \in DOMAIN heaps <=> h \in DOMAIN heaps'
                          /\ h \in DOMAIN heaps =>
                               /\ heaps'[h].heap_type = heaps[h].heap_type
                               /\ heaps'[h].capacity = heaps[h].capacity
                               /\ FilledNext(p, h) = Filled(p, h)
                               /\ \A k : Count(heaps'[h].arr, Filled(p, h), k) = Count(heaps[h].arr, Filled(p, h), k)
    BY <2>1, QueueStays
  <2>2. n \in Listed /\ n \in Listed' /\ nodes[n].key = p /\ n \in DOMAIN nodes
    BY <1>1, <2>1 DEF EntriesOf
  <2>3. \A m \in Listed : nodes[m].key = p => m = n
    BY <2>2 DEF AloneInv, OneEntry
  <2> DEFINE h == nodes[n].global_heap
  <2>4. CASE AnyCall(p) \/ (TableStep(p) /\ ~ KeyAdd(p) /\ ~ KeyDel(p)) \/ (Plain(p) /\ Steady(p))
    <3>1. nodes'[n].global_heap = h
      BY <2>2, <2>4, HeapsMove
    <3>2. heaps' = heaps
      <4>1. CASE AnyCall(p)
        BY <4>1 DEF AnyCall, Call, ReleaseCall
      <4>2. CASE TableStep(p) /\ ~ KeyAdd(p) /\ ~ KeyDel(p)
        BY <4>2 DEF TableStep, Walk, OpenAllocates, OpenBusy, OpenLocks, ReleaseBusy, ReleaseLocks,
           KeyDelClear, KeyDelFree, KeyDelNone, PrintKeyUnlock
      <4> QED
        BY <2>4, <4>1, <4>2 DEF Steady
    <3>3. pc[p] # "up" /\ pc'[p] # "up"
      <4>1. CASE AnyCall(p)
        BY <1>0, <4>1 DEF AnyCall, Call, ReleaseCall, MayCall, Idle, Goto
      <4>2. CASE TableStep(p) /\ ~ KeyAdd(p) /\ ~ KeyDel(p)
        BY <1>0, <4>2 DEF TableStep, Walk, NotFound, OpenAllocates, OpenBusy, OpenLocks, ReleaseBusy, ReleaseLocks,
           KeyDelClear, KeyDelFree, KeyDelNone, PrintKeyUnlock, Return, Goto
      <4> QED
        BY <2>4, <4>1, <4>2 DEF Steady
    <3> QED
      BY <3>1, <3>2, <3>3 DEF Filled, FilledNext
  <2>5. CASE Plain(p) /\ (HeapifyBottomTop(p) \/ HeapifyTopBottom(p))
    <3>1. nodes' = nodes /\ pc' = pc
      BY <2>5 DEF HeapifyBottomTop, HeapifyTopBottom
    <3>2. /\ loc[p].heap \in DOMAIN heaps
          /\ HeapBecomes(loc[p].heap, heaps'[loc[p].heap].arr, heaps[loc[p].heap].count)
          /\ \A k : Count(heaps'[loc[p].heap].arr, Filled(p, loc[p].heap), k)
                      = Count(heaps[loc[p].heap].arr, Filled(p, loc[p].heap), k)
      BY <2>5, SiftKeepsKeys
    <3>3. h # loc[p].heap => (h \in DOMAIN heaps <=> h \in DOMAIN heaps') /\ (h \in DOMAIN heaps => heaps'[h] = heaps[h])
      BY <3>2 DEF HeapBecomes
    <3> QED
      BY <3>1, <3>2, <3>3 DEF Filled, FilledNext, HeapBecomes
  <2>6. CASE Plain(p) /\ InsertReturns(p)
    <3>1. h = loc[p].heap
      BY <2>3, <2>6 DEF InsertReturns, AloneInv, UsesOwnHeap, UseLabels
    <3>2. HeapBecomes(h, heaps[h].arr, heaps[h].count + 1) /\ pc'[p] = "idle"
      BY <2>6, <3>1, InsertReturnsIs
    <3>3. nodes' = nodes /\ pc[p] = "up"
      BY <2>6 DEF InsertReturns
    <3>4. heaps[h].count \in Int
      BY <3>2 DEF HeapBecomes, AloneInv, HeapsWork
    <3>5. FilledNext(p, h) = Filled(p, h)
      BY <3>2, <3>3, <3>4 DEF HeapBecomes, Filled, FilledNext
    <3> QED
      BY <3>2, <3>3, <3>5 DEF HeapBecomes
  <2>7. ASSUME NEW size, NEW type, InitCreates(p, size, type)
        PROVE  {h, nodes'[n].global_heap} \cap (DOMAIN heaps \cup DOMAIN heaps') = {}
    <3>1. entry = n
      BY <2>3, <2>7 DEF OwnerInv, SetUpEntry, SetUpLabels, InitCreates
    <3>2. h = Null /\ nodes'[n].global_heap = DestroyedNull
      <4>1. nodes[entry] = [nodes[entry] EXCEPT !.key = @] /\ "global_heap" \in DOMAIN nodes[entry]
        BY <2>2, <3>1 DEF NodesOK, Nodes
      <4> QED
        BY <2>7, <3>1, <4>1 DEF InitCreates
    <3> QED
      BY <3>2, IdsAreNaturals DEF HeapsOK
  <2> QED
    <3>1. CASE GoodSetUp(p)
      <4>1. PICK size, type : InitCreates(p, size, type)
        BY <3>1 DEF GoodSetUp, ChangesQueue, InitCreatesAgain
      <4> QED
        BY <2>7, <4>1
    <3>2. CASE Plain(p) /\ HeapCall(p)
      BY <2>5, <2>6, <3>2 DEF HeapCall, ChangesQueue
    <3>3. TableStep(p) => TableStep(p) /\ ~ KeyAdd(p) /\ ~ KeyDel(p)
      BY <1>3 DEF ChangesQueue
    <3> HIDE DEF ChangesQueue
    <3> QED
      BY <2>4, <3>1, <3>2, <3>3 DEF AloneStep
<1> QED
  BY <1>2, <1>3

(* A queue with one copy of a key more, or less.                           *)
Grows(before, after, key) ==
  \E type, capacity, n, bag :
    /\ before = [heap_type |-> type, capacity |-> capacity, count |-> n, bag |-> bag]
    /\ n < capacity
    /\ after = [heap_type |-> type, capacity |-> capacity, count |-> n + 1, bag |-> [bag EXCEPT ![key] = @ + 1]]

Shrinks(before, after, key, keys) ==
  \E type, capacity, n, bag :
    /\ before = [heap_type |-> type, capacity |-> capacity, count |-> n, bag |-> bag]
    /\ bag[key] > 0
    /\ \A k \in keys : bag[k] > 0 => ~ OutOfOrder(type, key, k)
    /\ after = [heap_type |-> type, capacity |-> capacity, count |-> n - 1, bag |-> [bag EXCEPT ![key] = @ - 1]]

(* The cell after the last one gives the bag one key more.                 *)
LEMMA OneKeyMore ==
  ASSUME NEW P, NEW p \in P, NEW f, NEW g, f = [q \in P |-> f[q]], g = [q \in P |-> g[q]],
         \A q \in P : q # p => g[q] = f[q], NEW k, Grows(f[p], g[p], k)
  PROVE  /\ g = [f EXCEPT ![p].bag[k] = @ + 1, ![p].count = @ + 1]
         /\ f[p].count < f[p].capacity
         /\ f[p] # [bag |-> << >>]
<1>1. PICK type, capacity, n, bag :
       /\ f[p] = [heap_type |-> type, capacity |-> capacity, count |-> n, bag |-> bag]
       /\ n < capacity
       /\ g[p] = [heap_type |-> type, capacity |-> capacity, count |-> n + 1, bag |-> [bag EXCEPT ![k] = @ + 1]]
  BY DEF Grows
<1>2. [f EXCEPT ![p].bag[k] = @ + 1, ![p].count = @ + 1]
        = [q \in P |-> IF q = p THEN [[f[p] EXCEPT !.bag[k] = @ + 1] EXCEPT !.count = @ + 1] ELSE f[q]]
  OBVIOUS
<1>3. [[f[p] EXCEPT !.bag[k] = @ + 1] EXCEPT !.count = @ + 1] = g[p]
  <2> DEFINE new == [bag EXCEPT ![k] = @ + 1]
  <2>1. [f[p] EXCEPT !.bag[k] = @ + 1] = [f[p] EXCEPT !.bag = new]
    BY <1>1
  <2>2. g[p] = [heap_type |-> type, capacity |-> capacity, count |-> n + 1, bag |-> new]
    BY <1>1
  <2> HIDE DEF new
  <2>3. [f[p] EXCEPT !.bag = new] = [heap_type |-> type, capacity |-> capacity, count |-> n, bag |-> new]
    BY <1>1
  <2>4. [[heap_type |-> type, capacity |-> capacity, count |-> n, bag |-> new] EXCEPT !.count = @ + 1]
          = [heap_type |-> type, capacity |-> capacity, count |-> n + 1, bag |-> new]
    OBVIOUS
  <2>5. [f[p] EXCEPT !.bag[k] = @ + 1] = [heap_type |-> type, capacity |-> capacity, count |-> n, bag |-> new]
    BY <2>1, <2>3
  <2> QED
    BY <2>2, <2>4, <2>5
<1>4. g = [f EXCEPT ![p].bag[k] = @ + 1, ![p].count = @ + 1]
  BY <1>2, <1>3
<1>5. f[p].heap_type = type /\ f[p].capacity = capacity /\ f[p].count = n /\ f[p].bag = bag
      /\ f[p] # [bag |-> << >>]
  BY <1>1
<1> QED
  BY <1>1, <1>4, <1>5

(* The bag loses the key that a pop takes.                                 *)
LEMMA OneKeyLess ==
  ASSUME NEW P, NEW p \in P, NEW f, NEW g, f = [q \in P |-> f[q]], g = [q \in P |-> g[q]],
         \A q \in P : q # p => g[q] = f[q], NEW k, NEW S, Shrinks(f[p], g[p], k, S)
  PROVE  /\ g = [f EXCEPT ![p].bag[k] = @ - 1, ![p].count = @ - 1]
         /\ f[p].bag[k] > 0
         /\ \A j \in S : f[p].bag[j] > 0 => ~ OutOfOrder(f[p].heap_type, k, j)
         /\ f[p] # [bag |-> << >>]
<1>1. PICK type, capacity, n, bag :
       /\ f[p] = [heap_type |-> type, capacity |-> capacity, count |-> n, bag |-> bag]
       /\ bag[k] > 0
       /\ \A j \in S : bag[j] > 0 => ~ OutOfOrder(type, k, j)
       /\ g[p] = [heap_type |-> type, capacity |-> capacity, count |-> n - 1, bag |-> [bag EXCEPT ![k] = @ - 1]]
  BY DEF Shrinks
<1>2. [f EXCEPT ![p].bag[k] = @ - 1, ![p].count = @ - 1]
        = [q \in P |-> IF q = p THEN [[f[p] EXCEPT !.bag[k] = @ - 1] EXCEPT !.count = @ - 1] ELSE f[q]]
  OBVIOUS
<1>3. [[f[p] EXCEPT !.bag[k] = @ - 1] EXCEPT !.count = @ - 1] = g[p]
  <2> DEFINE new == [bag EXCEPT ![k] = @ - 1]
  <2>1. [f[p] EXCEPT !.bag[k] = @ - 1] = [f[p] EXCEPT !.bag = new]
    BY <1>1
  <2>2. g[p] = [heap_type |-> type, capacity |-> capacity, count |-> n - 1, bag |-> new]
    BY <1>1
  <2> HIDE DEF new
  <2>3. [f[p] EXCEPT !.bag = new] = [heap_type |-> type, capacity |-> capacity, count |-> n, bag |-> new]
    BY <1>1
  <2>4. [[heap_type |-> type, capacity |-> capacity, count |-> n, bag |-> new] EXCEPT !.count = @ - 1]
          = [heap_type |-> type, capacity |-> capacity, count |-> n - 1, bag |-> new]
    OBVIOUS
  <2>5. [f[p] EXCEPT !.bag[k] = @ - 1] = [heap_type |-> type, capacity |-> capacity, count |-> n, bag |-> new]
    BY <2>1, <2>3
  <2> QED
    BY <2>2, <2>4, <2>5
<1>4. g = [f EXCEPT ![p].bag[k] = @ - 1, ![p].count = @ - 1]
  BY <1>2, <1>3
<1>5. f[p].heap_type = type /\ f[p].capacity = capacity /\ f[p].count = n /\ f[p].bag = bag
      /\ f[p] # [bag |-> << >>]
  BY <1>1
<1> QED
  BY <1>1, <1>4, <1>5

(* Insert puts the key of the call in its owner's queue, ...               *)
LEMMA InsertGrows ==
  ASSUME NEW K, NEW T, K \subseteq Int, T \subseteq Int, TakeTurns, DeviceTypes(K, T), DeviceTypes(K, T)',
         MutexInv, SerialInv, SerialInv', NEW p \in Pids, AloneStep(p), Insert(p), NEW KS
  PROVE  Grows(QueueOf(p, KS), QueueOf(p, KS)', num)
<1> USE DEF SerialInv, DeviceTypes
<1> DEFINE h == nodes[entry].global_heap
           n == heaps[h].count
           a == heaps[h].arr
           b == [a EXCEPT ![n] = num]
           bag == [k \in KS |-> Count(a, n, k)]
<1>1. entry \in Listed /\ nodes[entry].key = p /\ h \in DOMAIN heaps /\ nodes' = nodes /\ pc[p] = "insert"
  BY DEF Insert, AloneInv, UsesOwnHeap, UseLabels
<1>2. Listed' = Listed
  BY StepIsAlone DEF Unchanged, Adds, Deletes, KeyAdd, KeyDel, Insert
<1>3. HeapBecomes(h, b, n) /\ n \in 0 .. heaps[h].capacity /\ n < heaps[h].capacity /\ pc'[p] = "up"
  <2>1. HeapsOK(K, T) /\ CallsOK(K)
    OBVIOUS
  <2> QED
    BY <2>1, InsertIs DEF InsertTarget
<1>4. n \in Nat /\ n \in DOMAIN a /\ heaps[h].capacity \in Nat
  <2>1. HeapsOK(K, T) /\ HeapsWork
    BY DEF AloneInv
  <2>2. heaps[h].capacity \in Nat /\ a \in [0 .. heaps[h].capacity - 1 -> Int]
    BY <1>1, <2>1, HeapIs
  <2> QED
    BY <1>3, <2>2
<1>5. QueueOf(p, KS) = QueueWith(heaps[h].heap_type, heaps[h].capacity, n, a, KS)
  <2>1. Filled(p, h) = n
    BY <1>1, <1>4 DEF Filled
  <2> QED
    BY <1>1, <2>1, OwnQueueIs DEF OwnQueue
<1>6. QueueOf(p, KS)' = QueueWith(heaps[h].heap_type, heaps[h].capacity, n + 1, b, KS)
  <2>1. h \in DOMAIN heaps' /\ heaps'[h].arr = b /\ heaps'[h].count + 1 = n + 1
        /\ heaps'[h].capacity = heaps[h].capacity /\ heaps'[h].heap_type = heaps[h].heap_type
    BY <1>3 DEF HeapBecomes
  <2>2. QueueOf(p, KS)' = QueueWith(heaps'[h].heap_type, heaps'[h].capacity, heaps'[h].count + 1, heaps'[h].arr, KS)
    BY <1>1, <1>2, <1>3, <2>1, OwnQueueIsNext DEF OwnQueue, Filled
  <2> QED
    BY <2>1, <2>2
<1>7. [k \in KS |-> Count(b, n + 1, k)] = [bag EXCEPT ![num] = @ + 1]
  <2>1. b[n] = num /\ \A i \in 0 .. n-1 : b[i] = a[i]
    BY <1>4
  <2> HIDE DEF a, b, n
  <2>2. \A k : Count(b, n + 1, k) = Count(a, n, k) + (IF num = k THEN 1 ELSE 0)
    BY <1>4, <2>1, CountOneMore
  <2>3. \A k : Count(a, n, k) \in Nat
    BY <1>4, CountIsNatural
  <2> QED
    BY <2>2, <2>3
<1>8. /\ QueueOf(p, KS) = [heap_type |-> OrderOf(heaps[h].heap_type), capacity |-> heaps[h].capacity,
                           count |-> n, bag |-> bag]
      /\ QueueOf(p, KS)' = [heap_type |-> OrderOf(heaps[h].heap_type), capacity |-> heaps[h].capacity,
                            count |-> n + 1, bag |-> [bag EXCEPT ![num] = @ + 1]]
  <2> HIDE DEF a, b, n, h
  <2> QED
    BY <1>5, <1>6, <1>7 DEF QueueWith
<1>9. n < heaps[h].capacity
  BY <1>3
<1> HIDE DEF a, b, n, h, bag
<1> QED
  BY <1>8, <1>9 DEF Grows

(* ... PopMin or PopMax takes out the one that it answers, ...             *)
LEMMA PopShrinks ==
  ASSUME NEW K, NEW T, K \subseteq Int, T \subseteq Int, TakeTurns, DeviceTypes(K, T), DeviceTypes(K, T)',
         MutexInv, SerialInv, SerialInv', NEW p \in Pids, AloneStep(p), PopsOwn(p), nodes' = nodes,
         NEW KP, HeapsHold(KP), NEW KS, KP[p] \subseteq KS
  PROVE  loc'[p].val \in KP[p] /\ Shrinks(QueueOf(p, KS), QueueOf(p, KS)', loc'[p].val, KS)
<1> USE DEF SerialInv, DeviceTypes
<1> DEFINE h == nodes[loc[p].cur].global_heap
           n == heaps[h].count
           a == heaps[h].arr
           m == heaps[h].capacity - 1
           b == [a EXCEPT ![0] = a[n - 1]]
           key == a[0]
           type == heaps[h].heap_type
           bag == [k \in KS |-> Count(a, n, k)]
<1>1. loc[p].cur \in Listed /\ nodes[loc[p].cur].key = p /\ pc[p] = "walk" /\ h = OwnHeap(p)
  BY OwnHeapIs DEF PopsOwn, Found, OwnHeap
<1>2. Listed' = Listed
  BY StepIsAlone, <1>1 DEF Unchanged, Adds, Deletes, KeyAdd, KeyDel
<1>3. HeapBecomes(h, b, n - 1) /\ n \in 0 .. heaps[h].capacity /\ n # 0 /\ pc'[p] = "down" /\ loc'[p].val = key
  <2>1. HeapsOK(K, T) /\ CallsOK(K)
    OBVIOUS
  <2> QED
    BY <1>1, <2>1, PopIs DEF PopsOwn
<1>4. h \in DOMAIN heaps /\ m \in Nat /\ n \in 1 .. m + 1 /\ a \in [0 .. m -> Int] /\ type \in Int
  <2>1. h \in DOMAIN heaps
    BY <1>3 DEF HeapBecomes
  <2>2. HeapsOK(K, T) /\ HeapsWork
    BY DEF AloneInv
  <2>3. heaps[h].capacity \in Nat /\ m \in Nat /\ a \in [0 .. m -> Int] /\ type \in Int
    BY <2>1, <2>2, HeapIs
  <2>4. n \in 0 .. heaps[h].capacity /\ n # 0
    BY <1>3
  <2> HIDE DEF a, n, h, type
  <2> QED
    BY <2>1, <2>3, <2>4
<1>5. QueueOf(p, KS) = QueueWith(type, heaps[h].capacity, n, a, KS)
  <2>1. Filled(p, h) = n
    BY <1>1, <1>4 DEF Filled
  <2> QED
    BY <1>1, <1>4, <2>1, OwnQueueIs DEF OwnQueue
<1>6. QueueOf(p, KS)' = QueueWith(type, heaps[h].capacity, n - 1, b, KS)
  <2>1. h \in DOMAIN heaps' /\ heaps'[h].arr = b /\ heaps'[h].count + 0 = n - 1
        /\ heaps'[h].capacity = heaps[h].capacity /\ heaps'[h].heap_type = heaps[h].heap_type
    BY <1>3, <1>4 DEF HeapBecomes
  <2>2. QueueOf(p, KS)' = QueueWith(heaps'[h].heap_type, heaps'[h].capacity, heaps'[h].count + 0, heaps'[h].arr, KS)
    BY <1>1, <1>2, <1>3, <2>1, OwnQueueIsNext DEF OwnQueue, Filled
  <2> QED
    BY <2>1, <2>2
<1>7. Ordered(type, a, n)
  <2>1. \A q \in Pids : pc[q] \notin {"up", "down"}
    BY <1>1, StepIsAlone
  <2> QED
    BY <1>4, <2>1 DEF AloneInv, HeapsWork, Sifted
<1>8. key \in KP[p]
  <2>1. Filled(p, h) = n /\ 0 \in 0 .. n - 1
    BY <1>1, <1>4 DEF Filled
  <2> QED
    BY <1>1, <1>4, <2>1 DEF HeapsHold
<1> HIDE DEF a, b, n, h, m, type, key
<1>9. \A k : /\ Count(a, n, k) = Count(b, n - 1, k) + (IF key = k THEN 1 ELSE 0)
             /\ Count(a, n, k) \in Nat /\ Count(b, n - 1, k) \in Nat
             /\ Count(a, n, k) > 0 <=> \E i \in 0 .. n-1 : a[i] = k
  <2>1. \A k : Count(a, n, k) = Count(b, n - 1, k) + (IF key = k THEN 1 ELSE 0)
    BY <1>4, PopTakesOneCopy DEF b, key
  <2>2. n \in Nat /\ n - 1 \in Nat
    BY <1>4
  <2> QED
    BY <2>1, <2>2, CountIsNatural
<1>10. [k \in KS |-> Count(b, n - 1, k)] = [bag EXCEPT ![key] = @ - 1]
  BY <1>9
<1>11. bag[key] > 0
  BY <1>4, <1>8, <1>9 DEF key
<1>12. \A k \in KS : bag[k] > 0 => ~ OutOfOrder(OrderOf(type), key, k)
  <2>1. \A i \in 0 .. n-1 : ~ OutOfOrder(type, a[0], a[i])
    <3>1. n \in 0 .. m + 1
      BY <1>4
    <3> QED
      BY <1>4, <1>7, <3>1, RootIsExtremum DEF Ordered
  <2>2. \A x, y : OutOfOrder(OrderOf(type), x, y) = OutOfOrder(type, x, y)
    BY DEF OrderOf, OutOfOrder
  <2> QED
    BY <1>9, <2>1, <2>2 DEF key
<1>13. QueueOf(p, KS) = [heap_type |-> OrderOf(type), capacity |-> heaps[h].capacity, count |-> n, bag |-> bag]
  BY <1>5 DEF QueueWith
<1>14. QueueOf(p, KS)' = [heap_type |-> OrderOf(type), capacity |-> heaps[h].capacity, count |-> n - 1,
                          bag |-> [bag EXCEPT ![key] = @ - 1]]
  BY <1>6, <1>10 DEF QueueWith
<1> HIDE DEF bag
<1>15. Shrinks(QueueOf(p, KS), QueueOf(p, KS)', key, KS)
  BY <1>11, <1>12, <1>13, <1>14 DEF Shrinks
<1> QED
  BY <1>3, <1>8, <1>15

(* ... KeyDel ends the queue, and ...                                      *)
LEMMA CloseEndsQueue ==
  ASSUME NEW K, NEW T, TakeTurns, DeviceTypes(K, T), DeviceTypes(K, T)',
         MutexInv, SerialInv, SerialInv', NEW p \in Pids, AloneStep(p), KeyDel(p), NEW KS
  PROVE  QueueOf(p, KS)' = [bag |-> << >>]
<1>1. p \notin Openers'
  BY OpenersMove
<1> QED
  BY <1>1, NoQueueIsNext DEF Openers, NoneNone

(* ... a set-up makes it an empty one.                                     *)
LEMMA StoreGivesQueue ==
  ASSUME NEW K, NEW T, TakeTurns, DeviceTypes(K, T), DeviceTypes(K, T)',
         MutexInv, SerialInv, SerialInv', NEW p \in Pids, AloneStep(p), InitStores(p),
         loc[p].heap \in DOMAIN heaps, heaps[loc[p].heap].count = 0, NEW KS
  PROVE  /\ QueueOf(p, KS) = [bag |-> << >>]
         /\ QueueOf(p, KS)' = [heap_type |-> OrderOf(heaps[loc[p].heap].heap_type),
                               capacity |-> heaps[loc[p].heap].capacity, count |-> 0,
                               bag |-> [k \in KS |-> 0]]
<1> USE DEF SerialInv, DeviceTypes
<1> DEFINE h == loc[p].heap
           a == heaps[h].arr
<1>1. entry \in Listed /\ nodes[entry].key = p /\ pc[p] = "init_store" /\ heaps' = heaps /\ pc'[p] = "idle"
  BY DEF InitStores, Return, Goto, OwnerInv, SetUpEntry, SetUpLabels, CallsOK
<1>2. nodes[entry].global_heap \notin DOMAIN heaps
  BY <1>1 DEF OwnerInv, PtrInv, HeapPtrs, Replacing
<1>3. QueueOf(p, KS) = [bag |-> << >>]
  BY <1>1, <1>2, OwnQueueIs DEF OwnQueue
<1>4. nodes'[entry].global_heap = h /\ nodes'[entry].key = p /\ Listed' = Listed /\ entry' = entry
  <2>1. entry \in DOMAIN nodes /\ nodes[entry] \in Nodes
    BY <1>1 DEF Listed, NodesOK
  <2>2. Listed' = Listed
    BY <1>1, StepIsAlone DEF Unchanged, Adds, Deletes, KeyAdd, KeyDel
  <2> QED
    BY <1>1, <2>1, <2>2 DEF InitStores, Nodes
<1>5. QueueOf(p, KS)' = QueueWith(heaps[h].heap_type, heaps[h].capacity, 0, a, KS)
  <2>1. heaps'[h].count + 0 = 0
    BY <1>1
  <2>2. QueueOf(p, KS)' = QueueWith(heaps'[h].heap_type, heaps'[h].capacity, heaps'[h].count + 0, heaps'[h].arr, KS)
    BY <1>1, <1>4, OwnQueueIsNext DEF OwnQueue, Filled
  <2> QED
    BY <1>1, <2>1, <2>2
<1>6. \A k : Count(a, 0, k) = 0
  <2>1. \A k : Count(a, 0, k) \in Nat /\ (Count(a, 0, k) > 0 <=> \E i \in 0 .. 0-1 : a[i] = k)
    BY CountIsNatural
  <2> QED
    BY <2>1
<1> QED
  BY <1>3, <1>5, <1>6 DEF QueueWith

(* While a set-up replaces the heap, its owner has no queue.               *)
ReplacingNone ==
  SerialInv =>
    \A KS : \A p \in Pids : pc[p] \in {"init_again", "init_store"} => QueueOf(p, KS) = [bag |-> << >>]

LEMMA ReplacingHasNone == ReplacingNone
<1> SUFFICES ASSUME SerialInv, NEW KS, NEW p \in Pids, pc[p] \in {"init_again", "init_store"}
             PROVE  QueueOf(p, KS) = [bag |-> << >>]
  BY DEF ReplacingNone
<1>1. entry \in Listed /\ nodes[entry].key = p
  BY DEF SerialInv, OwnerInv, SetUpEntry, SetUpLabels
<1>2. nodes[entry].global_heap \notin DOMAIN heaps
  BY <1>1 DEF SerialInv, OwnerInv, PtrInv, HeapPtrs, Replacing
<1> QED
  BY <1>1, <1>2, OwnQueueIs DEF OwnQueue

LEMMA ReplacingHasNoneNext == ReplacingNone'
BY ReplacingHasNone, PTL

(* Only keys of its owner are in a heap.                                   *)
KeysHeld(KP) ==
  \A p \in Pids :
    LET bag == QueueOf(p, Int).bag
    IN  \A k \in DOMAIN bag : bag[k] > 0 => k \in KP[p]

LEMMA HeldIsHold ==
  ASSUME NEW K, NEW T, K \subseteq Int, T \subseteq Int, DeviceTypes(K, T), SerialInv,
         NEW KP, KeysHeld(KP)
  PROVE  HeapsHold(KP)
<1> USE DEF SerialInv, DeviceTypes
<1> SUFFICES ASSUME NEW n \in Listed, nodes[n].global_heap \in DOMAIN heaps,
                    NEW i \in 0 .. Filled(nodes[n].key, nodes[n].global_heap) - 1
             PROVE  heaps[nodes[n].global_heap].arr[i] \in KP[nodes[n].key]
  BY DEF HeapsHold
<1> DEFINE p == nodes[n].key
           h == nodes[n].global_heap
           m == heaps[h].capacity - 1
           a == heaps[h].arr
           l == Filled(p, h)
<1>1. p \in Pids
  BY DEF TableInv, ListedKeys
<1>2. m \in Nat /\ a \in [0 .. m -> Int] /\ heaps[h].count \in 0 .. m + 1
  <2>1. HeapsOK(K, T) /\ HeapsWork
    BY DEF AloneInv
  <2>2. heaps[h].capacity \in Nat /\ m \in Nat /\ a \in [0 .. m -> Int]
        /\ heaps[h].count \in 0 .. heaps[h].capacity
    BY <2>1, HeapIs
  <2> QED
    BY <2>2
<1>3. l \in 0 .. m + 1
  <2>1. pc[p] = "up" => loc[p].heap = h
    <3>1. \A q \in Listed : nodes[q].key = p => q = n
      BY DEF AloneInv, OneEntry
    <3> QED
      BY <1>1, <3>1 DEF AloneInv, UsesOwnHeap, UseLabels
  <2>2. pc[p] = "up" => heaps[h].count < heaps[h].capacity
    BY <1>1, <2>1 DEF AloneInv, HeapsWork
  <2>3. heaps[h].capacity \in Nat
    BY DEF AloneInv, HeapsWork
  <2> QED
    BY <1>2, <2>2, <2>3 DEF Filled
<1>4. QueueOf(p, Int).bag = [k \in Int |-> Count(a, l, k)]
  <2>1. QueueOf(p, Int) = QueueWith(heaps[h].heap_type, heaps[h].capacity, l, a, Int)
    BY OwnQueueIs DEF OwnQueue
  <2> QED
    BY <2>1 DEF QueueWith
<1>5. a[i] \in Int /\ l \in Nat
  BY <1>2, <1>3
<1>6. Count(a, l, a[i]) > 0
  <2>1. i \in 0 .. l - 1
    OBVIOUS
  <2> HIDE DEF a, l
  <2> QED
    BY <1>5, <2>1, CountIsNatural
<1> QED
  <2> HIDE DEF a, l, p
  <2>1. LET bag == QueueOf(p, Int).bag IN \A k \in DOMAIN bag : bag[k] > 0 => k \in KP[p]
    BY <1>1 DEF KeysHeld
  <2>2. a[i] \in KP[p]
    BY <1>4, <1>5, <1>6, <2>1
  <2> QED
    BY <2>2 DEF a, p

(* Every step keeps the keys of each heap among its owner's.               *)
LEMMA StepKeepsHeld ==
  ASSUME NEW K, NEW T, K \subseteq Int, T \subseteq Int, TakeTurns, DeviceTypes(K, T), DeviceTypes(K, T)',
         MutexInv, SerialInv, SerialInv', NEW p \in Pids, AloneStep(p),
         NEW KP, \A q \in Pids : KP[q] \subseteq Int, KeysHeld(KP),
         Insert(p) => num \in KP[p],
         InitStores(p) => loc[p].heap \in DOMAIN heaps /\ heaps[loc[p].heap].count = 0
  PROVE  KeysHeld(KP)'
<1> SUFFICES ASSUME NEW q \in Pids
             PROVE  \A k \in DOMAIN QueueOf(q, Int)'.bag : QueueOf(q, Int)'.bag[k] > 0 => k \in KP[q]
  BY DEF KeysHeld
<1>1. \A k \in DOMAIN QueueOf(q, Int).bag : QueueOf(q, Int).bag[k] > 0 => k \in KP[q]
  BY DEF KeysHeld
<1>2. CASE q # p
  BY <1>1, <1>2, OthersKeepQueues
<1>3. CASE q = p /\ Insert(p)
  <2>1. Grows(QueueOf(p, Int), QueueOf(p, Int)', num)
    BY <1>3, InsertGrows
  <2>2. PICK bag : /\ QueueOf(q, Int).bag = bag
                   /\ QueueOf(q, Int)'.bag = [bag EXCEPT ![num] = @ + 1]
    <3>1. PICK type, capacity, n, bag :
            /\ QueueOf(p, Int) = [heap_type |-> type, capacity |-> capacity, count |-> n, bag |-> bag]
            /\ n < capacity
            /\ QueueOf(p, Int)' = [heap_type |-> type, capacity |-> capacity, count |-> n + 1,
                                  bag |-> [bag EXCEPT ![num] = @ + 1]]
      BY <2>1 DEF Grows
    <3> DEFINE new == [bag EXCEPT ![num] = @ + 1]
    <3>2. QueueOf(p, Int)' = [heap_type |-> type, capacity |-> capacity, count |-> n + 1, bag |-> new]
      BY <3>1
    <3> HIDE DEF new
    <3>3. QueueOf(q, Int).bag = bag /\ QueueOf(q, Int)'.bag = new
      BY <1>3, <3>1, <3>2
    <3> QED
      BY <3>3 DEF new
  <2> DEFINE new == [bag EXCEPT ![num] = @ + 1]
  <2>3. \A k \in DOMAIN new : k \in DOMAIN bag /\ (k # num => new[k] = bag[k])
    OBVIOUS
  <2> HIDE DEF new
  <2> QED
    BY <1>1, <1>3, <2>2, <2>3 DEF new
<1>4. CASE q = p /\ PopsOwn(p)
  <2>1. nodes' = nodes
    <3>1. pc[p] = "walk" /\ pc'[p] = "down"
      BY <1>4 DEF PopsOwn, Found, PopMin, Goto, DeviceTypes, CallsOK
    <3>2. CASE Plain(p)
      BY <3>2 DEF Plain
    <3>3. CASE AnyCall(p)
      BY <3>1, <3>3 DEF AnyCall, Call, ReleaseCall, MayCall, Idle
    <3>4. CASE TableStep(p)
      BY <3>1, <3>4 DEF TableStep, Walk, OpenAllocates, OpenBusy, OpenLocks, KeyAdd, ReleaseBusy, ReleaseLocks,
         KeyDel, KeyDelClear, KeyDelFree, KeyDelNone, PrintKeyUnlock, Goto, DeviceTypes, CallsOK
    <3>5. CASE GoodSetUp(p)
      BY <3>1, <3>5 DEF GoodSetUp, InitCreates, InitCreatesAgain, InitDestroys, InitStores
    <3> QED
      BY <3>2, <3>3, <3>4, <3>5 DEF AloneStep
  <2>2. KP[p] \subseteq Int /\ HeapsHold(KP)
    BY HeldIsHold
  <2> DEFINE key == loc'[p].val
  <2>3. key \in KP[p] /\ Shrinks(QueueOf(p, Int), QueueOf(p, Int)', key, Int)
    BY <1>4, <2>1, <2>2, PopShrinks
  <2> HIDE DEF key
  <2>4. PICK bag : /\ QueueOf(q, Int).bag = bag
                   /\ QueueOf(q, Int)'.bag = [bag EXCEPT ![key] = @ - 1]
    <3>1. PICK type, capacity, n, bag :
            /\ QueueOf(p, Int) = [heap_type |-> type, capacity |-> capacity, count |-> n, bag |-> bag]
            /\ bag[key] > 0
            /\ \A k \in Int : bag[k] > 0 => ~ OutOfOrder(type, key, k)
            /\ QueueOf(p, Int)' = [heap_type |-> type, capacity |-> capacity, count |-> n - 1,
                                  bag |-> [bag EXCEPT ![key] = @ - 1]]
      BY <2>3 DEF Shrinks
    <3> DEFINE new == [bag EXCEPT ![key] = @ - 1]
    <3>2. QueueOf(p, Int)' = [heap_type |-> type, capacity |-> capacity, count |-> n - 1, bag |-> new]
      BY <3>1
    <3> HIDE DEF new
    <3>3. QueueOf(q, Int).bag = bag /\ QueueOf(q, Int)'.bag = new
      BY <1>4, <3>1, <3>2
    <3> QED
      BY <3>3 DEF new
  <2> DEFINE new == [bag EXCEPT ![key] = @ - 1]
  <2>5. \A k \in DOMAIN new : k \in DOMAIN bag /\ (k # key => new[k] = bag[k])
    OBVIOUS
  <2> HIDE DEF new
  <2> QED
    BY <1>1, <1>4, <2>3, <2>4, <2>5 DEF new
<1>5. ASSUME q = p, QueueOf(p, Int)' = [bag |-> << >>]
      PROVE  \A k \in DOMAIN QueueOf(q, Int)'.bag : FALSE
  BY <1>5
<1>6. CASE q = p /\ KeyDel(p)
  BY <1>5, <1>6, CloseEndsQueue
<1>7. CASE q = p /\ (InitDestroys(p) \/ (pc[p] = "init_again" /\ ~ InitStores(p)))
  <2>1. pc'[p] \in {"init_again", "init_store"}
    <3>1. CASE InitDestroys(p)
      BY <3>1 DEF InitDestroys, Goto, DeviceTypes, CallsOK
    <3>2. CASE pc[p] = "init_again"
      <4>1. CASE GoodSetUp(p)
        BY <3>2, <4>1 DEF GoodSetUp, InitCreates, InitCreatesAgain, InitDestroys, InitStores, CreateHeap, Goto,
           DeviceTypes, CallsOK
      <4>2. CASE Plain(p) /\ HeapCall(p)
        BY <3>2, <4>2 DEF HeapCall, Insert, HeapifyBottomTop, InsertReturns, PopsOwn, Found, HeapifyTopBottom
      <4>3. CASE Plain(p) /\ Steady(p)
        BY <3>2, <4>3 DEF Plain, Marked
      <4>4. CASE AnyCall(p)
        BY <3>2, <4>4 DEF AnyCall, Call, ReleaseCall, MayCall, Idle
      <4>5. CASE TableStep(p)
        BY <3>2, <4>5 DEF TableStep, Walk, NotFound, OpenAllocates, OpenBusy, OpenLocks, KeyAdd, ReleaseBusy,
           ReleaseLocks, KeyDel, KeyDelClear, KeyDelFree, KeyDelNone, PrintKeyUnlock
      <4> QED
        BY <4>1, <4>2, <4>3, <4>4, <4>5 DEF AloneStep
    <3> QED
      BY <1>7, <3>1, <3>2
  <2> QED
    BY <1>5, <1>7, <2>1, ReplacingHasNoneNext DEF ReplacingNone
<1>8. CASE q = p /\ InitStores(p)
  <2>1. QueueOf(p, Int)'.bag = [k \in Int |-> 0]
    BY <1>8, StoreGivesQueue
  <2> QED
    BY <1>8, <2>1
<1>9. CASE q = p /\ ~ ChangesQueue(p)
  BY <1>1, <1>9, OwnQueueStays
<1> QED
  BY <1>2, <1>3, <1>4, <1>5, <1>6, <1>7, <1>8, <1>9 DEF ChangesQueue

(* Memory for a Heap of each process.                                      *)
HeapsSuffice == IsFiniteSet(Pids) /\ Cardinality(Pids) <= MaxHeaps

(* Then kmalloc finds room for the heap of a set-up.                       *)
LEMMA RoomForHeap ==
  ASSUME NEW K, NEW T, TakeTurns, HeapsSuffice, DeviceTypes(K, T), SerialInv, TurnsInv,
         NEW p \in Pids, pc[p] \in {"init", "init_again"}, nodes[entry].global_heap \notin DOMAIN heaps
  PROVE  ~ (HeapIds \subseteq DOMAIN heaps)
<1> USE DEF SerialInv
<1> SUFFICES ASSUME HeapIds \subseteq DOMAIN heaps
             PROVE  FALSE
  OBVIOUS
<1>1. \A q \in Pids : q # p => pc[q] = "idle"
  BY OthersAreIdle DEF Idle
<1>2. entry \in Listed /\ nodes[entry].key = p
  BY DEF OwnerInv, SetUpEntry, SetUpLabels
<1>3. \A h \in HeapIds : \E n \in Listed : nodes[n].global_heap = h
  BY <1>1 DEF TurnsInv, Owned
<1>4. \A n \in Listed : nodes[n].global_heap \in HeapIds => nodes[n].key \in Pids \ {p}
  BY <1>2 DEF AloneInv, OneEntry, TableInv, ListedKeys
<1> DEFINE owner == [h \in HeapIds |-> CHOOSE n \in Listed : nodes[n].global_heap = h]
           key == [h \in HeapIds |-> nodes[owner[h]].key]
<1>5. \A h \in HeapIds : owner[h] \in Listed /\ nodes[owner[h]].global_heap = h
  BY <1>3
<1> HIDE DEF owner
<1>6. key \in Injection(HeapIds, Pids \ {p})
  <2>1. key \in [HeapIds -> Pids \ {p}]
    BY <1>4, <1>5
  <2>2. \A g, h \in HeapIds : key[g] = key[h] => g = h
    <3> SUFFICES ASSUME NEW g \in HeapIds, NEW h \in HeapIds, key[g] = key[h] PROVE g = h
      OBVIOUS
    <3>1. owner[g] = owner[h]
      BY <1>5 DEF AloneInv, OneEntry
    <3> QED
      BY <1>5, <3>1
  <2> HIDE DEF key
  <2> QED
    BY <2>1, <2>2, Fun_IsInj
<1>7. IsFiniteSet(Pids \ {p}) /\ Cardinality(Pids \ {p}) = Cardinality(Pids) - 1
  BY FS_RemoveElement DEF HeapsSuffice
<1>8. Cardinality(HeapIds) = MaxHeaps
  BY FS_Interval, BoundsAreNaturals DEF HeapIds
<1>9. Cardinality(HeapIds) <= Cardinality(Pids \ {p})
  BY <1>6, <1>7, FS_Injection
<1>10. Cardinality(Pids) \in Nat
  BY FS_CardinalityType DEF HeapsSuffice
<1> QED
  BY <1>7, <1>8, <1>9, <1>10, BoundsAreNaturals DEF HeapsSuffice

(* A state that differs in nothing has the same queues.                    *)
LEMMA QueuesUnchanged ==
  ASSUME Untouched
  PROVE  /\ Openers' = Openers
         /\ \A p, KS : QueueOf(p, KS)' = QueueOf(p, KS)
<1>1. nodes' = nodes /\ heaps' = heaps /\ pc' = pc /\ loc' = loc
  BY DEF Untouched
<1>2. Visit' = Visit
  BY <1>1 DEF Visit
<1>3. Listed' = Listed
  BY <1>1, <1>2 DEF Listed
<1>4. \A p : EntriesOf(p)' = EntriesOf(p)
  BY <1>1, <1>3 DEF EntriesOf
<1>5. ASSUME NEW p, NEW KS
      PROVE  QueueOf(p, KS)' = QueueOf(p, KS)
  <2>1. HeapsOf(p)' = HeapsOf(p)
    BY <1>1, <1>4 DEF HeapsOf
  <2>2. \A h : QueueIn(h, KS)' = QueueIn(h, KS)
    BY <1>1 DEF QueueIn, CellsOf
  <2> QED
    BY <2>1, <2>2 DEF QueueOf
<1> QED
  BY <1>1, <1>3, <1>5 DEF Openers
=============================================================================
