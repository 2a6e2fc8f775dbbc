---------------------------- MODULE LkmA1Proofs ----------------------------
(***************************************************************************)
(* Proofs about module A1, for any number of processes, keys and set-ups.  *)
(***************************************************************************)
EXTENDS LkmA1, SerialProofs

(* What the globals of dev_write and the arguments of its calls are.       *)
ArgumentsOK ==
  /\ heap_type \in Types \cup {0} /\ heap_size \in Sizes \cup {0}
  /\ \A p \in Pids : pc[p] = "walk" =>
       /\ loc[p].op = "write4" => loc[p].a \in Keys
       /\ loc[p].op = "write2" => loc[p].a \in Types /\ loc[p].b \in Sizes

A1Types == DeviceTypes(Keys, {0, 1}) /\ ArgumentsOK

LEMMA KeysAreInts == Keys \subseteq Int
BY ArgumentsAreNumbers DEF Keys

(* The steps of dev_write are steps that both modules share.               *)
LEMMA StepIsShared ==
  ASSUME A1Types, NEW p \in Pids, Step(p)
  PROVE  TableStep(p) \/ SetUpStep(p) \/ Plain(p)
<1> USE DEF A1Types, DeviceTypes
<1>1. DOMAIN pc = Pids /\ DOMAIN loc = Pids /\ loc = [loc EXCEPT ![p] = loc[p]]
      /\ pc = [pc EXCEPT ![p] = pc[p]]
  BY DEF CallsOK
<1>2. CASE DeviceStep(p)
  BY <1>2, DeviceStepIsShared
<1>3. CASE WriteKey(p)
  <2>1. Goto(p, "insert") /\ pc[p] = "walk" /\ loc[p].op # "open"
        /\ UNCHANGED <<nodes, heaps, heap_mutex, files, loc>>
    BY <1>3 DEF WriteKey, Found
  <2> QED
    BY <1>1, <2>1, PlainMove DEF Marked
<1>4. CASE WriteRefused(p)
  <2>1. pc[p] = "walk" /\ loc[p].op # "open" /\ UNCHANGED <<nodes, heaps, heap_mutex, files>>
    BY <1>4 DEF WriteRefused, Found
  <2>2. PICK v \in Int : Return(p, v)
    BY <1>4 DEF WriteRefused, EINVAL, EACCES
  <2> QED
    BY <2>1, <2>2, PlainReturn DEF Marked
<1>5. CASE WriteInit(p)
  <2>1. pc' = [pc EXCEPT ![p] = "init"] /\ pc'[p] = "init"
    BY <1>1, <1>5 DEF WriteInit, Goto
  <2> QED
    BY <1>1, <1>5, <2>1 DEF WriteInit, Found, Plain, Marked, SetUpOps
<1>6. CASE InitRefused(p)
  <2>1. PICK v \in Int : Return(p, v)
    BY <1>6 DEF InitRefused, EINVAL
  <2> QED
    BY <1>6, <2>1, PlainReturn DEF InitRefused, Marked
<1>7. CASE InitAccepted(p)
  BY <1>7 DEF InitAccepted, SetUpStep
<1> QED
  BY <1>2, <1>3, <1>4, <1>5, <1>6, <1>7 DEF Step

LEMMA NextIsShared ==
  ASSUME A1Types, [Next]_vars
  PROVE  SharedNext \/ Untouched
<1>1. ASSUME NEW p \in Pids, NewCall(p)
      PROVE  SharedNext
  <2>1. ReleaseCall(p) \/ \E op, a, b : op # "release" /\ Call(p, op, a, b)
    BY <1>1 DEF NewCall, DeviceCall, OpenCall, ReadCall, WriteKeyCall, WriteInitCall, WriteOtherCall
  <2> QED
    BY <2>1 DEF AnyCall, SharedNext
<1>2. ASSUME NEW p \in Pids, Step(p)
      PROVE  SharedNext
  BY <1>2, StepIsShared DEF SharedNext
<1>3. CASE UNCHANGED vars
  BY <1>3 DEF vars, Untouched
<1>4. ASSUME NEW p \in Pids, RejectedCall(p)
      PROVE  Untouched
  BY <1>4 DEF RejectedCall, Rejected, Untouched
<1> QED
  BY <1>1, <1>2, <1>3, <1>4 DEF Next, Stuck, Load, SharedNext

(* The variables keep their types.                                         *)
LEMMA StepKeepsTypes ==
  ASSUME A1Types, MutexInv, [Next]_vars
  PROVE  A1Types'
<1> USE DEF A1Types
<1>0. Keys \subseteq Int /\ Types \subseteq Int /\ Sizes \subseteq Int /\ 0 \in Int
  BY KeysAreInts, ArgumentsAreNumbers
<1>1. ASSUME NEW p \in Pids, NewCall(p), UNCHANGED setUp
      PROVE  A1Types'
  <2>0. \A q \in Pids : DOMAIN pc = Pids /\ DOMAIN loc = Pids
    BY DEF DeviceTypes, CallsOK
  <2>1. ASSUME NEW op, NEW a \in Int, NEW b \in Int, Call(p, op, a, b),
               op = "open" => files[p] < MaxFiles,
               op = "write4" => a \in Keys, op = "write2" => a \in Types /\ b \in Sizes
        PROVE  A1Types'
    <3>1. DeviceTypes(Keys, {0, 1})'
      BY <2>1, CallTypes
    <3>2. /\ loc'[p].op = op /\ loc'[p].a = a /\ loc'[p].b = b
          /\ \A q \in Pids : q # p => pc'[q] = pc[q] /\ loc'[q] = loc[q]
      BY <2>0, <2>1 DEF Call, Goto, NoCall
    <3> QED
      BY <1>1, <2>1, <3>1, <3>2 DEF ArgumentsOK, setUp
  <2>2. CASE OpenCall(p)
    BY <1>0, <2>1, <2>2 DEF OpenCall
  <2>3. CASE ReadCall(p)
    BY <1>0, <2>1, <2>3 DEF ReadCall, Buffers, GoodBuffer, BadBuffer
  <2>4. CASE \E key \in KeysOf[p] : WriteKeyCall(p, key)
    <3>1. PICK key \in KeysOf[p] : Call(p, "write4", key, 0)
      BY <2>4 DEF WriteKeyCall
    <3>2. key \in Keys
      BY DEF Keys
    <3> QED
      BY <1>0, <2>1, <3>1, <3>2
  <2>5. CASE \E type \in Types, size \in Sizes : WriteInitCall(p, type, size)
    BY <1>0, <2>1, <2>5 DEF WriteInitCall
  <2>6. CASE WriteOtherCall(p)
    BY <1>0, <2>1, <2>6 DEF WriteOtherCall
  <2>7. CASE ReleaseCall(p)
    <3>1. DeviceTypes(Keys, {0, 1})'
      BY <2>7, ReleaseCallTypes
    <3>2. pc'[p] # "walk" /\ \A q \in Pids : q # p => pc'[q] = pc[q] /\ loc'[q] = loc[q]
      BY <2>0, <2>7 DEF ReleaseCall, Goto
    <3> QED
      BY <1>1, <3>1, <3>2 DEF ArgumentsOK, setUp
  <2> QED
    BY <1>1, <2>2, <2>3, <2>4, <2>5, <2>6, <2>7 DEF NewCall, DeviceCall
<1>2. ASSUME NEW p \in Pids, Step(p)
      PROVE  A1Types'
  <2>0. /\ pc[p] # "idle" => Loaded
        /\ loc[p] \in Calls(Keys) /\ entry \in NodeIds \cup {Null}
        /\ loc[p].cur \in NodeIds \cup {Null}
        /\ heap_type \in Int /\ heap_size \in Int
    BY <1>0 DEF MutexInv, Quiet, Idle, DeviceTypes, CallsOK, Calls, GlobalsOK, ArgumentsOK
  <2>1. DeviceTypes(Keys, {0, 1})'
    <3>1. CASE DeviceStep(p)
      <4>1. pc[p] # "idle"
        BY <3>1, DeviceStepIsShared
           DEF DeviceTypes, TableStep, Plain, Walk, OpenAllocates, NotFound, OpenBusy, OpenLocks,
               KeyAdd, ReleaseBusy, ReleaseLocks, KeyDel, KeyDelClear, KeyDelFree, KeyDelNone,
               PrintKeyUnlock
      <4> QED
        BY <1>0, <2>0, <3>1, <4>1, StepTypes
    <3>2. CASE WriteKey(p)
      <4>1. GlobalsOK(Keys)'
        BY <2>0, <3>2 DEF WriteKey, Found, ArgumentsOK, DeviceTypes, GlobalsOK
      <4> QED
        BY <3>2, <4>1, GoesOn DEF WriteKey
    <3>3. CASE WriteRefused(p)
      <4>1. PICK v \in Int : Return(p, v)
        BY <3>3 DEF WriteRefused, EINVAL, EACCES
      <4> QED
        BY <2>0, <3>3, <4>1, PlainReturnTypes DEF WriteRefused
    <3>4. CASE WriteInit(p)
      <4>1. GlobalsOK(Keys)'
        BY <2>0, <3>4 DEF WriteInit, DeviceTypes, GlobalsOK
      <4> QED
        BY <3>4, <4>1, GoesOn DEF WriteInit
    <3>5. CASE InitRefused(p)
      <4>1. PICK v \in Int : Return(p, v)
        BY <3>5 DEF InitRefused, EINVAL
      <4> QED
        BY <2>0, <3>5, <4>1, PlainReturnTypes DEF InitRefused
    <3>6. CASE InitAccepted(p)
      <4>1. StoredType \in {0, 1}
        BY DEF StoredType
      <4> HIDE DEF StoredType
      <4> QED
        BY <2>0, <3>6, <4>1, SetUpStepTypes DEF InitAccepted
    <3> QED
      BY <1>2, <3>1, <3>2, <3>3, <3>4, <3>5, <3>6 DEF Step
  <2>2. heap_type' \in Types \cup {0} /\ heap_size' \in Sizes \cup {0}
    BY <1>2 DEF Step, setUp, WriteKey, WriteRefused, WriteInit, InitRefused, Found, ArgumentsOK
  <2>3. ArgumentsOK'
    <3>1. CallsOK(Keys) /\ (TableStep(p) \/ SetUpStep(p) \/ Plain(p))
      BY <1>2, StepIsShared DEF DeviceTypes
    <3> QED
      BY <2>2, <3>1, WalksKeepArguments DEF ArgumentsOK
  <2> QED
    BY <2>1, <2>3
<1>3. CASE HelloExit /\ UNCHANGED setUp
  BY <1>3, LoadTypes DEF HelloExit, ArgumentsOK, setUp
<1>4. CASE Load
  BY <1>4, LoadTypes DEF Load, HelloInit, ArgumentsOK
<1>5. CASE Untouched /\ UNCHANGED setUp
  BY <1>5 DEF Untouched, setUp, DeviceTypes, NodesOK, Addresses, Loaded, HeapsOK, GlobalsOK, CallsOK,
     ArgumentsOK
<1>6. UNCHANGED vars => Untouched /\ UNCHANGED setUp
  BY DEF vars, Untouched, setUp
<1>7. \A p : RejectedCall(p) => Untouched
  BY DEF RejectedCall, Rejected, Untouched
<1> QED
  BY <1>1, <1>2, <1>3, <1>4, <1>5, <1>6, <1>7 DEF Next, Stuck

LEMMA InitHasTypes ==
  ASSUME A1Init
  PROVE  A1Types
<1>1. DeviceTypes(Keys, {0, 1})
  BY InitTypes DEF A1Init
<1>2. ArgumentsOK
  BY DEF A1Init, Init, ArgumentsOK
<1> QED
  BY <1>1, <1>2 DEF A1Types

LEMMA A1BaseInvariant == Spec => [](A1Types /\ MutexInv)
<1>1. A1Init => A1Types /\ MutexInv
  BY InitHasTypes, InitMutex DEF A1Init
<1>2. ASSUME A1Types, MutexInv, [Next]_vars
      PROVE  A1Types' /\ MutexInv'
  <2>1. A1Types'
    BY <1>2, StepKeepsTypes
  <2>2. CASE SharedNext
    BY <1>2, <2>1, <2>2, StepKeepsMutex DEF A1Types
  <2>3. CASE Untouched
    BY <1>2, <2>1, <2>3 DEF Untouched, MutexInv, Loaded, Quiet, Idle, MutexIsHeldInside, Critical
  <2> QED
    BY <1>2, <2>2, <2>3, NextIsShared
<1> QED
  BY <1>1, <1>2, PTL DEF Spec

(* Whatever the processes do and however their calls overlap, every        *)
(* variable of the module keeps its type: no handler stores outside an     *)
(* array, and every address it stores is one that kmalloc could return.    *)
THEOREM A1TypesHold == Spec => []TypeOK
<1>1. A1Types => TypeOK
  BY DEF A1Types, ArgumentsOK, DeviceTypes, NodesOK, Addresses, Nodes, HeapsOK, Heaps, GlobalsOK, TypeOK
<1> QED
  BY <1>1, A1BaseInvariant, PTL

(* A process holds heap_mutex exactly between its trylock and its unlock:  *)
(* no path of dev_open or dev_release returns with the mutex, and no other *)
(* call gives it away, however the calls overlap.                          *)
THEOREM A1MutexIsHeldInside == Spec => []MutexIsHeldInside
BY A1BaseInvariant, PTL DEF MutexInv

LEMMA A1TableInvariant ==
  ASSUME OpensOverlapCloses
  PROVE  Spec => [](TableInv /\ FilesCounted)
<1> DEFINE Base == A1Types /\ MutexInv
<1>1. A1Init => TableInv /\ FilesCounted
  <2> SUFFICES ASSUME A1Init PROVE TableInv /\ FilesCounted
    OBVIOUS
  <2>1. DeviceTypes(Keys, {0, 1}) /\ Init
    BY InitHasTypes DEF A1Init, A1Types
  <2>2. TableInv /\ Listed = {}
    BY <2>1, InitTable
  <2> QED
    BY <2>1, <2>2, InitCount
<1>2. Base /\ Base' /\ [Next]_vars /\ TableInv /\ FilesCounted => TableInv' /\ FilesCounted'
  <2> SUFFICES ASSUME Base, Base', [Next]_vars, TableInv, FilesCounted
               PROVE  TableInv' /\ FilesCounted'
    OBVIOUS
  <2>1. DeviceTypes(Keys, {0, 1}) /\ DeviceTypes(Keys, {0, 1})' /\ MutexInv /\ MutexInv'
    BY DEF A1Types
  <2>2. CASE SharedNext
    BY <2>1, <2>2, StepKeepsTable, StepKeepsCount
  <2>3. CASE Untouched
    BY <2>3, TableUnchanged, CountUnchanged
  <2> QED
    BY <2>2, <2>3, NextIsShared
<1>3. Spec => []Base
  BY A1BaseInvariant DEF Base
<1> HIDE DEF Base
<1> QED
  BY <1>1, <1>2, <1>3, PTL DEF Spec

LEMMA A1TableShows ==
  ASSUME OpensOverlapCloses
  PROVE  Spec => [](WalksEnd /\ FilesHaveEntries)
<1>1. A1Types /\ TableInv /\ FilesCounted => WalksEnd /\ FilesHaveEntries
  BY TableShows DEF A1Types
<1> QED
  BY <1>1, A1BaseInvariant, A1TableInvariant, PTL

(* When nothing but closes overlaps with an open, the list of processes    *)
(* ends in NULL at every moment: get_entry_from_key, key_del and print_key *)
(* never loop, though the first takes no mutex and dev_open hands its new  *)
(* h_struct to key_add in a global.                                        *)
THEOREM A1WalksEnd ==
  ASSUME OpensOverlapCloses
  PROVE  Spec => []WalksEnd
BY A1TableShows, PTL

(* And a process that has the device open has an entry in the list: no     *)
(* close, also one that overlaps or fails with -EBUSY, takes the entry of  *)
(* another process or of another file.                                     *)
THEOREM A1FilesHaveEntries ==
  ASSUME OpensOverlapCloses
  PROVE  Spec => []FilesHaveEntries
BY A1TableShows, PTL

LEMMA A1OwnerInvariant ==
  ASSUME UsesOverlap
  PROVE  Spec => []OwnerInv
<1> DEFINE Base == A1Types /\ MutexInv /\ TableInv
<1>1. A1Init => OwnerInv
  <2> SUFFICES ASSUME A1Init PROVE OwnerInv
    OBVIOUS
  <2>1. DeviceTypes(Keys, {0, 1}) /\ Init
    BY InitHasTypes DEF A1Init, A1Types
  <2> QED
    BY <2>1, InitTable, InitOwner
<1>2. Base /\ Base' /\ [Next]_vars /\ OwnerInv => OwnerInv'
  <2> SUFFICES ASSUME Base, Base', [Next]_vars, OwnerInv
               PROVE  OwnerInv'
    OBVIOUS
  <2>1. DeviceTypes(Keys, {0, 1}) /\ DeviceTypes(Keys, {0, 1})' /\ MutexInv /\ TableInv
    BY DEF A1Types
  <2>2. CASE SharedNext
    BY <2>1, <2>2, StepKeepsOwner
  <2>3. CASE Untouched
    BY <2>3, OwnerUnchanged
  <2> QED
    BY <2>2, <2>3, NextIsShared
<1>3. Spec => []Base
  <2>1. Spec => [](TableInv /\ FilesCounted)
    BY UsesImplyOpens, A1TableInvariant
  <2> QED
    BY <2>1, A1BaseInvariant, PTL DEF Base
<1> HIDE DEF Base
<1> QED
  BY <1>1, <1>2, <1>3, PTL DEF Spec

(* When closes overlap with anything, and reads and writes of keys with    *)
(* each other, a read pops from the heap of the process that reads: the    *)
(* entry it found without the mutex is in the list and its own, and no two *)
(* entries have the same heap.                                             *)
THEOREM A1PopsOwnHeap ==
  ASSUME UsesOverlap
  PROVE  Spec => PopsOwnHeap
<1> DEFINE Pops == \A p \in Pids : pc[p] = "walk" /\ pc'[p] = "down" =>
                     \A n \in Listed : nodes[n].global_heap = loc'[p].heap => nodes[n].key = p
<1>1. A1Types /\ TableInv /\ OwnerInv /\ [Next]_vars => [Pops]_deviceVars
  <2> SUFFICES ASSUME A1Types, TableInv, OwnerInv, [Next]_vars, ~ UNCHANGED deviceVars
               PROVE  Pops
    OBVIOUS
  <2>1. (SharedNext \/ Untouched) /\ DeviceTypes(Keys, {0, 1})
    BY NextIsShared DEF A1Types
  <2>2. CASE HelloExit \/ HelloInit \/ Untouched
    BY <2>2 DEF HelloExit, HelloInit, Untouched
  <2>3. ASSUME NEW p \in Pids, AnyCall(p) \/ TableStep(p) \/ SetUpStep(p) \/ Plain(p)
        PROVE  Pops
    BY <2>1, <2>3, PopIsOwn
  <2> QED
    BY <2>1, <2>2, <2>3 DEF SharedNext
<1>2. Spec => [](A1Types /\ TableInv /\ OwnerInv)
  <2>1. Spec => [](TableInv /\ FilesCounted)
    BY UsesImplyOpens, A1TableInvariant
  <2> QED
    BY <2>1, A1BaseInvariant, A1OwnerInvariant, PTL
<1>3. Spec => [][Pops]_deviceVars
  <2> HIDE DEF Pops
  <2> QED
    BY <1>1, <1>2, PTL DEF Spec
<1> QED
  BY <1>3 DEF PopsOwnHeap

LEMMA A1OwnedInvariant ==
  ASSUME UsesOverlap, "rmmod" \notin Ops
  PROVE  Spec => [](Loaded /\ Owned)
<1> DEFINE Base == A1Types /\ MutexInv /\ TableInv /\ OwnerInv
<1>1. A1Init => Loaded /\ Owned
  BY DEF A1Init, Init, Loaded, Owned
<1>2. Base /\ Base' /\ [Next]_vars /\ Loaded /\ Owned => Loaded' /\ Owned'
  <2> SUFFICES ASSUME Base, Base', [Next]_vars, Loaded, Owned
               PROVE  Loaded' /\ Owned'
    OBVIOUS
  <2>1. DeviceTypes(Keys, {0, 1}) /\ DeviceTypes(Keys, {0, 1})' /\ MutexInv /\ TableInv /\ OwnerInv
    BY DEF A1Types
  <2>2. CASE SharedNext
    <3>1. ~ HelloExit /\ ~ HelloInit
      BY DEF HelloExit, HelloInit
    <3> QED
      BY <2>1, <2>2, <3>1, StepKeepsOwned, StepMovesList DEF SharedNext
  <2>3. CASE Untouched
    BY <2>3, OwnedUnchanged DEF Untouched, Loaded
  <2> QED
    BY <2>2, <2>3, NextIsShared
<1>3. Spec => []Base
  <2>1. Spec => [](TableInv /\ FilesCounted)
    BY UsesImplyOpens, A1TableInvariant
  <2> QED
    BY <2>1, A1BaseInvariant, A1OwnerInvariant, PTL DEF Base
<1> HIDE DEF Base
<1> QED
  BY <1>1, <1>2, <1>3, PTL DEF Spec

(* No heap is lost or shared while the module is loaded: between the calls *)
(* every heap in memory is that of exactly one listed process, and no      *)
(* listed process points to a heap that was destroyed.                     *)
THEOREM A1HeapsAreOwned ==
  ASSUME UsesOverlap, "rmmod" \notin Ops
  PROVE  Spec => []HeapsAreOwned
<1>1. OwnerInv /\ Loaded /\ Owned => HeapsAreOwned
  BY OwnedShows
<1> QED
  BY <1>1, A1OwnerInvariant, A1OwnedInvariant, PTL

LEMMA A1TurnsInvariant ==
  ASSUME TakeTurns
  PROVE  Spec => [](A1Types /\ MutexInv /\ TableInv /\ OwnerInv /\ TurnsInv)
<1> DEFINE Base == A1Types /\ MutexInv /\ TableInv /\ OwnerInv
<1>1. A1Init => TurnsInv
  <2> SUFFICES ASSUME A1Init PROVE TurnsInv
    OBVIOUS
  <2>1. DeviceTypes(Keys, {0, 1}) /\ Init
    BY InitHasTypes DEF A1Init, A1Types
  <2> QED
    BY <2>1, InitTable, InitTurns
<1>2. Base /\ Base' /\ [Next]_vars /\ TurnsInv => TurnsInv'
  <2> SUFFICES ASSUME Base, Base', [Next]_vars, TurnsInv
               PROVE  TurnsInv'
    OBVIOUS
  <2>1. DeviceTypes(Keys, {0, 1}) /\ DeviceTypes(Keys, {0, 1})' /\ MutexInv /\ TableInv /\ OwnerInv
    BY DEF A1Types
  <2>2. CASE SharedNext
    BY <2>1, <2>2, StepKeepsTurns
  <2>3. CASE Untouched
    BY <2>3, TurnsUnchanged
  <2> QED
    BY <2>2, <2>3, NextIsShared
<1>3. Spec => []Base
  <2>1. Spec => [](TableInv /\ FilesCounted)
    BY TurnsAreUses, UsesImplyOpens, A1TableInvariant
  <2>2. Spec => []OwnerInv
    BY TurnsAreUses, A1OwnerInvariant
  <2> QED
    BY <2>1, <2>2, A1BaseInvariant, PTL DEF Base
<1>4. Base /\ TurnsInv <=> A1Types /\ MutexInv /\ TableInv /\ OwnerInv /\ TurnsInv
  OBVIOUS
<1> HIDE DEF Base
<1> QED
  BY <1>1, <1>2, <1>3, <1>4, PTL DEF Spec

LEMMA A1TurnsShow ==
  ASSUME TakeTurns
  PROVE  Spec => [](TableMatchesFiles /\ HeapsAreOwned /\ NothingLeft)
<1>1. A1Types /\ MutexInv /\ TableInv /\ OwnerInv /\ TurnsInv =>
        TableMatchesFiles /\ HeapsAreOwned /\ NothingLeft
  BY TurnsShow DEF A1Types
<1> QED
  BY <1>1, A1TurnsInvariant, PTL

(* When processes take turns, the list has exactly one h_struct for every  *)
(* process that has the device open, and no other h_struct is in memory    *)
(* between the calls.                                                      *)
THEOREM A1TableMatchesFiles ==
  ASSUME TakeTurns
  PROVE  Spec => []TableMatchesFiles
BY A1TurnsShow, PTL

(* Then removing the module frees everything: the last close has destroyed *)
(* the heaps that hello_exit does not know of, and the list is empty.      *)
THEOREM A1NothingLeft ==
  ASSUME TakeTurns
  PROVE  Spec => []NothingLeft
BY A1TurnsShow, PTL
-----------------------------------------------------------------------------
(* What a handler left in the globals is there when it loads it again.     *)
GlobalsKept ==
  \A p \in Pids :
    /\ pc[p] = "walk" => loc[p].heap = Null
    /\ pc[p] = "insert" => entry \in Listed /\ nodes[entry].key = p /\ num = loc[p].a
    /\ pc[p] = "copy" /\ loc[p].heap # Null => topnode = loc[p].val

LEMMA StepKeepsGlobals ==
  ASSUME OnlyClosesOverlap, A1Types, A1Types', MutexInv, TableInv, OwnerInv, GlobalsKept, [Next]_vars
  PROVE  GlobalsKept'
<1> USE DEF A1Types, DeviceTypes
<1>0. DOMAIN pc = Pids /\ DOMAIN loc = Pids
  BY DEF CallsOK
<1>1. ASSUME NEW p \in Pids, NewCall(p) \/ Step(p),
             NEW q \in Pids
      PROVE  /\ pc'[q] = "walk" => loc'[q].heap = Null
             /\ pc'[q] = "insert" => entry' \in Listed' /\ nodes'[entry'].key = q /\ num' = loc'[q].a
             /\ pc'[q] = "copy" /\ loc'[q].heap # Null => topnode' = loc'[q].val
  <2>1. AnyCall(p) \/ TableStep(p) \/ SetUpStep(p) \/ Plain(p)
    <3>1. NewCall(p) => AnyCall(p)
      BY DEF NewCall, DeviceCall, OpenCall, ReadCall, WriteKeyCall, WriteInitCall, WriteOtherCall, AnyCall
    <3> QED
      BY <1>1, <3>1, StepIsShared
  <2>2. CASE q # p
    <3>1. pc'[q] = pc[q] /\ loc'[q] = loc[q]
      BY <2>1, <2>2, StepsAreOfOne
    <3>2. CASE pc[q] \in {"insert", "copy"}
      <4>1. ~ Idle(q) /\ loc[q].op # "release"
        BY <3>2 DEF TableInv, LabelsOK, Deleting, Idle
      <4>2. UNCHANGED <<entry, num, topnode>>
        BY <2>1, <2>2, <4>1, OthersStepAside DEF TableInv
      <4>3. pc[q] = "insert" => entry \in Listed' /\ nodes'[entry].key = q
        BY <2>1, <2>2, OthersKeepEntry DEF GlobalsKept
      <4> QED
        BY <3>1, <3>2, <4>2, <4>3 DEF GlobalsKept
    <3>3. CASE pc[q] \notin {"insert", "copy"}
      BY <3>1, <3>3 DEF GlobalsKept
    <3> QED
      BY <3>2, <3>3
  <2>3. CASE q = p
    <3>1. ASSUME pc'[p] = "walk"
          PROVE  loc'[p].heap = Null
      <4>1. CASE AnyCall(p)
        <5>1. PICK op, a, b : Call(p, op, a, b)
          BY <1>0, <3>1, <4>1 DEF AnyCall, ReleaseCall, Goto
        <5> QED
          BY <1>0, <5>1 DEF Call, NoCall
      <4>2. CASE ~ AnyCall(p)
        <5>1. Walk(p)
          BY <1>0, <2>1, <3>1, <4>2 DEF TableStep, OpenAllocates, OpenBusy, OpenLocks, KeyAdd, ReleaseBusy,
             ReleaseLocks, KeyDel, KeyDelClear, KeyDelFree, KeyDelNone, PrintKeyUnlock, Return, Goto,
             SetUpStep, InitCreates, InitCreatesAgain, InitDestroys, InitStores, CreateHeap, Plain
        <5>2. DOMAIN loc[p] = {"op", "a", "b", "cur", "heap", "idx", "val"}
          BY DEF CallsOK, Calls
        <5> QED
          BY <1>0, <5>1, <5>2 DEF Walk, GlobalsKept
      <4> QED
        BY <4>1, <4>2
    <3>2. ASSUME pc'[p] \in {"insert", "copy"}
          PROVE  WriteKey(p) \/ ReadEmpty(p) \/ ReadSetsTopnode(p)
      <4>1. ~ AnyCall(p) /\ ~ TableStep(p) /\ ~ SetUpStep(p)
        BY <1>0, <3>2 DEF AnyCall, Call, ReleaseCall, TableStep, Walk, OpenAllocates, OpenBusy, OpenLocks, KeyAdd,
           ReleaseBusy, ReleaseLocks, KeyDel, KeyDelClear, KeyDelFree, KeyDelNone, PrintKeyUnlock,
           Return, Goto, SetUpStep, InitCreates, InitCreatesAgain, InitDestroys, InitStores, CreateHeap
      <4>2. ~ NewCall(p)
        BY <4>1 DEF NewCall, DeviceCall, OpenCall, ReadCall, WriteKeyCall, WriteInitCall, WriteOtherCall, AnyCall
      <4>3. ~ InitAccepted(p)
        BY <4>1 DEF InitAccepted, SetUpStep
      <4>4. CASE DeviceStep(p)
        BY <1>0, <3>2, <4>1, <4>4
           DEF DeviceStep, TableStep, OpenTwice, Insert, InsertFull, HeapifyBottomTop, InsertReturns,
               HeapifyTopBottom, NoEntry, ReadUnset, ReadPops, PopMin, CopyToUser, ReadReturns, Return, Goto
      <4> QED
        BY <1>0, <1>1, <3>2, <4>2, <4>3, <4>4 DEF Step, WriteRefused, WriteInit, InitRefused, Return, Goto
    <3>3. CASE WriteKey(p)
      <4>1. loc[p].cur \in Listed /\ nodes[loc[p].cur].key = p
        BY <3>3, FoundIsListed DEF WriteKey, OwnerInv
      <4>2. Listed' = Listed
        <5>1. Unchanged(p) \/ Adds(p) \/ Deletes(p)
          BY <2>1, StepMovesList
        <5> QED
          BY <3>3, <5>1 DEF WriteKey, Found, Unchanged, Adds, Deletes, KeyAdd, KeyDel
      <4> QED
        BY <1>0, <2>3, <3>3, <4>1, <4>2 DEF WriteKey, Goto
    <3>4. CASE ReadEmpty(p)
      BY <1>0, <2>3, <3>4 DEF ReadEmpty, Found, Goto, GlobalsKept
    <3>5. CASE ReadSetsTopnode(p)
      BY <1>0, <2>3, <3>5 DEF ReadSetsTopnode, Goto
    <3> QED
      BY <2>3, <3>1, <3>2, <3>3, <3>4, <3>5
  <2> QED
    BY <2>2, <2>3
<1>2. CASE HelloExit \/ HelloInit
  <2>1. \A q \in Pids : pc'[q] = "idle"
    BY <1>2, LoadingMovesList DEF HelloExit, HelloInit, Quiet, Idle
  <2> QED
    BY <2>1 DEF GlobalsKept
<1>3. CASE Untouched
  <2>1. nodes' = nodes /\ pc' = pc /\ loc' = loc /\ entry' = entry /\ num' = num /\ topnode' = topnode
    BY <1>3 DEF Untouched
  <2>2. Visit' = Visit
    BY <2>1 DEF Visit
  <2>3. Listed' = Listed
    BY <2>1, <2>2 DEF Listed
  <2> QED
    BY <2>1, <2>3 DEF GlobalsKept
<1>4. \/ \E p \in Pids : NewCall(p) \/ Step(p)
      \/ HelloExit \/ HelloInit
      \/ Untouched
  BY DEF Next, Stuck, Load, vars, RejectedCall, Rejected, Untouched
<1> QED
  BY <1>1, <1>2, <1>3, <1>4 DEF GlobalsKept

(* However closes overlap with a call of another process, a write inserts  *)
(* its own key into the heap of its own process and a read hands out what  *)
(* it popped, though both load the globals entry, num and topnode again    *)
(* after a call of the kernel's.                                           *)
THEOREM A1KeysStayApart ==
  ASSUME OnlyClosesOverlap
  PROVE  Spec => KeysStayApart
<1> DEFINE Base == A1Types /\ MutexInv /\ TableInv /\ OwnerInv
           Apt == \A p \in Pids :
                    /\ pc[p] = "insert" /\ pc'[p] = "up" =>
                         nodes[entry].key = p /\ loc'[p].val = loc[p].a
                    /\ pc[p] = "copy" /\ pc'[p] = "check" /\ loc[p].heap # Null =>
                         loc'[p].val = loc[p].val
<1>1. A1Init => GlobalsKept
  BY DEF A1Init, Init, GlobalsKept
<1>2. Base /\ Base' /\ [Next]_vars /\ GlobalsKept => GlobalsKept'
  BY StepKeepsGlobals
<1>3. Base /\ GlobalsKept /\ [Next]_vars => [Apt]_deviceVars
  <2> SUFFICES ASSUME Base, GlobalsKept, [Next]_vars, ~ UNCHANGED deviceVars, NEW q \in Pids
               PROVE  /\ pc[q] = "insert" /\ pc'[q] = "up" =>
                           nodes[entry].key = q /\ loc'[q].val = loc[q].a
                      /\ pc[q] = "copy" /\ pc'[q] = "check" /\ loc[q].heap # Null =>
                           loc'[q].val = loc[q].val
    OBVIOUS
  <2>0. CallsOK(Keys) /\ DOMAIN pc = Pids /\ DOMAIN loc = Pids
    BY DEF A1Types, DeviceTypes, CallsOK
  <2>1. CASE HelloExit \/ HelloInit \/ Untouched
    BY <2>1 DEF HelloExit, HelloInit, Untouched
  <2>2. ASSUME NEW p \in Pids, NewCall(p) \/ Step(p), pc[q] \in {"insert", "copy"},
               pc'[q] \in {"up", "check"}
        PROVE  Insert(q) \/ CopyToUser(q)
    <3>1. q = p
      <4>1. AnyCall(p) \/ TableStep(p) \/ SetUpStep(p) \/ Plain(p)
        <5>1. NewCall(p) => AnyCall(p)
          BY DEF NewCall, DeviceCall, OpenCall, ReadCall, WriteKeyCall, WriteInitCall, WriteOtherCall, AnyCall
        <5> QED
          BY <2>2, <5>1, StepIsShared
      <4> QED
        BY <2>0, <2>2, <4>1, StepsAreOfOne
    <3>2. ~ NewCall(p)
      BY <2>2, <3>1 DEF NewCall, DeviceCall, OpenCall, ReadCall, WriteKeyCall, WriteInitCall, WriteOtherCall, Call,
         ReleaseCall, MayCall, Idle
    <3>3. CASE DeviceStep(p)
      BY <2>0, <2>2, <3>1, <3>3
         DEF DeviceStep, Walk, OpenTwice, OpenAllocates, NotFound, OpenBusy, OpenLocks, KeyAdd, ReleaseBusy,
             ReleaseLocks, KeyDel, KeyDelClear, KeyDelFree, KeyDelNone, PrintKeyUnlock, Found, InsertFull,
             HeapifyBottomTop, InsertReturns, HeapifyTopBottom, NoEntry, ReadUnset, ReadEmpty, ReadPops,
             ReadSetsTopnode, Popped, ReadReturns, Return, Goto
    <3> QED
      BY <2>2, <3>1, <3>2, <3>3 DEF Step, WriteKey, WriteRefused, WriteInit, Found, InitRefused, InitAccepted,
         InitCreates, InitCreatesAgain, InitDestroys, InitStores
  <2>3. CASE Insert(q)
    <3>1. DOMAIN loc[q] = {"op", "a", "b", "cur", "heap", "idx", "val"}
      BY <2>0 DEF CallsOK, Calls
    <3>2. PICK h, i : loc' = [loc EXCEPT ![q].heap = h, ![q].idx = i, ![q].val = num]
      BY <2>3 DEF Insert
    <3>3. loc'[q].val = num /\ pc[q] = "insert"
      BY <2>0, <2>3, <3>1, <3>2 DEF Insert
    <3> QED
      BY <3>3 DEF GlobalsKept
  <2>4. CASE CopyToUser(q)
    <3>1. DOMAIN loc[q] = {"op", "a", "b", "cur", "heap", "idx", "val"}
      BY <2>0 DEF CallsOK, Calls
    <3>2. loc'[q].val = topnode /\ pc[q] = "copy"
      BY <2>0, <2>4, <3>1 DEF CopyToUser
    <3> QED
      BY <3>2 DEF GlobalsKept
  <2>5. \/ \E p \in Pids : NewCall(p) \/ Step(p)
        \/ HelloExit \/ HelloInit \/ Untouched
    BY DEF Next, Stuck, Load, vars, deviceVars, RejectedCall, Rejected, Untouched
  <2> QED
    BY <2>1, <2>2, <2>3, <2>4, <2>5
<1>4. Spec => []Base
  <2>1. Spec => [](TableInv /\ FilesCounted)
    BY OnlyClosesAreUses, UsesImplyOpens, A1TableInvariant
  <2>2. Spec => []OwnerInv
    BY OnlyClosesAreUses, A1OwnerInvariant
  <2> QED
    BY <2>1, <2>2, A1BaseInvariant, PTL DEF Base
<1>5. Spec => []GlobalsKept
  <2> HIDE DEF Base
  <2> QED
    BY <1>1, <1>2, <1>4, PTL DEF Spec
<1>6. Spec => [][Apt]_deviceVars
  <2> HIDE DEF Apt, Base
  <2> QED
    BY <1>3, <1>4, <1>5, PTL DEF Spec
<1> QED
  BY <1>6 DEF KeysStayApart
-----------------------------------------------------------------------------
(* What dev_write has checked is still in the globals when it is used.     *)
StillGood == \A p \in Pids : pc[p] = "init_again" => GoodInit

LEMMA StepIsTurn ==
  ASSUME A1Types, StillGood, NEW p \in Pids, Step(p)
  PROVE  AloneStep(p)
<1> USE DEF A1Types
<1>0. DOMAIN pc = Pids
  BY DEF DeviceTypes, CallsOK
<1>1. CASE DeviceStep(p)
  BY <1>1, DeviceStepIsAlone DEF AloneStep
<1>2. CASE InitAccepted(p)
  <2>1. GoodInit => heap_size \in Nat \ {0}
    BY ArgumentsAreNumbers DEF GoodInit
  <2>2. StoredType \in Int
    BY DEF StoredType
  <2>3. CASE GoodInit
    <3> HIDE DEF StoredType
    <3> QED
      BY <1>2, <2>1, <2>2, <2>3 DEF InitAccepted, GoodSetUp, AloneStep
  <2>4. CASE ~ GoodInit
    <3>1. pc[p] # "init_again"
      BY <2>4 DEF StillGood
    <3> QED
      BY <1>2, <2>4, <3>1 DEF InitAccepted, InitCreatesAgain, GoodSetUp, AloneStep
  <2> QED
    BY <2>3, <2>4
<1>3. CASE WriteKey(p) \/ WriteRefused(p) \/ WriteInit(p) \/ InitRefused(p)
  <2>1. Plain(p)
    <3>1. ~ TableStep(p) /\ ~ SetUpStep(p)
      BY <1>0, <1>3
         DEF WriteKey, WriteRefused, WriteInit, InitRefused, Found, Return, Goto, TableStep, Walk, OpenAllocates,
             NotFound, OpenBusy, OpenLocks, KeyAdd, ReleaseBusy, ReleaseLocks, KeyDel, KeyDelClear, KeyDelFree,
             KeyDelNone, PrintKeyUnlock, SetUpStep, InitCreates, InitCreatesAgain, InitDestroys, InitStores,
             CreateHeap
    <3> QED
      BY <1>3, <3>1, StepIsShared DEF Step
  <2>2. Steady(p)
    BY <1>0, <1>3
       DEF WriteKey, WriteRefused, WriteInit, InitRefused, Found, Return, Goto, Steady, UseLabels
  <2> QED
    BY <2>1, <2>2 DEF AloneStep
<1> QED
  BY <1>1, <1>2, <1>3 DEF Step

LEMMA NextIsTurn ==
  ASSUME A1Types, StillGood, [Next]_vars
  PROVE  (\E p \in Pids : AloneStep(p)) \/ HelloExit \/ HelloInit \/ Untouched
<1>1. ASSUME NEW p \in Pids, NewCall(p)
      PROVE  AloneStep(p)
  BY <1>1 DEF NewCall, DeviceCall, OpenCall, ReadCall, WriteKeyCall, WriteInitCall, WriteOtherCall, AnyCall, AloneStep
<1>2. ASSUME NEW p \in Pids, Step(p)
      PROVE  AloneStep(p)
  BY <1>2, StepIsTurn
<1> QED
  BY <1>1, <1>2 DEF Next, Stuck, Load, vars, RejectedCall, Rejected, Untouched

LEMMA StepKeepsGood ==
  ASSUME TakeTurns, A1Types, A1Types', MutexInv, TableInv, StillGood, [Next]_vars
  PROVE  StillGood'
<1> USE DEF A1Types
<1>0. DOMAIN pc = Pids
  BY DEF DeviceTypes, CallsOK
<1>1. ASSUME NEW p \in Pids, (NewCall(p) /\ UNCHANGED setUp) \/ Step(p)
      PROVE  StillGood'
  <2>1. AloneStep(p)
    <3>1. NewCall(p) => AloneStep(p)
      BY DEF NewCall, DeviceCall, OpenCall, ReadCall, WriteKeyCall, WriteInitCall, WriteOtherCall, AnyCall, AloneStep
    <3> QED
      BY <1>1, <3>1, StepIsTurn
  <2>2. \A q \in Pids : q # p => pc'[q] = "idle"
    BY <2>1, StepIsAlone
  <2> SUFFICES ASSUME pc'[p] = "init_again"
               PROVE  GoodInit'
    BY <2>2 DEF StillGood
  <2>3. InitDestroys(p)
    BY <1>0, <2>1
       DEF AloneStep, AnyCall, Call, ReleaseCall, TableStep, Walk, OpenAllocates, NotFound, OpenBusy,
           OpenLocks, KeyAdd, ReleaseBusy, ReleaseLocks, KeyDel, KeyDelClear, KeyDelFree, KeyDelNone,
           PrintKeyUnlock, Plain, Marked, Return, Goto, GoodSetUp, InitCreates, InitCreatesAgain, InitStores,
           CreateHeap
  <2>4. pc[p] = "init" /\ loc' = loc /\ pc'[p] # "idle"
    BY <2>3 DEF InitDestroys
  <2>5. ~ NewCall(p)
    BY <2>4 DEF NewCall, DeviceCall, OpenCall, ReadCall, WriteKeyCall, WriteInitCall, WriteOtherCall, Call, ReleaseCall,
       MayCall, Idle
  <2>6. ~ DeviceStep(p) /\ ~ InitRefused(p)
    <3>1. ~ DeviceStep(p)
      BY <1>0, <2>4
         DEF DeviceStep, Walk, OpenTwice, OpenAllocates, NotFound, OpenBusy, OpenLocks, KeyAdd, ReleaseBusy,
             ReleaseLocks, KeyDel, KeyDelClear, KeyDelFree, KeyDelNone, PrintKeyUnlock, Found, Insert,
             InsertFull, HeapifyBottomTop, InsertReturns, HeapifyTopBottom, NoEntry, ReadUnset, ReadEmpty,
             ReadPops, ReadSetsTopnode, CopyToUser, Popped, ReadReturns
    <3> QED
      BY <1>0, <2>4, <3>1 DEF InitRefused, Return, Goto
  <2> QED
    BY <1>1, <2>4, <2>5, <2>6
       DEF Step, WriteKey, WriteRefused, WriteInit, Found, InitAccepted, InitCreatesAgain, InitStores, GoodInit,
           setUp
<1>2. CASE (HelloExit /\ UNCHANGED setUp) \/ Load
  <2>1. Quiet /\ pc' = pc
    BY <1>2 DEF HelloExit, Load, HelloInit, MutexInv
  <2> QED
    BY <2>1 DEF Quiet, Idle, StillGood
<1>3. CASE Untouched /\ UNCHANGED setUp
  BY <1>3 DEF Untouched, setUp, StillGood, GoodInit
<1>4. UNCHANGED vars => Untouched /\ UNCHANGED setUp
  BY DEF vars, Untouched, setUp
<1>5. \A p : RejectedCall(p) => Untouched
  BY DEF RejectedCall, Rejected, Untouched
<1> QED
  BY <1>1, <1>2, <1>3, <1>4, <1>5 DEF Next, Stuck

LEMMA A1AloneInvariant ==
  ASSUME TakeTurns
  PROVE  Spec => [](A1Types /\ MutexInv /\ TableInv /\ OwnerInv /\ TurnsInv /\ AloneInv)
<1> DEFINE Base == A1Types /\ MutexInv /\ TableInv /\ OwnerInv /\ TurnsInv
           Both == StillGood /\ AloneInv
<1>1. A1Init => Both
  <2> SUFFICES ASSUME A1Init PROVE Both
    OBVIOUS
  <2>1. DeviceTypes(Keys, {0, 1}) /\ Init
    BY InitHasTypes DEF A1Init, A1Types
  <2>2. Listed = {}
    BY <2>1, InitTable
  <2>3. StillGood
    BY <2>1 DEF Init, StillGood
  <2> QED
    BY <2>1, <2>2, <2>3, InitAlone
<1>2. Base /\ Base' /\ [Next]_vars /\ Both => Both'
  <2> SUFFICES ASSUME Base, Base', [Next]_vars, Both
               PROVE  Both'
    OBVIOUS
  <2>1. DeviceTypes(Keys, {0, 1}) /\ DeviceTypes(Keys, {0, 1})'
    BY DEF A1Types
  <2>2. (\E p \in Pids : AloneStep(p)) \/ HelloExit \/ HelloInit \/ Untouched
    BY NextIsTurn
  <2>3. AloneInv'
    <3>1. Keys \subseteq Int /\ {0, 1} \subseteq Int
      BY KeysAreInts
    <3> QED
      BY <2>1, <2>2, <3>1, StepKeepsAlone
  <2>4. StillGood'
    BY StepKeepsGood
  <2> QED
    BY <2>3, <2>4
<1>3. Spec => []Base
  BY A1TurnsInvariant
<1>4. Base /\ Both => A1Types /\ MutexInv /\ TableInv /\ OwnerInv /\ TurnsInv /\ AloneInv
  OBVIOUS
<1> HIDE DEF Base, Both
<1> QED
  BY <1>1, <1>2, <1>3, <1>4, PTL DEF Spec

(* When processes take turns and kmalloc has an h_struct for each of them, *)
(* no handler follows a pointer to memory that is not its object's, leaves *)
(* an array's bounds or walks a list without end, whatever they call.      *)
THEOREM A1NoFault ==
  ASSUME TakeTurns, NodesSuffice
  PROVE  Spec => []NoFault
<1>1. A1Types /\ MutexInv /\ TableInv /\ OwnerInv /\ TurnsInv /\ AloneInv => NoFault
  <2>1. Keys \subseteq Int /\ {0, 1} \subseteq Int
    BY KeysAreInts
  <2>2. ASSUME A1Types, MutexInv, TableInv, OwnerInv, TurnsInv, AloneInv, NEW p \in Pids
        PROVE  ~ DeviceFault(p) /\ ~ SetUpFault(p) /\ ~ Spins(p)
    BY <2>1, <2>2, AloneIsSafe DEF A1Types
  <2> QED
    BY <2>2 DEF NoFault, Fault
<1> QED
  BY <1>1, A1AloneInvariant, PTL

-----------------------------------------------------------------------------
(* What a call of p has established before each of its steps.              *)
CallKept(p) ==
  /\ pc[p] = "walk" => /\ loc[p].heap = Null
                       /\ loc[p].op # "open" => files[p] > 0
                       /\ loc[p].op = "write4" => loc[p].a \in KeysOf[p]
                       /\ loc[p].op = "read" /\ CopyFails(p) => p \in BadBuffers
  /\ pc[p] \in {"insert", "up"} => loc[p].op = "write4"
  /\ pc[p] = "insert" => num \in KeysOf[p]
  /\ pc[p] \in {"down", "copy", "check"} =>
       /\ loc[p].op = "read"
       /\ loc[p].heap # Null => loc[p].val \in KeysOf[p]
       /\ CopyFails(p) => p \in BadBuffers
  /\ pc[p] \in {"copy", "check"} =>
       IF loc[p].heap # Null THEN topnode = loc[p].val
       ELSE topnode = EmptyPop /\ heaps[nodes[entry].global_heap].count = 0
  /\ pc[p] \in {"init", "init_store"} =>
       loc[p].op = "write2" /\ heap_type \in Types /\ heap_size \in Sizes
  /\ pc[p] = "init" => nodes[entry].global_heap = Null
  /\ pc[p] # "init_again"
  /\ pc[p] = "init_store" =>
       LET h == loc[p].heap
       IN  /\ GoodInit
           /\ h \in DOMAIN heaps
           /\ heaps[h].count = 0 /\ heaps[h].capacity = heap_size /\ heaps[h].heap_type = StoredType

Involved == {"walk", "insert", "up", "down", "copy", "check", "init", "init_again", "init_store"}

A1Inv ==
  /\ A1Types /\ MutexInv /\ SerialInv /\ TurnsInv
  /\ \A p \in Pids : CallKept(p)
  /\ KeysHeld(KeysOf)

LEMMA KeysAreOwn == \A p \in Pids : KeysOf[p] \subseteq Int /\ KeysOf[p] \subseteq Keys
BY ArgumentsAreNumbers DEF Keys

(* What the invariant says, in the parts that the lemmas take.             *)
LEMMA A1Facts ==
  ASSUME A1Inv
  PROVE  /\ Keys \subseteq Int /\ {0, 1} \subseteq Int /\ DeviceTypes(Keys, {0, 1}) /\ StillGood
         /\ DOMAIN pc = Pids /\ DOMAIN loc = Pids
         /\ \A p \in Pids : DOMAIN loc[p] = {"op", "a", "b", "cur", "heap", "idx", "val"}
BY KeysAreInts DEF A1Inv, A1Types, StillGood, CallKept, DeviceTypes, CallsOK, Calls

(* A new call.                                                             *)
LEMMA CallIsKept ==
  ASSUME A1Inv, NEW p \in Pids, NewCall(p)
  PROVE  /\ CallKept(p)'
         /\ ~ Idle(p)' /\ pc'[p] \notin {"up", "down", "copy", "check", "del_clear", "del_free", "print"}
         /\ ret' = NoAnswer
<1>0. DOMAIN pc = Pids /\ DOMAIN loc = Pids
  BY A1Facts
<1>1. CASE ReleaseCall(p)
  <2>1. pc'[p] = "del_trylock" /\ ret' = NoAnswer
    BY <1>0, <1>1 DEF ReleaseCall, Goto
  <2> QED
    BY <2>1 DEF CallKept, Idle
<1>2. ASSUME NEW op, NEW a, NEW b, Call(p, op, a, b), op # "open" => files[p] > 0,
             op = "write4" => a \in KeysOf[p], op = "read" => a \in Buffers(p)
      PROVE  CallKept(p)' /\ pc'[p] = "walk" /\ ret' = NoAnswer
  <2>1. pc'[p] = "walk" /\ ret' = NoAnswer /\ files' = files
        /\ loc'[p].heap = Null /\ loc'[p].op = op /\ loc'[p].a = a
    BY <1>0, <1>2 DEF Call, Goto, NoCall
  <2>2. op = "read" /\ CopyFails(p)' => p \in BadBuffers
    BY <1>2, <2>1 DEF CopyFails, Buffers, GoodBuffer, BadBuffer
  <2> QED
    BY <1>2, <2>1, <2>2 DEF CallKept
<1>3. CASE OpenCall(p)
  BY <1>2, <1>3 DEF OpenCall, Idle
<1>4. CASE ReadCall(p)
  BY <1>2, <1>4 DEF ReadCall, Idle
<1>5. ASSUME NEW key \in KeysOf[p], WriteKeyCall(p, key)
      PROVE  CallKept(p)' /\ pc'[p] = "walk" /\ ret' = NoAnswer
  BY <1>2, <1>5 DEF WriteKeyCall
<1>6. ASSUME NEW type, NEW size, WriteInitCall(p, type, size)
      PROVE  CallKept(p)' /\ pc'[p] = "walk" /\ ret' = NoAnswer
  BY <1>2, <1>6 DEF WriteInitCall
<1>7. CASE WriteOtherCall(p)
  BY <1>2, <1>7 DEF WriteOtherCall, Idle
<1> QED
  BY <1>1, <1>3, <1>4, <1>5, <1>6, <1>7 DEF NewCall, DeviceCall, Idle

(* A step keeps what every call has established.                           *)
LEMMA StepIsKept ==
  ASSUME TakeTurns, HeapsSuffice, A1Inv, A1Types', SerialInv', NEW p \in Pids, Step(p)
  PROVE  CallKept(p)'
<1> USE DEF SerialInv
<1>0. /\ DOMAIN pc = Pids /\ DOMAIN loc = Pids /\ DeviceTypes(Keys, {0, 1}) /\ DeviceTypes(Keys, {0, 1})'
      /\ DOMAIN loc[p] = {"op", "a", "b", "cur", "heap", "idx", "val"}
      /\ MutexInv /\ SerialInv /\ CallKept(p) /\ ArgumentsOK /\ KeysHeld(KeysOf)
      /\ Keys \subseteq Int /\ {0, 1} \subseteq Int /\ TurnsInv /\ AloneStep(p)
  BY A1Facts, StepIsTurn DEF A1Inv, A1Types
<1>1. CASE pc'[p] \notin Involved
  BY <1>1 DEF CallKept, Involved
<1>2. CASE Walk(p)
  BY <1>0, <1>2 DEF Walk, CallKept, CopyFails
<1>3. CASE Insert(p)
  BY <1>0, <1>3 DEF Insert, CallKept, Goto
<1>4. CASE HeapifyBottomTop(p) \/ HeapifyTopBottom(p)
  <2>1. pc' = pc /\ pc[p] \in {"up", "down"} /\ loc'[p].op = loc[p].op /\ loc'[p].heap = loc[p].heap
        /\ loc'[p].val = loc[p].val /\ loc'[p].a = loc[p].a
    <3> HIDE DEF Sink, Parent
    <3> QED
      BY <1>0, <1>4 DEF HeapifyBottomTop, HeapifyTopBottom
  <2> QED
    BY <1>0, <2>1 DEF CallKept, CopyFails
<1>5. CASE ReadPops(p)
  <2>1. PopsOwn(p) /\ nodes' = nodes /\ loc'[p].op = "read" /\ pc'[p] = "down"
    BY <1>0, <1>5 DEF ReadPops, PopsOwn, PopMin, Goto
  <2>2. HeapsHold(KeysOf) /\ KeysOf[p] \subseteq Keys
    BY <1>0, HeldIsHold, KeysAreOwn
  <2>3. loc'[p].val \in KeysOf[p]
    BY <1>0, <2>1, <2>2, PopShrinks
  <2>4. loc'[p].a = loc[p].a /\ pc[p] = "walk" /\ loc[p].op = "read"
    BY <1>0, <1>5 DEF ReadPops, PopMin, Found
  <2> QED
    BY <1>0, <2>1, <2>3, <2>4 DEF CallKept, CopyFails
<1>6. CASE ReadSetsTopnode(p)
  <2>1. pc'[p] = "copy" /\ loc' = loc /\ topnode' = loc[p].val /\ pc[p] = "down" /\ loc[p].heap # Null
    <3>1. pc'[p] = "copy" /\ loc' = loc /\ topnode' = loc[p].val /\ pc[p] = "down"
      BY <1>0, <1>6 DEF ReadSetsTopnode, Popped, Goto
    <3>2. loc[p].heap \in DOMAIN heaps
      BY <1>6 DEF ReadSetsTopnode, Popped, SiftInBounds, InBounds
    <3>3. loc[p].heap # Null
      BY <1>0, <3>2, IdsAreNaturals DEF DeviceTypes, HeapsOK
    <3> QED
      BY <3>1, <3>3
  <2> QED
    BY <1>0, <2>1 DEF CallKept, CopyFails
<1>7. CASE ReadEmpty(p)
  <2>1. /\ pc'[p] = "copy" /\ loc' = loc /\ topnode' = EmptyPop /\ pc[p] = "walk" /\ entry' = loc[p].cur
        /\ heaps' = heaps /\ nodes' = nodes /\ heaps[nodes[loc[p].cur].global_heap].count = 0
        /\ loc[p].op = "read"
    BY <1>0, <1>7 DEF ReadEmpty, Found, Goto, OwnHeap
  <2> QED
    BY <1>0, <2>1 DEF CallKept, CopyFails
<1>8. CASE CopyToUser(p)
  <2>1. /\ pc'[p] = "check" /\ pc[p] = "copy" /\ UNCHANGED <<entry, heaps, nodes, topnode>>
        /\ loc'[p].op = loc[p].op /\ loc'[p].heap = loc[p].heap /\ loc'[p].val = topnode
        /\ loc'[p].a = loc[p].a
    BY <1>0, <1>8 DEF CopyToUser, Goto
  <2> QED
    BY <1>0, <2>1 DEF CallKept, CopyFails
<1>9. CASE WriteKey(p)
  <2>1. pc'[p] = "insert" /\ pc[p] = "walk" /\ num' = loc[p].a /\ loc' = loc /\ loc[p].op = "write4"
    BY <1>0, <1>9 DEF WriteKey, Found, Goto
  <2> QED
    BY <1>0, <2>1 DEF CallKept
<1>10. CASE WriteInit(p)
  <2>1. /\ pc'[p] = "init" /\ pc[p] = "walk" /\ loc' = loc /\ loc[p].op = "write2"
        /\ entry' = loc[p].cur /\ heap_type' = loc[p].a /\ heap_size' = loc[p].b
        /\ nodes' = nodes /\ nodes[loc[p].cur].global_heap = Null
    BY <1>0, <1>10 DEF WriteInit, Found, Goto, OwnHeap
  <2>2. loc[p].a \in Types /\ loc[p].b \in Sizes
    BY <1>0, <2>1 DEF ArgumentsOK
  <2> QED
    BY <2>1, <2>2 DEF CallKept
<1>11. CASE GoodInit /\ InitCreates(p, heap_size, StoredType) /\ UNCHANGED setUp
  <2> DEFINE h == Kmalloc(HeapIds, DOMAIN heaps)
  <2>1. pc[p] = "init" /\ nodes[entry].global_heap = Null
    BY <1>11 DEF InitCreates
  <2>2. Null \notin DOMAIN heaps /\ HeapIds \in SUBSET Nat
    BY <1>0, IdsAreNaturals DEF DeviceTypes, HeapsOK
  <2>3. ~ (HeapIds \subseteq DOMAIN heaps)
    BY <1>0, <2>1, <2>2, RoomForHeap
  <2>4. h \in HeapIds
    BY <2>2, <2>3, KmallocFresh
  <2>5. h # Null
    BY <2>4, IdsAreNaturals
  <2>6. heaps' = With(heaps, h, NewHeap(heap_size, StoredType)) /\ loc'[p].heap = h /\ pc'[p] = "init_store"
        /\ loc'[p].op = loc[p].op
    BY <1>0, <1>11, <2>5 DEF InitCreates, CreateHeap, Goto
  <2> HIDE DEF h
  <2>7. h \in DOMAIN heaps' /\ heaps'[h] = NewHeap(heap_size, StoredType)
    BY <2>6 DEF With
  <2>8. heaps'[h].count = 0 /\ heaps'[h].capacity = heap_size /\ heaps'[h].heap_type = StoredType
    BY <2>7 DEF NewHeap
  <2>9. heap_type' = heap_type /\ heap_size' = heap_size /\ GoodInit
    BY <1>11 DEF setUp
  <2>10. loc[p].op = "write2" /\ heap_type \in Types /\ heap_size \in Sizes
    BY <1>0, <2>1 DEF CallKept
  <2> QED
    BY <2>6, <2>7, <2>8, <2>9, <2>10 DEF CallKept, GoodInit, StoredType
<1>12. ~ InitDestroys(p)
  <2>1. Null \notin DOMAIN heaps
    BY <1>0, IdsAreNaturals DEF DeviceTypes, HeapsOK
  <2> QED
    BY <1>0, <2>1 DEF InitDestroys, CallKept
<1>13. ~ InitCreatesAgain(p, heap_size, StoredType)
  BY <1>0 DEF InitCreatesAgain, CallKept
<1>14. \A v : Return(p, v) => pc'[p] = "idle"
  BY <1>0 DEF Return, Goto
<1>15. CASE InitStores(p) \/ WriteRefused(p) \/ InitRefused(p) \/ OpenTwice(p) \/ OpenBusy(p) \/ ReleaseBusy(p)
            \/ PrintKeyUnlock(p) \/ InsertFull(p) \/ InsertReturns(p) \/ NoEntry(p) \/ ReadUnset(p) \/ ReadReturns(p)
  BY <1>1, <1>14, <1>15 DEF InitStores, WriteRefused, InitRefused, OpenTwice, OpenBusy, ReleaseBusy,
     PrintKeyUnlock, InsertFull, InsertReturns, NoEntry, ReadUnset, ReadReturns, Involved
<1>16. CASE OpenAllocates(p) \/ OpenLocks(p) \/ KeyAdd(p) \/ ReleaseLocks(p) \/ KeyDel(p) \/ KeyDelClear(p)
            \/ KeyDelFree(p) \/ KeyDelNone(p)
  BY <1>0, <1>1, <1>16 DEF OpenAllocates, OpenLocks, KeyAdd, ReleaseLocks, KeyDel, KeyDelClear, KeyDelFree,
     KeyDelNone, Goto, Involved
<1> QED
  BY <1>2, <1>3, <1>4, <1>5, <1>6, <1>7, <1>8, <1>9, <1>10, <1>11, <1>12, <1>13, <1>15, <1>16
     DEF Step, DeviceStep, InitAccepted

(* Each step of A1 is one of the steps of a process that runs alone.       *)
LEMMA A1StepIsShared ==
  ASSUME A1Inv, NEW p \in Pids, (NewCall(p) /\ UNCHANGED setUp) \/ Step(p)
  PROVE  AloneStep(p)
<1>1. A1Types /\ StillGood
  BY A1Facts DEF A1Inv
<1>2. NewCall(p) => AloneStep(p)
  <2>1. NewCall(p) => AnyCall(p)
    BY DEF NewCall, DeviceCall, OpenCall, ReadCall, WriteKeyCall, WriteInitCall, WriteOtherCall, AnyCall
  <2> QED
    BY <2>1 DEF AloneStep
<1> QED
  BY <1>1, <1>2, StepIsTurn

(* The keys in a heap are its owner's.                                     *)
LEMMA A1StepKeepsHeld ==
  ASSUME TakeTurns, A1Inv, A1Types', SerialInv', NEW p \in Pids, AloneStep(p)
  PROVE  KeysHeld(KeysOf)'
<1>1. /\ Keys \subseteq Int /\ {0, 1} \subseteq Int
      /\ DeviceTypes(Keys, {0, 1}) /\ DeviceTypes(Keys, {0, 1})'
      /\ MutexInv /\ SerialInv /\ CallKept(p) /\ KeysHeld(KeysOf)
      /\ \A q \in Pids : KeysOf[q] \subseteq Int
  BY A1Facts, KeysAreOwn DEF A1Inv, A1Types
<1>2. Insert(p) => num \in KeysOf[p]
  BY <1>1 DEF Insert, CallKept
<1>3. InitStores(p) => loc[p].heap \in DOMAIN heaps /\ heaps[loc[p].heap].count = 0
  BY <1>1 DEF InitStores, CallKept
<1> QED
  BY <1>1, <1>2, <1>3, StepKeepsHeld

(* A state that differs in nothing holds the same keys.                    *)
LEMMA SameKeysHeld ==
  ASSUME KeysHeld(KeysOf), \A p \in Pids : QueueOf(p, Int)' = QueueOf(p, Int)
  PROVE  KeysHeld(KeysOf)'
BY DEF KeysHeld

(* The invariant of the refinement.                                        *)
LEMMA A1CallInvariant ==
  ASSUME TakeTurns, HeapsSuffice
  PROVE  Spec => []A1Inv
<1> DEFINE Base == A1Types /\ MutexInv /\ SerialInv /\ TurnsInv
           Kept == (\A p \in Pids : CallKept(p)) /\ KeysHeld(KeysOf)
<1>1. A1Init => Kept
  <2> SUFFICES ASSUME A1Init PROVE Kept
    OBVIOUS
  <2>1. \A p \in Pids : pc[p] = "idle"
    BY DEF A1Init, Init
  <2>2. Listed = {}
    BY InitHasTypes, InitTable DEF A1Init, A1Types
  <2>3. \A p \in Pids : QueueOf(p, Int) = [bag |-> << >>]
    BY <2>2, NoQueueIs DEF NoneNone
  <2> QED
    BY <2>1, <2>3 DEF CallKept, KeysHeld
<1>2. Base /\ Base' /\ [Next]_vars /\ Kept => Kept'
  <2> SUFFICES ASSUME Base, Base', [Next]_vars, Kept
               PROVE  Kept'
    OBVIOUS
  <2>0. A1Inv /\ DeviceTypes(Keys, {0, 1}) /\ DeviceTypes(Keys, {0, 1})'
    BY DEF A1Inv, A1Types
  <2>1. ASSUME NEW p \in Pids, (NewCall(p) /\ UNCHANGED setUp) \/ Step(p)
        PROVE  Kept'
    <3>1. AloneStep(p)
      BY <2>0, <2>1, A1StepIsShared
    <3>2. KeysHeld(KeysOf)'
      BY <2>0, <3>1, A1StepKeepsHeld
    <3>3. CallKept(p)'
      BY <2>0, <2>1, CallIsKept, StepIsKept
    <3>4. \A q \in Pids : q # p => pc'[q] = "idle"
      BY <2>0, <3>1, StepIsAlone DEF SerialInv
    <3>5. \A q \in Pids : q # p => CallKept(q)'
      BY <3>4 DEF CallKept
    <3> QED
      BY <3>2, <3>3, <3>5
  <2>2. CASE Untouched /\ UNCHANGED setUp
    <3>1. \A p \in Pids : QueueOf(p, Int)' = QueueOf(p, Int)
      BY <2>2, QueuesUnchanged
    <3>2. \A p \in Pids : CallKept(p)'
      BY <2>2 DEF Untouched, setUp, CallKept, CopyFails, GoodInit, StoredType
    <3> QED
      BY <3>1, <3>2, SameKeysHeld
  <2>3. CASE HelloExit \/ HelloInit
    <3>1. Listed' = {} /\ Quiet
      BY <2>0, <2>3, LoadingMovesList DEF SerialInv
    <3>2. \A p \in Pids : QueueOf(p, Int)' = [bag |-> << >>]
      BY <3>1, NoQueueIsNext DEF NoneNone
    <3>3. \A p \in Pids : pc'[p] = "idle"
      BY <2>3, <3>1 DEF HelloExit, HelloInit, Quiet, Idle
    <3> QED
      BY <3>2, <3>3 DEF CallKept, KeysHeld
  <2>4. UNCHANGED vars => Untouched /\ UNCHANGED setUp
    BY DEF vars, Untouched, setUp
  <2>5. \A p : RejectedCall(p) => Untouched
    BY DEF RejectedCall, Rejected, Untouched
  <2> QED
    BY <2>1, <2>2, <2>3, <2>4, <2>5 DEF Next, Stuck, Load
<1>3. Spec => []Base
  BY A1AloneInvariant, PTL DEF SerialInv
<1>4. Base /\ Kept => A1Inv
  BY DEF A1Inv
<1> HIDE DEF Base, Kept
<1> QED
  BY <1>1, <1>2, <1>3, <1>4, PTL DEF Spec

(* What the promise sees of the module.                                    *)
Queues == [p \in Pids |-> QueueOf(p, Keys)]
Answered == IF Quiet THEN [ret EXCEPT !.op = AbstractOp(@)]
            ELSE Answer(CHOOSE p \in Pids : ~ Idle(p))

SeenStays == Openers' = Openers /\ Queues' = Queues

(* The one process in a call is the one the promise answers.               *)
LEMMA AnsweredIs ==
  ASSUME NEW p \in Pids, ~ Idle(p), \A q \in Pids : q # p => Idle(q)
  PROVE  Answered = Answer(p)
<1>1. ~ Quiet
  BY DEF Quiet
<1>2. (CHOOSE q \in Pids : ~ Idle(q)) = p
  OBVIOUS
<1> QED
  BY <1>1, <1>2 DEF Answered

AnswerOfOne == \A p \in Pids : ~ Idle(p) /\ (\A q \in Pids : q # p => Idle(q)) => Answered = Answer(p)

LEMMA AnswerIsOne == AnswerOfOne
BY AnsweredIs DEF AnswerOfOne

LEMMA AnswerIsOneNext == AnswerOfOne'
BY AnswerIsOne, PTL

(* The answer before and after a step of p.                                *)
LEMMA AnswersMove ==
  ASSUME TakeTurns, A1Inv, A1Inv', NEW p \in Pids, AloneStep(p)
  PROVE  /\ pc[p] # "idle" => Answered = Answer(p)
         /\ pc'[p] # "idle" => Answered' = Answer(p)'
         /\ \A v : Return(p, v) => Answered' = [pid |-> p, op |-> AbstractOp(loc[p].op), val |-> v]
<1>1. \A q \in Pids : q # p => Idle(q) /\ Idle(q)'
  <2>1. DeviceTypes(Keys, {0, 1}) /\ DeviceTypes(Keys, {0, 1})' /\ MutexInv /\ TableInv
    BY DEF A1Inv, A1Types, SerialInv
  <2> QED
    BY <2>1, StepIsAlone DEF Idle
<1>2. pc[p] # "idle" => Answered = Answer(p)
  BY <1>1, AnswerIsOne DEF AnswerOfOne, Idle
<1>3. pc'[p] # "idle" => Answered' = Answer(p)'
  BY <1>1, AnswerIsOneNext DEF AnswerOfOne, Idle
<1>4. ASSUME NEW v, Return(p, v)
      PROVE  Answered' = [pid |-> p, op |-> AbstractOp(loc[p].op), val |-> v]
  <2>1. Quiet'
    BY <1>1, <1>4, A1Facts DEF Return, Goto, Quiet, Idle
  <2>2. ret' = [pid |-> p, op |-> loc[p].op, val |-> v]
    BY <1>4 DEF Return
  <2>3. Answered' = [ret' EXCEPT !.op = AbstractOp(@)]
    BY <2>1 DEF Answered, AbstractOp
  <2> QED
    BY <2>2, <2>3
<1> QED
  BY <1>2, <1>3, <1>4

(* The steps that change what the promise sees, and what they leave alone. *)
LEMMA SeenMoves ==
  ASSUME TakeTurns, A1Inv, A1Inv', NEW p \in Pids, AloneStep(p)
  PROVE  /\ Queues = [q \in Pids |-> Queues[q]] /\ Queues' = [q \in Pids |-> Queues'[q]]
         /\ Queues[p] = QueueOf(p, Keys) /\ Queues'[p] = QueueOf(p, Keys)'
         /\ \A q \in Pids : q # p => Queues'[q] = Queues[q]
         /\ KeyAdd(p) => p \notin Openers /\ Openers' = Openers \cup {p} /\ Queues' = Queues
         /\ KeyDel(p) => /\ p \in Openers /\ Openers' = Openers \ {p}
                         /\ Queues' = [Queues EXCEPT ![p] = [bag |-> << >>]]
         /\ ~ KeyAdd(p) /\ ~ KeyDel(p) => Openers' = Openers
         /\ ~ KeyAdd(p) /\ ~ ChangesQueue(p) => SeenStays
<1>0. /\ Keys \subseteq Int /\ {0, 1} \subseteq Int /\ DeviceTypes(Keys, {0, 1}) /\ DeviceTypes(Keys, {0, 1})'
      /\ MutexInv /\ SerialInv /\ SerialInv'
  BY A1Facts DEF A1Inv, A1Types
<1>1. Queues = [q \in Pids |-> Queues[q]] /\ Queues' = [q \in Pids |-> Queues'[q]]
      /\ \A q \in Pids : Queues[q] = QueueOf(q, Keys) /\ Queues'[q] = QueueOf(q, Keys)'
  BY DEF Queues
<1>2. \A q \in Pids : q # p => Queues'[q] = Queues[q]
  BY <1>0, <1>1, OthersKeepQueues
<1>3. /\ KeyAdd(p) => p \notin Openers /\ Openers' = Openers \cup {p}
      /\ KeyDel(p) => p \in Openers /\ Openers' = Openers \ {p}
      /\ ~ KeyAdd(p) /\ ~ KeyDel(p) => Openers' = Openers
  BY <1>0, OpenersMove
<1>4. ~ ChangesQueue(p) => Queues' = Queues
  <2>1. ~ ChangesQueue(p) => Queues'[p] = Queues[p]
    BY <1>0, <1>1, OwnQueueStays
  <2> HIDE DEF Queues
  <2> QED
    BY <1>1, <1>2, <2>1
<1>5. KeyAdd(p) => ~ ChangesQueue(p)
  BY DEF KeyAdd, ChangesQueue, Insert, PopsOwn, Found, KeyDel, InitStores, InitDestroys
<1>6. KeyDel(p) => Queues' = [Queues EXCEPT ![p] = [bag |-> << >>]]
  <2>1. KeyDel(p) => Queues'[p] = [bag |-> << >>]
    BY <1>0, <1>1, CloseEndsQueue
  <2> HIDE DEF Queues
  <2> QED
    BY <1>1, <1>2, <2>1
<1> QED
  BY <1>1, <1>2, <1>3, <1>4, <1>5, <1>6 DEF SeenStays, ChangesQueue

(* The queue that p is answered from.                                      *)
LEMMA OwnQueueSeen ==
  ASSUME A1Inv, NEW p \in Pids, NEW n \in Listed, nodes[n].key = p
  PROVE  LET h == nodes[n].global_heap
         IN  /\ p \in Openers
             /\ h \in DOMAIN heaps =>
                  /\ Queues[p] # [bag |-> << >>]
                  /\ Queues[p].capacity = heaps[h].capacity
                  /\ Queues[p].count = Filled(p, h)
             /\ h \notin DOMAIN heaps => Queues[p] = [bag |-> << >>]
<1> DEFINE h == nodes[n].global_heap
<1>1. Queues[p] = IF h \in DOMAIN heaps
                  THEN QueueWith(heaps[h].heap_type, heaps[h].capacity, Filled(p, h), heaps[h].arr, Keys)
                  ELSE [bag |-> << >>]
  <2>1. QueueOf(p, Keys) = IF h \in DOMAIN heaps
                  THEN QueueWith(heaps[h].heap_type, heaps[h].capacity, Filled(p, h), heaps[h].arr, Keys)
                  ELSE [bag |-> << >>]
    BY OwnQueueIs DEF OwnQueue, A1Inv
  <2> QED
    BY <2>1 DEF Queues
<1>2. \A t, c, m, a, K : /\ QueueWith(t, c, m, a, K) # [bag |-> << >>]
                         /\ QueueWith(t, c, m, a, K).capacity = c /\ QueueWith(t, c, m, a, K).count = m
  BY DEF QueueWith
<1> HIDE DEF Queues
<1> QED
  BY <1>1, <1>2 DEF Openers

None == [bag |-> << >>]
Told(p, op, v) == Answered' = [pid |-> p, op |-> op, val |-> v]
Taken(p, key) ==
  /\ p \in Openers /\ Queues[p] # None /\ Openers' = Openers
  /\ Queues[p].bag[key] > 0
  /\ \A k \in Keys : Queues[p].bag[k] > 0 => ~ OutOfOrder(Queues[p].heap_type, key, k)
  /\ Queues' = [Queues EXCEPT ![p].bag[key] = @ - 1, ![p].count = @ - 1]

(* The actions of the promise, as the mapping shows them.                  *)
LEMMA PromiseIs ==
  /\ Private!phVars = <<Openers, Queues, Answered>>
  /\ Private!PHInit <=> Openers = {} /\ Queues = [p \in Pids |-> None] /\ Answered = NoAnswer
  /\ Private!Invoke <=> Answered' = NoAnswer /\ SeenStays
  /\ \A p, op, v : Private!Answer(p, op, v) <=> Told(p, op, v)
  /\ \A p, op, e : Private!Refuse(p, op, e) <=> Told(p, op, - e) /\ SeenStays
  /\ \A p : Private!HasQueue(p) <=> p \in Openers /\ Queues[p] # None
  /\ \A t, s : Private!Accepted(t, s) <=> t \in {MIN_HEAP, MAX_HEAP} /\ s \in 1 .. MaxHeapSize
  /\ Private!EACCES = EACCES /\ Private!EINVAL = EINVAL /\ Private!ENOBUFS = ENOBUFS
<1>1. Private!phVars = <<Openers, Queues, Answered>>
  BY DEF Private!phVars, Openers, Queues, Answered
<1>2. Private!PHInit <=> Openers = {} /\ Queues = [p \in Pids |-> None] /\ Answered = NoAnswer
  BY DEF Private!PHInit, Private!NoQueue, Private!NoAnswer, Openers, Queues, Answered, None, NoAnswer, Free
<1>3. Private!Invoke <=> Answered' = NoAnswer /\ SeenStays
  BY DEF Private!Invoke, Private!NoAnswer, Openers, Queues, Answered, SeenStays, NoAnswer, Free
<1>4. \A p, op, v : Private!Answer(p, op, v) <=> Told(p, op, v)
  BY DEF Private!Answer, Answered, Told
<1>5. \A p, op, e : Private!Refuse(p, op, e) <=> Told(p, op, - e) /\ SeenStays
  BY <1>4 DEF Private!Refuse, Openers, Queues, SeenStays
<1>6. \A p : Private!HasQueue(p) <=> p \in Openers /\ Queues[p] # None
  BY DEF Private!HasQueue, Private!NoQueue, Openers, Queues, None
<1>7. \A t, s : Private!Accepted(t, s) <=> t \in {MIN_HEAP, MAX_HEAP} /\ s \in 1 .. MaxHeapSize
  BY DEF Private!Accepted
<1>8. Private!EACCES = EACCES /\ Private!EINVAL = EINVAL /\ Private!ENOBUFS = ENOBUFS
  BY DEF Private!EACCES, EACCES, Private!EINVAL, EINVAL, Private!ENOBUFS, ENOBUFS
<1> QED
  BY <1>1, <1>2, <1>3, <1>4, <1>5, <1>6, <1>7, <1>8

(* Calls that leave the queues alone, as the promise has them, and ...     *)
LEMMA PromiseSteps ==
  ASSUME NEW p \in Pids
  PROVE  /\ Private!Open(p) <=>
              Told(p, "open", 0) /\ p \notin Openers /\ Openers' = Openers \cup {p} /\ Queues' = Queues
         /\ Private!OpenTwice(p) <=> Told(p, "open", - EACCES) /\ SeenStays /\ p \in Openers
         /\ Private!Close(p) <=>
              /\ Told(p, "release", 0) /\ p \in Openers /\ Openers' = Openers \ {p}
              /\ Queues' = [Queues EXCEPT ![p] = None]
         /\ Private!SetUpRefused(p) <=>
              /\ Told(p, "write", - EINVAL) /\ SeenStays /\ p \in Openers
              /\ \/ Queues[p] # None
                 \/ \E t \in Types, s \in Sizes : ~ (t \in {MIN_HEAP, MAX_HEAP} /\ s \in 1 .. MaxHeapSize)
         /\ Private!WriteRefused(p) <=>
              /\ Told(p, "write", - EACCES) /\ SeenStays /\ p \in Openers
              /\ Queues[p] # None => Queues[p].count = Queues[p].capacity
         /\ Private!ReadRefused(p) <=>
              /\ Told(p, "read", - EACCES) /\ SeenStays /\ p \in Openers
              /\ Queues[p] # None => Queues[p].count = 0
         /\ Private!BadCall(p) <=>
              /\ p \in BadBuffers /\ p \in Openers /\ SeenStays
              /\ \/ Told(p, "read", - EINVAL)
                 \/ Told(p, "write", - EINVAL) \/ Told(p, "write", - ENOBUFS)
                 \/ Told(p, "PB2_GET_INFO", - EACCES)
         /\ Private!WrongLength(p) <=>
              /\ Told(p, "write5", - (IF p \in Openers /\ Queues[p] # None THEN EINVAL ELSE EACCES))
              /\ SeenStays /\ p \in Openers
<1>1. Private!Open(p) <=>
        Told(p, "open", 0) /\ p \notin Openers /\ Openers' = Openers \cup {p} /\ Queues' = Queues
  BY PromiseIs DEF Private!Open, Openers, Queues
<1>2. Private!OpenTwice(p) <=> Told(p, "open", - EACCES) /\ SeenStays /\ p \in Openers
  BY PromiseIs DEF Private!OpenTwice, Openers
<1>3. Private!Close(p) <=>
        /\ Told(p, "release", 0) /\ p \in Openers /\ Openers' = Openers \ {p}
        /\ Queues' = [Queues EXCEPT ![p] = None]
  BY PromiseIs DEF Private!Close, Private!NoQueue, None, Openers, Queues
<1>4. Private!SetUpRefused(p) <=>
              /\ Told(p, "write", - EINVAL) /\ SeenStays /\ p \in Openers
              /\ \/ Queues[p] # None
                 \/ \E t \in Types, s \in Sizes : ~ (t \in {MIN_HEAP, MAX_HEAP} /\ s \in 1 .. MaxHeapSize)
  <2>1. Private!SetUpRefused(p) <=>
              /\ Private!Refuse(p, "write", Private!EINVAL) /\ p \in Openers
              /\ Private!HasQueue(p) \/ \E t \in Types, s \in Sizes : ~ Private!Accepted(t, s)
    BY DEF Private!SetUpRefused, Openers
  <2> QED
    BY <2>1, PromiseIs
<1>5. Private!WriteRefused(p) <=>
              /\ Told(p, "write", - EACCES) /\ SeenStays /\ p \in Openers
              /\ Queues[p] # None => Queues[p].count = Queues[p].capacity
  BY PromiseIs DEF Private!WriteRefused, Openers, Queues
<1>6. Private!ReadRefused(p) <=>
              /\ Told(p, "read", - EACCES) /\ SeenStays /\ p \in Openers
              /\ Queues[p] # None => Queues[p].count = 0
  BY PromiseIs DEF Private!ReadRefused, Openers, Queues
<1>7. Private!BadCall(p) <=>
              /\ p \in BadBuffers /\ p \in Openers /\ SeenStays
              /\ \/ Told(p, "read", - EINVAL)
                 \/ Told(p, "write", - EINVAL) \/ Told(p, "write", - ENOBUFS)
                 \/ Told(p, "PB2_GET_INFO", - EACCES)
  <2>1. Private!BadCall(p) <=>
              /\ p \in BadBuffers /\ p \in Openers
              /\ \/ Private!Refuse(p, "read", Private!EINVAL)
                 \/ Private!Refuse(p, "write", Private!EINVAL) \/ Private!Refuse(p, "write", Private!ENOBUFS)
                 \/ Private!Refuse(p, "PB2_GET_INFO", Private!EACCES)
    BY DEF Private!BadCall, Openers
  <2> QED
    BY <2>1, PromiseIs
<1>8. Private!WrongLength(p) <=>
              /\ Told(p, "write5", - (IF p \in Openers /\ Queues[p] # None THEN EINVAL ELSE EACCES))
              /\ SeenStays /\ p \in Openers
  <2>1. Private!WrongLength(p) <=>
              /\ Private!Refuse(p, "write5", IF Private!HasQueue(p) THEN Private!EINVAL ELSE Private!EACCES)
              /\ p \in Openers
    BY DEF Private!WrongLength, Openers
  <2> QED
    BY <2>1, PromiseIs
<1> QED
  BY <1>1, <1>2, <1>3, <1>4, <1>5, <1>6, <1>7, <1>8

(* ... calls that change the caller's queue.                               *)
LEMMA PromiseQueueSteps ==
  ASSUME NEW p \in Pids
  PROVE  /\ \A t, s : Private!SetUp(p, t, s) <=>
              /\ Told(p, "write", 0) /\ p \in Openers /\ Queues[p] = None /\ Openers' = Openers
              /\ t \in {MIN_HEAP, MAX_HEAP} /\ s \in 1 .. MaxHeapSize
              /\ Queues' = [Queues EXCEPT ![p] = [heap_type |-> IF t \in {MIN_HEAP} THEN 0 ELSE 1,
                                                  capacity |-> s, count |-> 0, bag |-> [k \in Keys |-> 0]]]
         /\ \A key : Private!Write(p, key) <=>
              /\ Told(p, "write", 0) /\ p \in Openers /\ Queues[p] # None /\ Openers' = Openers
              /\ Queues[p].count < Queues[p].capacity
              /\ Queues' = [Queues EXCEPT ![p].bag[key] = @ + 1, ![p].count = @ + 1]
         /\ \A key : Private!Read(p, key) <=> Told(p, "read", key) /\ key # MinusINF /\ Taken(p, key)
         /\ \A key : Private!ReadLoses(p, key) <=>
              Told(p, "read", - EACCES) /\ (p \in BadBuffers \/ key = MinusINF) /\ Taken(p, key)
<1>1. ASSUME NEW t, NEW s
      PROVE  Private!SetUp(p, t, s) <=>
              /\ Told(p, "write", 0) /\ p \in Openers /\ Queues[p] = None /\ Openers' = Openers
              /\ t \in {MIN_HEAP, MAX_HEAP} /\ s \in 1 .. MaxHeapSize
              /\ Queues' = [Queues EXCEPT ![p] = [heap_type |-> IF t \in {MIN_HEAP} THEN 0 ELSE 1,
                                                  capacity |-> s, count |-> 0, bag |-> [k \in Keys |-> 0]]]
  <2>1. Private!SetUp(p, t, s) <=>
              /\ Private!Answer(p, "write", 0) /\ p \in Openers /\ ~ Private!HasQueue(p) /\ Openers' = Openers
              /\ Private!Accepted(t, s)
              /\ Queues' = [Queues EXCEPT ![p] = [heap_type |-> IF t \in {MIN_HEAP} THEN 0 ELSE 1,
                                                  capacity |-> s, count |-> 0, bag |-> [k \in Keys |-> 0]]]
    BY DEF Private!SetUp, Openers, Queues, Private!Keys, Keys
  <2> QED
    BY <2>1, PromiseIs
<1>2. ASSUME NEW key
      PROVE  Private!Write(p, key) <=>
              /\ Told(p, "write", 0) /\ p \in Openers /\ Queues[p] # None /\ Openers' = Openers
              /\ Queues[p].count < Queues[p].capacity
              /\ Queues' = [Queues EXCEPT ![p].bag[key] = @ + 1, ![p].count = @ + 1]
  <2>1. Private!Write(p, key) <=>
              /\ Private!Answer(p, "write", 0) /\ Private!HasQueue(p) /\ Openers' = Openers
              /\ Queues[p].count < Queues[p].capacity
              /\ Queues' = [Queues EXCEPT ![p].bag[key] = @ + 1, ![p].count = @ + 1]
    BY DEF Private!Write, Openers, Queues
  <2> QED
    BY <2>1, PromiseIs
<1>3. ASSUME NEW key
      PROVE  Private!Take(p, key) <=> Taken(p, key)
  <2>1. \A t, a, b : Private!OutOfOrder(t, a, b) <=> OutOfOrder(t, a, b)
    BY DEF Private!OutOfOrder, OutOfOrder
  <2>2. Private!Take(p, key) <=>
              /\ Private!HasQueue(p) /\ Openers' = Openers
              /\ Queues[p].bag[key] > 0
              /\ \A k \in Private!Keys : Queues[p].bag[k] > 0 => ~ Private!OutOfOrder(Queues[p].heap_type, key, k)
              /\ Queues' = [Queues EXCEPT ![p].bag[key] = @ - 1, ![p].count = @ - 1]
    BY DEF Private!Take, Openers, Queues
  <2> QED
    BY <2>1, <2>2, PromiseIs DEF Private!Keys, Keys, Taken
<1>4. \A key : Private!Read(p, key) <=> Told(p, "read", key) /\ key # MinusINF /\ Taken(p, key)
  BY <1>3, PromiseIs DEF Private!Read
<1>5. \A key : Private!ReadLoses(p, key) <=>
        Told(p, "read", - EACCES) /\ (p \in BadBuffers \/ key = MinusINF) /\ Taken(p, key)
  BY <1>3, PromiseIs DEF Private!ReadLoses
<1> QED
  BY <1>1, <1>2, <1>4, <1>5

(* A call, and the steps that take effect.                                 *)
LEMMA EffectsRefine ==
  ASSUME TakeTurns, A1Inv, A1Inv', NEW p \in Pids, AloneStep(p),
         KeyAdd(p) \/ KeyDel(p) \/ Insert(p) \/ ReadPops(p) \/ (InitStores(p) /\ UNCHANGED setUp)
  PROVE  Private!PHNext
<1>0. /\ Keys \subseteq Int /\ {0, 1} \subseteq Int /\ DeviceTypes(Keys, {0, 1}) /\ DeviceTypes(Keys, {0, 1})'
      /\ MutexInv /\ SerialInv /\ SerialInv' /\ CallKept(p) /\ CallKept(p)' /\ KeysHeld(KeysOf)
      /\ DOMAIN pc = Pids /\ DOMAIN loc = Pids
      /\ DOMAIN loc[p] = {"op", "a", "b", "cur", "heap", "idx", "val"}
      /\ LabelsOK
  BY A1Facts DEF A1Inv, A1Types, SerialInv, TableInv
<1>1. /\ Queues = [q \in Pids |-> Queues[q]] /\ Queues' = [q \in Pids |-> Queues'[q]]
      /\ Queues[p] = QueueOf(p, Keys) /\ Queues'[p] = QueueOf(p, Keys)'
      /\ \A q \in Pids : q # p => Queues'[q] = Queues[q]
  BY SeenMoves
<1>2. pc'[p] # "idle" => Answered' = Answer(p)'
  BY AnswersMove
<1>3. CASE KeyAdd(p)
  <2>1. pc'[p] = "print" /\ loc' = loc /\ loc[p].op = "open"
    BY <1>0, <1>3 DEF KeyAdd, Goto, LabelsOK, Opening
  <2>2. Told(p, "open", 0)
    BY <1>2, <2>1 DEF Answer, Told
  <2>3. Private!Open(p)
    BY <1>3, <2>2, SeenMoves, PromiseSteps
  <2> QED
    BY <2>3 DEF Private!PHNext
<1>4. CASE KeyDel(p)
  <2>1. pc'[p] = "del_clear" /\ loc'[p].op = "release"
    BY <1>0, <1>4 DEF KeyDel, Goto, LabelsOK, Deleting
  <2>2. Told(p, "release", 0)
    BY <1>2, <2>1 DEF Answer, Told
  <2>3. Private!Close(p)
    BY <1>4, <2>2, SeenMoves, PromiseSteps DEF None
  <2> QED
    BY <2>3 DEF Private!PHNext
<1>5. CASE Insert(p)
  <2>1. pc'[p] = "up" /\ num \in KeysOf[p] /\ entry \in Listed /\ nodes[entry].key = p
    BY <1>0, <1>5 DEF Insert, Goto, CallKept, SerialInv, AloneInv, UsesOwnHeap, UseLabels
  <2>2. Told(p, "write", 0)
    BY <1>2, <2>1 DEF Answer, Told
  <2>3. p \in Openers /\ Openers' = Openers
    <3>1. ~ KeyAdd(p) /\ ~ KeyDel(p)
      BY <1>5 DEF Insert, KeyAdd, KeyDel
    <3> QED
      BY <2>1, <3>1, SeenMoves, OwnQueueSeen
  <2>4. Grows(Queues[p], Queues'[p], num)
    BY <1>0, <1>1, <1>5, InsertGrows
  <2>5. /\ Queues' = [Queues EXCEPT ![p].bag[num] = @ + 1, ![p].count = @ + 1]
        /\ Queues[p].count < Queues[p].capacity /\ Queues[p] # None
    <3> HIDE DEF Queues
    <3> QED
      BY <1>1, <2>4, OneKeyMore DEF None
  <2>6. Private!Write(p, num)
    BY <2>2, <2>3, <2>5, PromiseQueueSteps
  <2> QED
    BY <2>1, <2>6 DEF Private!PHNext
<1>6. CASE ReadPops(p)
  <2>1. PopsOwn(p) /\ nodes' = nodes /\ loc'[p].op = "read" /\ pc'[p] = "down" /\ Found(p)
    BY <1>0, <1>6 DEF ReadPops, PopsOwn, PopMin, Goto
  <2>2. HeapsHold(KeysOf) /\ KeysOf[p] \subseteq Keys
    BY <1>0, HeldIsHold, KeysAreOwn
  <2> DEFINE key == loc'[p].val
  <2>3. key \in KeysOf[p] /\ Shrinks(Queues[p], Queues'[p], key, Keys)
    BY <1>0, <1>1, <2>1, <2>2, PopShrinks
  <2>4. loc'[p].heap # Null
    <3>1. loc'[p].heap \in DOMAIN heaps
      BY <1>0, <1>6 DEF ReadPops, PopMin, InBounds
    <3> QED
      BY <1>0, <3>1, IdsAreNaturals DEF DeviceTypes, HeapsOK
  <2>5. /\ CopyFails(p)' => p \in BadBuffers
        /\ Told(p, "read", IF CopyFails(p)' \/ key = MinusINF THEN - EACCES ELSE key)
    BY <1>0, <1>2, <2>1, <2>4 DEF Answer, Told, CallKept
  <2>6. p \in Openers /\ Openers' = Openers
    <3>1. ~ KeyAdd(p) /\ ~ KeyDel(p)
      BY <2>1 DEF Found, KeyAdd, KeyDel
    <3>2. loc[p].cur \in Listed /\ nodes[loc[p].cur].key = p
      BY <1>0, <2>1, OwnHeapIs DEF SerialInv
    <3> QED
      BY <3>1, <3>2, SeenMoves, OwnQueueSeen
  <2> HIDE DEF key
  <2>7. /\ Queues' = [Queues EXCEPT ![p].bag[key] = @ - 1, ![p].count = @ - 1]
        /\ Queues[p].bag[key] > 0 /\ Queues[p] # None
        /\ \A k \in Keys : Queues[p].bag[k] > 0 => ~ OutOfOrder(Queues[p].heap_type, key, k)
    <3> DEFINE before == Queues
               after == Queues'
    <3>1. /\ before = [q \in Pids |-> before[q]] /\ after = [q \in Pids |-> after[q]]
          /\ \A q \in Pids : q # p => after[q] = before[q]
          /\ Shrinks(before[p], after[p], key, Keys)
      BY <1>1, <2>3
    <3> HIDE DEF before, after
    <3>2. /\ after = [before EXCEPT ![p].bag[key] = @ - 1, ![p].count = @ - 1]
          /\ before[p].bag[key] > 0
          /\ \A k \in Keys : before[p].bag[k] > 0 => ~ OutOfOrder(before[p].heap_type, key, k)
          /\ before[p] # [bag |-> << >>]
      BY <3>1, OneKeyLess
    <3> QED
      BY <3>2, Zenon DEF None, before, after
  <2>8. Taken(p, key)
    <3> HIDE DEF Queues
    <3> QED
      BY <2>6, <2>7 DEF Taken
  <2>9. Private!Read(p, key) \/ Private!ReadLoses(p, key)
    BY <2>5, <2>8, PromiseQueueSteps
  <2> QED
    BY <2>3, <2>9 DEF Private!PHNext
<1>7. CASE InitStores(p) /\ UNCHANGED setUp
  <2> DEFINE h == loc[p].heap
  <2>1. /\ pc[p] = "init_store" /\ Return(p, 0) /\ entry \in Listed /\ nodes[entry].key = p
        /\ loc[p].op = "write2" /\ heap_type \in Types /\ heap_size \in Sizes /\ GoodInit
        /\ h \in DOMAIN heaps /\ heaps[h].count = 0 /\ heaps[h].capacity = heap_size
        /\ heaps[h].heap_type = StoredType
    BY <1>0, <1>7 DEF InitStores, CallKept, SerialInv, OwnerInv, SetUpEntry, SetUpLabels
  <2>2. Told(p, "write", 0)
    <3>1. Answered' = [pid |-> p, op |-> AbstractOp(loc[p].op), val |-> 0]
      BY <2>1, AnswersMove
    <3> QED
      BY <2>1, <3>1 DEF AbstractOp, Told
  <2>3. p \in Openers /\ Openers' = Openers
    <3>1. ~ KeyAdd(p) /\ ~ KeyDel(p)
      BY <2>1 DEF KeyAdd, KeyDel
    <3> QED
      BY <2>1, <3>1, SeenMoves, OwnQueueSeen
  <2> DEFINE new == [heap_type |-> IF heap_type \in {MIN_HEAP} THEN 0 ELSE 1,
                     capacity |-> heap_size, count |-> 0, bag |-> [k \in Keys |-> 0]]
  <2>4. Queues[p] = None /\ Queues'[p] = new
    <3>1. OrderOf(StoredType) = IF heap_type \in {MIN_HEAP} THEN 0 ELSE 1
      BY DEF OrderOf, StoredType
    <3>2. /\ QueueOf(p, Keys) = [bag |-> << >>]
          /\ QueueOf(p, Keys)' = [heap_type |-> OrderOf(heaps[h].heap_type), capacity |-> heaps[h].capacity,
                                  count |-> 0, bag |-> [k \in Keys |-> 0]]
      BY <1>0, <1>7, <2>1, StoreGivesQueue
    <3> QED
      BY <1>1, <2>1, <3>1, <3>2 DEF None
  <2>5. Queues' = [Queues EXCEPT ![p] = new]
    <3> HIDE DEF Queues, new
    <3> QED
      BY <1>1, <2>4
  <2>6. Private!SetUp(p, heap_type, heap_size)
    BY <2>1, <2>2, <2>3, <2>4, <2>5, PromiseQueueSteps DEF GoodInit
  <2> QED
    BY <2>1, <2>6 DEF Private!PHNext
<1> QED
  BY <1>3, <1>4, <1>5, <1>6, <1>7

(* The refusals.                                                           *)
LEMMA RefusalsRefine ==
  ASSUME TakeTurns, EmptyPop = MinusINF, A1Inv, A1Inv', NEW p \in Pids, AloneStep(p),
         \/ OpenTwice(p) \/ InsertFull(p) \/ WriteRefused(p) \/ InitRefused(p) \/ ReadUnset(p)
         \/ ReadReturns(p) /\ loc[p].heap = Null
  PROVE  Private!PHNext
<1>0. /\ DeviceTypes(Keys, {0, 1}) /\ SerialInv /\ CallKept(p) /\ TableInv /\ OwnerInv
      /\ Null \notin DOMAIN heaps
  BY A1Facts, IdsAreNaturals DEF A1Inv, A1Types, SerialInv, DeviceTypes, HeapsOK
<1>1. pc[p] \in {"walk", "insert", "init", "check"}
  BY DEF OpenTwice, InsertFull, WriteRefused, InitRefused, ReadUnset, ReadReturns, Found
<1>2. SeenStays
  <2>1. ~ PopsOwn(p)
    <3>1. pc'[p] = "idle"
      BY A1Facts DEF OpenTwice, InsertFull, WriteRefused, InitRefused, ReadUnset, ReadReturns, Return, Goto
    <3>2. PopsOwn(p) => pc'[p] = "down"
      BY A1Facts DEF PopsOwn, PopMin, Goto
    <3> QED
      BY <3>1, <3>2
  <2>2. ~ Insert(p)
    <3>1. pc'[p] = "idle"
      BY A1Facts DEF OpenTwice, InsertFull, WriteRefused, InitRefused, ReadUnset, ReadReturns, Return, Goto
    <3> QED
      BY <3>1, A1Facts DEF Insert, Goto
  <2>3. ~ InitDestroys(p)
    BY <1>0 DEF InitDestroys, CallKept
  <2>4. ~ KeyAdd(p) /\ ~ ChangesQueue(p)
    BY <1>1, <2>1, <2>2, <2>3 DEF KeyAdd, ChangesQueue, KeyDel, InitStores
  <2> QED
    BY <2>4, SeenMoves
<1>3. \A v : Return(p, v) => Answered' = [pid |-> p, op |-> AbstractOp(loc[p].op), val |-> v]
  BY AnswersMove
<1>4. Found(p) => /\ p \in Openers
                  /\ OwnHeap(p) \in DOMAIN heaps \cup {Null}
                  /\ OwnHeap(p) # Null => Queues[p] # None
                  /\ OwnHeap(p) = Null => Queues[p] = None
  <2> SUFFICES ASSUME Found(p)
               PROVE  /\ p \in Openers
                      /\ OwnHeap(p) \in DOMAIN heaps \cup {Null}
                      /\ OwnHeap(p) # Null => Queues[p] # None
                      /\ OwnHeap(p) = Null => Queues[p] = None
    OBVIOUS
  <2>1. loc[p].cur \in Listed /\ nodes[loc[p].cur].key = p /\ OwnHeap(p) \in DOMAIN heaps \cup {Null}
    BY <1>0, OwnHeapIs
  <2> QED
    BY <1>0, <2>1, OwnQueueSeen DEF OwnHeap, None
<1>5. CASE OpenTwice(p)
  <2>1. Told(p, "open", - EACCES) /\ p \in Openers
    BY <1>3, <1>4, <1>5 DEF OpenTwice, AbstractOp, Told
  <2>2. Private!OpenTwice(p)
    BY <1>2, <2>1, PromiseSteps
  <2> QED
    BY <2>2 DEF Private!PHNext
<1>6. CASE InsertFull(p)
  <2> DEFINE h == nodes[entry].global_heap
  <2>1. /\ Return(p, - EACCES) /\ pc[p] = "insert" /\ entry \in Listed /\ nodes[entry].key = p /\ h \in DOMAIN heaps
        /\ heaps[h].count >= heaps[h].capacity /\ loc[p].op = "write4"
    BY <1>0, <1>6 DEF InsertFull, InsertTarget, CallKept, SerialInv, AloneInv, UsesOwnHeap, UseLabels
  <2>2. Told(p, "write", - EACCES)
    BY <1>3, <2>1 DEF AbstractOp, Told
  <2>3. heaps[h].count = heaps[h].capacity /\ heaps[h].count \in Nat
    BY <1>0, <2>1 DEF SerialInv, AloneInv, HeapsWork
  <2>4. Filled(p, h) = heaps[h].count
    BY <2>1, <2>3 DEF Filled
  <2>5. p \in Openers /\ Queues[p].count = Queues[p].capacity
    BY <2>1, <2>3, <2>4, OwnQueueSeen
  <2>6. Private!WriteRefused(p)
    BY <1>2, <2>2, <2>5, PromiseSteps
  <2> QED
    BY <2>6 DEF Private!PHNext
<1>7. CASE WriteRefused(p)
  <2>1. CASE loc[p].op = "write2" /\ OwnHeap(p) # Null /\ Return(p, - EINVAL)
    <3>1. Told(p, "write", - EINVAL) /\ p \in Openers /\ Queues[p] # None
      BY <1>3, <1>4, <1>7, <2>1 DEF WriteRefused, AbstractOp, Told
    <3>2. Private!SetUpRefused(p)
      BY <1>2, <3>1, PromiseSteps
    <3> QED
      BY <3>2 DEF Private!PHNext
  <2>2. CASE loc[p].op = "write4" /\ OwnHeap(p) = Null /\ Return(p, - EACCES)
    <3>1. Told(p, "write", - EACCES) /\ p \in Openers /\ Queues[p] = None
      BY <1>3, <1>4, <1>7, <2>2 DEF WriteRefused, AbstractOp, Told
    <3>2. Private!WriteRefused(p)
      BY <1>2, <3>1, PromiseSteps
    <3> QED
      BY <3>2 DEF Private!PHNext
  <2>3. CASE loc[p].op = "write5" /\ OwnHeap(p) # Null /\ Return(p, - EINVAL)
    <3>1. Told(p, "write5", - EINVAL) /\ p \in Openers /\ Queues[p] # None
      BY <1>3, <1>4, <1>7, <2>3 DEF WriteRefused, AbstractOp, Told
    <3>2. Private!WrongLength(p)
      BY <1>2, <3>1, PromiseSteps
    <3> QED
      BY <3>2 DEF Private!PHNext
  <2>4. CASE loc[p].op = "write5" /\ OwnHeap(p) = Null /\ Return(p, - EACCES)
    <3>1. Told(p, "write5", - EACCES) /\ p \in Openers /\ Queues[p] = None
      BY <1>3, <1>4, <1>7, <2>4 DEF WriteRefused, AbstractOp, Told
    <3>2. Private!WrongLength(p)
      BY <1>2, <3>1, PromiseSteps
    <3> QED
      BY <3>2 DEF Private!PHNext
  <2> QED
    BY <1>7, <2>1, <2>2, <2>3, <2>4 DEF WriteRefused
<1>8. CASE InitRefused(p)
  <2>1. /\ pc[p] = "init" /\ Return(p, - EINVAL) /\ ~ GoodInit /\ loc[p].op = "write2"
        /\ heap_type \in Types /\ heap_size \in Sizes /\ entry \in Listed /\ nodes[entry].key = p
    BY <1>0, <1>8 DEF InitRefused, CallKept, OwnerInv, SetUpEntry, SetUpLabels
  <2>2. Told(p, "write", - EINVAL) /\ p \in Openers
    BY <1>3, <2>1, OwnQueueSeen DEF AbstractOp, Told
  <2>3. Private!SetUpRefused(p)
    BY <1>2, <2>1, <2>2, PromiseSteps DEF GoodInit
  <2> QED
    BY <2>3 DEF Private!PHNext
<1>9. CASE ReadUnset(p)
  <2>1. Told(p, "read", - EACCES) /\ p \in Openers /\ Queues[p] = None
    BY <1>3, <1>4, <1>9 DEF ReadUnset, AbstractOp, Told
  <2>2. Private!ReadRefused(p)
    BY <1>2, <2>1, PromiseSteps
  <2> QED
    BY <2>2 DEF Private!PHNext
<1>10. CASE ReadReturns(p) /\ loc[p].heap = Null
  <2> DEFINE h == nodes[entry].global_heap
  <2>1. /\ pc[p] = "check" /\ loc[p].op = "read" /\ topnode = EmptyPop /\ heaps[h].count = 0
        /\ entry \in Listed /\ nodes[entry].key = p /\ h \in DOMAIN heaps
    BY <1>0, <1>10 DEF ReadReturns, CallKept, SerialInv, AloneInv, UsesOwnHeap, UseLabels
  <2>2. Return(p, - EACCES)
    BY <1>10, <2>1 DEF ReadReturns
  <2>3. Told(p, "read", - EACCES)
    BY <1>3, <2>1, <2>2 DEF AbstractOp, Told
  <2>4. Filled(p, h) = 0
    BY <2>1 DEF Filled
  <2>5. p \in Openers /\ Queues[p].count = 0
    BY <2>1, <2>4, OwnQueueSeen
  <2>6. Private!ReadRefused(p)
    BY <1>2, <2>3, <2>5, PromiseSteps
  <2> QED
    BY <2>6 DEF Private!PHNext
<1> QED
  BY <1>5, <1>6, <1>7, <1>8, <1>9, <1>10

(* The other steps show nothing: the answer of the call is known.          *)
LEMMA OthersStutter ==
  ASSUME TakeTurns, A1Inv, A1Inv', NEW p \in Pids, AloneStep(p),
         \/ Walk(p) \/ OpenAllocates(p) \/ OpenLocks(p) \/ PrintKeyUnlock(p)
         \/ ReleaseLocks(p) \/ KeyDelClear(p) \/ KeyDelFree(p)
         \/ HeapifyBottomTop(p) \/ InsertReturns(p) \/ HeapifyTopBottom(p)
         \/ ReadEmpty(p) \/ ReadSetsTopnode(p) \/ CopyToUser(p)
         \/ ReadReturns(p) /\ loc[p].heap # Null
         \/ WriteKey(p) \/ WriteInit(p) \/ InitCreates(p, heap_size, StoredType)
  PROVE  SeenStays /\ Answered' = Answered
<1>0. /\ DeviceTypes(Keys, {0, 1}) /\ SerialInv /\ CallKept(p) /\ TableInv /\ LabelsOK
      /\ Null \notin DOMAIN heaps /\ DOMAIN pc = Pids /\ DOMAIN loc = Pids
      /\ DOMAIN loc[p] = {"op", "a", "b", "cur", "heap", "idx", "val"}
  BY A1Facts, IdsAreNaturals DEF A1Inv, A1Types, SerialInv, DeviceTypes, HeapsOK, TableInv
<1>1. /\ pc[p] # "idle" => Answered = Answer(p)
      /\ pc'[p] # "idle" => Answered' = Answer(p)'
      /\ \A v : Return(p, v) => Answered' = [pid |-> p, op |-> AbstractOp(loc[p].op), val |-> v]
  BY AnswersMove
<1>2. \A v : Return(p, v) => pc'[p] = "idle"
  BY <1>0 DEF Return, Goto
<1>3. ASSUME ~ KeyAdd(p), ~ ChangesQueue(p)
      PROVE  SeenStays
  BY <1>3, SeenMoves
<1>4. CASE PrintKeyUnlock(p)
  <2>1. pc[p] = "print" /\ Return(p, 0) /\ loc[p].op \in {"open", "release"}
    BY <1>0, <1>4 DEF PrintKeyUnlock, LabelsOK
  <2>2. Answered' = Answered
    BY <1>1, <2>1 DEF Answer, AbstractOp
  <2>3. ~ KeyAdd(p) /\ ~ ChangesQueue(p)
    BY <2>1 DEF KeyAdd, ChangesQueue, Insert, PopsOwn, Found, KeyDel, InitStores, InitDestroys
  <2> QED
    BY <1>3, <2>2, <2>3
<1>5. CASE InsertReturns(p)
  <2>1. pc[p] = "up" /\ Return(p, 0) /\ loc[p].op = "write4"
    BY <1>0, <1>5 DEF InsertReturns, CallKept
  <2>2. Answered' = Answered
    BY <1>1, <2>1 DEF Answer, AbstractOp
  <2>3. ~ KeyAdd(p) /\ ~ ChangesQueue(p)
    BY <2>1 DEF KeyAdd, ChangesQueue, Insert, PopsOwn, Found, KeyDel, InitStores, InitDestroys
  <2> QED
    BY <1>3, <2>2, <2>3
<1>6. CASE ReadReturns(p) /\ loc[p].heap # Null
  <2>1. pc[p] = "check" /\ loc[p].op = "read" /\ loc[p].val \in KeysOf[p] /\ topnode = loc[p].val
    BY <1>0, <1>6 DEF ReadReturns, CallKept
  <2>2. Return(p, IF CopyFails(p) \/ loc[p].val = MinusINF THEN - EACCES ELSE loc[p].val)
    BY <1>6, <2>1 DEF ReadReturns
  <2>3. Answered' = Answered
    BY <1>1, <1>6, <2>1, <2>2 DEF Answer, AbstractOp
  <2>4. ~ KeyAdd(p) /\ ~ ChangesQueue(p)
    BY <2>1 DEF KeyAdd, ChangesQueue, Insert, PopsOwn, Found, KeyDel, InitStores, InitDestroys
  <2> QED
    BY <1>3, <2>3, <2>4
<1>7. CASE Walk(p) \/ OpenAllocates(p) \/ OpenLocks(p) \/ ReleaseLocks(p) \/ WriteKey(p) \/ WriteInit(p)
           \/ InitCreates(p, heap_size, StoredType)
  <2>1. /\ pc[p] \in {"walk", "trylock", "del_trylock", "init"}
        /\ pc'[p] \in {"walk", "trylock", "add", "del", "insert", "init", "init_store"}
        /\ ret' = ret
    BY <1>0, <1>7 DEF Walk, OpenAllocates, NotFound, OpenLocks, ReleaseLocks, WriteKey, Found, WriteInit,
       InitCreates, CreateHeap, Goto
  <2>2. Answered' = Answered
    BY <1>1, <2>1 DEF Answer
  <2>3. ~ PopsOwn(p) /\ ~ InitDestroys(p)
    BY <1>0, <2>1 DEF PopsOwn, PopMin, Goto, InitDestroys, CallKept
  <2>4. ~ KeyAdd(p) /\ ~ ChangesQueue(p)
    BY <2>1, <2>3 DEF KeyAdd, ChangesQueue, Insert, KeyDel, InitStores
  <2> QED
    BY <1>3, <2>2, <2>4
<1>8. CASE KeyDelClear(p) \/ KeyDelFree(p)
  <2>1. /\ pc[p] \in {"del_clear", "del_free"} /\ pc'[p] \in {"del_free", "print"}
        /\ loc'[p].op = loc[p].op
    BY <1>0, <1>8 DEF KeyDelClear, KeyDelFree, Goto
  <2>2. Answered' = Answered
    BY <1>1, <2>1 DEF Answer
  <2>3. ~ KeyAdd(p) /\ ~ ChangesQueue(p)
    BY <2>1 DEF KeyAdd, ChangesQueue, Insert, PopsOwn, Found, KeyDel, InitStores, InitDestroys
  <2> QED
    BY <1>3, <2>2, <2>3
<1>9. CASE HeapifyBottomTop(p) \/ HeapifyTopBottom(p)
  <2>1. /\ pc' = pc /\ pc[p] \in {"up", "down"} /\ ret' = ret
        /\ loc'[p].heap = loc[p].heap /\ loc'[p].val = loc[p].val /\ loc'[p].a = loc[p].a
    <3> HIDE DEF Sink, Parent
    <3> QED
      BY <1>0, <1>9 DEF HeapifyBottomTop, HeapifyTopBottom
  <2>2. Answered' = Answered
    BY <1>1, <2>1 DEF Answer, CopyFails
  <2>3. ~ KeyAdd(p) /\ ~ ChangesQueue(p)
    BY <2>1 DEF KeyAdd, ChangesQueue, Insert, PopsOwn, Found, KeyDel, InitStores, InitDestroys
  <2> QED
    BY <1>3, <2>2, <2>3
<1>10. CASE ReadSetsTopnode(p)
  <2>1. pc[p] = "down" /\ pc'[p] = "copy" /\ loc' = loc /\ ret' = ret
    BY <1>0, <1>10 DEF ReadSetsTopnode, Popped, Goto
  <2>2. Answered' = Answered
    BY <1>1, <2>1 DEF Answer, CopyFails
  <2>3. ~ KeyAdd(p) /\ ~ ChangesQueue(p)
    BY <2>1 DEF KeyAdd, ChangesQueue, Insert, PopsOwn, Found, KeyDel, InitStores, InitDestroys
  <2> QED
    BY <1>3, <2>2, <2>3
<1>11. CASE ReadEmpty(p)
  <2>1. pc[p] = "walk" /\ pc'[p] = "copy" /\ loc'[p].heap = Null /\ ret' = ret
    BY <1>0, <1>11 DEF ReadEmpty, Found, Goto, CallKept
  <2>2. Answered' = Answered
    BY <1>1, <2>1 DEF Answer
  <2>3. ~ PopsOwn(p)
    BY <1>0, <2>1 DEF PopsOwn, PopMin, Goto
  <2>4. ~ KeyAdd(p) /\ ~ ChangesQueue(p)
    BY <2>1, <2>3 DEF KeyAdd, ChangesQueue, Insert, KeyDel, InitStores, InitDestroys
  <2> QED
    BY <1>3, <2>2, <2>4
<1>12. CASE CopyToUser(p)
  <2>1. /\ pc[p] = "copy" /\ pc'[p] = "check" /\ loc'[p].heap = loc[p].heap /\ loc'[p].val = topnode /\ ret' = ret
        /\ loc'[p].a = loc[p].a /\ (loc[p].heap # Null => topnode = loc[p].val)
    BY <1>0, <1>12 DEF CopyToUser, Goto, CallKept
  <2>2. Answered' = Answered
    BY <1>1, <2>1 DEF Answer, CopyFails
  <2>3. ~ KeyAdd(p) /\ ~ ChangesQueue(p)
    BY <2>1 DEF KeyAdd, ChangesQueue, Insert, PopsOwn, Found, KeyDel, InitStores, InitDestroys
  <2> QED
    BY <1>3, <2>2, <2>3
<1> QED
  BY <1>4, <1>5, <1>6, <1>7, <1>8, <1>9, <1>10, <1>11, <1>12

(* A call that is refused for want of an entry, or of the mutex, is not    *)
(* among the steps of processes that take turns.                           *)
LEMMA TurnsNeverMiss ==
  ASSUME TakeTurns, A1Inv, NEW p \in Pids
  PROVE  ~ NoEntry(p) /\ ~ OpenBusy(p) /\ ~ ReleaseBusy(p) /\ ~ KeyDelNone(p) /\ ~ InitDestroys(p)
         /\ ~ InitCreatesAgain(p, heap_size, StoredType)
<1>0. /\ DeviceTypes(Keys, {0, 1}) /\ MutexInv /\ SerialInv /\ TableInv /\ FilesMatch /\ CallKept(p)
      /\ Null \notin DOMAIN heaps
  BY A1Facts, IdsAreNaturals DEF A1Inv, A1Types, SerialInv, TurnsInv, DeviceTypes, HeapsOK
<1>1. ~ OpenBusy(p) /\ ~ ReleaseBusy(p) /\ ~ KeyDelNone(p)
  BY <1>0, TurnsNeverFail
<1>2. ASSUME NoEntry(p)
      PROVE  FALSE
  <2>1. pc[p] = "walk" /\ NotFound(p) /\ files[p] > 0
    BY <1>0, <1>2 DEF NoEntry, NotFound, CallKept
  <2>2. Loaded
    BY <1>0, <2>1 DEF MutexInv, Quiet, Idle
  <2>3. \A n \in Listed : nodes[n].key # p
    BY <1>0, <2>1, <2>2, NotFoundIsNone DEF SerialInv, AloneInv, DeviceTypes, TableInv
  <2>4. Cardinality(EntriesOf(p)) = 0
    BY <2>3, FS_EmptySet DEF EntriesOf
  <2>5. files[p] = 0
    BY <1>0, <2>1, <2>4 DEF FilesMatch, Held, Pending, DeviceTypes, GlobalsOK
  <2> QED
    BY <2>1, <2>5
<1>3. ~ InitDestroys(p) /\ ~ InitCreatesAgain(p, heap_size, StoredType)
  BY <1>0 DEF InitDestroys, InitCreatesAgain, CallKept
<1> QED
  BY <1>1, <1>2, <1>3

(* The promise sees only these three.                                      *)
SeenIsAll == Private!phVars = <<Openers, Queues, Answered>>

LEMMA SeenIs == SeenIsAll
BY PromiseIs DEF SeenIsAll

LEMMA SeenIsNext == SeenIsAll'
BY SeenIs, PTL

LEMMA SeenUnchanged ==
  ASSUME SeenStays, Answered' = Answered
  PROVE  UNCHANGED Private!phVars
<1>1. Private!phVars = <<Openers, Queues, Answered>>
  BY SeenIs DEF SeenIsAll
<1>2. Private!phVars' = <<Openers', Queues', Answered'>>
  BY SeenIsNext DEF SeenIsAll
<1> QED
  BY <1>1, <1>2 DEF SeenStays

(* A call that is rejected at once, while nobody else is in one.           *)
LEMMA RejectionsRefine ==
  ASSUME TakeTurns, A1Inv, NEW p \in Pids, RejectedCall(p)
  PROVE  Private!PHNext
<1>0. /\ DeviceTypes(Keys, {0, 1}) /\ MutexInv /\ TableInv /\ FilesMatch /\ LabelsOK
  BY A1Facts DEF A1Inv, A1Types, SerialInv, TurnsInv, TableInv
<1>1. PICK op, e : /\ Rejected(p, op, e)
                   /\ \/ op = "read" /\ e = EINVAL
                      \/ op = "write4" /\ e \in {EINVAL, ENOBUFS}
  BY DEF RejectedCall
<1>2. Quiet /\ Quiet'
  <2>1. Idle(p) /\ \A q \in Pids \ {p} : pc[q] = "idle"
    BY <1>1 DEF Rejected, MayCall, TakeTurns
  <2> QED
    BY <1>1, <2>1 DEF Rejected, Quiet, Idle
<1>3. Told(p, AbstractOp(op), - e)
  <2>1. ret' = [pid |-> p, op |-> op, val |-> - e]
    BY <1>1 DEF Rejected
  <2>2. Answered' = [ret' EXCEPT !.op = AbstractOp(@)]
    BY <1>2 DEF Answered, AbstractOp
  <2> QED
    BY <2>1, <2>2 DEF Told
<1>4. SeenStays
  <2>1. Untouched
    BY <1>1 DEF Rejected, Untouched
  <2> QED
    BY <2>1, QueuesUnchanged DEF SeenStays, Queues
<1>5. p \in Openers
  <2>1. files[p] > 0 /\ Loaded /\ pc[p] = "idle"
    BY <1>1, <1>2 DEF Rejected, MayCall, Quiet, Idle
  <2>2. EntriesOf(p) # {}
    <3> SUFFICES ASSUME EntriesOf(p) = {} PROVE FALSE
      OBVIOUS
    <3>1. Cardinality(EntriesOf(p)) = 0
      BY FS_EmptySet
    <3>2. files[p] = 0
      BY <1>0, <2>1, <3>1 DEF FilesMatch, Held, Pending, DeviceTypes, GlobalsOK
    <3> QED
      BY <2>1, <3>2
  <2> QED
    BY <2>2 DEF EntriesOf, Openers
<1>6. p \in BadBuffers
  BY <1>1 DEF Rejected
<1>7. Private!BadCall(p)
  BY <1>1, <1>3, <1>4, <1>5, <1>6, PromiseSteps DEF AbstractOp
<1> QED
  BY <1>7 DEF Private!PHNext

(* Every step of A1 is a step of the promise, or none.                     *)
LEMMA A1RefinementStep ==
  ASSUME TakeTurns, EmptyPop = MinusINF, A1Inv, A1Inv', [Next]_vars
  PROVE  [Private!PHNext]_(Private!phVars)
<1>1. ASSUME NEW p \in Pids, NewCall(p), UNCHANGED setUp
      PROVE  Private!Invoke
  <2>1. AloneStep(p)
    BY <1>1, A1StepIsShared
  <2>2. /\ pc'[p] \notin {"idle", "up", "down", "copy", "check", "del_clear", "del_free", "print"}
        /\ ret' = NoAnswer
    BY <1>1, CallIsKept DEF Idle
  <2>3. Answered' = NoAnswer
    <3>1. Answered' = Answer(p)'
      BY <2>1, <2>2, AnswersMove
    <3> QED
      BY <2>2, <3>1 DEF Answer
  <2>4. pc[p] = "idle"
    BY <1>1 DEF NewCall, DeviceCall, OpenCall, ReleaseCall, ReadCall, WriteKeyCall, WriteInitCall, WriteOtherCall, Call, MayCall,
       Idle
  <2>5. ~ KeyAdd(p) /\ ~ ChangesQueue(p)
    BY <2>4 DEF KeyAdd, ChangesQueue, Insert, PopsOwn, Found, KeyDel, InitStores, InitDestroys
  <2>6. SeenStays
    BY <2>1, <2>5, SeenMoves
  <2> QED
    BY <2>3, <2>6, PromiseIs
<1>2. ASSUME NEW p \in Pids, Step(p)
      PROVE  Private!PHNext \/ (SeenStays /\ Answered' = Answered)
  <2>1. AloneStep(p)
    BY <1>2, A1StepIsShared
  <2>2. ~ NoEntry(p) /\ ~ OpenBusy(p) /\ ~ ReleaseBusy(p) /\ ~ KeyDelNone(p) /\ ~ InitDestroys(p)
        /\ ~ InitCreatesAgain(p, heap_size, StoredType)
    BY TurnsNeverMiss
  <2>3. \/ KeyAdd(p) \/ KeyDel(p) \/ Insert(p) \/ ReadPops(p) \/ (InitStores(p) /\ UNCHANGED setUp)
        \/ OpenTwice(p) \/ InsertFull(p) \/ WriteRefused(p) \/ InitRefused(p) \/ ReadUnset(p)
        \/ ReadReturns(p)
        \/ Walk(p) \/ OpenAllocates(p) \/ OpenLocks(p) \/ PrintKeyUnlock(p)
        \/ ReleaseLocks(p) \/ KeyDelClear(p) \/ KeyDelFree(p)
        \/ HeapifyBottomTop(p) \/ InsertReturns(p) \/ HeapifyTopBottom(p)
        \/ ReadEmpty(p) \/ ReadSetsTopnode(p) \/ CopyToUser(p)
        \/ WriteKey(p) \/ WriteInit(p) \/ InitCreates(p, heap_size, StoredType)
    BY <1>2, <2>2 DEF Step, DeviceStep, InitAccepted
  <2> QED
    BY <2>1, <2>3, EffectsRefine, RefusalsRefine, OthersStutter
<1>3. CASE UNCHANGED vars
  <2>1. Untouched /\ ret' = ret
    BY <1>3 DEF vars, Untouched
  <2>2. SeenStays
    BY <2>1, QueuesUnchanged DEF SeenStays, Queues
  <2>3. Answered' = Answered
    BY <2>1 DEF Untouched, Answered, Quiet, Idle, Answer, AbstractOp, CopyFails
  <2> QED
    BY <2>2, <2>3, SeenUnchanged
<1>4. CASE HelloExit \/ HelloInit
  <2>0. DeviceTypes(Keys, {0, 1}) /\ DeviceTypes(Keys, {0, 1})' /\ MutexInv /\ TableInv /\ TurnsInv
    BY DEF A1Inv, A1Types, SerialInv
  <2>1. Quiet /\ Listed' = {} /\ pc' = pc /\ ret' = ret
    BY <1>4, <2>0, LoadingMovesList DEF HelloExit, HelloInit
  <2>2. Listed = {}
    <3>1. CASE HelloExit
      BY <2>0, <2>1, <3>1, NothingOpen DEF HelloExit
    <3>2. CASE HelloInit
      BY <3>2, NotLoaded DEF HelloInit
    <3> QED
      BY <1>4, <3>1, <3>2
  <2>3. \A p \in Pids : QueueOf(p, Keys) = [bag |-> << >>] /\ QueueOf(p, Keys)' = [bag |-> << >>]
    BY <2>1, <2>2, NoQueueIs, NoQueueIsNext DEF NoneNone
  <2>4. SeenStays
    BY <2>1, <2>2, <2>3 DEF SeenStays, Openers, Queues
  <2>5. Answered' = Answered
    BY <2>1 DEF Answered, Quiet, Idle, AbstractOp
  <2> QED
    BY <2>4, <2>5, SeenUnchanged
<1>5. ASSUME SeenStays, Answered' = Answered
      PROVE  UNCHANGED Private!phVars
  BY <1>5, SeenUnchanged
<1> QED
  BY <1>1, <1>2, <1>3, <1>4, <1>5, RejectionsRefine DEF Next, Stuck, Load, Private!PHNext

(* The module keeps the promise of its README: each process that opens the *)
(* device has a priority queue of its own, from its open to its close.  No *)
(* call touches another's queue, a set-up makes an empty one, a write adds *)
(* its key, a read takes and answers the least or greatest key there is.   *)
(* A call that cannot, or whose buffer is bad, is refused and changes      *)
(* nothing, except that a read has popped the key already when it finds    *)
(* that the key is -INF or cannot be copied to the user: that key is lost. *)
(* It is proved for any keys, for processes that take turns, each with the *)
(* memory for a Heap, when an empty heap answers -INF.                     *)
THEOREM A1ImplementsPrivateHeaps ==
  ASSUME TakeTurns, HeapsSuffice, EmptyPop = MinusINF
  PROVE  Spec => ImplementsPrivateHeaps
<1>1. A1Init => Private!PHInit
  <2> SUFFICES ASSUME A1Init PROVE Private!PHInit
    OBVIOUS
  <2>1. Listed = {} /\ Quiet /\ ret = NoAnswer
    BY InitHasTypes, InitTable DEF A1Init, Init, A1Types, Quiet, Idle
  <2>2. \A p \in Pids : QueueOf(p, Keys) = None
    BY <2>1, NoQueueIs DEF NoneNone, None
  <2>3. Answered = NoAnswer
    <3>1. NoAnswer.op = "none" /\ [NoAnswer EXCEPT !.op = "none"] = NoAnswer
      BY DEF NoAnswer
    <3> QED
      BY <2>1, <3>1 DEF Answered, AbstractOp
  <2> QED
    BY <2>1, <2>2, <2>3, PromiseIs DEF Openers, Queues
<1>2. A1Inv /\ A1Inv' /\ [Next]_vars => [Private!PHNext]_(Private!phVars)
  BY A1RefinementStep
<1>3. Spec => []A1Inv
  BY A1CallInvariant
<1> QED
  BY <1>1, <1>2, <1>3, PTL DEF Spec, ImplementsPrivateHeaps, Private!PHSpec
=============================================================================
