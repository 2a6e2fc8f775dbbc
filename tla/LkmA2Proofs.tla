---------------------------- MODULE LkmA2Proofs ----------------------------
(***************************************************************************)
(* Proofs about module A2, for any number of processes, keys and set-ups.  *)
(***************************************************************************)
EXTENDS LkmA2, SerialProofs

(* The types that a set-up accepts.                                        *)
GoodTypes == {0, 1, MIN_HEAP, MAX_HEAP}

(* What the globals are, and the arguments that a call still has to load.  *)
BuffersOK ==
  /\ heap_type \in Types \cup {0} /\ heap_size \in Sizes \cup {0}
  /\ pb2_args \in [heap_size : Sizes \cup {0}, heap_type : Types \cup {0}]
  /\ heap \in [heap_size : Int, heap_type : Types \cup {0}, root : Keys \cup {0},
               last_inserted : Keys \cup {0}]

ArgumentsOK ==
  /\ BuffersOK
  /\ \A p \in Pids :
       /\ pc[p] = "copy_args" => loc[p].op = "PB2_SET_TYPE"
       /\ pc[p] = "copy_num" => loc[p].op = "PB2_INSERT"
       /\ pc[p] \in {"walk", "copy_args", "copy_num"} =>
            /\ loc[p].op \in {"write4", "PB2_INSERT"} => loc[p].a \in Keys
            /\ loc[p].op \in SetUpOps => loc[p].a \in Types /\ loc[p].b \in Sizes
            /\ loc[p].op = "write2" => TwoBytes(loc[p].a, loc[p].b) \in Keys

A2Types(T) == DeviceTypes(Keys, T) /\ ArgumentsOK

LEMMA ArgumentsAre ==
  /\ Keys \subseteq Int /\ Types \subseteq Int /\ Sizes \subseteq Int
  /\ \A p \in Pids :
       /\ KeysOf[p] \subseteq Keys
       /\ \A two \in BytesOf[p] : /\ two[1] \in Types /\ two[2] \in Sizes
                                  /\ TwoBytes(two[1], two[2]) \in Keys
       /\ \A two \in TypesOf[p] : two[1] \in Types /\ two[2] \in Sizes
<1>1. \A p \in Pids : /\ BytesOf[p] \subseteq Int \X Int /\ TypesOf[p] \subseteq Int \X Int
                       /\ KeysOf[p] \subseteq Int
  BY ArgumentsAreNumbers
<1>2. \A two \in SetUps : two[1] \in Int /\ two[2] \in Int
  BY <1>1 DEF SetUps
<1>3. \A x, y \in Int : TwoBytes(x, y) \in Int
  BY DEF TwoBytes
<1>4. Keys \subseteq Int
  <2> HIDE DEF TwoBytes
  <2>1. \A p \in Pids : \A two \in BytesOf[p] : TwoBytes(two[1], two[2]) \in Int
    BY <1>1, <1>3
  <2> QED
    BY <1>1, <2>1 DEF Keys
<1>5. Types \subseteq Int /\ Sizes \subseteq Int
  BY <1>2 DEF Types, Sizes
<1>6. ASSUME NEW p \in Pids
      PROVE  /\ KeysOf[p] \subseteq Keys
             /\ \A two \in BytesOf[p] : TwoBytes(two[1], two[2]) \in Keys
             /\ BytesOf[p] \subseteq SetUps /\ TypesOf[p] \subseteq SetUps
  <2> HIDE DEF TwoBytes
  <2> QED
    BY DEF Keys, SetUps
<1> QED
  BY <1>4, <1>5, <1>6 DEF Types, Sizes

(* The steps of dev_write and dev_ioctl are steps that both modules share. *)
LEMMA StepIsShared ==
  ASSUME NEW T, A2Types(T), NEW p \in Pids, Step(p)
  PROVE  TableStep(p) \/ SetUpStep(p) \/ Plain(p)
<1> USE DEF A2Types, DeviceTypes
<1>1. DOMAIN pc = Pids /\ DOMAIN loc = Pids /\ loc = [loc EXCEPT ![p] = loc[p]]
      /\ pc = [pc EXCEPT ![p] = pc[p]]
      /\ DOMAIN loc[p] = {"op", "a", "b", "cur", "heap", "idx", "val"}
  BY DEF CallsOK, Calls
<1>2. CASE DeviceStep(p)
  BY <1>2, DeviceStepIsShared
<1>3. CASE WriteKey(p)
  <2>1. Goto(p, "insert") /\ pc[p] = "walk" /\ loc[p].op # "open"
        /\ UNCHANGED <<nodes, heaps, heap_mutex, files, loc>>
    BY <1>3 DEF WriteKey, Found
  <2> QED
    BY <1>1, <2>1, PlainMove DEF Marked
<1>4. CASE WriteRefused(p) \/ Unset(p)
  <2>1. pc[p] = "walk" /\ loc[p].op # "open" /\ UNCHANGED <<nodes, heaps, heap_mutex, files>>
    BY <1>4 DEF WriteRefused, Unset, FoundFor, Found
  <2>2. PICK v : Return(p, v)
    <3> HIDE DEF Return, OwnHeap
    <3> QED
      BY <1>4 DEF WriteRefused, Unset
  <2> QED
    BY <2>1, <2>2, PlainReturn DEF Marked
<1>5. CASE WriteInit(p)
  <2>1. pc' = [pc EXCEPT ![p] = "init"] /\ pc'[p] = "init"
    BY <1>1, <1>5 DEF WriteInit, Goto
  <2> QED
    BY <1>1, <1>5, <2>1 DEF WriteInit, FoundFor, Found, Plain, Marked, SetUpOps
<1>6. CASE SetType(p)
  <2>1. pc' = [pc EXCEPT ![p] = "copy_args"] /\ pc'[p] = "copy_args"
    BY <1>1, <1>6 DEF SetType, Goto
  <2> QED
    BY <1>1, <1>6, <2>1 DEF SetType, FoundFor, Found, Plain, Marked, SetUpOps
<1>7. CASE CopyArgs(p)
  <2>1. pc' = [pc EXCEPT ![p] = "init"] /\ pc'[p] = "init"
    BY <1>1, <1>7 DEF CopyArgs, Goto
  <2> QED
    BY <1>1, <1>7, <2>1 DEF CopyArgs, Plain, Marked
<1>8. CASE InitRefused(p)
  BY <1>8, PlainReturn DEF InitRefused, Marked
<1>9. CASE InitAccepted(p)
  BY <1>9 DEF InitAccepted, SetUpStep
<1>10. CASE InsertByIoctl(p)
  <2>1. Goto(p, "copy_num") /\ pc[p] = "walk" /\ loc[p].op # "open"
        /\ UNCHANGED <<nodes, heaps, heap_mutex, files, loc>>
    BY <1>10 DEF InsertByIoctl, FoundFor, Found
  <2> QED
    BY <1>1, <2>1, PlainMove DEF Marked
<1>11. CASE CopyNum(p)
  <2>1. Goto(p, "insert") /\ pc[p] = "copy_num"
        /\ UNCHANGED <<nodes, heaps, heap_mutex, files, loc, entry>>
    BY <1>11 DEF CopyNum
  <2> QED
    BY <1>1, <2>1, PlainMove DEF Marked
<1>12. CASE GetInfo(p)
  <2>1. /\ Goto(p, "copy_info") \/ Goto(p, "empty_info")
        /\ pc[p] = "walk" /\ loc[p].op # "open"
        /\ UNCHANGED <<nodes, heaps, heap_mutex, files, loc>>
    BY <1>12 DEF GetInfo, FoundFor, Found
  <2>2. PICK label \in {"copy_info", "empty_info"} : Goto(p, label)
    BY <2>1
  <2> QED
    BY <1>1, <2>1, <2>2, PlainMove DEF Marked
<1>13. CASE GetInfoEmpty(p)
  <2>1. Goto(p, "copy_info") /\ pc[p] = "empty_info"
        /\ UNCHANGED <<nodes, heaps, heap_mutex, files, loc, entry>>
    BY <1>13 DEF GetInfoEmpty
  <2> QED
    BY <1>1, <2>1, PlainMove DEF Marked
<1>14. CASE CopyInfo(p)
  BY <1>14, PlainReturn DEF CopyInfo, Marked
<1>15. CASE Extract(p)
  <2>1. /\ pc[p] = "walk" /\ pc' = [pc EXCEPT ![p] = "down"] /\ pc'[p] = "down"
        /\ Found(p) /\ loc[p].op = "PB2_EXTRACT"
        /\ UNCHANGED <<nodes, heap_mutex, files>>
    BY <1>1, <1>15 DEF Extract, PopMin, Goto, FoundFor, Found
  <2>2. /\ loc' = [loc EXCEPT ![p] = loc'[p]] /\ loc'[p].op = loc[p].op
        /\ loc'[p].heap = OwnHeap(p)
    <3> HIDE DEF OwnHeap
    <3> QED
      BY <1>1, <1>15 DEF Extract, PopMin
  <2>3. OwnHeap(p) \in DOMAIN heaps /\ DOMAIN heaps' = DOMAIN heaps
    BY <1>15 DEF Extract, PopMin, InBounds
  <2> QED
    BY <2>1, <2>2, <2>3 DEF Plain, Marked
<1>16. CASE ExtractEmpty(p)
  <2>1. /\ Goto(p, "extracted") /\ pc[p] = "walk" /\ loc[p].op # "open"
        /\ loc' = [loc EXCEPT ![p].val = EmptyPop]
        /\ UNCHANGED <<nodes, heaps, heap_mutex, files>>
    BY <1>16 DEF ExtractEmpty, FoundFor, Found
  <2>2. loc' = [loc EXCEPT ![p] = loc'[p]] /\ loc'[p].op = loc[p].op
    BY <1>1, <2>1
  <2> QED
    BY <2>1, <2>2, PlainMove DEF Marked
<1>17. CASE ExtractSize(p)
  <2>1. /\ Goto(p, "copy_result") /\ pc[p] \in {"extracted", "down"}
        /\ loc' = [loc EXCEPT ![p].b = heaps[HeapOfEntry].count]
        /\ UNCHANGED <<nodes, heaps, heap_mutex, files, entry>>
    BY <1>17 DEF ExtractSize, Popped
  <2>2. loc' = [loc EXCEPT ![p] = loc'[p]] /\ loc'[p].op = loc[p].op
    BY <1>1, <2>1
  <2> QED
    BY <2>1, <2>2, PlainMove DEF Marked
<1>18. CASE ExtractReturns(p)
  <2>1. PICK v : Return(p, v)
    BY <1>18 DEF ExtractReturns
  <2> QED
    BY <1>18, <2>1, PlainReturn DEF ExtractReturns, Marked
<1>19. CASE ArgsNotCopied(p) \/ NumNotCopied(p) \/ InfoNotCopied(p)
  <2>1. pc[p] \in {"copy_args", "copy_num", "copy_info"} /\ UNCHANGED <<nodes, heaps, heap_mutex, files>>
    BY <1>19 DEF ArgsNotCopied, NumNotCopied, InfoNotCopied
  <2>2. PICK v : Return(p, v)
    <3> HIDE DEF Return
    <3> QED
      BY <1>19 DEF ArgsNotCopied, NumNotCopied, InfoNotCopied
  <2>3. UNCHANGED entry
    BY <1>19 DEF ArgsNotCopied, NumNotCopied, InfoNotCopied
  <2> QED
    BY <2>1, <2>2, <2>3, PlainReturn DEF Marked
<1> QED
  BY <1>2, <1>3, <1>4, <1>5, <1>6, <1>7, <1>8, <1>9, <1>10, <1>11, <1>12, <1>13, <1>14, <1>15,
     <1>16, <1>17, <1>18, <1>19 DEF Step

LEMMA NextIsShared ==
  ASSUME NEW T, A2Types(T), [Next]_vars
  PROVE  SharedNext \/ Untouched
<1>1. ASSUME NEW p \in Pids, NewCall(p)
      PROVE  SharedNext
  <2>1. ReleaseCall(p) \/ \E op, a, b : op # "release" /\ Call(p, op, a, b)
    BY <1>1 DEF NewCall, DeviceCall, OpenCall, ReadCall, WriteKeyCall, WriteInitCall, WriteOtherCall, InsertCall,
                SetTypeCall, GetInfoCall, ExtractCall
  <2> QED
    BY <2>1 DEF AnyCall, SharedNext
<1>2. ASSUME NEW p \in Pids, Step(p)
      PROVE  SharedNext
  BY <1>2, StepIsShared DEF SharedNext
<1>3. CASE UNCHANGED vars
  BY <1>3 DEF vars, Untouched
<1>4. ASSUME NEW p \in Pids, RejectedCall(p)
      PROVE  Untouched
  BY <1>4 DEF RejectedCall, Rejected, Untouched
<1> QED
  BY <1>1, <1>2, <1>3, <1>4 DEF Next, Load, SharedNext

(* The variables keep their types, whatever type a set-up stores that      *)
(* loads the globals again after DestroyHeap.                              *)
LEMMA StepKeepsTypes ==
  ASSUME NEW T, GoodTypes \subseteq T, \A p \in Pids : pc[p] = "init_again" => TypeGiven(p) \in T,
         A2Types(T), MutexInv, [Next]_vars
  PROVE  A2Types(T)'
<1> USE DEF A2Types
<1>0. /\ Keys \subseteq Int /\ Types \subseteq Int /\ Sizes \subseteq Int /\ 0 \in Int
      /\ DOMAIN pc = Pids /\ DOMAIN loc = Pids
      /\ DOMAIN heap = {"heap_size", "heap_type", "root", "last_inserted"}
  BY ArgumentsAre DEF DeviceTypes, CallsOK, ArgumentsOK, BuffersOK
<1>u. UNCHANGED globals => BuffersOK'
  BY DEF globals, ArgumentsOK, BuffersOK
<1>1. ASSUME NEW p \in Pids, NewCall(p), UNCHANGED globals
      PROVE  A2Types(T)'
  <2>1. ASSUME NEW op, NEW a \in Int, NEW b \in Int, Call(p, op, a, b),
               op = "open" => files[p] < MaxFiles,
               op \in {"write4", "PB2_INSERT"} => a \in Keys,
               op \in SetUpOps => a \in Types /\ b \in Sizes,
               op = "write2" => TwoBytes(a, b) \in Keys
        PROVE  A2Types(T)'
    <3>1. DeviceTypes(Keys, T)'
      BY <2>1, CallTypes
    <3>2. /\ pc'[p] = "walk" /\ loc'[p].op = op /\ loc'[p].a = a /\ loc'[p].b = b
          /\ \A q \in Pids : q # p => pc'[q] = pc[q] /\ loc'[q] = loc[q]
      BY <1>0, <2>1 DEF Call, Goto, NoCall
    <3> QED
      BY <1>1, <1>u, <2>1, <3>1, <3>2 DEF ArgumentsOK
  <2>2. CASE OpenCall(p)
    BY <1>0, <2>1, <2>2 DEF OpenCall, SetUpOps
  <2>3. CASE ReadCall(p)
    BY <1>0, <2>1, <2>3 DEF ReadCall, SetUpOps, Buffers, GoodBuffer, BadBuffer
  <2>4. CASE \E key \in KeysOf[p] : WriteKeyCall(p, key) \/ InsertCall(p, key)
    <3>1. PICK key \in KeysOf[p] : Call(p, "write4", key, 0) \/ Call(p, "PB2_INSERT", key, 0)
      BY <2>4 DEF WriteKeyCall, InsertCall
    <3>2. key \in Keys /\ key \in Int
      BY <1>0, ArgumentsAre
    <3> QED
      BY <1>0, <2>1, <3>1, <3>2 DEF SetUpOps
  <2>5. CASE \E two \in BytesOf[p] : WriteInitCall(p, two[1], two[2])
    <3>1. PICK two \in BytesOf[p] : Call(p, "write2", two[1], two[2])
      BY <2>5 DEF WriteInitCall
    <3>2. two[1] \in Types /\ two[2] \in Sizes /\ TwoBytes(two[1], two[2]) \in Keys
      BY ArgumentsAre
    <3>3. two[1] \in Int /\ two[2] \in Int
      BY <1>0, <3>2
    <3> QED
      BY <2>1, <3>1, <3>2, <3>3
  <2>6. CASE \E two \in TypesOf[p] : SetTypeCall(p, two[1], two[2])
    <3>1. PICK two \in TypesOf[p] : Call(p, "PB2_SET_TYPE", two[1], two[2])
      BY <2>6 DEF SetTypeCall
    <3>2. two[1] \in Types /\ two[2] \in Sizes
      BY ArgumentsAre
    <3>3. two[1] \in Int /\ two[2] \in Int
      BY <1>0, <3>2
    <3> QED
      BY <2>1, <3>1, <3>2, <3>3
  <2>7. CASE GetInfoCall(p) \/ ExtractCall(p) \/ WriteOtherCall(p)
    BY <1>0, <2>1, <2>7 DEF GetInfoCall, ExtractCall, WriteOtherCall, SetUpOps, Buffers, GoodBuffer, BadBuffer
  <2>8. CASE ReleaseCall(p)
    <3>1. DeviceTypes(Keys, T)'
      BY <2>8, ReleaseCallTypes
    <3>2. /\ pc'[p] = "del_trylock"
          /\ \A q \in Pids : q # p => pc'[q] = pc[q] /\ loc'[q] = loc[q]
      BY <1>0, <2>8 DEF ReleaseCall, Goto
    <3> QED
      BY <1>1, <1>u, <3>1, <3>2 DEF ArgumentsOK
  <2> QED
    BY <1>1, <2>2, <2>3, <2>4, <2>5, <2>6, <2>7, <2>8 DEF NewCall, DeviceCall
<1>2. ASSUME NEW p \in Pids, Step(p)
      PROVE  A2Types(T)'
  <2>0. /\ pc[p] # "idle" => Loaded
        /\ loc[p] \in Calls(Keys) /\ entry \in NodeIds \cup {Null}
        /\ loc[p].cur \in NodeIds \cup {Null}
        /\ TypeGiven(p) \in Int /\ SizeGiven(p) \in Int
    BY <1>0 DEF MutexInv, Quiet, Idle, DeviceTypes, CallsOK, Calls, GlobalsOK, ArgumentsOK, BuffersOK,
                TypeGiven, SizeGiven
  <2>1. DeviceTypes(Keys, T)'
    <3>1. CASE DeviceStep(p)
      <4>1. pc[p] # "idle"
        BY <3>1, DeviceStepIsShared
           DEF DeviceTypes, TableStep, Plain, Walk, OpenAllocates, NotFound, OpenBusy, OpenLocks,
               KeyAdd, ReleaseBusy, ReleaseLocks, KeyDel, KeyDelClear, KeyDelFree, KeyDelNone,
               PrintKeyUnlock
      <4> QED
        BY <1>0, <2>0, <3>1, <4>1, StepTypes
    <3>2. CASE WriteKey(p)
      <4>0. num' \in Keys
        <5> HIDE DEF TwoBytes
        <5> QED
          BY <3>2 DEF WriteKey, Found, ArgumentsOK, SetUpOps
      <4>1. GlobalsOK(Keys)'
        BY <2>0, <3>2, <4>0 DEF WriteKey, DeviceTypes, GlobalsOK
      <4> QED
        BY <3>2, <4>1, GoesOn DEF WriteKey
    <3>3. CASE WriteRefused(p) \/ Unset(p)
      <4>1. PICK v : Return(p, v)
        <5> HIDE DEF Return, OwnHeap
        <5> QED
          BY <3>3 DEF WriteRefused, Unset
      <4> QED
        BY <2>0, <3>3, <4>1, PlainReturnTypes DEF WriteRefused, Unset
    <3>4. CASE WriteInit(p) \/ SetType(p) \/ InsertByIoctl(p) \/ GetInfo(p)
      <4>1. GlobalsOK(Keys)' /\ UNCHANGED <<nodes, heaps, files, loc>>
        BY <2>0, <3>4 DEF WriteInit, SetType, InsertByIoctl, GetInfo, DeviceTypes, GlobalsOK
      <4>2. PICK label \in {"init", "copy_args", "copy_num", "copy_info", "empty_info"} :
              Goto(p, label)
        BY <3>4 DEF WriteInit, SetType, InsertByIoctl, GetInfo
      <4> QED
        BY <4>1, <4>2, GoesOn
    <3>5. CASE CopyArgs(p) \/ GetInfoEmpty(p)
      <4>1. GlobalsOK(Keys)' /\ UNCHANGED <<nodes, heaps, files, loc>>
        BY <3>5 DEF CopyArgs, GetInfoEmpty, DeviceTypes, GlobalsOK
      <4>2. PICK label \in {"init", "copy_info"} : Goto(p, label)
        BY <3>5 DEF CopyArgs, GetInfoEmpty
      <4> QED
        BY <4>1, <4>2, GoesOn
    <3>6. CASE CopyNum(p)
      <4>1. GlobalsOK(Keys)' /\ UNCHANGED <<nodes, heaps, files, loc>>
        BY <3>6 DEF CopyNum, DeviceTypes, GlobalsOK, ArgumentsOK
      <4> QED
        BY <3>6, <4>1, GoesOn DEF CopyNum
    <3>7. CASE InitRefused(p) \/ CopyInfo(p) \/ ExtractReturns(p)
      <4>1. PICK v : Return(p, v)
        BY <3>7 DEF InitRefused, CopyInfo, ExtractReturns
      <4> QED
        BY <2>0, <3>7, <4>1, PlainReturnTypes DEF InitRefused, CopyInfo, ExtractReturns
    <3>8. CASE InitAccepted(p)
      <4>1. GoodInit(p) => TypeGiven(p) \in T
        BY DEF GoodInit, GoodTypes
      <4>2. pc[p] = "init_again" => TypeGiven(p) \in T
        OBVIOUS
      <4> DEFINE type == TypeGiven(p)
                 size == SizeGiven(p)
      <4>3. CASE InitDestroys(p) \/ InitStores(p)
        <5>1. 0 \in T /\ 0 \in Int
          BY DEF GoodTypes
        <5> QED
          BY <4>3, <5>1, SetUpStepTypes
      <4>4. CASE \/ GoodInit(p) /\ InitCreates(p, size, type)
                 \/ InitCreatesAgain(p, size, type)
        <5>1. type \in T /\ size \in Int
          BY <2>0, <4>1, <4>2, <4>4 DEF InitCreatesAgain
        <5> HIDE DEF type, size
        <5> QED
          BY <4>4, <5>1, SetUpStepTypes
      <4> QED
        BY <3>8, <4>3, <4>4 DEF InitAccepted
    <3>9. CASE Extract(p)
      <4>1. HeapsOK(Keys, T)' /\ CallsOK(Keys)'
        <5>1. PopMin(p, OwnHeap(p)) /\ files' = files
          BY <3>9 DEF Extract
        <5> QED
          BY <1>0, <5>1, PopTypes DEF DeviceTypes
      <4> QED
        BY <2>0, <3>9, <4>1, SameNodes DEF Extract, DeviceTypes, GlobalsOK
    <3>10. CASE ExtractEmpty(p)
      <4>1. /\ Goto(p, "extracted") /\ UNCHANGED <<nodes, heaps, files>>
            /\ loc' = [loc EXCEPT ![p].val = EmptyPop]
            /\ GlobalsOK(Keys)'
        BY <2>0, <3>10 DEF ExtractEmpty, DeviceTypes, GlobalsOK
      <4>2. loc' = [loc EXCEPT ![p] = loc'[p]] /\ loc'[p].op = loc[p].op /\ loc'[p] \in Calls(Keys)
        BY <1>0, <2>0, <4>1 DEF Calls
      <4> QED
        BY <4>1, <4>2, Continues, SameNodes, SameHeaps DEF DeviceTypes
    <3>11. CASE ExtractSize(p)
      <4>1. /\ Goto(p, "copy_result") /\ UNCHANGED <<nodes, heaps, files>>
            /\ loc' = [loc EXCEPT ![p].b = heaps[HeapOfEntry].count]
            /\ heaps[HeapOfEntry].count \in Int
            /\ GlobalsOK(Keys)'
        <5> HIDE DEF HeapOfEntry
        <5> QED
          BY <3>11 DEF ExtractSize, DeviceTypes, GlobalsOK, HeapsOK, Heaps
      <4>2. loc' = [loc EXCEPT ![p] = loc'[p]] /\ loc'[p].op = loc[p].op /\ loc'[p] \in Calls(Keys)
        BY <1>0, <2>0, <4>1 DEF Calls
      <4> QED
        BY <4>1, <4>2, Continues, SameNodes, SameHeaps DEF DeviceTypes
    <3>12. CASE ArgsNotCopied(p) \/ NumNotCopied(p) \/ InfoNotCopied(p)
      <4>1. PICK v : Return(p, v)
        <5> HIDE DEF Return
        <5> QED
          BY <3>12 DEF ArgsNotCopied, NumNotCopied, InfoNotCopied
      <4>2. UNCHANGED <<nodes, heaps, heap_mutex, entry, files, topnode>> /\ num' \in {num, 0}
        BY <3>12 DEF ArgsNotCopied, NumNotCopied, InfoNotCopied
      <4> QED
        BY <4>1, <4>2, ReturnTypes, SameNodes, SameHeaps DEF DeviceTypes, GlobalsOK
    <3> QED
      BY <1>2, <3>1, <3>2, <3>3, <3>4, <3>5, <3>6, <3>7, <3>8, <3>9, <3>10, <3>11, <3>12 DEF Step
  <2>2. BuffersOK'
    <3>1. CASE UNCHANGED globals
      BY <3>1 DEF globals, ArgumentsOK, BuffersOK
    <3>2. CASE WriteInit(p)
      BY <3>2 DEF WriteInit, FoundFor, Found, ArgumentsOK, BuffersOK, SetUpOps
    <3>3. CASE CopyArgs(p)
      <4>1. loc[p].a \in Types /\ loc[p].b \in Sizes
        BY <3>3 DEF CopyArgs, ArgumentsOK, SetUpOps
      <4> QED
        BY <3>3, <4>1 DEF CopyArgs, ArgumentsOK, BuffersOK
    <3>4. CASE GetInfo(p)
      <4> DEFINE h == heaps[OwnHeap(p)]
      <4>1. /\ h.count \in Int /\ h.last_inserted \in Keys \cup {0}
            /\ h.count # 0 => Top(h) \in Keys \cup {0}
        <5>1. /\ OwnHeap(p) \in DOMAIN heaps /\ h \in Heaps(Keys, T)
              /\ h.count \in 0 .. h.capacity /\ h.arr \in [0 .. h.capacity - 1 -> Keys \cup {0}]
          BY <3>4 DEF GetInfo, InBounds, DeviceTypes, HeapsOK
        <5> HIDE DEF h
        <5> QED
          BY <5>1 DEF Heaps, Top
      <4>2. IF h.count # 0
            THEN heap' = [heap_size |-> h.count, heap_type |-> pb2_args.heap_type,
                          root |-> Top(h), last_inserted |-> h.last_inserted]
            ELSE heap' = [heap EXCEPT !.heap_size = 0, !.heap_type = pb2_args.heap_type]
        BY <3>4 DEF GetInfo
      <4>3. UNCHANGED setUp
        BY <3>4 DEF GetInfo
      <4>4. /\ pb2_args.heap_type \in Types \cup {0}
            /\ heap \in [heap_size : Int, heap_type : Types \cup {0}, root : Keys \cup {0},
                         last_inserted : Keys \cup {0}]
        BY DEF ArgumentsOK, BuffersOK
      <4>5. heap' \in [heap_size : Int, heap_type : Types \cup {0}, root : Keys \cup {0},
                       last_inserted : Keys \cup {0}]
        <5> HIDE DEF h, Top
        <5>1. CASE h.count = 0
          BY <1>0, <4>2, <4>4, <5>1
        <5>2. CASE h.count # 0
          BY <4>1, <4>2, <4>4, <5>2
        <5> QED
          BY <5>1, <5>2
      <4> QED
        BY <4>3, <4>5 DEF setUp, ArgumentsOK, BuffersOK
    <3>5. CASE GetInfoEmpty(p)
      <4>1. heaps[HeapOfEntry].last_inserted \in Keys \cup {0}
        <5> HIDE DEF HeapOfEntry
        <5> QED
          BY <3>5 DEF GetInfoEmpty, DeviceTypes, HeapsOK, Heaps
      <4> HIDE DEF HeapOfEntry
      <4> QED
        BY <3>5, <4>1 DEF GetInfoEmpty, setUp, ArgumentsOK, BuffersOK
    <3>6. CASE ArgsNotCopied(p)
      <4>1. loc[p].b \in Sizes
        BY <3>6 DEF ArgsNotCopied, ArgumentsOK, SetUpOps
      <4>2. PICK size \in {0, loc[p].b} : pb2_args' = [heap_size |-> size, heap_type |-> 0]
        BY <3>6 DEF ArgsNotCopied
      <4>3. UNCHANGED <<heap_type, heap_size, heap>>
        BY <3>6 DEF ArgsNotCopied
      <4> QED
        BY <4>1, <4>2, <4>3 DEF ArgumentsOK, BuffersOK
    <3> QED
      BY <1>2, <3>1, <3>2, <3>3, <3>4, <3>5, <3>6
         DEF Step, globals, setUp, WriteKey, WriteRefused, SetType, Unset, InsertByIoctl, CopyNum, CopyInfo,
             NumNotCopied, InfoNotCopied, Extract, ExtractEmpty, ExtractSize, ExtractReturns
  <2>3. ArgumentsOK'
    <3>1. CallsOK(Keys) /\ (TableStep(p) \/ SetUpStep(p) \/ Plain(p))
      BY <1>2, StepIsShared DEF DeviceTypes
    <3>2. \A q \in Pids : pc'[q] = "walk" => /\ pc[q] = "walk" /\ loc'[q].op = loc[q].op
                                            /\ loc'[q].a = loc[q].a /\ loc'[q].b = loc[q].b
      BY <3>1, WalksKeepArguments
    <3>3. \A q \in Pids : pc'[q] \in {"copy_args", "copy_num"} =>
            \/ pc[q] = pc'[q] /\ loc'[q] = loc[q]
            \/ /\ pc[q] = "walk" /\ loc'[q] = loc[q]
               /\ pc'[q] = "copy_args" => loc[q].op = "PB2_SET_TYPE"
               /\ pc'[q] = "copy_num" => loc[q].op = "PB2_INSERT"
      <4> SUFFICES ASSUME NEW q \in Pids, pc'[q] \in {"copy_args", "copy_num"}
                   PROVE  \/ pc[q] = pc'[q] /\ loc'[q] = loc[q]
                          \/ /\ pc[q] = "walk" /\ loc'[q] = loc[q]
                             /\ pc'[q] = "copy_args" => loc[q].op = "PB2_SET_TYPE"
                             /\ pc'[q] = "copy_num" => loc[q].op = "PB2_INSERT"
        OBVIOUS
      <4>1. CASE q # p
        BY <3>1, <4>1, StepsAreOfOne
      <4>2. CASE q = p
        <5>1. ~ TableStep(p) /\ ~ SetUpStep(p)
          BY <1>0, <4>2 DEF TableStep, SetUpStep, Walk, OpenAllocates, OpenBusy, OpenLocks, KeyAdd,
             ReleaseBusy, ReleaseLocks, KeyDel, KeyDelClear, KeyDelFree, KeyDelNone, PrintKeyUnlock,
             InitCreates, InitCreatesAgain, InitDestroys, InitStores, CreateHeap, Return, Goto
        <5>2. ~ DeviceStep(p)
          BY <3>1, <4>2, <5>1, DeviceStepIsShared
        <5> QED
          BY <1>0, <1>2, <4>2, <5>1, <5>2
             DEF Step, InitRefused, InitAccepted, SetUpStep, WriteKey, WriteRefused, WriteInit, SetType, CopyArgs,
                 ArgsNotCopied, NumNotCopied, InfoNotCopied, Unset, InsertByIoctl, CopyNum, GetInfo, GetInfoEmpty, CopyInfo, Extract, ExtractEmpty,
                 ExtractSize, ExtractReturns, FoundFor, Found, PopMin, Return, Goto
      <4> QED
        BY <4>1, <4>2
    <3> QED
      BY <2>2, <3>2, <3>3 DEF ArgumentsOK
  <2> QED
    BY <2>1, <2>3
<1>3. CASE HelloExit /\ UNCHANGED globals
  BY <1>3, <1>u, LoadTypes DEF HelloExit, ArgumentsOK
<1>4. CASE Load
  <2>1. BuffersOK'
    BY <1>4 DEF Load, BuffersOK
  <2> QED
    BY <1>4, <2>1, LoadTypes DEF Load, HelloInit, ArgumentsOK
<1>5. CASE Untouched /\ UNCHANGED globals
  BY <1>5 DEF Untouched, globals, DeviceTypes, NodesOK, Addresses, Loaded, HeapsOK, GlobalsOK, CallsOK, ArgumentsOK,
     BuffersOK
<1>6. UNCHANGED vars => Untouched /\ UNCHANGED globals
  BY DEF vars, Untouched, globals
<1>7. \A p : RejectedCall(p) => Untouched
  BY DEF RejectedCall, Rejected, Untouched
<1> QED
  BY <1>1, <1>2, <1>3, <1>4, <1>5, <1>6, <1>7 DEF Next

LEMMA InitHasTypes ==
  ASSUME NEW T, A2Init
  PROVE  A2Types(T) /\ MutexInv
<1>1. DeviceTypes(Keys, T) /\ MutexInv
  BY InitTypes, InitMutex DEF A2Init
<1>2. ArgumentsOK
  BY DEF A2Init, Init, ArgumentsOK, BuffersOK
<1> QED
  BY <1>1, <1>2 DEF A2Types

LEMMA StepKeepsBase ==
  ASSUME NEW T, GoodTypes \subseteq T, \A p \in Pids : pc[p] = "init_again" => TypeGiven(p) \in T,
         A2Types(T), MutexInv, [Next]_vars
  PROVE  A2Types(T)' /\ MutexInv'
<1>1. A2Types(T)'
  BY StepKeepsTypes
<1>2. CASE SharedNext
  BY <1>1, <1>2, StepKeepsMutex DEF A2Types
<1>3. CASE Untouched
  BY <1>1, <1>3 DEF Untouched, MutexInv, Loaded, Quiet, Idle, MutexIsHeldInside, Critical
<1> QED
  BY <1>1, <1>2, <1>3, NextIsShared

(* However the calls overlap, a heap has a type that some set-up asks for. *)
AnyType == GoodTypes \cup Types \cup {0}

LEMMA A2BaseInvariant == Spec => [](A2Types(AnyType) /\ MutexInv)
<1>1. A2Init => A2Types(AnyType) /\ MutexInv
  BY InitHasTypes
<1>2. ASSUME A2Types(AnyType), MutexInv, [Next]_vars
      PROVE  A2Types(AnyType)' /\ MutexInv'
  <2>1. \A p \in Pids : TypeGiven(p) \in AnyType
    BY <1>2 DEF A2Types, ArgumentsOK, BuffersOK, TypeGiven, AnyType
  <2> QED
    BY <1>2, <2>1, StepKeepsBase DEF AnyType
<1> QED
  BY <1>1, <1>2, PTL DEF Spec

(* As in module A1, a process holds heap_mutex exactly between its trylock *)
(* and its unlock: no ioctl call and no dev_write gives it away.           *)
THEOREM A2MutexIsHeldInside == Spec => []MutexIsHeldInside
BY A2BaseInvariant, PTL DEF MutexInv

LEMMA A2TableInvariant ==
  ASSUME OpensOverlapCloses
  PROVE  Spec => [](TableInv /\ FilesCounted)
<1> DEFINE Base == A2Types(AnyType) /\ MutexInv
<1>1. A2Init => TableInv /\ FilesCounted
  <2> SUFFICES ASSUME A2Init PROVE TableInv /\ FilesCounted
    OBVIOUS
  <2>1. DeviceTypes(Keys, AnyType) /\ Init
    BY InitHasTypes DEF A2Init, A2Types
  <2>2. TableInv /\ Listed = {}
    BY <2>1, InitTable
  <2> QED
    BY <2>1, <2>2, InitCount
<1>2. Base /\ Base' /\ [Next]_vars /\ TableInv /\ FilesCounted => TableInv' /\ FilesCounted'
  <2> SUFFICES ASSUME Base, Base', [Next]_vars, TableInv, FilesCounted
               PROVE  TableInv' /\ FilesCounted'
    OBVIOUS
  <2>1. DeviceTypes(Keys, AnyType) /\ DeviceTypes(Keys, AnyType)' /\ MutexInv /\ MutexInv'
    BY DEF A2Types
  <2>2. CASE SharedNext
    BY <2>1, <2>2, StepKeepsTable, StepKeepsCount
  <2>3. CASE Untouched
    BY <2>3, TableUnchanged, CountUnchanged
  <2> QED
    BY <2>2, <2>3, NextIsShared
<1>3. Spec => []Base
  BY A2BaseInvariant DEF Base
<1> HIDE DEF Base
<1> QED
  BY <1>1, <1>2, <1>3, PTL DEF Spec

LEMMA A2TableShows ==
  ASSUME OpensOverlapCloses
  PROVE  Spec => [](WalksEnd /\ FilesHaveEntries)
<1>1. A2Types(AnyType) /\ TableInv /\ FilesCounted => WalksEnd /\ FilesHaveEntries
  BY TableShows DEF A2Types
<1> QED
  BY <1>1, A2BaseInvariant, A2TableInvariant, PTL

(* As in module A1, no walk of the list is endless when opens overlap with *)
(* nothing but closes: the ioctl calls change no link.                     *)
THEOREM A2WalksEnd ==
  ASSUME OpensOverlapCloses
  PROVE  Spec => []WalksEnd
BY A2TableShows, PTL

(* And a process that has the device open has an entry in it.              *)
THEOREM A2FilesHaveEntries ==
  ASSUME OpensOverlapCloses
  PROVE  Spec => []FilesHaveEntries
BY A2TableShows, PTL

LEMMA A2OwnerInvariant ==
  ASSUME UsesOverlap
  PROVE  Spec => []OwnerInv
<1> DEFINE Base == A2Types(AnyType) /\ MutexInv /\ TableInv
<1>1. A2Init => OwnerInv
  <2> SUFFICES ASSUME A2Init PROVE OwnerInv
    OBVIOUS
  <2>1. DeviceTypes(Keys, AnyType) /\ Init
    BY InitHasTypes DEF A2Init, A2Types
  <2> QED
    BY <2>1, InitTable, InitOwner
<1>2. Base /\ Base' /\ [Next]_vars /\ OwnerInv => OwnerInv'
  <2> SUFFICES ASSUME Base, Base', [Next]_vars, OwnerInv
               PROVE  OwnerInv'
    OBVIOUS
  <2>1. DeviceTypes(Keys, AnyType) /\ DeviceTypes(Keys, AnyType)' /\ MutexInv /\ TableInv
    BY DEF A2Types
  <2>2. CASE SharedNext
    BY <2>1, <2>2, StepKeepsOwner
  <2>3. CASE Untouched
    BY <2>3, OwnerUnchanged
  <2> QED
    BY <2>2, <2>3, NextIsShared
<1>3. Spec => []Base
  <2>1. Spec => [](TableInv /\ FilesCounted)
    BY UsesImplyOpens, A2TableInvariant
  <2> QED
    BY <2>1, A2BaseInvariant, PTL DEF Base
<1> HIDE DEF Base
<1> QED
  BY <1>1, <1>2, <1>3, PTL DEF Spec

(* As in module A1, a read and a PB2_EXTRACT pop from the heap of the      *)
(* process that calls, whatever inserts, extracts, PB2_GET_INFOs, writes   *)
(* of keys and closes of other processes overlap with them.                *)
THEOREM A2PopsOwnHeap ==
  ASSUME UsesOverlap
  PROVE  Spec => PopsOwnHeap
<1> DEFINE Pops == \A p \in Pids : pc[p] = "walk" /\ pc'[p] = "down" =>
                     \A n \in Listed : nodes[n].global_heap = loc'[p].heap => nodes[n].key = p
<1>1. A2Types(AnyType) /\ TableInv /\ OwnerInv /\ [Next]_vars => [Pops]_deviceVars
  <2> SUFFICES ASSUME A2Types(AnyType), TableInv, OwnerInv, [Next]_vars, ~ UNCHANGED deviceVars
               PROVE  Pops
    OBVIOUS
  <2>1. (SharedNext \/ Untouched) /\ DeviceTypes(Keys, AnyType)
    BY NextIsShared DEF A2Types
  <2>2. CASE HelloExit \/ HelloInit \/ Untouched
    BY <2>2 DEF HelloExit, HelloInit, Untouched
  <2>3. ASSUME NEW p \in Pids, AnyCall(p) \/ TableStep(p) \/ SetUpStep(p) \/ Plain(p)
        PROVE  Pops
    BY <2>1, <2>3, PopIsOwn
  <2> QED
    BY <2>1, <2>2, <2>3 DEF SharedNext
<1>2. Spec => [](A2Types(AnyType) /\ TableInv /\ OwnerInv)
  <2>1. Spec => [](TableInv /\ FilesCounted)
    BY UsesImplyOpens, A2TableInvariant
  <2> QED
    BY <2>1, A2BaseInvariant, A2OwnerInvariant, PTL
<1>3. Spec => [][Pops]_deviceVars
  <2> HIDE DEF Pops
  <2> QED
    BY <1>1, <1>2, PTL DEF Spec
<1> QED
  BY <1>3 DEF PopsOwnHeap

LEMMA A2OwnedInvariant ==
  ASSUME UsesOverlap, "rmmod" \notin Ops
  PROVE  Spec => [](Loaded /\ Owned)
<1> DEFINE Base == A2Types(AnyType) /\ MutexInv /\ TableInv /\ OwnerInv
<1>1. A2Init => Loaded /\ Owned
  BY DEF A2Init, Init, Loaded, Owned
<1>2. Base /\ Base' /\ [Next]_vars /\ Loaded /\ Owned => Loaded' /\ Owned'
  <2> SUFFICES ASSUME Base, Base', [Next]_vars, Loaded, Owned
               PROVE  Loaded' /\ Owned'
    OBVIOUS
  <2>1. DeviceTypes(Keys, AnyType) /\ DeviceTypes(Keys, AnyType)' /\ MutexInv /\ TableInv /\ OwnerInv
    BY DEF A2Types
  <2>2. CASE SharedNext
    <3>1. ~ HelloExit /\ ~ HelloInit
      BY DEF HelloExit, HelloInit
    <3> QED
      BY <2>1, <2>2, <3>1, StepKeepsOwned, StepMovesList DEF SharedNext
  <2>3. CASE Untouched
    BY <2>3, OwnedUnchanged DEF Untouched, Loaded
  <2> QED
    BY <2>2, <2>3, NextIsShared
<1>3. Spec => []Base
  <2>1. Spec => [](TableInv /\ FilesCounted)
    BY UsesImplyOpens, A2TableInvariant
  <2> QED
    BY <2>1, A2BaseInvariant, A2OwnerInvariant, PTL DEF Base
<1> HIDE DEF Base
<1> QED
  BY <1>1, <1>2, <1>3, PTL DEF Spec

(* As in module A1 no heap is lost or shared, though a set-up by ioctl     *)
(* destroys a heap that is in use and creates the next in three steps.     *)
THEOREM A2HeapsAreOwned ==
  ASSUME UsesOverlap, "rmmod" \notin Ops
  PROVE  Spec => []HeapsAreOwned
<1>1. OwnerInv /\ Loaded /\ Owned => HeapsAreOwned
  BY OwnedShows
<1> QED
  BY <1>1, A2OwnerInvariant, A2OwnedInvariant, PTL

LEMMA A2TurnsInvariant ==
  ASSUME TakeTurns
  PROVE  Spec => [](A2Types(AnyType) /\ MutexInv /\ TableInv /\ OwnerInv /\ TurnsInv)
<1> DEFINE Base == A2Types(AnyType) /\ MutexInv /\ TableInv /\ OwnerInv
<1>1. A2Init => TurnsInv
  <2> SUFFICES ASSUME A2Init PROVE TurnsInv
    OBVIOUS
  <2>1. DeviceTypes(Keys, AnyType) /\ Init
    BY InitHasTypes DEF A2Init, A2Types
  <2> QED
    BY <2>1, InitTable, InitTurns
<1>2. Base /\ Base' /\ [Next]_vars /\ TurnsInv => TurnsInv'
  <2> SUFFICES ASSUME Base, Base', [Next]_vars, TurnsInv
               PROVE  TurnsInv'
    OBVIOUS
  <2>1. DeviceTypes(Keys, AnyType) /\ DeviceTypes(Keys, AnyType)' /\ MutexInv /\ TableInv /\ OwnerInv
    BY DEF A2Types
  <2>2. CASE SharedNext
    BY <2>1, <2>2, StepKeepsTurns
  <2>3. CASE Untouched
    BY <2>3, TurnsUnchanged
  <2> QED
    BY <2>2, <2>3, NextIsShared
<1>3. Spec => []Base
  <2>1. Spec => [](TableInv /\ FilesCounted)
    BY TurnsAreUses, UsesImplyOpens, A2TableInvariant
  <2>2. Spec => []OwnerInv
    BY TurnsAreUses, A2OwnerInvariant
  <2> QED
    BY <2>1, <2>2, A2BaseInvariant, PTL DEF Base
<1>4. Base /\ TurnsInv <=> A2Types(AnyType) /\ MutexInv /\ TableInv /\ OwnerInv /\ TurnsInv
  OBVIOUS
<1> HIDE DEF Base
<1> QED
  BY <1>1, <1>2, <1>3, <1>4, PTL DEF Spec

LEMMA A2TurnsShow ==
  ASSUME TakeTurns
  PROVE  Spec => [](TableMatchesFiles /\ HeapsAreOwned /\ NothingLeft)
<1>1. A2Types(AnyType) /\ MutexInv /\ TableInv /\ OwnerInv /\ TurnsInv =>
        TableMatchesFiles /\ HeapsAreOwned /\ NothingLeft
  BY TurnsShow DEF A2Types
<1> QED
  BY <1>1, A2TurnsInvariant, PTL

(* As in module A1 when processes take turns; a set-up that replaces a     *)
(* heap destroys the old one, and no heap has two owners or none, though   *)
(* hello_exit may now remove the module.                                   *)
THEOREM A2TableMatchesFiles ==
  ASSUME TakeTurns
  PROVE  Spec => [](TableMatchesFiles /\ HeapsAreOwned)
BY A2TurnsShow, PTL

(* And nothing is left in memory once the module is removed.               *)
THEOREM A2NothingLeft ==
  ASSUME TakeTurns
  PROVE  Spec => []NothingLeft
BY A2TurnsShow, PTL
-----------------------------------------------------------------------------
(* No set-up overlaps with another: what the types of the heaps need.      *)
SetUpsApart == \A pair \in MayOverlap : ~ (pair \subseteq SetUpOps)

(* What dev_ioctl has checked is still in the globals when it is used.     *)
StillGood == \A p \in Pids : pc[p] = "init_again" => GoodInit(p)

LEMMA StepKeepsGood ==
  ASSUME SetUpsApart, A2Types(GoodTypes), MutexInv, Apart, LabelsOK, StillGood, [Next]_vars
  PROVE  StillGood'
<1> USE DEF A2Types, DeviceTypes
<1>0. DOMAIN pc = Pids /\ DOMAIN loc = Pids
  BY DEF CallsOK
<1>1. ASSUME NEW r \in Pids, pc[r] = "init_again", pc'[r] = "init_again", loc'[r] = loc[r], UNCHANGED setUp
      PROVE  GoodInit(r)'
  BY <1>1 DEF StillGood, GoodInit, TypeGiven, SizeGiven, ByIoctl, setUp
<1>2. ASSUME NEW p \in Pids, (NewCall(p) /\ UNCHANGED globals) \/ Step(p),
             NEW r \in Pids, pc'[r] = "init_again"
      PROVE  GoodInit(r)'
  <2>1. AnyCall(p) \/ TableStep(p) \/ SetUpStep(p) \/ Plain(p)
    <3>1. NewCall(p) => AnyCall(p)
      BY DEF NewCall, DeviceCall, OpenCall, ReadCall, WriteKeyCall, WriteInitCall, WriteOtherCall, SetTypeCall, InsertCall,
             GetInfoCall, ExtractCall, AnyCall
    <3> QED
      BY <1>2, <3>1, StepIsShared
  <2>2. CASE r # p
    <3>1. pc[r] = "init_again" /\ loc'[r] = loc[r]
      BY <1>2, <2>1, <2>2, StepsAreOfOne
    <3>2. UNCHANGED setUp
      <4>1. CASE CopyArgs(p) \/ ArgsNotCopied(p) \/ WriteInit(p)
        <5>1. loc[p].op \in SetUpOps /\ ~ Idle(p)
          BY <4>1 DEF CopyArgs, ArgsNotCopied, WriteInit, FoundFor, Found, LabelsOK, SetUpLabels, SetUpOps, Idle
        <5>2. loc[r].op \in SetUpOps /\ ~ Idle(r)
          BY <3>1 DEF LabelsOK, SetUpLabels, Idle
        <5>3. {loc[p].op, loc[r].op} \in MayOverlap
          BY <2>2, <5>1, <5>2 DEF Apart
        <5> QED
          BY <5>1, <5>2, <5>3 DEF SetUpsApart
      <4>2. CASE ~ CopyArgs(p) /\ ~ ArgsNotCopied(p) /\ ~ WriteInit(p)
        <5>1. CASE UNCHANGED globals
          BY <5>1 DEF globals, setUp
        <5>2. CASE Step(p)
          BY <4>2, <5>2 DEF Step, globals, setUp, WriteKey, WriteRefused, SetType, Unset, InsertByIoctl, CopyNum,
             NumNotCopied, InfoNotCopied, GetInfo, GetInfoEmpty, CopyInfo, Extract, ExtractEmpty, ExtractSize, ExtractReturns
        <5> QED
          BY <1>2, <5>1, <5>2
      <4> QED
        BY <4>1, <4>2
    <3> QED
      BY <1>1, <1>2, <3>1, <3>2
  <2>3. CASE r = p
    <3>1. ~ AnyCall(p) /\ ~ TableStep(p) /\ ~ Plain(p)
      BY <1>0, <1>2, <2>3 DEF AnyCall, Call, ReleaseCall, TableStep, Walk, OpenAllocates, NotFound, OpenBusy,
         OpenLocks, KeyAdd, ReleaseBusy, ReleaseLocks, KeyDel, KeyDelClear, KeyDelFree, KeyDelNone,
         PrintKeyUnlock, Plain, Marked, Return, Goto
    <3>2. InitDestroys(p)
      BY <1>0, <1>2, <2>1, <2>3, <3>1 DEF SetUpStep, InitCreates, InitCreatesAgain, InitStores, CreateHeap,
         Return, Goto
    <3>3. ~ NewCall(p)
      BY <3>1 DEF NewCall, DeviceCall, OpenCall, ReadCall, WriteKeyCall, WriteInitCall, WriteOtherCall, SetTypeCall, InsertCall,
             GetInfoCall, ExtractCall, AnyCall
    <3>4. GoodInit(p) /\ UNCHANGED globals /\ loc' = loc
      <4>1. ~ DeviceStep(p)
        BY <3>1, DeviceStepIsShared
      <4>2. pc[p] = "init" /\ loc' = loc
        BY <3>2 DEF InitDestroys
      <4>3. ~ InitRefused(p)
        BY <1>0, <1>2, <2>3 DEF InitRefused, Return, Goto
      <4> QED
        BY <1>2, <3>3, <4>1, <4>2, <4>3
           DEF ArgsNotCopied, NumNotCopied, InfoNotCopied, Step, InitAccepted, InitCreatesAgain, InitStores, WriteKey, WriteRefused, WriteInit, SetType,
               CopyArgs, Unset, InsertByIoctl, CopyNum, GetInfo, GetInfoEmpty, CopyInfo, Extract,
               ExtractEmpty, ExtractSize, ExtractReturns, FoundFor, Found, Popped
    <3> QED
      BY <2>3, <3>4 DEF GoodInit, TypeGiven, SizeGiven, ByIoctl, globals
  <2> QED
    BY <2>2, <2>3
<1>3. CASE (HelloExit /\ UNCHANGED globals) \/ Load
  <2>1. Quiet /\ pc' = pc
    BY <1>3 DEF HelloExit, Load, HelloInit, MutexInv
  <2> QED
    BY <2>1 DEF Quiet, Idle, StillGood
<1>4. CASE Untouched /\ UNCHANGED globals
  BY <1>4 DEF Untouched, globals, StillGood, GoodInit, TypeGiven, SizeGiven, ByIoctl
<1>5. UNCHANGED vars => Untouched /\ UNCHANGED globals
  BY DEF vars, Untouched, globals
<1>6. \A p : RejectedCall(p) => Untouched
  BY DEF RejectedCall, Rejected, Untouched
<1> QED
  BY <1>2, <1>3, <1>4, <1>5, <1>6 DEF Next, StillGood

LEMMA A2GoodInvariant ==
  ASSUME SetUpsApart
  PROVE  Spec => [](A2Types(GoodTypes) /\ MutexInv /\ Apart /\ LabelsOK /\ StillGood)
<1> DEFINE Inv == A2Types(GoodTypes) /\ MutexInv /\ Apart /\ LabelsOK /\ StillGood
<1>1. A2Init => Inv
  <2> SUFFICES ASSUME A2Init PROVE Inv
    OBVIOUS
  <2>1. A2Types(GoodTypes) /\ MutexInv
    BY InitHasTypes
  <2>2. \A p \in Pids : pc[p] = "idle" /\ loc[p].op = "none"
    BY DEF A2Init, Init, NoCall
  <2>3. Apart /\ LabelsOK /\ StillGood
    BY <2>2 DEF Apart, LabelsOK, StillGood, Idle, Opening, Deleting, SetUpLabels
  <2> QED
    BY <2>1, <2>3
<1>2. Inv /\ [Next]_vars => Inv'
  <2> SUFFICES ASSUME Inv, [Next]_vars PROVE Inv'
    OBVIOUS
  <2>1. \A p \in Pids : pc[p] = "init_again" => TypeGiven(p) \in GoodTypes
    BY DEF StillGood, GoodInit, GoodTypes
  <2>2. A2Types(GoodTypes)' /\ MutexInv'
    BY <2>1, StepKeepsBase
  <2>3. StillGood'
    BY StepKeepsGood
  <2>4. Apart' /\ LabelsOK'
    <3>1. CASE SharedNext
      BY <3>1, StepKeepsLabels DEF A2Types, DeviceTypes
    <3>2. CASE Untouched
      BY <3>2 DEF Untouched, Apart, LabelsOK, Idle
    <3> QED
      BY <3>1, <3>2, NextIsShared
  <2> QED
    BY <2>2, <2>3, <2>4
<1> QED
  BY <1>1, <1>2, PTL DEF Spec

(* When set-ups do not overlap with set-ups, every variable keeps its type *)
(* and every heap has a type that CreateHeap's caller checked: what        *)
(* PB2_SET_TYPE checked is what it loads again after DestroyHeap.          *)
THEOREM A2TypesHold ==
  ASSUME SetUpsApart
  PROVE  Spec => []TypeOK
<1>1. A2Types(GoodTypes) => TypeOK
  BY DEF A2Types, GoodTypes, ArgumentsOK, BuffersOK, DeviceTypes, NodesOK, Addresses, Nodes, HeapsOK, Heaps, GlobalsOK,
         TypeOK
<1> QED
  BY <1>1, A2GoodInvariant, PTL
-----------------------------------------------------------------------------
(* When processes take turns.                                              *)
LEMMA StepIsTurn ==
  ASSUME A2Types(AnyType), StillGood, NEW p \in Pids, Step(p)
  PROVE  AloneStep(p)
<1> USE DEF A2Types
<1>0. DOMAIN pc = Pids
  BY DEF DeviceTypes, CallsOK
<1>1. CASE DeviceStep(p)
  BY <1>1, DeviceStepIsAlone DEF AloneStep
<1>2. CASE InitAccepted(p)
  <2>1. GoodInit(p) => SizeGiven(p) \in Nat \ {0}
    <3>1. MaxHeapSize \in Nat
      BY ArgumentsAreNumbers
    <3> QED
      BY <3>1 DEF GoodInit
  <2>2. TypeGiven(p) \in Int
    <3>1. pb2_args.heap_type \in Types \cup {0} /\ heap_type \in Types \cup {0}
      BY DEF ArgumentsOK, BuffersOK
    <3>2. \A x \in Types \cup {0} : x \in Int
      BY ArgumentsAre
    <3>3. pb2_args.heap_type \in Int /\ heap_type \in Int
      BY <3>1, <3>2
    <3> QED
      BY <3>3 DEF TypeGiven
  <2>3. CASE GoodInit(p)
    <3> HIDE DEF TypeGiven, SizeGiven
    <3> QED
      BY <1>2, <2>1, <2>2, <2>3 DEF InitAccepted, GoodSetUp, AloneStep
  <2>4. CASE ~ GoodInit(p)
    <3>1. pc[p] # "init_again"
      BY <2>4 DEF StillGood
    <3> QED
      BY <1>2, <2>4, <3>1 DEF InitAccepted, InitCreatesAgain, GoodSetUp, AloneStep
  <2> QED
    BY <2>3, <2>4
<1>3. CASE ~ DeviceStep(p) /\ ~ InitAccepted(p)
  <2>1. CASE Extract(p)
    <3>1. ~ TableStep(p) /\ ~ SetUpStep(p)
      BY <1>0, <2>1
         DEF Extract, PopMin, FoundFor, Found, Goto, TableStep, Walk, OpenAllocates, NotFound, OpenBusy, OpenLocks,
             KeyAdd, ReleaseBusy, ReleaseLocks, KeyDel, KeyDelClear, KeyDelFree, KeyDelNone, PrintKeyUnlock,
             SetUpStep, InitCreates, InitCreatesAgain, InitDestroys, InitStores, CreateHeap
    <3>2. Plain(p)
      BY <2>1, <3>1, StepIsShared DEF Step
    <3> QED
      BY <2>1, <3>2 DEF Extract, FoundFor, PopsOwn, HeapCall, AloneStep
  <2>2. CASE ExtractEmpty(p)
    <3>1. OwnHeap(p) # Null
      BY <2>2, IdsAreNaturals DEF ExtractEmpty, DeviceTypes, HeapsOK, Null
    <3>2. /\ Found(p) /\ entry' = loc[p].cur /\ heaps' = heaps
          /\ pc[p] = "walk" /\ pc'[p] = "extracted"
      BY <1>0, <2>2 DEF ExtractEmpty, FoundFor, Found, Goto
    <3>3. ~ TableStep(p) /\ ~ SetUpStep(p)
      BY <1>0, <3>2
         DEF Found, Goto, Return, TableStep, Walk, OpenAllocates, NotFound, OpenBusy, OpenLocks, KeyAdd, ReleaseBusy,
             ReleaseLocks, KeyDel, KeyDelClear, KeyDelFree, KeyDelNone, PrintKeyUnlock, SetUpStep, InitCreates,
             InitCreatesAgain, InitDestroys, InitStores, CreateHeap
    <3>4. Plain(p)
      BY <2>2, <3>3, StepIsShared DEF Step
    <3> QED
      BY <3>1, <3>2, <3>4 DEF Steady, AloneStep
  <2>3. CASE ~ Extract(p) /\ ~ ExtractEmpty(p)
    <3>1. \/ InitRefused(p) \/ WriteKey(p) \/ WriteRefused(p) \/ WriteInit(p) \/ SetType(p) \/ CopyArgs(p)
          \/ Unset(p) \/ InsertByIoctl(p) \/ CopyNum(p) \/ GetInfo(p) \/ GetInfoEmpty(p) \/ CopyInfo(p)
          \/ ExtractSize(p) \/ ExtractReturns(p)
          \/ ArgsNotCopied(p) \/ NumNotCopied(p) \/ InfoNotCopied(p)
      BY <1>3, <2>3 DEF Step
    <3>2. /\ pc[p] \notin Marked \cup {"idle"}
          /\ pc'[p] \in {"idle", "insert", "init", "copy_args", "copy_num", "empty_info", "copy_info",
                         "copy_result"}
      BY <1>0, <3>1
         DEF InitRefused, WriteKey, WriteRefused, WriteInit, SetType, CopyArgs, Unset, InsertByIoctl, CopyNum,
             GetInfo, GetInfoEmpty, CopyInfo, ExtractSize, ExtractReturns, ArgsNotCopied, NumNotCopied,
             InfoNotCopied, FoundFor, Found, Popped, Return, Goto, Marked
    <3>3. ~ TableStep(p) /\ ~ SetUpStep(p)
      BY <1>0, <3>1, <3>2
         DEF Marked, TableStep, Walk, OpenAllocates, NotFound, OpenBusy, OpenLocks, KeyAdd, ReleaseBusy,
             ReleaseLocks, KeyDel, KeyDelClear, KeyDelFree, KeyDelNone, PrintKeyUnlock, Goto, Return, SetUpStep,
             InitCreates, InitCreatesAgain, InitDestroys, InitStores, CreateHeap, InitRefused
    <3>4. Plain(p)
      BY <3>3, StepIsShared
    <3>5. Steady(p)
      <4>1. InBounds(OwnHeap(p)) => OwnHeap(p) # Null
        BY IdsAreNaturals DEF InBounds, DeviceTypes, HeapsOK, Null
      <4> QED
        BY <1>0, <3>1, <3>2, <4>1
           DEF InitRefused, WriteKey, WriteRefused, WriteInit, SetType, CopyArgs, Unset, InsertByIoctl, CopyNum,
               GetInfo, GetInfoEmpty, CopyInfo, ExtractSize, ExtractReturns, ArgsNotCopied, NumNotCopied,
               InfoNotCopied, FoundFor, Found, Return, Popped, Goto, Steady, UseLabels
    <3> QED
      BY <3>4, <3>5 DEF AloneStep
  <2> QED
    BY <2>1, <2>2, <2>3
<1> QED
  BY <1>1, <1>2, <1>3

LEMMA NextIsTurn ==
  ASSUME A2Types(AnyType), StillGood, [Next]_vars
  PROVE  \/ \E p \in Pids : AloneStep(p) /\ ((NewCall(p) /\ UNCHANGED globals) \/ Step(p))
         \/ HelloExit \/ HelloInit \/ (Untouched /\ UNCHANGED globals)
<1>1. ASSUME NEW p \in Pids, NewCall(p)
      PROVE  AloneStep(p)
  BY <1>1 DEF NewCall, DeviceCall, OpenCall, ReadCall, WriteKeyCall, WriteInitCall, WriteOtherCall, SetTypeCall, InsertCall,
              GetInfoCall, ExtractCall, AnyCall, AloneStep
<1>2. ASSUME NEW p \in Pids, Step(p)
      PROVE  AloneStep(p)
  BY <1>2, StepIsTurn
<1>3. UNCHANGED vars => Untouched /\ UNCHANGED globals
  BY DEF vars, Untouched, globals
<1>4. \A p : RejectedCall(p) => Untouched
  BY DEF RejectedCall, Rejected, Untouched
<1> QED
  BY <1>1, <1>2, <1>3, <1>4 DEF Next, Load

(* What PB2_GET_INFO has found, of the heap of its own entry.              *)
InfoHeld ==
  \A p \in Pids : pc[p] \in {"empty_info", "copy_info"} =>
    LET h == heaps[nodes[entry].global_heap]
    IN  /\ heap.heap_size = h.count
        /\ pc[p] = "empty_info" => h.count = 0
        /\ pc[p] = "copy_info" => /\ heap.last_inserted = h.last_inserted
                                  /\ h.count # 0 => heap.root = Top(h)

LEMMA StepKeepsInfo ==
  ASSUME TakeTurns, A2Types(AnyType), A2Types(AnyType)', MutexInv, TableInv, UsesOwnHeap, InfoHeld, StillGood,
         [Next]_vars
  PROVE  InfoHeld'
<1> USE DEF A2Types
<1>0. DOMAIN pc = Pids
  BY DEF DeviceTypes, CallsOK
<1>1. ASSUME NEW p \in Pids, AloneStep(p), (NewCall(p) /\ UNCHANGED globals) \/ Step(p)
      PROVE  InfoHeld'
  <2>1. \A q \in Pids : q # p => pc'[q] = "idle"
    BY <1>1, StepIsAlone
  <2> SUFFICES ASSUME pc'[p] \in {"empty_info", "copy_info"}
               PROVE  LET h == heaps'[nodes'[entry'].global_heap]
                      IN  /\ heap'.heap_size = h.count
                          /\ pc'[p] = "empty_info" => h.count = 0
                          /\ pc'[p] = "copy_info" => /\ heap'.last_inserted = h.last_inserted
                                                     /\ h.count # 0 => heap'.root = Top(h)
    BY <2>1 DEF InfoHeld
  <2>2. GetInfo(p) \/ GetInfoEmpty(p)
    <3>1. ~ AnyCall(p) /\ ~ TableStep(p) /\ ~ SetUpStep(p)
      BY <1>0 DEF AnyCall, Call, ReleaseCall, TableStep, Walk, OpenAllocates, NotFound, OpenBusy, OpenLocks, KeyAdd,
         ReleaseBusy, ReleaseLocks, KeyDel, KeyDelClear, KeyDelFree, KeyDelNone, PrintKeyUnlock, Return, Goto,
         SetUpStep, InitCreates, InitCreatesAgain, InitDestroys, InitStores, CreateHeap
    <3>2. ~ NewCall(p)
      BY <3>1 DEF NewCall, DeviceCall, OpenCall, ReadCall, WriteKeyCall, WriteInitCall, WriteOtherCall, SetTypeCall, InsertCall,
                  GetInfoCall, ExtractCall, AnyCall
    <3>3. ~ InitAccepted(p)
      BY <3>1 DEF InitAccepted, SetUpStep
    <3>4. ~ DeviceStep(p)
      BY <1>0, <3>1
         DEF DeviceStep, TableStep, OpenTwice, Insert, InsertFull, HeapifyBottomTop, InsertReturns,
             HeapifyTopBottom, NoEntry, ReadUnset, ReadEmpty, ReadPops, PopMin, ReadSetsTopnode, CopyToUser,
             ReadReturns, Return, Goto
    <3> QED
      BY <1>0, <1>1, <3>2, <3>3, <3>4
         DEF Step, InitRefused, WriteKey, WriteRefused, WriteInit, SetType, CopyArgs, Unset, InsertByIoctl, CopyNum,
             CopyInfo, ArgsNotCopied, NumNotCopied, InfoNotCopied, Extract, PopMin, ExtractEmpty, ExtractSize,
             ExtractReturns, Return, Goto
  <2>3. CASE GetInfo(p)
    <3> DEFINE h == heaps[OwnHeap(p)]
    <3>1. /\ nodes' = nodes /\ heaps' = heaps /\ entry' = loc[p].cur
          /\ h = heaps'[nodes'[entry'].global_heap]
      BY <2>3 DEF GetInfo, OwnHeap
    <3>2. CASE h.count # 0
      <4>1. /\ heap' = [heap_size |-> h.count, heap_type |-> pb2_args.heap_type,
                        root |-> Top(h), last_inserted |-> h.last_inserted]
            /\ pc'[p] = "copy_info"
        BY <1>0, <2>3, <3>2 DEF GetInfo, Goto
      <4> HIDE DEF h, Top
      <4> QED
        BY <3>1, <4>1
    <3>3. CASE h.count = 0
      <4>1. /\ heap' = [heap EXCEPT !.heap_size = 0, !.heap_type = pb2_args.heap_type]
            /\ pc'[p] = "empty_info"
        BY <1>0, <2>3, <3>3 DEF GetInfo, Goto
      <4>2. heap'.heap_size = 0
        BY <4>1 DEF ArgumentsOK, BuffersOK
      <4> HIDE DEF h
      <4> QED
        BY <3>1, <3>3, <4>1, <4>2
    <3> QED
      BY <3>2, <3>3
  <2>4. CASE GetInfoEmpty(p)
    <3>1. /\ nodes' = nodes /\ heaps' = heaps /\ entry' = entry /\ pc[p] = "empty_info"
          /\ pc'[p] = "copy_info" /\ entry \in DOMAIN nodes
          /\ heap' = [heap EXCEPT !.root = 0, !.last_inserted = heaps[HeapOfEntry].last_inserted]
      BY <1>0, <2>4 DEF GetInfoEmpty, Goto, UsesOwnHeap, UseLabels, Listed
    <3> DEFINE h == heaps[nodes[entry].global_heap]
    <3>2. HeapOfEntry = nodes[entry].global_heap
      BY <3>1 DEF HeapOfEntry
    <3>3. heap'.heap_size = heap.heap_size /\ heap'.last_inserted = h.last_inserted
      BY <3>1, <3>2 DEF ArgumentsOK, BuffersOK
    <3>4. heap.heap_size = h.count /\ h.count = 0
      BY <3>1 DEF InfoHeld
    <3> QED
      BY <3>1, <3>3, <3>4
  <2> QED
    BY <2>2, <2>3, <2>4
<1>2. CASE HelloExit \/ HelloInit
  <2>1. \A p \in Pids : pc'[p] = "idle"
    BY <1>2, LoadingMovesList DEF HelloExit, HelloInit, Quiet, Idle, MutexInv
  <2> QED
    BY <2>1 DEF InfoHeld
<1>3. CASE Untouched /\ UNCHANGED globals
  BY <1>3 DEF Untouched, globals, InfoHeld
<1> QED
  BY <1>1, <1>2, <1>3, NextIsTurn

LEMMA TypesAreInts == Keys \subseteq Int /\ AnyType \subseteq Int
BY ArgumentsAre DEF AnyType, GoodTypes, MIN_HEAP, MAX_HEAP

LEMMA A2AloneInvariant ==
  ASSUME TakeTurns
  PROVE  Spec => [](/\ A2Types(AnyType) /\ MutexInv /\ TableInv /\ OwnerInv /\ TurnsInv
                    /\ AloneInv /\ InfoHeld)
<1> DEFINE Base == A2Types(AnyType) /\ MutexInv /\ TableInv /\ OwnerInv /\ TurnsInv /\ StillGood
           Both == AloneInv /\ InfoHeld
<1>1. A2Init => Both
  <2> SUFFICES ASSUME A2Init PROVE Both
    OBVIOUS
  <2>1. DeviceTypes(Keys, AnyType) /\ Init
    BY InitHasTypes DEF A2Init, A2Types
  <2>2. Listed = {}
    BY <2>1, InitTable
  <2>3. InfoHeld
    BY <2>1 DEF Init, InfoHeld
  <2> QED
    BY <2>1, <2>2, <2>3, InitAlone
<1>2. Base /\ Base' /\ [Next]_vars /\ Both => Both'
  <2> SUFFICES ASSUME Base, Base', [Next]_vars, Both
               PROVE  Both'
    OBVIOUS
  <2>1. DeviceTypes(Keys, AnyType) /\ DeviceTypes(Keys, AnyType)'
    BY DEF A2Types
  <2>2. (\E p \in Pids : AloneStep(p)) \/ HelloExit \/ HelloInit \/ Untouched
    BY NextIsTurn
  <2>3. Keys \subseteq Int /\ AnyType \subseteq Int
    BY TypesAreInts
  <2>4. AloneInv'
    BY <2>1, <2>2, <2>3, StepKeepsAlone
  <2>5. InfoHeld'
    BY StepKeepsInfo DEF AloneInv
  <2> QED
    BY <2>4, <2>5
<1>3. Spec => []Base
  <2>1. SetUpsApart
    BY DEF TakeTurns, SetUpsApart
  <2> QED
    BY <2>1, A2TurnsInvariant, A2GoodInvariant, PTL DEF Base
<1>4. Base /\ Both => /\ A2Types(AnyType) /\ MutexInv /\ TableInv /\ OwnerInv /\ TurnsInv
                      /\ AloneInv /\ InfoHeld
  OBVIOUS
<1> HIDE DEF Base, Both
<1> QED
  BY <1>1, <1>2, <1>3, <1>4, PTL DEF Spec

(* As in module A1; and no ioctl loses the heap that it loads again from   *)
(* the global entry, or takes what DestroyHeap returned for a heap.        *)
THEOREM A2NoFault ==
  ASSUME TakeTurns, NodesSuffice
  PROVE  Spec => []NoFault
<1> DEFINE Inv == A2Types(AnyType) /\ MutexInv /\ TableInv /\ OwnerInv /\ TurnsInv /\ AloneInv
<1>1. Inv => NoFault
  <2>1. Keys \subseteq Int /\ AnyType \subseteq Int
    BY TypesAreInts
  <2>2. ASSUME Inv, NEW p \in Pids
        PROVE  ~ DeviceFault(p) /\ ~ SetUpFault(p) /\ ~ Spins(p) /\ ~ IoctlFault(p)
    <3>1. DeviceTypes(Keys, AnyType)
      BY <2>2 DEF A2Types
    <3>2. ~ DeviceFault(p) /\ ~ SetUpFault(p) /\ ~ Spins(p)
      BY <2>1, <2>2, <3>1, AloneIsSafe
    <3>3. Found(p) /\ OwnHeap(p) # Null => InBounds(OwnHeap(p))
      <4>1. Found(p) => OwnHeap(p) \in DOMAIN heaps \cup {Null}
        BY <2>2, <3>1, OwnHeapIs
      <4>2. \A h \in DOMAIN heaps : InBounds(h)
        BY <2>2 DEF AloneInv, HeapsWork, InBounds
      <4> QED
        BY <4>1, <4>2
    <3>4. pc[p] \in UseLabels => HeapOfEntry \in DOMAIN heaps
      BY <2>2 DEF AloneInv, UsesOwnHeap, Listed, HeapOfEntry
    <3>5. ~ IoctlFault(p)
      BY <3>3, <3>4 DEF IoctlFault, FoundFor, Popped, UseLabels
    <3> QED
      BY <3>2, <3>5
  <2> QED
    BY <2>2 DEF NoFault, Fault
<1> QED
  BY <1>1, A2AloneInvariant, PTL

(* PB2_GET_INFO, which fills in its struct from the heap's size and root,  *)
(* describes the whole heap of the caller: no key of the heap precedes the *)
(* root that it reports, in the heap's own order.                          *)
THEOREM A2InfoTellsHeap ==
  ASSUME TakeTurns
  PROVE  Spec => []InfoTellsHeap
<1> DEFINE Inv == A2Types(AnyType) /\ MutexInv /\ TableInv /\ OwnerInv /\ TurnsInv /\ AloneInv /\ InfoHeld
<1>1. Inv => InfoTellsHeap
  <2> SUFFICES ASSUME Inv, NEW p \in Pids, pc[p] = "copy_info"
               PROVE  LET h == OwnHeapNow(p)
                      IN  /\ heap.heap_size = h.count
                          /\ heap.last_inserted = h.last_inserted
                          /\ \A i \in 0 .. h.count - 1 : ~ OutOfOrder(h.heap_type, heap.root, h.arr[i])
    BY DEF InfoTellsHeap
  <2> DEFINE g == nodes[entry].global_heap
             h == heaps[g]
             m == h.capacity - 1
  <2>1. /\ entry \in Listed /\ nodes[entry].key = p
        /\ g \in DOMAIN heaps
    BY DEF AloneInv, UsesOwnHeap, UseLabels
  <2>2. h = OwnHeapNow(p)
    <3>1. \A n \in Listed : nodes[n].key = p => n = entry
      BY <2>1 DEF AloneInv, OneEntry
    <3> QED
      BY <2>1, <3>1 DEF OwnHeapNow
  <2>3. /\ heap.heap_size = h.count /\ heap.last_inserted = h.last_inserted
        /\ h.count # 0 => heap.root = h.arr[0]
    BY DEF InfoHeld, Top
  <2>4. Ordered(h.heap_type, h.arr, h.count)
    <3>1. \A q \in Pids : q # p => pc[q] = "idle"
      BY OthersAreIdle DEF Idle
    <3>2. ~ Sifted(g)
      BY <3>1 DEF Sifted
    <3> QED
      BY <2>1, <3>2 DEF AloneInv, HeapsWork
  <2>5. \A i \in 0 .. h.count - 1 : ~ OutOfOrder(h.heap_type, h.arr[0], h.arr[i])
    <3>1. /\ h.capacity \in Nat /\ m \in Nat /\ h.count \in 0 .. h.capacity
          /\ h.arr \in [0 .. m -> Int] /\ h.heap_type \in Int
      BY <2>1, TypesAreInts, HeapIs DEF A2Types, DeviceTypes, AloneInv
    <3>2. h.count \in 0 .. m + 1
      BY <3>1
    <3> HIDE DEF h, m
    <3> QED
      BY <2>4, <3>1, <3>2, RootIsExtremum DEF Ordered
  <2>6. ASSUME NEW i \in 0 .. h.count - 1
        PROVE  ~ OutOfOrder(h.heap_type, heap.root, h.arr[i])
    <3>1. h.count # 0
      OBVIOUS
    <3> QED
      BY <2>3, <2>5, <3>1
  <2> HIDE DEF h
  <2> QED
    BY <2>2, <2>3, <2>6
<1> QED
  BY <1>1, A2AloneInvariant, PTL

-----------------------------------------------------------------------------

(* The calls that insert, and the keys that may be written to a heap.      *)
InsertOps == {"write2", "write4", "PB2_INSERT"}
AllKeys == [p \in Pids |-> Keys]

(* What a call of p has established before each of its steps, when nobody  *)
(* calls dev_read.                                                         *)
CallKept(p) ==
  /\ pc[p] \notin {"copy", "check"}
  /\ pc[p] = "walk" => /\ loc[p].heap = Null /\ loc[p].op # "read"
                       /\ loc[p].op # "open" => files[p] > 0
                       /\ loc[p].op = "write2" => <<loc[p].a, loc[p].b>> \in BytesOf[p]
                       /\ loc[p].op = "PB2_EXTRACT" /\ CopyFails(p) => p \in BadBuffers
  /\ pc[p] \in {"walk", "copy_args"} /\ loc[p].op = "PB2_SET_TYPE" =>
       <<loc[p].a, loc[p].b>> \in TypesOf[p]
  /\ pc[p] \in {"insert", "up"} => loc[p].op \in InsertOps
  /\ pc[p] = "insert" => num \in Keys
  /\ pc[p] \in {"down", "extracted", "copy_result"} =>
       loc[p].op = "PB2_EXTRACT" /\ (CopyFails(p) => p \in BadBuffers)
  /\ pc[p] \in {"down", "copy_result"} /\ loc[p].heap # Null => loc[p].val \in Keys
  /\ pc[p] = "down" => loc[p].heap # Null
  /\ pc[p] = "extracted" => loc[p].heap = Null
  /\ pc[p] \in {"extracted", "copy_result"} /\ loc[p].heap = Null =>
       loc[p].val = EmptyPop /\ heaps[nodes[entry].global_heap].count = 0
  /\ pc[p] \in {"empty_info", "copy_info"} => loc[p].op = "PB2_GET_INFO"
  /\ pc[p] = "init" \/ SettingUp(p) =>
       <<TypeGiven(p), SizeGiven(p)>> \in IF ByIoctl(p) THEN TypesOf[p] ELSE BytesOf[p]
  /\ SettingUp(p) => GoodInit(p)
  /\ pc[p] = "init_store" =>
       LET h == loc[p].heap
       IN  /\ h \in DOMAIN heaps
           /\ heaps[h].count = 0 /\ heaps[h].capacity = SizeGiven(p) /\ heaps[h].heap_type = TypeGiven(p)

(* The steps of calls on an entry that the walk has found.                 *)
Involved == {"walk", "copy_args", "insert", "up", "down", "extracted", "copy_result", "empty_info", "copy_info",
             "copy", "check", "init", "init_again", "init_store"}

(* The inductive invariant of the refinement.                              *)
A2Inv ==
  /\ A2Types(AnyType) /\ MutexInv /\ SerialInv /\ TurnsInv
  /\ \A p \in Pids : CallKept(p)
  /\ KeysHeld(AllKeys)

(* What the invariant says, for one process.                               *)
LEMMA A2Facts ==
  ASSUME A2Inv
  PROVE  /\ Keys \subseteq Int /\ AnyType \subseteq Int /\ DeviceTypes(Keys, AnyType) /\ StillGood
         /\ DOMAIN pc = Pids /\ DOMAIN loc = Pids
         /\ \A p \in Pids : DOMAIN loc[p] = {"op", "a", "b", "cur", "heap", "idx", "val"}
         /\ \A p \in Pids : AllKeys[p] = Keys
<1>1. Keys \subseteq Int /\ AnyType \subseteq Int /\ DeviceTypes(Keys, AnyType)
  BY TypesAreInts DEF A2Inv, A2Types
<1>2. StillGood
  BY DEF A2Inv, StillGood, CallKept, SettingUp
<1> QED
  BY <1>1, <1>2 DEF DeviceTypes, CallsOK, Calls, AllKeys

(* A new call.                                                             *)
LEMMA CallIsKept ==
  ASSUME "read" \notin Ops, A2Inv, NEW p \in Pids, NewCall(p)
  PROVE  /\ CallKept(p)'
         /\ pc'[p] \in {"walk", "del_trylock"} /\ ret' = NoAnswer
<1>0. DOMAIN pc = Pids /\ DOMAIN loc = Pids
  BY A2Facts
<1>1. CASE ReleaseCall(p)
  <2>1. pc'[p] = "del_trylock" /\ ret' = NoAnswer
    BY <1>0, <1>1 DEF ReleaseCall, Goto
  <2> QED
    BY <2>1 DEF CallKept, SettingUp
<1>2. ASSUME NEW op, NEW a, NEW b, Call(p, op, a, b), op # "open" => files[p] > 0,
             op = "write2" => <<a, b>> \in BytesOf[p], op = "PB2_SET_TYPE" => <<a, b>> \in TypesOf[p],
             op = "PB2_EXTRACT" => a \in Buffers(p)
      PROVE  CallKept(p)' /\ pc'[p] = "walk" /\ ret' = NoAnswer
  <2>1. pc'[p] = "walk" /\ ret' = NoAnswer /\ files' = files
        /\ loc'[p].heap = Null /\ loc'[p].op = op /\ loc'[p].a = a /\ loc'[p].b = b
    BY <1>0, <1>2 DEF Call, Goto, NoCall
  <2>2. op # "read"
    BY <1>2 DEF Call, MayCall
  <2>3. op = "PB2_EXTRACT" /\ CopyFails(p)' => p \in BadBuffers
    BY <1>2, <2>1 DEF CopyFails, Buffers, GoodBuffer, BadBuffer
  <2> QED
    BY <1>2, <2>1, <2>2, <2>3 DEF CallKept, SettingUp
<1>3. CASE OpenCall(p)
  BY <1>2, <1>3 DEF OpenCall
<1>4. CASE ReadCall(p)
  BY <1>2, <1>4 DEF ReadCall
<1>5. ASSUME NEW key \in KeysOf[p], WriteKeyCall(p, key) \/ InsertCall(p, key)
      PROVE  CallKept(p)' /\ pc'[p] = "walk" /\ ret' = NoAnswer
  BY <1>2, <1>5 DEF WriteKeyCall, InsertCall
<1>6. ASSUME NEW two \in BytesOf[p], WriteInitCall(p, two[1], two[2])
      PROVE  CallKept(p)' /\ pc'[p] = "walk" /\ ret' = NoAnswer
  <2>1. <<two[1], two[2]>> = two
    BY ArgumentsAreNumbers
  <2> QED
    BY <1>2, <1>6, <2>1 DEF WriteInitCall
<1>7. ASSUME NEW two \in TypesOf[p], SetTypeCall(p, two[1], two[2])
      PROVE  CallKept(p)' /\ pc'[p] = "walk" /\ ret' = NoAnswer
  <2>1. <<two[1], two[2]>> = two
    BY ArgumentsAreNumbers
  <2> QED
    BY <1>2, <1>7, <2>1 DEF SetTypeCall
<1>8. CASE GetInfoCall(p)
  BY <1>2, <1>8 DEF GetInfoCall
<1>9. CASE ExtractCall(p)
  BY <1>2, <1>9 DEF ExtractCall
<1>10. CASE WriteOtherCall(p)
  BY <1>2, <1>10 DEF WriteOtherCall
<1> QED
  BY <1>1, <1>3, <1>4, <1>5, <1>6, <1>7, <1>8, <1>9, <1>10 DEF NewCall, DeviceCall

(* What CallKept says of p depends on what does not change between steps.  *)
LEMMA SetUpIsKept ==
  ASSUME HeapsSuffice, TakeTurns, A2Inv, A2Types(AnyType)', SerialInv', NEW p \in Pids,
         InitAccepted(p), UNCHANGED globals
  PROVE  CallKept(p)'
<1> USE DEF SerialInv
<1>0. /\ DOMAIN pc = Pids /\ DOMAIN loc = Pids /\ DeviceTypes(Keys, AnyType)
      /\ DOMAIN loc[p] = {"op", "a", "b", "cur", "heap", "idx", "val"}
      /\ SerialInv /\ CallKept(p) /\ OwnerInv /\ TurnsInv /\ Null \notin DOMAIN heaps /\ HeapIds \in SUBSET Nat
  BY A2Facts, IdsAreNaturals DEF A2Inv, DeviceTypes, HeapsOK
<1>1. UNCHANGED <<heap_type, heap_size, pb2_args>>
  BY DEF globals
<1>2. ASSUME loc'[p].op = loc[p].op
      PROVE  /\ TypeGiven(p)' = TypeGiven(p) /\ SizeGiven(p)' = SizeGiven(p)
             /\ ByIoctl(p)' = ByIoctl(p) /\ GoodInit(p)' = GoodInit(p)
  BY <1>1, <1>2 DEF TypeGiven, SizeGiven, ByIoctl, GoodInit
<1>3. CASE GoodInit(p) /\ InitDestroys(p)
  <2>1. pc[p] = "init" /\ pc'[p] = "init_again" /\ loc'[p].op = loc[p].op
    BY <1>0, <1>3 DEF InitDestroys, Goto
  <2>2. /\ TypeGiven(p)' = TypeGiven(p) /\ SizeGiven(p)' = SizeGiven(p)
        /\ ByIoctl(p)' = ByIoctl(p) /\ GoodInit(p)'
        /\ <<TypeGiven(p), SizeGiven(p)>> \in IF ByIoctl(p) THEN TypesOf[p] ELSE BytesOf[p]
    BY <1>0, <1>2, <1>3, <2>1 DEF CallKept
  <2> HIDE DEF TypeGiven, SizeGiven, GoodInit, ByIoctl
  <2> QED
    BY <2>1, <2>2 DEF CallKept, SettingUp
<1>4. ASSUME NEW size, NEW type, size = SizeGiven(p), type = TypeGiven(p), GoodInit(p),
             InitCreates(p, size, type) \/ InitCreatesAgain(p, size, type)
      PROVE  CallKept(p)'
  <2> DEFINE h == Kmalloc(HeapIds, DOMAIN heaps)
  <2>1. pc[p] \in {"init", "init_again"} /\ nodes[entry].global_heap \notin DOMAIN heaps
    <3>1. CASE InitCreates(p, size, type)
      BY <1>0, <3>1 DEF InitCreates
    <3>2. CASE InitCreatesAgain(p, size, type)
      <4>1. pc[p] = "init_again" /\ entry \in Listed
        BY <1>0, <3>2 DEF InitCreatesAgain, OwnerInv, SetUpEntry, SetUpLabels
      <4> QED
        BY <1>0, <4>1 DEF OwnerInv, PtrInv, HeapPtrs, Replacing
    <3> QED
      BY <1>4, <3>1, <3>2
  <2>2. ~ (HeapIds \subseteq DOMAIN heaps)
    BY <1>0, <2>1, RoomForHeap
  <2>3. h \in HeapIds
    BY <1>0, <2>2, KmallocFresh
  <2>4. h # Null
    BY <2>3, IdsAreNaturals
  <2>5. heaps' = With(heaps, h, NewHeap(size, type)) /\ loc'[p].heap = h /\ pc'[p] = "init_store"
        /\ loc'[p].op = loc[p].op
    BY <1>0, <1>4, <2>4 DEF InitCreates, InitCreatesAgain, CreateHeap, Goto
  <2> HIDE DEF h
  <2>6. h \in DOMAIN heaps' /\ heaps'[h] = NewHeap(size, type)
    BY <2>5 DEF With
  <2>7. heaps'[h].count = 0 /\ heaps'[h].capacity = size /\ heaps'[h].heap_type = type
    BY <2>6 DEF NewHeap
  <2>8. /\ TypeGiven(p)' = TypeGiven(p) /\ SizeGiven(p)' = SizeGiven(p)
        /\ ByIoctl(p)' = ByIoctl(p) /\ GoodInit(p)'
        /\ <<TypeGiven(p), SizeGiven(p)>> \in IF ByIoctl(p) THEN TypesOf[p] ELSE BytesOf[p]
    BY <1>0, <1>2, <1>4, <2>1, <2>5 DEF CallKept, SettingUp
  <2> HIDE DEF TypeGiven, SizeGiven, GoodInit, ByIoctl
  <2> QED
    BY <1>4, <2>5, <2>6, <2>7, <2>8 DEF CallKept, SettingUp
<1>5. CASE InitStores(p)
  <2>1. pc'[p] = "idle"
    BY <1>0, <1>5 DEF InitStores, Return, Goto
  <2> QED
    BY <2>1 DEF CallKept, SettingUp
<1>6. CASE InitCreatesAgain(p, SizeGiven(p), TypeGiven(p))
  <2>1. GoodInit(p)
    BY <1>0, <1>6 DEF CallKept, SettingUp, InitCreatesAgain
  <2> HIDE DEF TypeGiven, SizeGiven
  <2> QED
    BY <1>4, <1>6, <2>1
<1>7. CASE GoodInit(p) /\ InitCreates(p, SizeGiven(p), TypeGiven(p))
  <2> HIDE DEF TypeGiven, SizeGiven
  <2> QED
    BY <1>4, <1>7
<1> QED
  BY <1>3, <1>5, <1>6, <1>7 DEF InitAccepted

(* Every other step of a call keeps what it has established.               *)
LEMMA StepIsKept ==
  ASSUME TakeTurns, HeapsSuffice, A2Inv, A2Types(AnyType)', SerialInv', NEW p \in Pids, Step(p)
  PROVE  CallKept(p)'
<1> USE DEF SerialInv
<1>0. /\ DOMAIN pc = Pids /\ DOMAIN loc = Pids
      /\ DeviceTypes(Keys, AnyType) /\ DeviceTypes(Keys, AnyType)'
      /\ DOMAIN loc[p] = {"op", "a", "b", "cur", "heap", "idx", "val"}
      /\ MutexInv /\ SerialInv /\ CallKept(p) /\ ArgumentsOK /\ KeysHeld(AllKeys)
      /\ Keys \subseteq Int /\ AnyType \subseteq Int /\ TurnsInv /\ AloneStep(p)
      /\ Null \notin DOMAIN heaps /\ AllKeys[p] = Keys
  BY A2Facts, StepIsTurn, IdsAreNaturals DEF A2Inv, A2Types, DeviceTypes, HeapsOK
<1> HIDE DEF SerialInv
<1>1. CASE pc'[p] \notin Involved
  BY <1>1 DEF CallKept, Involved, SettingUp
<1>2. CASE Walk(p)
  BY <1>0, <1>2 DEF Walk, CallKept, CopyFails, SettingUp
<1>3. CASE Insert(p)
  <2>1. pc[p] = "insert" /\ pc'[p] = "up" /\ loc'[p].op = loc[p].op
    BY <1>0, <1>3 DEF Insert, Goto
  <2> QED
    BY <1>0, <2>1 DEF CallKept, SettingUp
<1>4. CASE HeapifyBottomTop(p) \/ HeapifyTopBottom(p)
  <2>1. pc' = pc /\ pc[p] \in {"up", "down"} /\ loc'[p].op = loc[p].op /\ loc'[p].heap = loc[p].heap
        /\ loc'[p].val = loc[p].val /\ loc'[p].a = loc[p].a
    <3> HIDE DEF Sink, Parent
    <3> QED
      BY <1>0, <1>4 DEF HeapifyBottomTop, HeapifyTopBottom
  <2> QED
    BY <1>0, <2>1 DEF CallKept, CopyFails, SettingUp
<1>5. CASE Extract(p)
  <2>1. PopsOwn(p) /\ nodes' = nodes /\ loc'[p].op = "PB2_EXTRACT" /\ pc'[p] = "down"
    BY <1>0, <1>5 DEF Extract, FoundFor, PopsOwn, PopMin, Goto
  <2>2. loc'[p].heap # Null
    BY <1>0, <1>5 DEF Extract, PopMin, InBounds
  <2>3. HeapsHold(AllKeys)
    BY <1>0, HeldIsHold
  <2>4. loc'[p].val \in Keys
    BY <1>0, <2>1, <2>3, PopShrinks
  <2>5. loc'[p].a = loc[p].a /\ pc[p] = "walk" /\ loc[p].op = "PB2_EXTRACT"
    BY <1>0, <1>5 DEF Extract, PopMin, FoundFor, Found
  <2> QED
    BY <1>0, <2>1, <2>2, <2>4, <2>5 DEF CallKept, CopyFails, SettingUp
<1>6. CASE ExtractEmpty(p)
  <2>1. /\ pc'[p] = "extracted" /\ loc'[p].val = EmptyPop /\ loc'[p].heap = loc[p].heap /\ pc[p] = "walk"
        /\ loc'[p].op = "PB2_EXTRACT" /\ entry' = loc[p].cur
        /\ heaps' = heaps /\ nodes' = nodes /\ heaps[nodes[loc[p].cur].global_heap].count = 0
        /\ loc'[p].a = loc[p].a /\ loc[p].op = "PB2_EXTRACT"
    BY <1>0, <1>6 DEF ExtractEmpty, FoundFor, Found, Goto, OwnHeap
  <2> QED
    BY <1>0, <2>1 DEF CallKept, CopyFails, SettingUp
<1>7. CASE ExtractSize(p)
  <2>1. /\ pc'[p] = "copy_result" /\ pc[p] \in {"down", "extracted"} /\ UNCHANGED <<entry, heaps, nodes>>
        /\ loc'[p].op = loc[p].op /\ loc'[p].heap = loc[p].heap /\ loc'[p].val = loc[p].val
        /\ loc'[p].a = loc[p].a
    BY <1>0, <1>7 DEF ExtractSize, Popped, Goto
  <2> QED
    BY <1>0, <2>1 DEF CallKept, CopyFails, SettingUp
<1>8. CASE WriteKey(p)
  <2>1. /\ pc'[p] = "insert" /\ pc[p] = "walk" /\ loc' = loc /\ loc[p].op \in {"write2", "write4"}
        /\ num' = IF loc[p].op = "write4" THEN loc[p].a ELSE TwoBytes(loc[p].a, loc[p].b)
    BY <1>0, <1>8 DEF WriteKey, Found, Goto
  <2>2. num' \in Keys
    <3> HIDE DEF TwoBytes
    <3> QED
      BY <1>0, <2>1 DEF ArgumentsOK
  <2> QED
    BY <2>1, <2>2 DEF CallKept, SettingUp, InsertOps
<1>9. CASE InsertByIoctl(p)
  <2>1. pc'[p] = "copy_num"
    BY <1>0, <1>9 DEF InsertByIoctl, Goto
  <2> QED
    BY <1>1, <2>1 DEF Involved
<1>10. CASE CopyNum(p)
  <2>1. /\ pc'[p] = "insert" /\ pc[p] = "copy_num" /\ loc' = loc /\ loc[p].op = "PB2_INSERT"
        /\ num' = loc[p].a /\ num' \in Keys
    BY <1>0, <1>10 DEF CopyNum, Goto, ArgumentsOK
  <2> QED
    BY <2>1 DEF CallKept, SettingUp, InsertOps
<1>11. CASE WriteInit(p)
  <2>1. /\ pc'[p] = "init" /\ pc[p] = "walk" /\ loc' = loc /\ loc[p].op = "write2"
        /\ heap_type' = loc[p].a /\ heap_size' = loc[p].b
    BY <1>0, <1>11 DEF WriteInit, FoundFor, Found, Goto
  <2>2. <<loc[p].a, loc[p].b>> \in BytesOf[p]
    BY <1>0, <2>1 DEF CallKept
  <2> QED
    BY <2>1, <2>2 DEF CallKept, SettingUp, TypeGiven, SizeGiven, ByIoctl
<1>12. CASE SetType(p)
  <2>1. pc'[p] = "copy_args" /\ pc[p] = "walk" /\ loc' = loc
    BY <1>0, <1>12 DEF SetType, FoundFor, Found, Goto
  <2> QED
    BY <1>0, <2>1 DEF CallKept, SettingUp
<1>13. CASE CopyArgs(p)
  <2>1. /\ pc'[p] = "init" /\ pc[p] = "copy_args" /\ loc' = loc /\ loc[p].op = "PB2_SET_TYPE"
        /\ pb2_args' = [heap_size |-> loc[p].b, heap_type |-> loc[p].a]
    BY <1>0, <1>13 DEF CopyArgs, Goto, ArgumentsOK
  <2>2. <<loc[p].a, loc[p].b>> \in TypesOf[p]
    BY <1>0, <2>1 DEF CallKept
  <2> QED
    BY <2>1, <2>2 DEF CallKept, SettingUp, TypeGiven, SizeGiven, ByIoctl
<1>14. CASE GetInfo(p)
  <2>1. pc'[p] \in {"copy_info", "empty_info"} /\ loc' = loc /\ loc[p].op = "PB2_GET_INFO"
    BY <1>0, <1>14 DEF GetInfo, FoundFor, Goto
  <2> QED
    BY <2>1 DEF CallKept, SettingUp
<1>15. CASE GetInfoEmpty(p)
  <2>1. pc'[p] = "copy_info" /\ pc[p] = "empty_info" /\ loc' = loc
    BY <1>0, <1>15 DEF GetInfoEmpty, Goto
  <2> QED
    BY <1>0, <2>1 DEF CallKept, SettingUp
<1>16. CASE InitAccepted(p) /\ UNCHANGED globals
  BY <1>16, SetUpIsKept
<1>17. ~ ReadPops(p) /\ ~ ReadEmpty(p) /\ ~ ReadUnset(p) /\ ~ ReadSetsTopnode(p) /\ ~ CopyToUser(p)
       /\ ~ ReadReturns(p)
  BY <1>0 DEF CallKept, ReadPops, ReadEmpty, ReadUnset, ReadSetsTopnode, CopyToUser, ReadReturns, Found, Popped
<1>18. \A v : Return(p, v) => pc'[p] = "idle"
  BY <1>0 DEF Return, Goto
<1>19. CASE WriteRefused(p) \/ InitRefused(p) \/ OpenTwice(p) \/ OpenBusy(p) \/ ReleaseBusy(p)
            \/ PrintKeyUnlock(p) \/ InsertFull(p) \/ InsertReturns(p) \/ NoEntry(p) \/ Unset(p) \/ CopyInfo(p)
            \/ ExtractReturns(p) \/ ArgsNotCopied(p) \/ NumNotCopied(p) \/ InfoNotCopied(p)
  <2> HIDE DEF Return, OwnHeap
  <2>1. \E v : Return(p, v)
    BY <1>19 DEF WriteRefused, InitRefused, OpenTwice, OpenBusy, ReleaseBusy,
     PrintKeyUnlock, InsertFull, InsertReturns, NoEntry, Unset, CopyInfo, ExtractReturns,
     ArgsNotCopied, NumNotCopied, InfoNotCopied
  <2> QED
    BY <1>1, <1>18, <2>1 DEF Involved
<1>20. CASE OpenAllocates(p) \/ OpenLocks(p) \/ KeyAdd(p) \/ ReleaseLocks(p) \/ KeyDel(p) \/ KeyDelClear(p)
            \/ KeyDelFree(p) \/ KeyDelNone(p)
  BY <1>0, <1>1, <1>20 DEF OpenAllocates, OpenLocks, KeyAdd, ReleaseLocks, KeyDel, KeyDelClear, KeyDelFree,
     KeyDelNone, Goto, Involved
<1> QED
  BY <1>2, <1>3, <1>4, <1>5, <1>6, <1>7, <1>8, <1>9, <1>10, <1>11, <1>12, <1>13, <1>14, <1>15, <1>16, <1>17,
     <1>19, <1>20 DEF Step, DeviceStep

(* Each step of A2 is one of the steps of a process that runs alone.       *)
LEMMA A2StepIsShared ==
  ASSUME A2Inv, NEW p \in Pids, (NewCall(p) /\ UNCHANGED globals) \/ Step(p)
  PROVE  AloneStep(p)
<1>1. A2Types(AnyType) /\ StillGood
  BY A2Facts DEF A2Inv
<1>2. NewCall(p) => AloneStep(p)
  BY DEF NewCall, DeviceCall, OpenCall, ReadCall, WriteKeyCall, WriteInitCall, WriteOtherCall, SetTypeCall, InsertCall,
         GetInfoCall, ExtractCall, AnyCall, AloneStep
<1> QED
  BY <1>1, <1>2, StepIsTurn

(* What the heaps hold was written to the module.                          *)
LEMMA A2StepKeepsHeld ==
  ASSUME TakeTurns, A2Inv, A2Types(AnyType)', SerialInv', NEW p \in Pids, AloneStep(p)
  PROVE  KeysHeld(AllKeys)'
<1>1. /\ Keys \subseteq Int /\ AnyType \subseteq Int
      /\ DeviceTypes(Keys, AnyType) /\ DeviceTypes(Keys, AnyType)'
      /\ MutexInv /\ SerialInv /\ CallKept(p) /\ KeysHeld(AllKeys)
      /\ \A q \in Pids : AllKeys[q] = Keys
  BY A2Facts DEF A2Inv, A2Types
<1>2. Insert(p) => num \in AllKeys[p]
  BY <1>1 DEF Insert, CallKept
<1>3. InitStores(p) => loc[p].heap \in DOMAIN heaps /\ heaps[loc[p].heap].count = 0
  BY <1>1 DEF InitStores, CallKept
<1>4. \A q \in Pids : AllKeys[q] \subseteq Int
  BY <1>1
<1> QED
  BY <1>1, <1>2, <1>3, <1>4, StepKeepsHeld

(* Steps that leave the heaps alone leave what they hold.                  *)
LEMMA SameKeysHeld ==
  ASSUME KeysHeld(AllKeys), \A p \in Pids : QueueOf(p, Int)' = QueueOf(p, Int)
  PROVE  KeysHeld(AllKeys)'
BY DEF KeysHeld, AllKeys, Keys

(* The invariant of the refinement.                                        *)
LEMMA A2CallInvariant ==
  ASSUME TakeTurns, HeapsSuffice, "read" \notin Ops
  PROVE  Spec => []A2Inv
<1> DEFINE Base == A2Types(AnyType) /\ MutexInv /\ SerialInv /\ TurnsInv
           Kept == (\A p \in Pids : CallKept(p)) /\ KeysHeld(AllKeys)
<1>1. A2Init => Kept
  <2> SUFFICES ASSUME A2Init PROVE Kept
    OBVIOUS
  <2>1. \A p \in Pids : pc[p] = "idle"
    BY DEF A2Init, Init
  <2>2. Listed = {}
    BY InitHasTypes, InitTable DEF A2Init, A2Types
  <2>3. \A p \in Pids : QueueOf(p, Int) = [bag |-> << >>]
    BY <2>2, NoQueueIs DEF NoneNone
  <2> QED
    BY <2>1, <2>3 DEF CallKept, SettingUp, KeysHeld
<1>2. Base /\ Base' /\ [Next]_vars /\ Kept => Kept'
  <2> SUFFICES ASSUME Base, Base', [Next]_vars, Kept
               PROVE  Kept'
    OBVIOUS
  <2>0. A2Inv /\ DeviceTypes(Keys, AnyType) /\ DeviceTypes(Keys, AnyType)'
    BY DEF A2Inv, A2Types
  <2>1. ASSUME NEW p \in Pids, (NewCall(p) /\ UNCHANGED globals) \/ Step(p)
        PROVE  Kept'
    <3>1. AloneStep(p)
      BY <2>0, <2>1, A2StepIsShared
    <3>2. KeysHeld(AllKeys)'
      BY <2>0, <3>1, A2StepKeepsHeld
    <3>3. CallKept(p)'
      BY <2>0, <2>1, CallIsKept, StepIsKept
    <3>4. \A q \in Pids : q # p => pc'[q] = "idle"
      BY <2>0, <3>1, StepIsAlone DEF SerialInv
    <3>5. \A q \in Pids : q # p => CallKept(q)'
      BY <3>4 DEF CallKept, SettingUp
    <3> QED
      BY <3>2, <3>3, <3>5
  <2>2. CASE Untouched /\ UNCHANGED globals
    <3>1. \A p \in Pids : QueueOf(p, Int)' = QueueOf(p, Int)
      BY <2>2, QueuesUnchanged
    <3>2. \A p \in Pids : CallKept(p)'
      BY <2>2 DEF Untouched, globals, CallKept, CopyFails, SettingUp, GoodInit, TypeGiven, SizeGiven, ByIoctl
    <3> QED
      BY <3>1, <3>2, SameKeysHeld
  <2>3. CASE HelloExit \/ HelloInit
    <3>1. Listed' = {} /\ Quiet
      BY <2>0, <2>3, LoadingMovesList DEF SerialInv
    <3>2. \A p \in Pids : QueueOf(p, Int)' = [bag |-> << >>]
      BY <3>1, NoQueueIsNext DEF NoneNone
    <3>3. \A p \in Pids : pc'[p] = "idle"
      BY <2>3, <3>1 DEF HelloExit, HelloInit, Quiet, Idle
    <3> QED
      BY <3>2, <3>3 DEF CallKept, SettingUp, KeysHeld
  <2>4. UNCHANGED vars => Untouched /\ UNCHANGED globals
    BY DEF vars, Untouched, globals
  <2>5. \A p : RejectedCall(p) => Untouched
    BY DEF RejectedCall, Rejected, Untouched
  <2> QED
    BY <2>1, <2>2, <2>3, <2>4, <2>5 DEF Next, Load
<1>3. Spec => []Base
  BY A2AloneInvariant, PTL DEF SerialInv
<1>4. Base /\ Kept => A2Inv
  BY DEF A2Inv
<1> HIDE DEF Base, Kept
<1> QED
  BY <1>1, <1>2, <1>3, <1>4, PTL DEF Spec

-----------------------------------------------------------------------------
(* What the promise sees of the module: while a set-up replaces the heap,  *)
(* the queue that it will make.                                            *)
QueueSeen(p) == IF SettingUp(p) THEN NewQueue(p) ELSE QueueOf(p, Keys)
Queues == [p \in Pids |-> QueueSeen(p)]
Answered == IF Quiet THEN [ret EXCEPT !.op = AbstractOp(@)]
            ELSE Answer(CHOOSE p \in Pids : ~ Idle(p))

(* A step that the promise does not see.                                   *)
SeenStays == Openers' = Openers /\ Queues' = Queues

(* The answer shown is that of the one call under way.                     *)
LEMMA AnsweredIs ==
  ASSUME NEW p \in Pids, ~ Idle(p), \A q \in Pids : q # p => Idle(q)
  PROVE  Answered = Answer(p)
<1>1. ~ Quiet
  BY DEF Quiet
<1>2. (CHOOSE q \in Pids : ~ Idle(q)) = p
  OBVIOUS
<1> QED
  BY <1>1, <1>2 DEF Answered

(* The same, closed, so that it also holds in the next state.              *)
AnswerOfOne == \A p \in Pids : ~ Idle(p) /\ (\A q \in Pids : q # p => Idle(q)) => Answered = Answer(p)

LEMMA AnswerIsOne == AnswerOfOne
BY AnsweredIs DEF AnswerOfOne

LEMMA AnswerIsOneNext == AnswerOfOne'
BY AnswerIsOne, PTL

(* The answer before and after a step of p.                                *)
LEMMA AnswersMove ==
  ASSUME TakeTurns, A2Inv, A2Inv', NEW p \in Pids, AloneStep(p)
  PROVE  /\ pc[p] # "idle" => Answered = Answer(p)
         /\ pc'[p] # "idle" => Answered' = Answer(p)'
         /\ \A v : Return(p, v) => Answered' = [pid |-> p, op |-> AbstractOp(loc[p].op), val |-> v]
<1>1. \A q \in Pids : q # p => Idle(q) /\ Idle(q)'
  <2>1. DeviceTypes(Keys, AnyType) /\ DeviceTypes(Keys, AnyType)' /\ MutexInv /\ TableInv
    BY DEF A2Inv, A2Types, SerialInv
  <2> QED
    BY <2>1, StepIsAlone DEF Idle
<1>2. pc[p] # "idle" => Answered = Answer(p)
  BY <1>1, AnswerIsOne DEF AnswerOfOne, Idle
<1>3. pc'[p] # "idle" => Answered' = Answer(p)'
  BY <1>1, AnswerIsOneNext DEF AnswerOfOne, Idle
<1>4. ASSUME NEW v, Return(p, v)
      PROVE  Answered' = [pid |-> p, op |-> AbstractOp(loc[p].op), val |-> v]
  <2>1. Quiet'
    BY <1>1, <1>4, A2Facts DEF Return, Goto, Quiet, Idle
  <2>2. ret' = [pid |-> p, op |-> loc[p].op, val |-> v]
    BY <1>4 DEF Return
  <2>3. Answered' = [ret' EXCEPT !.op = AbstractOp(@)]
    BY <2>1 DEF Answered, AbstractOp
  <2> QED
    BY <2>2, <2>3
<1> QED
  BY <1>2, <1>3, <1>4

(* The steps that change what the promise sees, but for those of set-ups.  *)
LEMMA SeenMoves ==
  ASSUME TakeTurns, A2Inv, A2Inv', NEW p \in Pids, AloneStep(p)
  PROVE  /\ Queues = [q \in Pids |-> Queues[q]] /\ Queues' = [q \in Pids |-> Queues'[q]]
         /\ Queues[p] = QueueSeen(p) /\ Queues'[p] = QueueSeen(p)'
         /\ ~ SettingUp(p) => Queues[p] = QueueOf(p, Keys)
         /\ ~ SettingUp(p)' => Queues'[p] = QueueOf(p, Keys)'
         /\ \A q \in Pids : q # p => Queues'[q] = Queues[q]
         /\ KeyAdd(p) => p \notin Openers /\ Openers' = Openers \cup {p} /\ Queues' = Queues
         /\ KeyDel(p) => /\ p \in Openers /\ Openers' = Openers \ {p}
                         /\ Queues' = [Queues EXCEPT ![p] = [bag |-> << >>]]
         /\ ~ KeyAdd(p) /\ ~ KeyDel(p) => Openers' = Openers
         /\ ~ KeyAdd(p) /\ ~ ChangesQueue(p) /\ ~ SettingUp(p) /\ ~ SettingUp(p)' => SeenStays
<1>0. /\ Keys \subseteq Int /\ AnyType \subseteq Int /\ DeviceTypes(Keys, AnyType) /\ DeviceTypes(Keys, AnyType)'
      /\ MutexInv /\ SerialInv /\ SerialInv' /\ TableInv /\ DOMAIN pc = Pids
  BY A2Facts DEF A2Inv, A2Types, SerialInv
<1>1. Queues = [q \in Pids |-> Queues[q]] /\ Queues' = [q \in Pids |-> Queues'[q]]
      /\ \A q \in Pids : Queues[q] = QueueSeen(q) /\ Queues'[q] = QueueSeen(q)'
  BY DEF Queues
<1>2. \A q \in Pids : /\ ~ SettingUp(q) => Queues[q] = QueueOf(q, Keys)
                      /\ ~ SettingUp(q)' => Queues'[q] = QueueOf(q, Keys)'
  <2>1. \A q \in Pids : /\ ~ SettingUp(q) => QueueSeen(q) = QueueOf(q, Keys)
                        /\ ~ SettingUp(q)' => QueueSeen(q)' = QueueOf(q, Keys)'
    BY DEF QueueSeen
  <2> HIDE DEF Queues
  <2> QED
    BY <1>1, <2>1
<1>3. \A q \in Pids : q # p => Queues'[q] = Queues[q]
  <2>1. \A q \in Pids : q # p => ~ SettingUp(q) /\ ~ SettingUp(q)'
    BY <1>0, StepIsAlone DEF SettingUp
  <2>2. \A q \in Pids : q # p => QueueOf(q, Keys)' = QueueOf(q, Keys)
    BY <1>0, OthersKeepQueues DEF Keys
  <2> QED
    BY <1>2, <2>1, <2>2
<1>4. /\ KeyAdd(p) => p \notin Openers /\ Openers' = Openers \cup {p}
      /\ KeyDel(p) => p \in Openers /\ Openers' = Openers \ {p}
      /\ ~ KeyAdd(p) /\ ~ KeyDel(p) => Openers' = Openers
  BY <1>0, OpenersMove
<1>5. ~ ChangesQueue(p) /\ ~ SettingUp(p) /\ ~ SettingUp(p)' => Queues' = Queues
  <2>1. ~ ChangesQueue(p) => QueueOf(p, Keys)' = QueueOf(p, Keys)
    BY <1>0, OwnQueueStays
  <2> HIDE DEF Queues
  <2> QED
    BY <1>1, <1>2, <1>3, <2>1
<1>6. KeyAdd(p) \/ KeyDel(p) => ~ SettingUp(p) /\ ~ SettingUp(p)'
  BY <1>0 DEF KeyAdd, KeyDel, Goto, SettingUp
<1>7. KeyAdd(p) => ~ ChangesQueue(p)
  BY DEF KeyAdd, ChangesQueue, Insert, PopsOwn, Found, KeyDel, InitStores, InitDestroys
<1>8. KeyDel(p) => Queues' = [Queues EXCEPT ![p] = [bag |-> << >>]]
  <2>1. KeyDel(p) => QueueOf(p, Keys)' = [bag |-> << >>]
    BY <1>0, CloseEndsQueue
  <2> HIDE DEF Queues
  <2> QED
    BY <1>1, <1>2, <1>3, <1>6, <2>1
<1> QED
  BY <1>1, <1>2, <1>3, <1>4, <1>5, <1>6, <1>7, <1>8 DEF SeenStays, ChangesQueue

(* The first step of a set-up makes the queue; the others only catch up.   *)
LEMMA SetUpMoves ==
  ASSUME TakeTurns, A2Inv, A2Inv', NEW p \in Pids, AloneStep(p), InitAccepted(p), UNCHANGED globals
  PROVE  /\ Openers' = Openers
         /\ pc[p] = "init" => Queues' = [Queues EXCEPT ![p] = NewQueue(p)] /\ GoodInit(p) /\ SettingUp(p)'
                              /\ loc'[p].op = loc[p].op
         /\ pc[p] # "init" => SeenStays /\ SettingUp(p)
                              /\ ((SettingUp(p)' /\ loc'[p].op = loc[p].op) \/ Return(p, 0))
<1>0. /\ Keys \subseteq Int /\ AnyType \subseteq Int /\ DeviceTypes(Keys, AnyType) /\ DeviceTypes(Keys, AnyType)'
      /\ MutexInv /\ SerialInv /\ SerialInv' /\ CallKept(p) /\ DOMAIN pc = Pids /\ DOMAIN loc = Pids
      /\ DOMAIN loc[p] = {"op", "a", "b", "cur", "heap", "idx", "val"}
  BY A2Facts DEF A2Inv, A2Types
<1>1. /\ Queues = [q \in Pids |-> Queues[q]] /\ Queues' = [q \in Pids |-> Queues'[q]]
      /\ Queues[p] = QueueSeen(p) /\ Queues'[p] = QueueSeen(p)'
      /\ \A q \in Pids : q # p => Queues'[q] = Queues[q]
      /\ ~ KeyAdd(p) /\ ~ KeyDel(p) => Openers' = Openers
  BY SeenMoves
<1>2. pc[p] \in {"init", "init_again", "init_store"}
  BY DEF InitAccepted, InitCreates, InitCreatesAgain, InitStores, InitDestroys
<1>3. Openers' = Openers
  BY <1>1, <1>2 DEF KeyAdd, KeyDel
<1>4. ASSUME loc'[p].op = loc[p].op
      PROVE  NewQueue(p)' = NewQueue(p)
  BY <1>4 DEF globals, NewQueue, TypeGiven, SizeGiven, ByIoctl, Keys
<1>5. ASSUME NEW size, NEW type, InitCreates(p, size, type) \/ InitCreatesAgain(p, size, type)
      PROVE  pc'[p] = "init_store" /\ loc'[p].op = loc[p].op
  BY <1>0, <1>5 DEF InitCreates, InitCreatesAgain, CreateHeap, Goto
<1>6. CASE pc[p] = "init"
  <2>1. GoodInit(p) /\ SettingUp(p)' /\ loc'[p].op = loc[p].op
    <3>1. CASE GoodInit(p) /\ InitCreates(p, SizeGiven(p), TypeGiven(p))
      BY <1>5, <3>1 DEF SettingUp
    <3>2. CASE GoodInit(p) /\ InitDestroys(p)
      BY <1>0, <3>2 DEF InitDestroys, Goto, SettingUp
    <3> QED
      BY <1>6, <3>1, <3>2 DEF InitAccepted, InitCreatesAgain, InitStores
  <2>2. Queues'[p] = NewQueue(p)
    BY <1>1, <1>4, <2>1 DEF QueueSeen
  <2> HIDE DEF Queues, NewQueue
  <2>3. Queues' = [Queues EXCEPT ![p] = NewQueue(p)]
    BY <1>1, <2>2
  <2> QED
    BY <1>3, <1>6, <2>1, <2>3
<1>7. CASE pc[p] = "init_again"
  <2>1. InitCreatesAgain(p, SizeGiven(p), TypeGiven(p))
    BY <1>7 DEF InitAccepted, InitCreates, InitDestroys, InitStores
  <2>2. SettingUp(p) /\ SettingUp(p)' /\ loc'[p].op = loc[p].op
    BY <1>5, <1>7, <2>1 DEF SettingUp
  <2>3. Queues'[p] = Queues[p]
    BY <1>1, <1>4, <2>2 DEF QueueSeen
  <2> HIDE DEF Queues
  <2>4. Queues' = Queues
    BY <1>1, <2>3
  <2> QED
    BY <1>3, <1>7, <2>2, <2>4 DEF SeenStays
<1>8. CASE pc[p] = "init_store"
  <2> DEFINE h == loc[p].heap
  <2>1. InitStores(p)
    BY <1>8 DEF InitAccepted, InitCreates, InitDestroys, InitCreatesAgain
  <2>2. Return(p, 0) /\ pc'[p] = "idle"
    BY <1>0, <2>1 DEF InitStores, Return, Goto
  <2>3. SettingUp(p) /\ ~ SettingUp(p)'
    BY <1>8, <2>2 DEF SettingUp
  <2>4. h \in DOMAIN heaps /\ heaps[h].count = 0 /\ heaps[h].capacity = SizeGiven(p)
        /\ heaps[h].heap_type = TypeGiven(p)
    BY <1>0, <1>8 DEF CallKept
  <2>5. QueueOf(p, Keys)' = [heap_type |-> OrderOf(heaps[h].heap_type), capacity |-> heaps[h].capacity,
                             count |-> 0, bag |-> [k \in Keys |-> 0]]
    BY <1>0, <2>1, <2>4, StoreGivesQueue
  <2>6. Queues'[p] = Queues[p]
    BY <1>1, <2>3, <2>4, <2>5 DEF QueueSeen, NewQueue
  <2> HIDE DEF Queues
  <2>7. Queues' = Queues
    BY <1>1, <2>6
  <2> QED
    BY <1>3, <1>8, <2>2, <2>3, <2>7 DEF SeenStays
<1> QED
  BY <1>2, <1>6, <1>7, <1>8

(* The queue that p is answered from.                                      *)
LEMMA OwnQueueSeen ==
  ASSUME A2Inv, NEW p \in Pids, ~ SettingUp(p), NEW n \in Listed, nodes[n].key = p
  PROVE  LET h == nodes[n].global_heap
         IN  /\ p \in Openers
             /\ h \in DOMAIN heaps =>
                  /\ Queues[p] # [bag |-> << >>]
                  /\ Queues[p].capacity = heaps[h].capacity
                  /\ Queues[p].count = Filled(p, h)
             /\ h \notin DOMAIN heaps => Queues[p] = [bag |-> << >>]
<1> DEFINE h == nodes[n].global_heap
<1>1. Queues[p] = IF h \in DOMAIN heaps
                  THEN QueueWith(heaps[h].heap_type, heaps[h].capacity, Filled(p, h), heaps[h].arr, Keys)
                  ELSE [bag |-> << >>]
  <2>1. QueueOf(p, Keys) = IF h \in DOMAIN heaps
                  THEN QueueWith(heaps[h].heap_type, heaps[h].capacity, Filled(p, h), heaps[h].arr, Keys)
                  ELSE [bag |-> << >>]
    BY OwnQueueIs DEF OwnQueue, A2Inv
  <2> QED
    BY <2>1 DEF Queues, QueueSeen
<1>2. \A t, c, m, a, K : /\ QueueWith(t, c, m, a, K) # [bag |-> << >>]
                         /\ QueueWith(t, c, m, a, K).capacity = c /\ QueueWith(t, c, m, a, K).count = m
  BY DEF QueueWith
<1> HIDE DEF Queues
<1> QED
  BY <1>1, <1>2 DEF Openers

(* No queue, and an answer given.                                          *)
None == [bag |-> << >>]
Told(p, op, v) == Answered' = [pid |-> p, op |-> op, val |-> v]

(* A key that is next in the order of the queue leaves it.                 *)
Taken(p, key) ==
  /\ p \in Openers /\ Queues[p] # None /\ Openers' = Openers
  /\ Queues[p].bag[key] > 0
  /\ \A k \in Keys : Queues[p].bag[k] > 0 => ~ OutOfOrder(Queues[p].heap_type, key, k)
  /\ Queues' = [Queues EXCEPT ![p].bag[key] = @ - 1, ![p].count = @ - 1]

(* The actions of the promise, as the mapping shows them.                  *)
LEMMA PromiseIs ==
  /\ Private!phVars = <<Openers, Queues, Answered>>
  /\ Private!PHInit <=> Openers = {} /\ Queues = [p \in Pids |-> None] /\ Answered = NoAnswer
  /\ Private!Invoke <=> Answered' = NoAnswer /\ SeenStays
  /\ \A p, op, v : Private!Answer(p, op, v) <=> Told(p, op, v)
  /\ \A p, op, e : Private!Refuse(p, op, e) <=> Told(p, op, - e) /\ SeenStays
  /\ \A p : Private!HasQueue(p) <=> p \in Openers /\ Queues[p] # None
  /\ \A t, s : Private!Accepted(t, s) <=> t \in GoodTypes /\ s \in 1 .. MaxHeapSize
  /\ Private!EACCES = EACCES /\ Private!EINVAL = EINVAL /\ Private!ENOBUFS = ENOBUFS
<1>1. Private!phVars = <<Openers, Queues, Answered>>
  BY DEF Private!phVars, Openers, Queues, QueueSeen, Answered
<1>2. Private!PHInit <=> Openers = {} /\ Queues = [p \in Pids |-> None] /\ Answered = NoAnswer
  BY DEF Private!PHInit, Private!NoQueue, Private!NoAnswer, Openers, Queues, QueueSeen, Answered, None, NoAnswer, Free
<1>3. Private!Invoke <=> Answered' = NoAnswer /\ SeenStays
  BY DEF Private!Invoke, Private!NoAnswer, Openers, Queues, QueueSeen, Answered, SeenStays, NoAnswer, Free
<1>4. \A p, op, v : Private!Answer(p, op, v) <=> Told(p, op, v)
  BY DEF Private!Answer, Answered, Told
<1>5. \A p, op, e : Private!Refuse(p, op, e) <=> Told(p, op, - e) /\ SeenStays
  BY <1>4 DEF Private!Refuse, Openers, Queues, QueueSeen, SeenStays
<1>6. \A p : Private!HasQueue(p) <=> p \in Openers /\ Queues[p] # None
  BY DEF Private!HasQueue, Private!NoQueue, Openers, Queues, QueueSeen, None
<1>7. \A t, s : Private!Accepted(t, s) <=> t \in GoodTypes /\ s \in 1 .. MaxHeapSize
  BY DEF Private!Accepted, GoodTypes
<1>8. Private!EACCES = EACCES /\ Private!EINVAL = EINVAL /\ Private!ENOBUFS = ENOBUFS
  BY DEF Private!EACCES, EACCES, Private!EINVAL, EINVAL, Private!ENOBUFS, ENOBUFS
<1> QED
  BY <1>1, <1>2, <1>3, <1>4, <1>5, <1>6, <1>7, <1>8

(* Steps that open, close and insert are steps of the promise.             *)
LEMMA PromiseSteps ==
  ASSUME NEW p \in Pids
  PROVE  /\ Private!Open(p) <=>
              Told(p, "open", 0) /\ p \notin Openers /\ Openers' = Openers \cup {p} /\ Queues' = Queues
         /\ Private!OpenTwice(p) <=> Told(p, "open", - EACCES) /\ SeenStays /\ p \in Openers
         /\ Private!Close(p) <=>
              /\ Told(p, "release", 0) /\ p \in Openers /\ Openers' = Openers \ {p}
              /\ Queues' = [Queues EXCEPT ![p] = None]
         /\ Private!SetUpRefused(p) <=>
              /\ Told(p, "write", - EINVAL) /\ SeenStays /\ p \in Openers
              /\ \E t \in Types, s \in Sizes : ~ (t \in GoodTypes /\ s \in 1 .. MaxHeapSize)
         /\ Private!WriteRefused(p) <=>
              /\ Told(p, "write", - EACCES) /\ SeenStays /\ p \in Openers
              /\ Queues[p] # None => Queues[p].count = Queues[p].capacity
         /\ Private!ReadRefused(p) <=>
              /\ Told(p, "read", - EACCES) /\ SeenStays /\ p \in Openers
              /\ Queues[p] # None => Queues[p].count = 0
         /\ Private!Describe(p) <=>
              /\ Told(p, "PB2_GET_INFO", IF Queues[p] # None THEN 0 ELSE - EACCES) /\ SeenStays /\ p \in Openers
         /\ Private!BadCall(p) <=>
              /\ p \in BadBuffers /\ p \in Openers /\ SeenStays
              /\ \/ Told(p, "read", - EINVAL)
                 \/ Told(p, "write", - EINVAL) \/ Told(p, "write", - ENOBUFS)
                 \/ Told(p, "PB2_GET_INFO", - EACCES)
         /\ Private!WrongLength(p) <=>
              /\ Told(p, "write5", - (IF p \in Openers /\ Queues[p] # None THEN EINVAL ELSE EACCES))
              /\ SeenStays /\ p \in Openers
<1>1. Private!Open(p) <=>
        Told(p, "open", 0) /\ p \notin Openers /\ Openers' = Openers \cup {p} /\ Queues' = Queues
  BY PromiseIs DEF Private!Open, Openers, Queues, QueueSeen
<1>2. Private!OpenTwice(p) <=> Told(p, "open", - EACCES) /\ SeenStays /\ p \in Openers
  BY PromiseIs DEF Private!OpenTwice, Openers
<1>3. Private!Close(p) <=>
        /\ Told(p, "release", 0) /\ p \in Openers /\ Openers' = Openers \ {p}
        /\ Queues' = [Queues EXCEPT ![p] = None]
  BY PromiseIs DEF Private!Close, Private!NoQueue, None, Openers, Queues, QueueSeen
<1>4. Private!SetUpRefused(p) <=>
              /\ Told(p, "write", - EINVAL) /\ SeenStays /\ p \in Openers
              /\ \E t \in Types, s \in Sizes : ~ (t \in GoodTypes /\ s \in 1 .. MaxHeapSize)
  <2>1. Private!SetUpRefused(p) <=>
              /\ Private!Refuse(p, "write", Private!EINVAL) /\ p \in Openers
              /\ \E t \in Types, s \in Sizes : ~ Private!Accepted(t, s)
    BY DEF Private!SetUpRefused, Openers
  <2> QED
    BY <2>1, PromiseIs
<1>5. Private!WriteRefused(p) <=>
              /\ Told(p, "write", - EACCES) /\ SeenStays /\ p \in Openers
              /\ Queues[p] # None => Queues[p].count = Queues[p].capacity
  BY PromiseIs DEF Private!WriteRefused, Openers, Queues, QueueSeen
<1>6. Private!ReadRefused(p) <=>
              /\ Told(p, "read", - EACCES) /\ SeenStays /\ p \in Openers
              /\ Queues[p] # None => Queues[p].count = 0
  BY PromiseIs DEF Private!ReadRefused, Openers, Queues, QueueSeen
<1>7. Private!Describe(p) <=>
              /\ Told(p, "PB2_GET_INFO", IF Queues[p] # None THEN 0 ELSE - EACCES) /\ SeenStays /\ p \in Openers
  <2>1. Private!Describe(p) <=>
              /\ Private!Answer(p, "PB2_GET_INFO", IF Private!HasQueue(p) THEN 0 ELSE - Private!EACCES)
              /\ SeenStays /\ p \in Openers
    BY DEF Private!Describe, SeenStays, Openers, Queues, QueueSeen
  <2> QED
    BY <2>1, PromiseIs
<1>8. Private!BadCall(p) <=>
              /\ p \in BadBuffers /\ p \in Openers /\ SeenStays
              /\ \/ Told(p, "read", - EINVAL)
                 \/ Told(p, "write", - EINVAL) \/ Told(p, "write", - ENOBUFS)
                 \/ Told(p, "PB2_GET_INFO", - EACCES)
  <2>1. Private!BadCall(p) <=>
              /\ p \in BadBuffers /\ p \in Openers
              /\ \/ Private!Refuse(p, "read", Private!EINVAL)
                 \/ Private!Refuse(p, "write", Private!EINVAL) \/ Private!Refuse(p, "write", Private!ENOBUFS)
                 \/ Private!Refuse(p, "PB2_GET_INFO", Private!EACCES)
    BY DEF Private!BadCall, Openers
  <2> QED
    BY <2>1, PromiseIs
<1>9. Private!WrongLength(p) <=>
              /\ Told(p, "write5", - (IF p \in Openers /\ Queues[p] # None THEN EINVAL ELSE EACCES))
              /\ SeenStays /\ p \in Openers
  <2>1. Private!WrongLength(p) <=>
              /\ Private!Refuse(p, "write5", IF Private!HasQueue(p) THEN Private!EINVAL ELSE Private!EACCES)
              /\ p \in Openers
    BY DEF Private!WrongLength, Openers
  <2> QED
    BY <2>1, PromiseIs
<1> QED
  BY <1>1, <1>2, <1>3, <1>4, <1>5, <1>6, <1>7, <1>8, <1>9

(* So are those that set up, extract and describe.                         *)
LEMMA PromiseQueueSteps ==
  ASSUME NEW p \in Pids
  PROVE  /\ \A t, s : Private!SetUp(p, t, s) <=>
              /\ Told(p, "write", 0) /\ p \in Openers /\ Openers' = Openers
              /\ t \in GoodTypes /\ s \in 1 .. MaxHeapSize
              /\ Queues' = [Queues EXCEPT ![p] = [heap_type |-> IF t \in {0, MIN_HEAP} THEN 0 ELSE 1,
                                                  capacity |-> s, count |-> 0, bag |-> [k \in Keys |-> 0]]]
         /\ \A key : Private!Write(p, key) <=>
              /\ Told(p, "write", 0) /\ p \in Openers /\ Queues[p] # None /\ Openers' = Openers
              /\ Queues[p].count < Queues[p].capacity
              /\ Queues' = [Queues EXCEPT ![p].bag[key] = @ + 1, ![p].count = @ + 1]
         /\ \A key : Private!Read(p, key) <=> Told(p, "read", key) /\ key # 0 /\ Taken(p, key)
         /\ \A key : Private!ReadLoses(p, key) <=>
              Told(p, "read", - EACCES) /\ (p \in BadBuffers \/ key = 0) /\ Taken(p, key)
<1>1. ASSUME NEW t, NEW s
      PROVE  Private!SetUp(p, t, s) <=>
              /\ Told(p, "write", 0) /\ p \in Openers /\ Openers' = Openers
              /\ t \in GoodTypes /\ s \in 1 .. MaxHeapSize
              /\ Queues' = [Queues EXCEPT ![p] = [heap_type |-> IF t \in {0, MIN_HEAP} THEN 0 ELSE 1,
                                                  capacity |-> s, count |-> 0, bag |-> [k \in Keys |-> 0]]]
  <2>1. Private!SetUp(p, t, s) <=>
              /\ Private!Answer(p, "write", 0) /\ p \in Openers /\ Openers' = Openers
              /\ Private!Accepted(t, s)
              /\ Queues' = [Queues EXCEPT ![p] = [heap_type |-> IF t \in {0, MIN_HEAP} THEN 0 ELSE 1,
                                                  capacity |-> s, count |-> 0, bag |-> [k \in Keys |-> 0]]]
    BY DEF Private!SetUp, Openers, Queues, QueueSeen, Private!Keys, Keys
  <2> QED
    BY <2>1, PromiseIs
<1>2. ASSUME NEW key
      PROVE  Private!Write(p, key) <=>
              /\ Told(p, "write", 0) /\ p \in Openers /\ Queues[p] # None /\ Openers' = Openers
              /\ Queues[p].count < Queues[p].capacity
              /\ Queues' = [Queues EXCEPT ![p].bag[key] = @ + 1, ![p].count = @ + 1]
  <2>1. Private!Write(p, key) <=>
              /\ Private!Answer(p, "write", 0) /\ Private!HasQueue(p) /\ Openers' = Openers
              /\ Queues[p].count < Queues[p].capacity
              /\ Queues' = [Queues EXCEPT ![p].bag[key] = @ + 1, ![p].count = @ + 1]
    BY DEF Private!Write, Openers, Queues, QueueSeen
  <2> QED
    BY <2>1, PromiseIs
<1>3. ASSUME NEW key
      PROVE  Private!Take(p, key) <=> Taken(p, key)
  <2>1. \A t, a, b : Private!OutOfOrder(t, a, b) <=> OutOfOrder(t, a, b)
    BY DEF Private!OutOfOrder, OutOfOrder
  <2>2. Private!Take(p, key) <=>
              /\ Private!HasQueue(p) /\ Openers' = Openers
              /\ Queues[p].bag[key] > 0
              /\ \A k \in Private!Keys : Queues[p].bag[k] > 0 => ~ Private!OutOfOrder(Queues[p].heap_type, key, k)
              /\ Queues' = [Queues EXCEPT ![p].bag[key] = @ - 1, ![p].count = @ - 1]
    BY DEF Private!Take, Openers, Queues, QueueSeen
  <2> QED
    BY <2>1, <2>2, PromiseIs DEF Private!Keys, Keys, Taken
<1>4. \A key : Private!Read(p, key) <=> Told(p, "read", key) /\ key # 0 /\ Taken(p, key)
  BY <1>3, PromiseIs DEF Private!Read
<1>5. \A key : Private!ReadLoses(p, key) <=>
        Told(p, "read", - EACCES) /\ (p \in BadBuffers \/ key = 0) /\ Taken(p, key)
  BY <1>3, PromiseIs DEF Private!ReadLoses
<1> QED
  BY <1>1, <1>2, <1>4, <1>5

(* A min-heap is asked for by ioctl only, and neither call is asked for a  *)
(* heap by the other's numbers.                                            *)
TypesAsMeant ==
  \A p \in Pids : /\ \A two \in BytesOf[p] : two[1] \notin {0, 1, MIN_HEAP}
                  /\ \A two \in TypesOf[p] : two[1] \notin {MIN_HEAP, MAX_HEAP}

(* What PB2_EXTRACT answers that has popped a key.                         *)
Handed(call) == IF call.a = BadBuffer \/ call.val = 0 THEN - EACCES ELSE call.val

(* The answer of a call, by where it stands.                               *)
LEMMA AnswerIs ==
  ASSUME NEW p \in Pids
  PROVE  LET op == AbstractOp(loc[p].op)
         IN  /\ pc[p] \in {"up", "init_again", "init_store", "del_clear", "del_free", "print"} =>
                  Answer(p) = [pid |-> p, op |-> op, val |-> 0]
             /\ pc[p] \in {"down", "copy_result"} /\ loc[p].heap # Null =>
                  Answer(p) = [pid |-> p, op |-> op,
                               val |-> Handed(loc[p])]
             /\ pc[p] \notin {"up", "init_again", "init_store", "del_clear", "del_free", "print", "down", "copy_result"}
                \/ (pc[p] = "copy_result" /\ loc[p].heap = Null) => Answer(p) = ret
<1> HIDE DEF AbstractOp
<1> QED
  BY DEF Answer, SettingUp, Handed, CopyFails

(* The same of every process, closed.                                      *)
AnswersAre ==
  \A p \in Pids :
    LET op == AbstractOp(loc[p].op)
    IN  /\ pc[p] \in {"up", "init_again", "init_store", "del_clear", "del_free", "print"} =>
             Answer(p) = [pid |-> p, op |-> op, val |-> 0]
        /\ pc[p] \in {"down", "copy_result"} /\ loc[p].heap # Null =>
             Answer(p) = [pid |-> p, op |-> op,
                          val |-> Handed(loc[p])]
        /\ pc[p] \notin {"up", "init_again", "init_store", "del_clear", "del_free", "print", "down", "copy_result"}
           \/ (pc[p] = "copy_result" /\ loc[p].heap = Null) => Answer(p) = ret

LEMMA AnswersAreNow == AnswersAre
BY AnswerIs DEF AnswersAre

LEMMA AnswersAreNext == AnswersAre'
BY AnswersAreNow, PTL

(* What each call is for the promise.                                      *)
LEMMA OpsAre ==
  /\ \A op \in InsertOps \cup SetUpOps : AbstractOp(op) = "write"
  /\ AbstractOp("PB2_EXTRACT") = "read"
  /\ \A op \in {"open", "release", "PB2_GET_INFO", "write5", "none"} : AbstractOp(op) = op
BY DEF AbstractOp, InsertOps, SetUpOps

(* Where a call can only answer 0.                                         *)
Settled == {"up", "init_again", "init_store", "del_clear", "del_free", "print"}

(* What the answer is before and after a step, by the labels.              *)
LEMMA AnswersTold ==
  ASSUME TakeTurns, A2Inv, A2Inv', NEW p \in Pids, AloneStep(p)
  PROVE  /\ pc[p] \in Settled => Answered = [pid |-> p, op |-> AbstractOp(loc[p].op), val |-> 0]
         /\ pc[p] \in {"down", "copy_result"} /\ loc[p].heap # Null =>
              Answered = [pid |-> p, op |-> AbstractOp(loc[p].op),
                          val |-> Handed(loc[p])]
         /\ pc[p] \notin Settled \cup {"idle", "down", "copy_result"}
            \/ (pc[p] = "copy_result" /\ loc[p].heap = Null) => Answered = ret
         /\ pc'[p] \in Settled => Told(p, AbstractOp(loc'[p].op), 0)
         /\ pc'[p] \in {"down", "copy_result"} /\ loc'[p].heap # Null =>
              Told(p, AbstractOp(loc'[p].op),
                   Handed(loc'[p]))
         /\ pc'[p] \notin Settled \cup {"idle", "down", "copy_result"}
            \/ (pc'[p] = "copy_result" /\ loc'[p].heap = Null) => Answered' = ret'
         /\ \A v : Return(p, v) => Told(p, AbstractOp(loc[p].op), v) /\ pc'[p] = "idle"
<1>0. DOMAIN pc = Pids
  BY A2Facts
<1>1. /\ pc[p] # "idle" => Answered = Answer(p)
      /\ pc'[p] # "idle" => Answered' = Answer(p)'
      /\ \A v : Return(p, v) => Answered' = [pid |-> p, op |-> AbstractOp(loc[p].op), val |-> v]
  BY AnswersMove
<1>2. \A v : Return(p, v) => Told(p, AbstractOp(loc[p].op), v) /\ pc'[p] = "idle"
  <2>1. \A v : Return(p, v) => pc'[p] = "idle"
    BY <1>0 DEF Return, Goto
  <2> HIDE DEF AbstractOp, Return
  <2> QED
    BY <1>1, <2>1 DEF Told
<1>3. LET op == AbstractOp(loc[p].op)
      IN  /\ pc[p] \in Settled => Answer(p) = [pid |-> p, op |-> op, val |-> 0]
          /\ pc[p] \in {"down", "copy_result"} /\ loc[p].heap # Null =>
               Answer(p) = [pid |-> p, op |-> op,
                            val |-> Handed(loc[p])]
          /\ pc[p] \notin Settled \cup {"idle", "down", "copy_result"}
             \/ (pc[p] = "copy_result" /\ loc[p].heap = Null) => Answer(p) = ret
  BY AnswersAreNow DEF AnswersAre, Settled
<1>4. LET op == AbstractOp(loc'[p].op)
      IN  /\ pc'[p] \in Settled => Answer(p)' = [pid |-> p, op |-> op, val |-> 0]
          /\ pc'[p] \in {"down", "copy_result"} /\ loc'[p].heap # Null =>
               Answer(p)' = [pid |-> p, op |-> op,
                             val |-> Handed(loc'[p])]
          /\ pc'[p] \notin Settled \cup {"idle", "down", "copy_result"}
             \/ (pc'[p] = "copy_result" /\ loc'[p].heap = Null) => Answer(p)' = ret'
  BY AnswersAreNext DEF AnswersAre, Settled
<1> HIDE DEF AbstractOp
<1>5. "idle" \notin Settled \cup {"down", "copy_result"}
  BY DEF Settled
<1> QED
  BY <1>1, <1>2, <1>3, <1>4, <1>5 DEF Told

(* The steps that take effect.                                             *)
LEMMA EffectsRefine ==
  ASSUME TakeTurns, TypesAsMeant, A2Inv, A2Inv', NEW p \in Pids, AloneStep(p),
         \/ KeyAdd(p) \/ KeyDel(p) \/ Insert(p) \/ Extract(p)
         \/ pc[p] = "init" /\ InitAccepted(p) /\ UNCHANGED globals
  PROVE  Private!PHNext
<1>0. /\ Keys \subseteq Int /\ AnyType \subseteq Int /\ DeviceTypes(Keys, AnyType) /\ DeviceTypes(Keys, AnyType)'
      /\ MutexInv /\ SerialInv /\ SerialInv' /\ CallKept(p) /\ CallKept(p)' /\ KeysHeld(AllKeys)
      /\ DOMAIN pc = Pids /\ DOMAIN loc = Pids
      /\ DOMAIN loc[p] = {"op", "a", "b", "cur", "heap", "idx", "val"}
      /\ LabelsOK /\ AllKeys[p] = Keys
  BY A2Facts DEF A2Inv, A2Types, SerialInv, TableInv
<1>1. /\ Queues = [q \in Pids |-> Queues[q]] /\ Queues' = [q \in Pids |-> Queues'[q]]
      /\ ~ SettingUp(p) => Queues[p] = QueueOf(p, Keys)
      /\ ~ SettingUp(p)' => Queues'[p] = QueueOf(p, Keys)'
      /\ \A q \in Pids : q # p => Queues'[q] = Queues[q]
  BY SeenMoves
<1>2. /\ pc'[p] \in Settled => Told(p, AbstractOp(loc'[p].op), 0)
      /\ pc'[p] \in {"down", "copy_result"} /\ loc'[p].heap # Null =>
           Told(p, AbstractOp(loc'[p].op),
                Handed(loc'[p]))
  BY AnswersTold
<1> HIDE DEF AbstractOp
<1>3. CASE KeyAdd(p)
  <2>1. pc'[p] = "print" /\ loc' = loc /\ loc[p].op = "open"
    BY <1>0, <1>3 DEF KeyAdd, Goto, LabelsOK, Opening
  <2>2. Told(p, "open", 0)
    BY <1>2, <2>1, OpsAre DEF Settled
  <2>3. Private!Open(p)
    BY <1>3, <2>2, SeenMoves, PromiseSteps
  <2> QED
    BY <2>3 DEF Private!PHNext
<1>4. CASE KeyDel(p)
  <2>1. pc'[p] = "del_clear" /\ loc'[p].op = "release"
    BY <1>0, <1>4 DEF KeyDel, Goto, LabelsOK, Deleting
  <2>2. Told(p, "release", 0)
    BY <1>2, <2>1, OpsAre DEF Settled
  <2>3. Private!Close(p)
    BY <1>4, <2>2, SeenMoves, PromiseSteps DEF None
  <2> QED
    BY <2>3 DEF Private!PHNext
<1>5. CASE Insert(p)
  <2>1. /\ pc'[p] = "up" /\ pc[p] = "insert" /\ num \in Keys /\ entry \in Listed /\ nodes[entry].key = p
        /\ loc'[p].op \in InsertOps
    BY <1>0, <1>5 DEF Insert, Goto, CallKept, SerialInv, AloneInv, UsesOwnHeap, UseLabels
  <2>2. Told(p, "write", 0)
    BY <1>2, <2>1, OpsAre DEF Settled
  <2>3. ~ SettingUp(p) /\ ~ SettingUp(p)'
    BY <2>1 DEF SettingUp
  <2>4. p \in Openers /\ Openers' = Openers
    <3>1. ~ KeyAdd(p) /\ ~ KeyDel(p)
      BY <1>5 DEF Insert, KeyAdd, KeyDel
    <3> QED
      BY <2>1, <2>3, <3>1, SeenMoves, OwnQueueSeen
  <2>5. Grows(Queues[p], Queues'[p], num)
    <3>1. Grows(QueueOf(p, Keys), QueueOf(p, Keys)', num)
      BY <1>0, <1>5, InsertGrows
    <3> QED
      BY <1>1, <2>3, <3>1
  <2>6. /\ Queues' = [Queues EXCEPT ![p].bag[num] = @ + 1, ![p].count = @ + 1]
        /\ Queues[p].count < Queues[p].capacity /\ Queues[p] # None
    <3> HIDE DEF Queues
    <3> QED
      BY <1>1, <2>5, OneKeyMore DEF None
  <2>7. Private!Write(p, num)
    BY <2>2, <2>4, <2>6, PromiseQueueSteps
  <2> QED
    BY <2>1, <2>7 DEF Private!PHNext
<1>6. CASE Extract(p)
  <2>1. PopsOwn(p) /\ nodes' = nodes /\ loc'[p].op = "PB2_EXTRACT" /\ pc'[p] = "down" /\ Found(p)
    BY <1>0, <1>6 DEF Extract, FoundFor, PopsOwn, PopMin, Goto
  <2>2. HeapsHold(AllKeys)
    BY <1>0, HeldIsHold
  <2>3. ~ SettingUp(p) /\ ~ SettingUp(p)'
    BY <2>1 DEF SettingUp, Found
  <2> DEFINE key == loc'[p].val
  <2>4. key \in Keys /\ Shrinks(Queues[p], Queues'[p], key, Keys)
    <3>1. key \in AllKeys[p] /\ Shrinks(QueueOf(p, Keys), QueueOf(p, Keys)', key, Keys)
      BY <1>0, <2>1, <2>2, PopShrinks
    <3> QED
      BY <1>0, <1>1, <2>3, <3>1
  <2>5. /\ loc'[p].a = BadBuffer => p \in BadBuffers
        /\ Told(p, "read", IF loc'[p].a = BadBuffer \/ key = 0 THEN - EACCES ELSE key)
    <3>1. loc'[p].heap # Null /\ (loc'[p].a = BadBuffer => p \in BadBuffers)
      BY <1>0, <2>1 DEF CallKept, CopyFails
    <3>2. Handed(loc'[p]) = IF loc'[p].a = BadBuffer \/ key = 0 THEN - EACCES ELSE key
      BY DEF Handed
    <3>3. Told(p, "read", Handed(loc'[p]))
      BY <1>2, <2>1, <3>1, OpsAre
    <3> HIDE DEF key
    <3> QED
      BY <3>1, <3>2, <3>3
  <2>6. p \in Openers /\ Openers' = Openers
    <3>1. ~ KeyAdd(p) /\ ~ KeyDel(p)
      BY <2>1 DEF Found, KeyAdd, KeyDel
    <3>2. loc[p].cur \in Listed /\ nodes[loc[p].cur].key = p
      BY <1>0, <2>1, OwnHeapIs DEF SerialInv
    <3> QED
      BY <2>3, <3>1, <3>2, SeenMoves, OwnQueueSeen
  <2> HIDE DEF key
  <2>7. /\ Queues' = [Queues EXCEPT ![p].bag[key] = @ - 1, ![p].count = @ - 1]
        /\ Queues[p].bag[key] > 0 /\ Queues[p] # None
        /\ \A k \in Keys : Queues[p].bag[k] > 0 => ~ OutOfOrder(Queues[p].heap_type, key, k)
    <3> DEFINE before == Queues
               after == Queues'
    <3>1. /\ before = [q \in Pids |-> before[q]] /\ after = [q \in Pids |-> after[q]]
          /\ \A q \in Pids : q # p => after[q] = before[q]
          /\ Shrinks(before[p], after[p], key, Keys)
      BY <1>1, <2>4
    <3> HIDE DEF before, after
    <3>2. /\ after = [before EXCEPT ![p].bag[key] = @ - 1, ![p].count = @ - 1]
          /\ before[p].bag[key] > 0
          /\ \A k \in Keys : before[p].bag[k] > 0 => ~ OutOfOrder(before[p].heap_type, key, k)
          /\ before[p] # [bag |-> << >>]
      BY <3>1, OneKeyLess
    <3> QED
      BY <3>2, Zenon DEF None, before, after
  <2>8. Taken(p, key)
    <3> HIDE DEF Queues
    <3> QED
      BY <2>6, <2>7 DEF Taken
  <2>9. Private!Read(p, key) \/ Private!ReadLoses(p, key)
    BY <2>5, <2>8, PromiseQueueSteps
  <2> QED
    BY <2>4, <2>9 DEF Private!PHNext
<1>7. CASE pc[p] = "init" /\ InitAccepted(p) /\ UNCHANGED globals
  <2>1. /\ Openers' = Openers /\ Queues' = [Queues EXCEPT ![p] = NewQueue(p)]
        /\ GoodInit(p) /\ SettingUp(p)' /\ loc'[p].op = loc[p].op
    BY <1>7, SetUpMoves
  <2>2. loc[p].op \in SetUpOps /\ entry \in Listed /\ nodes[entry].key = p /\ ~ SettingUp(p)
    BY <1>0, <1>7 DEF LabelsOK, SetUpLabels, SerialInv, OwnerInv, SetUpEntry, SettingUp
  <2>3. Told(p, "write", 0)
    <3>1. pc'[p] \in Settled
      BY <2>1 DEF SettingUp, Settled
    <3> QED
      BY <1>2, <2>1, <2>2, <3>1, OpsAre
  <2>4. p \in Openers
    BY <2>2, OwnQueueSeen
  <2> DEFINE t == TypeGiven(p)
             s == SizeGiven(p)
  <2>5. <<t, s>> \in IF ByIoctl(p) THEN TypesOf[p] ELSE BytesOf[p]
    BY <1>0, <1>7 DEF CallKept
  <2>6. t \in IF ByIoctl(p) THEN {0, 1} ELSE {MIN_HEAP, MAX_HEAP}
    BY <2>1 DEF GoodInit
  <2>7. s \in 1 .. MaxHeapSize
    BY <2>1 DEF GoodInit
  <2> HIDE DEF t, s, ByIoctl
  <2>8. t \in Types /\ s \in Sizes
    BY <2>5, ArgumentsAre
  <2>9. t \in {0, 1, MAX_HEAP}
    BY <2>5, <2>6 DEF TypesAsMeant, MIN_HEAP, MAX_HEAP
  <2>10. NewQueue(p) = [heap_type |-> IF t \in {0, MIN_HEAP} THEN 0 ELSE 1,
                        capacity |-> s, count |-> 0, bag |-> [k \in Keys |-> 0]]
    <3>1. OrderOf(t) = IF t \in {0, MIN_HEAP} THEN 0 ELSE 1
      BY <2>9 DEF OrderOf, MIN_HEAP, MAX_HEAP
    <3>2. NewQueue(p) = [heap_type |-> OrderOf(t), capacity |-> s, count |-> 0, bag |-> [k \in Keys |-> 0]]
      BY DEF NewQueue, t, s
    <3> QED
      BY <3>1, <3>2
  <2> HIDE DEF NewQueue, Queues
  <2>11. Private!SetUp(p, t, s)
    BY <2>1, <2>3, <2>4, <2>7, <2>9, <2>10, PromiseQueueSteps DEF GoodTypes
  <2> QED
    BY <2>8, <2>11 DEF Private!PHNext
<1> QED
  BY <1>3, <1>4, <1>5, <1>6, <1>7

(* The refusals, and PB2_GET_INFO.                                         *)
LEMMA RefusalsRefine ==
  ASSUME TakeTurns, TypesAsMeant, EmptyPop = 0, A2Inv, A2Inv', NEW p \in Pids, AloneStep(p),
         \/ OpenTwice(p) \/ InsertFull(p) \/ WriteRefused(p) \/ InitRefused(p) \/ Unset(p)
         \/ ExtractReturns(p) /\ loc[p].heap = Null
         \/ CopyInfo(p) \/ ArgsNotCopied(p) \/ NumNotCopied(p) \/ InfoNotCopied(p)
  PROVE  Private!PHNext
<1>0. /\ DeviceTypes(Keys, AnyType) /\ SerialInv /\ CallKept(p) /\ TableInv /\ OwnerInv /\ LabelsOK
      /\ Null \notin DOMAIN heaps /\ DOMAIN pc = Pids
  BY A2Facts, IdsAreNaturals DEF A2Inv, A2Types, SerialInv, TableInv, DeviceTypes, HeapsOK
<1>1. pc[p] \in {"walk", "insert", "init", "copy_result", "copy_info", "copy_args", "copy_num"}
  BY DEF OpenTwice, InsertFull, WriteRefused, InitRefused, Unset, ExtractReturns, CopyInfo, ArgsNotCopied,
         NumNotCopied, InfoNotCopied, FoundFor, Found
<1>2. \A v : Return(p, v) => Told(p, AbstractOp(loc[p].op), v) /\ pc'[p] = "idle"
  BY AnswersTold
<1> HIDE DEF AbstractOp
<1>3. pc'[p] = "idle"
  <2> HIDE DEF Return, OwnHeap
  <2>1. \E v : Return(p, v)
    BY DEF OpenTwice, InsertFull, WriteRefused, InitRefused, Unset, ExtractReturns, CopyInfo, ArgsNotCopied,
           NumNotCopied, InfoNotCopied
  <2> QED
    BY <1>2, <2>1
<1>4. ~ SettingUp(p) /\ ~ SettingUp(p)'
  BY <1>1, <1>3 DEF SettingUp
<1>5. SeenStays
  <2>1. ~ PopsOwn(p) /\ ~ Insert(p) /\ ~ InitDestroys(p)
    BY <1>0, <1>3 DEF PopsOwn, PopMin, Insert, InitDestroys, Goto
  <2>2. ~ KeyAdd(p) /\ ~ ChangesQueue(p)
    BY <1>1, <2>1 DEF KeyAdd, ChangesQueue, KeyDel, InitStores
  <2> QED
    BY <1>4, <2>2, SeenMoves
<1>6. Found(p) => /\ p \in Openers
                  /\ OwnHeap(p) = Null => Queues[p] = None
                  /\ OwnHeap(p) # Null => Queues[p] # None
  <2> SUFFICES ASSUME Found(p)
               PROVE  /\ p \in Openers /\ (OwnHeap(p) = Null => Queues[p] = None)
                      /\ OwnHeap(p) # Null => Queues[p] # None
    OBVIOUS
  <2>1. loc[p].cur \in Listed /\ nodes[loc[p].cur].key = p /\ OwnHeap(p) \in DOMAIN heaps \cup {Null}
    BY <1>0, OwnHeapIs
  <2> QED
    BY <1>0, <1>4, <2>1, OwnQueueSeen DEF OwnHeap, None
<1>7. pc[p] \in {"insert", "copy_num", "copy_result", "copy_info"} =>
        LET h == nodes[entry].global_heap
        IN  /\ p \in Openers /\ h \in DOMAIN heaps /\ Queues[p] # None
            /\ Queues[p].capacity = heaps[h].capacity /\ Queues[p].count = heaps[h].count
            /\ heaps[h].capacity \in Nat \ {0} /\ heaps[h].count \in 0 .. heaps[h].capacity
  <2> SUFFICES ASSUME pc[p] \in {"insert", "copy_num", "copy_result", "copy_info"}
               PROVE  LET h == nodes[entry].global_heap
                      IN  /\ p \in Openers /\ h \in DOMAIN heaps /\ Queues[p] # None
                          /\ Queues[p].capacity = heaps[h].capacity /\ Queues[p].count = heaps[h].count
                          /\ heaps[h].capacity \in Nat \ {0} /\ heaps[h].count \in 0 .. heaps[h].capacity
    OBVIOUS
  <2> DEFINE h == nodes[entry].global_heap
  <2>1. entry \in Listed /\ nodes[entry].key = p /\ h \in DOMAIN heaps
    BY <1>0 DEF SerialInv, AloneInv, UsesOwnHeap, UseLabels
  <2>2. heaps[h].capacity \in Nat \ {0} /\ heaps[h].count \in 0 .. heaps[h].capacity
    BY <1>0, <2>1 DEF SerialInv, AloneInv, HeapsWork
  <2>3. Filled(p, h) = heaps[h].count
    BY <2>2 DEF Filled
  <2> QED
    BY <1>4, <2>1, <2>2, <2>3, OwnQueueSeen DEF None
<1>8. CASE OpenTwice(p)
  <2>1. Told(p, "open", - EACCES) /\ p \in Openers
    BY <1>2, <1>6, <1>8, OpsAre DEF OpenTwice
  <2>2. Private!OpenTwice(p)
    BY <1>5, <2>1, PromiseSteps
  <2> QED
    BY <2>2 DEF Private!PHNext
<1>9. CASE InsertFull(p)
  <2> DEFINE h == nodes[entry].global_heap
  <2>1. /\ Return(p, - EACCES) /\ pc[p] = "insert" /\ loc[p].op \in InsertOps
        /\ heaps[h].count >= heaps[h].capacity
    BY <1>0, <1>9 DEF InsertFull, InsertTarget, CallKept
  <2>2. Told(p, "write", - EACCES)
    BY <1>2, <2>1, OpsAre
  <2>3. p \in Openers /\ Queues[p].count = Queues[p].capacity
    BY <1>7, <2>1
  <2>4. Private!WriteRefused(p)
    BY <1>5, <2>2, <2>3, PromiseSteps
  <2> QED
    BY <2>4 DEF Private!PHNext
<1>10. CASE (WriteRefused(p) /\ loc[p].op = "write4") \/ (Unset(p) /\ loc[p].op = "PB2_INSERT")
  <2>1. Found(p) /\ OwnHeap(p) = Null /\ Return(p, - EACCES) /\ loc[p].op \in InsertOps
    <3> HIDE DEF Return, OwnHeap
    <3> QED
      BY <1>10 DEF WriteRefused, Unset, FoundFor, InsertOps
  <2>2. Told(p, "write", - EACCES) /\ p \in Openers /\ Queues[p] = None
    BY <1>2, <1>6, <2>1, OpsAre
  <2>3. Private!WriteRefused(p)
    BY <1>5, <2>2, PromiseSteps
  <2> QED
    BY <2>3 DEF Private!PHNext
<1>11. CASE Unset(p) /\ loc[p].op = "PB2_EXTRACT"
  <2>1. Told(p, "read", - EACCES) /\ p \in Openers /\ Queues[p] = None
    BY <1>2, <1>6, <1>11, OpsAre DEF Unset
  <2>2. Private!ReadRefused(p)
    BY <1>5, <2>1, PromiseSteps
  <2> QED
    BY <2>2 DEF Private!PHNext
<1>12. CASE Unset(p) /\ loc[p].op = "PB2_GET_INFO"
  <2>1. Told(p, "PB2_GET_INFO", - EACCES) /\ p \in Openers /\ Queues[p] = None
    BY <1>2, <1>6, <1>12, OpsAre DEF Unset
  <2>2. Private!Describe(p)
    BY <1>5, <2>1, PromiseSteps
  <2> QED
    BY <2>2 DEF Private!PHNext
<1>13. CASE InitRefused(p)
  <2> DEFINE t == TypeGiven(p)
             s == SizeGiven(p)
  <2>1. /\ pc[p] = "init" /\ Return(p, - EINVAL) /\ ~ GoodInit(p) /\ loc[p].op \in SetUpOps
        /\ entry \in Listed /\ nodes[entry].key = p
    BY <1>0, <1>13 DEF InitRefused, LabelsOK, OwnerInv, SetUpEntry, SetUpLabels
  <2>2. Told(p, "write", - EINVAL) /\ p \in Openers
    BY <1>2, <1>4, <2>1, OpsAre, OwnQueueSeen
  <2>3. <<t, s>> \in IF ByIoctl(p) THEN TypesOf[p] ELSE BytesOf[p]
    BY <1>0, <2>1 DEF CallKept
  <2>4. t \notin (IF ByIoctl(p) THEN {0, 1} ELSE {MIN_HEAP, MAX_HEAP}) \/ s \notin 1 .. MaxHeapSize
    BY <2>1 DEF GoodInit
  <2> HIDE DEF t, s, ByIoctl
  <2>5. t \in Types /\ s \in Sizes
    BY <2>3, ArgumentsAre
  <2>6. ~ (t \in GoodTypes /\ s \in 1 .. MaxHeapSize)
    BY <2>3, <2>4 DEF TypesAsMeant, GoodTypes, MIN_HEAP, MAX_HEAP
  <2>7. Private!SetUpRefused(p)
    BY <1>5, <2>2, <2>5, <2>6, PromiseSteps
  <2> QED
    BY <2>7 DEF Private!PHNext
<1>14. CASE ExtractReturns(p) /\ loc[p].heap = Null
  <2>1. /\ pc[p] = "copy_result" /\ loc[p].op = "PB2_EXTRACT" /\ loc[p].val = 0
        /\ heaps[nodes[entry].global_heap].count = 0
    BY <1>0, <1>14 DEF ExtractReturns, CallKept
  <2>2. Return(p, - EACCES)
    BY <1>14, <2>1 DEF ExtractReturns
  <2>3. Told(p, "read", - EACCES)
    BY <1>2, <2>1, <2>2, OpsAre
  <2>4. p \in Openers /\ Queues[p].count = 0
    BY <1>7, <2>1
  <2>5. Private!ReadRefused(p)
    BY <1>5, <2>3, <2>4, PromiseSteps
  <2> QED
    BY <2>5 DEF Private!PHNext
<1>15. CASE CopyInfo(p)
  <2>1. pc[p] = "copy_info" /\ loc[p].op = "PB2_GET_INFO" /\ Return(p, 0)
    BY <1>0, <1>15 DEF CopyInfo, CallKept
  <2>2. Told(p, "PB2_GET_INFO", 0) /\ p \in Openers /\ Queues[p] # None
    BY <1>2, <1>7, <2>1, OpsAre
  <2>3. Private!Describe(p)
    BY <1>5, <2>2, PromiseSteps
  <2> QED
    BY <2>3 DEF Private!PHNext
<1>16. Unset(p) => loc[p].op \in {"PB2_INSERT", "PB2_GET_INFO", "PB2_EXTRACT"}
  BY DEF Unset
<1>17. CASE WriteRefused(p) /\ loc[p].op = "write5"
  <2>1. /\ Found(p)
        /\ \/ OwnHeap(p) # Null /\ Return(p, - EINVAL)
           \/ OwnHeap(p) = Null /\ Return(p, - EACCES)
    <3> HIDE DEF Return, OwnHeap
    <3> QED
      BY <1>17 DEF WriteRefused
  <2>2. /\ p \in Openers
        /\ \/ Queues[p] # None /\ Told(p, "write5", - EINVAL)
           \/ Queues[p] = None /\ Told(p, "write5", - EACCES)
    <3> HIDE DEF Return, OwnHeap
    <3> QED
      BY <1>2, <1>6, <1>17, <2>1, OpsAre
  <2>3. Private!WrongLength(p)
    BY <1>5, <2>2, PromiseSteps
  <2> QED
    BY <2>3 DEF Private!PHNext
<1>18. WriteRefused(p) => loc[p].op \in {"write4", "write5"}
  BY DEF WriteRefused
<1>19. CASE ArgsNotCopied(p) \/ NumNotCopied(p)
  <2>1. /\ Return(p, - EINVAL) /\ p \in BadBuffers /\ loc[p].op \in InsertOps \cup SetUpOps
        /\ pc[p] \in {"copy_args", "copy_num"}
    <3> HIDE DEF Return
    <3>1. ArgumentsOK
      BY DEF A2Inv, A2Types
    <3> QED
      BY <1>19, <3>1 DEF ArgsNotCopied, NumNotCopied, ArgumentsOK, InsertOps, SetUpOps
  <2>2. p \in Openers
    <3>1. pc[p] = "copy_args" => entry \in Listed /\ nodes[entry].key = p
      BY <1>0 DEF OwnerInv, SetUpEntry, SetUpLabels
    <3> QED
      BY <1>4, <1>7, <2>1, <3>1, OwnQueueSeen
  <2>3. Told(p, "write", - EINVAL)
    BY <1>2, <2>1, OpsAre
  <2>4. Private!BadCall(p)
    BY <1>5, <2>1, <2>2, <2>3, PromiseSteps
  <2> QED
    BY <2>4 DEF Private!PHNext
<1>20. CASE InfoNotCopied(p)
  <2>1. pc[p] = "copy_info" /\ loc[p].op = "PB2_GET_INFO" /\ Return(p, - EACCES) /\ p \in BadBuffers
    BY <1>0, <1>20 DEF InfoNotCopied, CallKept
  <2>2. Told(p, "PB2_GET_INFO", - EACCES) /\ p \in Openers
    BY <1>2, <1>7, <2>1, OpsAre
  <2>3. Private!BadCall(p)
    BY <1>5, <2>1, <2>2, PromiseSteps
  <2> QED
    BY <2>3 DEF Private!PHNext
<1> QED
  BY <1>8, <1>9, <1>10, <1>11, <1>12, <1>13, <1>14, <1>15, <1>16, <1>17, <1>18, <1>19, <1>20

(* The other steps show nothing: the answer of the call is known, and the  *)
(* queue that a set-up makes.                                              *)
LEMMA OthersStutter ==
  ASSUME TakeTurns, A2Inv, A2Inv', NEW p \in Pids, AloneStep(p),
         \/ Walk(p) \/ OpenAllocates(p) \/ OpenLocks(p) \/ PrintKeyUnlock(p)
         \/ ReleaseLocks(p) \/ KeyDelClear(p) \/ KeyDelFree(p)
         \/ HeapifyBottomTop(p) \/ InsertReturns(p) \/ HeapifyTopBottom(p)
         \/ WriteKey(p) \/ WriteInit(p) \/ SetType(p) \/ CopyArgs(p)
         \/ InsertByIoctl(p) \/ CopyNum(p) \/ GetInfo(p) \/ GetInfoEmpty(p)
         \/ ExtractEmpty(p) \/ ExtractSize(p) \/ (ExtractReturns(p) /\ loc[p].heap # Null)
         \/ (pc[p] # "init" /\ InitAccepted(p) /\ UNCHANGED globals)
  PROVE  SeenStays /\ Answered' = Answered
<1>0. /\ DeviceTypes(Keys, AnyType) /\ SerialInv /\ CallKept(p) /\ TableInv /\ LabelsOK
      /\ Null \notin DOMAIN heaps /\ DOMAIN pc = Pids /\ DOMAIN loc = Pids
      /\ DOMAIN loc[p] = {"op", "a", "b", "cur", "heap", "idx", "val"}
  BY A2Facts, IdsAreNaturals DEF A2Inv, A2Types, SerialInv, DeviceTypes, HeapsOK, TableInv
<1>1. /\ pc[p] \in Settled => Answered = [pid |-> p, op |-> AbstractOp(loc[p].op), val |-> 0]
      /\ pc[p] \in {"down", "copy_result"} /\ loc[p].heap # Null =>
           Answered = [pid |-> p, op |-> AbstractOp(loc[p].op),
                       val |-> Handed(loc[p])]
      /\ pc[p] \notin Settled \cup {"idle", "down", "copy_result"}
         \/ (pc[p] = "copy_result" /\ loc[p].heap = Null) => Answered = ret
      /\ pc'[p] \in Settled => Told(p, AbstractOp(loc'[p].op), 0)
      /\ pc'[p] \in {"down", "copy_result"} /\ loc'[p].heap # Null =>
           Told(p, AbstractOp(loc'[p].op),
                Handed(loc'[p]))
      /\ pc'[p] \notin Settled \cup {"idle", "down", "copy_result"}
         \/ (pc'[p] = "copy_result" /\ loc'[p].heap = Null) => Answered' = ret'
      /\ \A v : Return(p, v) => Told(p, AbstractOp(loc[p].op), v) /\ pc'[p] = "idle"
  BY AnswersTold
<1> HIDE DEF AbstractOp
<1>2. ASSUME pc[p] \notin {"add", "del", "init", "init_again", "init_store"},
             pc'[p] \notin {"init_again", "init_store"}, ~ Insert(p), ~ PopsOwn(p)
      PROVE  SeenStays
  <2>1. ~ KeyAdd(p) /\ ~ ChangesQueue(p) /\ ~ SettingUp(p) /\ ~ SettingUp(p)'
    BY <1>2 DEF KeyAdd, ChangesQueue, KeyDel, InitStores, InitDestroys, SettingUp
  <2> QED
    BY <2>1, SeenMoves
<1>3. pc[p] # "insert" => ~ Insert(p)
  BY DEF Insert
<1>4. pc[p] # "walk" \/ pc'[p] # "down" => ~ PopsOwn(p)
  BY <1>0 DEF PopsOwn, PopMin, Found, Goto
<1>5. CASE \/ Walk(p) \/ OpenAllocates(p) \/ OpenLocks(p) \/ ReleaseLocks(p)
           \/ WriteKey(p) \/ WriteInit(p) \/ SetType(p) \/ CopyArgs(p)
           \/ InsertByIoctl(p) \/ CopyNum(p) \/ GetInfo(p) \/ GetInfoEmpty(p)
  <2>1. /\ pc[p] \in {"walk", "trylock", "del_trylock", "copy_args", "copy_num", "empty_info"}
        /\ pc'[p] \in {"walk", "trylock", "add", "del", "insert", "init", "copy_args", "copy_num", "empty_info",
                       "copy_info"}
        /\ ret' = ret
    BY <1>0, <1>5 DEF Walk, OpenAllocates, NotFound, OpenLocks, ReleaseLocks, WriteKey, Found, FoundFor, WriteInit,
       SetType, CopyArgs, InsertByIoctl, CopyNum, GetInfo, GetInfoEmpty, Goto
  <2>2. Answered' = Answered
    BY <1>1, <2>1 DEF Settled
  <2> QED
    BY <1>2, <1>3, <1>4, <2>1, <2>2
<1>6. CASE PrintKeyUnlock(p) \/ InsertReturns(p)
  <2>1. pc[p] \in {"print", "up"} /\ Return(p, 0)
    BY <1>0, <1>6 DEF PrintKeyUnlock, InsertReturns
  <2>2. pc'[p] = "idle" /\ Told(p, AbstractOp(loc[p].op), 0)
    BY <1>1, <2>1
  <2>3. Answered' = Answered
    BY <1>1, <2>1, <2>2 DEF Settled, Told
  <2> QED
    BY <1>2, <1>3, <1>4, <2>1, <2>2, <2>3
<1>7. CASE KeyDelClear(p) \/ KeyDelFree(p)
  <2>1. /\ pc[p] \in {"del_clear", "del_free"} /\ pc'[p] \in {"del_free", "print"}
        /\ loc'[p].op = loc[p].op
    BY <1>0, <1>7 DEF KeyDelClear, KeyDelFree, Goto
  <2>2. Answered' = Answered
    BY <1>1, <2>1 DEF Settled, Told
  <2> QED
    BY <1>2, <1>3, <1>4, <2>1, <2>2
<1>8. CASE HeapifyBottomTop(p) \/ HeapifyTopBottom(p)
  <2>1. /\ pc' = pc /\ pc[p] \in {"up", "down"}
        /\ loc'[p].op = loc[p].op /\ loc'[p].heap = loc[p].heap /\ loc'[p].val = loc[p].val
        /\ loc'[p].a = loc[p].a
    <3> HIDE DEF Sink, Parent
    <3> QED
      BY <1>0, <1>8 DEF HeapifyBottomTop, HeapifyTopBottom
  <2>2. pc[p] = "down" => loc[p].heap # Null
    BY <1>0 DEF CallKept
  <2>3. Answered' = Answered
    BY <1>1, <2>1, <2>2 DEF Settled, Told, Handed
  <2> QED
    BY <1>2, <1>3, <1>4, <2>1, <2>3
<1>9. CASE ExtractEmpty(p)
  <2>1. pc[p] = "walk" /\ pc'[p] = "extracted" /\ ret' = ret
    BY <1>0, <1>9 DEF ExtractEmpty, FoundFor, Found, Goto
  <2>2. Answered' = Answered
    BY <1>1, <2>1 DEF Settled
  <2> QED
    BY <1>2, <1>3, <1>4, <2>1, <2>2
<1>10. CASE ExtractSize(p)
  <2>1. /\ pc[p] \in {"down", "extracted"} /\ pc'[p] = "copy_result" /\ ret' = ret
        /\ loc'[p].op = loc[p].op /\ loc'[p].heap = loc[p].heap /\ loc'[p].val = loc[p].val
        /\ loc'[p].a = loc[p].a
    BY <1>0, <1>10 DEF ExtractSize, Popped, Goto
  <2>2. (pc[p] = "down") <=> (loc[p].heap # Null)
    BY <1>0, <2>1 DEF CallKept
  <2>3. Answered' = Answered
    BY <1>1, <2>1, <2>2 DEF Settled, Told, Handed
  <2> QED
    BY <1>2, <1>3, <1>4, <2>1, <2>3
<1>11. CASE ExtractReturns(p) /\ loc[p].heap # Null
  <2>1. pc[p] = "copy_result"
    BY <1>11 DEF ExtractReturns
  <2>2. Return(p, Handed(loc[p]))
    BY <1>11 DEF ExtractReturns, Handed, CopyFails
  <2>3. pc'[p] = "idle" /\ Answered' = Answered
    BY <1>1, <1>11, <2>1, <2>2 DEF Told
  <2> QED
    BY <1>2, <1>3, <1>4, <2>1, <2>3
<1>12. CASE pc[p] # "init" /\ InitAccepted(p) /\ UNCHANGED globals
  <2>1. SeenStays /\ SettingUp(p) /\ ((SettingUp(p)' /\ loc'[p].op = loc[p].op) \/ Return(p, 0))
    BY <1>12, SetUpMoves
  <2>2. Answered' = Answered
    <3> HIDE DEF Return
    <3> QED
      BY <1>1, <2>1 DEF SettingUp, Settled, Told
  <2> QED
    BY <2>1, <2>2
<1> QED
  BY <1>5, <1>6, <1>7, <1>8, <1>9, <1>10, <1>11, <1>12

(* A call that finds no entry, or the mutex held, is not among the steps   *)
(* of processes that take turns; dev_read is not called.                   *)
LEMMA TurnsNeverMiss ==
  ASSUME TakeTurns, A2Inv, NEW p \in Pids
  PROVE  /\ ~ NoEntry(p) /\ ~ OpenBusy(p) /\ ~ ReleaseBusy(p) /\ ~ KeyDelNone(p)
         /\ ~ ReadPops(p) /\ ~ ReadEmpty(p) /\ ~ ReadUnset(p) /\ ~ ReadSetsTopnode(p) /\ ~ CopyToUser(p)
         /\ ~ ReadReturns(p)
<1>0. /\ DeviceTypes(Keys, AnyType) /\ MutexInv /\ SerialInv /\ TableInv /\ FilesMatch /\ CallKept(p)
  BY A2Facts DEF A2Inv, SerialInv, TurnsInv
<1>1. ~ OpenBusy(p) /\ ~ ReleaseBusy(p) /\ ~ KeyDelNone(p)
  BY <1>0, TurnsNeverFail
<1>2. ASSUME NoEntry(p)
      PROVE  FALSE
  <2>1. pc[p] = "walk" /\ NotFound(p) /\ files[p] > 0
    BY <1>0, <1>2 DEF NoEntry, NotFound, CallKept
  <2>2. Loaded
    BY <1>0, <2>1 DEF MutexInv, Quiet, Idle
  <2>3. \A n \in Listed : nodes[n].key # p
    BY <1>0, <2>1, <2>2, NotFoundIsNone DEF SerialInv, AloneInv, DeviceTypes, TableInv
  <2>4. Cardinality(EntriesOf(p)) = 0
    BY <2>3, FS_EmptySet DEF EntriesOf
  <2>5. files[p] = 0
    BY <1>0, <2>1, <2>4 DEF FilesMatch, Held, Pending, DeviceTypes, GlobalsOK
  <2> QED
    BY <2>1, <2>5
<1>3. ~ ReadPops(p) /\ ~ ReadEmpty(p) /\ ~ ReadUnset(p) /\ ~ ReadSetsTopnode(p) /\ ~ CopyToUser(p)
      /\ ~ ReadReturns(p)
  BY <1>0 DEF CallKept, ReadPops, ReadEmpty, ReadUnset, ReadSetsTopnode, CopyToUser, ReadReturns, Found, Popped
<1> QED
  BY <1>1, <1>2, <1>3

(* The promise sees only these three.                                      *)
SeenIsAll == Private!phVars = <<Openers, Queues, Answered>>

LEMMA SeenIs == SeenIsAll
BY PromiseIs DEF SeenIsAll

LEMMA SeenIsNext == SeenIsAll'
BY SeenIs, PTL

LEMMA SeenUnchanged ==
  ASSUME SeenStays, Answered' = Answered
  PROVE  UNCHANGED Private!phVars
<1>1. Private!phVars = <<Openers, Queues, Answered>>
  BY SeenIs DEF SeenIsAll
<1>2. Private!phVars' = <<Openers', Queues', Answered'>>
  BY SeenIsNext DEF SeenIsAll
<1> QED
  BY <1>1, <1>2 DEF SeenStays

(* A call that is rejected at once, while nobody else is in one.           *)
LEMMA RejectionsRefine ==
  ASSUME TakeTurns, A2Inv, NEW p \in Pids, RejectedCall(p), UNCHANGED globals
  PROVE  Private!PHNext
<1>0. /\ DeviceTypes(Keys, AnyType) /\ MutexInv /\ TableInv /\ FilesMatch /\ LabelsOK
  BY A2Facts DEF A2Inv, A2Types, SerialInv, TurnsInv, TableInv
<1>1. PICK op, e : /\ Rejected(p, op, e)
                   /\ \/ op = "read" /\ e = EINVAL
                      \/ op = "write4" /\ e \in {EINVAL, ENOBUFS}
  BY DEF RejectedCall
<1>2. Quiet /\ Quiet'
  <2>1. Idle(p) /\ \A q \in Pids \ {p} : pc[q] = "idle"
    BY <1>1 DEF Rejected, MayCall, TakeTurns
  <2> QED
    BY <1>1, <2>1 DEF Rejected, Quiet, Idle
<1>3. Told(p, AbstractOp(op), - e)
  <2>1. ret' = [pid |-> p, op |-> op, val |-> - e]
    BY <1>1 DEF Rejected
  <2>2. Answered' = [ret' EXCEPT !.op = AbstractOp(@)]
    BY <1>2 DEF Answered, AbstractOp
  <2> QED
    BY <2>1, <2>2 DEF Told
<1>4. SeenStays
  <2>1. Untouched
    BY <1>1 DEF Rejected, Untouched
  <2>2. Openers' = Openers /\ \A q \in Pids : QueueOf(q, Keys)' = QueueOf(q, Keys)
    BY <2>1, QueuesUnchanged DEF Keys
  <2>3. \A q \in Pids : ~ SettingUp(q) /\ ~ SettingUp(q)'
    BY <1>2 DEF Quiet, Idle, SettingUp
  <2> QED
    BY <2>2, <2>3 DEF SeenStays, Queues, QueueSeen
<1>5. p \in Openers
  <2>1. files[p] > 0 /\ Loaded /\ pc[p] = "idle"
    BY <1>1, <1>2 DEF Rejected, MayCall, Quiet, Idle
  <2>2. EntriesOf(p) # {}
    <3> SUFFICES ASSUME EntriesOf(p) = {} PROVE FALSE
      OBVIOUS
    <3>1. Cardinality(EntriesOf(p)) = 0
      BY FS_EmptySet
    <3>2. files[p] = 0
      BY <1>0, <2>1, <3>1 DEF FilesMatch, Held, Pending, DeviceTypes, GlobalsOK
    <3> QED
      BY <2>1, <3>2
  <2> QED
    BY <2>2 DEF EntriesOf, Openers
<1>6. p \in BadBuffers
  BY <1>1 DEF Rejected
<1>7. Private!BadCall(p)
  BY <1>1, <1>3, <1>4, <1>5, <1>6, PromiseSteps DEF AbstractOp
<1> QED
  BY <1>7 DEF Private!PHNext

(* Every step of A2 is a step of the promise, or none.                     *)
LEMMA A2RefinementStep ==
  ASSUME TakeTurns, TypesAsMeant, "read" \notin Ops, EmptyPop = 0, A2Inv, A2Inv', [Next]_vars
  PROVE  [Private!PHNext]_(Private!phVars)
<1>1. ASSUME NEW p \in Pids, NewCall(p), UNCHANGED globals
      PROVE  Private!Invoke
  <2>1. AloneStep(p)
    BY <1>1, A2StepIsShared
  <2>2. pc'[p] \in {"walk", "del_trylock"} /\ ret' = NoAnswer
    BY <1>1, CallIsKept
  <2>3. Answered' = NoAnswer
    BY <2>1, <2>2, AnswersTold DEF Settled
  <2>4. pc[p] = "idle"
    BY <1>1 DEF NewCall, DeviceCall, OpenCall, ReleaseCall, ReadCall, WriteKeyCall, WriteInitCall, WriteOtherCall, SetTypeCall,
       InsertCall, GetInfoCall, ExtractCall, Call, MayCall, Idle
  <2>5. ~ KeyAdd(p) /\ ~ ChangesQueue(p) /\ ~ SettingUp(p) /\ ~ SettingUp(p)'
    BY <2>2, <2>4 DEF KeyAdd, ChangesQueue, Insert, PopsOwn, Found, KeyDel, InitStores, InitDestroys, SettingUp
  <2>6. SeenStays
    BY <2>1, <2>5, SeenMoves
  <2> QED
    BY <2>3, <2>6, PromiseIs
<1>2. ASSUME NEW p \in Pids, Step(p)
      PROVE  Private!PHNext \/ (SeenStays /\ Answered' = Answered)
  <2>1. AloneStep(p)
    BY <1>2, A2StepIsShared
  <2>2. /\ ~ NoEntry(p) /\ ~ OpenBusy(p) /\ ~ ReleaseBusy(p) /\ ~ KeyDelNone(p)
        /\ ~ ReadPops(p) /\ ~ ReadEmpty(p) /\ ~ ReadUnset(p) /\ ~ ReadSetsTopnode(p) /\ ~ CopyToUser(p)
        /\ ~ ReadReturns(p)
    BY TurnsNeverMiss
  <2>3. \/ KeyAdd(p) \/ KeyDel(p) \/ Insert(p) \/ Extract(p)
        \/ OpenTwice(p) \/ InsertFull(p) \/ WriteRefused(p) \/ InitRefused(p) \/ Unset(p)
        \/ ExtractReturns(p) \/ CopyInfo(p)
        \/ ArgsNotCopied(p) \/ NumNotCopied(p) \/ InfoNotCopied(p)
        \/ Walk(p) \/ OpenAllocates(p) \/ OpenLocks(p) \/ PrintKeyUnlock(p)
        \/ ReleaseLocks(p) \/ KeyDelClear(p) \/ KeyDelFree(p)
        \/ HeapifyBottomTop(p) \/ InsertReturns(p) \/ HeapifyTopBottom(p)
        \/ WriteKey(p) \/ WriteInit(p) \/ SetType(p) \/ CopyArgs(p)
        \/ InsertByIoctl(p) \/ CopyNum(p) \/ GetInfo(p) \/ GetInfoEmpty(p)
        \/ ExtractEmpty(p) \/ ExtractSize(p)
        \/ (InitAccepted(p) /\ UNCHANGED globals)
    BY <1>2, <2>2 DEF Step, DeviceStep
  <2>4. CASE \/ KeyAdd(p) \/ KeyDel(p) \/ Insert(p) \/ Extract(p)
             \/ (pc[p] = "init" /\ InitAccepted(p) /\ UNCHANGED globals)
    BY <2>1, <2>4, EffectsRefine
  <2>5. CASE \/ OpenTwice(p) \/ InsertFull(p) \/ WriteRefused(p) \/ InitRefused(p) \/ Unset(p)
             \/ (ExtractReturns(p) /\ loc[p].heap = Null)
             \/ CopyInfo(p) \/ ArgsNotCopied(p) \/ NumNotCopied(p) \/ InfoNotCopied(p)
    BY <2>1, <2>5, RefusalsRefine
  <2>6. CASE \/ Walk(p) \/ OpenAllocates(p) \/ OpenLocks(p) \/ PrintKeyUnlock(p)
             \/ ReleaseLocks(p) \/ KeyDelClear(p) \/ KeyDelFree(p)
             \/ HeapifyBottomTop(p) \/ InsertReturns(p) \/ HeapifyTopBottom(p)
             \/ WriteKey(p) \/ WriteInit(p) \/ SetType(p) \/ CopyArgs(p)
             \/ InsertByIoctl(p) \/ CopyNum(p) \/ GetInfo(p) \/ GetInfoEmpty(p)
             \/ ExtractEmpty(p) \/ ExtractSize(p) \/ (ExtractReturns(p) /\ loc[p].heap # Null)
             \/ (pc[p] # "init" /\ InitAccepted(p) /\ UNCHANGED globals)
    BY <2>1, <2>6, OthersStutter
  <2> QED
    BY <2>3, <2>4, <2>5, <2>6
<1>3. CASE UNCHANGED vars
  <2>1. Untouched /\ UNCHANGED globals /\ ret' = ret
    BY <1>3 DEF vars, Untouched, globals
  <2>2. SeenStays
    <3>1. Openers' = Openers /\ \A p \in Pids : QueueOf(p, Keys)' = QueueOf(p, Keys)
      BY <2>1, QueuesUnchanged DEF Keys
    <3>2. \A p \in Pids : SettingUp(p)' = SettingUp(p) /\ NewQueue(p)' = NewQueue(p)
      BY <2>1 DEF Untouched, globals, SettingUp, NewQueue, TypeGiven, SizeGiven, ByIoctl, Keys
    <3> QED
      BY <3>1, <3>2 DEF SeenStays, Queues, QueueSeen
  <2>3. Answered' = Answered
    BY <2>1 DEF Untouched, Answered, Quiet, Idle, Answer, SettingUp, AbstractOp, CopyFails
  <2> QED
    BY <2>2, <2>3, SeenUnchanged
<1>4. CASE HelloExit \/ HelloInit
  <2>0. DeviceTypes(Keys, AnyType) /\ DeviceTypes(Keys, AnyType)' /\ MutexInv /\ TableInv /\ TurnsInv
    BY DEF A2Inv, A2Types, SerialInv
  <2>1. Quiet /\ Listed' = {} /\ pc' = pc /\ ret' = ret
    BY <1>4, <2>0, LoadingMovesList DEF HelloExit, HelloInit
  <2>2. Listed = {}
    <3>1. CASE HelloExit
      BY <2>0, <2>1, <3>1, NothingOpen DEF HelloExit
    <3>2. CASE HelloInit
      BY <3>2, NotLoaded DEF HelloInit
    <3> QED
      BY <1>4, <3>1, <3>2
  <2>3. \A p \in Pids : QueueOf(p, Keys) = [bag |-> << >>] /\ QueueOf(p, Keys)' = [bag |-> << >>]
    BY <2>1, <2>2, NoQueueIs, NoQueueIsNext DEF NoneNone
  <2>4. SeenStays
    <3>1. \A p \in Pids : ~ SettingUp(p) /\ ~ SettingUp(p)'
      BY <2>1 DEF SettingUp, Quiet, Idle
    <3> QED
      BY <2>1, <2>2, <2>3, <3>1 DEF SeenStays, Openers, Queues, QueueSeen
  <2>5. Answered' = Answered
    BY <2>1 DEF Answered, Quiet, Idle, AbstractOp
  <2> QED
    BY <2>4, <2>5, SeenUnchanged
<1>5. ASSUME SeenStays, Answered' = Answered
      PROVE  UNCHANGED Private!phVars
  BY <1>5, SeenUnchanged
<1> QED
  BY <1>1, <1>2, <1>3, <1>4, <1>5, RejectionsRefine DEF Next, Load, Private!PHNext

(* The module keeps the promise of its README: each process that opens the *)
(* device has a priority queue of its own, from its open to its close.  No *)
(* call touches another's queue; a set-up, by write or by PB2_SET_TYPE,    *)
(* makes an empty one; a write or PB2_INSERT adds its key, PB2_EXTRACT     *)
(* takes and answers the least or greatest key there is, PB2_GET_INFO      *)
(* describes the queue.  A call that cannot, or whose buffer is bad, is    *)
(* refused and changes nothing, except that PB2_EXTRACT has popped the key *)
(* already when it finds that the key is 0, which it takes for the NULL of *)
(* an empty heap, or cannot be copied to the user: that key is lost.  It   *)
(* is proved for any keys, for processes that take turns, each with the    *)
(* memory for a Heap, and under two conditions that the code needs: nobody *)
(* calls dev_read, which still answers an empty heap with the NULL of      *)
(* PopMin as if it were a key; and each call names the types by its own    *)
(* numbers (0xFF or 0xF0 by write, 0 or 1 by ioctl), and a min-heap by     *)
(* ioctl only, since the heap made by write keeps the byte 0xFF as its     *)
(* type and works as a max-heap.                                           *)
THEOREM A2ImplementsPrivateHeaps ==
  ASSUME TakeTurns, HeapsSuffice, TypesAsMeant, "read" \notin Ops, EmptyPop = 0
  PROVE  Spec => ImplementsPrivateHeaps
<1>1. A2Init => Private!PHInit
  <2> SUFFICES ASSUME A2Init PROVE Private!PHInit
    OBVIOUS
  <2>1. Listed = {} /\ Quiet /\ ret = NoAnswer /\ \A p \in Pids : ~ SettingUp(p)
    BY InitHasTypes, InitTable DEF A2Init, Init, A2Types, Quiet, Idle, SettingUp
  <2>2. \A p \in Pids : QueueOf(p, Keys) = None
    BY <2>1, NoQueueIs DEF NoneNone, None
  <2>3. Answered = NoAnswer
    <3>1. NoAnswer.op = "none" /\ [NoAnswer EXCEPT !.op = "none"] = NoAnswer
      BY DEF NoAnswer
    <3> QED
      BY <2>1, <3>1 DEF Answered, AbstractOp
  <2> QED
    BY <2>1, <2>2, <2>3, PromiseIs DEF Openers, Queues, QueueSeen
<1>2. A2Inv /\ A2Inv' /\ [Next]_vars => [Private!PHNext]_(Private!phVars)
  BY A2RefinementStep
<1>3. Spec => []A2Inv
  BY A2CallInvariant
<1> QED
  BY <1>1, <1>2, <1>3, PTL DEF Spec, ImplementsPrivateHeaps, Private!PHSpec
=============================================================================
