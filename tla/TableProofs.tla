---------------------------- MODULE TableProofs -----------------------------
(***************************************************************************)
(* The list of processes and their heaps while handlers overlap: when an   *)
(* open overlaps with nothing but closes, the list stays a list and has an *)
(* entry for every open file; when closes overlap with anything and the    *)
(* calls that use a heap with each other, a listed process has a heap of   *)
(* its own.                                                                *)
(***************************************************************************)
EXTENDS DeviceProofs

(* Which calls the processes let overlap: what these theorems assume.      *)
OpensOverlapCloses == \A pair \in MayOverlap : "open" \in pair => "release" \in pair

(* Calls that are under way together are such a pair.                      *)
Apart ==
  \A p, q \in Pids : p # q /\ ~ Idle(p) /\ ~ Idle(q) => {loc[p].op, loc[q].op} \in MayOverlap

(* Which call is at a label.                                               *)
Opening     == {"trylock", "add"}
Deleting    == {"del_trylock", "del", "del_clear", "del_free"}
SetUpLabels == {"copy_args", "init", "init_again", "init_store"}

LabelsOK ==
  \A p \in Pids :
    /\ pc[p] \in Opening => loc[p].op = "open"
    /\ pc[p] \in Deleting => loc[p].op = "release"
    /\ pc[p] = "print" => loc[p].op \in {"open", "release"}
    /\ pc[p] \in SetUpLabels => loc[p].op \in SetUpOps
    /\ loc[p].op = "release" => pc[p] \in Deleting \cup {"print", "idle"}

ListedKeys == \A n \in Listed : nodes[n].key \in Pids

(* An open has its new h_struct in the global entry until key_add has put  *)
(* it into the list ...                                                    *)
FreshEntry ==
  \A p \in Pids : pc[p] \in Opening =>
    /\ entry \in DOMAIN nodes \ (Listed \cup {Htable})
    /\ nodes[entry].key = p /\ nodes[entry].global_heap = Null

(* ... and key_del has an h_struct that nobody finds any more.             *)
Unlinked ==
  \A p \in Pids : pc[p] \in {"del_clear", "del_free"} =>
    /\ loc[p].cur \in DOMAIN nodes \ (Listed \cup {Htable})
    /\ nodes[loc[p].cur].key = p
    /\ nodes[loc[p].cur].next \in Listed \cup {Null}

TableInv == Apart /\ LabelsOK /\ ListOK /\ ListedKeys /\ FreshEntry /\ Unlinked

(* The files of p, with those whose open or close has the entry yet.       *)
Pending(p) == pc[p] \in {"del_trylock", "del"} \/ (pc[p] = "print" /\ loc[p].op = "open")
Held(p) == files[p] + IF Pending(p) THEN 1 ELSE 0

FilesCounted == \A p \in Pids : Held(p) <= Cardinality(EntriesOf(p))

(* Where a step of p leaves the call of p.                                 *)
LEMMA StepLabels ==
  ASSUME NEW K, CallsOK(K), LabelsOK, NEW p \in Pids, TableStep(p) \/ SetUpStep(p) \/ Plain(p)
  PROVE  /\ ~ Idle(p)
         /\ pc'[p] # "idle" => loc'[p].op = loc[p].op
         /\ pc'[p] \in Opening => loc[p].op = "open"
         /\ pc'[p] \in Deleting => loc[p].op = "release"
         /\ pc'[p] = "print" => loc[p].op \in {"open", "release"}
         /\ pc'[p] \in SetUpLabels => loc[p].op \in SetUpOps
         /\ pc'[p] \notin Deleting \cup {"print", "idle"} => loc[p].op # "release"
<1>1. /\ DOMAIN pc = Pids /\ DOMAIN loc = Pids
      /\ DOMAIN loc[p] = {"op", "a", "b", "cur", "heap", "idx", "val"}
  BY DEF CallsOK, Calls
<1>2. /\ pc[p] \in Opening => loc[p].op = "open"
      /\ pc[p] \in Deleting => loc[p].op = "release"
      /\ pc[p] = "print" => loc[p].op \in {"open", "release"}
      /\ pc[p] \in SetUpLabels => loc[p].op \in SetUpOps
      /\ loc[p].op = "release" => pc[p] \in Deleting \cup {"print", "idle"}
  BY DEF LabelsOK
<1>3. CASE TableStep(p)
  <2>1. CASE Walk(p)
    BY <1>1, <1>2, <2>1 DEF Walk, Idle, Opening, Deleting, SetUpLabels
  <2>2. CASE OpenAllocates(p) \/ OpenLocks(p) \/ KeyAdd(p)
    BY <1>1, <1>2, <2>2 DEF OpenAllocates, NotFound, OpenLocks, KeyAdd, Goto, Idle, Opening, Deleting,
                            SetUpLabels
  <2>3. CASE OpenBusy(p) \/ ReleaseBusy(p) \/ PrintKeyUnlock(p)
    <3>1. pc'[p] = "idle" /\ loc'[p].op = "none" /\ pc[p] # "idle"
      BY <1>1, <2>3 DEF OpenBusy, ReleaseBusy, PrintKeyUnlock, Return, Goto, NoCall
    <3> QED
      BY <3>1 DEF Idle, Opening, Deleting, SetUpLabels
  <2>4. CASE ReleaseLocks(p) \/ KeyDelClear(p) \/ KeyDelNone(p)
    BY <1>1, <1>2, <2>4 DEF ReleaseLocks, KeyDelClear, KeyDelNone, Goto, Idle, Opening, Deleting, SetUpLabels
  <2>5. CASE KeyDel(p) \/ KeyDelFree(p)
    <3>1. pc[p] \in {"del", "del_free"} /\ pc'[p] \in {"del_clear", "print"} /\ loc'[p].op = loc[p].op
      <4>1. CASE KeyDel(p)
        <5>1. PICK n, h : loc' = [loc EXCEPT ![p].cur = n, ![p].heap = h]
          BY <4>1 DEF KeyDel
        <5> QED
          BY <1>1, <4>1, <5>1 DEF KeyDel, Goto
      <4>2. CASE KeyDelFree(p)
        BY <1>1, <4>2 DEF KeyDelFree, Goto
      <4> QED
        BY <2>5, <4>1, <4>2
    <3> QED
      BY <1>2, <3>1 DEF Idle, Opening, Deleting, SetUpLabels
  <2> QED
    BY <1>3, <2>1, <2>2, <2>3, <2>4, <2>5 DEF TableStep
<1>4. CASE SetUpStep(p)
  <2>1. /\ pc[p] \in {"init", "init_again", "init_store"}
        /\ \/ pc'[p] \in {"init_again", "init_store"} /\ loc'[p].op = loc[p].op
           \/ pc'[p] = "idle" /\ loc'[p].op = "none"
    BY <1>1, <1>4 DEF SetUpStep, InitCreates, InitCreatesAgain, InitDestroys, InitStores, CreateHeap, Return,
                      Goto, NoCall
  <2> QED
    BY <1>2, <2>1 DEF Idle, Opening, Deleting, SetUpLabels, SetUpOps
<1>5. CASE Plain(p)
  BY <1>1, <1>2, <1>5 DEF Plain, Marked, Idle, Opening, Deleting, SetUpLabels
<1> QED
  BY <1>3, <1>4, <1>5

(* Calls stay apart, and at the labels of their handlers.                  *)
LEMMA StepKeepsLabels ==
  ASSUME NEW K, CallsOK(K), Apart, LabelsOK, SharedNext
  PROVE  Apart' /\ LabelsOK'
<1>0. DOMAIN pc = Pids /\ DOMAIN loc = Pids
  BY DEF CallsOK
<1>1. ASSUME NEW p \in Pids, AnyCall(p)
      PROVE  Apart' /\ LabelsOK'
  <2>1. PICK op \in Ops : /\ loc'[p].op = op /\ MayCall(p, op)
                          /\ \/ pc'[p] = "walk" /\ op # "release"
                             \/ pc'[p] = "del_trylock" /\ op = "release"
    <3>1. CASE ReleaseCall(p)
      BY <1>0, <3>1 DEF ReleaseCall, MayCall, Goto, NoCall
    <3>2. CASE \E op, a, b : op # "release" /\ Call(p, op, a, b)
      <4>1. PICK op, a, b : op # "release" /\ Call(p, op, a, b)
        BY <3>2
      <4>2. MayCall(p, op) /\ op \in Ops
        BY <4>1 DEF Call, MayCall
      <4>3. loc'[p].op = op /\ pc'[p] = "walk"
        BY <1>0, <4>1 DEF Call, Goto, NoCall
      <4> QED
        BY <4>1, <4>2, <4>3
    <3> QED
      BY <1>1, <3>1, <3>2 DEF AnyCall
  <2>2. \A q \in Pids : q # p => pc'[q] = pc[q] /\ loc'[q] = loc[q]
    BY <1>1, StepsAreOfOne
  <2>3. \A q \in Pids \ {p} : pc[q] # "idle" => {op, loc[q].op} \in MayOverlap
    BY <2>1 DEF MayCall
  <2>4. Apart'
    <3> SUFFICES ASSUME NEW q \in Pids, NEW r \in Pids, q # r, pc'[q] # "idle", pc'[r] # "idle"
                 PROVE  {loc'[q].op, loc'[r].op} \in MayOverlap
      BY DEF Apart, Idle
    <3>1. CASE q = p
      BY <2>1, <2>2, <2>3, <3>1
    <3>2. CASE r = p
      <4>1. {loc'[q].op, loc'[r].op} = {op, loc[q].op}
        BY <2>1, <2>2, <3>2
      <4> QED
        BY <2>2, <2>3, <3>2, <4>1
    <3>3. CASE q # p /\ r # p
      BY <2>2, <3>3 DEF Apart, Idle
    <3> QED
      BY <3>1, <3>2, <3>3
  <2>5. LabelsOK'
    BY <2>1, <2>2 DEF LabelsOK, Opening, Deleting, SetUpLabels
  <2> QED
    BY <2>4, <2>5
<1>2. ASSUME NEW p \in Pids, TableStep(p) \/ SetUpStep(p) \/ Plain(p)
      PROVE  Apart' /\ LabelsOK'
  <2>1. \A q \in Pids : q # p => pc'[q] = pc[q] /\ loc'[q] = loc[q]
    BY <1>2, StepsAreOfOne
  <2>2. /\ ~ Idle(p)
        /\ pc'[p] # "idle" => loc'[p].op = loc[p].op
        /\ pc'[p] \in Opening => loc[p].op = "open"
        /\ pc'[p] \in Deleting => loc[p].op = "release"
        /\ pc'[p] = "print" => loc[p].op \in {"open", "release"}
        /\ pc'[p] \in SetUpLabels => loc[p].op \in SetUpOps
        /\ pc'[p] \notin Deleting \cup {"print", "idle"} => loc[p].op # "release"
    BY <1>2, StepLabels
  <2>3. Apart'
    BY <2>1, <2>2 DEF Apart, Idle
  <2>4. LabelsOK'
    BY <2>1, <2>2 DEF LabelsOK, Opening, Deleting, SetUpLabels
  <2> QED
    BY <2>3, <2>4
<1>3. CASE HelloExit \/ HelloInit
  BY <1>3 DEF HelloExit, HelloInit, Apart, LabelsOK, Idle
<1> QED
  BY <1>1, <1>2, <1>3 DEF SharedNext

(* While an open has its h_struct in the global entry, the others close.   *)
LEMMA OthersClose ==
  ASSUME OpensOverlapCloses, Apart, LabelsOK, NEW p \in Pids, pc[p] \in Opening,
         NEW q \in Pids, q # p, ~ Idle(q)
  PROVE  loc[q].op = "release" /\ pc[q] \in Deleting \cup {"print"}
<1>1. loc[p].op = "open" /\ ~ Idle(p)
  BY DEF LabelsOK, Opening, Idle
<1>2. {loc[p].op, loc[q].op} \in MayOverlap
  BY <1>1 DEF Apart
<1>3. "release" \in {"open", loc[q].op}
  BY <1>1, <1>2 DEF OpensOverlapCloses
<1> QED
  BY <1>3 DEF LabelsOK, Idle
-----------------------------------------------------------------------------
(* The steps change the list in key_add and key_del only, and no key.      *)
Unchanged(p) == Listed' = Listed /\ ~ KeyAdd(p) /\ ~ KeyDel(p)

Adds(p) == KeyAdd(p) /\ Listed' = Listed \cup {entry}

Deletes(p) ==
  LET n == loc'[p].cur
  IN  /\ KeyDel(p)
      /\ n \in Listed /\ n # Htable /\ nodes[n].key = p
      /\ Listed' = Listed \ {n}
      /\ nodes'[n].next \in Listed' \cup {Null}
      /\ nodes'[n].global_heap = nodes[n].global_heap

KeysKept ==
  \A n \in DOMAIN nodes \cap DOMAIN nodes' : nodes'[n].key = nodes[n].key

LEMMA StepMovesList ==
  ASSUME NEW K, NEW T, DeviceTypes(K, T), DeviceTypes(K, T)', MutexInv, TableInv, NEW p \in Pids,
         AnyCall(p) \/ TableStep(p) \/ SetUpStep(p) \/ Plain(p)
  PROVE  /\ ListOK' /\ Loaded /\ Loaded' /\ KeysKept
         /\ Unchanged(p) \/ Adds(p) \/ Deletes(p)
<1> USE DEF DeviceTypes
<1>0. /\ DOMAIN pc = Pids /\ DOMAIN loc = Pids /\ Addresses /\ Addresses' /\ ListOK
      /\ \A n \in DOMAIN nodes : nodes[n] \in Nodes
      /\ Htable \notin NodeIds
  BY IdsAreNaturals DEF CallsOK, NodesOK, TableInv
<1>1. Loaded
  BY DEF AnyCall, Call, ReleaseCall, MayCall, MutexInv, Quiet, Idle, TableStep, SetUpStep, Plain, Walk,
         OpenAllocates, NotFound, OpenBusy, OpenLocks, KeyAdd, ReleaseBusy, ReleaseLocks, KeyDel,
         KeyDelClear, KeyDelFree, KeyDelNone, PrintKeyUnlock, InitCreates, InitCreatesAgain,
         InitDestroys, InitStores
<1>2. Listed \subseteq NodeIds \cap DOMAIN nodes
  BY <1>0, <1>1, ListedAre
<1>3. CASE KeyAdd(p)
  <2>1. entry \in DOMAIN nodes \ (Listed \cup {Htable})
    BY <1>3 DEF KeyAdd, TableInv, FreshEntry, Opening
  <2> DEFINE linked == [nodes EXCEPT ![entry].next = nodes[Htable].next]
  <2>2. nodes' = [linked EXCEPT ![Htable].next = entry]
    BY <1>3 DEF KeyAdd
  <2>3. /\ DOMAIN linked = DOMAIN nodes /\ linked[entry].next = nodes[Htable].next
        /\ \A n \in DOMAIN nodes : /\ linked[n].key = nodes[n].key
                                   /\ linked[n] \in Nodes
                                   /\ n # entry => linked[n] = nodes[n]
    <3>1. nodes[Htable].next \in NodeIds \cup {Null} /\ nodes[entry] \in Nodes
      BY <1>0, <1>1, <2>1 DEF Loaded, Nodes
    <3> QED
      BY <1>0, <2>1, <3>1 DEF Nodes
  <2> HIDE DEF linked
  <2>4. /\ DOMAIN nodes' = DOMAIN nodes /\ nodes'[entry].next = nodes[Htable].next
        /\ nodes'[Htable].next = entry
        /\ \A n \in DOMAIN nodes : nodes'[n].key = nodes[n].key
        /\ \A n \in Listed : nodes'[n].next = nodes[n].next
    BY <1>0, <1>1, <1>2, <2>1, <2>2, <2>3 DEF Loaded, Nodes
  <2>5. ListOK' /\ Listed' = Listed \cup {entry} /\ Loaded'
    BY <1>0, <1>1, <2>1, <2>4, ListAdds
  <2> QED
    BY <1>1, <1>3, <2>4, <2>5 DEF Adds, KeysKept
<1>4. CASE KeyDel(p)
  <2>1. PICK i \in 1 .. MaxNodes + 1 :
          /\ FirstOwn(p, i)
          /\ nodes' = [nodes EXCEPT ![Visit[i-1]].next = nodes[Visit[i]].next]
          /\ loc' = [loc EXCEPT ![p].cur = Visit[i], ![p].heap = nodes[Visit[i]].global_heap]
    BY <1>4 DEF KeyDel
  <2> DEFINE n == Visit[i]
  <2>2. n \in DOMAIN nodes /\ nodes[n].key = p
    BY <2>1 DEF FirstOwn, OwnAt
  <2>3. /\ ListOK' /\ n \in Listed /\ Listed' = Listed \ {n} /\ Loaded'
        /\ Visit[i-1] # n /\ Visit[i-1] \in DOMAIN nodes
        /\ nodes[n].next \in Listed' \cup {Null}
    BY <1>0, <1>1, <2>1, <2>2, ListDeletes
  <2>4. loc'[p].cur = n
    <3>1. DOMAIN loc[p] = {"op", "a", "b", "cur", "heap", "idx", "val"}
      BY DEF CallsOK, Calls
    <3> HIDE DEF n
    <3> QED
      BY <1>0, <2>1, <3>1 DEF n
  <2>5. nodes'[n] = nodes[n] /\ DOMAIN nodes' = DOMAIN nodes
    BY <2>1, <2>2, <2>3
  <2>6. \A m \in DOMAIN nodes : nodes'[m].key = nodes[m].key
    BY <1>0, <2>1, <2>3 DEF Nodes
  <2>7. n # Htable
    BY <1>0, <1>2, <2>3
  <2> HIDE DEF n
  <2> QED
    BY <1>1, <1>4, <2>2, <2>3, <2>4, <2>5, <2>6, <2>7 DEF Deletes, KeysKept
<1>5. ASSUME \A n \in Listed \cup {Htable} : n \in DOMAIN nodes' /\ nodes'[n].next = nodes[n].next,
             KeysKept, ~ KeyAdd(p), ~ KeyDel(p)
      PROVE  ListOK' /\ Loaded /\ Loaded' /\ KeysKept /\ Unchanged(p)
  BY <1>0, <1>1, <1>5, ListKept DEF Unchanged
<1>6. CASE nodes' = nodes /\ ~ KeyAdd(p) /\ ~ KeyDel(p)
  BY <1>1, <1>2, <1>5, <1>6 DEF Loaded, KeysKept
<1>7. CASE OpenAllocates(p)
  <2>1. entry' \in NodeIds \ DOMAIN nodes /\ nodes' = With(nodes, entry', NewNode(p))
    BY <1>7, KmallocFresh, IdsAreNaturals DEF OpenAllocates
  <2>2. /\ DOMAIN nodes' = DOMAIN nodes \cup {entry'}
        /\ \A n \in DOMAIN nodes : nodes'[n] = nodes[n]
    BY <2>1 DEF With
  <2>3. pc[p] = "walk"
    BY <1>7 DEF OpenAllocates, NotFound
  <2> QED
    BY <1>1, <1>2, <1>5, <2>2, <2>3 DEF Loaded, KeysKept, KeyAdd, KeyDel
<1>8. CASE KeyDelClear(p)
  <2>1. /\ loc[p].cur \in DOMAIN nodes \ (Listed \cup {Htable}) /\ pc[p] = "del_clear"
    BY <1>8 DEF KeyDelClear, TableInv, Unlinked
  <2>2. /\ DOMAIN nodes' = DOMAIN nodes
        /\ \A n \in DOMAIN nodes : nodes'[n].key = nodes[n].key
        /\ \A n \in DOMAIN nodes : n # loc[p].cur => nodes'[n] = nodes[n]
    BY <1>0, <1>8, <2>1 DEF KeyDelClear, Nodes
  <2> QED
    BY <1>1, <1>2, <1>5, <2>1, <2>2 DEF Loaded, KeysKept, KeyAdd, KeyDel
<1>9. CASE KeyDelFree(p)
  <2>1. /\ loc[p].cur \in DOMAIN nodes \ (Listed \cup {Htable}) /\ pc[p] = "del_free"
    BY <1>9 DEF KeyDelFree, TableInv, Unlinked
  <2>2. /\ DOMAIN nodes' = DOMAIN nodes \ {loc[p].cur}
        /\ \A n \in DOMAIN nodes' : nodes'[n] = nodes[n]
    BY <1>9 DEF KeyDelFree, Without
  <2> QED
    BY <1>1, <1>2, <1>5, <2>1, <2>2 DEF Loaded, KeysKept, KeyAdd, KeyDel
<1>10. CASE SetUpStep(p)
  <2>1. /\ DOMAIN nodes' = DOMAIN nodes
        /\ \A n \in DOMAIN nodes : nodes'[n].next = nodes[n].next /\ nodes'[n].key = nodes[n].key
        /\ pc[p] \in {"init", "init_again", "init_store"}
    BY <1>0, <1>10 DEF SetUpStep, InitCreates, InitCreatesAgain, InitDestroys, InitStores, Nodes
  <2> QED
    BY <1>1, <1>2, <1>5, <2>1 DEF Loaded, KeysKept, KeyAdd, KeyDel
<1>11. CASE AnyCall(p)
  <2>1. nodes' = nodes /\ pc[p] = "idle"
    BY <1>11 DEF AnyCall, Call, ReleaseCall, MayCall, Idle
  <2> QED
    BY <1>6, <2>1 DEF KeyAdd, KeyDel
<1>12. CASE Plain(p)
  BY <1>6, <1>12 DEF Plain, Marked, KeyAdd, KeyDel
<1>13. CASE Walk(p) \/ OpenBusy(p) \/ OpenLocks(p) \/ ReleaseBusy(p) \/ ReleaseLocks(p)
            \/ KeyDelNone(p) \/ PrintKeyUnlock(p)
  BY <1>3, <1>4, <1>6, <1>13 DEF Walk, OpenBusy, OpenLocks, ReleaseBusy, ReleaseLocks, KeyDelNone,
     PrintKeyUnlock
<1> QED
  BY <1>3, <1>4, <1>7, <1>8, <1>9, <1>10, <1>11, <1>12, <1>13 DEF TableStep

(* Two processes are never inside at once.                                 *)
LEMMA OneInside ==
  ASSUME MutexInv, NEW p \in Pids, NEW q \in Pids, pc[p] \in Inside, pc[q] \in Inside
  PROVE  p = q
BY DEF MutexInv, MutexIsHeldInside, Critical, Inside

(* What other processes' steps leave in place.                             *)
LEMMA StepKeepsFresh ==
  ASSUME NEW K, NEW T, OpensOverlapCloses, DeviceTypes(K, T), DeviceTypes(K, T)', MutexInv, TableInv,
         NEW p \in Pids, AnyCall(p) \/ TableStep(p) \/ SetUpStep(p) \/ Plain(p)
  PROVE  FreshEntry'
<1> USE DEF DeviceTypes, TableInv
<1>0. /\ DOMAIN pc = Pids /\ DOMAIN loc = Pids
      /\ KeysKept /\ (Unchanged(p) \/ Adds(p) \/ Deletes(p)) /\ Loaded
      /\ \A q \in Pids : q # p => pc'[q] = pc[q] /\ loc'[q] = loc[q]
  BY StepMovesList, StepsAreOfOne DEF CallsOK
<1> SUFFICES ASSUME NEW q \in Pids, pc'[q] \in Opening
             PROVE  /\ entry' \in DOMAIN nodes' \ (Listed' \cup {Htable})
                    /\ nodes'[entry'].key = q /\ nodes'[entry'].global_heap = Null
  BY DEF FreshEntry
<1>1. CASE OpenAllocates(p) /\ p = q
  <2>1. entry' \in NodeIds \ DOMAIN nodes /\ nodes' = With(nodes, entry', NewNode(p))
    BY <1>1, KmallocFresh, IdsAreNaturals DEF OpenAllocates
  <2>2. entry' \in DOMAIN nodes' /\ nodes'[entry'] = NewNode(p)
    BY <2>1 DEF With
  <2>3. ~ Adds(p) /\ ~ Deletes(p)
    BY <1>1 DEF OpenAllocates, NotFound, Adds, Deletes, KeyAdd, KeyDel
  <2>4. Listed' \subseteq DOMAIN nodes
    BY <1>0, <2>3 DEF Unchanged, Listed
  <2> QED
    BY <1>1, <2>1, <2>2, <2>4, IdsAreNaturals DEF NewNode
<1>2. CASE p = q /\ ~ OpenAllocates(p)
  <2>1. OpenLocks(p)
    <3>1. CASE TableStep(p)
      BY <1>0, <1>2, <3>1 DEF TableStep, Walk, OpenBusy, KeyAdd, ReleaseBusy, ReleaseLocks, KeyDel,
          KeyDelClear, KeyDelFree, KeyDelNone, PrintKeyUnlock, Return, Goto, Opening
    <3>2. ~ SetUpStep(p) /\ ~ Plain(p) /\ ~ AnyCall(p)
      BY <1>0, <1>2 DEF SetUpStep, InitCreates, InitCreatesAgain, InitDestroys, InitStores, CreateHeap,
         Return, Goto, Opening, Plain, Marked, AnyCall, Call, ReleaseCall
    <3> QED
      BY <3>1, <3>2
  <2>2. pc[p] \in Opening /\ UNCHANGED <<nodes, entry>> /\ Unchanged(p)
    BY <1>0, <2>1 DEF OpenLocks, Opening, Adds, Deletes, KeyAdd, KeyDel
  <2> QED
    BY <1>2, <2>2 DEF FreshEntry, Unchanged
<1>3. CASE p # q
  <2>1. pc[q] \in Opening /\ pc[q] = pc'[q]
    BY <1>0, <1>3
  <2>2. /\ entry \in DOMAIN nodes \ (Listed \cup {Htable})
        /\ nodes[entry].key = q /\ nodes[entry].global_heap = Null
    BY <2>1 DEF FreshEntry
  <2>3. Idle(p) \/ (loc[p].op = "release" /\ pc[p] \in Deleting \cup {"print"})
    BY <1>3, <2>1, OthersClose
  <2>4. CASE AnyCall(p)
    <3>1. UNCHANGED <<nodes, entry>> /\ pc[p] = "idle"
      BY <2>4 DEF AnyCall, Call, ReleaseCall, MayCall, Idle
    <3>2. Listed' = Listed
      BY <1>0, <3>1 DEF Unchanged, Adds, Deletes, KeyAdd, KeyDel
    <3> QED
      BY <2>2, <3>1, <3>2
  <2>5. CASE ~ AnyCall(p)
    <3>1. TableStep(p) /\ pc[p] \in Deleting \cup {"print"}
      BY <2>3, <2>5 DEF SetUpStep, InitCreates, InitCreatesAgain, InitDestroys, InitStores, Plain, Marked,
          Idle, Deleting, TableStep, Walk, OpenAllocates, NotFound, OpenBusy, OpenLocks, KeyAdd, ReleaseBusy,
          ReleaseLocks, KeyDel, KeyDelClear, KeyDelFree, KeyDelNone, PrintKeyUnlock
    <3>2. /\ entry' = entry /\ ~ KeyAdd(p)
          /\ \/ ReleaseBusy(p) \/ ReleaseLocks(p) \/ KeyDel(p) \/ KeyDelClear(p) \/ KeyDelFree(p)
             \/ KeyDelNone(p) \/ PrintKeyUnlock(p)
      BY <3>1 DEF TableStep, Walk, OpenAllocates, NotFound, OpenBusy, OpenLocks, KeyAdd, ReleaseBusy,
          ReleaseLocks, KeyDel, KeyDelClear, KeyDelFree, KeyDelNone, PrintKeyUnlock, Deleting
    <3>3. Listed' \subseteq Listed
      BY <1>0, <3>2 DEF Unchanged, Adds, Deletes
    <3>4. pc[p] \in {"del_clear", "del_free"} => loc[p].cur # entry
      BY <1>3, <2>2 DEF Unlinked
    <3>5. entry \in DOMAIN nodes' /\ nodes'[entry].global_heap = Null
      <4>1. CASE KeyDel(p)
        <5>1. PICK x, y : nodes' = [nodes EXCEPT ![x].next = y]
          BY <4>1 DEF KeyDel
        <5> QED
          BY <2>2, <5>1 DEF NodesOK, Nodes
      <4>2. CASE KeyDelClear(p)
        BY <2>2, <3>4, <4>2 DEF KeyDelClear
      <4>3. CASE KeyDelFree(p)
        BY <2>2, <3>4, <4>3 DEF KeyDelFree, Without
      <4>4. CASE ReleaseBusy(p) \/ ReleaseLocks(p) \/ KeyDelNone(p) \/ PrintKeyUnlock(p)
        BY <2>2, <4>4 DEF ReleaseBusy, ReleaseLocks, KeyDelNone, PrintKeyUnlock
      <4> QED
        BY <3>2, <4>1, <4>2, <4>3, <4>4
    <3> QED
      BY <1>0, <2>2, <3>2, <3>3, <3>5 DEF KeysKept
  <2> QED
    BY <2>4, <2>5
<1> QED
  BY <1>1, <1>2, <1>3

LEMMA StepKeepsUnlinked ==
  ASSUME NEW K, NEW T, DeviceTypes(K, T), DeviceTypes(K, T)', MutexInv, MutexInv', TableInv,
         NEW p \in Pids, AnyCall(p) \/ TableStep(p) \/ SetUpStep(p) \/ Plain(p)
  PROVE  Unlinked'
<1> USE DEF DeviceTypes, TableInv
<1>0. /\ DOMAIN pc = Pids /\ DOMAIN loc = Pids
      /\ KeysKept /\ (Unchanged(p) \/ Adds(p) \/ Deletes(p)) /\ Loaded
      /\ \A q \in Pids : q # p => pc'[q] = pc[q] /\ loc'[q] = loc[q]
      /\ Htable \notin NodeIds
  BY StepMovesList, StepsAreOfOne, IdsAreNaturals DEF CallsOK
<1> SUFFICES ASSUME NEW q \in Pids, pc'[q] \in {"del_clear", "del_free"}
             PROVE  /\ loc'[q].cur \in DOMAIN nodes' \ (Listed' \cup {Htable})
                    /\ nodes'[loc'[q].cur].key = q
                    /\ nodes'[loc'[q].cur].next \in Listed' \cup {Null}
  BY DEF Unlinked
<1>1. CASE KeyDel(p) /\ p = q
  <2>1. Deletes(p)
    BY <1>0, <1>1 DEF Unchanged, Adds, KeyAdd, KeyDel
  <2>2. DOMAIN nodes' = DOMAIN nodes
    BY <1>1 DEF KeyDel
  <2> DEFINE n == loc'[p].cur
  <2> HIDE DEF n
  <2>3. /\ n \in Listed /\ n # Htable /\ nodes[n].key = p
        /\ Listed' = Listed \ {n} /\ nodes'[n].next \in Listed' \cup {Null}
    BY <2>1 DEF Deletes, n
  <2>4. n \in DOMAIN nodes /\ n \in DOMAIN nodes'
    BY <2>2, <2>3 DEF Listed
  <2>5. nodes'[n].key = q
    BY <1>0, <1>1, <2>3, <2>4 DEF KeysKept
  <2> QED
    BY <1>1, <2>3, <2>4, <2>5 DEF n
<1>2. CASE KeyDelClear(p) /\ p = q
  <2> DEFINE n == loc[p].cur
  <2>1. /\ n \in DOMAIN nodes \ (Listed \cup {Htable}) /\ nodes[n].key = p /\ loc'[p] = loc[p]
    BY <1>2 DEF KeyDelClear, Unlinked
  <2>2. DOMAIN nodes' = DOMAIN nodes /\ nodes'[n].next = Null
    <3>1. nodes[n] \in Nodes
      BY <2>1 DEF NodesOK
    <3> QED
      BY <1>2, <2>1, <3>1 DEF KeyDelClear, Nodes
  <2>3. Listed' = Listed
    BY <1>0, <1>2 DEF Unchanged, Adds, Deletes, KeyAdd, KeyDel, KeyDelClear
  <2> HIDE DEF n
  <2> QED
    BY <1>0, <1>2, <2>1, <2>2, <2>3 DEF KeysKept, n
<1>3. CASE p = q /\ ~ KeyDel(p) /\ ~ KeyDelClear(p)
  <2>1. CASE TableStep(p)
    BY <1>0, <1>3, <2>1 DEF TableStep, Walk, OpenAllocates, OpenBusy, OpenLocks, KeyAdd, ReleaseBusy,
       ReleaseLocks, KeyDelFree, KeyDelNone, PrintKeyUnlock, Return, Goto
  <2>2. ~ SetUpStep(p) /\ ~ Plain(p) /\ ~ AnyCall(p)
    BY <1>0, <1>3 DEF SetUpStep, InitCreates, InitCreatesAgain, InitDestroys, InitStores, CreateHeap,
       Return, Goto, Plain, Marked, AnyCall, Call, ReleaseCall
  <2> QED
    BY <2>1, <2>2
<1>4. CASE p # q
  <2> DEFINE n == loc[q].cur
  <2>1. /\ n \in DOMAIN nodes \ (Listed \cup {Htable}) /\ nodes[n].key = q
        /\ nodes[n].next \in Listed \cup {Null}
        /\ loc'[q].cur = n /\ pc[q] \in {"del_clear", "del_free"} /\ pc'[q] = pc[q]
    BY <1>0, <1>4 DEF Unlinked
  <2>2. pc[p] \notin Inside /\ pc'[p] \notin Inside
    BY <1>4, <2>1 DEF Inside, MutexInv, MutexIsHeldInside, Critical
  <2>3. Listed' = Listed
    BY <1>0, <2>2 DEF Unchanged, Adds, Deletes, KeyAdd, KeyDel, Inside
  <2> HIDE DEF n
  <2>4. n \in DOMAIN nodes' /\ nodes'[n].next = nodes[n].next
    <3>1. CASE TableStep(p)
      <4>1. CASE OpenAllocates(p)
        <5>1. entry' \in NodeIds \ DOMAIN nodes /\ nodes' = With(nodes, entry', NewNode(p))
          BY <4>1, KmallocFresh, IdsAreNaturals DEF OpenAllocates
        <5> QED
          BY <2>1, <5>1 DEF With
      <4>2. CASE ~ OpenAllocates(p)
        <5>1. nodes' = nodes
          BY <2>2, <3>1, <4>2 DEF TableStep, Walk, OpenBusy, OpenLocks, KeyAdd, ReleaseBusy,
             ReleaseLocks, KeyDel, KeyDelClear, KeyDelFree, KeyDelNone, PrintKeyUnlock, Inside
        <5> QED
          BY <2>1, <5>1
      <4> QED
        BY <4>1, <4>2
    <3>2. CASE SetUpStep(p)
      <4>1. nodes[n] \in Nodes
        BY <2>1 DEF NodesOK
      <4>2. PICK x, v : nodes' = [nodes EXCEPT ![x].global_heap = v] \/ nodes' = nodes
        BY <3>2 DEF SetUpStep, InitCreates, InitCreatesAgain, InitDestroys, InitStores
      <4> QED
        BY <2>1, <4>1, <4>2 DEF Nodes
    <3>3. CASE Plain(p) \/ AnyCall(p)
      BY <2>1, <3>3 DEF Plain, AnyCall, Call, ReleaseCall
    <3> QED
      BY <3>1, <3>2, <3>3
  <2> QED
    BY <1>0, <2>1, <2>3, <2>4 DEF KeysKept, n
<1> QED
  BY <1>1, <1>2, <1>3, <1>4

(* Removing and loading the module leaves no list, and then an empty one.  *)
LEMMA LoadingMovesList ==
  ASSUME NEW K, NEW T, DeviceTypes(K, T), DeviceTypes(K, T)', MutexInv, HelloExit \/ HelloInit
  PROVE  Listed' = {} /\ ListOK' /\ Quiet
<1> USE DEF DeviceTypes
<1>1. CASE HelloExit
  <2>1. ~ Loaded'
    BY <1>1 DEF HelloExit, DestroyHashTable, Loaded
  <2> QED
    BY <1>1, <2>1, NotLoadedNext DEF HelloExit, ListOK
<1>2. CASE HelloInit
  <2>1. Htable \in DOMAIN nodes' /\ nodes'[Htable].next = Null
    BY <1>2 DEF HelloInit, With, NewNode
  <2> QED
    BY <1>2, <2>1, ListOfHtableNext DEF HelloInit, MutexInv, HtableIsAlone, NodesOK
<1> QED
  BY <1>1, <1>2

LEMMA StepKeepsTable ==
  ASSUME NEW K, NEW T, OpensOverlapCloses, DeviceTypes(K, T), DeviceTypes(K, T)', MutexInv, MutexInv',
         TableInv, SharedNext
  PROVE  TableInv'
<1>0. Apart' /\ LabelsOK'
  BY StepKeepsLabels DEF TableInv, DeviceTypes
<1>1. ASSUME NEW p \in Pids, AnyCall(p) \/ TableStep(p) \/ SetUpStep(p) \/ Plain(p)
      PROVE  TableInv'
  <2>1. ListOK' /\ Loaded /\ KeysKept /\ (Unchanged(p) \/ Adds(p) \/ Deletes(p))
    BY <1>1, StepMovesList
  <2>2. FreshEntry' /\ Unlinked'
    BY <1>1, StepKeepsFresh, StepKeepsUnlinked
  <2>3. ListedKeys'
    <3>1. Listed \subseteq DOMAIN nodes /\ Listed' \subseteq DOMAIN nodes'
      BY DEF Listed
    <3>2. CASE Unchanged(p) \/ Deletes(p)
      BY <2>1, <3>1, <3>2 DEF Unchanged, Deletes, KeysKept, ListedKeys, TableInv
    <3>3. CASE Adds(p)
      <4>1. pc[p] \in Opening
        BY <3>3 DEF Adds, KeyAdd, Opening
      <4>2. entry \in DOMAIN nodes /\ nodes[entry].key = p
        BY <4>1 DEF TableInv, FreshEntry
      <4> QED
        BY <2>1, <3>1, <3>3, <4>2 DEF Adds, KeysKept, ListedKeys, TableInv
    <3> QED
      BY <2>1, <3>2, <3>3
  <2> QED
    BY <1>0, <2>1, <2>2, <2>3 DEF TableInv
<1>2. CASE HelloExit \/ HelloInit
  <2>1. Listed' = {} /\ ListOK' /\ Quiet
    BY <1>2, LoadingMovesList
  <2>2. \A p \in Pids : pc'[p] = "idle"
    BY <1>2, <2>1 DEF HelloExit, HelloInit, Quiet, Idle
  <2>3. FreshEntry' /\ Unlinked'
    BY <2>2 DEF FreshEntry, Unlinked, Opening
  <2> QED
    BY <1>0, <2>1, <2>3 DEF TableInv, ListedKeys
<1> QED
  BY <1>1, <1>2 DEF SharedNext

LEMMA TableUnchanged ==
  ASSUME TableInv, Untouched
  PROVE  TableInv'
<1>1. nodes' = nodes /\ pc' = pc /\ loc' = loc /\ entry' = entry
  BY DEF Untouched
<1>2. Visit' = Visit
  BY <1>1 DEF Visit
<1>3. Listed' = Listed
  BY <1>1, <1>2 DEF Listed
<1> QED
  BY <1>1, <1>3 DEF TableInv, Apart, LabelsOK, ListOK, Loaded, ListedKeys, FreshEntry, Unlinked, Idle

LEMMA InitTable ==
  ASSUME NEW K, NEW T, DeviceTypes(K, T), Init
  PROVE  TableInv /\ Listed = {}
<1>1. Htable \in DOMAIN nodes /\ nodes[Htable].next = Null /\ \A p \in Pids : pc[p] = "idle"
  BY DEF Init, NewNode
<1>2. ListOK /\ Listed = {}
  BY <1>1, ListOfHtable DEF DeviceTypes, NodesOK
<1> QED
  BY <1>1, <1>2 DEF TableInv, Apart, LabelsOK, ListedKeys, FreshEntry, Unlinked, Idle, Opening, Deleting, SetUpLabels
-----------------------------------------------------------------------------
(* An entry comes and goes with a file.                                    *)
LEMMA EntriesMove ==
  ASSUME NEW K, NEW T, DeviceTypes(K, T), DeviceTypes(K, T)', MutexInv, TableInv, NEW p \in Pids,
         AnyCall(p) \/ TableStep(p) \/ SetUpStep(p) \/ Plain(p)
  PROVE  /\ \A q \in Pids : Cardinality(EntriesOf(q)) \in Nat
         /\ \A q \in Pids : q # p => EntriesOf(q)' = EntriesOf(q)
         /\ KeyAdd(p) => Cardinality(EntriesOf(p)') = Cardinality(EntriesOf(p)) + 1
         /\ KeyDel(p) => Cardinality(EntriesOf(p)') = Cardinality(EntriesOf(p)) - 1
         /\ ~ KeyAdd(p) /\ ~ KeyDel(p) => EntriesOf(p)' = EntriesOf(p)
<1>0. /\ KeysKept /\ (Unchanged(p) \/ Adds(p) \/ Deletes(p)) /\ Loaded
      /\ Listed \subseteq DOMAIN nodes /\ Listed' \subseteq DOMAIN nodes'
  BY StepMovesList DEF Listed
<1>1. \A q \in Pids : IsFiniteSet(EntriesOf(q)) /\ Cardinality(EntriesOf(q)) \in Nat
  <2>1. IsFiniteSet(NodeIds)
    BY FS_Interval, BoundsAreNaturals DEF NodeIds
  <2>2. Listed \subseteq NodeIds
    BY <1>0, ListedAre DEF TableInv, DeviceTypes, NodesOK
  <2>3. \A q \in Pids : EntriesOf(q) \subseteq NodeIds
    BY <2>2 DEF EntriesOf
  <2> QED
    BY <2>1, <2>3, FS_Subset, FS_CardinalityType
<1>2. CASE Unchanged(p)
  <2>1. \A q \in Pids : EntriesOf(q)' = EntriesOf(q)
    BY <1>0, <1>2 DEF Unchanged, EntriesOf, KeysKept
  <2> QED
    BY <1>1, <1>2, <2>1 DEF Unchanged
<1>3. CASE Adds(p)
  <2>1. pc[p] \in Opening
    BY <1>3 DEF Adds, KeyAdd, Opening
  <2>2. entry \in DOMAIN nodes \ Listed /\ nodes[entry].key = p
    BY <2>1 DEF TableInv, FreshEntry
  <2>3. /\ EntriesOf(p)' = EntriesOf(p) \cup {entry} /\ entry \notin EntriesOf(p)
        /\ \A q \in Pids : q # p => EntriesOf(q)' = EntriesOf(q)
    BY <1>0, <1>3, <2>2 DEF Adds, EntriesOf, KeysKept
  <2>4. Cardinality(EntriesOf(p)') = Cardinality(EntriesOf(p)) + 1
    BY <1>1, <2>3, FS_AddElement
  <2>5. ~ KeyDel(p)
    BY <1>3 DEF Adds, KeyAdd, KeyDel
  <2> QED
    BY <1>1, <1>3, <2>3, <2>4, <2>5 DEF Adds
<1>4. CASE Deletes(p)
  <2> DEFINE n == loc'[p].cur
  <2>1. n \in Listed /\ nodes[n].key = p /\ Listed' = Listed \ {n}
    BY <1>4 DEF Deletes
  <2> HIDE DEF n
  <2>2. /\ EntriesOf(p)' = EntriesOf(p) \ {n} /\ n \in EntriesOf(p)
        /\ \A q \in Pids : q # p => EntriesOf(q)' = EntriesOf(q)
    BY <1>0, <2>1 DEF EntriesOf, KeysKept
  <2>3. Cardinality(EntriesOf(p)') = Cardinality(EntriesOf(p)) - 1
    BY <1>1, <2>2, FS_RemoveElement
  <2>4. ~ KeyAdd(p) /\ KeyDel(p)
    BY <1>4 DEF Deletes, KeyAdd, KeyDel
  <2> QED
    BY <1>1, <2>2, <2>3, <2>4
<1> QED
  BY <1>0, <1>2, <1>3, <1>4

(* What a step of p does to what p holds.                                  *)
LEMMA StepHolds ==
  ASSUME NEW K, NEW T, DeviceTypes(K, T), DeviceTypes(K, T)', MutexInv, TableInv, NEW p \in Pids,
         AnyCall(p) \/ TableStep(p) \/ SetUpStep(p) \/ Plain(p)
  PROVE  /\ Held(p) \in Int /\ Held(p)' \in Int
         /\ \A q \in Pids : q # p => Held(q)' = Held(q)
         /\ KeyAdd(p) => Held(p)' = Held(p) + 1
         /\ KeyDel(p) => Held(p)' = Held(p) - 1
         /\ ~ KeyAdd(p) => Held(p)' <= Held(p)
         /\ ~ KeyAdd(p) /\ ~ KeyDel(p) /\ Held(p)' # Held(p) =>
              ReleaseBusy(p) \/ KeyDelNone(p)
<1>0. /\ DOMAIN pc = Pids /\ DOMAIN loc = Pids /\ DOMAIN files = Pids
      /\ \A q \in Pids : files[q] \in Nat
      /\ \A q \in Pids : q # p => pc'[q] = pc[q] /\ loc'[q] = loc[q]
      /\ pc[p] \in Opening => loc[p].op = "open"
      /\ pc[p] \in Deleting => loc[p].op = "release"
      /\ pc[p] = "print" => loc[p].op \in {"open", "release"}
  BY StepsAreOfOne DEF DeviceTypes, CallsOK, GlobalsOK, TableInv, LabelsOK
<1>1. Held(p) \in Int /\ Held(p)' \in Int
  <2>1. files'[p] \in Nat
    BY DEF DeviceTypes, GlobalsOK
  <2> QED
    BY <1>0, <2>1 DEF Held
<1>2. CASE KeyAdd(p)
  <2>1. pc[p] = "add" /\ pc'[p] = "print" /\ loc' = loc /\ files' = files /\ loc[p].op = "open"
    BY <1>0, <1>2 DEF KeyAdd, Goto, Opening
  <2> QED
    BY <1>0, <1>1, <1>2, <2>1 DEF Held, Pending, KeyDel
<1>3. CASE KeyDel(p)
  <2>1. pc[p] = "del" /\ pc'[p] = "del_clear" /\ files' = files
    BY <1>0, <1>3 DEF KeyDel, Goto
  <2> QED
    BY <1>0, <1>1, <1>3, <2>1 DEF Held, Pending, KeyAdd
<1>4. CASE ReleaseBusy(p) \/ KeyDelNone(p)
  <2>1. /\ pc[p] \in {"del_trylock", "del"} /\ files' = files
        /\ \/ pc'[p] = "idle"
           \/ pc'[p] = "print" /\ loc'[p].op = "release"
    BY <1>0, <1>4 DEF ReleaseBusy, KeyDelNone, Return, Goto, Deleting
  <2> QED
    BY <1>0, <1>1, <1>4, <2>1 DEF Held, Pending, KeyAdd, KeyDel
<1>5. CASE PrintKeyUnlock(p)
  <2>1. /\ pc[p] = "print" /\ pc'[p] = "idle"
        /\ files' = IF loc[p].op = "open" THEN [files EXCEPT ![p] = files[p] + 1] ELSE files
    BY <1>0, <1>5 DEF PrintKeyUnlock, Return, Goto
  <2>2. Held(p)' = Held(p) /\ \A q \in Pids : q # p => Held(q)' = Held(q)
    BY <1>0, <2>1 DEF Held, Pending
  <2> QED
    BY <1>1, <1>5, <2>2 DEF PrintKeyUnlock, KeyAdd, KeyDel
<1>6. CASE AnyCall(p)
  <2>1. /\ pc[p] = "idle"
        /\ \/ pc'[p] = "walk" /\ files' = files
           \/ pc'[p] = "del_trylock" /\ files' = [files EXCEPT ![p] = files[p] - 1]
    BY <1>0, <1>6 DEF AnyCall, Call, ReleaseCall, MayCall, Idle, Goto
  <2>2. Held(p)' = Held(p) /\ \A q \in Pids : q # p => Held(q)' = Held(q)
    BY <1>0, <2>1 DEF Held, Pending
  <2> QED
    BY <1>1, <2>1, <2>2 DEF KeyAdd, KeyDel
<1>7. CASE \/ Walk(p) \/ OpenAllocates(p) \/ OpenBusy(p) \/ OpenLocks(p) \/ ReleaseLocks(p)
           \/ KeyDelClear(p) \/ KeyDelFree(p) \/ SetUpStep(p) \/ Plain(p)
  <2>1. /\ files' = files /\ ~ KeyAdd(p) /\ ~ KeyDel(p)
        /\ \/ pc[p] \notin {"del_trylock", "del", "print"} /\ pc'[p] \notin {"del_trylock", "del", "print"}
           \/ pc[p] = "del_trylock" /\ pc'[p] = "del"
           \/ pc[p] = "del_free" /\ pc'[p] = "print" /\ loc'[p].op = loc[p].op
    <3>1. CASE Walk(p) \/ OpenAllocates(p) \/ OpenBusy(p) \/ OpenLocks(p) \/ ReleaseLocks(p)
               \/ KeyDelClear(p)
      BY <1>0, <3>1 DEF Walk, OpenAllocates, NotFound, OpenBusy, OpenLocks, ReleaseLocks, KeyDelClear, Return, Goto,
         KeyAdd, KeyDel
    <3>2. CASE KeyDelFree(p)
      <4>1. DOMAIN loc[p] = {"op", "a", "b", "cur", "heap", "idx", "val"}
        BY DEF DeviceTypes, CallsOK, Calls
      <4> QED
        BY <1>0, <3>2, <4>1 DEF KeyDelFree, Goto, KeyAdd, KeyDel
    <3>3. CASE SetUpStep(p)
      BY <1>0, <3>3 DEF SetUpStep, InitCreates, InitCreatesAgain, InitDestroys, InitStores, CreateHeap,
         Return, Goto, KeyAdd, KeyDel
    <3>4. CASE Plain(p)
      BY <3>4 DEF Plain, Marked, KeyAdd, KeyDel
    <3> QED
      BY <1>7, <3>1, <3>2, <3>3, <3>4
  <2>2. Held(p)' = Held(p) /\ \A q \in Pids : q # p => Held(q)' = Held(q)
    BY <1>0, <2>1 DEF Held, Pending, Deleting
  <2> QED
    BY <1>1, <2>1, <2>2
<1> QED
  BY <1>2, <1>3, <1>4, <1>5, <1>6, <1>7 DEF TableStep

LEMMA StepKeepsCount ==
  ASSUME NEW K, NEW T, DeviceTypes(K, T), DeviceTypes(K, T)', MutexInv, TableInv, FilesCounted, SharedNext
  PROVE  FilesCounted'
<1>1. ASSUME NEW p \in Pids, AnyCall(p) \/ TableStep(p) \/ SetUpStep(p) \/ Plain(p)
      PROVE  FilesCounted'
  <2>1. /\ \A q \in Pids : Cardinality(EntriesOf(q)) \in Nat
        /\ \A q \in Pids : q # p => EntriesOf(q)' = EntriesOf(q)
        /\ KeyAdd(p) => Cardinality(EntriesOf(p)') = Cardinality(EntriesOf(p)) + 1
        /\ KeyDel(p) => Cardinality(EntriesOf(p)') = Cardinality(EntriesOf(p)) - 1
        /\ ~ KeyAdd(p) /\ ~ KeyDel(p) => EntriesOf(p)' = EntriesOf(p)
    BY <1>1, EntriesMove
  <2>2. /\ Held(p) \in Int /\ Held(p)' \in Int
        /\ \A q \in Pids : q # p => Held(q)' = Held(q)
        /\ KeyAdd(p) => Held(p)' = Held(p) + 1
        /\ KeyDel(p) => Held(p)' = Held(p) - 1
        /\ ~ KeyAdd(p) => Held(p)' <= Held(p)
    BY <1>1, StepHolds
  <2>3. \A q \in Pids : Held(q) <= Cardinality(EntriesOf(q))
    BY DEF FilesCounted
  <2>5. ASSUME NEW q \in Pids
        PROVE  Held(q)' <= Cardinality(EntriesOf(q)')
    <3>1. CASE q # p
      BY <2>1, <2>2, <2>3, <3>1
    <3>2. CASE q = p
      BY <2>1, <2>2, <2>3, <3>2
    <3> QED
      BY <3>1, <3>2
  <2> QED
    BY <2>5 DEF FilesCounted
<1>2. CASE HelloExit \/ HelloInit
  <2>1. Listed' = {} /\ Quiet
    BY <1>2, LoadingMovesList
  <2>2. \A p \in Pids : files[p] \in Nat /\ pc[p] = "idle"
    BY <2>1 DEF DeviceTypes, GlobalsOK, Quiet, Idle
  <2>3. \A p \in Pids : files[p] = 0
    <3>1. CASE HelloExit
      BY <3>1 DEF HelloExit
    <3>2. CASE HelloInit
      <4>1. \A p \in Pids : EntriesOf(p) = {}
        BY <3>2, NotLoaded DEF HelloInit, EntriesOf
      <4>2. \A p \in Pids : Held(p) <= 0
        BY <4>1, FS_EmptySet DEF FilesCounted
      <4> QED
        BY <2>2, <4>2 DEF Held, Pending
    <3> QED
      BY <1>2, <3>1, <3>2
  <2>4. \A p \in Pids : Held(p)' = 0
    BY <1>2, <2>2, <2>3 DEF HelloExit, HelloInit, Held, Pending
  <2>5. \A p \in Pids : EntriesOf(p)' = {}
    BY <2>1 DEF EntriesOf
  <2>6. \A p \in Pids : Cardinality(EntriesOf(p)') = 0
    BY <2>5, FS_EmptySet
  <2> QED
    BY <2>4, <2>6 DEF FilesCounted
<1> QED
  BY <1>1, <1>2 DEF SharedNext

LEMMA CountUnchanged ==
  ASSUME FilesCounted, Untouched
  PROVE  FilesCounted'
<1>1. nodes' = nodes /\ pc' = pc /\ loc' = loc /\ files' = files
  BY DEF Untouched
<1>2. Visit' = Visit
  BY <1>1 DEF Visit
<1>3. Listed' = Listed
  BY <1>1, <1>2 DEF Listed
<1>4. \A p \in Pids : EntriesOf(p)' = EntriesOf(p) /\ Held(p)' = Held(p)
  BY <1>1, <1>3 DEF EntriesOf, Held, Pending
<1> QED
  BY <1>4 DEF FilesCounted

LEMMA InitCount ==
  ASSUME Init, Listed = {}
  PROVE  FilesCounted
<1>1. \A p \in Pids : EntriesOf(p) = {} /\ Held(p) = 0
  BY DEF Init, EntriesOf, Held, Pending
<1>2. Cardinality({}) = 0
  BY FS_EmptySet
<1> QED
  BY <1>1, <1>2 DEF FilesCounted

(* What the invariants say of the list.                                    *)
LEMMA TableShows ==
  ASSUME NEW K, NEW T, DeviceTypes(K, T), TableInv, FilesCounted
  PROVE  WalksEnd /\ FilesHaveEntries
<1>1. WalksEnd
  BY ListOKEnds DEF DeviceTypes, NodesOK, TableInv, WalksEnd
<1>2. ASSUME NEW p \in Pids, Idle(p), files[p] > 0
      PROVE  \E n \in Listed : nodes[n].key = p
  <2>1. files[p] \in Nat /\ Held(p) = files[p]
    BY <1>2 DEF DeviceTypes, GlobalsOK, Held, Pending, Idle
  <2>2. EntriesOf(p) # {}
    BY <1>2, <2>1, FS_EmptySet DEF FilesCounted
  <2> QED
    BY <2>2 DEF EntriesOf
<1> QED
  BY <1>1, <1>2 DEF FilesHaveEntries
-----------------------------------------------------------------------------
(* Which calls the processes let overlap: what these theorems assume.      *)
Uses == {"write4", "read", "PB2_INSERT", "PB2_GET_INFO", "PB2_EXTRACT"}

UsesOverlap == \A pair \in MayOverlap : "release" \in pair \/ pair \subseteq Uses

(* A walk is in the list, on an h_struct that key_del has, or astray.      *)
Walkers ==
  \A p \in Pids : pc[p] = "walk" /\ loc[p].cur \in DOMAIN nodes =>
    \/ loc[p].cur \in Listed
    \/ \E q \in Pids : pc[q] \in {"del_clear", "del_free"} /\ loc[q].cur = loc[p].cur

(* A set-up has its own entry in the global ...                            *)
SetUpEntry ==
  \A p \in Pids : pc[p] \in SetUpLabels => entry \in Listed /\ nodes[entry].key = p

(* ... whose pointer to a heap is the only one that can be a wild one.     *)
Replacing(n) == n = entry /\ \E p \in Pids : pc[p] \in {"init_again", "init_store"}

HeapPtrs ==
  \A n \in Listed :
    /\ ~ Replacing(n) => nodes[n].global_heap \in DOMAIN heaps \cup {Null}
    /\ Replacing(n) => nodes[n].global_heap \notin DOMAIN heaps

OneOwner ==
  \A m, n \in Listed :
    nodes[m].global_heap \in DOMAIN heaps /\ nodes[m].global_heap = nodes[n].global_heap => m = n

(* What CreateHeap returned is nobody's until it is stored.                *)
NewHeapUnowned ==
  \A p \in Pids : pc[p] = "init_store" =>
    /\ loc[p].heap \in DOMAIN heaps \cup {Null}
    /\ \A n \in Listed : nodes[n].global_heap = loc[p].heap => loc[p].heap = Null

PtrInv == HeapPtrs /\ OneOwner /\ NewHeapUnowned

OwnerInv == Walkers /\ SetUpEntry /\ PtrInv

(* No heap is lost.                                                        *)
Owned ==
  \A h \in DOMAIN heaps :
    \/ \E n \in Listed : nodes[n].global_heap = h
    \/ \E p \in Pids : pc[p] = "init_store" /\ loc[p].heap = h
-----------------------------------------------------------------------------
LEMMA UsesImplyOpens == UsesOverlap => OpensOverlapCloses
BY DEF UsesOverlap, OpensOverlapCloses, Uses

(* The steps of a close.                                                   *)
CloseStep(p) ==
  \/ ReleaseBusy(p) \/ ReleaseLocks(p) \/ KeyDel(p) \/ KeyDelClear(p) \/ KeyDelFree(p)
  \/ KeyDelNone(p) \/ PrintKeyUnlock(p)

(* While a process opens the device or sets up its heap, the others close. *)
LEMMA OthersOnlyClose ==
  ASSUME UsesOverlap, Apart, LabelsOK, NEW q \in Pids, pc[q] \notin {"idle"} \cup Deleting,
         loc[q].op \in {"open"} \cup SetUpOps, NEW p \in Pids, p # q,
         AnyCall(p) \/ TableStep(p) \/ SetUpStep(p) \/ Plain(p)
  PROVE  entry' = entry /\ (AnyCall(p) \/ CloseStep(p))
<1>1. CASE AnyCall(p)
  BY <1>1 DEF AnyCall, Call, ReleaseCall
<1>2. CASE ~ AnyCall(p)
  <2>1. pc[p] # "idle"
    BY <1>2 DEF TableStep, Walk, OpenAllocates, NotFound, OpenBusy, OpenLocks, KeyAdd, ReleaseBusy,
       ReleaseLocks, KeyDel, KeyDelClear, KeyDelFree, KeyDelNone, PrintKeyUnlock, SetUpStep, InitCreates,
       InitCreatesAgain, InitDestroys, InitStores, Plain
  <2>2. {loc[q].op, loc[p].op} \in MayOverlap
    BY <2>1 DEF Apart, Idle
  <2>3. loc[p].op = "release"
    BY <2>2 DEF UsesOverlap, Uses, SetUpOps
  <2>4. pc[p] \in Deleting \cup {"print"}
    BY <2>1, <2>3 DEF LabelsOK
  <2>5. TableStep(p)
    BY <1>2, <2>4 DEF SetUpStep, InitCreates, InitCreatesAgain, InitDestroys, InitStores, Plain, Marked,
        Deleting
  <2>6. CloseStep(p)
    BY <2>4, <2>5 DEF TableStep, Walk, OpenAllocates, NotFound, OpenBusy, OpenLocks, KeyAdd, Deleting,
        CloseStep
  <2>7. entry' = entry
    BY <2>6 DEF CloseStep, ReleaseBusy, ReleaseLocks, KeyDel, KeyDelClear, KeyDelFree, KeyDelNone,
        PrintKeyUnlock
  <2> QED
    BY <2>6, <2>7
<1> QED
  BY <1>1, <1>2

(* What p finds in a walk is in the list.                                  *)
LEMMA FoundIsListed ==
  ASSUME TableInv, Walkers, NEW p \in Pids, Found(p)
  PROVE  loc[p].cur \in Listed /\ nodes[loc[p].cur].key = p
<1>1. pc[p] = "walk" /\ loc[p].cur \in DOMAIN nodes /\ nodes[loc[p].cur].key = p
  BY DEF Found
<1>2. ASSUME NEW q \in Pids, pc[q] \in {"del_clear", "del_free"}, loc[q].cur = loc[p].cur
      PROVE  FALSE
  BY <1>1, <1>2 DEF TableInv, Unlinked
<1> QED
  BY <1>1, <1>2 DEF Walkers

LEMMA StepKeepsWalkers ==
  ASSUME NEW K, NEW T, UsesOverlap, DeviceTypes(K, T), DeviceTypes(K, T)', MutexInv, TableInv, Walkers,
         NEW p \in Pids, AnyCall(p) \/ TableStep(p) \/ SetUpStep(p) \/ Plain(p)
  PROVE  Walkers'
<1> USE DEF DeviceTypes
<1>0. /\ DOMAIN pc = Pids /\ DOMAIN loc = Pids
      /\ KeysKept /\ (Unchanged(p) \/ Adds(p) \/ Deletes(p)) /\ Loaded
      /\ \A q \in Pids : q # p => pc'[q] = pc[q] /\ loc'[q] = loc[q]
      /\ \A n \in Listed \cup {Htable} : nodes[n].next \in Listed \cup {Null}
      /\ Null \notin DOMAIN nodes' /\ Null \notin DOMAIN nodes
  <2>1. Null \notin NodeIds \cup {Htable}
    BY IdsAreNaturals DEF Null, Htable
  <2> QED
    BY <2>1, StepMovesList, StepsAreOfOne, ListedAre DEF CallsOK, TableInv, NodesOK, Addresses
<1> SUFFICES ASSUME NEW r \in Pids, pc'[r] = "walk", loc'[r].cur \in DOMAIN nodes'
             PROVE  \/ loc'[r].cur \in Listed'
                    \/ \E q \in Pids : pc'[q] \in {"del_clear", "del_free"} /\ loc'[q].cur = loc'[r].cur
  BY DEF Walkers
<1>1. CASE r = p
  <2>1. CASE AnyCall(p)
    <3>1. PICK op, a, b : Call(p, op, a, b)
      BY <1>0, <1>1, <2>1 DEF AnyCall, ReleaseCall, Goto
    <3>2. loc'[p].cur = nodes[Htable].next /\ nodes' = nodes
      BY <1>0, <3>1 DEF Call, NoCall
    <3>3. Listed' = Listed
      BY <1>0, <3>1 DEF Call, MayCall, Idle, Unchanged, Adds, Deletes, KeyAdd, KeyDel
    <3> QED
      BY <1>0, <1>1, <3>2, <3>3
  <2>2. CASE ~ AnyCall(p)
    <3>1. Walk(p)
      <4>1. CASE TableStep(p)
        BY <1>0, <1>1, <4>1 DEF TableStep, OpenAllocates, OpenBusy, OpenLocks, KeyAdd, ReleaseBusy,
           ReleaseLocks, KeyDel, KeyDelClear, KeyDelFree, KeyDelNone, PrintKeyUnlock, Return, Goto
      <4>2. ~ SetUpStep(p) /\ ~ Plain(p)
        BY <1>0, <1>1 DEF SetUpStep, InitCreates, InitCreatesAgain, InitDestroys, InitStores, CreateHeap,
           Return, Goto, Plain
      <4> QED
        BY <2>2, <4>1, <4>2
    <3>2. /\ pc[p] = "walk" /\ loc[p].cur \in DOMAIN nodes /\ loc'[p].cur = nodes[loc[p].cur].next
          /\ nodes' = nodes
      <4>1. DOMAIN loc[p] = {"op", "a", "b", "cur", "heap", "idx", "val"}
        BY DEF CallsOK, Calls
      <4> QED
        BY <1>0, <3>1, <4>1 DEF Walk
    <3>3. Listed' = Listed
      BY <1>0, <3>1 DEF Walk, Unchanged, Adds, Deletes, KeyAdd, KeyDel
    <3>4. nodes[loc[p].cur].next \in Listed \cup {Null}
      BY <1>0, <3>2 DEF Walkers, TableInv, Unlinked
    <3> QED
      BY <1>0, <1>1, <3>2, <3>3, <3>4
  <2> QED
    BY <2>1, <2>2
<1>2. CASE r # p
  <2>1. pc[r] = "walk" /\ loc'[r] = loc[r]
    BY <1>0, <1>2
  <2>2. loc[r].cur \in DOMAIN nodes
    <3>1. CASE OpenAllocates(p)
      <4>1. loc[p].op = "open" /\ pc[p] = "walk"
        BY <3>1 DEF OpenAllocates, NotFound
      <4>2. {loc[p].op, loc[r].op} \in MayOverlap
        BY <1>2, <2>1, <4>1 DEF TableInv, Apart, Idle
      <4>3. loc[r].op = "release"
        BY <4>1, <4>2 DEF UsesOverlap, Uses
      <4> QED
        BY <2>1, <4>3 DEF TableInv, LabelsOK, Deleting
    <3>2. CASE ~ OpenAllocates(p)
      <4>1. DOMAIN nodes' \subseteq DOMAIN nodes
        BY <3>2 DEF AnyCall, Call, ReleaseCall, TableStep, Walk, OpenBusy, OpenLocks, KeyAdd, ReleaseBusy,
           ReleaseLocks, KeyDel, KeyDelClear, KeyDelFree, KeyDelNone, PrintKeyUnlock, Without, SetUpStep,
           InitCreates, InitCreatesAgain, InitDestroys, InitStores, Plain
      <4> QED
        BY <2>1, <4>1
    <3> QED
      BY <3>1, <3>2
  <2>3. CASE loc[r].cur \in Listed
    <3>1. CASE Unchanged(p) \/ Adds(p)
      BY <2>1, <2>3, <3>1 DEF Unchanged, Adds
    <3>2. CASE Deletes(p)
      <4>1. pc'[p] = "del_clear" /\ Listed' = Listed \ {loc'[p].cur}
        BY <1>0, <3>2 DEF Deletes, KeyDel, Goto
      <4> QED
        BY <2>1, <2>3, <4>1
    <3> QED
      BY <1>0, <3>1, <3>2
  <2>4. ASSUME NEW q \in Pids, pc[q] \in {"del_clear", "del_free"}, loc[q].cur = loc[r].cur
        PROVE  \E o \in Pids : pc'[o] \in {"del_clear", "del_free"} /\ loc'[o].cur = loc[r].cur
    <3>1. CASE q # p
      BY <1>0, <2>4, <3>1
    <3>2. CASE q = p
      <4>1. TableStep(p)
        BY <2>4, <3>2 DEF SetUpStep, InitCreates, InitCreatesAgain, InitDestroys, InitStores, Plain, Marked,
           AnyCall, Call, ReleaseCall, MayCall, Idle
      <4>2. KeyDelClear(p) \/ KeyDelFree(p)
        BY <2>4, <3>2, <4>1 DEF TableStep, Walk, OpenAllocates, NotFound, OpenBusy, OpenLocks, KeyAdd,
           ReleaseBusy, ReleaseLocks, KeyDel, KeyDelNone, PrintKeyUnlock
      <4>3. ~ KeyDelFree(p)
        BY <2>1, <2>4, <3>2 DEF KeyDelFree, Without
      <4>4. pc'[p] = "del_free" /\ loc' = loc
        BY <1>0, <4>2, <4>3 DEF KeyDelClear, Goto
      <4> QED
        BY <2>4, <3>2, <4>4
    <3> QED
      BY <3>1, <3>2
  <2> QED
    BY <2>1, <2>2, <2>3, <2>4 DEF Walkers
<1> QED
  BY <1>1, <1>2

LEMMA StepKeepsSetUpEntry ==
  ASSUME NEW K, NEW T, UsesOverlap, DeviceTypes(K, T), DeviceTypes(K, T)', MutexInv, TableInv, Walkers,
         SetUpEntry, NEW p \in Pids, AnyCall(p) \/ TableStep(p) \/ SetUpStep(p) \/ Plain(p)
  PROVE  SetUpEntry'
<1> USE DEF DeviceTypes
<1>0. /\ DOMAIN pc = Pids /\ DOMAIN loc = Pids
      /\ KeysKept /\ (Unchanged(p) \/ Adds(p) \/ Deletes(p))
      /\ \A q \in Pids : q # p => pc'[q] = pc[q] /\ loc'[q] = loc[q]
      /\ Listed \subseteq DOMAIN nodes /\ Listed' \subseteq DOMAIN nodes'
  BY StepMovesList, StepsAreOfOne DEF CallsOK, Listed
<1> SUFFICES ASSUME NEW r \in Pids, pc'[r] \in SetUpLabels
             PROVE  entry' \in Listed' /\ nodes'[entry'].key = r
  BY DEF SetUpEntry
<1>1. CASE r # p
  <2>1. pc[r] \in SetUpLabels /\ loc[r].op \in SetUpOps
    BY <1>0, <1>1 DEF TableInv, LabelsOK
  <2>2. entry \in Listed /\ nodes[entry].key = r
    BY <2>1 DEF SetUpEntry
  <2>3. entry' = entry
    BY <1>1, <2>1, OthersOnlyClose DEF TableInv, SetUpLabels, Deleting
  <2>4. entry \in Listed'
    BY <1>0, <1>1, <2>2 DEF Unchanged, Adds, Deletes
  <2> QED
    BY <1>0, <2>2, <2>3, <2>4 DEF KeysKept
<1>2. CASE r = p
  <2>1. SetUpStep(p) \/ Plain(p)
    BY <1>0, <1>2 DEF AnyCall, Call, ReleaseCall, TableStep, Walk, OpenAllocates, OpenBusy, OpenLocks, KeyAdd,
       ReleaseBusy, ReleaseLocks, KeyDel, KeyDelClear, KeyDelFree, KeyDelNone, PrintKeyUnlock, Return, Goto,
       SetUpLabels
  <2>2. Listed' = Listed
    BY <1>0, <2>1 DEF Unchanged, Adds, Deletes, KeyAdd, KeyDel, SetUpStep, InitCreates, InitCreatesAgain,
       InitDestroys, InitStores, Plain, Marked
  <2>3. entry' \in Listed /\ nodes[entry'].key = p
    <3>1. CASE SetUpStep(p)
      <4>1. pc[p] \in SetUpLabels /\ entry' = entry
        BY <3>1 DEF SetUpStep, InitCreates, InitCreatesAgain, InitDestroys, InitStores, SetUpLabels
      <4> QED
        BY <4>1 DEF SetUpEntry
    <3>2. CASE Plain(p)
      <4>1. pc'[p] \in {"copy_args", "init"}
        BY <1>2, <3>2 DEF Plain, Marked, SetUpLabels
      <4>2. \/ Found(p) /\ entry' = loc[p].cur
            \/ pc[p] = "copy_args" /\ entry' = entry
        BY <3>2, <4>1 DEF Plain
      <4> QED
        BY <4>2, FoundIsListed DEF SetUpEntry, SetUpLabels
    <3> QED
      BY <2>1, <3>1, <3>2
  <2> QED
    BY <1>0, <1>2, <2>2, <2>3 DEF KeysKept
<1> QED
  BY <1>1, <1>2
-----------------------------------------------------------------------------
(* The other steps leave set-ups, and the entry that they replace, alone.  *)
LEMMA ReplacingKept ==
  ASSUME NEW K, CallsOK(K), UsesOverlap, TableInv, NEW p \in Pids, AnyCall(p) \/ TableStep(p) \/ Plain(p)
  PROVE  /\ \A n : Replacing(n)' <=> Replacing(n)
         /\ \A q \in Pids : pc'[q] = "init_store" => pc[q] = "init_store" /\ loc'[q] = loc[q]
<1>0. \A q \in Pids : q # p => pc'[q] = pc[q] /\ loc'[q] = loc[q]
  BY StepsAreOfOne
<1>1. pc[p] \notin {"init_again", "init_store"} /\ pc'[p] \notin {"init_again", "init_store"}
  <2>1. CASE AnyCall(p)
    BY <2>1 DEF AnyCall, Call, ReleaseCall, MayCall, Idle, Goto, CallsOK
  <2>2. CASE TableStep(p)
    BY <2>2 DEF TableStep, Walk, OpenAllocates, NotFound, OpenBusy, OpenLocks, KeyAdd, ReleaseBusy, ReleaseLocks,
       KeyDel, KeyDelClear, KeyDelFree, KeyDelNone, PrintKeyUnlock, Return, Goto, CallsOK
  <2>3. CASE Plain(p)
    BY <2>3 DEF Plain, Marked
  <2> QED
    BY <2>1, <2>2, <2>3
<1>2. ASSUME NEW q \in Pids, pc[q] \in {"init_again", "init_store"}
      PROVE  entry' = entry
  BY <1>1, <1>2, OthersOnlyClose DEF TableInv, LabelsOK, SetUpLabels, Deleting
<1>3. \A q \in Pids : pc'[q] \in {"init_again", "init_store"} <=> pc[q] \in {"init_again", "init_store"}
  BY <1>0, <1>1
<1> QED
  BY <1>0, <1>1, <1>2, <1>3 DEF Replacing

(* What the steps but those of a set-up do to the heaps and their owners.  *)
LEMMA HeapsMove ==
  ASSUME NEW K, NEW T, DeviceTypes(K, T), DeviceTypes(K, T)', MutexInv, TableInv,
         NEW p \in Pids, AnyCall(p) \/ TableStep(p) \/ Plain(p)
  PROVE  /\ \A n \in DOMAIN nodes \cap Listed' : nodes'[n].global_heap = nodes[n].global_heap
         /\ ~ KeyDel(p) => DOMAIN heaps' = DOMAIN heaps
         /\ KeyDel(p) => \E n \in Listed :
              /\ Listed' = Listed \ {n} /\ nodes[n].key = p
              /\ nodes[n].global_heap \in DOMAIN heaps \cup {Null}
              /\ DOMAIN heaps' = DOMAIN heaps \ {nodes[n].global_heap}
<1> USE DEF DeviceTypes
<1>0. /\ DOMAIN loc = Pids /\ \A n \in DOMAIN nodes : nodes[n] \in Nodes
      /\ DOMAIN loc[p] = {"op", "a", "b", "cur", "heap", "idx", "val"}
      /\ Unchanged(p) \/ Adds(p) \/ Deletes(p)
  BY StepMovesList DEF CallsOK, Calls, NodesOK
<1>1. CASE AnyCall(p) \/ Plain(p)
  <2>1. ~ KeyDel(p) /\ nodes' = nodes /\ DOMAIN heaps' = DOMAIN heaps
    BY <1>1 DEF AnyCall, Call, ReleaseCall, MayCall, Idle, Plain, Marked, KeyDel
  <2> QED
    BY <2>1
<1>2. CASE KeyDel(p)
  <2>1. PICK i \in 1 .. MaxNodes + 1 :
          /\ nodes[Visit[i]].global_heap \in DOMAIN heaps \cup {Null}
          /\ nodes' = [nodes EXCEPT ![Visit[i-1]].next = nodes[Visit[i]].next]
          /\ heaps' = DestroyHeap(nodes[Visit[i]].global_heap)
          /\ loc' = [loc EXCEPT ![p].cur = Visit[i], ![p].heap = nodes[Visit[i]].global_heap]
    BY <1>2 DEF KeyDel
  <2>2. \A n \in DOMAIN nodes : nodes'[n].global_heap = nodes[n].global_heap
    BY <1>0, <2>1 DEF Nodes
  <2> DEFINE n == Visit[i]
  <2>3. loc'[p].cur = n /\ Deletes(p)
    <3>1. Deletes(p)
      BY <1>0, <1>2 DEF Unchanged, Adds, KeyAdd, KeyDel
    <3> HIDE DEF n
    <3> QED
      BY <1>0, <2>1, <3>1 DEF n
  <2>4. n \in Listed /\ nodes[n].key = p /\ Listed' = Listed \ {n}
    BY <2>3 DEF Deletes
  <2>5. DOMAIN heaps' = DOMAIN heaps \ {nodes[n].global_heap}
    BY <2>1 DEF DestroyHeap, Without
  <2> HIDE DEF n
  <2> QED
    BY <1>2, <2>1, <2>2, <2>4, <2>5 DEF n
<1>3. CASE KeyAdd(p)
  <2> DEFINE linked == [nodes EXCEPT ![entry].next = nodes[Htable].next]
  <2>1. nodes' = [linked EXCEPT ![Htable].next = entry] /\ heaps' = heaps /\ ~ KeyDel(p)
    BY <1>3 DEF KeyAdd, KeyDel
  <2>2. /\ DOMAIN linked = DOMAIN nodes
        /\ \A n \in DOMAIN nodes : DOMAIN linked[n] = DOMAIN nodes[n] /\ linked[n].global_heap = nodes[n].global_heap
    BY <1>0 DEF Nodes
  <2> HIDE DEF linked
  <2>3. \A n \in DOMAIN nodes : nodes'[n].global_heap = nodes[n].global_heap
    BY <2>1, <2>2
  <2> QED
    BY <2>1, <2>3
<1>4. CASE KeyDelClear(p)
  <2>1. loc[p].cur \notin Listed /\ Listed' = Listed /\ ~ KeyDel(p) /\ heaps' = heaps
    BY <1>0, <1>4 DEF TableInv, Unlinked, Unchanged, Adds, Deletes, KeyAdd, KeyDel, KeyDelClear
  <2>2. \A n \in DOMAIN nodes : n # loc[p].cur => nodes'[n] = nodes[n]
    BY <1>4 DEF KeyDelClear
  <2> QED
    BY <2>1, <2>2
<1>5. CASE OpenAllocates(p) \/ KeyDelFree(p)
  <2>1. \A n \in DOMAIN nodes \cap DOMAIN nodes' : nodes'[n] = nodes[n]
    <3>1. CASE OpenAllocates(p)
      <4>1. entry' \in NodeIds \ DOMAIN nodes /\ nodes' = With(nodes, entry', NewNode(p))
        BY <3>1, KmallocFresh, IdsAreNaturals DEF OpenAllocates
      <4> QED
        BY <4>1 DEF With
    <3>2. CASE KeyDelFree(p)
      BY <3>2 DEF KeyDelFree, Without
    <3> QED
      BY <1>5, <3>1, <3>2
  <2>2. heaps' = heaps /\ ~ KeyDel(p) /\ Listed' \subseteq DOMAIN nodes'
    BY <1>5 DEF OpenAllocates, NotFound, KeyDelFree, KeyDel, Listed
  <2> QED
    BY <2>1, <2>2
<1>6. CASE TableStep(p) /\ ~ KeyDel(p) /\ ~ KeyAdd(p) /\ ~ KeyDelClear(p) /\ ~ OpenAllocates(p) /\ ~ KeyDelFree(p)
  <2>1. nodes' = nodes /\ heaps' = heaps
    BY <1>6 DEF TableStep, Walk, OpenBusy, OpenLocks, ReleaseBusy, ReleaseLocks, KeyDelNone, PrintKeyUnlock
  <2> QED
    BY <1>6, <2>1
<1> QED
  BY <1>1, <1>2, <1>3, <1>4, <1>5, <1>6

LEMMA StepKeepsPtrs ==
  ASSUME NEW K, NEW T, UsesOverlap, DeviceTypes(K, T), DeviceTypes(K, T)', MutexInv, TableInv, PtrInv,
         NEW p \in Pids, AnyCall(p) \/ TableStep(p) \/ Plain(p)
  PROVE  PtrInv'
<1> USE DEF DeviceTypes, PtrInv
<1>0. /\ Null \notin DOMAIN heaps
      /\ Unchanged(p) \/ Adds(p) \/ Deletes(p)
      /\ \A n : Replacing(n)' <=> Replacing(n)
      /\ \A q \in Pids : pc'[q] = "init_store" => pc[q] = "init_store" /\ loc'[q] = loc[q]
      /\ Listed \subseteq DOMAIN nodes
      /\ \A n \in DOMAIN nodes \cap Listed' : nodes'[n].global_heap = nodes[n].global_heap
      /\ ~ KeyDel(p) => DOMAIN heaps' = DOMAIN heaps
      /\ KeyDel(p) => \E n \in Listed :
              /\ Listed' = Listed \ {n} /\ nodes[n].key = p
              /\ nodes[n].global_heap \in DOMAIN heaps \cup {Null}
              /\ DOMAIN heaps' = DOMAIN heaps \ {nodes[n].global_heap}
  BY IdsAreNaturals, StepMovesList, ReplacingKept, HeapsMove DEF HeapsOK, Listed
<1>1. CASE Unchanged(p)
  <2>1. /\ Listed' = Listed /\ DOMAIN heaps' = DOMAIN heaps
        /\ \A n \in Listed : nodes'[n].global_heap = nodes[n].global_heap
    BY <1>0, <1>1 DEF Unchanged
  <2> QED
    BY <1>0, <2>1 DEF HeapPtrs, OneOwner, NewHeapUnowned
<1>2. CASE Adds(p)
  <2>1. KeyAdd(p) /\ pc[p] \in Opening /\ ~ KeyDel(p) /\ Listed' = Listed \cup {entry}
    BY <1>2 DEF Adds, KeyAdd, KeyDel, Opening
  <2>2. entry \in DOMAIN nodes /\ nodes[entry].global_heap = Null
    BY <2>1 DEF TableInv, FreshEntry
  <2>3. \A n \in Listed' : nodes'[n].global_heap = nodes[n].global_heap
    BY <1>0, <2>1, <2>2
  <2>4. \A q \in Pids : pc[q] \notin {"init_again", "init_store"}
    <3> SUFFICES ASSUME NEW q \in Pids, pc[q] \in {"init_again", "init_store"} PROVE FALSE
      OBVIOUS
    <3>1. q # p /\ ~ Idle(q)
      BY <2>1 DEF Opening, Idle
    <3>2. pc[q] \in Deleting \cup {"print"}
      BY <2>1, <3>1, OthersClose, UsesImplyOpens DEF TableInv
    <3> QED
      BY <3>2 DEF Deleting
  <2>5. \A n : ~ Replacing(n) /\ ~ Replacing(n)'
    BY <1>0, <2>4 DEF Replacing
  <2>6. HeapPtrs'
    BY <1>0, <2>1, <2>2, <2>3, <2>5 DEF HeapPtrs
  <2>7. OneOwner'
    BY <1>0, <2>1, <2>2, <2>3 DEF OneOwner
  <2> QED
    BY <1>0, <2>4, <2>6, <2>7 DEF NewHeapUnowned
<1>3. CASE Deletes(p)
  <2>1. PICK n \in Listed :
              /\ Listed' = Listed \ {n}
              /\ nodes[n].global_heap \in DOMAIN heaps \cup {Null}
              /\ DOMAIN heaps' = DOMAIN heaps \ {nodes[n].global_heap}
    BY <1>0, <1>3 DEF Deletes
  <2>2. \A m \in Listed' : nodes'[m].global_heap = nodes[m].global_heap /\ m \in Listed /\ m # n
    BY <1>0, <2>1
  <2>3. HeapPtrs'
    BY <1>0, <2>1, <2>2 DEF HeapPtrs, OneOwner
  <2>4. OneOwner'
    BY <1>0, <2>1, <2>2 DEF OneOwner
  <2>5. NewHeapUnowned'
    BY <1>0, <2>1, <2>2 DEF NewHeapUnowned
  <2> QED
    BY <2>3, <2>4, <2>5
<1> QED
  BY <1>0, <1>1, <1>2, <1>3

LEMMA SetUpIsAlone ==
  ASSUME UsesOverlap, TableInv, NEW p \in Pids, pc[p] \in SetUpLabels,
         NEW q \in Pids, q # p
  PROVE  pc[q] \notin SetUpLabels
<1> SUFFICES ASSUME pc[q] \in SetUpLabels PROVE FALSE
  OBVIOUS
<1>1. loc[p].op \in SetUpOps /\ loc[q].op \in SetUpOps /\ ~ Idle(p) /\ ~ Idle(q)
  BY DEF TableInv, LabelsOK, SetUpLabels, Idle
<1>2. {loc[p].op, loc[q].op} \in MayOverlap
  BY <1>1 DEF TableInv, Apart
<1> QED
  BY <1>1, <1>2 DEF UsesOverlap, Uses, SetUpOps

(* What CreateHeap does to the heaps.                                      *)
LEMMA CreateHeapIs ==
  ASSUME NEW K, CallsOK(K), NEW p \in Pids, NEW size, NEW type, CreateHeap(p, heaps, size, type)
  PROVE  LET h == loc'[p].heap
         IN  /\ pc'[p] = "init_store"
             /\ h \in (HeapIds \ DOMAIN heaps) \cup {Null}
             /\ DOMAIN heaps' = DOMAIN heaps \cup ({h} \ {Null})
<1>1. /\ DOMAIN pc = Pids /\ DOMAIN loc = Pids
      /\ DOMAIN loc[p] = {"op", "a", "b", "cur", "heap", "idx", "val"}
  BY DEF CallsOK, Calls
<1> DEFINE h == Kmalloc(HeapIds, DOMAIN heaps)
<1>2. h = Null \/ h \in HeapIds \ DOMAIN heaps
  BY KmallocFresh, IdsAreNaturals
<1>3. /\ heaps' = IF h = Null THEN heaps ELSE With(heaps, h, NewHeap(size, type))
      /\ loc' = [loc EXCEPT ![p].heap = h] /\ pc'[p] = "init_store"
  BY <1>1 DEF CreateHeap, Goto
<1> HIDE DEF h
<1>4. loc'[p].heap = h
  BY <1>1, <1>3
<1>5. DOMAIN heaps' = DOMAIN heaps \cup ({h} \ {Null})
  BY <1>2, <1>3 DEF With
<1> QED
  BY <1>2, <1>3, <1>4, <1>5

LEMMA SetUpKeepsPtrs ==
  ASSUME NEW K, NEW T, UsesOverlap, DeviceTypes(K, T), DeviceTypes(K, T)', MutexInv, TableInv, SetUpEntry,
         PtrInv, NEW p \in Pids, SetUpStep(p)
  PROVE  PtrInv'
<1> USE DEF DeviceTypes, PtrInv
<1>0. /\ Null \notin HeapIds /\ DestroyedNull \notin HeapIds
      /\ DOMAIN heaps \subseteq HeapIds /\ DOMAIN heaps' \subseteq HeapIds
      /\ pc[p] \in SetUpLabels /\ entry' = entry
      /\ DOMAIN pc = Pids
      /\ \A n \in DOMAIN nodes : nodes[n] \in Nodes
  BY IdsAreNaturals DEF HeapsOK, SetUpLabels, SetUpStep, InitCreates, InitCreatesAgain, InitDestroys, InitStores,
     CallsOK, NodesOK
<1>1. entry \in Listed /\ Listed' = Listed /\ Listed \subseteq DOMAIN nodes
  <2>1. Unchanged(p) \/ Adds(p) \/ Deletes(p)
    BY StepMovesList
  <2> QED
    BY <1>0, <2>1 DEF SetUpEntry, Unchanged, Adds, Deletes, KeyAdd, KeyDel, SetUpLabels, Listed
<1>2. \A q \in Pids : q # p => pc[q] \notin SetUpLabels /\ pc'[q] = pc[q]
  BY <1>0, SetUpIsAlone, StepsAreOfOne
<1>3. /\ \A n : Replacing(n) <=> (n = entry /\ pc[p] \in {"init_again", "init_store"})
      /\ \A n : Replacing(n)' <=> (n = entry /\ pc'[p] \in {"init_again", "init_store"})
  BY <1>0, <1>2 DEF Replacing, SetUpLabels
<1>4. \A q \in Pids : pc'[q] = "init_store" => q = p
  BY <1>2 DEF SetUpLabels
<1>5. ASSUME NEW v \in {Null, DestroyedNull}, NEW size, NEW type,
             nodes' = [nodes EXCEPT ![entry].global_heap = v], CreateHeap(p, heaps, size, type),
             pc[p] \in {"init", "init_again"}
      PROVE  PtrInv'
  <2> DEFINE h == loc'[p].heap
  <2>1. /\ pc'[p] = "init_store"
        /\ h \in (HeapIds \ DOMAIN heaps) \cup {Null}
        /\ DOMAIN heaps' = DOMAIN heaps \cup ({h} \ {Null})
    BY <1>5, CreateHeapIs
  <2>2. /\ nodes'[entry].global_heap = v /\ v \notin HeapIds
        /\ \A n \in Listed : n # entry => nodes'[n].global_heap = nodes[n].global_heap
    BY <1>0, <1>1, <1>5 DEF Nodes
  <2>3. \A n \in Listed : n # entry => nodes[n].global_heap \in DOMAIN heaps \cup {Null}
    BY <1>3 DEF HeapPtrs
  <2> HIDE DEF h
  <2>4. HeapPtrs'
    BY <1>0, <1>1, <1>3, <2>1, <2>2, <2>3 DEF HeapPtrs
  <2>5. OneOwner'
    BY <1>0, <1>1, <2>1, <2>2, <2>3 DEF OneOwner
  <2>6. NewHeapUnowned'
    BY <1>0, <1>1, <1>4, <2>1, <2>2, <2>3 DEF NewHeapUnowned, h
  <2> QED
    BY <2>4, <2>5, <2>6
<1>6. CASE InitDestroys(p)
  <2> DEFINE h == nodes[entry].global_heap
  <2>1. /\ pc'[p] = "init_again" /\ pc[p] = "init" /\ nodes' = nodes
        /\ h \in DOMAIN heaps /\ DOMAIN heaps' = DOMAIN heaps \ {h}
    BY <1>0, <1>6 DEF InitDestroys, Goto, DestroyHeap, Without
  <2>2. \A n \in Listed : n # entry => /\ nodes[n].global_heap \in DOMAIN heaps \cup {Null}
                                       /\ nodes[n].global_heap # h
    BY <1>1, <1>3, <2>1 DEF HeapPtrs, OneOwner
  <2>3. HeapPtrs'
    BY <1>0, <1>1, <1>3, <2>1, <2>2 DEF HeapPtrs
  <2>4. OneOwner'
    BY <1>1, <2>1 DEF OneOwner
  <2> QED
    BY <1>4, <2>1, <2>3, <2>4 DEF NewHeapUnowned
<1>7. CASE InitStores(p)
  <2> DEFINE h == loc[p].heap
  <2>1. /\ pc'[p] = "idle" /\ pc[p] = "init_store" /\ heaps' = heaps
        /\ nodes' = [nodes EXCEPT ![entry].global_heap = h]
    BY <1>0, <1>7 DEF InitStores, Return, Goto
  <2>2. /\ h \in DOMAIN heaps \cup {Null}
        /\ \A n \in Listed : nodes[n].global_heap = h => h = Null
    BY <2>1 DEF NewHeapUnowned
  <2> HIDE DEF h
  <2>3. /\ nodes'[entry].global_heap = h
        /\ \A n \in Listed : n # entry => nodes'[n].global_heap = nodes[n].global_heap
    BY <1>0, <1>1, <2>1 DEF Nodes
  <2>4. HeapPtrs'
    BY <1>1, <1>3, <2>1, <2>2, <2>3 DEF HeapPtrs
  <2>5. OneOwner'
    BY <1>0, <1>1, <2>1, <2>2, <2>3 DEF OneOwner
  <2> QED
    BY <1>4, <2>1, <2>4, <2>5 DEF NewHeapUnowned
<1> QED
  BY <1>5, <1>6, <1>7 DEF SetUpStep, InitCreates, InitCreatesAgain

LEMMA StepKeepsOwner ==
  ASSUME NEW K, NEW T, UsesOverlap, DeviceTypes(K, T), DeviceTypes(K, T)', MutexInv, TableInv, OwnerInv,
         SharedNext
  PROVE  OwnerInv'
<1>1. ASSUME NEW p \in Pids, AnyCall(p) \/ TableStep(p) \/ SetUpStep(p) \/ Plain(p)
      PROVE  OwnerInv'
  <2>1. Walkers' /\ SetUpEntry'
    BY <1>1, StepKeepsWalkers, StepKeepsSetUpEntry DEF OwnerInv
  <2>2. PtrInv'
    BY <1>1, StepKeepsPtrs, SetUpKeepsPtrs DEF OwnerInv
  <2> QED
    BY <2>1, <2>2 DEF OwnerInv
<1>2. CASE HelloExit \/ HelloInit
  <2>1. Listed' = {} /\ Quiet
    BY <1>2, LoadingMovesList
  <2>2. \A p \in Pids : pc'[p] = "idle"
    BY <1>2, <2>1 DEF HelloExit, HelloInit, Quiet, Idle
  <2> QED
    BY <2>1, <2>2 DEF OwnerInv, Walkers, SetUpEntry, PtrInv, HeapPtrs, OneOwner, NewHeapUnowned, SetUpLabels
<1> QED
  BY <1>1, <1>2 DEF SharedNext

LEMMA OwnerUnchanged ==
  ASSUME OwnerInv, Untouched
  PROVE  OwnerInv'
<1>1. nodes' = nodes /\ heaps' = heaps /\ pc' = pc /\ loc' = loc /\ entry' = entry
  BY DEF Untouched
<1>2. Visit' = Visit
  BY <1>1 DEF Visit
<1>3. Listed' = Listed
  BY <1>1, <1>2 DEF Listed
<1> QED
  BY <1>1, <1>3 DEF OwnerInv, Walkers, SetUpEntry, PtrInv, HeapPtrs, OneOwner, NewHeapUnowned, Replacing

LEMMA InitOwner ==
  ASSUME Init, Listed = {}
  PROVE  OwnerInv
BY DEF Init, OwnerInv, Walkers, SetUpEntry, PtrInv, HeapPtrs, OneOwner, NewHeapUnowned, SetUpLabels

(* What the invariants say of a pop.                                       *)
LEMMA PopIsOwn ==
  ASSUME NEW K, NEW T, DeviceTypes(K, T), TableInv, OwnerInv, NEW p \in Pids,
         AnyCall(p) \/ TableStep(p) \/ SetUpStep(p) \/ Plain(p), NEW q \in Pids,
         pc[q] = "walk", pc'[q] = "down", NEW n \in Listed, nodes[n].global_heap = loc'[q].heap
  PROVE  nodes[n].key = q
<1>0. DOMAIN pc = Pids
  BY DEF DeviceTypes, CallsOK
<1>1. q = p
  BY StepsAreOfOne DEF DeviceTypes
<1>2. Plain(p)
  BY <1>0, <1>1 DEF AnyCall, Call, ReleaseCall, TableStep, Walk, OpenAllocates, OpenBusy, OpenLocks, KeyAdd,
     ReleaseBusy, ReleaseLocks, KeyDel, KeyDelClear, KeyDelFree, KeyDelNone, PrintKeyUnlock, SetUpStep,
     InitCreates, InitCreatesAgain, InitDestroys, InitStores, CreateHeap, Return, Goto
<1>3. Found(p) /\ loc'[p].heap = nodes[loc[p].cur].global_heap /\ loc'[p].heap \in DOMAIN heaps
  BY <1>1, <1>2 DEF Plain, OwnHeap
<1>4. loc[p].cur \in Listed /\ nodes[loc[p].cur].key = p
  BY <1>3, FoundIsListed DEF OwnerInv
<1> QED
  BY <1>1, <1>3, <1>4 DEF OwnerInv, PtrInv, OneOwner
-----------------------------------------------------------------------------
(* No heap is lost while the module is not removed.                        *)
LEMMA StepKeepsOwned ==
  ASSUME NEW K, NEW T, UsesOverlap, DeviceTypes(K, T), DeviceTypes(K, T)', MutexInv, TableInv, OwnerInv,
         Owned, NEW p \in Pids, AnyCall(p) \/ TableStep(p) \/ SetUpStep(p) \/ Plain(p)
  PROVE  Owned'
<1> USE DEF DeviceTypes
<1>0. /\ Null \notin DOMAIN heaps /\ DOMAIN pc = Pids /\ DOMAIN loc = Pids
      /\ \A q \in Pids : q # p => pc'[q] = pc[q] /\ loc'[q] = loc[q]
      /\ \A n \in DOMAIN nodes : nodes[n] \in Nodes
      /\ Listed \subseteq DOMAIN nodes
      /\ Unchanged(p) \/ Adds(p) \/ Deletes(p)
  BY IdsAreNaturals, StepsAreOfOne, StepMovesList DEF HeapsOK, NodesOK, CallsOK, Listed
<1> SUFFICES ASSUME NEW h \in DOMAIN heaps'
             PROVE  \/ \E n \in Listed' : nodes'[n].global_heap = h
                    \/ \E q \in Pids : pc'[q] = "init_store" /\ loc'[q].heap = h
  BY DEF Owned
<1>1. CASE AnyCall(p) \/ TableStep(p) \/ Plain(p)
  <2>1. /\ \A n \in DOMAIN nodes \cap Listed' : nodes'[n].global_heap = nodes[n].global_heap
        /\ ~ KeyDel(p) => DOMAIN heaps' = DOMAIN heaps
        /\ KeyDel(p) => \E n \in Listed :
             /\ Listed' = Listed \ {n}
             /\ nodes[n].global_heap \in DOMAIN heaps \cup {Null}
             /\ DOMAIN heaps' = DOMAIN heaps \ {nodes[n].global_heap}
    BY <1>1, HeapsMove
  <2>2. h \in DOMAIN heaps
    BY <2>1
  <2>3. \A n \in Listed : nodes[n].global_heap = h => n \in Listed'
    <3>1. CASE KeyDel(p)
      BY <2>1, <3>1
    <3>2. CASE ~ KeyDel(p)
      BY <1>0, <3>2 DEF Unchanged, Adds, Deletes
    <3> QED
      BY <3>1, <3>2
  <2>4. pc[p] # "init_store"
    BY <1>1 DEF AnyCall, Call, ReleaseCall, MayCall, Idle, Plain, Marked, TableStep, Walk, OpenAllocates,
       NotFound, OpenBusy, OpenLocks, KeyAdd, ReleaseBusy, ReleaseLocks, KeyDel, KeyDelClear, KeyDelFree,
       KeyDelNone, PrintKeyUnlock
  <2>5. CASE \E n \in Listed : nodes[n].global_heap = h
    BY <1>0, <2>1, <2>3, <2>5
  <2>6. CASE \E q \in Pids : pc[q] = "init_store" /\ loc[q].heap = h
    BY <1>0, <2>4, <2>6
  <2> QED
    BY <2>2, <2>5, <2>6 DEF Owned
<1>2. CASE SetUpStep(p)
  <2>1. pc[p] \in SetUpLabels /\ entry' = entry
    BY <1>2 DEF SetUpLabels, SetUpStep, InitCreates, InitCreatesAgain, InitDestroys, InitStores
  <2>2. /\ entry \in Listed /\ Listed' = Listed
    BY <1>0, <2>1 DEF OwnerInv, SetUpEntry, Unchanged, Adds, Deletes, KeyAdd, KeyDel, SetUpLabels
  <2>3. /\ \A q \in Pids : q # p => pc[q] # "init_store"
        /\ pc[p] \in {"init_again", "init_store"} => nodes[entry].global_heap \notin DOMAIN heaps
    <3>1. \A q \in Pids : q # p => pc[q] \notin SetUpLabels
      BY <2>1, SetUpIsAlone
    <3>2. pc[p] \in {"init_again", "init_store"} => Replacing(entry)
      BY DEF Replacing
    <3> QED
      BY <2>2, <3>1, <3>2 DEF SetUpLabels, OwnerInv, PtrInv, HeapPtrs
  <2>4. ASSUME NEW v, nodes' = [nodes EXCEPT ![entry].global_heap = v]
        PROVE  /\ nodes'[entry].global_heap = v
               /\ \A n \in Listed : n # entry => nodes'[n].global_heap = nodes[n].global_heap
    BY <1>0, <2>2, <2>4 DEF Nodes
  <2>5. CASE \E size, type : InitCreates(p, size, type) \/ InitCreatesAgain(p, size, type)
    <3>1. PICK size, type : InitCreates(p, size, type) \/ InitCreatesAgain(p, size, type)
      BY <2>5
    <3>2. PICK v : nodes' = [nodes EXCEPT ![entry].global_heap = v]
      BY <3>1 DEF InitCreates, InitCreatesAgain
    <3>3. CreateHeap(p, heaps, size, type) /\ pc[p] \in {"init", "init_again"}
          /\ nodes[entry].global_heap \notin DOMAIN heaps
      BY <1>0, <2>3, <3>1 DEF InitCreates, InitCreatesAgain
    <3>4. pc'[p] = "init_store" /\ DOMAIN heaps' \subseteq DOMAIN heaps \cup {loc'[p].heap}
      BY <3>3, CreateHeapIs
    <3>5. CASE h = loc'[p].heap
      BY <3>4, <3>5
    <3>6. CASE h \in DOMAIN heaps
      <4>1. \E n \in Listed : nodes[n].global_heap = h
        BY <2>3, <3>3, <3>6 DEF Owned
      <4> QED
        BY <2>2, <2>4, <3>2, <3>3, <3>6, <4>1
    <3> QED
      BY <3>4, <3>5, <3>6
  <2>6. CASE InitDestroys(p)
    <3>1. /\ h \in DOMAIN heaps /\ nodes' = nodes /\ pc[p] # "init_store"
      BY <2>6 DEF InitDestroys, DestroyHeap, Without
    <3> QED
      BY <2>2, <2>3, <3>1 DEF Owned
  <2>7. CASE InitStores(p)
    <3>1. /\ h \in DOMAIN heaps /\ pc[p] = "init_store"
          /\ nodes' = [nodes EXCEPT ![entry].global_heap = loc[p].heap]
      BY <2>7 DEF InitStores
    <3>2. CASE h = loc[p].heap
      BY <2>2, <2>4, <3>1, <3>2
    <3>3. CASE h # loc[p].heap
      <4>1. \E n \in Listed : nodes[n].global_heap = h
        BY <2>3, <3>1, <3>3 DEF Owned
      <4> QED
        BY <2>2, <2>3, <2>4, <3>1, <4>1
    <3> QED
      BY <3>2, <3>3
  <2> QED
    BY <1>2, <2>5, <2>6, <2>7 DEF SetUpStep
<1> QED
  BY <1>1, <1>2

LEMMA OwnedUnchanged ==
  ASSUME Owned, Untouched
  PROVE  Owned'
<1>1. nodes' = nodes /\ heaps' = heaps /\ pc' = pc /\ loc' = loc
  BY DEF Untouched
<1>2. Visit' = Visit
  BY <1>1 DEF Visit
<1>3. Listed' = Listed
  BY <1>1, <1>2 DEF Listed
<1> QED
  BY <1>1, <1>3 DEF Owned

(* What the invariants say of the heaps between the calls.                 *)
LEMMA OwnedShows ==
  ASSUME OwnerInv, Owned
  PROVE  HeapsAreOwned
<1> SUFFICES ASSUME Quiet PROVE /\ \A n \in Listed : nodes[n].global_heap \in DOMAIN heaps \cup {Null}
                                /\ \A h \in DOMAIN heaps : Cardinality(OwnersOf(h)) = 1
  BY DEF HeapsAreOwned
<1>1. \A p \in Pids : pc[p] = "idle"
  BY DEF Quiet, Idle
<1>2. \A n \in Listed : nodes[n].global_heap \in DOMAIN heaps \cup {Null}
  BY <1>1 DEF OwnerInv, PtrInv, HeapPtrs, Replacing
<1>3. ASSUME NEW h \in DOMAIN heaps
      PROVE  Cardinality(OwnersOf(h)) = 1
  <2>1. PICK n \in Listed : nodes[n].global_heap = h
    BY <1>1 DEF Owned
  <2>2. OwnersOf(h) = {n}
    BY <2>1 DEF OwnersOf, OwnerInv, PtrInv, OneOwner
  <2> QED
    BY <2>2, FS_Singleton
<1> QED
  BY <1>2, <1>3
-----------------------------------------------------------------------------
(* Only closes overlap with other calls, of any kind.                      *)
OnlyClosesOverlap == \A pair \in MayOverlap : "release" \in pair

LEMMA OnlyClosesAreUses == OnlyClosesOverlap => UsesOverlap
BY DEF OnlyClosesOverlap, UsesOverlap

(* While a process is in any call but a close, the others begin calls or   *)
(* close: they leave the globals alone.                                    *)
LEMMA OthersStepAside ==
  ASSUME OnlyClosesOverlap, Apart, LabelsOK, NEW q \in Pids, ~ Idle(q), loc[q].op # "release",
         NEW p \in Pids, p # q, AnyCall(p) \/ TableStep(p) \/ SetUpStep(p) \/ Plain(p)
  PROVE  UNCHANGED <<entry, num, topnode>> /\ (AnyCall(p) \/ CloseStep(p))
<1>1. CASE AnyCall(p)
  BY <1>1 DEF AnyCall, Call, ReleaseCall
<1>2. CASE ~ AnyCall(p)
  <2>1. ~ Idle(p)
    BY <1>2 DEF Idle, TableStep, Walk, OpenAllocates, NotFound, OpenBusy, OpenLocks, KeyAdd, ReleaseBusy,
       ReleaseLocks, KeyDel, KeyDelClear, KeyDelFree, KeyDelNone, PrintKeyUnlock, SetUpStep, InitCreates,
       InitCreatesAgain, InitDestroys, InitStores, Plain
  <2>2. {loc[q].op, loc[p].op} \in MayOverlap
    BY <2>1 DEF Apart
  <2>3. loc[p].op = "release"
    BY <2>2 DEF OnlyClosesOverlap
  <2>4. pc[p] \in Deleting \cup {"print"}
    BY <2>1, <2>3 DEF LabelsOK, Idle
  <2>5. TableStep(p)
    BY <1>2, <2>4 DEF SetUpStep, InitCreates, InitCreatesAgain, InitDestroys, InitStores, Plain, Marked,
        Deleting
  <2>6. CloseStep(p)
    BY <2>4, <2>5 DEF TableStep, Walk, OpenAllocates, NotFound, OpenBusy, OpenLocks, KeyAdd, Deleting,
        CloseStep
  <2>7. UNCHANGED <<entry, num, topnode>>
    BY <2>6 DEF CloseStep, ReleaseBusy, ReleaseLocks, KeyDel, KeyDelClear, KeyDelFree, KeyDelNone,
        PrintKeyUnlock
  <2> QED
    BY <2>6, <2>7
<1> QED
  BY <1>1, <1>2

(* What is in the list of q's stays there while the others step.           *)
LEMMA OthersKeepEntry ==
  ASSUME NEW K, NEW T, DeviceTypes(K, T), DeviceTypes(K, T)', MutexInv, TableInv,
         NEW p \in Pids, AnyCall(p) \/ TableStep(p) \/ SetUpStep(p) \/ Plain(p),
         NEW q \in Pids, p # q, NEW n \in Listed, nodes[n].key = q
  PROVE  n \in Listed' /\ nodes'[n].key = q
<1>1. /\ KeysKept /\ (Unchanged(p) \/ Adds(p) \/ Deletes(p))
      /\ Listed \subseteq DOMAIN nodes /\ Listed' \subseteq DOMAIN nodes'
  BY StepMovesList DEF Listed
<1>2. n \in Listed'
  BY <1>1 DEF Unchanged, Adds, Deletes
<1> QED
  BY <1>1, <1>2 DEF KeysKept
=============================================================================
