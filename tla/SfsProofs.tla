----------------------------- MODULE SfsProofs ------------------------------
(***************************************************************************)
(* What holds of the file system for every size of block and disk: where   *)
(* format lays what, and that no call of a program with one file, as long  *)
(* as it writes within the five direct blocks and the free blocks are      *)
(* enough for it, touches the super block or leaves the inode bitmap of    *)
(* the disk behind the one in memory.                                      *)
(***************************************************************************)
EXTENDS Sfs, FiniteSetTheorems, WellFoundedInduction, TLAPS

InodeBlock == 1 + IB + DBB          \* the first block of inodes
DataStart  == 1 + IB + DBB + I      \* the first data block
Metadata   == 0 .. DataStart - 1

(* What the program is: one file, written up to the end of the fifth       *)
(* block; the word it puts into block 0 before it formats is not the magic *)
(* number.                                                                 *)
OneFile == MaxFiles = 1
WritesDirectBlocks ==
  \A range \in Writes : /\ range[1] \in Nat /\ range[2] \in Nat
                        /\ range[1] + range[2] <= DirectWords
                        /\ MAGIC \notin DataAt[range[1]]
NumbersFitWords == N < 2^16

(* The free blocks are enough for a file that asks for n more, and for the *)
(* indirect block that is then its first.                                  *)
FirstIndirect(node) == NextDirect(node) >= NDirect /\ node.size <= DirectWords
AreFree(node, n) ==
  /\ n <= Cardinality(FreeBlocks(bitmap_data))
  /\ n # 0 /\ FirstIndirect(node)
       => FreeBlocks(bitmap_data \cup FirstFree(bitmap_data, n)) # {}

(* A write for which they are not: what get_empty_blocks then returns is   *)
(* in part what malloc left there, which may be the number of any block.   *)
RunsShort ==
  \E inumber \in Inumbers, range \in Writes :
    /\ \E v \in DataAt[range[1]] : WriteI(inumber, range[1], range[2], v)
    /\ ~ AreFree(Node(inumber), Missing(Node(inumber), range[1], range[2]))
-----------------------------------------------------------------------------
(* Numbers.                                                                *)

LEMMA NonemptyHasMin ==
  ASSUME NEW S \in SUBSET Nat, S # {}
  PROVE  Min(S) \in S /\ \A x \in S : Min(S) <= x
<1>1. PICK m \in S : \A x \in S : ~ (<<x, m>> \in OpToRel(<, Nat))
  BY NatLessThanWellFounded, WFMin
<1>2. \A x \in S : ~ (x < m)
  BY <1>1 DEF OpToRel
<1>3. \A x \in S : m <= x
  BY <1>2
<1> QED
  BY <1>3 DEF Min

LEMMA SetInduction ==
  ASSUME NEW S, 0 \in S, \A n \in Nat : n \in S => n+1 \in S
  PROVE  Nat \subseteq S
<1> DEFINE Bad == {i \in Nat : i \notin S}
<1>1. SUFFICES ASSUME Bad # {} PROVE FALSE
  OBVIOUS
<1>2. Min(Bad) \in Bad /\ \A x \in Bad : Min(Bad) <= x
  BY <1>1, NonemptyHasMin
<1>3. Min(Bad) - 1 \in Nat /\ Min(Bad) - 1 \in S
  BY <1>2
<1> QED
  BY <1>2, <1>3

LEMMA NonemptyHasMax ==
  ASSUME NEW d \in Nat, NEW S \in SUBSET (0 .. d), S # {}
  PROVE  Max(S) \in S
<1> DEFINE T == {n \in Nat : d - n \in S}
<1>1. T # {} /\ T \subseteq Nat
  <2>1. PICK x \in S : TRUE
    OBVIOUS
  <2>2. d - x \in T
    BY <2>1
  <2> QED
    BY <2>2
<1>2. Min(T) \in T /\ \A n \in T : Min(T) <= n
  BY <1>1, NonemptyHasMin
<1> DEFINE m == d - Min(T)
<1>3. m \in S /\ \A x \in S : m >= x
  <2>1. m \in S
    BY <1>2
  <2>2. ASSUME NEW x \in S
        PROVE  m >= x
    <3>1. x \in 0 .. d /\ d - x \in T
      OBVIOUS
    <3> QED
      BY <1>2, <3>1
  <2> QED
    BY <2>1, <2>2
<1> HIDE DEF m
<1>4. \E y \in S : \A x \in S : y >= x
  BY <1>3
<1> QED
  BY <1>4, Zenon DEF Max
-----------------------------------------------------------------------------
(* The layout.  The regions fill the disk, in this order: the super block, *)
(* the two bitmaps, the inodes, the data blocks.                           *)
LEMMA LayoutIs ==
  /\ W \in Nat /\ W >= 9 /\ N \in Nat /\ I \in Nat /\ DB \in Nat
  /\ I >= 1 /\ InodesPerBlock >= 1 /\ I * InodesPerBlock \in Nat /\ I * InodesPerBlock >= 1
  /\ InodeBlock = 3 /\ DataStart = 3 + I /\ DataStart + DB = N
<1>1. W \in Nat /\ W >= 9 /\ W # 0
  BY SizesOfDisk, SuperBlockFits
<1>2. N \in Int /\ M \in Int /\ I \in Int /\ InodesPerBlock \in Nat /\ InodesPerBlock >= 1
  BY <1>1, SizesOfDisk DEF N, M, I, InodesPerBlock, StatBlockSize
<1>3. BitsPerBlock \in Nat /\ BitsPerBlock > 0
  BY <1>1 DEF BitsPerBlock
<1> DEFINE x == I * InodesPerBlock
<1>4. x \in Int
  BY <1>2
<1>5. x > 0
  <2>1. (x + BitsPerBlock - 1) \div BitsPerBlock = 1
    BY OneBitmapBlock DEF IB, CeilDiv
  <2> HIDE DEF x
  <2> QED
    BY <1>3, <1>4, <2>1
<1>6. I >= 1
  BY <1>2, <1>5
<1>7. M >= 10
  BY <1>2, <1>6 DEF I
<1>8. R \in Int /\ R = M - I - 1
  BY <1>2, OneBitmapBlock DEF R
<1>9. R >= 1
  BY <1>2, <1>7, <1>8 DEF I
<1>10. DB = R - 1 /\ InodeBlock = 3 /\ DataStart = 3 + I /\ N = M + 1
  BY <1>2, OneBitmapBlock DEF DB, InodeBlock, DataStart, M
<1> QED
  BY <1>1, <1>2, <1>4, <1>5, <1>6, <1>7, <1>8, <1>9, <1>10

(* For any size of disk: every block but the last ones is of one region,   *)
(* and the regions are apart.                                              *)
THEOREM RegionsPartitionTheDisk ==
  /\ 0 .. N-1 = {0, 1, 1 + IB} \cup (InodeBlock .. InodeBlock + I - 1) \cup (DataStart .. DataStart + DB - 1)
  /\ 1 # 1 + IB
  /\ {0, 1, 1 + IB} \cap (InodeBlock .. InodeBlock + I - 1) = {}
  /\ Metadata \cap (DataStart .. DataStart + DB - 1) = {}
  /\ Metadata = {0, 1, 1 + IB} \cup (InodeBlock .. InodeBlock + I - 1)
BY LayoutIs, OneBitmapBlock DEF Metadata

LEMMA MetadataOnDisk == \A b \in Metadata : InDisk(b)
BY LayoutIs DEF Metadata, InDisk

LEMMA FixedBlocks == {0, 1, 2, 3} \subseteq Metadata /\ InodeBlock = 3 /\ IB = 1 /\ DBB = 1
BY LayoutIs, OneBitmapBlock DEF Metadata

LEMMA SuperBlockIs ==
  /\ SuperBlock[0] = MAGIC /\ SuperBlock[3] = I * InodesPerBlock /\ SuperBlock[4] = 1
  /\ SuperBlock[5] = 3 /\ SuperBlock[6] = 2 /\ SuperBlock[7] = DataStart /\ SuperBlock[8] = DB
BY LayoutIs, OneBitmapBlock DEF SuperBlock, Padded, InodeBlock, DataStart
-----------------------------------------------------------------------------
(* What a call may write to: a disk arr2 that spares the metadata of arr1. *)
IsDisk(arr) == arr = [nr \in 0 .. N-1 |-> arr[nr]]
Spares(arr1, arr2) == IsDisk(arr2) /\ \A b \in Metadata : arr2[b] = arr1[b]

LEMMA BlockWritten ==
  ASSUME NEW arr, IsDisk(arr), NEW nr, NEW data
  PROVE  /\ IsDisk(WriteBlock(arr, nr, data))
         /\ \A b \in Metadata : b # nr => WriteBlock(arr, nr, data)[b] = arr[b]
         /\ nr \in Metadata => WriteBlock(arr, nr, data)[nr] = data
         /\ nr \notin Metadata => Spares(arr, WriteBlock(arr, nr, data))
<1>1. CASE InDisk(nr)
  <2>1. WriteBlock(arr, nr, data) = [b \in 0 .. N-1 |-> IF b = nr THEN data ELSE arr[b]]
    BY <1>1, Zenon DEF WriteBlock, IsDisk
  <2>2. \A b \in Metadata : b \in 0 .. N-1
    BY MetadataOnDisk DEF InDisk
  <2> QED
    BY <2>1, <2>2 DEF IsDisk, Spares
<1>2. CASE ~ InDisk(nr)
  BY <1>2, MetadataOnDisk DEF WriteBlock, Spares
<1> QED
  BY <1>1, <1>2

LEMMA SparesTwice ==
  ASSUME NEW a, NEW b, NEW c, Spares(a, b), Spares(b, c)
  PROVE  Spares(a, c)
BY DEF Spares

(* The loop over the direct blocks writes to the blocks that the pointers  *)
(* name.                                                                   *)
LEMMA WrittenSpares ==
  ASSUME NEW arr, IsDisk(arr), NEW nr, NEW offset, NEW length, NEW v,
         NEW blocks \in SUBSET (0 .. NDirect-1),
         blocks # {} => \A k \in 0 .. NDirect-1 : nr[k] \notin Metadata
  PROVE  Spares(arr, Written(arr, nr, offset, length, v, blocks))
<1> DEFINE c == Cardinality(blocks)
           G(x, n) == LET k == Min(blocks) + n - 1
                      IN  WriteBlock(x, nr[k], Piece(x[nr[k]], k, offset, length, v))
           Loop(f, m) == f = [n \in 0 .. m |-> IF n = 0 THEN arr ELSE G(f[n-1], n)]
           after == CHOOSE f : Loop(f, c)
<1>1. Written(arr, nr, offset, length, v, blocks) = after[c]
  BY DEF Written
<1>2. c \in Nat
  <2>1. 0 \in Int /\ NDirect-1 \in Int
    BY DEF NDirect
  <2>2. IsFiniteSet(0 .. NDirect-1)
    BY <2>1, FS_Interval
  <2> QED
    BY <2>2, FS_Subset, FS_CardinalityType
<1>3. \A n \in 1 .. c : Min(blocks) + n - 1 \in 0 .. NDirect-1
  <2> SUFFICES ASSUME NEW n \in 1 .. c
               PROVE  Min(blocks) + n - 1 \in 0 .. NDirect-1
    OBVIOUS
  <2>1. blocks # {}
    BY FS_EmptySet
  <2>2. Min(blocks) \in blocks /\ \A k \in blocks : Min(blocks) <= k
    BY <2>1, NonemptyHasMin DEF NDirect
  <2> DEFINE m == Min(blocks)
  <2>3. m \in 0 .. 4 /\ \A k \in blocks : k \in m .. 4
    <3>1. \A k \in blocks : k \in 0 .. 4
      BY DEF NDirect
    <3>2. m \in blocks /\ \A k \in blocks : m <= k
      BY <2>2
    <3> HIDE DEF m
    <3> QED
      BY <3>1, <3>2
  <2> HIDE DEF m
  <2>4. IsFiniteSet(m .. 4) /\ Cardinality(m .. 4) = 4 - m + 1
    BY <2>3, FS_Interval
  <2>5. c <= 4 - m + 1
    <3>1. blocks \subseteq m .. 4
      BY <2>3, Zenon
    <3> QED
      BY <2>4, <3>1, FS_Subset DEF c
  <2>6. m + n - 1 \in 0 .. 4
    BY <1>2, <2>3, <2>5
  <2> QED
    BY <2>6 DEF m, NDirect
<1> HIDE DEF c, G
<1>4. \E f : Loop(f, c)
  <2> DEFINE S == {m \in Nat : \E f : Loop(f, m)}
  <2>1. 0 \in S
    <3>1. Loop([n \in 0 .. 0 |-> arr], 0)
      OBVIOUS
    <3> QED
      BY <3>1
  <2>2. ASSUME NEW m \in Nat, m \in S
        PROVE  m+1 \in S
    <3>1. PICK f : Loop(f, m)
      BY <2>2
    <3> DEFINE g == [n \in 0 .. m+1 |-> IF n = m+1 THEN G(f[m], m+1) ELSE f[n]]
    <3>2. ASSUME NEW n \in 0 .. m+1
          PROVE  g[n] = IF n = 0 THEN arr ELSE G(g[n-1], n)
      <4>1. CASE n = 0
        BY <3>1, <4>1
      <4>2. CASE n \in 1 .. m
        BY <3>1, <4>2
      <4>3. CASE n = m+1
        BY <4>3
      <4> QED
        BY <4>1, <4>2, <4>3
    <3>3. g = [n \in 0 .. m+1 |-> g[n]]
      OBVIOUS
    <3> HIDE DEF g
    <3>4. Loop(g, m+1)
      BY <3>2, <3>3
    <3> QED
      BY <3>4
  <2> HIDE DEF S
  <2>3. c \in S
    BY <1>2, <2>1, <2>2, SetInduction
  <2> QED
    BY <2>3 DEF S
<1>5. Loop(after, c)
  BY <1>4
<1> HIDE DEF after
<1>6. after[0] = arr /\ \A n \in 1 .. c : after[n] = G(after[n-1], n)
  BY <1>2, <1>5
<1> DEFINE T == {n \in Nat : n <= c => Spares(arr, after[n])}
<1>7. 0 \in T
  BY <1>6 DEF Spares
<1>8. ASSUME NEW n \in Nat, n \in T
      PROVE  n+1 \in T
  <2> SUFFICES ASSUME n+1 <= c PROVE Spares(arr, after[n+1])
    OBVIOUS
  <2>1. Spares(arr, after[n]) /\ IsDisk(after[n])
    BY <1>2, <1>8 DEF Spares
  <2>2. n+1 \in 1 .. c /\ after[n+1] = G(after[n], n+1)
    BY <1>2, <1>6
  <2> DEFINE k == Min(blocks) + (n+1) - 1
  <2>3. nr[k] \notin Metadata
    <3>1. blocks # {}
      BY <2>2, FS_EmptySet DEF c
    <3> QED
      BY <1>3, <2>2, <3>1
  <2>4. G(after[n], n+1) = WriteBlock(after[n], nr[k], Piece(after[n][nr[k]], k, offset, length, v))
    BY DEF G
  <2>5. Spares(after[n], after[n+1])
    BY <2>1, <2>2, <2>3, <2>4, BlockWritten
  <2> QED
    BY <2>1, <2>5, SparesTwice
<1> HIDE DEF T
<1>9. c \in T
  BY <1>2, <1>7, <1>8, SetInduction
<1> QED
  BY <1>1, <1>2, <1>9 DEF T
-----------------------------------------------------------------------------
(* The blocks that get_empty_blocks returns are not metadata, as long as   *)
(* there are as many.                                                      *)
LEMMA FreeIsFinite ==
  ASSUME NEW bits, sb.data_blocks = DB
  PROVE  IsFiniteSet(FreeBlocks(bits)) /\ Cardinality(FreeBlocks(bits)) \in Nat
<1>1. IsFiniteSet(0 .. DB - 1)
  BY LayoutIs, FS_Interval
<1>2. FreeBlocks(bits) \subseteq 0 .. DB - 1
  BY DEF FreeBlocks
<1> QED
  BY <1>1, <1>2, FS_Subset, FS_CardinalityType

LEMMA EmptyBlocksAreData ==
  ASSUME NEW bits, NEW n \in Nat, NEW junk, n <= Cardinality(FreeBlocks(bits)),
         sb.data_blocks = DB, sb.data_block_idx = DataStart
  PROVE  \A i \in 1 .. n : EmptyBlocks(bits, n, junk)[i] \notin Metadata
<1> SUFFICES ASSUME NEW i \in 1 .. n
             PROVE  EmptyBlocks(bits, n, junk)[i] \notin Metadata
  OBVIOUS
<1>1. ~ (Cardinality(FreeBlocks(bits)) < i)
  BY FreeIsFinite
<1>2. FreeBlocks(bits) \subseteq 0 .. DB
  BY LayoutIs DEF FreeBlocks
<1>3. FreeBlocks(bits) # {}
  BY <1>1, FS_EmptySet
<1>4. PICK c \in FreeBlocks(bits) : \A x \in FreeBlocks(bits) : c <= x
  <2>1. FreeBlocks(bits) \subseteq Nat
    BY <1>2, LayoutIs
  <2> QED
    BY <1>3, <2>1, NonemptyHasMin
<1>5. {x \in FreeBlocks(bits) : x < c} = {}
  BY <1>2, <1>4, LayoutIs
<1>6. c \in FirstFree(bits, i)
  BY <1>4, <1>5, FS_EmptySet DEF FirstFree
<1>7. FirstFree(bits, i) \subseteq 0 .. DB
  BY <1>2 DEF FirstFree
<1>8. Max(FirstFree(bits, i)) \in 0 .. DB
  BY <1>6, <1>7, LayoutIs, NonemptyHasMax
<1>9. EmptyBlocks(bits, n, junk)[i] = Max(FirstFree(bits, i)) + DataStart
  BY <1>1 DEF EmptyBlocks, BlockNumber
<1> HIDE DEF FirstFree
<1>10. \A x \in 0 .. DB : x + DataStart \notin Metadata
  BY LayoutIs DEF Metadata
<1> QED
  BY <1>8, <1>9, <1>10
-----------------------------------------------------------------------------
(* The bitmaps as words.                                                   *)
LEMMA OneWord == \A x : Padded(<<x>>, 1)[0] = x
BY LayoutIs DEF Padded

LEMMA NoBits == BitmapBlock({})[0] = 0
<1>1. MapThenSumSet(LAMBDA b : 2^b, {}) = 0
  BY DEF MapThenSumSet, MapThenFoldSet
<1>2. BitmapBlock({})[0] = MapThenSumSet(LAMBDA b : 2^b, {})
  BY OneWord, Zenon DEF BitmapBlock
<1> QED
  BY <1>1, <1>2, Zenon

LEMMA FirstBit == BitmapBlock({0})[0] = 1
<1> DEFINE Sum(i) == [s \in SUBSET {0} |-> IF s = {} THEN 0
                                           ELSE LET x == CHOOSE x \in s : TRUE
                                                IN  2^x + i[s \ {x}]]
           iter == CHOOSE i : i = Sum(i)
<1>1. MapThenSumSet(LAMBDA b : 2^b, {0}) = iter[{0}]
  BY DEF MapThenSumSet, MapThenFoldSet
<1>2. \E i : i = Sum(i)
  <2> DEFINE g == [s \in SUBSET {0} |-> IF s = {} THEN 0 ELSE 2^0 + 0]
  <2>1. ASSUME NEW s \in SUBSET {0}
        PROVE  g[s] = Sum(g)[s]
    <3>1. CASE s = {}
      BY <3>1
    <3>2. CASE s = {0}
      <4>1. (CHOOSE x \in s : TRUE) = 0 /\ s \ {0} = {}
        BY <3>2
      <4> QED
        BY <3>2, <4>1
    <3> QED
      BY <3>1, <3>2
  <2>2. g = Sum(g)
    BY <2>1
  <2> QED
    BY <2>2
<1>3. iter = Sum(iter)
  BY <1>2
<1> HIDE DEF iter
<1>4. iter[{}] = 0
  BY <1>3
<1>5. (CHOOSE x \in {0} : TRUE) = 0 /\ {0} \ {0} = {} /\ {0} \in SUBSET {0} /\ {0} # {}
  OBVIOUS
<1>6. iter[{0}] = LET x == CHOOSE x \in {0} : TRUE IN 2^x + iter[{0} \ {x}]
  BY <1>3, <1>5, Zenon
<1>7. iter[{0}] = 2^0 + 0
  BY <1>4, <1>5, <1>6
<1>8. 2^0 + 0 = 1
  OBVIOUS
<1>9. BitmapBlock({0})[0] = MapThenSumSet(LAMBDA b : 2^b, {0})
  BY OneWord, Zenon DEF BitmapBlock
<1> QED
  BY <1>1, <1>7, <1>8, <1>9, Zenon

(* mount reads the bits that the block has.                                *)
LEMMA BitsRead ==
  ASSUME NEW n \in Nat, n >= 1, NEW bits \in SUBSET {0}
  PROVE  BitsOf(BitmapBlock(bits), n) = bits
<1> DEFINE word == BitmapBlock(bits)[0]
           Shift(f) == f = [b \in Nat |-> IF b = 0 THEN word ELSE f[b-1] \div 2]
           shifted == CHOOSE f : Shift(f)
<1>1. BitsOf(BitmapBlock(bits), n) = {b \in BitsFor(n) : shifted[b] % 2 = 1}
  BY DEF BitsOf
<1>2. word = IF 0 \in bits THEN 1 ELSE 0
  <2>1. bits = {} \/ bits = {0}
    OBVIOUS
  <2> QED
    BY <2>1, NoBits, FirstBit
<1> HIDE DEF word
<1>3. \E f : Shift(f)
  <2> DEFINE f == [b \in Nat |-> IF b = 0 THEN word ELSE 0]
  <2>1. Shift(f)
    BY <1>2
  <2> QED
    BY <2>1
<1>4. Shift(shifted)
  BY <1>3
<1> HIDE DEF shifted
<1>5. shifted[0] = word /\ \A b \in Nat : shifted[b+1] = shifted[b] \div 2
  BY <1>4
<1> DEFINE S == {b \in Nat : shifted[b+1] = 0}
<1>6. 0 \in S
  BY <1>2, <1>5
<1>7. \A b \in Nat : b \in S => b+1 \in S
  BY <1>5
<1> HIDE DEF S
<1>8. Nat \subseteq S
  BY <1>6, <1>7, SetInduction
<1>9. \A b \in Nat : b # 0 => shifted[b] = 0
  <2> SUFFICES ASSUME NEW b \in Nat, b # 0 PROVE shifted[b] = 0
    OBVIOUS
  <2>1. b-1 \in S /\ (b-1)+1 = b
    BY <1>8
  <2> QED
    BY <2>1 DEF S
<1>10. BitsFor(n) \subseteq Nat /\ 0 \in BitsFor(n)
  BY DEF BitsFor
<1>11. shifted[0] % 2 = word
  BY <1>2, <1>5
<1>12. \A b \in BitsFor(n) : shifted[b] % 2 = 1 <=> b \in bits
  <2> SUFFICES ASSUME NEW b \in BitsFor(n) PROVE shifted[b] % 2 = 1 <=> b \in bits
    OBVIOUS
  <2>1. CASE b = 0
    BY <1>2, <1>11, <2>1
  <2>2. CASE b # 0
    BY <1>9, <1>10, <2>2
  <2> QED
    BY <2>1, <2>2
<1> HIDE DEF BitsFor
<1> QED
  BY <1>1, <1>10, <1>12
-----------------------------------------------------------------------------
(* Inodes.  The one in use is the first of the first block of inodes.      *)
NodeOK(node) ==
  /\ node = [valid |-> node.valid, size |-> node.size,
             direct |-> [k \in 0 .. NDirect-1 |-> node.direct[k]], indirect |-> node.indirect]
  /\ node.size \in Nat
  /\ \A k \in 0 .. NDirect-1 : node.direct[k] \notin Metadata
  /\ node.indirect \notin Metadata

LEMMA NodesChange ==
  ASSUME NEW node, NodeOK(node)
  PROVE  /\ \A x \in Nat : NodeOK([node EXCEPT !.size = x])
         /\ \A x : NodeOK([node EXCEPT !.valid = x])
         /\ \A x : x \notin Metadata => NodeOK([node EXCEPT !.indirect = x])
         /\ \A x, j : x \notin Metadata => NodeOK([node EXCEPT !.direct[j] = x])
<1> DEFINE Is(a, b, d, c) == [valid |-> a, size |-> b, direct |-> d, indirect |-> c]
<1>1. PICK a, b, d, c : node = Is(a, b, d, c)
  BY DEF NodeOK
<1>2. /\ b \in Nat /\ d = [k \in 0 .. NDirect-1 |-> d[k]]
      /\ (\A k \in 0 .. NDirect-1 : d[k] \notin Metadata) /\ c \notin Metadata
  BY <1>1 DEF NodeOK
<1>3. ASSUME NEW a1, NEW b1 \in Nat, NEW d1, NEW c1,
             d1 = [k \in 0 .. NDirect-1 |-> d1[k]],
             \A k \in 0 .. NDirect-1 : d1[k] \notin Metadata, c1 \notin Metadata
      PROVE  NodeOK(Is(a1, b1, d1, c1))
  BY <1>3 DEF NodeOK
<1>4. \A x : /\ [node EXCEPT !.size = x] = Is(a, x, d, c)
             /\ [node EXCEPT !.valid = x] = Is(x, b, d, c)
             /\ [node EXCEPT !.indirect = x] = Is(a, b, d, x)
             /\ \A j : [node EXCEPT !.direct[j] = x] = Is(a, b, [d EXCEPT ![j] = x], c)
  BY <1>1
<1> HIDE DEF Is
<1>5. ASSUME NEW x, NEW j, x \notin Metadata
      PROVE  NodeOK(Is(a, b, [d EXCEPT ![j] = x], c))
  <2> DEFINE d1 == [d EXCEPT ![j] = x]
  <2>1. d1 = [k \in 0 .. NDirect-1 |-> d1[k]]
    BY <1>2
  <2>2. \A k \in 0 .. NDirect-1 : d1[k] \notin Metadata
    BY <1>2, <1>5
  <2> HIDE DEF d1
  <2>3. NodeOK(Is(a, b, d1, c))
    BY <1>2, <1>3, <2>1, <2>2
  <2> QED
    BY <2>3 DEF d1
<1>6. /\ \A x \in Nat : NodeOK(Is(a, x, d, c))
      /\ \A x : NodeOK(Is(x, b, d, c))
      /\ \A x : x \notin Metadata => NodeOK(Is(a, b, d, x))
  BY <1>2, <1>3
<1>7. \A x \in Nat : NodeOK([node EXCEPT !.size = x])
  BY <1>4, <1>6, Zenon
<1>8. \A x : NodeOK([node EXCEPT !.valid = x])
  <2> SUFFICES ASSUME NEW x PROVE NodeOK([node EXCEPT !.valid = x])
    OBVIOUS
  <2>1. NodeOK(Is(x, b, d, c)) /\ [node EXCEPT !.valid = x] = Is(x, b, d, c)
    BY <1>4, <1>6
  <2> QED
    BY <2>1, Zenon
<1>9. \A x : x \notin Metadata => NodeOK([node EXCEPT !.indirect = x])
  <2> SUFFICES ASSUME NEW x, x \notin Metadata PROVE NodeOK([node EXCEPT !.indirect = x])
    OBVIOUS
  <2>1. NodeOK(Is(a, b, d, x)) /\ [node EXCEPT !.indirect = x] = Is(a, b, d, x)
    BY <1>4, <1>6
  <2> QED
    BY <2>1, Zenon
<1>10. \A x, j : x \notin Metadata => NodeOK([node EXCEPT !.direct[j] = x])
  <2> SUFFICES ASSUME NEW x, NEW j, x \notin Metadata PROVE NodeOK([node EXCEPT !.direct[j] = x])
    OBVIOUS
  <2>1. NodeOK(Is(a, b, [d EXCEPT ![j] = x], c))
    BY <1>5
  <2>2. [node EXCEPT !.direct[j] = x] = Is(a, b, [d EXCEPT ![j] = x], c)
    BY <1>4, Zenon
  <2> QED
    BY <2>1, <2>2, Zenon
<1> QED
  BY <1>7, <1>8, <1>9, <1>10

InodeOK(block) == block[1] \in Nat /\ \A w \in 2 .. 7 : block[w] \notin Metadata

Laid(arr, bits) == arr[0] = SuperBlock /\ arr[1] = BitmapBlock(bits) /\ InodeOK(arr[3])

LEMMA FirstSlot == 0 \div InodeSlots = 0 /\ 0 % InodeSlots = 0
BY LayoutIs DEF InodeSlots

LEMMA SuperBlockFound ==
  ASSUME NEW bits, Laid(block_arr, bits)
  PROVE  /\ sb.magic_number = MAGIC /\ sb.inodes = I * InodesPerBlock /\ sb.inode_bitmap = 1
         /\ sb.inode_block_idx = 3 /\ sb.data_bitmap = 2 /\ sb.data_block_idx = DataStart
         /\ sb.data_blocks = DB
BY SuperBlockIs DEF sb, Laid

LEMMA NodeFound ==
  ASSUME NEW bits, Laid(block_arr, bits)
  PROVE  NodeOK(retrieve_inode(0))
<1>1. retrieve_inode(0) = InodeIn(block_arr[3], 0)
  BY SuperBlockFound, FirstSlot DEF retrieve_inode
<1>2. NodeOK(InodeIn(block_arr[3], 0))
  BY DEF InodeIn, NodeOK, Laid, InodeOK, NDirect
<1> QED
  BY <1>1, <1>2

LEMMA NodeStored ==
  ASSUME NEW bits, Laid(block_arr, bits), NEW arr, IsDisk(arr), NEW node, NodeOK(node)
  PROVE  /\ IsDisk(write_inode(arr, 0, node))
         /\ \A b \in Metadata : b # 3 => write_inode(arr, 0, node)[b] = arr[b]
         /\ InodeOK(write_inode(arr, 0, node)[3])
<1> DEFINE block == Overlay(arr[0], 0, node)
<1>1. write_inode(arr, 0, node) = WriteBlock(arr, 3, block)
  BY SuperBlockFound, FirstSlot DEF write_inode
<1>2. InodeOK(block)
  <2> DEFINE s == <<node.valid, node.size>> \o [k \in 1 .. NDirect |-> node.direct[k-1]]
                    \o <<node.indirect>>
  <2>1. s[2] = node.size /\ (\A i \in 3 .. 7 : s[i] = node.direct[i-3]) /\ s[8] = node.indirect
    BY DEF NDirect
  <2>2. block = [w \in 0 .. W-1 |-> IF w \in 0 .. 0 + 7 THEN s[w - 0 + 1] ELSE arr[0][w]]
    BY DEF Overlay
  <2> HIDE DEF s, block
  <2>3. block[1] = s[2] /\ (\A w \in 2 .. 6 : block[w] = s[w+1]) /\ block[7] = s[8]
    BY <2>2, LayoutIs
  <2>4. \A w \in 2 .. 6 : block[w] = node.direct[w-2] /\ w-2 \in 0 .. NDirect-1
    BY <2>1, <2>3 DEF NDirect
  <2> QED
    BY <2>1, <2>3, <2>4 DEF InodeOK, NodeOK
<1> HIDE DEF block
<1> QED
  BY <1>1, <1>2, BlockWritten, FixedBlocks
-----------------------------------------------------------------------------
(* A write within the direct blocks.                                       *)
LEMMA MissingIsNatural ==
  ASSUME NEW node, node.size \in Nat, NEW offset \in Nat, NEW length \in Nat
  PROVE  Missing(node, offset, length) \in Nat
<1>1. AsWord(node.size - offset) \in Int
  BY DEF AsWord
<1> DEFINE rest == AsWord(node.size - offset)
<1> HIDE DEF rest
<1>2. rest < length => CeilDiv(length - rest, W) \in Nat
  BY <1>1, LayoutIs DEF rest, CeilDiv
<1> QED
  BY <1>2 DEF Missing, rest

LEMMA NextIsNumber ==
  ASSUME NEW node, NodeOK(node)
  PROVE  NextDirect(node) \in Int
BY LayoutIs DEF NodeOK, NextDirect

LEMMA ExtendedSpares ==
  ASSUME NEW bits, Laid(block_arr, bits), IsDisk(block_arr),
         NEW node, NodeOK(node), NEW n \in Nat, AreFree(node, n), NEW junk
  PROVE  Spares(block_arr, Extended(node, n, junk).arr) /\ NodeOK(Extended(node, n, junk).node)
<1> DEFINE ids == EmptyBlocks(bitmap_data, n, junk)
           bits1 == bitmap_data \cup FirstFree(bitmap_data, n)
           new == EmptyBlocks(bits1, 1, junk)[1]
           grown == IF node.size <= DirectWords THEN [node EXCEPT !.indirect = new] ELSE node
<1>1. n # 0 /\ FirstIndirect(node) => new \notin Metadata
  <2>1. SUFFICES ASSUME FreeBlocks(bits1) # {} PROVE new \notin Metadata
    BY DEF AreFree
  <2>2. Cardinality(FreeBlocks(bits1)) >= 1
    <3>1. sb.data_blocks = DB
      BY SuperBlockFound
    <3> HIDE DEF bits1
    <3>2. IsFiniteSet(FreeBlocks(bits1)) /\ Cardinality(FreeBlocks(bits1)) \in Nat
      BY <3>1, FreeIsFinite
    <3> QED
      BY <2>1, <3>2, FS_EmptySet
  <2> HIDE DEF bits1
  <2> QED
    BY <2>2, SuperBlockFound, EmptyBlocksAreData
<1>2. n # 0 => ids[n] \notin Metadata
  BY SuperBlockFound, EmptyBlocksAreData DEF AreFree
<1> HIDE DEF ids, new
<1>3. CASE n = 0
  BY <1>3 DEF Extended, Spares
<1>4. CASE n # 0 /\ NextDirect(node) < NDirect
  <2>1. Extended(node, n, junk).arr = block_arr
    BY <1>4 DEF Extended
  <2>2. Extended(node, n, junk).node = [node EXCEPT !.direct[NextDirect(node)] = ids[n]]
    BY <1>4 DEF Extended, ids
  <2>3. NodeOK([node EXCEPT !.direct[NextDirect(node)] = ids[n]])
    BY <1>2, <1>4, NodesChange
  <2> QED
    BY <2>1, <2>2, <2>3 DEF Spares
<1>5. CASE n # 0 /\ ~ (NextDirect(node) < NDirect)
  <2>1. NodeOK(grown)
    <3>1. NextDirect(node) >= NDirect
      BY <1>5, NextIsNumber DEF NDirect
    <3> QED
      BY <1>1, <1>5, <3>1, NodesChange DEF FirstIndirect
  <2>2. grown.indirect \notin Metadata
    BY <2>1 DEF NodeOK
  <2>3. Extended(node, n, junk).node = grown
    BY <1>5 DEF Extended, new
  <2>4. \E block : Extended(node, n, junk).arr = WriteBlock(block_arr, grown.indirect, block)
    BY <1>5 DEF Extended, new
  <2> HIDE DEF grown
  <2> QED
    BY <2>1, <2>2, <2>3, <2>4, BlockWritten
<1> QED
  BY <1>3, <1>4, <1>5

LEMMA BlocksAreDirect ==
  ASSUME NEW offset \in Nat, NEW length \in Nat, offset + length <= DirectWords
  PROVE  BlocksOf(offset, length) \subseteq 0 .. NDirect-1
<1>1. CASE length = 0
  BY <1>1 DEF BlocksOf
<1>2. CASE length # 0
  <2>1. offset \div W \in Nat
    BY LayoutIs
  <2> DEFINE last == offset + length - 1
  <2>2. last \in Nat /\ last < 5 * W
    BY <1>2, LayoutIs DEF DirectWords, NDirect
  <2> HIDE DEF last
  <2>3. last \div W \in Nat /\ last \div W < 5
    BY <2>2, LayoutIs
  <2> QED
    BY <1>2, <2>1, <2>3 DEF BlocksOf, NDirect, last
<1> QED
  BY <1>1, <1>2

LEMMA CopyKeepsMetadata ==
  ASSUME NEW bits, Laid(block_arr, bits),
         NEW ext, Spares(block_arr, ext.arr), NodeOK(ext.node),
         NEW offset \in Nat, NEW length \in Nat, offset + length <= DirectWords,
         NEW v, Copy(0, ext, offset, length, v)
  PROVE  IsDisk(block_arr') /\ Laid(block_arr', bits)
<1> DEFINE node == [ext.node EXCEPT !.size = offset + length]
           blocks == BlocksOf(offset, length)
           direct == DirectOf(blocks)
           reached == Reached(node, direct)
           arr1 == Written(ext.arr, node.direct, offset, length, v, reached)
           indirect == Indirect(arr1, node)
           nr == [k \in blocks |-> NumberOf("write_i", node, indirect, offset, k)]
           arr2(done) == Written(arr1, nr, offset, length, v, done)
<1>1. NodeOK(node)
  BY NodesChange
<1>2. direct = blocks /\ reached \subseteq 0 .. NDirect-1
  BY BlocksAreDirect DEF DirectOf, Reached, NDirect
<1>3. Spares(block_arr, arr1)
  <2>1. IsDisk(ext.arr) /\ \A k \in 0 .. NDirect-1 : node.direct[k] \notin Metadata
    BY <1>1 DEF NodeOK, Spares
  <2> HIDE DEF node, reached
  <2>2. Spares(ext.arr, arr1)
    BY <1>2, <2>1, WrittenSpares
  <2> HIDE DEF arr1
  <2> QED
    BY <2>2, SparesTwice
<1> HIDE DEF node, blocks, direct, reached, arr1, indirect, nr
<1>4. Spares(block_arr, arr2({}))
  <2>1. IsDisk(arr1)
    BY <1>3 DEF Spares
  <2>2. Spares(arr1, arr2({}))
    BY <2>1, WrittenSpares
  <2> QED
    BY <1>3, <2>2, SparesTwice
<1>5. ASSUME NEW arr, Spares(block_arr, arr)
      PROVE  IsDisk(arr) /\ Laid(arr, bits)
  BY <1>5, FixedBlocks DEF Spares, Laid
<1>6. ASSUME NEW arr, Spares(block_arr, arr)
      PROVE  IsDisk(write_inode(arr, 0, node)) /\ Laid(write_inode(arr, 0, node), bits)
  <2>1. IsDisk(arr) /\ Laid(arr, bits)
    BY <1>5, <1>6
  <2> QED
    BY <1>1, <2>1, NodeStored, FixedBlocks DEF Laid
<1>7. \/ block_arr' = arr1
      \/ block_arr' = arr2({})
      \/ block_arr' = write_inode(arr2({}), 0, node)
  <2>1. \A e : {k \in blocks \ direct : k < e} = {}
    BY <1>2
  <2>2. CASE reached # direct
    BY <2>2 DEF Copy, WriteFails, node, blocks, direct, reached, arr1
  <2>3. CASE reached = direct
    <3>1. PICK end \in LoopEnds("write_i", node, indirect, offset, length, ext.bits) :
            LET done == {k \in blocks \ direct : k < end.upto}
                arr3 == IF blocks = direct THEN arr2(done)
                        ELSE WriteBlock(arr2(done), node.indirect, indirect)
            IN  IF end.ok THEN block_arr' = write_inode(arr3, 0, node)
                ELSE block_arr' = arr2(done)
      BY <2>3 DEF Copy, WriteFails, node, blocks, direct, reached, arr1, indirect, nr
    <3> QED
      BY <1>2, <2>1, <3>1
  <2> QED
    BY <2>2, <2>3
<1> QED
  BY <1>3, <1>4, <1>5, <1>6, <1>7
-----------------------------------------------------------------------------
(* MetadataIntact speaks of the mounted file system; before that mount has *)
(* to find what format has laid, or no magic number.                       *)
SfsInv ==
  /\ IsDisk(block_arr)
  /\ ~ temp_block => ~ mem_diskptr
  /\ temp_block /\ ~ mem_diskptr => State # MOUNTED
  /\ temp_block /\ ~ Mounted => sb.magic_number # MAGIC \/ Laid(block_arr, {})
  /\ Mounted => bitmap_inode \in SUBSET {0} /\ Laid(block_arr, bitmap_inode)

LEMMA SfsInvIs == SfsInv => MetadataIntact
BY DEF SfsInv, Laid, MetadataIntact

LEMMA InitSfs == Init => SfsInv
BY DEF Init, SfsInv, IsDisk, NewDisk, Mounted

(* The steps of a mounted file system that keep it mounted.                *)
LEMMA StaysLaid ==
  ASSUME SfsInv, Mounted, UNCHANGED <<mem_diskptr, State, temp_block>>,
         IsDisk(block_arr'), bitmap_inode' \in SUBSET {0}, Laid(block_arr', bitmap_inode')
  PROVE  SfsInv'
BY DEF SfsInv, Mounted, Laid

LEMMA WriteBlockZeroKeeps ==
  ASSUME SfsInv, NEW v, v # MAGIC, WriteBlockZero(v)
  PROVE  SfsInv'
<1>1. ~ Mounted /\ ~ Mounted' /\ UNCHANGED <<mem_diskptr, State, temp_block>>
  BY DEF WriteBlockZero, Mounted
<1>2. IsDisk(block_arr') /\ block_arr'[0] = [w \in 0 .. W-1 |-> v]
  BY FixedBlocks, BlockWritten DEF WriteBlockZero, SfsInv
<1>3. sb'.magic_number # MAGIC
  BY <1>2, LayoutIs DEF sb
<1> QED
  BY <1>1, <1>2, <1>3 DEF SfsInv

LEMMA FormatKeeps ==
  ASSUME SfsInv, NumbersFitWords, Format
  PROVE  SfsInv'
<1>1. temp_block' /\ State' = UNMOUNTED /\ ~ Mounted' /\ State' # MOUNTED
  BY DEF Format, Mounted, MOUNTED, UNMOUNTED
<1>2. block_arr' = [nr \in 0 .. N-1 |-> block_arr'[nr]]
  BY DEF Format
<1>3. block_arr'[0] = SuperBlock /\ block_arr'[1] = BitmapBlock({}) /\ block_arr'[3] = FreshInodes
  BY LayoutIs, FixedBlocks DEF Format
<1>4. InodeOK(FreshInodes)
  <2>1. AsWord(-1) = 65535
    <3>1. \A x \in Int : x < 0 /\ x >= -65536 => x % 2^16 = x + 65536
      OBVIOUS
    <3> DEFINE x == -1
    <3>2. x \in Int /\ x < 0 /\ x >= -65536 /\ x + 65536 = 65535
      OBVIOUS
    <3>3. AsWord(-1) = x % 2^16
      BY DEF AsWord
    <3> HIDE DEF x
    <3>4. x % 2^16 = 65535
      BY <3>1, <3>2
    <3> QED
      BY <3>3, <3>4
  <2>2. 65535 \notin Metadata
    BY LayoutIs DEF Metadata, NumbersFitWords
  <2> QED
    BY <2>1, <2>2, LayoutIs DEF FreshInodes, InodeOK
<1> QED
  BY <1>1, <1>2, <1>3, <1>4 DEF SfsInv, IsDisk, Laid

LEMMA MountKeeps ==
  ASSUME SfsInv, Mount
  PROVE  SfsInv'
<1>1. temp_block /\ UNCHANGED <<block_arr, temp_block>> /\ Mounted'
  BY DEF Mount, MountCall, Mounted
<1>2. \E bits \in SUBSET {0} : Laid(block_arr, bits)
  BY <1>1 DEF SfsInv, Mount
<1>3. PICK bits \in SUBSET {0} : Laid(block_arr, bits)
  BY <1>2
<1>4. bitmap_inode' = BitsOf(BitmapBlock(bits), I * InodesPerBlock)
  BY <1>3, SuperBlockFound DEF Mount, Laid
<1>5. bitmap_inode' = bits
  BY <1>4, LayoutIs, BitsRead
<1> QED
  BY <1>1, <1>3, <1>5 DEF SfsInv, Mount

LEMMA MountRefusedKeeps ==
  ASSUME SfsInv, MountRefused
  PROVE  SfsInv'
<1>1. temp_block /\ UNCHANGED <<block_arr, State, temp_block, bitmap_inode>> /\ mem_diskptr'
  BY DEF MountRefused, MountCall
<1>2. ~ Mounted
  BY SuperBlockFound DEF SfsInv, MountRefused
<1>3. State # MOUNTED
  BY <1>1, <1>2 DEF SfsInv, Mounted
<1> QED
  BY <1>1, <1>2, <1>3 DEF SfsInv, Mounted, sb

LEMMA CreateFileKeeps ==
  ASSUME SfsInv, OneFile, CreateFile
  PROVE  SfsInv'
<1>1. /\ Mounted /\ UNCHANGED <<mem_diskptr, State, temp_block>>
      /\ IsDisk(block_arr) /\ bitmap_inode \in SUBSET {0} /\ Laid(block_arr, bitmap_inode)
  BY DEF CreateFile, SfsInv
<1>2. bitmap_inode = {}
  <2>1. Cardinality({0}) = 1
    BY FS_Singleton
  <2>2. Cardinality(bitmap_inode) < 1
    BY DEF CreateFile, OneFile
  <2>3. bitmap_inode = {} \/ bitmap_inode = {0}
    BY <1>1
  <2> QED
    BY <2>1, <2>2, <2>3
<1>3. Min(FreeInodes) = 0
  <2>1. FreeInodes = 0 .. I * InodesPerBlock - 1
    BY <1>1, <1>2, SuperBlockFound DEF FreeInodes
  <2>2. 0 \in FreeInodes /\ \A x \in FreeInodes : 0 <= x /\ (x <= 0 => x = 0)
    BY <2>1, LayoutIs
  <2> QED
    BY <2>2, Zenon DEF Min
<1> DEFINE node == [retrieve_inode(0) EXCEPT !.size = 0, !.valid = 1]
           arr == WriteBlock(block_arr, 1, BitmapBlock({0}))
<1>4. bitmap_inode' = {0} /\ block_arr' = write_inode(arr, 0, node)
  BY <1>1, <1>2, <1>3, SuperBlockFound DEF CreateFile
<1>5. NodeOK(node)
  <2>1. NodeOK([retrieve_inode(0) EXCEPT !.size = 0])
    BY <1>1, NodeFound, NodesChange
  <2> QED
    BY <2>1, NodesChange
<1>6. IsDisk(arr) /\ arr[0] = SuperBlock /\ arr[1] = BitmapBlock({0})
  BY <1>1, BlockWritten, FixedBlocks DEF Laid
<1> HIDE DEF node, arr
<1>7. IsDisk(block_arr') /\ Laid(block_arr', {0})
  BY <1>1, <1>4, <1>5, <1>6, NodeStored, FixedBlocks DEF Laid
<1> QED
  BY <1>1, <1>4, <1>7, StaysLaid

LEMMA RemoveFileKeeps ==
  ASSUME SfsInv, NEW inumber, RemoveFile(inumber)
  PROVE  SfsInv'
<1>1. /\ Mounted /\ UNCHANGED <<mem_diskptr, State, temp_block>>
      /\ IsDisk(block_arr) /\ bitmap_inode = {0} /\ inumber = 0 /\ Laid(block_arr, bitmap_inode)
  BY DEF RemoveFile, SfsInv
<1> DEFINE node == [retrieve_inode(0) EXCEPT !.valid = 0]
           arr1 == WriteBlock(block_arr, 1, BitmapBlock({}))
           arr2(block) == WriteBlock(arr1, 2, block)
<1>2. PICK block : block_arr' = write_inode(arr2(block), 0, node)
  <2>1. bitmap_inode \ {inumber} = {}
    BY <1>1
  <2> QED
    BY <1>1, <2>1, SuperBlockFound DEF RemoveFile
<1>3. bitmap_inode' = {}
  BY <1>1 DEF RemoveFile
<1>4. NodeOK(node)
  BY <1>1, NodeFound, NodesChange
<1>5. IsDisk(arr1) /\ arr1[0] = SuperBlock /\ arr1[1] = BitmapBlock({})
  BY <1>1, BlockWritten, FixedBlocks DEF Laid
<1> HIDE DEF node, arr1
<1>6. IsDisk(arr2(block)) /\ arr2(block)[0] = SuperBlock /\ arr2(block)[1] = BitmapBlock({})
  BY <1>5, BlockWritten, FixedBlocks
<1> HIDE DEF arr2
<1>7. IsDisk(block_arr') /\ Laid(block_arr', {})
  BY <1>1, <1>2, <1>4, <1>6, NodeStored, FixedBlocks DEF Laid
<1> QED
  BY <1>1, <1>3, <1>7, StaysLaid

LEMMA WriteIKeeps ==
  ASSUME SfsInv, NEW inumber, NEW offset \in Nat, NEW longest \in Nat,
         offset + longest <= DirectWords, NEW v, WriteI(inumber, offset, longest, v),
         AreFree(Node(inumber), Missing(Node(inumber), offset, longest))
  PROVE  SfsInv'
<1>1. /\ Mounted /\ UNCHANGED <<mem_diskptr, State, temp_block, bitmap_inode>>
      /\ IsDisk(block_arr) /\ bitmap_inode = {0} /\ inumber = 0 /\ Laid(block_arr, bitmap_inode)
  BY DEF WriteI, Accepted, SfsInv
<1>2. Min({longest, MaxWords - offset}) = longest
  <2>1. MaxWords - offset \in Int /\ longest <= MaxWords - offset
    BY LayoutIs DEF MaxWords, DirectWords, NDirect
  <2> QED
    BY <2>1 DEF Min
<1> DEFINE old == retrieve_inode(0)
           n == Missing(old, offset, longest)
<1>3. NodeOK(old) /\ old.size \in Nat
  BY <1>1, NodeFound DEF NodeOK
<1>4. n \in Nat
  BY <1>3, MissingIsNatural
<1>8. AreFree(old, n)
  BY <1>1, Zenon DEF Node
<1> HIDE DEF old
<1>5. PICK junk \in JunkIds :
        LET ext == Extended(old, n, junk)
        IN  IF ext.ok THEN Copy(0, ext, offset, longest, v) ELSE block_arr' = ext.arr \/ block_arr' = block_arr
  BY <1>1, <1>2 DEF WriteI, WriteFails, old
<1> DEFINE ext == Extended(old, n, junk)
<1> HIDE DEF n
<1>6. Spares(block_arr, ext.arr) /\ NodeOK(ext.node)
  BY <1>1, <1>3, <1>4, <1>8, ExtendedSpares
<1> HIDE DEF ext
<1>7. IsDisk(block_arr') /\ Laid(block_arr', bitmap_inode)
  <2>1. CASE Copy(0, ext, offset, longest, v)
    BY <1>1, <1>6, <2>1, CopyKeepsMetadata
  <2>2. CASE block_arr' = block_arr
    BY <1>1, <2>2
  <2>3. CASE block_arr' = ext.arr
    BY <1>1, <1>6, <2>3, FixedBlocks DEF Spares, Laid
  <2> QED
    BY <1>5, <2>1, <2>2, <2>3 DEF ext
<1> QED
  BY <1>1, <1>7, StaysLaid

LEMMA FileCallKeeps ==
  ASSUME SfsInv, WritesDirectBlocks, NEW inumber \in Inumbers, FileCall(inumber), ~ RunsShort
  PROVE  SfsInv'
<1>1. CASE UNCHANGED <<block_arr, mem_diskptr, State, temp_block, bitmap_inode>>
  BY <1>1 DEF SfsInv, Mounted, sb
<1>2. CASE RemoveFile(inumber)
  BY <1>2, RemoveFileKeeps
<1>3. ASSUME NEW range \in Writes, NEW v \in DataAt[range[1]],
             WriteI(inumber, range[1], range[2], v)
      PROVE  SfsInv'
  <2>1. AreFree(Node(inumber), Missing(Node(inumber), range[1], range[2]))
    BY <1>3, Zenon DEF RunsShort
  <2> QED
    BY <1>3, <2>1, WriteIKeeps DEF WritesDirectBlocks
<1>4. \/ UNCHANGED <<block_arr, mem_diskptr, State, temp_block, bitmap_inode>>
      \/ RemoveFile(inumber)
      \/ \E range \in Writes : \E v \in DataAt[range[1]] : WriteI(inumber, range[1], range[2], v)
  BY Zenon DEF FileCall, Refused, Stat, BadOffset, ReadI
<1> QED
  BY <1>1, <1>2, <1>3, <1>4

LEMMA StepKeepsSfs ==
  ASSUME OneFile, WritesDirectBlocks, NumbersFitWords, SfsInv, [Next]_vars, [~ RunsShort]_vars
  PROVE  SfsInv'
<1>1. CASE Next /\ ~ RunsShort
  <2>1. ASSUME NEW range \in Writes, NEW v \in DataAt[range[1]], WriteBlockZero(v)
        PROVE  SfsInv'
    BY <2>1, WriteBlockZeroKeeps DEF WritesDirectBlocks
  <2>2. CASE Format
    BY <2>2, FormatKeeps
  <2>3. CASE Mount
    BY <2>3, MountKeeps
  <2>4. CASE MountRefused
    BY <2>4, MountRefusedKeeps
  <2>5. CASE CreateFile
    BY <2>5, CreateFileKeeps
  <2>6. ASSUME NEW inumber \in Inumbers, FileCall(inumber)
        PROVE  SfsInv'
    BY <1>1, <2>6, FileCallKeeps
  <2> QED
    BY <1>1, <2>1, <2>2, <2>3, <2>4, <2>5, <2>6 DEF Next
<1>2. CASE UNCHANGED vars
  BY <1>2 DEF vars, SfsInv, Mounted, sb
<1> QED
  BY <1>1, <1>2

(* A program with one file that writes only to the five direct blocks of   *)
(* the file, and never asks for more blocks than are free, does not harm   *)
(* what format laid: whatever blocks are allocated, freed and reused, and  *)
(* whatever malloc leaves in block_ids, the super block stays and the      *)
(* inode bitmap on the disk is the one in memory.                          *)
THEOREM MetadataStaysIntact ==
  ASSUME OneFile, WritesDirectBlocks, NumbersFitWords
  PROVE  Spec /\ [][~ RunsShort]_vars => []MetadataIntact
<1>1. Init => SfsInv
  BY InitSfs
<1>2. SfsInv /\ [Next]_vars /\ [~ RunsShort]_vars => SfsInv'
  BY StepKeepsSfs
<1>3. SfsInv => MetadataIntact
  BY SfsInvIs
<1> QED
  BY <1>1, <1>2, <1>3, PTL DEF Spec
=============================================================================
