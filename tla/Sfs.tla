-------------------------------- MODULE Sfs ---------------------------------
(***************************************************************************)
(* The simple file system sfs.c on the disk of Disk, as a program like     *)
(* main.c calls it: one call at a time, each call one action.  Blocks are  *)
(* kept word by word, because the layout is the point: an inode is 8 words *)
(* wide and two inodes are 2 words apart, and write_inode lays an inode    *)
(* over a copy of block iblock, which is the super block.                  *)
(*                                                                         *)
(* Each bitmap fits into one block.                                        *)
(***************************************************************************)
EXTENDS Disk, FiniteSets, FiniteSetsExt, Sequences

CONSTANTS Ops,                     \* the calls the program makes
          MaxFiles,                \* how many files it has at a time
          Inumbers,
          Reads, Writes,           \* where it does: pairs of offset and length
          DataAt,                  \* the words it writes at each offset
          JunkIds                  \* what malloc leaves in the array block_ids

VARIABLES block_arr,               \* the disk
          mem_diskptr, State,      \* whether set; MOUNTED or UNMOUNTED
          temp_block,              \* whether it is allocated
          bitmap_inode, bitmap_data,  \* the bits of mem_bitmap that are set
          ret                      \* the answer of the last call

vars == <<block_arr, mem_diskptr, State, temp_block, bitmap_inode, bitmap_data, ret>>

MAGIC     == 12345
MOUNTED   == 1
UNMOUNTED == 0
NDirect   == 5
DirectWords == NDirect * W   \* 5 * BLOCKSIZE
MaxWords == (W + 5) * W      \* 1029 * BLOCKSIZE: a block of W numbers
-----------------------------------------------------------------------------
(* The layout that format computes.                                        *)

CeilDiv(a, b) == (a + b - 1) \div b

BitsPerBlock == 32 * W
InodesPerBlock == W \div 8        \* 128, of 32 bytes each
InodeSlots == W \div 2            \* BLOCKSIZE / 8

M   == N - 1
I   == M \div 10
IB  == CeilDiv(I * InodesPerBlock, BitsPerBlock)
R   == M - I - IB
DBB == CeilDiv(R, BitsPerBlock)
DB  == R - DBB

ASSUME OneBitmapBlock == IB = 1 /\ DBB = 1
ASSUME SuperBlockFits == W >= 9

SuperBlock ==
  Padded(<<MAGIC, M, I, I * InodesPerBlock, 1, 1 + IB + DBB, 1 + IB,
           1 + IB + DBB + I, DB>>, 9)

(* What a call finds in block 0.                                           *)
sb == [magic_number       |-> block_arr[0][0],
       inodes             |-> block_arr[0][3],
       inode_bitmap       |-> block_arr[0][4],
       inode_block_idx    |-> block_arr[0][5],
       data_bitmap        |-> block_arr[0][6],
       data_block_idx     |-> block_arr[0][7],
       data_blocks        |-> block_arr[0][8]]

(* A bitmap in memory has whole bytes; in a block it is the first word.    *)
BitsFor(n) == 0 .. 8 * ((n + 7) \div 8) - 1
BitmapBlock(bits) == Padded(<<MapThenSumSet(LAMBDA b : 2^b, bits)>>, 1)
BitsOf(block, n) ==
  LET shifted[b \in Nat] == IF b = 0 THEN block[0] ELSE shifted[b-1] \div 2
  IN  {b \in BitsFor(n) : shifted[b] % 2 = 1}

(* b[i / 8] and 1 << (i & 7) for i an int: those just below 0 are bits of  *)
(* the first byte.                                                         *)
BitAt(word) == IF word > 2^16 - 8 THEN word - 2^16 + 8 ELSE word

(* retrieve_inode and write_inode.                                         *)
InodeIn(block, at) ==
  [valid |-> block[at], size |-> block[at + 1],
   direct |-> [k \in 0 .. NDirect-1 |-> block[at + 2 + k]], indirect |-> block[at + 7]]

Overlay(block, at, node) ==
  LET inode == <<node.valid, node.size>> \o [k \in 1 .. NDirect |-> node.direct[k-1]]
                 \o <<node.indirect>>
  IN  [w \in 0 .. W-1 |-> IF w \in at .. at + 7 THEN inode[w - at + 1] ELSE block[w]]

retrieve_inode(inumber) ==
  InodeIn(block_arr[inumber \div InodeSlots + sb.inode_block_idx],
          2 * (inumber % InodeSlots))

write_inode(arr, inumber, node) ==
  LET iblock == inumber \div InodeSlots
  IN  WriteBlock(arr, iblock + sb.inode_block_idx,
                 Overlay(arr[iblock], 2 * (inumber % InodeSlots), node))
-----------------------------------------------------------------------------
Answer(op, inumber, val, data) ==
  ret' = [op |-> op, inumber |-> inumber, val |-> val, data |-> data]

Mounted == mem_diskptr /\ State = MOUNTED

(* After create_disk: STATE begins as MOUNTED, with no disk.               *)
Init ==
  /\ block_arr = NewDisk
  /\ mem_diskptr = FALSE /\ State = MOUNTED
  /\ temp_block = FALSE
  /\ bitmap_inode = {} /\ bitmap_data = {}
  /\ ret = [op |-> "none", inumber |-> 0, val |-> 0, data |-> << >>]

(* main.c writes to the disk itself before it has a file system on it.     *)
WriteBlockZero(v) ==
  /\ "write_block" \in Ops
  /\ ~ Mounted
  /\ block_arr' = WriteBlock(block_arr, 0, [w \in 0 .. W-1 |-> v])
  /\ Answer("write_block", 0, 0, << >>)
  /\ UNCHANGED <<mem_diskptr, State, temp_block, bitmap_inode, bitmap_data>>

(* format writes the inodes at their full width.  A second format is a     *)
(* call of its own, "reformat".                                            *)
FreshInodes ==
  [w \in 0 .. W-1 |-> IF w % 8 = 0 THEN 0 ELSE AsWord(-1)]

Format ==
  /\ (IF temp_block THEN "reformat" ELSE "format") \in Ops
  /\ block_arr' = [nr \in 0 .. N-1 |->
                     CASE nr = 0 -> SuperBlock
                       [] nr \in {1, 1 + IB} -> BitmapBlock({})
                       [] nr \in 1 + IB + DBB .. IB + DBB + I -> FreshInodes
                       [] OTHER -> block_arr[nr]]
  /\ temp_block' = TRUE
  /\ State' = UNMOUNTED
  /\ Answer("format", 0, 0, << >>)
  /\ UNCHANGED <<mem_diskptr, bitmap_inode, bitmap_data>>

(* mount reads into temp_block, which only format allocates.  A mount of   *)
(* what is mounted is a call of its own, "remount".                        *)
MountCall == temp_block /\ (IF Mounted THEN "remount" ELSE "mount") \in Ops

Mount ==
  /\ MountCall
  /\ sb.magic_number = MAGIC
  /\ bitmap_inode' = BitsOf(block_arr[sb.inode_bitmap], sb.inodes)
  /\ bitmap_data' = BitsOf(block_arr[sb.data_bitmap], sb.data_blocks)
  /\ mem_diskptr' = TRUE
  /\ State' = MOUNTED
  /\ Answer("mount", 0, 0, << >>)
  /\ UNCHANGED <<block_arr, temp_block>>

MountRefused ==
  /\ MountCall
  /\ sb.magic_number # MAGIC
  /\ mem_diskptr' = TRUE
  /\ Answer("mount", 0, -1, << >>)
  /\ UNCHANGED <<block_arr, State, temp_block, bitmap_inode, bitmap_data>>
-----------------------------------------------------------------------------
FileCalls == {"create_file", "remove_file", "stat", "read_i", "write_i"}

(* Every file call of an unmounted disk, and those for an inode that is    *)
(* not marked, fail.                                                       *)
Refused(op, inumber) ==
  /\ op \in FileCalls \cap Ops
  /\ Mounted => op # "create_file" /\ inumber \notin bitmap_inode
  /\ Answer(op, inumber, -1, << >>)
  /\ UNCHANGED <<block_arr, mem_diskptr, State, temp_block, bitmap_inode, bitmap_data>>

FreeInodes == {b \in 0 .. sb.inodes - 1 : b \notin bitmap_inode}

(* create_file keeps the pointers that it finds in the inode.              *)
CreateFile ==
  /\ "create_file" \in Ops
  /\ Mounted
  /\ FreeInodes # {} /\ Cardinality(bitmap_inode) < MaxFiles
  /\ LET inumber == Min(FreeInodes)
         node == [retrieve_inode(inumber) EXCEPT !.size = 0, !.valid = 1]
         bits == bitmap_inode \cup {inumber}
         arr == WriteBlock(block_arr, sb.inode_bitmap, BitmapBlock(bits))
     IN  /\ bitmap_inode' = bits
         /\ block_arr' = write_inode(arr, inumber, node)
         /\ Answer("create_file", inumber, inumber, << >>)
  /\ UNCHANGED <<mem_diskptr, State, temp_block, bitmap_data>>

(* remove_file unsets the data bits at the block numbers themselves, from  *)
(* the first block to that of number size / BLOCKSIZE; none for five       *)
(* blocks or more.                                                         *)
UnsetBits(node) ==
  IF node.size > 0 /\ node.size < NDirect * W
  THEN {BitAt(node.direct[k]) : k \in 0 .. node.size \div W}
  ELSE {}

RemoveFile(inumber) ==
  /\ "remove_file" \in Ops
  /\ Mounted /\ inumber \in bitmap_inode
  /\ LET node == retrieve_inode(inumber)
         ibits == bitmap_inode \ {inumber}
         dbits == bitmap_data \ UnsetBits(node)
         arr1 == WriteBlock(block_arr, sb.inode_bitmap, BitmapBlock(ibits))
         arr2 == WriteBlock(arr1, sb.data_bitmap, BitmapBlock(dbits))
     IN  /\ node.size \div W # NDirect - 1   \* there it reads the indirect block
         /\ bitmap_inode' = ibits
         /\ bitmap_data' = dbits
         /\ block_arr' = write_inode(arr2, inumber, [node EXCEPT !.valid = 0])
  /\ Answer("remove_file", inumber, 0, << >>)
  /\ UNCHANGED <<mem_diskptr, State, temp_block>>

(* stat prints the size and a number of blocks, rounded down.              *)
StatBlocks(size) ==
  LET direct == IF size > DirectWords THEN NDirect ELSE size \div W
      indirect == IF size > DirectWords THEN (size - DirectWords) \div W ELSE 0
  IN  IF indirect = 0 THEN direct ELSE direct + indirect + 1

Stat(inumber) ==
  /\ "stat" \in Ops
  /\ Mounted /\ inumber \in bitmap_inode
  /\ LET size == retrieve_inode(inumber).size
     IN  Answer("stat", inumber, 0, <<size, StatBlocks(size)>>)
  /\ UNCHANGED <<block_arr, mem_diskptr, State, temp_block, bitmap_inode, bitmap_data>>
-----------------------------------------------------------------------------
(* read_i and write_i: length words from offset, block by block.           *)

BadOffset(op, inumber, offset) ==
  /\ op \in {"read_i", "write_i"} \cap Ops
  /\ Mounted /\ inumber \in bitmap_inode
  /\ LET node == retrieve_inode(inumber)
     IN  offset > node.size \/ offset > MaxWords \/ node.valid = 0
  /\ Answer(op, inumber, -1, << >>)
  /\ UNCHANGED <<block_arr, mem_diskptr, State, temp_block, bitmap_inode, bitmap_data>>

Accepted(op, inumber, offset) ==
  /\ op \in Ops
  /\ Mounted /\ inumber \in bitmap_inode
  /\ LET node == retrieve_inode(inumber)
     IN  offset <= node.size /\ offset <= MaxWords /\ node.valid # 0

BlocksOf(offset, length) ==
  IF length = 0 THEN {} ELSE offset \div W .. (offset + length - 1) \div W

DirectOf(blocks) == {k \in blocks : k < NDirect}

(* The blocks before the first that is not on the disk.                    *)
Reached(node, blocks) ==
  {k \in blocks : \A j \in blocks : j <= k => InDisk(node.direct[j])}

(* A copy of the indirect block, or what malloc gave if it cannot be read. *)
Indirect(arr, node) == IF InDisk(node.indirect) THEN arr[node.indirect] ELSE Padded(<< >>, 0)

(* Where the number of the k-th block is looked up in the indirect block,  *)
(* as a byte: read_i starts at the int of number start_idx, write_i at     *)
(* that byte; start_idx is left at 5 after the direct blocks.              *)
Slot(op, offset, k) ==
  LET first == Max({NDirect, offset \div W})
      start_idx == IF offset < DirectWords THEN NDirect ELSE first - NDirect
  IN  IF op = "read_i" THEN 4 * (start_idx + k - first) ELSE start_idx + 4 * (k - first)

(* An int that need not be aligned; a byte is a quarter of a word.         *)
IntAt(block, byte) ==
  LET w == byte \div 4
      shift == 4 * (byte % 4)
  IN  IF shift = 0 THEN block[w]
      ELSE AsWord((block[w] \div 2^shift) + block[w+1] * 2^(16 - shift))

(* mem_bitmap.bitmap_data[nr] is a byte, the nr-th: behind the bitmap it   *)
(* may be 0 or not.                                                        *)
InBitmap(nr) == nr \in 0 .. (sb.data_blocks + 7) \div 8 - 1
ByteIsSet(bits, nr) == \E b \in bits : b \div 8 = nr
MayPass(bits, nr) == InBitmap(nr) => ByteIsSet(bits, nr)
MayStop(bits, nr) == InBitmap(nr) => ~ ByteIsSet(bits, nr)

(* How far the loop over the indirect block comes: to the block upto, ok   *)
(* unless that is not on the disk.                                         *)
LoopEnds(op, node, indirect, offset, length, bits) ==
  LET loop == {k \in BlocksOf(offset, length) \ (0 .. NDirect-1) :
                 Slot(op, offset, k) < 4 * (node.size - DirectWords)}
      nr(k) == IntAt(indirect, Slot(op, offset, k))
      last == Max(loop \cup {NDirect - 1}) + 1
  IN  {end \in [upto : loop \cup {last}, ok : BOOLEAN] :
         /\ \A k \in loop : k < end.upto => MayPass(bits, nr(k)) /\ InDisk(nr(k))
         /\ IF end.ok THEN end.upto = last \/ MayStop(bits, nr(end.upto))
            ELSE end.upto # last /\ MayPass(bits, nr(end.upto)) /\ ~ InDisk(nr(end.upto))}

(* The number of a block, and how many words lie before block upto.        *)
NumberOf(op, node, indirect, offset, k) ==
  IF k < NDirect THEN node.direct[k] ELSE IntAt(indirect, Slot(op, offset, k))

WordsBefore(upto, offset, length) == Min({length, Max({0, upto * W - offset})})

ReadI(inumber, offset, length) ==
  /\ Accepted("read_i", inumber, offset)
  /\ LET node == retrieve_inode(inumber)
         n == Min({length, AsWord(node.size - offset)})
         direct == DirectOf(BlocksOf(offset, n))
         indirect == Indirect(block_arr, node)
         word(x) == block_arr[NumberOf("read_i", node, indirect, offset, x \div W)][x % W]
     IN  IF Reached(node, direct) # direct THEN Answer("read_i", inumber, -1, << >>)
         ELSE \E end \in LoopEnds("read_i", node, indirect, offset, n, bitmap_data) :
                LET total == WordsBefore(end.upto, offset, n)
                IN  IF end.ok
                    THEN Answer("read_i", inumber, total, [j \in 1 .. total |-> word(offset + j - 1)])
                    ELSE Answer("read_i", inumber, -1, << >>)
  /\ UNCHANGED <<block_arr, mem_diskptr, State, temp_block, bitmap_inode, bitmap_data>>

(* get_empty_blocks(n) with these bits set: it marks the first n free      *)
(* blocks; when there are fewer, the rest of the array is what it was.     *)
FreeBlocks(bits) == (0 .. sb.data_blocks - 1) \ bits
FirstFree(bits, n) ==
  {b \in FreeBlocks(bits) : Cardinality({c \in FreeBlocks(bits) : c < b}) < n}

(* Variants: the number of the bit for that of the block, and the next bit. *)
RelativeNumber(b) == b
NumberAfter(b) == b + sb.data_block_idx + 1

BlockNumber(b) == b + sb.data_block_idx

EmptyBlocks(bits, n, junk) ==
  [i \in 1 .. n |-> IF Cardinality(FreeBlocks(bits)) < i THEN junk
                    ELSE BlockNumber(Max(FirstFree(bits, i)))]

(* How many blocks a write asks for: those for what the file does not have *)
(* yet, whatever room there is in its last block.                          *)
Missing(node, offset, length) ==
  LET rest == AsWord(node.size - offset)
  IN  IF rest < length THEN CeilDiv(length - rest, W) ELSE 0

NextDirect(node) == IF node.size = 0 THEN 0 ELSE node.size \div W + 1

(* Extending the file by n blocks: their numbers go all to one direct      *)
(* pointer, so that the last stays, or to the indirect block from its      *)
(* first entry on; a file that has had no indirect block gets one, whose   *)
(* other entries are what that block of the disk held.                     *)
Extended(node, n, junk) ==
  LET ids == EmptyBlocks(bitmap_data, n, junk)
      bits == bitmap_data \cup FirstFree(bitmap_data, n)
      fresh == node.size <= DirectWords
      grown == IF fresh THEN [node EXCEPT !.indirect = EmptyBlocks(bits, 1, junk)[1]] ELSE node
      block == [w \in 0 .. W-1 |-> IF w < n THEN ids[w+1] ELSE Indirect(block_arr, grown)[w]]
  IN  IF n = 0 THEN [node |-> node, bits |-> bits, arr |-> block_arr, ok |-> TRUE]
      ELSE IF NextDirect(node) < NDirect
      THEN [node |-> [node EXCEPT !.direct[NextDirect(node)] = ids[n]],
            bits |-> bits, arr |-> block_arr, ok |-> TRUE]
      ELSE [node |-> grown,
            bits |-> IF fresh THEN bits \cup FirstFree(bits, 1) ELSE bits,
            arr |-> WriteBlock(block_arr, grown.indirect, block),
            ok |-> InDisk(grown.indirect)]

(* One block of a write; a variant copies to the block's first word.       *)
PieceAtStart(block, k, offset, length, v) ==
  LET here == {w \in 0 .. W-1 : k * W + w \in offset .. offset + length - 1}
  IN  [w \in 0 .. W-1 |-> IF w < Cardinality(here) THEN v ELSE block[w]]

Piece(block, k, offset, length, v) ==
  [w \in 0 .. W-1 |-> IF k * W + w \in offset .. offset + length - 1 THEN v ELSE block[w]]

(* The disk arr after the pieces of these blocks, nr[k] being the k-th.    *)
Written(arr, nr, offset, length, v, blocks) ==
  LET after[n \in 0 .. Cardinality(blocks)] ==
        IF n = 0 THEN arr
        ELSE LET k == Min(blocks) + n - 1
             IN  WriteBlock(after[n-1], nr[k], Piece(after[n-1][nr[k]], k, offset, length, v))
  IN  after[Cardinality(blocks)]

(* Behind the direct blocks a piece shorter than a block is copied whole,  *)
(* wherever in temp_block it begins: past its end the model does not go.   *)
Overruns(offset, length) ==
  offset >= DirectWords /\ length < W /\ (offset % W) + length > W

WriteFails(inumber, arr) ==
  /\ block_arr' = arr
  /\ Answer("write_i", inumber, -1, << >>)

(* The two loops of write_i on the extended file ...                       *)
Copy(inumber, ext, offset, length, v) ==
  LET node == [ext.node EXCEPT !.size = offset + length]
      blocks == BlocksOf(offset, length)
      direct == DirectOf(blocks)
      reached == Reached(node, direct)
      arr1 == Written(ext.arr, node.direct, offset, length, v, reached)
      indirect == Indirect(arr1, node)
      nr == [k \in blocks |-> NumberOf("write_i", node, indirect, offset, k)]
  IN  IF reached # direct THEN WriteFails(inumber, arr1)
      ELSE \E end \in LoopEnds("write_i", node, indirect, offset, length, ext.bits) :
             LET done == {k \in blocks \ direct : k < end.upto}
                 arr2 == Written(arr1, nr, offset, length, v, done)
                 arr3 == IF blocks = direct THEN arr2 ELSE WriteBlock(arr2, node.indirect, indirect)
             IN  IF end.ok
                 THEN /\ block_arr' = write_inode(arr3, inumber, node)
                      /\ Answer("write_i", inumber, WordsBefore(end.upto, offset, length), << >>)
                 ELSE WriteFails(inumber, arr2)

(* ... after the extension.                                                *)
WriteI(inumber, offset, longest, v) ==
  LET length == Min({longest, MaxWords - offset})
      old == retrieve_inode(inumber)
  IN  /\ Accepted("write_i", inumber, offset)
      /\ ~ Overruns(offset, length)
      /\ \E junk \in JunkIds :
           LET ext == Extended(old, Missing(old, offset, length), junk)
           IN  /\ bitmap_data' = ext.bits
               /\ IF ext.ok THEN Copy(inumber, ext, offset, length, v)
                  ELSE WriteFails(inumber, block_arr)
      /\ UNCHANGED <<mem_diskptr, State, temp_block, bitmap_inode>>
-----------------------------------------------------------------------------
FileCall(inumber) ==
  \/ \E op \in FileCalls : Refused(op, inumber)
  \/ RemoveFile(inumber)
  \/ Stat(inumber)
  \/ \E range \in Reads : BadOffset("read_i", inumber, range[1])
                        \/ ReadI(inumber, range[1], range[2])
  \/ \E range \in Writes : BadOffset("write_i", inumber, range[1])
                         \/ \E v \in DataAt[range[1]] :
                              WriteI(inumber, range[1], range[2], v)

Next ==
  \/ \E range \in Writes : \E v \in DataAt[range[1]] : WriteBlockZero(v)
  \/ Format
  \/ Mount
  \/ MountRefused
  \/ CreateFile
  \/ \E inumber \in Inumbers : FileCall(inumber)

Spec == Init /\ [][Next]_vars
-----------------------------------------------------------------------------
TypeOK ==
  /\ block_arr \in [0 .. N-1 -> [0 .. W-1 -> Word]]
  /\ mem_diskptr \in BOOLEAN /\ temp_block \in BOOLEAN
  /\ State \in {MOUNTED, UNMOUNTED}
  /\ bitmap_inode \subseteq BitsFor(I * InodesPerBlock)
  /\ bitmap_data \subseteq BitsFor(DB)
  /\ ret.val \in Int

Node(inumber) == retrieve_inode(inumber)

(* The blocks a file's size covers, and their numbers: the entries of the  *)
(* indirect block stand for those after the direct ones, in order.         *)
FileBlocks(node) == BlocksOf(0, node.size)

BlockOf(node, k) ==
  IF k < NDirect THEN node.direct[k] ELSE Indirect(block_arr, node)[k - NDirect]

(* The blocks that hold a file are data blocks and all different, so that  *)
(* each word of it has a place of its own.                                 *)
BlocksAreItsOwn ==
  Mounted => \A i \in bitmap_inode :
    LET node == Node(i)
    IN  /\ \A k \in FileBlocks(node) :
             BlockOf(node, k) \in sb.data_block_idx .. sb.data_block_idx + sb.data_blocks - 1
        /\ \A j, k \in FileBlocks(node) : BlockOf(node, j) = BlockOf(node, k) => j = k

(* "some of the blocks should have had their bit set according to the size *)
(* of file inode": no block of a file can be given to the next extension.  *)
BlocksAreMarked ==
  Mounted => \A i \in bitmap_inode :
    LET node == Node(i)
    IN  /\ \A k \in FileBlocks(node) : BlockOf(node, k) - sb.data_block_idx \in bitmap_data
        /\ node.size > DirectWords => node.indirect - sb.data_block_idx \in bitmap_data

(* No call on files writes over the super block, and the inode bitmap on   *)
(* the disk is the one in memory.                                          *)
MetadataIntact ==
  Mounted => /\ block_arr[0] = SuperBlock
             /\ block_arr[1] = BitmapBlock(bitmap_inode)

(* A call for one file leaves the inodes of the others as they are: the    *)
(* "logical size of the file" and its "direct data block pointer".         *)
InodesStayApart ==
  [][\A i \in bitmap_inode : Mounted /\ Mounted' /\ ret'.inumber # i => Node(i)' = Node(i)]_vars

(* What a program has in its files, as it can read them: for each inode    *)
(* number that is in use the words up to the size.                         *)
Contents(inumber) ==
  LET node == Node(inumber)
  IN  [j \in 1 .. node.size |-> block_arr[BlockOf(node, (j-1) \div W)][(j-1) % W]]

Store == INSTANCE FileStore WITH
           Sure <- DirectWords,
           file <- [i \in Inumbers |->
                      IF Mounted /\ i \in bitmap_inode
                      THEN [exists |-> TRUE, words |-> Contents(i)]
                      ELSE [exists |-> FALSE, words |-> << >>]]

(* What is read from a file is what the last writes put there.             *)
ImplementsFileStore == Store!FSSpec
=============================================================================
