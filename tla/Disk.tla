-------------------------------- MODULE Disk --------------------------------
(***************************************************************************)
(* The disk emulator disk.c, scaled: a block is W words instead of 1024,   *)
(* and a word 16 bits instead of 32.  The sizes that the code gives in     *)
(* bytes are in words here.  (The counters of reads and writes, which no   *)
(* program looks at, are left out.)                                        *)
(***************************************************************************)
EXTENDS Integers

CONSTANTS W,        \* BLOCKSIZE, in words
          NWords,   \* the size of the disk that create_disk is asked for
          JunkWord  \* what malloc leaves in memory

ASSUME SizesOfDisk == W \in Nat \ {0} /\ NWords \in Nat

StatBlockSize == 6   \* words, STAT_BLOCK_SIZE

N == (NWords - StatBlockSize) \div W   \* how many blocks

Word == 0 .. 2^16 - 1

(* A variant does not cut a number to its width.                           *)
RawWord(x) == x

AsWord(x) == x % 2^16

(* A block that starts with the words of the sequence s, copied from an    *)
(* object in memory that is shorter than a block.                          *)
Padded(s, length) == [w \in 0 .. W-1 |-> IF w < length THEN s[w+1] ELSE JunkWord]

NewDisk == [nr \in 0 .. N-1 |-> Padded(<< >>, 0)]

(* The test that read_block and write_block make.                          *)
InDisk(nr) == nr \in 0 .. N-1

WriteBlock(arr, nr, data) == IF InDisk(nr) THEN [arr EXCEPT ![nr] = data] ELSE arr
=============================================================================
