# Models of the Advanced-OS-Coursework programs

Formal models of the code under `src/`: two Linux kernel modules that give
processes a heap through a file of `/proc`, and a small file system on an
emulated disk. The modules are TLA+; TLC checks them on small instances, and the
TLA+ proof system proves what section 4 lists about the heap, the two kernel modules and the file
system for any number of processes, keys, cells of memory and blocks.

Abbreviations: A1 is `src/Assignment1/PartB/A1/lkm_moduleA1.c`, A2 is
`src/Assignment1/PartB/A2/lkm_moduleA2.c`, SFS is
`src/Assignment2/CodeSubmission/sfs.c`, DISK is `disk.c` beside it.

## 1. The system

| component | state | operations | how it is used |
|---|---|---|---|
| array heap (A1 168-282, A2 189-320) | `struct Heap`: `arr`, `count`, `capacity`, `heap_type`, `last_inserted` | `CreateHeap`, `DestroyHeap`, `insert`, `PopMin`, `heapify_bottom_top`, `heapify_top_bottom` | called from the file operations of A1 and A2, without a lock |
| process list (A1 88-166, A2 the same) | `htable` and the `h_struct`s linked from it: pid, heap, next | `get_entry_from_key`, `key_add`, `key_del`, `print_key`, `DestroyHashTable` | `key_add`, `key_del`, `print_key` with `heap_mutex` held; lookups without it |
| module A1 | the globals `entry`, `num`, `topnode`, `heap_type`, `heap_size`, `buffer`, `args_set`, `heap_mutex` | `dev_open`, `dev_release`, `dev_read`, `dev_write`, `hello_init`, `hello_exit` | the kernel calls them on behalf of any number of processes, at the same time |
| module A2 | those, and `pb2_args`, `heap` (a `struct obj_info`), `result` | those, and `dev_ioctl` with `PB2_SET_TYPE`, `PB2_INSERT`, `PB2_GET_INFO`, `PB2_EXTRACT` | the same |
| client programs (`A1/userspace.c`, `A2/userspace.c`) | keys of their own, a sorted copy of them | fork into eight processes, each opens the file, sets up a heap, inserts five keys, takes them out and compares them with the copy | drive A1 and A2, all at the same time |
| sequential tests (`test_ass1.c`, `test_ass2.c`) | the same | the same calls by one process, for a min-heap and then for a max-heap | drive A1 and A2 |
| disk (DISK) | an array of 4096-byte blocks in memory, counters of reads and writes | `create_disk`, `read_block`, `write_block`, `free_disk` | called by SFS |
| file system (SFS) | `STATE`, `mem_diskptr`, `temp_block`, the two bitmaps in memory and on disk, super block, inodes, data and pointer blocks | `format`, `mount`, `create_file`, `remove_file`, `stat`, `read_i`, `write_i` | called by `main.c` |
| directories (SFS 794-955) | | `create_dir`, `read_data_block`, and declarations without bodies | incomplete by `src/README.md:24`; no program calls them |

What makes these hard:

* **Interleaving.** Every handler of A1 and A2 works through *global* variables.
  The only lock, `heap_mutex`, is taken (with `mutex_trylock`) in `dev_open` and
  `dev_release`, and there not around the lookup or the assignment of `entry`.
  The clients of the repository run eight processes at a time.
* **Partial failure.** A handler that finds the mutex taken returns `-EBUSY`, in
  `dev_open` after it has allocated a node, in `dev_release` with the file gone.
  A read or an extraction whose `copy_to_user` fails has taken the key already.
* **Numeric edges.** `-INF` is the unsigned 1; A2's empty heap gives the key 0;
  `(index - 1) / 2` at the root; sizes at the capacity; in the file system
  pointer arithmetic in bytes, entries and blocks at the change from direct to
  indirect blocks.
* **Long call sequences.** The heap is repaired along one path per call; the
  file system keeps sizes, bitmaps and block pointers that must agree.

What correctness means: the heap hands out the extremum of what was inserted
and loses nothing; a process that has the device open has exactly one entry and
a heap of its own; the list ends; no handler touches freed memory; the mutex is
released on every path; a call returns; for the file system, what is written to
a file is what is read from it, and no two files share a block.

## 2. Modules

```
HeapOps --+-- Heap ------ MCHeap                      PriorityQueue  (implemented by Heap)
          +-- LkmDevice --+-- LkmA1 ------ MCA1       PrivateHeaps   (implemented by LkmA1, LkmA2)
                          +-- LkmA2 ------ MCA2
                          +-- Programs
              LkmA1 + Programs -- ProgramsA1 -- MCProgramsA1
              LkmA2 + Programs -- ProgramsA2 -- MCProgramsA2

Disk -------- Sfs ------------------- MCSfs           FileStore      (implemented by Sfs)
```

```
HeapOps -- HeapOpsProofs --+-- with Heap ------- HeapProofs
                           +-- with LkmDevice -- DeviceProofs -- TableProofs -- SerialProofs
                                    SerialProofs with LkmA1 -- LkmA1Proofs
                                    SerialProofs with LkmA2 -- LkmA2Proofs
Sfs -- SfsProofs
```

The modules of the second diagram hold proofs only; section 4 says what is in
which.

**HeapOps**: the index arithmetic, the comparison by `heap_type` and the choice
among a node and its two children (`Parent`, `OutOfOrder`, `TopOfThree`,
`Swapped`), shared by all the others.

**Heap**: one heap from `CreateHeap` on, with one caller at a time. The
variables are the fields of `struct Heap` and the frame of the running sift:
`pc` (`"up"` in `heapify_bottom_top`, `"down"` in `heapify_top_bottom`), `idx`
(its index argument) and `val` (insert's key, PopMin's `pop`). A recursive call
of a heapify function is one step, so every intermediate array is a state.
`count` grows when the sift of an insert has ended and shrinks before that of a
pop starts, as in the code. The array starts with arbitrary `Junk`: the code
does not clear it.

**PriorityQueue**: a bounded bag of keys; insert adds or is refused when full;
pop removes an extremal key or reports an empty bag. `Heap!ImplementsPQ` is the
refinement.

**LkmDevice**: what A1 and A2 have in common, run by several processes at once.

| model | code |
|---|---|
| `nodes`, with `Htable` | the `h_struct`s in memory and the dummy node `htable` |
| `heaps` | the `Heap`s in memory |
| `entry`, `num`, `topnode`, `heap_mutex` | the globals of those names |
| `files[p]` | how many open files of the device `p` has |
| `pc[p]`, `loc[p]` | where `p` is and the locals of its call: `cur` (the walk of the list, then the node found), `heap`, `idx`, `val`, and the arguments `a`, `b` |
| `ret` | the answer of the call that returned last, until the next call |
| `Call`, `Walk`, `Found`, `NotFound` | a handler's start and `get_entry_from_key`, one node a step |
| `OpenTwice` .. `PrintKeyUnlock` | `dev_open`, with `key_add` and `print_key` |
| `ReleaseCall` .. `KeyDelNone` | `dev_release`, with `key_del` in three steps (unlink and destroy the heap; clear the pointers; free) |
| `Insert` .. `Popped` | `insert`, `PopMin` and the heapify functions, on the heap a handler has loaded |
| `InitCreates` .. `InitStores` | `entry->global_heap = DestroyHeap(entry->global_heap)` and `entry->global_heap = CreateHeap(size, type)` |
| `ReadUnset` .. `ReadReturns` | `dev_read` |
| `RejectedCall` | a read or write that ends before the lookup: no buffer, no bytes, or bytes that `copy_from_user` cannot get |
| `Buffers`, `CopyFails` | whether the `copy_to_user` of a call that pops a key will fail: part of the call's arguments |
| `HelloExit`, `DestroyHashTable`, `HelloInit`, `Loaded` | `rmmod` and `insmod`: the module is loaded when `htable` is allocated; loading it again (`Load` of LkmA1 and LkmA2) clears all its globals |

**LkmA1** adds A1's `dev_write` (two bytes set up the heap, four insert, any other
number is refused), **LkmA2** A2's `dev_write` (two bytes set up the heap; once there is
one, one to four bytes insert and more are refused) and `dev_ioctl`. The two differ in the shared part in `EmptyPop`
(what `PopMin` of an empty heap gives) and `DestroyedNull` (what
`DestroyHeap(NULL)` gives: NULL in A1, the pointer `-EACCES` in A2).

**PrivateHeaps** is what the README of the repository promises: each process has
a priority queue from its open to its close and every call takes effect at once.
A call that is refused has no effect, with one exception, `ReadLoses`: a key that a call takes
out of the queue is lost when it cannot be copied to the user, or when it is the key that marks
an empty queue (`EmptyMark`: 1 in A1, 0 in A2). The code takes the key before it
finds out (A1 365-375, A2 528-535), so nothing stronger holds of it.
Both modules implement this for calls in turns. A call takes effect when its
`key_add`, `key_del`, `insert` or `PopMin` changes memory, a set-up when it
destroys the old heap or creates the first; the mapping shows the queue without
the key on its way out and with the one on its way in. A second set-up is
refused by A1 and replaces the heap in A2 (`SetUpAgain`).

**Programs** is a client: a sequence of calls with what the program expects of
each (`ReadWriteProgram` is `A1/userspace.c`, `IoctlProgram` is
`A2/userspace.c`), `at[p]` the call it is at, `printed[p]` the errors it has
printed. After a failed call it closes the device and ends (`After`), as
the code does. `crowd` is an observer: whether so far calls have only taken
turns, only closes have overlapped others, or more. **ProgramsA1** and
**ProgramsA2** compose the programs with the module: a step of a process is the
program's next call or the next step of the handler, and the answer goes to the
program in the step in which the handler returns.

**Disk** and **Sfs**: the disk is an array of blocks, a block an array of words.
SFS runs in one thread, so a call is one action.

| model | code |
|---|---|
| `block_arr`, `N`, `InDisk`, `WriteBlock` | the disk, its number of blocks, the bounds check of `read_block` and `write_block`, the copy of a block |
| `mem_diskptr`, `State`, `temp_block` | whether each pointer is set, and `STATE` |
| `bitmap_inode`, `bitmap_data` | the bits set in `mem_bitmap` |
| `ret` | the answer of the last call |
| `sb` | the super block that each call copies from block 0 |
| `retrieve_inode`, `write_inode` | the functions, with the stride of 8 bytes (two words) for inodes of 32 bytes and the block `iblock` that `write_inode` overlays |
| `EmptyBlocks`, `FirstFree` | `get_empty_blocks`: the block numbers it returns and the bits it sets |
| `Missing`, `Extended` | how many blocks a write asks for and where their numbers go: all to one direct pointer, or to the indirect block from its first entry on |
| `Slot`, `IntAt` | the byte of the indirect block at which the number of a block is looked up, and the (unaligned) number there: `read_i` steps by entries from entry `start_idx`, `write_i` by entries from *byte* `start_idx`, and `start_idx` is 5 after the direct blocks |
| `MayPass`, `MayStop`, `LoopEnds` | the test of `mem_bitmap.bitmap_data[*ptr]`, which takes the block number for the number of a byte. Behind the bitmap the byte may be anything, so the loop may stop or go on |
| `Copy`, `Written`, `Piece` | the two copy loops of `write_i`, the direct blocks and the indirect ones |
| `Format` .. `WriteI` | the functions of SFS; `Refused` and `BadOffset` are their early returns; `WriteBlockZero` is what `main.c` does to the disk before it formats it |

**FileStore** is what a program may expect: a sequence of words for each file;
a read gives the words last written; a write replaces them from its offset and
ends the file where the write ends (`node->size = offset + length`, SFS 726);
a write that fails may have changed words in its range, but not the size. A call
that goes beyond the direct blocks (`Sure` words) may stop short there; the count
it returns says where, and up to there the words are right.
`Sfs!ImplementsFileStore` maps each inode in use to the words its pointers lead
to and compares the answers of all calls.

A definition next to another one and called "a variant" is not part of the
specification: it is the neighbour with a plausible bug in it, kept to see
that the properties tell the two apart.

### How the races are modelled

A data race has the outcomes that the compiled code can produce. A step runs up
to the next call the compiler cannot see through (`printk`, `kmalloc`,
`kfree`, `copy_from_user`, `copy_to_user`, the mutex functions). What a handler
assigned to a global before such a call it loads again after it, because the
callee might have changed it; what it assigned and uses without such a call in
between is still in a register. So `dev_read` pops from the heap of the
entry it looked up (`OwnHeap`), while `dev_write` inserts into the heap of
whatever `entry` has become after the `printk` (`InsertTarget`). The kernel is
compiled with `-fno-strict-aliasing`, hence `PB2_EXTRACT` reads `entry` again
after `PopMin` has stored to the heap's array (`ExtractSize`).

Addresses are small numbers. `kmalloc` returns the least free one, so memory is
reused as early as it can be. Accesses to freed memory, through NULL or out of
an array's bounds are not followed: the process stays where it is (`Fault`,
`Stuck`), holding what it holds. So does one that walks a cyclic list
(`Spins`). Runs that let no such state be reached state it as `NoFault`; where
the races of the code make faults possible, the run's other properties speak of
what the processes that go on do.

### What is abstracted

* `buffer`, `buffer_len` and `args_set` (a write of two bytes sets it and
  tests it at once), `numberOpens` and the messages are left out.
* The lengths of a write are `write2`, `write4` and `write5`: two bytes, four, and any
  other in A1; in A2 `write4` is one of one, three or four bytes (they make
  the key) and `write5` one of more than four. A read asks for four bytes; one that
  asks for fewer gets the low bytes of the key and is otherwise the same.
* `copy_from_user` and `copy_to_user` can fail for the processes in `BadBuffers`.
  The write of a bad buffer, and a read or write with none, is refused
  before the lookup (`Rejected`, with nothing changed: `buffer` is left out). That the copy of a
  popped key will fail is chosen when the call begins, since no other
  process sees it: the answer of the call is then known when the key leaves the heap.
  `copy_from_user` clears what it did not copy: a `PB2_INSERT` of a bad buffer leaves 0
  in `num`, a `PB2_SET_TYPE` the size or 0, and the type 0, in `pb2_args`
  (`NumNotCopied`, `ArgsNotCopied`). A number of which only some bytes were
  copied is not in the model; the call that left it there is refused in any case.
* An `ioctl` of an unknown command returns `-EINVAL` at once and changes nothing; it is not a call
  of the model.
* `print_key` is one step with the unlock after it: it holds the mutex, so no
  list operation falls into it. The two `kfree`s of `DestroyHeap` are one step.
  `copy_from_user` into `pb2_args` and `copy_to_user` of `heap` are one step
  each. `count++` and the store of `last_inserted` are one step.
* An open file belongs to one process: a file inherited through `fork`, or used
  by two threads, is not modelled (the clients open the file after they fork).
* A block of the disk has `W` = 16 words instead of 1024, a word 16 bits instead
  of 32, and all sizes of SFS are in words instead of bytes. The layout follows
  from `W` and `NWords` by the code's formulas. 65535 plays -1.
* Memory is not followed beyond an object: `mount` reads a block into a shorter
  bitmap, `format` and `create_file` write a block from one. What comes from
  there is `JunkWord` (on the disk) or `JunkIds` (the rest of `block_ids` when
  the disk is full).
* Calls of SFS that leave the memory of an object are not made: `create_file`
  without a free inode; `mount` before the first `format`; `remove_file` of a file
  that ends in its fifth block (SFS 393 compares with a number below 0
  modulo 2^32 and the loop runs on behind the block); a write behind the direct
  blocks, shorter than a block, that does not fit into the block where it begins
  (`Overruns`: SFS 760 copies it whole, over the end of `temp_block`).
  The counters of DISK and `free_disk` are left out.
* `rmmod` happens when no file is open and no call is under way, which is up to
  the administrator: the module does not pin itself. `hello_init` and
  `hello_exit` are one step each, without calls in between.
* Keys are a handful of numbers. Sizes above `MaxHeapSize` stand for the sizes
  that the code refuses.

## 3. Runs

All runs of the kernel modules have two processes. `MayOverlap` says which pairs
of calls of *different* processes may be inside the module at the same time; with
it each run asks about one kind of overlap and nothing else. Runs whose calls
take turns also say what the module does for well-behaved clients.

| run | what it shows |
|---|---|
| `heap` | Heaps of capacity 1 to 5, both types, three keys: heap order between calls, at most the moving node out of order during one, the popped key is the extremum of the whole heap, recursion strictly ascends or descends, calls return, and the priority queue is implemented. |
| `a1_serial` | Processes that take turns, all calls of A1 and `rmmod`, up to two opens each: the list has exactly one entry per process that has the device open (`TableMatchesFiles`), every heap has exactly one owner (`HeapsAreOwned`), no faulty access (`NoFault`), nothing is left in memory when the module is removed although `DestroyHashTable` frees no heap (`NothingLeft`), and each process has a queue of its own (`ImplementsPrivateHeaps`). Process 1 may pass bad buffers, process 2 writes the key 1. |
| `a1_release` | A close that overlaps any call (and any other close), where everything else takes turns: an open process keeps its entry, heaps are never shared or lost, the list stays acyclic and ends in NULL, and every key goes to and comes from the process's own heap (`KeysStayApart`). |
| `a1_programs` | Two clients, one with `test_ass1.c`'s two rounds and one with two keys, in every overlap: the mutex is held exactly between trylock and unlock, each program ends unless a process has faulted or spins (`ProgramsEnd`); as long as calls take turns nobody prints an error (`ProgramsSucceed`); as long as only closes overlap nobody gets a wrong key (`ResultsMatch`). |
| `a2_serial` | Processes that take turns, one set up by ioctl and one by `dev_write`, all ioctl calls, `dev_write` of every length (two bytes are a set-up before there is a heap and a number after it), bad buffers and the key 0 of process 1, and `rmmod`: as for A1, but a set-up by ioctl replaces the heap, the `-EACCES` that `DestroyHeap` returns is never used as a pointer, and `PB2_GET_INFO` describes the whole heap of the caller, except for its type. |
| `a2_programs` | A client of A2's ioctl calls and one of its read and write; inserts, extractions, `PB2_GET_INFO` and closes overlap: the same three properties as in `a1_programs`, and a pop is from the heap of the process that pops, whatever happens to the globals (`PopsOwnHeap`). |
| `sfs_file` | All calls of `main.c` in any order, one file at a time that may grow over its five direct blocks and into the indirect block, be cut, removed and created again, on a disk that fills up (each extension takes a block, needed or not): what is read is what was written (`ImplementsFileStore`), no call on files touches the super block and the inode bitmap on the disk is the one in memory (`MetadataIntact`), no block of a file is free (`BlocksAreMarked`). |

The other five show what the code does against what the repository says of it;
each checks one property and TLC finds the shortest execution that breaks it.

| run | disagreement |
|---|---|
| `a1_results` | Two copies of `A1/userspace.c` whose writes and reads overlap: `dev_write` loads the globals `entry` and `num` again after a `printk`, `dev_read` passes its key through the global `topnode`; one program reads the other's key and prints `ERROR! Results Do Not Match` (`A1/userspace.c:126`). "Each process opening the `procfile` should have its own separate heap" (`src/README.md:7`). |
| `a1_lock_out` | `dev_release` gives up with `-EBUSY`, which the kernel ignores; the entry stays and the process is refused when it opens the device again. |
| `sfs_two_files` | `write_inode` overlays the inode on a copy of the super block, and inodes are 8 bytes apart: creating a second file overwrites the first one's inode ("logical size of the file", `sfs.h:18`). |
| `sfs_reuse` | One file, removed and created again: `create_file` keeps the old pointers, `remove_file` frees the bits of other blocks, and a write at a block boundary of the file goes through a stale pointer, here to the file's first block. |
| `sfs_large` | A write that begins in the fifth direct block and ends behind it: `write_i` takes bytes 5 to 8 of the indirect block for the number of the next block; they are 0 behind the one entry, and the data goes over the super block. |

The trace of `sfs_reuse` is fourteen calls long on the small disk. On a disk of
100 blocks as in `main.c` the data blocks begin at 12 instead of 4, so more
extensions are needed before `remove_file` clears the bit of a block in use.

What the models show and no run is devoted to. Of two overlapping
opens one node can be added twice and the other never, since `dev_open` sets
the global `entry` before it takes the mutex (`OpenAllocates`, `KeyAdd`): a
process that opened the device then has no entry, or `print_key` spins; in
`a1_programs` this is the `~ NoFault` of `ProgramsEnd`. An open that ends with
`-EBUSY` leaks its node. A lookup that stands on a node while `key_del` clears
its `next` misses the rest of the list (`Walk`), and the caller is refused with
`-EACCES`. Two set-ups that overlap work through one `entry`, so that one process can get
the other's heap. An overlapping `PB2_GET_INFO` can deliver the other process's
struct, and `PB2_EXTRACT` the size of the other's heap. These are behaviors of the code that break
the properties for calls in turns as soon as `MayOverlap` admits them; the properties of
`a1_programs` and `a2_programs` say what is still true then, and do not test for them.
On the file system a second mount, an extension of the indirect block by a second write, and the loops over the
indirect block (which `FileStore` lets stop short) are of the same kind.

### Numbers at the edges

The key 1 equals A1's `-INF` (the negative of the unsigned `0xffffffff`): it is
removed and then reported as the error of an empty heap (`ReadPops`,
`ReadReturns`). A2 takes the key 0 for an empty heap's answer in
`PB2_EXTRACT`, and the NULL of an empty heap for a key in `dev_read`. The runs of the
refinement have these keys: process 2 of `a1_serial` writes 1, process 1 of `a2_serial` inserts 0, and
`ReadLoses` is what becomes of them. A2's
`dev_write` passes the byte 0xFF or 0xF0 on to `CreateHeap`, which stores it
as it is, and every type but 0 is a max-heap: a request for a min-heap by
`write` gets a max-heap, so the second client of `a2_programs` asks for a
max-heap, and in `a2_serial` the refinement of PrivateHeaps, which knows both bytes,
holds because nobody writes 0xFF. `PB2_GET_INFO` reports the heap type of the last `PB2_SET_TYPE` of any
process; `InfoTellsHeap` leaves the type out. The runs of overlapping calls use keys from 2 on.

### Bounds

Capacity 5 gives a third level with a node that has one child (the boundary
case of both child tests); three keys give ties; `Junk` has a value below and
one above the keys. In the module runs two processes suffice for every race of
the list above, since each is between one handler and one other; three
`h_struct`s allow the leaked or stale node beside two entries; `MaxFiles` 2 in
`a1_serial` lets a process open the file twice, which is what `OpenTwice` is about;
`a1_release` and `a2_serial` have 1. Set-up sizes of A1 are the accepted
`MaxHeapSize` (2) and the refused `MaxHeapSize + 1`, or only 1 where the heap's shape
plays no part: what the heap does is the subject of `heap`. In `a2_serial` process 1
has a heap of two cells, so that both sifts run, and process 2 a heap of one; the
refused set-up is one of an unknown type; the key of the ioctl calls is also the number
that process 2's two bytes make, and process 1's two bytes make another. The programs have one key a round and two rounds, or two keys:
enough for a swap in the heap, for a second open after a close, and for each
handler to meet each other. Process 1 has the bad buffers of `A1Serial` and `A2Serial`
(`BadBuffers`); in the runs of overlapping calls all copies succeed. `A2Serial` has a
VIEW (`Live`) that leaves out the struct `heap` while no `PB2_GET_INFO` is using it: the next one
assigns each field before it reads it, and no property reads it elsewhere,
so that states that differ in it only have the same behaviors. `A1Serial` gives the processes different keys, as
`A1/userspace.c` does. No bound cuts an execution short: when an allocation of
a node is not possible the process faults, as the code does (`dev_open`
does not test what `kmalloc` returned), and an allocation of a heap gives NULL, which
the code stores.

`SfsFile` has a disk of twelve blocks of which eight hold data, and writes of
fourteen words, and one of 24, that follow on one another up to the end of the
direct blocks and one piece further: within a block, over a boundary, with two new
blocks at a time, rewriting and cutting the file at each of these places, and
on a full disk, where the indirect block or the next block cannot be had.
Neighbouring pieces have different words. With eight data blocks the piece in the
indirect block is both written and refused, and both read and cut short. The file
ends on a block boundary only where the indirect block begins (`SfsReuse` has the others), and no
call crosses from the direct blocks to the indirect block (`SfsLarge` has those). `SfsTwoFiles` is
a disk of eleven blocks with two files; `SfsReuse` has eight data blocks, and writes that
end on a boundary; `SfsLarge` has twelve, so that the disk is not full before the
sixth block.

### Fairness

`Heap!FairSpec` has weak fairness of a running sift, `PSpec` of ProgramsA1 and
ProgramsA2 weak fairness of each process (`Progress`): its next step inside the
module, or its program's next call. A thread keeps running: nothing
in the module blocks (the lock is only tried), the programs wait for nothing but
the answer to their calls, and the scheduler runs every
runnable thread. No fairness is assumed of the choice between processes beyond that.

## 4. Theorems

The constants are arbitrary: any set of positive pids, finite or not, any numbers of
h_structs, heaps and open files, any keys, sizes and types, and any `MayOverlap`
that the hypothesis of the theorem admits.

`HeapProofs`, about one heap, for every set of integer keys, of positive
capacities and of integer types:

| theorem | says |
|---|---|
| `TypeCorrect` | count, index and array stay in their ranges |
| `HeapOrderHolds` | between calls every node is in order with its parent |
| `SiftOrderHolds` | room for the sifted key, and only the moving node or its children out of order |
| `PopTakesTheExtremum` | a pop takes a key that no key of the heap precedes |
| `SiftsProgress` | the recursion goes strictly up or strictly down |
| `HeapImplementsPQ` | the heap implements `PriorityQueue`: `Spec => ImplementsPQ` |

`LkmA1Proofs` and `LkmA2Proofs`, about the modules with all their calls; the
names are preceded by `A1` and `A2`:

| theorem | hypothesis | says |
|---|---|---|
| `TypesHold` | none for A1, `SetUpsApart` for A2 | `TypeOK`, the contents of freed and reused nodes and heaps included |
| `MutexIsHeldInside` | none | `heap_mutex` is held by who is between trylock and unlock, and by nobody else |
| `WalksEnd` | `OpensOverlapCloses` | the list never becomes cyclic and never leads to freed memory |
| `FilesHaveEntries` | `OpensOverlapCloses` | who has the device open has an entry, whatever closes overlap or give up with `-EBUSY` |
| `PopsOwnHeap` | `UsesOverlap` | a pop is from the heap of the process that pops, and from no other's |
| `HeapsAreOwned` | `UsesOverlap`, no `rmmod` | every heap in memory has exactly one owner |
| `KeysStayApart` (A1) | `OnlyClosesOverlap` | a written key goes into the writer's heap, a read hands out what it popped |
| `TableMatchesFiles` (A2: with `HeapsAreOwned`) | `TakeTurns` | one entry for each process that has the device open, no h_struct leaked |
| `NothingLeft` | `TakeTurns` | removing the module frees everything |
| `NoFault` | `TakeTurns`, `NodesSuffice` | no handler uses freed memory, NULL, `-EACCES` or an index out of range, and no walk is endless |
| `InfoTellsHeap` (A2) | `TakeTurns` | `PB2_GET_INFO` gives size, last key and extremum of the caller's whole heap |
| `ImplementsPrivateHeaps` (A1) | `TakeTurns`, `HeapsSuffice`, `EmptyPop = MinusINF` | the module implements `PrivateHeaps`: each process has a priority queue of its own from its open to its close, every call has its effect at once and its right answer, and no refused call has an effect but the read of a key that is `MinusINF` or cannot be copied, which loses that key; for any keys and any `BadBuffers` |
| `ImplementsPrivateHeaps` (A2) | `TakeTurns`, `HeapsSuffice`, `TypesAsMeant`, no call of `dev_read`, `EmptyPop = 0` | the same of A2, where the key that marks an empty heap is 0, with set-ups that replace the queue, and with `PB2_INSERT`, `PB2_GET_INFO` and `PB2_EXTRACT` |

`SfsProofs`, about the file system, for every `W` of at least 9 and every disk that has one
block for each bitmap:

| theorem | hypothesis | says |
|---|---|---|
| `RegionsPartitionTheDisk` | none | super block, bitmaps, inodes and data blocks do not overlap and fill the disk |
| `MetadataStaysIntact` | `OneFile`, `WritesDirectBlocks`, `NumbersFitWords` | `Spec /\ [][~ RunsShort]_vars => []MetadataIntact`: as long as no write asks for more blocks than are free, whatever `malloc` leaves in `block_ids` |

### The hypotheses

Those of A1 and A2 restrict which calls of different processes are inside the module at the
same time, that is, the constant `MayOverlap`. They are assumptions of the theorems and
not of the modules, and each is what a run has:

| hypothesis | meaning | runs |
|---|---|---|
| none | any overlap | all |
| `OpensOverlapCloses` | an open overlaps with nothing but closes; all other calls overlap as they like | `a1_serial`, `a1_release`, `a2_serial`, `a2_programs` |
| `UsesOverlap` | closes overlap with everything, and reads, key writes, `PB2_INSERT`, `PB2_EXTRACT` and `PB2_GET_INFO` with each other | the same and `a1_results` |
| `OnlyClosesOverlap` | every overlap is one with a close | `a1_serial`, `a1_release` |
| `SetUpsApart` | no two set-ups overlap | the same as for `UsesOverlap` |
| `TakeTurns` | no two calls overlap: `MayOverlap = {}` | `a1_serial`, `a2_serial` |
| `NodesSuffice` | there is an h_struct for each of finitely many processes | `a1_serial`, `a2_serial` |
| `HeapsSuffice` | there is a heap for each of finitely many processes | `a1_serial`, `a2_serial` |
| `EmptyPop = MinusINF` | what the code does: `PopMin` of an empty heap returns `-INF`, which is 1 | `a1_serial` |
| `EmptyPop = 0` | A2's `PopMin` of an empty heap returns `NULL` | `a2_serial` |
| `"read" \notin Ops` | no process calls A2's `dev_read` | `a2_serial`, `a2_programs` |
| `TypesAsMeant` | nobody writes the type 0xFF, 0 or 1, or gives `PB2_SET_TYPE` 0xFF or 0xF0; all other types, known or not, may be asked for | `a2_serial` |

None can be dropped, because the code has the race. Two overlapping opens
share the global `entry`, so that one node is linked twice (the list becomes
cyclic) and the other never. Two set-ups share `heap_size` and `entry`, or, in A2,
`pb2_args`, so that a heap gets the type of an unchecked argument or two heaps the
same entry. A read that overlaps with another hands out the other's key (`a1_results`).
A close that overlaps with another call may leave an entry behind (`a1_lock_out`).
`rmmod` while such an entry is left loses its heap. `dev_open` does not
test what `kmalloc` returns: hence `NodesSuffice`. When `CreateHeap` finds no memory, `dev_write` still
reports success and there is no heap: hence `HeapsSuffice`. A2's `dev_read` does not test for an empty heap at
all: it answers the `NULL` of `PopMin` as the key 0. The byte 0xFF of a write passes the
test of `dev_write` (line 375), `CreateHeap` stores it as it is, and only 0 makes a min-heap for `insert` and `PopMin`:
the promise that 0xFF asks for a min-heap is not kept, hence `TypesAsMeant`. The other
three numbers are in it because `PrivateHeaps` has one `Types` for both calls: what one of them
refuses, the other accepts.

The hypotheses of `MetadataStaysIntact` say that the program has one file at a time
(`OneFile`; with two, `write_inode` copies the super block over the first inode, and its
words become block numbers), that each write ends within the five direct blocks and
that what the program writes to block 0 itself is not the magic number
(`WritesDirectBlocks`; behind them `write_i` takes an unaligned number or data of an earlier file
for a block number, as in `sfs_large`), and that -1, an unset pointer, is
not the number of a block (`NumbersFitWords`). They say nothing of `JunkIds`, the uninitialised
part of the array that `get_empty_blocks` returns when the disk has fewer free blocks than it was asked for (SFS 621-639):
the code uses it as block numbers, so that the data of a write on a full disk can go anywhere, and
with a 0 there over the super block. Hence the condition on the behavior: no step is a write
that runs short (`RunsShort`), of the blocks that the file needs or of the block for its first indirect block.
All calls are allowed, also a second format and a
second mount. The constants of `sfs_reuse` satisfy the hypotheses: the
theorem says that the stale pointers which that run finds, and which lead to blocks of other
use, never lead to metadata. `sfs_file` has in addition a piece in the indirect block and writes that run short,
with junk that is the number of no block, and only checks the property.

Assumptions on constants, which TLC evaluates in the runs: the four of `Heap`
(integer keys, types and empty answer, positive capacities); of `LkmDevice` that pids are
positive (the dummy node has key -1), the bounds natural numbers, and the error
that stands for a pointer no address of a heap; of `LkmA1` and `LkmA2` that the
arguments of calls are integers; of `Disk` and `Sfs` that a block has nine words at least (the
super block has nine) and that each bitmap fits into one.

### The argument

`HeapOpsProofs` has the facts about arrays that both `Heap` and the modules
need: a swap with the parent leaves at most the parent out of order (`SwapUp`), a
swap with the better child at most that child's children (`SwapDown`); the root
precedes *every* node, along the path of parents (`RootIsExtremum`); a swap keeps
the number of copies of each key, and a pop takes one (`SwapKeepsCount`,
`PopTakesOneCopy`). The same for the arrays of two sifts: `Rising` and `Sinking`
start, go on and end in an `Ordered` heap.

*Heap.* `HeapOrder` speaks of the moments between calls and is not
inductive. `HeapInv == TypeOK /\ HeapOrder /\ SiftOrder` is: in a sift up every
node but `idx` is in order with its parent *and* the children of `idx` are in
order with its parent; in a sift down every node whose parent is not `idx` is
in order and the children of `idx` are in order with its parent. The refinement adds
`HeldOK`, what a sift holds in `val` and `ret`, and `BagShape`: the abstract bag is
the counting of the array's cells, less the key on its way in. Every step of a sift is a
stutter of `PriorityQueue` (`CallsKeepBag`) and every return its insert or
its pop (`ReturnsTakeEffect`).

*Steps of both modules.* The proofs about the list are done once. `DeviceProofs`
defines `SharedNext`, what LkmA1 and LkmA2 do to the shared variables: a call begins
(`AnyCall`), a step of `dev_open` or `dev_release` (`TableStep`), one of a set-up
(`SetUpStep`), or one that leaves the list and the entries alone (`Plain`). That each
module's `Next` is such a step is its `NextIsShared`.
Types (`DeviceTypes`), the mutex (`MutexInv`: it has a holder only if that process
is between trylock and unlock, and there is none while the module is not loaded) and the facts about
lists (`IsList`: an injective path from `htable` to NULL; `ListAdds`, `ListDeletes`) are
proved there. `Walk` is defined with a recursive function, which `WalkOf`
connects to paths; induction over paths is on the least counterexample
(`SetInduction`).

*The list.* `WalksEnd` is not inductive. `TableInv` adds that the overlapping
calls are those allowed (`Apart`), which label a call can be at (`LabelsOK`), that the
node `dev_open` has put in `entry` is not linked yet and no other process changes `entry`
(`FreshEntry`), and that the node between unlinking and freeing is no longer
in the list (`Unlinked`). `FilesCounted` compares the files of a process with its
entries; it counts a file until its entry is linked or given up (`Held`).

*Heaps.* `OwnerInv` says what a handler relies on that took no mutex: the node
it found is linked and its own (`Walkers`), `entry` is still the caller's during a
set-up (`SetUpEntry`), entries point to heaps in memory except for the
one that is being replaced, two entries never to the same (`HeapPtrs`, `OneOwner`).
`Owned` adds that each heap has an entry; the heap of an unlinked node, and one
that a set-up has not stored yet, are the exceptions.
`GlobalsKept`, for `KeysStayApart`, says which of `entry`, `num` and `topnode` is still what the
handler left there.

*Turns.* `TurnsInv` makes the counts of files and entries equal and lists every
h_struct. `AloneInv` is for `NoFault`: a process has one entry at most
(`OneEntry`), a walk that went past its node has no node (`PassedOthers`), a handler
that uses a heap has its own in `entry` and in `loc` (`UsesOwnHeap`), and all heaps but
the one that is sifted are ordered, that one is `Rising` or `Sinking` (`HeapsWork`).
`AloneStep` is the common form of the steps of both modules for it; `StillGood` is what
a module's own globals must keep for it. `InfoHeld` follows the answer
of `PB2_GET_INFO` through `heap` to the caller.

*The promise.* `A1ImplementsPrivateHeaps` maps each state to the queues of `PrivateHeaps`: the heap
that a process's entry points to is its queue, the bag is the counting of the
cells that hold keys, with the one that is still rising (`QueueOf`, `Filled`).
`SerialInv`, the conjunction of `TableInv`, `OwnerInv` and `AloneInv`, makes this queue well
defined (`OwnQueueIs`). No step of one process changes the queue of another
(`OthersKeepQueues`), and the caller's own is changed only by the steps of
`ChangesQueue`, by one key more or less (`InsertGrows`, `PopShrinks`), by its end
(`CloseEndsQueue`) or by its creation (`StoreGivesQueue`); every swap of a sift keeps it (`OwnQueueStays`).
`A1Inv` is inductive: in addition to the invariants above it has `CallKept`,
what each label of a call knows of the arguments (the buffer of a read among them) and of the answer that is on its way through `topnode`,
and `KeysHeld`, that a process's heap holds keys of that process only. `EffectsRefine`
maps the steps that take effect, `RefusalsRefine` the refused calls, and `OthersStutter` shows
that all others change neither a queue nor the answer.
`A2ImplementsPrivateHeaps` rests on the same lemmas of `SerialProofs`. What A2 adds is the set-up that
replaces a heap: `PB2_SET_TYPE` destroys the old one, creates the new one and stores it, each in a step of its
own, and between them the entry holds `-EACCES`. The mapping shows the queue that will be made from the first of these steps on
(`QueueSeen`, `SetUpMoves`), and `A2Inv` has for it that the arguments in the buffers are
still the caller's and still the checked ones. `AnswersTold` says for each label which answer the call
has settled on.

*File system.* `MetadataIntact` speaks of a mounted disk. `SfsInv` adds what lies on the disk
between `format` and `mount` (the layout, or no magic number in block 0), that the inode in
use is the first, and that the pointers of that inode are numbers of data blocks or
of no block at all (`InodeOK`). A step keeps the last because
`get_empty_blocks` returns data blocks as long as there are as many as it was asked for (`EmptyBlocksAreData`), and the
copy loop writes only to where the pointers lead (`WrittenSpares`, by induction on the
loop). `BitsRead` says that `mount` reads the bits that were written.

### Only model-checked

* Liveness (`CallsReturn`, `ProgramsEnd`) and `ENABLED`: out of the prover's reach.
* `ProgramsSucceed` and `ResultsMatch` of the composed systems: their condition is
  `crowd`, so each step would need the invariants above relative to a prefix of the behavior and
  no longer to the constant `MayOverlap`.
* `ImplementsFileStore` and `BlocksAreMarked`: they hold for the calls of `sfs_file`, which never
  end a write on a block boundary of the file, and not for all constants (`sfs_reuse`). `TypeOK` of Sfs: a
  bound on the sum of powers of 2 that a bitmap's word is.
* The properties of the runs that expect a violation.

## 5. Not modelled, and the plan

Not modelled: the directories of SFS (incomplete in the source and called by
nothing), the kernel configuration files of Assignment 1 Part A (no program),
message texts, `test_ass2.c` as an instance of its own (its calls are those of
`IoctlProgram`, twice), the accesses of SFS behind the end of an object
(section 2), and bitmaps of more than one block (disks of more than 32768
inodes or data blocks; `main.c` makes 100).

What a failed `kmalloc_array` in `CreateHeap` does (NULL, with the struct leaked)
is modelled as the failure of the one allocation that a Heap is.

Modelled, with no run of its own: `format` of a disk in use (`"reformat"`) and
`mount` of a mounted one (`"remount"`), which loads a data bitmap that `write_i`
never wrote, so that `BlocksAreMarked` fails at once; block numbers that
`get_empty_blocks` leaves uninitialised and that are blocks of the disk (`JunkIds`).
