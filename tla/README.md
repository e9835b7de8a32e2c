# TinyFS in TLA+

A verification development of the TinyFS library (`libTinyFS.c` over `libDisk.c`
and `LL.c`) and its two test programs: a TLA+ model of the library at the grain
of one block write, of the disk at the grain of a byte and of the list at the
grain of a pointer, abstract specifications each of them implements, TLC runs on
small instances, and theorems checked by TLAPS.

## 1. The system

TinyFS keeps a file system of 256-byte blocks in one ordinary file,
`tinyFSDisk`. A client links the library, opens a file by name, gets a
descriptor, and writes, reads, seeks, renames, deletes and closes by descriptor.
There is one process and one thread; what lasts is the image file.

| component | state | operations | interacts with |
|---|---|---|---|
| **blocks, free list, files** (`libTinyFS.c`) | the image: superblock (free count, first free block), inodes, file blocks, free blocks, linked by `nextIdx` | `tfs_mkfs`/`tfs_mount`, `tfs_format`, `tfs_validate`, `freeBlocks`, `findByName`, `createFile`, `tfs_truncate`, and the `tfs_` calls below | libDisk, by `readBlock`/`writeBlock` |
| **file table** (`libTinyFS.c`) | `disk_fd`, `LL`, `currentFD` | `tfs_openFile`, `tfs_closeFile`, `tfs_writeFile`, `tfs_deleteFile`, `tfs_readByte`, `tfs_seek`, `tfs_rename`, `tfs_getTimeStamp`, `tfs_unmount` | LL, by `get`, `insert`, `pop`, `size`; the C library's `index` |
| **disk** (`libDisk.c`) | the image file | `openDisk`, `readBlock`, `writeBlock`, `closeDisk`, `diskExists`, `getDiskSize` | the operating system |
| **list** (`LL.c`) | nodes, head, tail, count | `init`, `insert`, `get`, `pop`, `popHead`, `popTail`, `indexLL`, `size`, `destroy` | - |
| **test** (`tinyFSTest.c`) | its locals | six tests of one file: open, write, read, seek, time stamp, close | libTinyFS |
| **disk test** (`diskTest.c`) | its locals | four disks, made and written, or found and verified | libDisk |
| earlier versions (`tinyFS_bak.c`, `tinyFS_bak.h`, `tinyFS2.h`, `disk_bak.h`) | - | not built; see section 6 | - |

### What is hard

* **A call is many block writes, and the process may be killed between any
  two.** The order of the writes in `freeBlocks`, `tfs_truncate`,
  `tfs_deleteFile` and `tfs_writeFile` decides whether a block is lost (harmless)
  or ends up in two places (not harmless).
* **Errors are taken for data.** Helpers return -3, -4, -13 or -19 and their
  callers compare with -1: a code becomes a block number, an inode index
  or a `disk_fd`. The tests never see it; a disk that fills up does.
* **`index` is not `indexLL`.** `libTinyFS.c` looks a descriptor up with
  `index(LL, FD)`. `LL.h` has no such function; `_GNU_SOURCE` and `<string.h>`
  declare `index(3)`, and the repository's executable imports it from the C
  library. It scans the bytes of the list's struct and in practice returns NULL,
  which is position 0: every call on a descriptor works on the oldest open file.
  The model takes the code at its word.
* **The free list is trusted.** `freeBlocks` checks a counter and follows links;
  block 0 is both the end of a chain and the superblock.
* **A call on the disk has no errors but -1, and its arithmetic is an `int`'s.**
  The image is made byte by byte, so a process that dies leaves a short one, and
  `openDisk` opens it the next time as if it were whole. The check of a block
  number multiplies before it compares.
* **`popHead` and `pop` leave `tail` behind.** The list works because its client
  destroys a list it has emptied.
* **The test programs are run again over what they left**, whole or not.
* **Names are looked up in two places**, the table and the disk, and a
  rename changes one of them.

What makes each part correct: the free list is a list of exactly the blocks the
superblock counts, erased; no block belongs to two files or to a file and the
free list, at any point a process may die; a file never shows the data of two
buffers; a call touches no other file; a write that reports success has stored
its buffer and a read returns the byte at the offset; every call returns; the
table and `disk_fd` agree between calls; a client that knows nothing of blocks
sees a store of named files. A disk is an array of blocks, a list is a sequence,
and a test program that says all went well is right. `PROJECT.json` lists each hazard at its
line with the properties that answer to it.

## 2. Modules

| module | what it is |
|---|---|
| `TinyFS` | `libTinyFS.c`: its state and every call, with the properties |
| `TinyFSClaims` | what comments and tests say of it and the code does not do |
| `FileStore`, `TinyFSStore` | what the library promises a client; the refinement mapping of `TinyFS` to it |
| `LibDisk`, `LibDiskClaims` | `libDisk.c`, byte by byte; what its comments say and it does not do |
| `BlockDevice` | what `libDisk.h` promises; the mapping is in `LibDisk` |
| `LinkedList` | `LL.c`, pointer by pointer |
| `ListSpec` | what `LL.h` promises; the mapping is in `LinkedList` |
| `TinyFSTest`, `TinyFSTestClaims` | `tinyFSTest.c` over `TinyFS`; what it prints and is not so |
| `DiskTest` | `diskTest.c` over `LibDisk` |
| `TinyFSOwners` | who owns each block of an image: the inductive invariant behind the free list and the files |
| `TinyFS_proofs` | theorems: types, calls and the table of open files |
| `TinyFSOwners_proofs`, `TinyFSSteps_proofs` | lemmas on chains and theorems on the free list and the files; theorems on what a step may do |
| `TinyFSStore_proofs`, `TinyFSTest_proofs` | theorems: the library implements the store; the test program over the library |
| `LinkedList_proofs`, `LibDisk_proofs`, `DiskTest_proofs` | theorems on the list, the disk and its test |
| `MC...` | definitions that give the constants their values for TLC |

```
 tinyFSTest.c  TinyFSTest                 diskTest.c  DiskTest
                   | EXTENDS                              | EXTENDS
 libTinyFS.c     TinyFS ---implements---> FileStore       |
                   . calls                                |
 libDisk.c, LL.c   .......  LibDisk <---------------------+
                            LibDisk ---implements---> BlockDevice
                            LinkedList ---implements---> ListSpec
```

`TinyFS` does not extend `LibDisk` and `LinkedList`: it uses what they are shown
to implement, an array of blocks and a sequence, and adds to the array what
`openDisk` may do besides (an image cut short, an image made anew).

### `TinyFS`: state

| variable | in the code |
|---|---|
| `disk`, `size` | the blocks of the image file; how many there are, -1 for no file |
| `LL` | the sequence of `FTE`s in the list, oldest first; `<<>>` for NULL |
| `diskFd` | `disk_fd`: none, the code of a failed mount, or an open image |
| `currentFD` | `currentFD` |
| `pc`, `loc` | the point the running call has reached, and its C locals |
| `ret` | what the last call returned, with the byte of `tfs_readByte` |

A list that is empty but allocated does not outlive a call that empties it
(`tfs_closeFile` destroys it), and `tfs_openFile` allocates it just before it
adds an entry, so `<<>>` stands for both. (`Lookup` after a mount is the one
point where it stands for the empty list.)

A block is its `type`, its `nextIdx` (0..255, as stored) and a `body`, kept by
view: superblock counters, an inode's name and size, the k-th chunk of a buffer,
or zeros. Where the code reads a block through another view (a wiped block as an
inode, file data as a name), the accessors `FreeCount`, `FirstFree`, `NameOf`,
`FileSize` and `ByteAt` say what it finds there, and the stores `SetSuper`,
`SetName` and `SetSize` what it leaves. File data is text: longer than a name and
without zero bytes. `magicNum` goes with the type: both are written together
everywhere but in `tfs_truncate` and `tfs_deleteFile`, where it is there already.

### `TinyFS`: actions and code

One action is one `writeBlock` with the computation around it, or one turn of a
loop of `readBlock`s, or a whole call that writes at most once.

| code | actions |
|---|---|
| `tfs_mkfs`, `tfs_mount`, `diskExists`, `openDisk` | `ClientMount`, `MountOpens`, `MountFails`, `CreateBlock`, `Validate`, `MountReturns` |
| `tfs_format` | `FormatSuper`, `FormatBlock`, `FormatEnd` |
| `tfs_openFile`, `findByName`, `createFile` | `OpenFile`, `Lookup`, `CreateInode`, `ListMissing` |
| `freeBlocks` | `TakeBlocks` (its checks), `AllocWalk`, `AllocSuper`, `AllocLast`, `GotBlocks` (its return) |
| `tfs_truncate` | first write in `WriteFile`, then `TruncBlock`, `TruncLast`, `TruncSuper`, `TruncBlockFails` |
| `tfs_writeFile` | `WriteFile`, `WriteAlloc`, `WriteInode`, `WriteData`, `WriteDataFails` |
| `tfs_deleteFile` | `DeleteFile`, `DeleteBlock`, `DeleteLast`, `DeleteSuper`, `DeleteBlockFails`, `DeleteFileDies` |
| `tfs_readByte` | `ReadByte`, `ReadWalk`, `ReadWalkFails` |
| `tfs_seek`, `tfs_rename`, `tfs_getTimeStamp`, `tfs_closeFile`, `tfs_unmount` | `Seek`, `Rename`, `GetTimeStamp`, `CloseFile`, `Unmount` |
| early returns | `Refused` |
| `index` finds the byte | `IndexHit` |
| the process is killed, or ends | `Crash` |

`MountOpens` has both ways a mount goes on: the image is there and is opened, or
`openDisk` makes it, over one that is there when `diskExists` failed for another
reason (`MountMayFail`). `CreateBlock` is one block of the creation, which a kill
or a failing write cuts short (`MountFails`); what is left is mounted by the next
process, whose calls then fail with codes that are not -1.

Between two writes of one call nothing else runs, so a read in the step of the
write it precedes is where the code has it. A killed process loses all but `disk`
and `size`; the next one starts from `disk_fd = -1` and an empty table.

### `FileStore` and `TinyFSStore`

The store has files (a name and a content), handles, the next descriptor, the
call that runs and its answer. Its files are the inodes with a name; the content
of one is the buffer its chain holds whole, `Blank` when it has none, `Torn`
otherwise; `StoreCall` reads the call that runs off `pc` and `loc`. Open, close,
seek, rename and read are one step of the store, a delete takes effect in one,
and a write leaves its file blank or torn until it returns. A file whose deletion
stopped half-way has no name and is not in the store, though its handle lives on;
naming it, or writing it once it is named, brings it back (`Revives`). Every step
of a call on blocks is one of these or a stutter. That calls on a descriptor serve the
oldest handle is kept in the store: it is what the library does.

### `LibDisk`

| state | in the code |
|---|---|
| `file`, `locked` | the bytes of each disk's file, and whether `open(2)` refuses it |
| `fds` | the process's open descriptors |
| `pc`, `loc` | `openDisk` in its loop that fills a new disk |
| `ret` | what the last call returned, and for what arguments |

`OpenDisk` (opening, or `O_CREAT` and `O_TRUNC`), `CreateByte`, `CreateFails`,
`CreateReturns`, `ReadBlock`, `WriteBlock`, `CloseDisk`, `DiskExists` and
`GetDiskSize` are the functions; `ProcessEnds`, `Delete` and `Chmod` the world.
`FirstByte` and `EndByte` are computed in an `int` that wraps at `IntRange`. The
blocks of a file, without one that is cut short at its end, are the
`BlockDevice`'s.

### `LinkedList`

`head`, `tail`, `count` and `made` are the struct, `mem` the nodes' data and
next, `live` the nodes that are allocated; `cur`, `prev`, `i` and `arg` the
locals. `malloc` may give any freed node again, so a pointer kept too long leads
into another element. `init`, `insert`, `size`, `empty`, `popHead` and the
beginnings of the others are one step; the loops of `get`, `indexLL`, `pop`,
`popTail` and `destroy` take a step a turn. A failed assertion (a negative position,
`NegativeAborts`), or a null pointer that is followed, ends the process. The client keeps two rules that
`libTinyFS.c` keeps: it asks for the size after a removal and destroys a list it
has emptied (`AfterRemoval`, `libTinyFS.c:218-221`), and it does not remove
the last of several elements by its position (`MayPop`; `libTinyFS.c` removes at
the position of `index(3)`, which is 0). The history variable `chain` is the
sequence the list stands for.

### `TinyFSTest` and `DiskTest`

Both run `main` again and again over what the last run left, and kill it at any
step. `TinyFSTest` makes the calls of `TinyFS` one after the other (`MakeCall`,
`LibraryRuns`, then `CallReturned`, or `ByteRead` and `ReadEnds` in the loops that
read) and `Report`s each test; it takes only -1 for a failure, as the code does.

`index(3)` may find any of the test program's descriptors, 1 to 6 (`Collisions`). It
scans the bytes of the list's head pointer and stops at the zero byte in them; that
pointer is set when `tfs_openFile` inserts the entry and stays as it is until the
entry is removed. So it finds a descriptor in the first call made on it or never,
and that call, in each of the six tests a write, a read, a seek or a time stamp,
follows the NULL of an entry that is not there or fails `get`'s assertion: the process
dies (`FirstCallHits`). A `tfs_closeFile` that pops nothing, and the next
`tfs_openFile` that is refused for it, would take a test that closes a descriptor
before it has used it; `TinyFS` has that step (`IndexHit`).

`DiskTest` opens each disk (`OpenTestDisk`); the blocks of one it finds are
verified (`VerifyTestBlock`), another is made (`MakeTestDisk`, `OpenDiskRuns`,
`TestDiskMade`) and written (`WriteTestBlock`). Disks may be deleted and change
their permissions between runs. History variables say what befell the images: `begun`
the disks whose making has begun and not ended, `spoilt` whether a mount of TinyFS's
image has failed or made it anew, or a process was killed while it filled the image
or linked its blocks (`MountSpoils`, `Making`).

### Mutations

Definitions marked "Mutation" are plausible slips in the definition they stand
beside (a loop one turn too long, a counter not stored). No action uses them. Put
in the place of that definition, each one makes the property it is paired with
in `PROJECT.json` fail, which shows the property depends on the code being right.

## 3. Properties and runs

| property | says |
|---|---|
| `TinyFS` | |
| `TypeOK` | every variable has its type |
| `FreeListSound` | the free list ends and has exactly the blocks the superblock counts |
| `FreeBlocksErased` | free blocks are typed so and hold nothing of their last file |
| `NoCrossLink` | no block is in two files, or in a file and the free list, at any step |
| `NoLeak` | between calls every block is free or in a file |
| `OwnersFound` | every block has an owner and its place in the owner's chain, at every `pc`, and the disk has room (`OwnersBut({})` and `RoomForFiles` of section 5, with witnesses) |
| `OneBuffer` | a file holds chunks of one buffer in order, or zeros, even half-written |
| `SuperblockKept` | the superblock is never overwritten with another kind of block |
| `OthersUntouched` | a call changes no block of a file it does not work on |
| `WriteStores` | a `tfs_writeFile` that returns 0 has stored all of its buffer |
| `ReadReturns` | a `tfs_readByte` of a whole file returns the byte at its offset |
| `TableOK` | descriptors ascend, no name is open twice, no image is open without a file |
| `CallOK` | a call returns to its caller and keeps its file until it does |
| `CallReturns` | every call returns (liveness) |
| `StoreInv` | what a call found out about the files at one step still holds at the later steps that rely on it: the file to be made has a mounted image, the name looked up is still missing, `tfs_writeFile`'s copy of the inode is still what is on disk; and a file half deleted has lost its name |
| `ImplementsStore` | every behaviour is one of `FileStore` (refinement) |
| `CallsHaveEffect` | the calls do what the store's calls of that name do, and do not merely answer |
| `LinkedList` | |
| `TypeOK`, `ListSound` | from `head`, `next` leads through the list and ends; `count` and `tail` agree with it |
| `NodesOwned` | exactly the list's nodes are allocated: no leak, no use after free |
| `WalkSound` | a walk is at the node its counter says |
| `ImplementsList` | every behaviour is one of `ListSpec` (refinement) |
| `WalksEnd` | every walk along the list ends |
| `LibDisk` | |
| `DiskTypeOK` | every variable has its type |
| `ImplementsBlockDevice` | every behaviour is one of `BlockDevice` (refinement) |
| `SizeKept` | only `openDisk` changes a disk's size |
| `OpenReturns` | `openDisk` returns, if the process lives |
| `DiskTest` | |
| `DisksWhole` | a disk is whole unless its making was cut short, whatever is done to the others |
| `SuccessIsTrue` | after a run that ends well every disk is whole |
| `FailureIsEarned` | a run fails only at a disk that was cut short or is refused |
| `FoundIsKept` | a disk that is found is not written: one cut short stays so |
| `TestEnds` | a run ends |
| `TinyFSTest` | |
| `TestsPass` | every test passes, in every run over every image a killed run left, unless it is `spoilt` (section 2) |
| `ReadFits` | the loops that read stop before the end of their buffer |
| `StringStored` | between calls the file holds the string whole, once it was written |
| `OneTestFile` | no run makes a second file of the name |
| `TestEnds` | a run ends |

Passing runs:

| run | bounds | checks |
|---|---|---|
| `Crash` | `TinyFSStore`: 4 blocks, 1 byte of data each, two names, buffers of one and two blocks, killed at every `pc` but in `tfs_format`'s loop; the disk fills up (`MayFail`) | `FreeListSound`, `FreeBlocksErased`, `NoCrossLink`, `OneBuffer`, `SuperblockKept`, `OthersUntouched`, `WriteStores`, `StoreInv`, `ImplementsStore` |
| `Roomy` | `TinyFSStore`: 10 blocks of 2 bytes, two names, buffers that fill their block and that do not, renames, seeks to the start and to the end of the shorter buffer, three opens: every file fits, and `MayFail` is off, so no step of the store that stands for an error is taken | `OwnersFound`, `NoLeak`, `ReadReturns`, `ImplementsStore`, `CallsHaveEffect`, `CallReturns` |
| `Table` | `TinyFS`: 4 blocks, two names, one of them also given by renames, aliased opens, mounts that fail or make the image anew, killed within `tfs_format`, client unmounts, two descriptors given out and a byte of the struct that may be taken for the second | `TypeOK`, `TableOK`, `CallOK` |
| `List` | three nodes, three data of which two compare equal, positions from -1 to one past the fullest list | `TypeOK`, `ListSound`, `NodesOwned`, `WalkSound`, `ImplementsList`, `WalksEnd` |
| `Disk` | two disks, two descriptors, blocks of 2 bytes, disks of 5 bytes (two blocks and a byte), block numbers -1 to 2, creation cut short, `int`s of 32 values | `DiskTypeOK`, `ImplementsBlockDevice`, `SizeKept`, `OpenReturns` |
| `DiskTest` | three disks of three blocks of 2 bytes, test blocks last, first, last | `TypeOK`, `DisksWhole`, `SuccessIsTrue`, `FailureIsEarned`, `FoundIsKept`, `TestEnds` |
| `Test` | a string of three bytes, 5 blocks of 5 bytes, any descriptor found by `index(3)`, mounts that fail or make the image anew, two kills at any step, the making of the image included | `TestTypeOK`, `TestsPass`, `ReadFits`, `StringStored`, `OneTestFile`, `TestEnds` |

`Crash` and `Roomy` check `TinyFS`'s own properties and those of the
refinement on one state space each, so that a property of blocks and the promise
to the client are shown of the same behaviours. `OwnersFound`
(`MCTinyFSOwners`) reads the witnesses of `OwnersBut({})` off the image, so that TLC
checks the invariant the proofs rest on, and that `Roomy` is a run that `NothingLost`
speaks of. On a disk that fills up `Placed` is false, as it should be: without that
conjunct and `RoomForFiles` the invariant was checked on `Crash`'s instance too, kills
included. That a call returns is checked without kills in `Roomy` and, with them,
by `TestEnds` of `Test`.

**Why these bounds are enough.** The free list, two files of one and two blocks
and an exhausted disk all meet on four or five blocks; the loops over chains are
taken zero, one and two times; a crash may come after every write; a read
crosses one block boundary. `MaxFD`, the descriptors one process gives out, lets
two files be open and one opened again. Three nodes are a first, a middle and a
last one, and a freed one comes back while others are in use. Two descriptors of
one disk and two disks are all that can disturb each other in `libDisk.c`, and
the block numbers lie below, at both ends of, and past the disk.
A kill of the test program costs the image at most one block, and `Test` has one
to spare for each of `MaxKills`; the program's disk of 40 blocks has more.

`Table` has two entries at a time: of two files, of one file twice, of no file, of
block 0 for an inode (`DeleteFileDies`). It has a state constraint: on a disk that was killed in mid-format, or made
anew under the entries of open files, a free block may have itself for a
successor, `tfs_deleteFile` may then turn for ever and counters grow, so
`MaxTurns` and `MaxFreeCount` bound them. Nor does it go on from a mount that left the
image short: `Test` does. The run checks safety only. Where a
property would fail because of a known disagreement (section 4), the other runs keep
the client away from it and say so: the empty buffer (`Buffers`), the aliased
open (`AliasedOpens`), the crash in mid-format (`CrashPoints`), the image made
anew (`MountMayFail`), the block number that wraps (`Indices` and `IntRange` of
`Disk`). `TestsPass` and `StringStored` are about images that were not `spoilt`: one
whose making was cut short is taken for a good one.

**What the runs do not claim.** `NoLeak` needs room: on a full disk
`tfs_writeFile` leaves the code 243 in an inode, and deleting that file returns
-3 with the inode lost. `WriteStores` says nothing of writes that fail: by then
the old contents are gone. With `MayFail` the store may answer anything on a
handle whose file could not be made, and promises only that no file changes.

**Fairness.** `WF_vars(Step)` (`TinyFS`), `WF_dvars(DiskStep)` (`LibDisk`), the
steps of the walks (`LinkedList`) and `WF(Main)` (the test programs): once called
or started, the code runs on; it has no lock and waits for nothing, and no other
thread can hold it up. Calls, starts, kills and what others do to the disks are
not fair: nothing makes them happen.

## 4. Disagreements of code and comments

Each is a violation run of one property of `TinyFSClaims` or `LibDiskClaims`.

| run | property | the text | what the code does |
|---|---|---|---|
| `ClaimClose` | `CloseRemovesItsFD` | `libTinyFS.c:216` "remove the fd and free data" | closes the oldest open file, whatever descriptor is passed |
| `ClaimCount` | `FreeCountBacked` | `:33` "check number of free blocks (must be >= numBlocks)" | an empty buffer takes a block that stays counted |
| `ClaimOpen` | `OpenFilesDistinct` | `:170` "file open" | a renamed open file is opened again |
| `ClaimMount` | `ExistingFSIsFormatted` | `:123` "check FS exists" | accepts a disk killed in mid-format |
| `ClaimIndex` | `IndexChecked` | `libDisk.c:56` "check that blockIdx is valid" | a block number whose byte position wraps to 0 passes, and block 0 is read; where only the end of the block wraps, to a negative number, it passes too, nothing is read and 0 is returned |

Four more have a property and a `.cfg` of the same kind, and are left out of the
runs of `PROJECT.json` because each comes with one of those above or follows from
the conventions of section 1:

| cfg (module) | property | the text | what the code does |
|---|---|---|---|
| `ClaimFormat` (`MCTinyFS`) | `FreeListEndsAtSuperblock` | `libTinyFS.c:738` "point end to superblock (0)" | never reached; the last block points past the end |
| `ClaimFull` (`MCTinyFS`) | `OpenGivesFile` | `tinyFSTest.c:26`, failure is -1 | a full disk gives a good descriptor for no file |
| `ClaimCreate` (`MCTinyFS`) | `MountKeepsFS` | `libTinyFS.c:117` "create the disk and open it" | makes the image over the one that is there when `diskExists` fails for another reason |
| `ClaimPassed` (`TinyFSTestClaims`) | `PassedStores` | `tinyFSTest.c:46` "Test 1: Passed" | printed on an image cut short, where nothing is stored |

`diskExists` also exchanges its codes: -1, beside the comment "exists"
(`libDisk.c:121`), is for a missing disk, and 0, beside "doesn't exist" (`:124`),
for one that is there and may not be opened. No caller tells them apart. And `tinyFSTest.c:215` announces a "write to seeked
location", which there is not: `tfs_writeFile` truncates the file and sets the offset
to 0. The test compares with the string as `tfs_writeFile` stores it, and passes.

## 5. What is proved

### `TinyFS_proofs`

For every number of blocks from 2 to 243, every block size,
every set of names, buffers, offsets and descriptors, every choice of crash
points (the assumptions are `SizesAssumption` and `ClientAssumption`):

* `TypeCorrect`: `Spec => []TypeOK`
* `CallsConsistent`: `Spec => []CallOK`
* `TableConsistent`: `Spec => []TableOK`

The argument. `TypeOK` alone is not inductive: a step in the middle of a call
reads `fte`, the head of the list, and its inode, and only an invariant on the
control says they are there. `CallOK` is that invariant, and `TypeOK /\ CallOK`
is inductive: one lemma per action (`...Type`), resting on lemmas on the
operators (`BlocksBuilt`, `FieldsRead`, `BlocksStored`, `GotBlocksLocals`, ...),
brought together in `TypeNext`. The model does not assume the disk is sound: the
proof covers damaged disks, aliased files and error codes used as numbers.

`TableOK` is not inductive either: `tfs_openFile` searches the list several steps
before it adds an entry, and opens the image before it has one. `TableInv` adds
that the name is still not open when `createFile` returns (`NoEntryYet`) and
that an open image without a file is about to get one (`OpenForEntry`); it is
inductive relative to `TypeOK /\ CallOK` (`TableNext`).

Why 243 blocks: an error code stored in `nextIdx` is 243 (-13) or 253 (-3), and
on a larger disk those are blocks. The program's disk has 40.

### `TinyFSOwners_proofs`

With the same constants, for a client and a world that are `Careful`:

* `OwnersKept`: `Spec => []OwnersInv`
* `FreeListKept`: `Spec => []FreeListSound`
* `FreeErased`: `Spec => []FreeBlocksErased`
* `FilesApart`: `Spec => []NoCrossLink`
* `BuffersUnmixed`: `Spec => []OneBuffer`, if there is a buffer to write
* `NothingLost`: `Spec /\ []RoomForFiles(n) => []NoLeak`, if no buffer takes more than
  `n` blocks and no kill comes while a call holds blocks of its own

`Careful` has four parts, and each keeps away from a disagreement of section 4
that breaks an image: `~MountMayFail` (`ClaimCreate`: the image made anew under
open files), `~AliasedOpens` (`ClaimOpen`: a file deleted through one entry and
used through the other), no crash in `formatBlock` (`ClaimMount`: a free list cut
short), no buffer of no bytes (`ClaimCount`: a block counted that is gone). A kill
at any other write, a disk that fills up, error codes in `nextIdx` and
in the entries of open files, renames and `index(3)` finding the byte are
all in the theorems.

The argument. None of the four invariants is inductive, since each speaks of
chains that a step changes in the middle, and none says what a call
half-way holds. `OwnersInv` says it: there are functions `o`, the owner of each
block, and `r`, the number of blocks to the end of the owner's chain, with which
the successor of a block is its owner's block of the next lower rank (`Linked`)
and no two blocks of an owner have the same rank (`Apart`). An owner is the free
list, a file, the running call (`Held`) or nobody: blocks a kill has cut off. The
rest of `Owned` says what the blocks of each owner contain and, at each `pc`, where
the walks of `freeBlocks` (`Taking`), `tfs_truncate` and `tfs_deleteFile`
(`Giving`) and `tfs_writeFile` (`Storing`) have got to. `EntriesApart` keeps two
entries from one inode and `MakingOK` follows the image through `tfs_format`.
An action then moves blocks between owners: `AllocSuper` from the free list to
the call, `WriteInode` from the call to the file, a kill from the call to nobody;
there is a lemma for each.

`NoLeak` needs more, since `OwnersInv` lets a block be nobody's. `OwnersBut(L)` adds
to it `Placed`: the blocks that are nobody's are all in `L` (`InUse`), a chain
ends with a terminator and not with an error code (`ChainsEnd`), a file is bare
or as long as some buffer (`ChainsFit`), no loop over a chain is over before
its time and what `tfs_truncate` gives back is as long as a buffer (`InHand`). For `L = Indices` this says nothing, and `OwnersBut(L)` is
`OwnersInv` (`AllLost`), so that one proof of each action serves both; for `L = {}`
it gives `NoLeak` (`NoneLost`). It is inductive as long as nothing is killed with
blocks in hand (`Settled`) and a write finds room (`RoomToWrite`). The
second is the arithmetic of the disk (`RoomFound`, `BlocksInUse`): the blocks of files
lie apart by owner and rank, so `Cardinality(Inodes)` files of `n` data blocks take
`n + 1` each, the file about to be written is bare and takes `n` fewer, and
what `RoomForFiles(n)` says is that then `n` are free. `RoomForFiles` is a hypothesis on the
behaviour and not on the constants, because the client decides how many files
there are: `tfs_rename` may give two files one name. Without it `NoLeak` is false
(section 3); that `Roomy` meets it is checked by `OwnersFound`.

The first part of the module turns owners back into chains. `Trail` and `Chain` are
recursive functions of the model; that they are defined on an owned block and
go through exactly its owner's blocks of lower rank is proved by induction in the
form of a least counterexample (`LeastNat`, from the well-foundedness of inclusion
on finite sets), since the provers cannot instantiate the library's induction
rules.

### `TinyFSSteps_proofs`

What a step may never do, from `OwnersInv` and the same hypothesis:

* `SuperblockSafe`: `Spec => SuperblockKept`
* `OthersSafe`: `Spec => OthersUntouched`
* `WritesWhole`: `Spec => WriteStores`

and with no hypothesis beyond the assumptions on the constants:

* `ReadsRight`: `Spec => ReadReturns`

The first two follow from what a step writes (`Wrote`): the superblock, which
keeps its type, blocks the call holds, or blocks of the file at the head of the
list. `WritesWhole` reads the last turn of `WriteData` off `Storing`: every data
block of the file is then the chunk of its rank. `ReadsRight` needs no owners: that
a file holds a buffer whole already says its chain has no repetition, and
`ReadInv` says that the walk is at the block of the chain its counter gives.

### `TinyFSStore_proofs`

The refinement, step by step, for a client and a world that are `Careful`:

* `StoreKnown`: `Spec => []StoreInv`
* `StoreImplemented`: `Spec => ImplementsStore`, if `MayFail` and no file is
  renamed to the empty name
* `CallsEffective`: `Spec => CallsHaveEffect`, if no file is renamed to the empty name

The empty name is how the code marks an inode that is no file, and `tfs_rename`
takes it without a word, so not passing it is up to the client. `MayFail` is
needed: on a disk of any size a call can run out of room. `CallsEffective` does not
need it, so that even then a call that has an effect has the one it promises.

The argument. A step on blocks is mapped with the invariants above (`TypeOK`,
`CallOK`, `OwnersInv`), `ReadInv` for the walk of a read, and `StoreInv`. The last
is what the refinement needs beside the blocks: the
call decides at one step and acts at another. There is a lemma for each action
(`StepMaps` brings them together). What is not at the surface of a step are
the contents: that a file's content is the same after a step elsewhere on the
disk (its trail is not touched, by `OwnersInv`), that one at work is blank or torn
until the last chunk and the buffer then, and that no file is two buffers at once.

The proof found three faults of the model that TLC's instances had not met. A
half-deleted file may come back, when its handle is used again under a name that
`tfs_rename` gave it: the store had no such step, and `Revives` is it. The arms of
the definition that reads the running call off `pc` overlapped, so TLC's
choice of the first was not the one the proof system makes. And
nothing kept `None` from being a call or a block. With the mended store,
renames of a half-deleted file were checked by TLC on `Crash`'s instance too.

### `TinyFSTest_proofs`

`tinyFSTest.c` over the library, for any string and buffers of the program that meet
`TestAssumption`, over every image an earlier run left, however often it was killed:

* `TestTypesCorrect`: `TestSpec => []TestTypeOK`
* `ReadsFit`: `TestSpec => []ReadFits`, in a world that is `Careful`
* `OneFileKept`: `TestSpec => []OneTestFile`, in a world that is `Careful`
* `StringsStored`: `TestSpec => []StringStored`, in a world that is `Careful`, if
  `RoomForKills`
* `TestsAllPass`: `TestSpec => []TestsPass`, under the same two hypotheses

`RoomForKills` is `NBlocks >= 2 + Longest * (MaxKills + 1)`, with `Longest` the
blocks of the string: a superblock, an inode, the string, and the string once more
for each kill. The program's disk of 40 blocks has it for 37 kills, since its string
takes one. On a smaller disk kills may use up the image and the tests then fail.
`Test` meets it with equality. That neither theorem speaks of an image that is
`spoilt` is in the properties themselves. There is no hypothesis on `Collisions`: a
run in which `index(3)` finds a descriptor dies at the first call on it (section 2)
and reports nothing.

The argument for the first three. `TestAt` says at each point of the program which descriptor and
which answer it has in hand. With it, each step of the program is a step of `TinyFS`
or a stutter (`TestSteps`), so the lemmas on `TinyFS`'s steps apply and `TypeOK`,
`CallOK`, `OwnersInv`, `ReadInv` and `StoreInv` hold of the library under the
program. The program never deletes or renames, so every open inode is a named
file and no name is there twice (`FilesOnce`; `NameStillNew` of `StoreInv` is what
keeps `createFile` from adding it again). A file's size is 0 or the string's
(`HeadSized`), and each turn of the loop stores one byte and moves the offset by
one (`BytesRead`), so a loop ends before its buffer does. `TestInv`, the conjunction, is
inductive; TLC checked its new parts on the instance of `Test` before they were
proved. In `Test` itself images are cut short and made anew; `ReadFits` and
`OneTestFile` hold there too, which only TLC shows.

The argument for the last two. They say that no call ever fails, and a call fails
when the image has no room for it. So they start from `OwnersBut(L)` with an `L` that
grows: a kill loses the blocks the call held, no more than `Longest` of them, and no
others (`KillOwners`; it is for this that `InHand` bounds what `tfs_truncate` gives
back), so after `kills` of them `L` has at most `kills * Longest` blocks (`Spared`,
`KillSpared`). There is one inode at most and it has the file's name (`AllNamed`,
`OneInode`), so what is left is enough for the string (`RoomLeft`, `SparedRoom`), a
write finds its blocks (`WriteRoom`) and `OwnersBut(L)` is kept (`SparedNext`). On it
stand four invariants of the program, each inductive with those before it:

* `Table`: from the end of `tfs_openFile` to `tfs_closeFile` there is exactly one entry
  in the list, of an inode of the mounted image, and the test has its descriptor or
  is about to get it; before and after there is none and nothing is mounted. So no
  call is turned away (`ServingCalls`, `ServingSteps`, `OpeningSteps`).
* `StoredNow`: from the first write on, the file holds the string but while it is
  written anew; the last chunk stores it whole (`StringWritten`), and opening a file
  that is there writes nothing (`OpenKeeps`).
* `OffsetAt` and `Reading`: the offset when a call has returned, and that a loop has
  so far read the string's first bytes in order (`ReadGives`, the lemma of
  `ReadReturns`), or is given a zero byte at once behind the end.
* `Counted`: `countTest` is the number of calls made, and no test has failed.

`WellInv` adds them, as long as the image is not `spoilt`, to `TestInv`; nothing sets
`spoilt` back, so it is inductive (`WellNext`). TLC checked these invariants too on
the instance of `Test` before they were proved.

### `LinkedList_proofs`

For any set of nodes, data, positions and keys (`ListAssumption`):

* `ListTypeCorrect`: `Spec => []TypeOK`
* `PointersSound`: `Spec => []ListSound`
* `NodesAccounted`: `Spec => []NodesOwned`
* `WalksCorrect`: `Spec => []WalkSound`
* `PointersImplementSequence`: `Spec => ImplementsList`, the refinement

The argument. `ListInv`, the conjunction of the four invariants, is inductive;
the parts need each other. That `next` leads along `chain` needs the chain to be
allocated and without repetition (`NodesOwned`), since a node `malloc` gives
again would otherwise cut it; both need a walk to be where its counter says
(`WalkSound`), since `pop` and `popTail` link around the node before. There is
one lemma per action, and lemmas on what an insertion, and a removal at the
head, inside and at the end, do to the chain. The refinement rests on `ListInv`:
each step is one of `ListSpec` on the sequence of the data along `chain`, or a
stutter (`RefNext`, from one `Ref` lemma per action). The client's two rules are guards of the model, so the
theorems are about lists used as `libTinyFS.c` uses them.

### `LibDisk_proofs`

For any disks, descriptors, block size and width of an `int` (`DiskAssumption`,
which also keeps `Closed` and `NoFile` apart from names, descriptors and files):

* `DiskTypeCorrect`: `DiskSpec => []DiskTypeOK`, whatever the arguments
* `SizesKept`: `DiskSpec => SizeKept`, if `IndicesFit`
* `DiskImplementsDevice`: `DiskSpec => ImplementsBlockDevice`, if `IndicesFit` and
  `SizesFit`, the refinement

`IndicesFit` is that the blocks a client names end below half of what an `int`
holds, and `SizesFit` that the disks it asks for do. Without the first `SizeKept`
and the refinement are false: it is what `ClaimIndex` shows. The program's numbers
meet both by far (40 blocks of 256 bytes in an `int` of 32 bits).

The argument. `DiskInv` adds to the types that a disk that is open is there
(`HeldInv`: nothing is deleted under a running process) and that, in the loop of
`openDisk`, the new file has as many zeros as the counter says and the descriptor
in hand is its (`MakingInv`). Under the two hypotheses no file reaches half of an
`int` either (`SmallInv`), so the sums `readBlock` and `writeBlock` compare do not
wrap (`BlockOffset`). The blocks of a file under a write of one block at its
offset, and under a byte appended to it, are lemmas on sequences; `RefNext` takes
each action to a step of `BlockDevice` or a stutter.

### `DiskTest_proofs`

For any number of disks, of blocks and of test blocks, over `DiskAssumption` and
`TestAssumption` (the names are all different, the test blocks lie on the disk
and there is one):

* `TestTypeCorrect`: `Spec => []TypeOK`
* `DisksStayWhole`: `Spec => []DisksWhole`, if `DisksFit`
* `SuccessTells`: `Spec => []SuccessIsTrue`, if `DisksFit`
* `FailureTells`: `Spec => []FailureIsEarned`, if `DisksFit` and `EnoughFDs`
* `FoundDisksKept`: `Spec => FoundIsKept`, if `DisksFit`

`DisksFit` is that a disk is smaller than half of what an `int` holds, `EnoughFDs`
that there is a descriptor for each disk: the program closes none before it ends.

The argument. `DisksWhole` is about disks nobody is making, `SuccessIsTrue` about
the end of a run; neither says what a disk looks like half-way. `TestInv` does:
a disk in the making is some zeros, or all of them and the first few test blocks
(`BegunInv`, `MadeInv`, `WriteInv`), a disk found has shown the test blocks up to
`index2` (`VerifyInv`), the disks before `index` are whole (`PassedInv`), the only
descriptors open are those the run has stored (`FdsInv`), and a failed run is at a
disk that deserves it (`FailInv`). For `SuccessTells` the two meet: a disk that
was cut short has nothing in it but zeros and some of the test blocks, so if every
test block shows when it is verified none is missing, and the disk is whole in the
bytes that are not read too. TLC checked `TestInv` on the instance of `DiskTest`
before it was proved.

### Only model-checked

* `TestsPass`, `StringStored`, `ReadFits` and `OneTestFile` in a world that is not
  `Careful`, that is with mounts that fail and kills within `tfs_format`'s loop, and
  `ImplementsStore` with `MayFail` off, where the room of `Roomy` is what makes
  every call succeed.
* `OwnersFound`: `OwnersBut({})` with the functions TLC computes; the theorems have
  the existential form.
* Every liveness property (`CallReturns`, `WalksEnd`, `OpenReturns`, `TestEnds`), which is out
  of the prover's reach.

## 6. Not modelled, and why

* Creation times: `time(NULL)` stored and returned, nothing depends on it.
* `read(2)` and `write(2)` that fail on a block that lies in the image, and a torn
  block write: the image is written in place and a 256-byte write is taken as
  atomic. Writes that fail while an image is made are modelled.
* `malloc` and `calloc` failing, but for those of `init` and `insert`, which
  `LinkedList` has.
* Two processes on one image at the same time.
* `tfs_mkfs`'s and `tfs_mount`'s arguments, which the code ignores, and the
  operating-system descriptor a client's own mount leaks.
* Images not made by the library, or larger than 243 blocks; the program's has
  40.
* Lists used against the two rules of section 2: `popHead` and `pop` then leave
  `tail` at a freed node, which the next `insert` writes to. No code does it.
* `tinyFSTest.c`'s unused locals; wording of messages and the tests
  of `libTinyFS.c:852-927`, which are commented out.
* `tinyFS_bak.c` with `tinyFS_bak.h`: an earlier file system that cannot be built
  (it includes `tinyFS.h`, which is missing, and calls `initLL`, `insertIntoLL`,
  `getLL` and `removeTailLL`, which no file defines), so what its calls do is not
  given by this source. Nor is its behaviour defined past `tfs_mkfs`, which writes
  256 bytes from the address of a pointer variable (`:218`) and frees the last
  inode (`:260`), which every `tfs_openFile` then reads (`:377`, `:389`).
* `tinyFS2.h` and `disk_bak.h`: headers nothing includes.

## 7. Plan

Done: the core of `TinyFS` with its runs, claims and first theorems; the store it
implements; `LL.c` with its refinement, checked and proved; `libDisk.c` with its
refinement, checked and proved; both test programs over the libraries they test;
the ownership invariant of `TinyFS` and the theorems that follow from it, that
nothing is lost among them; `DiskTest`; the refinement of `FileStore`; and of the
test program every invariant its run checks.

Left: nothing of the properties the runs check but what section 5 lists as only
model-checked.
