------------------------------- MODULE TinyFS -------------------------------
(***************************************************************************)
(* The TinyFS file system of libTinyFS.c over the emulated disk of         *)
(* libDisk.c and the open-file list of LL.c.                               *)
(*                                                                         *)
(* The library is single threaded: a client makes one call, the call runs  *)
(* to its return, the client makes the next.  What makes it hard is that   *)
(* a call is a sequence of 256-byte block writes to a file that outlives   *)
(* the process, so the grain of the model is one writeBlock (or one turn   *)
(* of a loop of readBlocks) per step, with pc the point the running call   *)
(* has reached, loc its C locals, and Crash possible between any two       *)
(* steps.                                                                  *)
(*                                                                         *)
(* Two facts of the build shape every action.                              *)
(*                                                                         *)
(*  - libTinyFS.c looks a descriptor up with index(LL, FD).  LL.h exports  *)
(*    indexLL, not index; _GNU_SOURCE and <string.h> declare the C         *)
(*    library's index(3), and that is what the objects link (the           *)
(*    repository's tinyFSTest imports index@GLIBC).  index(3) scans the    *)
(*    bytes of the LinkedList struct for the byte FD and stops at a zero   *)
(*    byte.  Finding none it returns NULL, fdIdx is 0, and the call works  *)
(*    on the HEAD of the list, whatever FD was passed.  Finding one it     *)
(*    returns a pointer, and fdIdx is its low half.                        *)
(*                                                                         *)
(*  - every helper reports failure by one of the codes of tinyFS_errno.h,  *)
(*    -2 and below, and its callers compare with -1: the code is used as   *)
(*    a block number or as an inode index.                                 *)
(*                                                                         *)
(* The contents of a block are kept by view (Body): the superblock's two   *)
(* counters, an inode's name and size, a chunk of a written buffer, or     *)
(* zeros.  A view can be read through another's field, as the casts of     *)
(* the C code do; names and file data are text of at least twelve bytes    *)
(* for that purpose.  Creation times are left out.                         *)
(***************************************************************************)
EXTENDS Integers, Sequences, FiniteSets

CONSTANTS
  NBlocks,      \* blocks of a disk image: DISK_SIZE / BLOCK_SIZE (40)
  DataSize,     \* MAX_DATA_SIZE, the data bytes of a block (252)
  Names,        \* file names a client passes
  EmptyName,    \* the name "" (eight zero bytes)
  TextName,     \* what file data looks like when read as a name
  Buffers,      \* buffers a client writes
  Length,       \* their strlen
  Offsets,      \* offsets a client seeks to
  NewNames,     \* names a client renames a file to
  Descriptors,  \* descriptors a client passes, valid or not
  MaxFD,        \* bound: descriptors one process hands out
  AliasedOpens, \* whether the client opens an open file by its new name
  Collisions,   \* descriptors whose byte may occur in the LinkedList struct
  CrashPoints,  \* values of pc at which the process may be killed
  MountMayFail, \* whether open(2) and write(2) may fail in a mount
  Nul, TextByte \* the byte '\0'; a byte of a name or a counter read as data

(***************************************************************************)
(* The sizes as the program has them, small enough that a block number     *)
(* fits nextIdx and that an error code stored there (243 or 253) is not a  *)
(* block of the disk.  The program's image has 40 blocks.                  *)
(***************************************************************************)
ASSUME SizesAssumption ==
  /\ NBlocks \in 2..243
  /\ DataSize \in Nat \ {0}
  /\ MaxFD \in Nat

ASSUME ClientAssumption ==
  /\ Length \in [Buffers -> Nat]
  /\ Offsets \subseteq Nat
  /\ Descriptors \subseteq Int
  /\ Collisions \subseteq Nat
  /\ MountMayFail \in BOOLEAN
  /\ AliasedOpens \in BOOLEAN
  /\ EmptyName \notin Names
  /\ TextName \notin Names \cup NewNames \cup {EmptyName}
  /\ Nul # TextByte
  /\ Nul \notin Buffers \X Nat

-----------------------------------------------------------------------------
(* tinyFS_errno.h *)

TFS_ERROR_DISK_READ         == -3
TFS_ERROR_DISK_OPEN         == -4
TFS_ERROR_DISK_WRITE        == -6
TFS_ERROR_INVALID_FD        == -7
TFS_ERROR_INVALID_PARAMETER == -13
TFS_ERROR_BAD_ALLOC         == -15
TFS_ERROR_VALIDATE          == -19

(* libTinyFS.h, enum Blocks; 0 is the type of a block never written. *)
sb    == 1
inode == 2
FEB   == 3
FB    == 4

(* The values of disk_fd: none, a mount that failed, an open image. *)
NotMounted  == -1
MountFailed == TFS_ERROR_DISK_OPEN
Mounted     == 0

PCs == { "idle", "mount", "create", "validate", "format", "formatBlock",
         "formatEnd", "lookup", "allocWalk", "allocSuper", "allocLast",
         "createInode", "truncBlock", "truncLast", "truncSuper",
         "writeAlloc", "writeInode", "writeData", "deleteBlock",
         "deleteLast", "deleteSuper", "readWalk" }

(* Who called tfs_mount / tfs_mkfs, or freeBlocks, and goes on after it. *)
Callers == { "none", "client", "tfs_openFile", "createFile",
             "tfs_writeFile" }

-----------------------------------------------------------------------------
(* Blocks *)

Bytes == (Buffers \X Nat) \cup {Nul, TextByte}

ZeroBody          == [kind |-> "zero"]
SuperBody(fc, ff) == [kind |-> "super", freeCount |-> fc, firstFree |-> ff]
DataBody(b, i)    == [kind |-> "data", buf |-> b, chunk |-> i]
InodeBody(n, s)   == IF n = EmptyName /\ s = 0
                       THEN ZeroBody
                       ELSE [kind |-> "inode", name |-> n, size |-> s]

AllNames == Names \cup NewNames \cup {EmptyName, TextName}

Body ==
  {ZeroBody}
    \cup [kind : {"super"}, freeCount : Int, firstFree : Int]
    \cup [kind : {"data"}, buf : Buffers, chunk : Nat]
    \cup [kind : {"inode"}, name : AllNames, size : Nat]

Block == [type : 0..4, nextIdx : 0..255, body : Body]

RawBlock == [type |-> 0, nextIdx |-> 0, body |-> ZeroBody]

(* 0x20202020, the least word of printable text read as a uint32_t. *)
TextWord == 538976288

(* Superblock and Inode fields of whatever the block holds. *)
FreeCount(b) == CASE b.body.kind = "super" -> b.body.freeCount
                  [] b.body.kind = "zero"  -> 0
                  [] OTHER                 -> TextWord

FirstFree(b) == CASE b.body.kind = "super" -> b.body.firstFree
                  [] b.body.kind = "zero"  -> 0
                  [] OTHER                 -> TextWord

NameOf(b) == CASE b.body.kind = "inode" -> b.body.name
               [] b.body.kind = "zero"  -> EmptyName
               [] OTHER                 -> TextName

FileSize(b) == CASE b.body.kind = "inode" -> b.body.size
                 [] b.body.kind = "data"  -> TextWord
                 [] OTHER                 -> 0

(* Byte j of the data area; strncpy padded the last chunk with zeros. *)
ByteAt(b, j) ==
  CASE b.body.kind = "zero" -> Nul
    [] b.body.kind = "data" ->
         LET k == b.body.chunk * DataSize + j
         IN  IF k < Length[b.body.buf] THEN <<b.body.buf, k>> ELSE Nul
    [] OTHER -> TextByte

(* Mutation: the number kept whole. *)
ToIdxWide(x) == x

(* The uint8_t a number becomes when it is stored in nextIdx. *)
ToIdx(x) == x % 256

(* ceil((double)bytes / MAX_DATA_SIZE) *)
BlocksFor(bytes) == (bytes + DataSize - 1) \div DataSize

(* Stores through a Superblock or an Inode pointer. *)
SetSuper(b, fc, ff) == [b EXCEPT !.body = SuperBody(fc, ff)]

SetName(b, n) == [b EXCEPT !.body = InodeBody(n, FileSize(b))]

SetSize(b, s) == [b EXCEPT !.body = IF b.body.kind = "super"
                                      THEN b.body ELSE InodeBody(NameOf(b), s)]

(* Mutation: the data is left in the block. *)
ErasedTypeOnly(b) == [b EXCEPT !.type = FB]

Erased(b) == [type |-> FB, nextIdx |-> b.nextIdx, body |-> ZeroBody]

-----------------------------------------------------------------------------
VARIABLES
  disk,       \* the blocks of the image file
  size,       \* blocks the image file has; -1 when there is none
  LL,         \* the open files, oldest first; <<>> when LL is NULL
  diskFd,     \* disk_fd
  currentFD,  \* the next descriptor
  pc,         \* where the running call is; "idle" between calls
  loc,        \* the locals of the running call
  ret         \* what the last call returned, and its byte if it read one

storage == <<disk, size>>
session == <<LL, diskFd, currentFD>>
vars == <<disk, size, LL, diskFd, currentFD, pc, loc, ret>>

Indices == 0..(NBlocks - 1)

FTE == [fd : Nat, inodeIdx : Int, offset : Nat, fileName : AllNames]

NoBuffer == "none"

(* name, buf: arguments.  cur: the block the loop is about to read, last:  *)
(* the one it read before, first: where it began, count and want: turns    *)
(* made and wanted; blk, inb: blocks held in memory.                       *)
NoCall == [then |-> "none", name |-> EmptyName, buf |-> NoBuffer,
           cur |-> 0, last |-> 0, first |-> 0, count |-> 0, want |-> 0,
           blk |-> RawBlock, inb |-> RawBlock]

Locals == [then : Callers, name : AllNames, buf : Buffers \cup {NoBuffer},
           cur : Int, last : Int, first : Int, count : Nat, want : Nat,
           blk : Block, inb : Block]

NoRet == [code |-> 0, byte |-> Nul]

(* Every variable has its type. *)
TypeOK ==
  /\ disk \in [Indices -> Block]
  /\ size \in -1..NBlocks
  /\ LL \in Seq(FTE)
  /\ diskFd \in {NotMounted, MountFailed, Mounted}
  /\ currentFD \in 1..(MaxFD + 1)
  /\ pc \in PCs
  /\ loc \in Locals
  /\ ret \in [code : Int, byte : Bytes]

(* The first process to run finds no image file. *)
Init ==
  /\ disk = [i \in Indices |-> RawBlock]
  /\ size = -1
  /\ LL = <<>>
  /\ diskFd = NotMounted
  /\ currentFD = 1
  /\ pc = "idle"
  /\ loc = NoCall
  /\ ret = NoRet

-----------------------------------------------------------------------------
(* The shape of a call *)

(* readBlock and writeBlock succeed on block i of the mounted image. *)
Readable(i) == diskFd = Mounted /\ 0 <= i /\ i < size

Call(p, l) == pc' = p /\ loc' = l /\ ret' = NoRet

Goto(p, l) == pc' = p /\ loc' = l /\ UNCHANGED ret

ReturnByte(c, b) ==
  pc' = "idle" /\ loc' = NoCall /\ ret' = [code |-> c, byte |-> b]

Return(c) == ReturnByte(c, Nul)

(* writeBlock *)
WriteBlock(i, b) == disk' = [disk EXCEPT ![i] = b] /\ UNCHANGED size

(* The process ends, by itself or on a failed assertion or a bad pointer:  *)
(* everything but the image file is lost.                                  *)
Die ==
  /\ LL' = <<>>
  /\ diskFd' = NotMounted
  /\ currentFD' = 1
  /\ pc' = "idle"
  /\ loc' = NoCall
  /\ ret' = NoRet
  /\ UNCHANGED storage

(* index(3) on the bytes of the LinkedList struct.  A zero byte is always  *)
(* found, one of the Collisions may be.                                    *)
IndexMayMiss(FD) == FD % 256 # 0
IndexMayHit(FD)  == FD % 256 = 0 \/ FD \in Collisions

(* A call on descriptor FD that passes its early returns and, index having *)
(* found nothing, goes on with fte, the head of the list.                  *)
Served(FD) ==
  /\ pc = "idle"
  /\ FD >= 0
  /\ diskFd # NotMounted
  /\ LL # <<>>
  /\ IndexMayMiss(FD)

fte == Head(LL)

SetOffset(o) == LL' = [LL EXCEPT ![1].offset = o]

-----------------------------------------------------------------------------
(* tfs_mkfs and tfs_mount *)

(* Their bodies are the same.  A client's call keeps the descriptor of the *)
(* image to itself, disk_fd does not change.                               *)
ClientMount ==
  /\ pc = "idle"
  /\ Call("mount", [NoCall EXCEPT !.then = "client"])
  /\ UNCHANGED <<storage, session>>

(* tfs_mount returns fd to whoever called it; tfs_openFile puts it in      *)
(* disk_fd and goes on unless it is -1, which no error code is.            *)
MountReturns(fd) ==
  /\ UNCHANGED <<LL, currentFD>>
  /\ IF loc.then = "tfs_openFile"
       THEN diskFd' = fd /\ Goto("lookup", [loc EXCEPT !.cur = 0])
       ELSE UNCHANGED diskFd /\ Return(fd)

(* diskExists and openDisk: the image is opened, or created empty.  It is  *)
(* also created, and what it holds thrown away, if open(2) fails in        *)
(* diskExists (no descriptor or memory to be had just then) and not again. *)
MountOpens ==
  /\ pc = "mount"
  /\ \/ size >= 0 /\ Goto("validate", loc) /\ UNCHANGED size
     \/ (size = -1 \/ MountMayFail) /\ Goto("create", loc) /\ size' = 0
  /\ UNCHANGED <<disk, session>>

(* The image cannot be opened; or it cannot be filled to its length, and   *)
(* then what there is of it stays.                                         *)
MountFails ==
  /\ pc \in {"mount", "create"}
  /\ MountMayFail
  /\ MountReturns(TFS_ERROR_DISK_OPEN)
  /\ UNCHANGED storage

(* openDisk writes the new image byte by byte: one block of it.            *)
CreateBlock ==
  /\ pc = "create"
  /\ size' = size + 1
  /\ disk' = [disk EXCEPT ![size] = RawBlock]
  /\ Goto(IF size + 1 < NBlocks THEN "create" ELSE "validate", loc)
  /\ UNCHANGED session

(* tfs_validate; a superblock that cannot be read is a code, not 0 or -1,  *)
(* and is taken for a valid one.                                           *)
HasSuperblock == size >= 1 /\ disk[0].type = sb

Validate ==
  /\ pc = "validate"
  /\ UNCHANGED storage
  /\ IF size = 0 \/ HasSuperblock
       THEN MountReturns(Mounted)
       ELSE Goto("format", loc) /\ UNCHANGED session

(* tfs_format, the superblock: all blocks but itself free, 1 the first.    *)
FormatSuper ==
  /\ pc = "format"
  /\ WriteBlock(0, [type |-> sb, nextIdx |-> 0,
                    body |-> SuperBody(size - 1, 1)])
  /\ Goto(IF size = 1 THEN "formatEnd" ELSE "formatBlock",
          [loc EXCEPT !.cur = 1])
  /\ UNCHANGED session

(* Mutation: the loop does not step. *)
FormatBlockNoStep ==
  /\ pc = "formatBlock"
  /\ IF loc.cur < size
       THEN /\ WriteBlock(loc.cur, [type |-> FB, nextIdx |-> ToIdx(loc.cur + 1),
                                    body |-> ZeroBody])
            /\ Goto("formatBlock", loc)
            /\ UNCHANGED session
       ELSE MountReturns(Mounted) /\ UNCHANGED storage

(* Its loop, whose condition is a constant: it ends when block i is not on *)
(* the disk any more and writeBlock fails.                                 *)
FormatBlock ==
  /\ pc = "formatBlock"
  /\ IF loc.cur < size
       THEN /\ WriteBlock(loc.cur, [type |-> FB, nextIdx |-> ToIdx(loc.cur + 1),
                                    body |-> ZeroBody])
            /\ Goto("formatBlock", [loc EXCEPT !.cur = @ + 1])
            /\ UNCHANGED session
       ELSE MountReturns(Mounted) /\ UNCHANGED storage

(* After the loop, reached when there is no free block: the cleared super- *)
(* block is written once more.                                             *)
FormatEnd ==
  /\ pc = "formatEnd"
  /\ WriteBlock(0, [type |-> sb, nextIdx |-> 0, body |-> SuperBody(0, 0)])
  /\ MountReturns(Mounted)

(* tfs_unmount; closeDisk refuses an error code. *)
Unmount ==
  /\ pc = "idle"
  /\ IF diskFd = Mounted
       THEN diskFd' = NotMounted /\ Return(0)
       ELSE UNCHANGED diskFd /\ Return(TFS_ERROR_DISK_OPEN)
  /\ UNCHANGED <<storage, LL, currentFD>>

-----------------------------------------------------------------------------
(* freeBlocks *)

(* The caller goes on with r, a block number or an error code.  In         *)
(* createFile a code is no block either and writeBlock refuses it.         *)
GotBlocks(r, l) ==
  Goto(IF l.then = "createFile" THEN "createInode" ELSE "writeInode",
       [l EXCEPT !.cur = r, !.last = 0, !.first = 0, !.count = 0,
                 !.blk = RawBlock])

(* The free count is checked and the list entered.                         *)
TakeBlocks(n, l) ==
  IF FreeCount(disk[0]) < n
    THEN GotBlocks(TFS_ERROR_INVALID_PARAMETER, [l EXCEPT !.want = n])
    ELSE Goto("allocWalk", [l EXCEPT !.cur = FirstFree(disk[0]),
                                     !.first = FirstFree(disk[0]),
                                     !.count = 0, !.want = n])

(* One turn of the loop over the free list; it makes one for n = 0 too.    *)
AllocWalk ==
  /\ pc = "allocWalk"
  /\ UNCHANGED <<storage, session>>
  /\ IF Readable(loc.cur)
       THEN LET b == disk[loc.cur]
            IN  Goto(IF loc.count + 1 < loc.want
                       THEN "allocWalk" ELSE "allocSuper",
                     [loc EXCEPT !.blk = b, !.last = loc.cur,
                                 !.cur = b.nextIdx, !.count = @ + 1])
       ELSE GotBlocks(TFS_ERROR_DISK_READ, loc)

(* Mutation: the list still begins at the first block taken. *)
AllocSuperOldHead ==
  /\ pc = "allocSuper"
  /\ WriteBlock(0, SetSuper(disk[0], FreeCount(disk[0]) - loc.want, loc.first))
  /\ Goto("allocLast", loc)
  /\ UNCHANGED session

AllocSuper ==
  /\ pc = "allocSuper"
  /\ WriteBlock(0, SetSuper(disk[0], FreeCount(disk[0]) - loc.want, loc.cur))
  /\ Goto("allocLast", loc)
  /\ UNCHANGED session

(* Mutation: the last block taken keeps its successor. *)
AllocLastNoEnd ==
  /\ pc = "allocLast"
  /\ WriteBlock(loc.last, loc.blk)
  /\ GotBlocks(loc.first, loc)
  /\ UNCHANGED session

(* The last block taken ends the chain. *)
AllocLast ==
  /\ pc = "allocLast"
  /\ WriteBlock(loc.last, [loc.blk EXCEPT !.nextIdx = 0])
  /\ GotBlocks(loc.first, loc)
  /\ UNCHANGED session

-----------------------------------------------------------------------------
(* tfs_openFile, findByName, createFile *)

(* Mutation: the search begins one block late. *)
HitsFromTwo(n) == {i \in 2..(size - 1) : disk[i].type = inode /\ NameOf(disk[i]) = n}

Hits(n) == {i \in 1..(size - 1) : disk[i].type = inode /\ NameOf(disk[i]) = n}

(* Mutation: the search begins one block too far. *)
FindByNameFromTwo(n) ==
  LET H == Hits(n) \ {1}
  IN  IF H = {} THEN 0 ELSE CHOOSE i \in H : \A j \in H : i <= j

(* findByName when it gets to its loop: the lowest inode of that name, or 0. *)
FindByName(n) ==
  IF Hits(n) = {} THEN 0 ELSE CHOOSE i \in Hits(n) : \A j \in Hits(n) : i <= j

(* Mutation: the names the open files have on disk are compared. *)
IsOpenOnDisk(n) ==
  \E k \in DOMAIN LL : Readable(LL[k].inodeIdx) /\ NameOf(disk[LL[k].inodeIdx]) = n

IsOpen(n) == \E k \in DOMAIN LL : LL[k].fileName = n

(* The client's restraint: see AliasedOpens.  The library looks only at    *)
(* the names in the list, which a rename leaves as they were.              *)
MayOpen(n) ==
  AliasedOpens \/ \A k \in DOMAIN LL : LL[k].inodeIdx # FindByName(n)

OpenFile(n) ==
  /\ pc = "idle"
  /\ currentFD <= MaxFD
  /\ MayOpen(n)
  /\ LET l == [NoCall EXCEPT !.then = "tfs_openFile", !.name = n]
     IN  \/ diskFd = NotMounted /\ Call("mount", l)
         \/ /\ diskFd # NotMounted
            /\ LL # <<>>
            /\ Call("lookup", l)
  /\ UNCHANGED <<storage, session>>

(* disk_fd keeps the code of a failed mount when the last file is closed,  *)
(* and LL is NULL: in the next tfs_openFile size(LL) fails its assertion,  *)
(* in a call on a descriptor index reads through NULL.                     *)
ListMissing ==
  /\ pc = "idle"
  /\ diskFd # NotMounted
  /\ LL = <<>>
  /\ Die

(* A table entry for whatever findByName or createFile returned.           *)
Opened(idx) ==
  /\ LL' = Append(LL, [fd |-> currentFD, inodeIdx |-> idx, offset |-> 0,
                       fileName |-> loc.name])
  /\ currentFD' = currentFD + 1
  /\ Return(currentFD)
  /\ UNCHANGED diskFd

Lookup ==
  /\ pc = "lookup"
  /\ UNCHANGED storage
  /\ IF IsOpen(loc.name)
       THEN Return(TFS_ERROR_BAD_ALLOC) /\ UNCHANGED session
     ELSE IF diskFd # Mounted \/ ~HasSuperblock
       THEN Opened(TFS_ERROR_VALIDATE)
     ELSE IF FindByName(loc.name) # 0
       THEN Opened(FindByName(loc.name))
     ELSE IF FreeCount(disk[0]) < 2
       THEN Opened(TFS_ERROR_INVALID_PARAMETER)
     ELSE TakeBlocks(1, [loc EXCEPT !.then = "createFile"]) /\ UNCHANGED session

CreateInode ==
  /\ pc = "createInode"
  /\ IF Readable(loc.cur)
       THEN /\ WriteBlock(loc.cur, [type |-> inode, nextIdx |-> 0,
                                    body |-> InodeBody(loc.name, 0)])
            /\ Opened(loc.cur)
       ELSE UNCHANGED storage /\ Opened(TFS_ERROR_DISK_WRITE)

-----------------------------------------------------------------------------
(* Giving blocks back: tfs_truncate and tfs_deleteFile *)

(* Mutation: the end of the chain is seen one block late. *)
FreeOneTooFar(p, end) ==
  /\ WriteBlock(loc.cur, Erased(disk[loc.cur]))
  /\ Goto(IF loc.cur = 0 THEN end ELSE p,
          [loc EXCEPT !.last = loc.cur, !.cur = disk[loc.cur].nextIdx,
                      !.count = @ + 1])
  /\ UNCHANGED session

(* One turn of their loop at pc p: the block is wiped and its successor    *)
(* kept; "then" at the end of the chain.                                   *)
FreeOne(p, end) ==
  /\ WriteBlock(loc.cur, Erased(disk[loc.cur]))
  /\ LET next == disk[loc.cur].nextIdx
     IN  Goto(IF next = 0 THEN end ELSE p,
              [loc EXCEPT !.last = loc.cur, !.cur = next, !.count = @ + 1])
  /\ UNCHANGED session

(* Mutation: the last block freed ends the free list. *)
FreeLastEnds(next) ==
  /\ WriteBlock(loc.last, [type |-> FB, nextIdx |-> 0, body |-> ZeroBody])
  /\ Goto(next, loc)
  /\ UNCHANGED session

(* The last block freed gets the old free list as its successor.           *)
FreeLast(next) ==
  /\ WriteBlock(loc.last, [type |-> FB, nextIdx |-> ToIdx(FirstFree(disk[0])),
                           body |-> ZeroBody])
  /\ Goto(next, loc)
  /\ UNCHANGED session

(* Mutation: the freed blocks are not counted. *)
FreeSuperNoCount == WriteBlock(0, SetSuper(disk[0], FreeCount(disk[0]), loc.first))

(* The superblock counts the freed chain in and points to its first block. *)
FreeSuper == WriteBlock(0, SetSuper(disk[0], FreeCount(disk[0]) + loc.count,
                                    loc.first))

TruncBlock ==
  /\ pc = "truncBlock"
  /\ Readable(loc.cur)
  /\ FreeOne("truncBlock", "truncLast")

(* Its error code is not -1: tfs_writeFile goes on.                        *)
TruncBlockFails ==
  /\ pc = "truncBlock"
  /\ ~Readable(loc.cur)
  /\ Goto("writeAlloc", [NoCall EXCEPT !.then = loc.then, !.buf = loc.buf])
  /\ UNCHANGED <<storage, session>>

TruncLast == pc = "truncLast" /\ FreeLast("truncSuper")

TruncSuper ==
  /\ pc = "truncSuper"
  /\ FreeSuper
  /\ Goto("writeAlloc", [NoCall EXCEPT !.then = loc.then, !.buf = loc.buf])
  /\ UNCHANGED session

(* Mutation: the newest entry goes. *)
CloseHeadPopsLast ==
  /\ LL' = SubSeq(LL, 1, Len(LL) - 1)
  /\ diskFd' = IF Tail(LL) = <<>> /\ diskFd = Mounted THEN NotMounted ELSE diskFd
  /\ Return(0)
  /\ UNCHANGED currentFD

(* tfs_closeFile pops the entry; with the last one LL and disk go.         *)
CloseHead ==
  /\ LL' = Tail(LL)
  /\ diskFd' = IF Tail(LL) = <<>> /\ diskFd = Mounted THEN NotMounted ELSE diskFd
  /\ Return(0)
  /\ UNCHANGED currentFD

CloseFile(FD) == Served(FD) /\ CloseHead /\ UNCHANGED storage

(* Mutation: the result of reading the inode is not looked at. *)
DeleteFileUnread(FD) ==
  /\ Served(FD)
  /\ UNCHANGED <<storage, session>>
  /\ fte.inodeIdx # 0
  /\ Call("deleteBlock", [NoCall EXCEPT !.cur = fte.inodeIdx, !.first = fte.inodeIdx])

DeleteFile(FD) ==
  /\ Served(FD)
  /\ UNCHANGED <<storage, session>>
  /\ fte.inodeIdx # 0
  /\ IF Readable(fte.inodeIdx)
       THEN Call("deleteBlock", [NoCall EXCEPT !.cur = fte.inodeIdx,
                                               !.first = fte.inodeIdx])
       ELSE Return(TFS_ERROR_DISK_READ)

(* With block 0 for an inode the loop makes no turn and bh is NULL.        *)
DeleteFileDies(FD) == Served(FD) /\ fte.inodeIdx = 0 /\ Die

DeleteBlock ==
  /\ pc = "deleteBlock"
  /\ Readable(loc.cur)
  /\ FreeOne("deleteBlock", "deleteLast")

DeleteBlockFails ==
  /\ pc = "deleteBlock"
  /\ ~Readable(loc.cur)
  /\ Return(TFS_ERROR_DISK_READ)
  /\ UNCHANGED <<storage, session>>

DeleteLast == pc = "deleteLast" /\ FreeLast("deleteSuper")

DeleteSuper == pc = "deleteSuper" /\ FreeSuper /\ CloseHead

-----------------------------------------------------------------------------
(* tfs_writeFile *)

(* Mutation: the inode keeps its chain while the chain is freed. *)
WriteFileKeepsChain(FD, b) ==
  /\ Served(FD)
  /\ UNCHANGED session
  /\ LET i == fte.inodeIdx
         l == [NoCall EXCEPT !.then = "tfs_writeFile", !.buf = b]
     IN  IF ~Readable(i)
           THEN Return(TFS_ERROR_DISK_READ) /\ UNCHANGED storage
         ELSE IF disk[i].nextIdx = 0
           THEN Call("writeAlloc", l) /\ UNCHANGED storage
         ELSE /\ WriteBlock(i, SetSize(disk[i], 0))
              /\ Call("truncBlock", [l EXCEPT !.cur = disk[i].nextIdx,
                                              !.first = disk[i].nextIdx])

(* Up to tfs_truncate's update of the inode, its first write.              *)
WriteFile(FD, b) ==
  /\ Served(FD)
  /\ UNCHANGED session
  /\ LET i == fte.inodeIdx
         l == [NoCall EXCEPT !.then = "tfs_writeFile", !.buf = b]
     IN  IF ~Readable(i)
           THEN Return(TFS_ERROR_DISK_READ) /\ UNCHANGED storage
         ELSE IF disk[i].nextIdx = 0
           THEN Call("writeAlloc", l) /\ UNCHANGED storage
         ELSE /\ WriteBlock(i, [SetSize(disk[i], 0) EXCEPT !.nextIdx = 0])
              /\ Call("truncBlock", [l EXCEPT !.cur = disk[i].nextIdx,
                                              !.first = disk[i].nextIdx])

(* The inode is read into memory, then blocks are taken.                   *)
WriteAlloc ==
  /\ pc = "writeAlloc"
  /\ TakeBlocks(BlocksFor(Length[loc.buf]),
                [loc EXCEPT !.inb = disk[fte.inodeIdx]])
  /\ UNCHANGED <<storage, session>>

(* Mutation: the new size is not stored. *)
WriteInodeOldSize ==
  /\ pc = "writeInode"
  /\ WriteBlock(fte.inodeIdx, [type |-> inode, nextIdx |-> ToIdx(loc.cur),
                               body |-> loc.inb.body])
  /\ IF loc.want = 0
       THEN SetOffset(0) /\ Return(0)
       ELSE UNCHANGED LL /\ Goto("writeData", [loc EXCEPT !.inb = RawBlock])
  /\ UNCHANGED <<diskFd, currentFD>>

(* The inode in memory goes to disk with what freeBlocks returned, a code  *)
(* included.  Nothing is left to do for an empty buffer.                   *)
WriteInode ==
  /\ pc = "writeInode"
  /\ WriteBlock(fte.inodeIdx,
                [type |-> inode, nextIdx |-> ToIdx(loc.cur),
                 body |-> SetSize(loc.inb, Length[loc.buf]).body])
  /\ IF loc.want = 0
       THEN SetOffset(0) /\ Return(0)
       ELSE UNCHANGED LL /\ Goto("writeData", [loc EXCEPT !.inb = RawBlock])
  /\ UNCHANGED <<diskFd, currentFD>>

(* Mutation: the pointer into the buffer does not move on. *)
WriteDataSameChunk ==
  /\ pc = "writeData"
  /\ Readable(loc.cur)
  /\ WriteBlock(loc.cur, [type |-> FEB, nextIdx |-> disk[loc.cur].nextIdx,
                          body |-> DataBody(loc.buf, 0)])
  /\ IF loc.count + 1 = loc.want
       THEN SetOffset(0) /\ Return(0)
       ELSE /\ UNCHANGED LL
            /\ Goto("writeData", [loc EXCEPT !.cur = disk[loc.cur].nextIdx,
                                             !.count = @ + 1])
  /\ UNCHANGED <<diskFd, currentFD>>

WriteData ==
  /\ pc = "writeData"
  /\ Readable(loc.cur)
  /\ WriteBlock(loc.cur, [type |-> FEB, nextIdx |-> disk[loc.cur].nextIdx,
                          body |-> DataBody(loc.buf, loc.count)])
  /\ IF loc.count + 1 = loc.want
       THEN SetOffset(0) /\ Return(0)
       ELSE /\ UNCHANGED LL
            /\ Goto("writeData", [loc EXCEPT !.cur = disk[loc.cur].nextIdx,
                                             !.count = @ + 1])
  /\ UNCHANGED <<diskFd, currentFD>>

WriteDataFails ==
  /\ pc = "writeData"
  /\ ~Readable(loc.cur)
  /\ Return(TFS_ERROR_DISK_READ)
  /\ UNCHANGED <<storage, session>>

-----------------------------------------------------------------------------
(* tfs_readByte, tfs_seek, tfs_rename, tfs_getTimeStamp *)

ReadByte(FD) ==
  /\ Served(FD)
  /\ UNCHANGED <<storage, session>>
  /\ LET i == fte.inodeIdx
     IN  IF ~Readable(i) THEN Return(TFS_ERROR_DISK_READ)
         ELSE IF fte.offset >= FileSize(disk[i]) THEN Return(TFS_ERROR_BAD_ALLOC)
         ELSE Call("readWalk", [NoCall EXCEPT !.cur = disk[i].nextIdx,
                                              !.want = BlocksFor(fte.offset + 1)])

(* Mutation: the chain is followed one block too far. *)
ReadWalkTooFar ==
  /\ pc = "readWalk"
  /\ Readable(loc.cur)
  /\ IF loc.count < loc.want
       THEN /\ Goto("readWalk", [loc EXCEPT !.cur = disk[loc.cur].nextIdx,
                                            !.count = @ + 1])
            /\ UNCHANGED LL
       ELSE LET c == ByteAt(disk[loc.cur], fte.offset % DataSize)
            IN  /\ ReturnByte(0, c)
                /\ IF c = Nul THEN UNCHANGED LL ELSE SetOffset(fte.offset + 1)
  /\ UNCHANGED <<storage, diskFd, currentFD>>

(* The chain is followed to the block of the offset.  The offset moves on  *)
(* unless the byte is '\0'.                                                *)
ReadWalk ==
  /\ pc = "readWalk"
  /\ Readable(loc.cur)
  /\ IF loc.count + 1 < loc.want
       THEN /\ Goto("readWalk", [loc EXCEPT !.cur = disk[loc.cur].nextIdx,
                                            !.count = @ + 1])
            /\ UNCHANGED LL
       ELSE LET c == ByteAt(disk[loc.cur], fte.offset % DataSize)
            IN  /\ ReturnByte(0, c)
                /\ IF c = Nul THEN UNCHANGED LL ELSE SetOffset(fte.offset + 1)
  /\ UNCHANGED <<storage, diskFd, currentFD>>

ReadWalkFails ==
  /\ pc = "readWalk"
  /\ ~Readable(loc.cur)
  /\ Return(TFS_ERROR_DISK_READ)
  /\ UNCHANGED <<storage, session>>

Seek(FD, o) ==
  /\ Served(FD)
  /\ SetOffset(o)
  /\ Return(0)
  /\ UNCHANGED <<storage, diskFd, currentFD>>

(* The name changes in the inode and not in the table entry.               *)
Rename(FD, n) ==
  /\ Served(FD)
  /\ IF Readable(fte.inodeIdx)
       THEN WriteBlock(fte.inodeIdx, SetName(disk[fte.inodeIdx], n)) /\ Return(0)
       ELSE UNCHANGED storage /\ Return(TFS_ERROR_DISK_READ)
  /\ UNCHANGED session

GetTimeStamp(FD) ==
  /\ Served(FD)
  /\ Return(IF Readable(fte.inodeIdx) THEN 0 ELSE TFS_ERROR_DISK_READ)
  /\ UNCHANGED <<storage, session>>

-----------------------------------------------------------------------------
(* Calls that do not get that far *)

(* The early returns: a negative descriptor or offset, no buffer, an empty *)
(* name; and any descriptor when the disk is not mounted, where four calls *)
(* return one code and three the other.                                    *)
Refused ==
  /\ pc = "idle"
  /\ \/ Return(TFS_ERROR_INVALID_PARAMETER)
     \/ diskFd = NotMounted /\ Return(TFS_ERROR_INVALID_FD)
  /\ UNCHANGED <<storage, session>>

(* index found the descriptor's byte in the struct.  Half the pointer is   *)
(* no position in the list: tfs_closeFile pops nothing, tfs_deleteFile     *)
(* finds no entry, the other calls use the entry they did not find, and    *)
(* get and pop assert that a position is not negative.                     *)
IndexHit(FD) ==
  /\ pc = "idle"
  /\ FD >= 0
  /\ diskFd # NotMounted
  /\ LL # <<>>
  /\ IndexMayHit(FD)
  /\ \/ \E c \in {0, TFS_ERROR_BAD_ALLOC} :
          Return(c) /\ UNCHANGED <<storage, session>>
     \/ Die

-----------------------------------------------------------------------------
(* The specification *)

Step ==
  \/ MountOpens \/ MountFails \/ CreateBlock \/ Validate
  \/ FormatSuper \/ FormatBlock \/ FormatEnd
  \/ Lookup \/ CreateInode
  \/ AllocWalk \/ AllocSuper \/ AllocLast
  \/ TruncBlock \/ TruncBlockFails \/ TruncLast \/ TruncSuper
  \/ WriteAlloc \/ WriteInode \/ WriteData \/ WriteDataFails
  \/ DeleteBlock \/ DeleteBlockFails \/ DeleteLast \/ DeleteSuper
  \/ ReadWalk \/ ReadWalkFails

Client ==
  \/ ClientMount \/ Unmount
  \/ \E n \in Names : OpenFile(n)
  \/ ListMissing \/ Refused
  \/ \E FD \in Descriptors :
       \/ CloseFile(FD) \/ DeleteFile(FD) \/ DeleteFileDies(FD)
       \/ \E b \in Buffers : WriteFile(FD, b)
       \/ ReadByte(FD)
       \/ \E o \in Offsets : Seek(FD, o)
       \/ \E n \in NewNames : Rename(FD, n)
       \/ GetTimeStamp(FD)
       \/ IndexHit(FD)

Crash == pc \in CrashPoints /\ Die

Next == Client \/ Step \/ Crash

(* The library runs on once it is called; nothing makes the client call    *)
(* it, or keep it from being killed.                                       *)
Spec == Init /\ [][Next]_vars /\ WF_vars(Step)

-----------------------------------------------------------------------------
(* Properties *)

(* The blocks from i on: the trail stays where it leaves the disk, at a    *)
(* terminator, an error code or the superblock.                            *)
OnDisk == 1..(size - 1)

Trail(i) ==
  LET at[k \in 0..NBlocks] ==
        IF k = 0 THEN i
        ELSE LET p == at[k - 1]
             IN  IF p \in OnDisk THEN disk[p].nextIdx ELSE p
  IN  at

Chain(i) == LET at == Trail(i) IN {at[k] : k \in 0..NBlocks} \cap OnDisk

Ends(i) == Trail(i)[NBlocks] \notin OnDisk

Inodes == {i \in OnDisk : disk[i].type = inode}

OpenInodes == {LL[k].inodeIdx : k \in DOMAIN LL} \cap OnDisk

FreeChain == Chain(FirstFree(disk[0]))

(* There is a file system: the superblock is there and formatting done.    *)
HasFS ==
  /\ HasSuperblock
  /\ pc \notin {"format", "formatBlock", "formatEnd"}

(* The free list is a list: it ends, and the superblock counts exactly its *)
(* blocks.  freeBlocks trusts the count and checks nothing else, so a list *)
(* shorter than its count hands out block numbers that are no blocks.      *)
FreeListSound ==
  HasFS => /\ Ends(FirstFree(disk[0]))
           /\ FreeCount(disk[0]) = Cardinality(FreeChain)

(* What is on the free list is typed FB and holds nothing of the files it  *)
(* was in: tfs_truncate and tfs_deleteFile wipe before they link, at every *)
(* point where the process may be killed.                                  *)
FreeBlocksErased ==
  HasFS => \A i \in FreeChain : disk[i].type = FB /\ disk[i].body = ZeroBody

(* No block belongs to two files, or to a file and the free list: neither  *)
(* the half-done calls of this process nor those a crash cut short leave   *)
(* two ways to one block.  The files are those named on disk and those     *)
(* open.  The exception is the file tfs_deleteFile is about to let go.     *)
NoCrossLink ==
  HasFS =>
    LET files == (Inodes \cup OpenInodes)
                   \ IF pc = "deleteSuper" THEN {fte.inodeIdx} ELSE {}
        free == FreeChain
    IN  \A i \in files :
          /\ Ends(i)
          /\ Chain(i) \cap free = {}
          /\ \A j \in files \ {i} : Chain(i) \cap Chain(j) = {}

(* No block is lost: between calls every block is free or part of a file   *)
(* that has a name.                                                        *)
NoLeak ==
  HasFS /\ pc = "idle" =>
    OnDisk = FreeChain \cup UNION {Chain(i) : i \in Inodes}

(* The k-th block of a file holds the k-th chunk of one buffer, or zeros.  *)
(* A write cut short by a crash, or that found the disk full, may leave    *)
(* part of its buffer; never two buffers mixed.                            *)
OneBuffer ==
  HasFS => \A i \in Inodes : \E b \in Buffers :
             LET at == Trail(i)
             IN  /\ FileSize(disk[i]) \in {0, Length[b]}
                 /\ \A k \in 1..NBlocks :
                      at[k] \in OnDisk =>
                        disk[at[k]].body \in {ZeroBody, DataBody(b, k - 1)}

(* File i holds the whole of b and nothing else. *)
Holds(i, b) ==
  /\ FileSize(disk[i]) = Length[b]
  /\ \A k \in 1..BlocksFor(Length[b]) :
       /\ Trail(i)[k] \in OnDisk
       /\ disk[Trail(i)[k]].body = DataBody(b, k - 1)
  /\ Trail(i)[BlocksFor(Length[b]) + 1] = 0

(* The open-file list and disk_fd fit together between calls: descriptors  *)
(* grow along the list, no name is in it twice, and the image is open only *)
(* while some file is, so that the next tfs_openFile mounts it again.      *)
TableOK ==
  /\ \A j, k \in DOMAIN LL :
       j < k => LL[j].fd < LL[k].fd /\ LL[j].fileName # LL[k].fileName
  /\ \A k \in DOMAIN LL : LL[k].fd < currentFD
  /\ pc = "idle" /\ LL = <<>> => diskFd # Mounted

(* The calls that work on the file at the head of the list, with the       *)
(* points of freeBlocks when they got there from tfs_writeFile.            *)
Writing == {"truncBlock", "truncLast", "truncSuper",
            "writeAlloc", "writeInode", "writeData"}

Working == Writing \cup {"deleteBlock", "deleteLast", "deleteSuper", "readWalk"}

Allocating == {"allocWalk", "allocSuper", "allocLast"}

Mounting == {"mount", "create", "validate", "format", "formatBlock", "formatEnd"}

(* A call knows where it is: freeBlocks goes back to the one that called   *)
(* it, a call on a file still has its entry and can read its inode at      *)
(* every step, a call that opens one has a descriptor left to give.        *)
CallOK ==
  /\ pc \in Mounting => loc.then \in {"client", "tfs_openFile"}
  /\ pc \in Allocating => loc.then \in {"createFile", "tfs_writeFile"}
  /\ pc \in Writing => loc.then = "tfs_writeFile"
  /\ pc = "lookup" => loc.then = "tfs_openFile"
  /\ pc = "createInode" => loc.then = "createFile"
  /\ pc = "create" => size \in 0..(NBlocks - 1)
  /\ loc.then = "tfs_writeFile" => loc.buf \in Buffers
  /\ loc.then = "tfs_writeFile" \/ pc \in Working =>
       LL # <<>> /\ Readable(fte.inodeIdx)
  /\ loc.then \in {"tfs_openFile", "createFile"} => currentFD <= MaxFD

(* A superblock, once written, is never overwritten by another kind of     *)
(* block: tfs_validate would take the disk for a blank one and format it.  *)
SuperblockKept == [][HasSuperblock => HasSuperblock']_vars

(* A call changes no block of a file but the one it works on.              *)
OthersUntouched ==
  [][HasFS => \A i \in Inodes :
       LL = <<>> \/ i # fte.inodeIdx =>
         \A k \in Chain(i) : disk'[k] = disk[k]]_vars

(* A tfs_writeFile that returns 0 has stored the whole buffer.             *)
WriteStores ==
  [][\A i \in Indices, b \in Buffers :
       /\ pc \in {"writeInode", "writeData"}
       /\ pc' = "idle" /\ LL' # <<>> /\ ret'.code = 0
       /\ i = fte.inodeIdx /\ b = loc.buf
       => Holds(i, b)']_vars

(* A tfs_readByte that returns 0 on a file that holds buffer b returns the *)
(* byte of b at its offset, whichever block that is in.                    *)
ReadReturns ==
  [][pc = "readWalk" /\ pc' = "idle" /\ LL' # <<>> =>
       \A b \in Buffers :
         Holds(fte.inodeIdx, b) => ret' = [code |-> 0, byte |-> <<b, fte.offset>>]]_vars

(* Every call returns: the loops over chains and over the disk end.        *)
CallReturns == pc # "idle" ~> pc = "idle"

=============================================================================
