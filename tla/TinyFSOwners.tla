---------------------------- MODULE TinyFSOwners ----------------------------
(***************************************************************************)
(* Who owns the blocks of a TinyFS image: the inductive invariant behind   *)
(* the free list, the chains of the files and what is stored in them.      *)
(*                                                                         *)
(* It speaks of two functions that no variable holds: o gives every block  *)
(* an owner - the free list, a file (by its inode), the running call, or   *)
(* nobody - and r the number of blocks from it to the end of its owner's   *)
(* chain, itself included.  The functions need not be computed, only to    *)
(* exist; TLC is given the ones that can be read off the image.            *)
(***************************************************************************)
EXTENDS TinyFS

(* The client and the world keep away from what breaks an image: mounts    *)
(* that make it anew, a kill in the middle of tfs_format, an open file     *)
(* opened by its new name, and buffers of no bytes.                        *)
Careful ==
  /\ ~MountMayFail
  /\ ~AliasedOpens
  /\ "formatBlock" \notin CrashPoints
  /\ \A b \in Buffers : Length[b] > 0

(* Owners that are no files.  A block is nobody's when a crash or an error *)
(* code has cut it off.                                                    *)
Free   == 0
Nobody == -1
Held   == -2

(* x is where n blocks of owner w begin, or no block when n is 0. *)
Begins(o, r, w, x, n) ==
  IF n = 0 THEN x \notin OnDisk ELSE x \in OnDisk /\ o[x] = w /\ r[x] = n

(* The successor of an owned block is the next one of its owner. *)
Linked(o, r) ==
  \A j \in OnDisk :
    o[j] \notin {Nobody, Held} =>
      r[j] >= 1 /\ Begins(o, r, o[j], disk[j].nextIdx, r[j] - 1)

(* No two blocks are in the same place of the same chain. *)
Apart(o, r) ==
  \A j, k \in OnDisk :
    o[j] = o[k] /\ o[j] # Nobody /\ r[j] = r[k] => j = k

IsErased(j) == disk[j].type = FB /\ disk[j].body = ZeroBody

(* The free list: the superblock knows its length and its first block. *)
FreeOwned(o, r) ==
  /\ disk[0].body.kind = "super"
  /\ FirstFree(disk[0]) \in 0..255
  /\ Begins(o, r, Free, FirstFree(disk[0]), FreeCount(disk[0]))
  /\ \A j \in OnDisk :
       o[j] = Free => r[j] <= FreeCount(disk[0]) /\ IsErased(j)

(* The data of file i is of buffer b, in its order. *)
DataOf(o, r, i, b) ==
  /\ FileSize(disk[i]) \in {0, Length[b]}
  /\ \A j \in OnDisk :
       o[j] = i /\ j # i => disk[j].body \in {ZeroBody, DataBody(b, r[i] - r[j] - 1)}

(* The files: an inode owns itself and begins its chain. *)
FilesOwned(o, r) ==
  /\ \A j \in OnDisk : o[j] \in OnDisk => o[o[j]] = o[j] /\ r[j] <= r[o[j]]
  /\ \A j \in OnDisk : disk[j].body.kind # "super"
  /\ \A j \in Inodes :
       o[j] = j /\ (Buffers # {} => \E b \in Buffers : DataOf(o, r, j, b))
  /\ \A j \in OpenInodes : o[j] = j \/ (pc = "deleteSuper" /\ j = fte.inodeIdx)

(* Where the running call holds blocks of its own. *)
Holding == {"allocLast", "createInode", "writeInode",
            "truncBlock", "truncLast", "truncSuper", "deleteSuper"}

(* They are a chain of h blocks, but for the end of it: a list just taken  *)
(* still leads on into the free list, one that is given back leads there   *)
(* already.                                                                *)
HeldOwned(o, r, h) ==
  /\ pc \notin Holding => h = 0
  /\ \A j \in OnDisk : o[j] = Held =>
       /\ r[j] \in 1..h
       /\ r[j] > 1 => Begins(o, r, Held, disk[j].nextIdx, r[j] - 1)
       /\ r[j] = 1 /\ pc \in {"truncSuper", "deleteSuper"} =>
            disk[j].nextIdx = FirstFree(disk[0])
       /\ r[j] = 1 /\ pc \in {"truncBlock", "truncLast"} =>
            disk[j].nextIdx \notin OnDisk
       /\ r[j] = 1 /\ pc \in {"createInode", "writeInode"} => disk[j].nextIdx = 0

(* The last n blocks of owner w are still to be wiped. *)
WipedTo(o, r, w, n) == \A j \in OnDisk : o[j] = w /\ r[j] > n => IsErased(j)

(* freeBlocks: where the walk is on the free list, and what it took. *)
Taking(o, r, h) ==
  /\ pc \in {"allocWalk", "allocSuper"} =>
       /\ loc.want <= FreeCount(disk[0])
       /\ loc.first = FirstFree(disk[0])
       /\ Begins(o, r, Free, loc.cur, FreeCount(disk[0]) - loc.count)
  /\ pc = "allocWalk" => loc.count < loc.want
  /\ pc = "allocSuper" =>
       /\ loc.count = loc.want
       /\ loc.cur \in 0..255
       /\ loc.last \in OnDisk /\ o[loc.last] = Free
       /\ r[loc.last] = FreeCount(disk[0]) - loc.want + 1
  /\ pc = "allocLast" =>
       /\ h = loc.want
       /\ Begins(o, r, Held, loc.first, h)
       /\ loc.last \in OnDisk /\ o[loc.last] = Held /\ r[loc.last] = 1
  /\ pc \in {"allocSuper", "allocLast"} => loc.blk = disk[loc.last]
  /\ pc \in Allocating =>
       diskFd = Mounted /\ loc.want > 0 /\ (loc.then = "createFile" => loc.want = 1)
  /\ pc = "createInode" => diskFd = Mounted /\ h = 1 /\ Begins(o, r, Held, loc.cur, 1)
  /\ pc \in {"allocLast", "createInode", "writeInode"} => WipedTo(o, r, Held, 0)

(* tfs_truncate and tfs_deleteFile: where the loop is on the chain. *)
Giving(o, r, h) ==
  /\ pc \in {"truncBlock", "truncLast", "truncSuper"} =>
       /\ Begins(o, r, Held, loc.first, h)
       /\ WipedTo(o, r, Held, h - loc.count)
  /\ pc = "truncBlock" =>
       loc.cur # 0 /\ Begins(o, r, Held, loc.cur, h - loc.count)
  /\ pc = "truncLast" =>
       /\ loc.count = h
       /\ loc.last \in OnDisk /\ o[loc.last] = Held /\ r[loc.last] = 1
  /\ pc \in {"deleteBlock", "deleteLast"} =>
       /\ loc.first = fte.inodeIdx
       /\ WipedTo(o, r, fte.inodeIdx, r[fte.inodeIdx] - loc.count)
  /\ pc = "deleteBlock" =>
       loc.cur # 0 /\ Begins(o, r, fte.inodeIdx, loc.cur, r[fte.inodeIdx] - loc.count)
  /\ pc = "deleteLast" =>
       /\ loc.count = r[fte.inodeIdx]
       /\ loc.last \in OnDisk /\ o[loc.last] = fte.inodeIdx /\ r[loc.last] = 1
  /\ pc = "deleteSuper" =>
       Begins(o, r, Held, loc.first, h) /\ WipedTo(o, r, Held, 0)
  /\ pc \in {"truncSuper", "deleteSuper"} => loc.count = h /\ h > 0

(* The data blocks a tfs_writeFile has written, and those it has not. *)
WrittenTo(o, r, i, n) ==
  \A j \in OnDisk :
    o[j] = i /\ j # i =>
      disk[j].body = IF r[i] - r[j] <= n THEN DataBody(loc.buf, r[i] - r[j] - 1)
                                         ELSE ZeroBody

(* Where tfs_writeFile has not yet given the file its new blocks. *)
Bare ==
  \/ pc \in {"truncBlock", "truncLast", "truncSuper", "writeAlloc", "writeInode"}
  \/ pc \in Allocating /\ loc.then = "tfs_writeFile"

(* And where it knows how many it wants. *)
Wanting ==
  \/ pc \in Allocating /\ loc.then = "tfs_writeFile"
  \/ pc \in {"writeInode", "writeData"}

(* tfs_writeFile: the file is bare until its inode is written, then it has *)
(* the blocks that were taken, or for want of them none.                   *)
Storing(o, r, h) ==
  /\ Bare => r[fte.inodeIdx] = 1
  /\ Wanting => loc.want = BlocksFor(Length[loc.buf]) /\ loc.want > 0
  /\ Wanting /\ pc # "writeData" => loc.inb.body.kind # "super"
  /\ pc = "writeInode" =>
       /\ loc.count = 0
       /\ \/ h = 0 /\ loc.cur = TFS_ERROR_INVALID_PARAMETER
          \/ h = loc.want /\ Begins(o, r, Held, loc.cur, h)
  /\ pc = "writeData" =>
       /\ FileSize(disk[fte.inodeIdx]) = Length[loc.buf]
       /\ loc.count < loc.want
       /\ WrittenTo(o, r, fte.inodeIdx, loc.count)
       /\ \/ r[fte.inodeIdx] = 1 /\ loc.cur = TFS_ERROR_INVALID_PARAMETER
          \/ /\ r[fte.inodeIdx] = loc.want + 1
             /\ Begins(o, r, fte.inodeIdx, loc.cur, loc.want - loc.count)
             /\ \A j \in OnDisk :
                  o[j] = fte.inodeIdx /\ r[j] = 1 => disk[j].nextIdx = 0

Owned(o, r, h) ==
  /\ Linked(o, r) /\ Apart(o, r)
  /\ FreeOwned(o, r) /\ FilesOwned(o, r) /\ HeldOwned(o, r, h)
  /\ Taking(o, r, h) /\ Giving(o, r, h) /\ Storing(o, r, h)

(* The open files: an entry is an inode or an error code, none before      *)
(* there is a file system, and no file has two.                            *)
EntriesApart ==
  /\ \A k \in DOMAIN LL :
       LL[k].inodeIdx < 0 \/ (HasFS /\ LL[k].inodeIdx \in OnDisk)
  /\ \A j, k \in DOMAIN LL :
       j # k /\ LL[j].inodeIdx >= 0 => LL[j].inodeIdx # LL[k].inodeIdx
  /\ pc \in Mounting \cup {"lookup"} /\ loc.then = "tfs_openFile" =>
       \A k \in DOMAIN LL : LL[k].inodeIdx < 0 \/ LL[k].inodeIdx # FindByName(loc.name)

FreshBlock(j) == [type |-> FB, nextIdx |-> j + 1, body |-> ZeroBody]

(* An image in the making, and one that blocks are taken from. *)
MakingOK ==
  /\ pc \in Allocating \cup {"createInode"} => HasSuperblock
  /\ pc \in {"create", "format"} => ~HasSuperblock
  /\ pc = "validate" => size >= 0
  /\ pc = "format" => size >= 1
  /\ pc \in {"formatBlock", "formatEnd"} =>
       /\ HasSuperblock
       /\ disk[0].body = SuperBody(size - 1, 1)
  /\ pc = "formatBlock" =>
       loc.cur \in 1..size /\ \A j \in 1..(loc.cur - 1) : disk[j] = FreshBlock(j)
  /\ pc = "formatEnd" => size = 1

(* No block is lost but those of L: any other is free, held by the running *)
(* call, or in a file that is named or just being deleted.                 *)
InUse(o, L) ==
  \A j \in OnDisk \ L :
    \/ o[j] \in {Free, Held} \cup Inodes
    \/ pc \in {"deleteBlock", "deleteLast"} /\ o[j] = fte.inodeIdx

(* A chain ends with a terminator, not with an error code... *)
ChainsEnd(o, r) ==
  \A j \in OnDisk :
    r[j] = 1 /\ (o[j] \in OnDisk \/ (o[j] = Held /\ pc \in {"truncBlock", "truncLast"})) =>
      disk[j].nextIdx = 0

(* ...and is as long as a buffer needs.                                    *)
ChainsFit(r) ==
  \A i \in Inodes : r[i] = 1 \/ \E b \in Buffers : r[i] = BlocksFor(Length[b]) + 1

(* No loop over a chain comes to the end before its time, what is given    *)
(* back is as long as a buffer needs, tfs_writeFile has got its blocks.    *)
InHand(r, h) ==
  /\ pc = "truncBlock" => loc.count < h
  /\ pc \in {"truncBlock", "truncLast", "truncSuper"} /\ fte.inodeIdx \in Inodes =>
       \E b \in Buffers : h = BlocksFor(Length[b])
  /\ pc = "deleteBlock" => loc.count < r[fte.inodeIdx]
  /\ pc = "writeInode" => h > 0
  /\ pc = "writeData" => r[fte.inodeIdx] = loc.want + 1

(* What is so while nothing fails for want of room; with L = Indices, when *)
(* anything may be lost, this says nothing.                                *)
Placed(o, r, h, L) ==
  L # Indices => InUse(o, L) /\ ChainsEnd(o, r) /\ ChainsFit(r) /\ InHand(r, h)

OwnersBut(L) ==
  /\ EntriesApart /\ MakingOK
  /\ HasFS => \E o, r \in [Indices -> Int], h \in Nat : Owned(o, r, h) /\ Placed(o, r, h, L)

(* A write always finds room: the disk is large enough for as many files   *)
(* as there are, each with n blocks of data.                               *)
RoomForFiles(n) == HasFS => Cardinality(Inodes) * (n + 1) < size

OwnersInv ==
  /\ EntriesApart /\ MakingOK
  /\ HasFS => \E o, r \in [Indices -> Int], h \in Nat : Owned(o, r, h)

=============================================================================
