------------------------- MODULE TinyFSSteps_proofs -------------------------
(***************************************************************************)
(* What a step of TinyFS may never do: a proof, from the owners of the     *)
(* blocks, of the action properties of TinyFS.                             *)
(***************************************************************************)
EXTENDS TinyFSOwners_proofs

(* A step writes the superblock, blocks the call holds, or blocks of the   *)
(* file it works on.                                                       *)
Wrote(o) ==
  /\ size' = size
  /\ disk'[0].type = disk[0].type
  /\ \A j \in OnDisk : \/ disk'[j] = disk[j]
                       \/ o[j] = Held
                       \/ LL # <<>> /\ o[j] = fte.inodeIdx

LEMMA WroteNothing ==
  ASSUME NEW o, UNCHANGED storage
  PROVE  Wrote(o)
BY DEF Wrote, storage

LEMMA WroteSuper ==
  ASSUME TypeOK, NEW o, NEW b, WriteBlock(0, b), b.type = disk[0].type
  PROVE  Wrote(o)
<1>1. 0 \in Indices /\ OnDisk \subseteq Indices /\ 0 \notin OnDisk
  BY OnDiskFacts
<1> QED
  BY <1>1, Written DEF Wrote

LEMMA WroteBlock ==
  ASSUME TypeOK, NEW o, NEW x \in OnDisk, NEW b, WriteBlock(x, b),
         o[x] = Held \/ (LL # <<>> /\ o[x] = fte.inodeIdx)
  PROVE  Wrote(o)
<1>1. x \in Indices /\ 0 \in Indices /\ OnDisk \subseteq Indices /\ x # 0
  BY OnDiskFacts
<1> QED
  BY <1>1, Written DEF Wrote

LEMMA SuperType ==
  ASSUME TypeOK, NEW m, NEW n
  PROVE  SetSuper(disk[0], m, n).type = disk[0].type
<1>1. disk[0] \in Block
  BY OnDiskFacts
<1> QED
  BY <1>1 DEF SetSuper, Block

(* The open file at the head of the list owns its inode. *)
LEMMA HeadOwned ==
  ASSUME TypeOK, OwnersInv, LL # <<>>, Readable(fte.inodeIdx), pc # "deleteSuper",
         NEW o, NEW r, NEW h, Owned(o, r, h)
  PROVE  fte.inodeIdx \in OnDisk /\ o[fte.inodeIdx] = fte.inodeIdx
<1>1. fte.inodeIdx \in OnDisk /\ fte.inodeIdx \in OpenInodes
  BY InvParts, HeadOpen
<1> QED
  BY <1>1 DEF Owned, FilesOwned

LEMMA AllocWrites ==
  ASSUME TypeOK, NEW o, NEW r, NEW h, Owned(o, r, h),
         AllocSuper \/ AllocLast \/ CreateInode
  PROVE  Wrote(o)
<1>1. CASE AllocSuper
  BY <1>1, WroteSuper, SuperType DEF AllocSuper
<1>2. CASE AllocLast
  <2>1. loc.last \in OnDisk /\ o[loc.last] = Held
    BY <1>2 DEF Owned, Taking, AllocLast
  <2> QED
    BY <1>2, <2>1, WroteBlock DEF AllocLast
<1>3. CASE CreateInode
  <2>1. loc.cur \in OnDisk /\ o[loc.cur] = Held
    BY <1>3 DEF Owned, Taking, CreateInode, Begins
  <2> QED
    BY <1>3, <2>1, WroteBlock, WroteNothing DEF CreateInode
<1> QED
  BY <1>1, <1>2, <1>3

LEMMA GivingWrites ==
  ASSUME TypeOK, CallOK, OwnersInv, NEW o, NEW r, NEW h \in Nat, Owned(o, r, h),
         \/ TruncBlock \/ TruncLast \/ TruncSuper
         \/ DeleteBlock \/ DeleteLast \/ DeleteSuper
  PROVE  Wrote(o)
<1>1. Giving(o, r, h)
  BY DEF Owned
<1>2. \A x : Readable(x) /\ x # 0 /\ x \in Int => x \in OnDisk
  BY DEF Readable, OnDisk, TypeOK
<1>3. loc.cur \in Int
  BY LocalFields DEF TypeOK
<1>4. CASE TruncBlock
  <2>1. loc.cur # 0 /\ Begins(o, r, Held, loc.cur, h - loc.count) /\ Readable(loc.cur)
    BY <1>1, <1>4 DEF Giving, TruncBlock
  <2>2. loc.cur \in OnDisk /\ o[loc.cur] = Held
    BY <1>2, <1>3, <2>1 DEF Begins
  <2> QED
    BY <1>4, <2>2, WroteBlock DEF TruncBlock, FreeOne
<1>5. CASE TruncLast
  <2>1. loc.last \in OnDisk /\ o[loc.last] = Held
    BY <1>1, <1>5 DEF Giving, TruncLast
  <2> QED
    BY <1>5, <2>1, WroteBlock DEF TruncLast, FreeLast
<1>6. CASE TruncSuper \/ DeleteSuper
  BY <1>6, WroteSuper, SuperType DEF TruncSuper, DeleteSuper, FreeSuper
<1>7. CASE DeleteBlock
  <2>1. /\ loc.cur # 0 /\ Readable(loc.cur) /\ LL # <<>>
        /\ Begins(o, r, fte.inodeIdx, loc.cur, r[fte.inodeIdx] - loc.count)
    BY <1>1, <1>7 DEF Giving, DeleteBlock, CallOK, Working
  <2>2. loc.cur \in OnDisk /\ o[loc.cur] = fte.inodeIdx
    BY <1>2, <1>3, <2>1 DEF Begins
  <2> QED
    BY <1>7, <2>1, <2>2, WroteBlock DEF DeleteBlock, FreeOne
<1>8. CASE DeleteLast
  <2>1. loc.last \in OnDisk /\ o[loc.last] = fte.inodeIdx /\ LL # <<>>
    BY <1>1, <1>8 DEF Giving, DeleteLast, CallOK, Working
  <2> QED
    BY <1>8, <2>1, WroteBlock DEF DeleteLast, FreeLast
<1> QED
  BY <1>4, <1>5, <1>6, <1>7, <1>8

LEMMA HeadWritten ==
  ASSUME TypeOK, OwnersInv, NEW o, NEW r, NEW h, Owned(o, r, h),
         LL # <<>>, Readable(fte.inodeIdx), pc # "deleteSuper",
         NEW b, WriteBlock(fte.inodeIdx, b)
  PROVE  Wrote(o)
BY HeadOwned, WroteBlock

LEMMA WriteFileWrites ==
  ASSUME TypeOK, OwnersInv, NEW o, NEW r, NEW h, Owned(o, r, h),
         NEW FD, NEW b, WriteFile(FD, b)
  PROVE  Wrote(o)
<1>1. LL # <<>> /\ pc # "deleteSuper"
  BY DEF WriteFile, Served
<1>2. CASE UNCHANGED storage
  BY <1>2, WroteNothing
<1>3. CASE ~UNCHANGED storage
  <2>1. Readable(fte.inodeIdx) /\ \E c : WriteBlock(fte.inodeIdx, c)
    BY <1>3 DEF WriteFile
  <2> QED
    BY <1>1, <2>1, HeadWritten
<1> QED
  BY <1>2, <1>3

LEMMA StoringWrites ==
  ASSUME TypeOK, CallOK, OwnersInv, NEW o, NEW r, NEW h \in Nat, Owned(o, r, h),
         (\E FD, n : Rename(FD, n)) \/ WriteInode \/ WriteData
  PROVE  Wrote(o)
<1>1. ~Readable(TFS_ERROR_INVALID_PARAMETER)
  BY DEF Readable, TFS_ERROR_INVALID_PARAMETER
<1>2. ASSUME NEW FD, NEW n, Rename(FD, n)
      PROVE  Wrote(o)
  <2>1. LL # <<>> /\ pc # "deleteSuper"
    BY <1>2 DEF Rename, Served
  <2> QED
    BY <1>2, <2>1, HeadWritten, WroteNothing DEF Rename
<1>3. CASE WriteInode
  <2>1. LL # <<>> /\ pc # "deleteSuper" /\ Readable(fte.inodeIdx)
    BY <1>3 DEF WriteInode, CallOK, Working, Writing
  <2> QED
    BY <1>3, <2>1, HeadWritten DEF WriteInode
<1>4. CASE WriteData
  <2>1. /\ LL # <<>> /\ Readable(loc.cur) /\ loc.count < loc.want
        /\ \/ loc.cur = TFS_ERROR_INVALID_PARAMETER
           \/ Begins(o, r, fte.inodeIdx, loc.cur, loc.want - loc.count)
    BY <1>4 DEF WriteData, CallOK, Working, Writing, Owned, Storing
  <2>2. loc.count \in Nat /\ loc.want \in Nat
    BY LocalFields
  <2>3. loc.cur \in OnDisk /\ o[loc.cur] = fte.inodeIdx
    BY <1>1, <2>1, <2>2 DEF Begins
  <2> QED
    BY <1>4, <2>1, <2>3, WroteBlock DEF WriteData
<1> QED
  BY <1>2, <1>3, <1>4

LEMMA ClientWrites ==
  ASSUME TypeOK, CallOK, OwnersInv, NEW o, NEW r, NEW h \in Nat, Owned(o, r, h), Client
  PROVE  Wrote(o)
<1>1. CASE ClientMount \/ Unmount \/ Refused \/ ListMissing \/ \E n \in Names : OpenFile(n)
  <2>1. ASSUME NEW n, OpenFile(n) PROVE UNCHANGED storage
    BY <2>1 DEF OpenFile
  <2>2. ClientMount \/ Unmount \/ Refused \/ ListMissing => UNCHANGED storage
    BY DEF ClientMount, Unmount, Refused, ListMissing, Die
  <2>3. UNCHANGED storage
    BY <1>1, <2>1, <2>2
  <2> QED
    BY <2>3, WroteNothing
<1>2. ASSUME NEW FD,
             \/ CloseFile(FD) \/ DeleteFile(FD) \/ DeleteFileDies(FD)
             \/ ReadByte(FD) \/ (\E x : Seek(FD, x))
             \/ GetTimeStamp(FD) \/ IndexHit(FD)
      PROVE  Wrote(o)
  <2>1. UNCHANGED storage
    BY <1>2 DEF CloseFile, DeleteFile, DeleteFileDies, ReadByte, Seek, GetTimeStamp,
                IndexHit, Die
  <2> QED
    BY <2>1, WroteNothing
<1> QED
  BY <1>1, <1>2, WriteFileWrites, StoringWrites DEF Client

LEMMA ClientIdle ==
  ASSUME Client
  PROVE  pc = "idle"
<1>1. ASSUME NEW FD, NEW b, WriteFile(FD, b)
      PROVE  pc = "idle"
  BY <1>1 DEF WriteFile, Served
<1>2. ASSUME NEW FD,
             \/ CloseFile(FD) \/ DeleteFile(FD) \/ DeleteFileDies(FD)
             \/ ReadByte(FD) \/ (\E x : Seek(FD, x)) \/ (\E n : Rename(FD, n))
             \/ GetTimeStamp(FD) \/ IndexHit(FD)
      PROVE  pc = "idle"
  BY <1>2 DEF CloseFile, DeleteFile, DeleteFileDies, ReadByte, Seek, Rename, GetTimeStamp,
              IndexHit, Served
<1>3. ASSUME NEW n, OpenFile(n) PROVE pc = "idle"
  BY <1>3 DEF OpenFile
<1>4. ClientMount \/ Unmount \/ Refused \/ ListMissing => pc = "idle"
  BY DEF ClientMount, Unmount, Refused, ListMissing
<1> QED
  BY <1>1, <1>2, <1>3, <1>4 DEF Client

(* Every step, once there is a file system. *)
LEMMA StepWrites ==
  ASSUME TypeOK, CallOK, OwnersInv, Careful, HasFS, [Next]_vars,
         NEW o, NEW r, NEW h \in Nat, Owned(o, r, h)
  PROVE  Wrote(o)
<1>1. pc \notin {"create", "format", "formatBlock", "formatEnd"} /\ size >= 1
  BY DEF HasFS, OwnersInv, MakingOK, HasSuperblock
<1>2. ~CreateBlock /\ ~FormatSuper /\ ~FormatBlock /\ ~FormatEnd /\ ~MountFails
  BY <1>1 DEF CreateBlock, FormatSuper, FormatBlock, FormatEnd, MountFails, Careful
<1>3. CASE MountOpens
  <2>1. UNCHANGED storage
    BY <1>1, <1>3 DEF MountOpens, Careful, storage, TypeOK
  <2> QED
    BY <2>1, WroteNothing
<1>4. CASE \/ Validate \/ Lookup \/ AllocWalk \/ TruncBlockFails \/ WriteAlloc
           \/ WriteDataFails \/ DeleteBlockFails \/ ReadWalk \/ ReadWalkFails
  <2>1. UNCHANGED storage
    BY <1>4 DEF Validate, Lookup, AllocWalk, TruncBlockFails, WriteAlloc,
                WriteDataFails, DeleteBlockFails, ReadWalk, ReadWalkFails
  <2> QED
    BY <2>1, WroteNothing
<1>5. CASE UNCHANGED vars \/ Crash
  <2>1. UNCHANGED storage
    BY <1>5 DEF Crash, Die, vars, storage
  <2> QED
    BY <2>1, WroteNothing
<1> QED
  BY <1>2, <1>3, <1>4, <1>5, ClientWrites, AllocWrites, GivingWrites, StoringWrites
     DEF Next, Step

-----------------------------------------------------------------------------
(* The superblock *)

LEMMA SuperblockStays ==
  ASSUME TypeOK, CallOK, OwnersInv, Careful, HasSuperblock, [Next]_vars
  PROVE  HasSuperblock'
<1>1. CASE HasFS
  <2>1. PICK o \in [Indices -> Int], r \in [Indices -> Int], h \in Nat : Owned(o, r, h)
    BY <1>1 DEF OwnersInv
  <2>2. Wrote(o)
    BY <1>1, <2>1, StepWrites
  <2> QED
    BY <2>2 DEF Wrote, HasSuperblock
<1>2. CASE ~HasFS
  <2>1. pc \in {"formatBlock", "formatEnd"}
    BY <1>2 DEF HasFS, OwnersInv, MakingOK
  <2>2. CASE UNCHANGED storage
    BY <2>2 DEF HasSuperblock, storage
  <2>3. CASE FormatBlock
    <3>1. loc.cur \in 1..size
      BY <2>1, <2>3 DEF OwnersInv, MakingOK, FormatBlock
    <3>2. UNCHANGED storage \/ \E b : WriteBlock(loc.cur, b)
      BY <2>3 DEF FormatBlock
    <3>3. size' = size /\ disk'[0] = disk[0]
      BY <3>1, <3>2, OnDiskFacts DEF WriteBlock, storage
    <3> QED
      BY <3>3 DEF HasSuperblock
  <2>4. CASE FormatEnd
    <3>1. 0 \in Indices /\ disk \in [Indices -> Block]
      BY OnDiskFacts
    <3>2. size' = size /\ disk'[0].type = sb
      BY <2>4, <3>1 DEF FormatEnd, WriteBlock
    <3> QED
      BY <3>2 DEF HasSuperblock
  <2>5. UNCHANGED storage \/ FormatBlock \/ FormatEnd
    <3>1. ~Client
      BY <2>1, ClientIdle
    <3>2. Step => FormatBlock \/ FormatEnd
      BY <2>1 DEF Step, MountOpens, MountFails, CreateBlock, Validate, FormatSuper, Lookup,
                  CreateInode, AllocWalk, AllocSuper, AllocLast, TruncBlock, TruncBlockFails,
                  TruncLast, TruncSuper, WriteAlloc, WriteInode, WriteData, WriteDataFails,
                  DeleteBlock, DeleteBlockFails, DeleteLast, DeleteSuper, ReadWalk, ReadWalkFails
    <3> QED
      BY <3>1, <3>2 DEF Next, Crash, Die, vars, storage
  <2> QED
    BY <2>2, <2>3, <2>4, <2>5
<1> QED
  BY <1>1, <1>2

(* No step turns an image that has a superblock into one that the next     *)
(* mount would format.                                                     *)
THEOREM SuperblockSafe ==
  ASSUME Careful
  PROVE  Spec => SuperblockKept
<1>1. TypeOK /\ CallOK /\ OwnersInv /\ [Next]_vars => (HasSuperblock => HasSuperblock')
  BY SuperblockStays
<1> QED
  BY <1>1, TypeCorrect, CallsConsistent, OwnersKept, PTL DEF Spec, SuperblockKept

-----------------------------------------------------------------------------
(* The files a call does not work on *)

LEMMA OthersStay ==
  ASSUME TypeOK, CallOK, OwnersInv, Careful, HasFS, [Next]_vars,
         NEW i \in Inodes, LL = <<>> \/ i # fte.inodeIdx
  PROVE  \A k \in Chain(i) : disk'[k] = disk[k]
<1>1. PICK o \in [Indices -> Int], r \in [Indices -> Int], h \in Nat : Owned(o, r, h)
  BY DEF OwnersInv
<1>2. Wrote(o)
  BY <1>1, StepWrites
<1>3. i \in OnDisk /\ o[i] = i /\ i # Held
  BY <1>1, OnDiskFacts DEF Owned, FilesOwned, Inodes, Held
<1>4. \A k : k \in Chain(i) <=> k \in OnDisk /\ o[k] = i /\ r[k] <= r[i]
  BY <1>1, <1>3, FileOwned DEF Owned, TypeOK
<1> QED
  BY <1>2, <1>3, <1>4 DEF Wrote

(* No step writes a block of a file other than the one its call is on.     *)
THEOREM OthersSafe ==
  ASSUME Careful
  PROVE  Spec => OthersUntouched
<1>1. TypeOK /\ CallOK /\ OwnersInv /\ [Next]_vars =>
        (HasFS => \A i \in Inodes :
           LL = <<>> \/ i # fte.inodeIdx => \A k \in Chain(i) : disk'[k] = disk[k])
  BY OthersStay
<1> QED
  BY <1>1, TypeCorrect, CallsConsistent, OwnersKept, PTL DEF Spec, OthersUntouched

-----------------------------------------------------------------------------
(* What tfs_writeFile has stored when it returns *)

(* All of b is in file i: its chain is as long as b takes. *)
FileStored(o, r, i, b) ==
  /\ Linked(o, r)
  /\ i \in OnDisk /\ o[i] = i
  /\ r[i] = BlocksFor(Length[b]) + 1
  /\ FileSize(disk[i]) = Length[b]
  /\ \A j \in OnDisk : o[j] = i /\ j # i => disk[j].body = DataBody(b, r[i] - r[j] - 1)
  /\ \A j \in OnDisk : o[j] = i /\ r[j] = 1 => disk[j].nextIdx = 0

LEMMA StoredHolds ==
  ASSUME size \in -1..NBlocks,
         NEW o \in [Indices -> Int], NEW r \in [Indices -> Int],
         NEW i, NEW b \in Buffers, FileStored(o, r, i, b)
  PROVE  Holds(i, b)
<1>1. Length[b] \in Nat /\ NBlocks \in 2..243 /\ BlocksFor(Length[b]) \in Nat
  BY ClientAssumption, SizesAssumption, BlocksForType
<1> PICK m \in Nat : m = BlocksFor(Length[b])
  BY <1>1
<1>2. /\ Linked(o, r) /\ i \in OnDisk /\ o[i] = i /\ r[i] = m + 1
      /\ FileSize(disk[i]) = Length[b]
      /\ \A j \in OnDisk : o[j] = i /\ j # i => disk[j].body = DataBody(b, m - r[j])
      /\ \A j \in OnDisk : o[j] = i /\ r[j] = 1 => disk[j].nextIdx = 0
  <2>1. \A j \in OnDisk : r[j] \in Int
    BY <1>1 DEF OnDisk, Indices
  <2> QED
    BY <2>1 DEF FileStored
<1>3. i \notin {Nobody, Held} /\ Begins(o, r, i, i, m + 1) /\ m + 1 \in Nat
  BY <1>2 DEF Begins, Nobody, Held, OnDisk
<1>4. m + 1 < NBlocks
  BY <1>2, <1>3, ChainFits
<1>5. \A k \in 0..NBlocks :
        Begins(o, r, i, Trail(i)[k], IF k < m + 1 THEN m + 1 - k ELSE 0)
  BY <1>2, <1>3, TrailOwned
<1>6. ASSUME NEW k \in 0..m
      PROVE  Trail(i)[k] \in OnDisk /\ o[Trail(i)[k]] = i /\ r[Trail(i)[k]] = m + 1 - k
  <2>1. k \in 0..NBlocks /\ k < m + 1 /\ m + 1 - k # 0
    BY <1>1, <1>4
  <2>2. Begins(o, r, i, Trail(i)[k], m + 1 - k)
    BY <1>5, <2>1
  <2> QED
    BY <2>1, <2>2 DEF Begins
<1>7. ASSUME NEW k \in 1..m
      PROVE  Trail(i)[k] \in OnDisk /\ disk[Trail(i)[k]].body = DataBody(b, k - 1)
  <2>1. /\ Trail(i)[k] \in OnDisk /\ o[Trail(i)[k]] = i /\ r[Trail(i)[k]] = m + 1 - k
        /\ Trail(i)[k] # i
    BY <1>2, <1>6
  <2>2. m - r[Trail(i)[k]] = k - 1
    BY <2>1
  <2> QED
    BY <1>2, <2>1, <2>2
<1>8. Trail(i)[m + 1] = 0
  <2>1. m + 1 \in 1..NBlocks /\ (m + 1) - 1 = m
    BY <1>1, <1>4
  <2>2. Trail(i)[m + 1] = Succ(Trail(i)[m])
    BY <2>1, TrailDef
  <2>3. Trail(i)[m] \in OnDisk /\ o[Trail(i)[m]] = i /\ r[Trail(i)[m]] = 1
    BY <1>6
  <2> QED
    BY <1>2, <2>2, <2>3 DEF Succ
<1> QED
  BY <1>2, <1>7, <1>8 DEF Holds

LEMMA StoredHoldsThen ==
  (\A o \in [Indices -> Int], r \in [Indices -> Int], i \in Indices, b \in Buffers :
     size \in -1..NBlocks /\ FileStored(o, r, i, b) => Holds(i, b))'
<1>1. \A o \in [Indices -> Int], r \in [Indices -> Int], i \in Indices, b \in Buffers :
        size \in -1..NBlocks /\ FileStored(o, r, i, b) => Holds(i, b)
  BY StoredHolds
<1> QED
  BY <1>1, PTL

(* tfs_writeFile returns 0 from the write of its last data block only.     *)
LEMMA WriteReturns ==
  ASSUME TypeOK, CallOK, OwnersInv, [Next]_vars,
         pc \in {"writeInode", "writeData"},
         pc' = "idle", LL' # <<>>, ret'.code = 0
  PROVE  pc = "writeData" /\ WriteData /\ loc.count + 1 = loc.want
<1>1. ~Client /\ ~Crash /\ ~UNCHANGED vars
  <2>1. pc # "idle" /\ pc' # pc
    OBVIOUS
  <2> QED
    BY <2>1, ClientIdle DEF Crash, Die, vars
<1>2. Step => WriteInode \/ WriteData \/ WriteDataFails
  BY DEF Step, MountOpens, MountFails, CreateBlock, Validate, FormatSuper, FormatBlock,
         FormatEnd, Lookup, CreateInode, AllocWalk, AllocSuper, AllocLast, TruncBlock,
         TruncBlockFails, TruncLast, TruncSuper, WriteAlloc, DeleteBlock, DeleteBlockFails,
         DeleteLast, DeleteSuper, ReadWalk, ReadWalkFails
<1>3. ~WriteDataFails
  BY DEF WriteDataFails, Return, ReturnByte, TFS_ERROR_DISK_READ
<1>4. ~WriteInode
  <2> SUFFICES ASSUME WriteInode PROVE FALSE
    OBVIOUS
  <2>1. pc = "writeInode" /\ loc.want \in Nat
    BY LocalFields DEF WriteInode
  <2>2. HasFS
    BY <2>1, WorkOwners DEF Working, Writing
  <2>3. loc.want > 0
    BY <2>1, <2>2 DEF OwnersInv, Owned, Storing, Wanting
  <2> QED
    BY <2>1, <2>3 DEF WriteInode, Goto
<1>5. WriteData
  BY <1>1, <1>2, <1>3, <1>4 DEF Next
<1> QED
  BY <1>5 DEF WriteData, Goto

LEMMA LastDataStores ==
  ASSUME TypeOK, TypeOK', CallOK, OwnersInv, WriteData, loc.count + 1 = loc.want,
         NEW i \in Indices, i = fte.inodeIdx, NEW b \in Buffers, b = loc.buf
  PROVE  Holds(i, b)'
<1>1. /\ pc = "writeData" /\ HasFS /\ LL # <<>> /\ Readable(fte.inodeIdx)
      /\ \E o \in [Indices -> Int], r \in [Indices -> Int], h \in Nat : Owned(o, r, h)
  BY WorkOwners DEF WriteData, Working, Writing
<1>2. PICK o \in [Indices -> Int], r \in [Indices -> Int], h \in Nat : Owned(o, r, h)
  BY <1>1
<1>3. i \in OnDisk /\ o[i] = i
  BY <1>1, <1>2, HeadOwned
<1>4. loc.want = BlocksFor(Length[b])
  BY <1>1, <1>2 DEF Owned, Storing, Wanting
<1>5. /\ Linked(o, r)' /\ OnDisk' = OnDisk /\ r[i] = loc.want + 1
      /\ FileSize(disk'[i]) = Length[b]
      /\ \A j \in OnDisk : o[j] = i /\ j # i =>
           disk'[j].body = IF r[i] - r[j] <= loc.count + 1
                             THEN DataBody(b, r[i] - r[j] - 1) ELSE ZeroBody
      /\ \A j \in OnDisk : o[j] = i /\ r[j] = 1 => disk'[j].nextIdx = 0
  BY <1>2, <1>3, WriteDataContents
<1>6. \A j \in OnDisk : o[j] = i /\ j # i => disk'[j].body = DataBody(b, r[i] - r[j] - 1)
  <2> SUFFICES ASSUME NEW j \in OnDisk, o[j] = i, j # i
               PROVE  r[i] - r[j] <= loc.count + 1
    BY <1>5
  <2>1. i \notin {Nobody, Held} /\ j \in Indices
    BY <1>3, OnDiskFacts DEF Nobody, Held
  <2>2. r[j] >= 1 /\ r[j] \in Int
    BY <1>2, <2>1 DEF Owned, Linked
  <2> QED
    BY <1>5, <2>2, LocalFields
<1>7. FileStored(o, r, i, b)'
  BY <1>3, <1>4, <1>5, <1>6 DEF FileStored
<1>8. size' \in -1..NBlocks
  BY DEF TypeOK
<1> QED
  BY <1>7, <1>8, StoredHoldsThen

(* A tfs_writeFile that returns 0 has stored the whole of its buffer, and  *)
(* nothing else is in the file.                                            *)
THEOREM WritesWhole ==
  ASSUME Careful
  PROVE  Spec => WriteStores
<1>1. TypeOK /\ TypeOK' /\ CallOK /\ OwnersInv /\ [Next]_vars =>
        (\A i \in Indices, b \in Buffers :
           /\ pc \in {"writeInode", "writeData"}
           /\ pc' = "idle" /\ LL' # <<>> /\ ret'.code = 0
           /\ i = fte.inodeIdx /\ b = loc.buf
           => Holds(i, b)')
  <2> SUFFICES ASSUME TypeOK, TypeOK', CallOK, OwnersInv, [Next]_vars,
                      NEW i \in Indices, NEW b \in Buffers,
                      pc \in {"writeInode", "writeData"},
                      pc' = "idle", LL' # <<>>, ret'.code = 0,
                      i = fte.inodeIdx, b = loc.buf
               PROVE  Holds(i, b)'
    OBVIOUS
  <2>1. WriteData /\ loc.count + 1 = loc.want
    BY WriteReturns
  <2> QED
    BY <2>1, LastDataStores
<1> QED
  BY <1>1, TypeCorrect, CallsConsistent, OwnersKept, PTL DEF Spec, WriteStores

-----------------------------------------------------------------------------
(* What tfs_readByte reads *)

(* Division by MAX_DATA_SIZE. *)
LEMMA Quotient ==
  ASSUME NEW d \in Nat, d > 0, NEW x \in Nat
  PROVE  /\ x \div d \in Nat /\ x % d \in 0..(d - 1)
         /\ x = (x \div d) * d + (x % d)
OBVIOUS

LEMMA QuotientOrder ==
  ASSUME NEW d \in Nat, d > 0, NEW p \in Int, NEW q \in Int,
         NEW u \in 0..(d - 1), NEW v \in 0..(d - 1), p * d + u <= q * d + v
  PROVE  p <= q
<1> SUFFICES ASSUME q + 1 <= p PROVE FALSE
  OBVIOUS
<1>1. (q + 1) * d <= p * d
  BY SMTT(30)
<1>2. (q + 1) * d = q * d + d
  BY SMTT(30)
<1>3. q * d \in Int /\ p * d \in Int
  OBVIOUS
<1> QED
  BY <1>1, <1>2, <1>3

LEMMA QuotientNext ==
  ASSUME NEW x \in Nat
  PROVE  BlocksFor(x + 1) = x \div DataSize + 1
<1>1. DataSize \in Nat /\ DataSize > 0
  BY SizesAssumption
<1>2. (x + DataSize) \div DataSize = x \div DataSize + 1
  BY <1>1, SMTT(30)
<1>3. (x + 1) + DataSize - 1 = x + DataSize
  BY <1>1
<1> QED
  BY <1>2, <1>3 DEF BlocksFor

LEMMA BlocksOrder ==
  ASSUME NEW m \in Nat, NEW n \in Nat, m < n
  PROVE  BlocksFor(m + 1) <= BlocksFor(n)
<1>1. DataSize \in Nat /\ DataSize > 0
  BY SizesAssumption
<1>2. PICK x \in Nat : n = x + 1 /\ m <= x
  <2>1. n - 1 \in Nat /\ n = (n - 1) + 1 /\ m <= n - 1
    OBVIOUS
  <2> QED
    BY <2>1
<1>3. /\ m \div DataSize \in Nat /\ m % DataSize \in 0..(DataSize - 1)
      /\ m = (m \div DataSize) * DataSize + (m % DataSize)
      /\ x \div DataSize \in Nat /\ x % DataSize \in 0..(DataSize - 1)
      /\ x = (x \div DataSize) * DataSize + (x % DataSize)
  BY <1>1, Quotient
<1>4. m \div DataSize <= x \div DataSize
  BY <1>1, <1>2, <1>3, QuotientOrder
<1> QED
  BY <1>2, <1>3, <1>4, QuotientNext

(* A file that holds a buffer has no more blocks than the disk. *)
LEMMA HoldsFits ==
  ASSUME size \in -1..NBlocks, NEW i, NEW b \in Buffers, Holds(i, b)
  PROVE  BlocksFor(Length[b]) \in Nat /\ BlocksFor(Length[b]) < NBlocks
<1>1. NBlocks \in Nat /\ NBlocks >= 2
  BY SizesAssumption
<1>2. BlocksFor(Length[b]) \in Nat
  BY ClientAssumption, BlocksForType
<1> SUFFICES ASSUME BlocksFor(Length[b]) >= NBlocks
             PROVE  FALSE
  BY <1>1, <1>2
<1> DEFINE S == 1..NBlocks
           f == [k \in S |-> Trail(i)[k]]
<1>3. ASSUME NEW k \in S
      PROVE  f[k] \in OnDisk /\ disk[f[k]].body = DataBody(b, k - 1)
  BY <1>1, <1>2 DEF Holds
<1>4. IsFiniteSet(S) /\ Cardinality(S) = NBlocks
  BY <1>1, FS_Interval
<1>5. IsFiniteSet(OnDisk) /\ Cardinality(OnDisk) < NBlocks
  <2>1. /\ IsFiniteSet(1..(size - 1))
        /\ Cardinality(1..(size - 1)) = IF 1 > size - 1 THEN 0 ELSE (size - 1) - 1 + 1
    BY <1>1, FS_Interval
  <2> QED
    BY <1>1, <2>1 DEF OnDisk
<1>6. f \in [S -> OnDisk]
  BY <1>3
<1>7. PICK x, y \in S : x # y /\ f[x] = f[y]
  <2> HIDE DEF f, S
  <2> QED
    BY <1>4, <1>5, <1>6, FS_PigeonHole
<1>8. DataBody(b, x - 1) = DataBody(b, y - 1)
  BY <1>3, <1>7
<1>9. x - 1 = y - 1
  BY <1>8 DEF DataBody
<1> QED
  BY <1>1, <1>7, <1>9

(* Where the walk is, and that the offset was within the file. *)
ReadInv ==
  pc = "readWalk" =>
    /\ loc.want = BlocksFor(fte.offset + 1) /\ loc.count < loc.want
    /\ fte.offset < FileSize(disk[fte.inodeIdx])
    /\ \A b \in Buffers :
         Holds(fte.inodeIdx, b) => loc.cur = Trail(fte.inodeIdx)[loc.count + 1]

LEMMA HoldsSame ==
  ASSUME UNCHANGED storage, NEW i, NEW b
  PROVE  Holds(i, b)' <=> Holds(i, b)
<1>1. disk' = disk /\ size' = size /\ OnDisk' = OnDisk
  BY DEF storage, OnDisk
<1> QED
  BY <1>1 DEF Holds, Trail

LEMMA TrailSame ==
  ASSUME UNCHANGED storage, NEW i
  PROVE  Trail(i)' = Trail(i)
<1>1. disk' = disk /\ size' = size /\ OnDisk' = OnDisk
  BY DEF storage, OnDisk
<1> QED
  BY <1>1 DEF Trail

LEMMA TakingElsewhere ==
  \A n, l : TakeBlocks(n, l) => pc' # "readWalk"
BY DEF TakeBlocks, GotBlocks, Goto

LEMMA ReadSteps ==
  ASSUME [Next]_vars, pc' = "readWalk"
  PROVE  (\E FD : ReadByte(FD)) \/ ReadWalk \/ UNCHANGED vars
<1>1. ASSUME NEW FD, NEW b, WriteFile(FD, b) PROVE FALSE
  BY <1>1 DEF WriteFile, Call, Return, ReturnByte
<1>2. ASSUME NEW n, OpenFile(n) PROVE FALSE
  BY <1>2 DEF OpenFile, Call
<1>3. ASSUME NEW FD,
             \/ CloseFile(FD) \/ DeleteFile(FD) \/ DeleteFileDies(FD)
             \/ (\E x : Seek(FD, x)) \/ (\E n : Rename(FD, n))
             \/ GetTimeStamp(FD) \/ IndexHit(FD)
      PROVE  FALSE
  BY <1>3 DEF CloseFile, CloseHead, DeleteFile, DeleteFileDies, Seek, Rename, GetTimeStamp,
              IndexHit, Call, Return, ReturnByte, Die
<1>4. ~ClientMount /\ ~Unmount /\ ~Refused /\ ~ListMissing
  BY DEF ClientMount, Unmount, Refused, ListMissing, Call, Return, ReturnByte, Die
<1>5. Client => \E FD : ReadByte(FD)
  BY <1>1, <1>2, <1>3, <1>4 DEF Client
<1>6. /\ ~MountOpens /\ ~MountFails /\ ~CreateBlock /\ ~Validate
      /\ ~FormatSuper /\ ~FormatBlock /\ ~FormatEnd
  BY DEF MountOpens, MountFails, CreateBlock, Validate, FormatSuper, FormatBlock,
         FormatEnd, MountReturns, Goto, Return, ReturnByte
<1>7. ~Lookup /\ ~CreateInode /\ ~WriteAlloc
  BY TakingElsewhere DEF Lookup, CreateInode, WriteAlloc, Opened, Return, ReturnByte
<1>8. ~AllocWalk /\ ~AllocSuper /\ ~AllocLast
  BY DEF AllocWalk, AllocSuper, AllocLast, GotBlocks, Goto
<1>9. /\ ~TruncBlock /\ ~TruncBlockFails /\ ~TruncLast /\ ~TruncSuper
      /\ ~DeleteBlock /\ ~DeleteBlockFails /\ ~DeleteLast /\ ~DeleteSuper
  BY DEF TruncBlock, TruncBlockFails, TruncLast, TruncSuper, DeleteBlock, DeleteBlockFails,
         DeleteLast, DeleteSuper, FreeOne, FreeLast, CloseHead, Goto, Return, ReturnByte
<1>10. ~WriteInode /\ ~WriteData /\ ~WriteDataFails /\ ~ReadWalkFails
  BY DEF WriteInode, WriteData, WriteDataFails, ReadWalkFails, Goto, Return, ReturnByte
<1>11. ~Crash
  BY DEF Crash, Die
<1> QED
  BY <1>5, <1>6, <1>7, <1>8, <1>9, <1>10, <1>11 DEF Next, Step

(* What the walk finds in a file that holds b, up to the block of byte x.  *)
LEMMA HoldsReach ==
  ASSUME size \in -1..NBlocks, NEW i, NEW b \in Buffers, Holds(i, b),
         NEW x \in Nat, x < Length[b]
  PROVE  /\ BlocksFor(x + 1) \in Nat
         /\ Trail(i)[1] = disk[i].nextIdx
         /\ \A k \in 1..BlocksFor(x + 1) :
              /\ Trail(i)[k] \in OnDisk
              /\ disk[Trail(i)[k]].body = DataBody(b, k - 1)
              /\ Trail(i)[k + 1] = disk[Trail(i)[k]].nextIdx
<1>1. Length[b] \in Nat /\ NBlocks \in Nat
  BY ClientAssumption, SizesAssumption
<1>2. /\ BlocksFor(x + 1) \in Nat /\ BlocksFor(Length[b]) \in Nat
      /\ BlocksFor(x + 1) <= BlocksFor(Length[b])
      /\ BlocksFor(Length[b]) < NBlocks
      /\ BlocksFor(x + 1) > 0
  BY <1>1, BlocksForType, BlocksOrder, HoldsFits, BlocksForPositive
<1>3. ASSUME NEW k \in 1..BlocksFor(x + 1)
      PROVE  /\ Trail(i)[k] \in OnDisk
             /\ disk[Trail(i)[k]].body = DataBody(b, k - 1)
             /\ Trail(i)[k + 1] = disk[Trail(i)[k]].nextIdx
  <2>1. k \in 1..BlocksFor(Length[b]) /\ k + 1 \in 1..NBlocks /\ (k + 1) - 1 = k
    BY <1>1, <1>2
  <2>2. Trail(i)[k] \in OnDisk /\ disk[Trail(i)[k]].body = DataBody(b, k - 1)
    BY <2>1 DEF Holds
  <2>3. Trail(i)[k + 1] = Succ(Trail(i)[k])
    BY <2>1, TrailDef
  <2> QED
    BY <2>2, <2>3 DEF Succ
<1>4. Trail(i)[1] = disk[i].nextIdx
  <2>1. 1 \in 1..NBlocks /\ 1 - 1 = 0 /\ 1 \in 1..BlocksFor(x + 1)
    BY <1>1, <1>2
  <2>2. Trail(i)[1] = Succ(i) /\ Trail(i)[1] \in OnDisk
    BY <1>3, <2>1, TrailDef
  <2> QED
    BY <2>2 DEF Succ
<1> QED
  BY <1>2, <1>3, <1>4

LEMMA ReadByteStarts ==
  ASSUME TypeOK, NEW FD, ReadByte(FD), pc' = "readWalk"
  PROVE  ReadInv'
<1>1. /\ UNCHANGED storage /\ UNCHANGED session /\ fte' = fte
      /\ fte.offset < FileSize(disk[fte.inodeIdx])
      /\ loc' = [NoCall EXCEPT !.cur = disk[fte.inodeIdx].nextIdx,
                               !.want = BlocksFor(fte.offset + 1)]
  <2>1. Served(FD) /\ fte.offset \in Nat
    BY ServedFile DEF ReadByte
  <2>2. Readable(fte.inodeIdx) => FileSize(disk[fte.inodeIdx]) \in Nat
    BY <2>1, ServedFile, FieldsRead
  <2> QED
    BY <2>1, <2>2 DEF ReadByte, Return, ReturnByte, Call, session, fte
<1>2. Served(FD) /\ fte.offset \in Nat
  BY ServedFile DEF ReadByte
<1>3. loc'.want = BlocksFor(fte.offset + 1) /\ loc'.count = 0
      /\ loc'.cur = disk[fte.inodeIdx].nextIdx
  BY <1>1 DEF NoCall
<1>4. loc'.count < loc'.want
  BY <1>2, <1>3, BlocksForPositive
<1>5. ASSUME NEW b \in Buffers, Holds(fte.inodeIdx, b)
      PROVE  loc'.cur = Trail(fte.inodeIdx)[loc'.count + 1]
  <2>1. fte.offset < Length[b]
    BY <1>1, <1>5 DEF Holds
  <2> QED
    BY <1>2, <1>3, <1>5, <2>1, HoldsReach DEF TypeOK
<1> PICK i : i = fte.inodeIdx
  OBVIOUS
<1>6. \A b \in Buffers : Holds(i, b)' => loc'.cur = Trail(i)'[loc'.count + 1]
  BY <1>1, <1>5, HoldsSame, TrailSame
<1>7. disk' = disk
  BY <1>1 DEF storage
<1> QED
  BY <1>1, <1>3, <1>4, <1>6, <1>7 DEF ReadInv

LEMMA ReadWalkGoes ==
  ASSUME TypeOK, CallOK, ReadInv, ReadWalk, pc' = "readWalk"
  PROVE  ReadInv'
<1>1. /\ UNCHANGED storage /\ LL' = LL /\ fte' = fte /\ pc = "readWalk"
      /\ loc.count + 1 < loc.want
      /\ loc' = [loc EXCEPT !.cur = disk[loc.cur].nextIdx, !.count = @ + 1]
  BY DEF ReadWalk, ReturnByte, Goto, fte
<1>2. /\ loc.want = BlocksFor(fte.offset + 1)
      /\ fte.offset < FileSize(disk[fte.inodeIdx])
      /\ \A b \in Buffers :
           Holds(fte.inodeIdx, b) => loc.cur = Trail(fte.inodeIdx)[loc.count + 1]
  BY <1>1 DEF ReadInv
<1>3. /\ loc'.want = loc.want /\ loc'.count = loc.count + 1
      /\ loc'.cur = disk[loc.cur].nextIdx /\ loc.count \in Nat
  BY <1>1, LocalFields DEF Locals
<1>4. fte.offset \in Nat
  BY ListKept, <1>1 DEF CallOK, Working, TypeOK, FTE
<1>5. ASSUME NEW b \in Buffers, Holds(fte.inodeIdx, b)
      PROVE  loc'.cur = Trail(fte.inodeIdx)[loc'.count + 1]
  <2>1. fte.offset < Length[b]
    BY <1>2, <1>5 DEF Holds
  <2>2. loc.count + 1 \in 1..BlocksFor(fte.offset + 1)
    BY <1>1, <1>2, <1>3, <1>4, BlocksForType
  <2>3. Trail(fte.inodeIdx)[(loc.count + 1) + 1]
          = disk[Trail(fte.inodeIdx)[loc.count + 1]].nextIdx
    BY <1>4, <1>5, <2>1, <2>2, HoldsReach DEF TypeOK
  <2> QED
    BY <1>2, <1>3, <1>5, <2>3
<1> PICK i : i = fte.inodeIdx
  OBVIOUS
<1>6. \A b \in Buffers : Holds(i, b)' => loc'.cur = Trail(i)'[loc'.count + 1]
  BY <1>1, <1>5, HoldsSame, TrailSame
<1>7. disk' = disk
  BY <1>1 DEF storage
<1> QED
  BY <1>1, <1>2, <1>3, <1>6, <1>7 DEF ReadInv

LEMMA ReadInvNext ==
  ASSUME TypeOK, CallOK, ReadInv, [Next]_vars
  PROVE  ReadInv'
<1>1. CASE pc' # "readWalk"
  BY <1>1 DEF ReadInv
<1>2. CASE pc' = "readWalk"
  <2>1. CASE \E FD : ReadByte(FD)
    BY <1>2, <2>1, ReadByteStarts
  <2>2. CASE ReadWalk
    BY <1>2, <2>2, ReadWalkGoes
  <2>3. CASE UNCHANGED vars
    <3>1. /\ UNCHANGED storage /\ disk' = disk /\ fte' = fte /\ loc' = loc /\ pc' = pc
      BY <2>3 DEF vars, storage, fte
    <3> PICK i : i = fte.inodeIdx
      OBVIOUS
    <3>2. \A b \in Buffers :
            (Holds(i, b)' <=> Holds(i, b)) /\ Trail(i)' = Trail(i)
      BY <3>1, HoldsSame, TrailSame
    <3> QED
      BY <3>1, <3>2 DEF ReadInv
  <2> QED
    BY <1>2, <2>1, <2>2, <2>3, ReadSteps
<1> QED
  BY <1>1, <1>2

LEMMA ReadGives ==
  ASSUME TypeOK, CallOK, ReadInv, [Next]_vars,
         pc = "readWalk", pc' = "idle", LL' # <<>>,
         NEW b \in Buffers, Holds(fte.inodeIdx, b)
  PROVE  ret' = [code |-> 0, byte |-> <<b, fte.offset>>]
<1>1. ReadWalk \/ ReadWalkFails
  <2>1. ~Client /\ ~Crash /\ ~UNCHANGED vars
    BY ClientIdle DEF Crash, Die, vars
  <2>2. Step => ReadWalk \/ ReadWalkFails
    BY DEF Step, MountOpens, MountFails, CreateBlock, Validate, FormatSuper, FormatBlock,
           FormatEnd, Lookup, CreateInode, AllocWalk, AllocSuper, AllocLast, TruncBlock,
           TruncBlockFails, TruncLast, TruncSuper, WriteAlloc, WriteInode, WriteData,
           WriteDataFails, DeleteBlock, DeleteBlockFails, DeleteLast, DeleteSuper
  <2> QED
    BY <2>1, <2>2 DEF Next
<1>2. /\ LL # <<>> /\ Readable(fte.inodeIdx) /\ fte.offset \in Nat
      /\ loc.count \in Nat /\ loc.want \in Nat
  BY ListKept, LocalFields DEF CallOK, Working, TypeOK, FTE
<1> PICK x \in Nat : x = fte.offset
  BY <1>2
<1> PICK i : i = fte.inodeIdx
  OBVIOUS
<1>3. /\ loc.want = BlocksFor(x + 1) /\ loc.count < loc.want
      /\ x < FileSize(disk[i]) /\ loc.cur = Trail(i)[loc.count + 1]
  BY DEF ReadInv
<1>4. x < Length[b] /\ Length[b] \in Nat
  BY <1>3, ClientAssumption DEF Holds
<1>5. \A k \in 1..BlocksFor(x + 1) :
        Trail(i)[k] \in OnDisk /\ disk[Trail(i)[k]].body = DataBody(b, k - 1)
  BY <1>4, HoldsReach DEF TypeOK
<1>6. loc.count + 1 \in 1..BlocksFor(x + 1)
  BY <1>2, <1>3
<1>7. /\ loc.cur \in OnDisk /\ (loc.count + 1) - 1 = loc.count
      /\ disk[loc.cur].body = DataBody(b, loc.count)
  BY <1>2, <1>3, <1>5, <1>6
<1>8. Readable(loc.cur)
  BY <1>2, <1>7 DEF Readable, OnDisk, TypeOK
<1>9. loc.count + 1 >= loc.want /\ ret' = [code |-> 0, byte |-> ByteAt(disk[loc.cur], x % DataSize)]
  BY <1>1, <1>2, <1>8 DEF ReadWalk, ReadWalkFails, ReturnByte, Goto
<1>10. loc.count = x \div DataSize
  <2>1. BlocksFor(x + 1) = x \div DataSize + 1
    BY QuotientNext
  <2>2. x \div DataSize \in Nat
    BY Quotient, SizesAssumption
  <2>3. loc.count + 1 = loc.want
    BY <1>2, <1>3, <1>9
  <2> QED
    BY <1>2, <1>3, <2>1, <2>2, <2>3
<1>11. loc.count * DataSize + (x % DataSize) = x
  BY <1>10, Quotient, SizesAssumption
<1>12. ByteAt(disk[loc.cur], x % DataSize) = <<b, x>>
  BY <1>4, <1>7, <1>11 DEF ByteAt, DataBody
<1> QED
  BY <1>9, <1>12

(* A tfs_readByte that ends, on a file that holds the whole of a buffer,   *)
(* returns 0 and the byte of the buffer at the file's offset, from         *)
(* whichever block that is in.                                             *)
THEOREM ReadsRight == Spec => ReadReturns
<1>1. Init => ReadInv
  BY DEF Init, ReadInv
<1>2. TypeOK /\ CallOK /\ ReadInv /\ [Next]_vars => ReadInv'
  BY ReadInvNext
<1>3. TypeOK /\ CallOK /\ ReadInv /\ [Next]_vars =>
        (pc = "readWalk" /\ pc' = "idle" /\ LL' # <<>> =>
           \A b \in Buffers :
             Holds(fte.inodeIdx, b) => ret' = [code |-> 0, byte |-> <<b, fte.offset>>])
  BY ReadGives
<1> QED
  BY <1>1, <1>2, <1>3, TypeCorrect, CallsConsistent, PTL DEF Spec, ReadReturns

=============================================================================
