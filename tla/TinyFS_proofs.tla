--------------------------- MODULE TinyFS_proofs ---------------------------
(***************************************************************************)
(* Type correctness of TinyFS and the consistency of its calls and of its  *)
(* open-file table, for disks, buffers, names and clients of every size.   *)
(***************************************************************************)
EXTENDS TinyFS, TLAPS, SequenceTheorems

-----------------------------------------------------------------------------
(* Blocks *)

(* The blocks the code builds are blocks. *)
LEMMA BlocksBuilt ==
  /\ RawBlock \in Block
  /\ \A fc, ff \in Int :
       [type |-> sb, nextIdx |-> 0, body |-> SuperBody(fc, ff)] \in Block
  /\ \A i \in Int :
       [type |-> FB, nextIdx |-> ToIdx(i), body |-> ZeroBody] \in Block
  /\ \A n \in AllNames :
       [type |-> inode, nextIdx |-> 0, body |-> InodeBody(n, 0)] \in Block
  /\ \A b \in Block, x \in Buffers, k \in Nat :
       [type |-> FEB, nextIdx |-> b.nextIdx, body |-> DataBody(x, k)] \in Block
  BY DEF RawBlock, Block, Body, ZeroBody, SuperBody, InodeBody, DataBody,
         ToIdx, sb, FB, FEB, inode

(* The fields read from a block, whatever it holds, have their types. *)
LEMMA FieldsRead ==
  ASSUME NEW b \in Block
  PROVE  /\ b.nextIdx \in 0..255
         /\ FreeCount(b) \in Int
         /\ FirstFree(b) \in Int
         /\ NameOf(b) \in AllNames
         /\ FileSize(b) \in Nat
  BY DEF Block, Body, ZeroBody, FreeCount, FirstFree, NameOf, FileSize,
         TextWord, AllNames

(* Stores through a pointer into a block leave a block. *)
LEMMA BlocksStored ==
  ASSUME NEW b \in Block
  PROVE  /\ Erased(b) \in Block
         /\ \A i \in 0..255 : [b EXCEPT !.nextIdx = i] \in Block
         /\ \A fc, ff \in Int : SetSuper(b, fc, ff) \in Block
         /\ \A n \in AllNames : SetName(b, n) \in Block
         /\ \A s \in Nat : SetSize(b, s) \in Block
         /\ \A s \in Nat, i \in Int :
              [type |-> inode, nextIdx |-> ToIdx(i), body |-> SetSize(b, s).body]
                \in Block
  <1>1. b.nextIdx \in 0..255 /\ b.body \in Body
    BY DEF Block
  <1>2. \A fc, ff \in Int : SuperBody(fc, ff) \in Body
    BY DEF Body, SuperBody
  <1>3. \A n \in AllNames, s \in Nat : InodeBody(n, s) \in Body
    BY DEF Body, InodeBody, ZeroBody
  <1>4. Erased(b) \in Block
    BY <1>1 DEF Erased, Block, FB, Body
  <1>5. \A i \in 0..255 : [b EXCEPT !.nextIdx = i] \in Block
    BY DEF Block
  <1>6. \A x \in Body : [b EXCEPT !.body = x] \in Block
    BY DEF Block
  <1>7. \A n \in AllNames : SetName(b, n) \in Block
    BY <1>3, <1>6, FieldsRead DEF SetName
  <1>8. \A s \in Nat : SetSize(b, s) \in Block
    BY <1>1, <1>3, <1>6, FieldsRead DEF SetSize
  <1>9. \A x \in Block, i \in Int :
          [type |-> inode, nextIdx |-> ToIdx(i), body |-> x.body] \in Block
    BY DEF Block, ToIdx, inode
  <1> QED
    BY <1>2, <1>4, <1>5, <1>6, <1>7, <1>8, <1>9 DEF SetSuper

(* A byte of a block's data is a byte. *)
LEMMA ByteAtType ==
  ASSUME NEW b \in Block, NEW j \in Nat
  PROVE  ByteAt(b, j) \in Bytes
  BY SizesAssumption, ClientAssumption DEF ByteAt, Bytes, Block, Body, ZeroBody

LEMMA BlocksForType ==
  \A n \in Nat : BlocksFor(n) \in Nat
  BY SizesAssumption DEF BlocksFor

-----------------------------------------------------------------------------
(* The shape of a call *)

LEMMA NoCallType == NoCall \in Locals /\ NoCall.then = "none"
  BY BlocksBuilt DEF NoCall, Locals, Callers, AllNames

LEMMA NoRetType == NoRet \in [code : Int, byte : Bytes]
  BY DEF NoRet, Bytes

(* The open-file list stays one through the changes made to it. *)
LEMMA ListKept ==
  ASSUME LL \in Seq(FTE), LL # <<>>
  PROVE  /\ fte \in FTE
         /\ fte = LL[1]
         /\ 1 \in 1..Len(LL)
         /\ Tail(LL) \in Seq(FTE)
         /\ \A o \in Nat : [LL EXCEPT ![1].offset = o] \in Seq(FTE)
  <1>1. fte \in FTE /\ Tail(LL) \in Seq(FTE)
    BY HeadTailProperties DEF fte
  <1>2. 1 \in 1..Len(LL)
    BY EmptySeq, LenProperties
  <1>3. fte = LL[1]
    BY DEF fte
  <1>4. ASSUME NEW o \in Nat
        PROVE  [LL EXCEPT ![1].offset = o] \in Seq(FTE)
    <2>1. [LL[1] EXCEPT !.offset = o] \in FTE
      BY <1>1, <1>3 DEF FTE
    <2>2. [LL EXCEPT ![1] = [LL[1] EXCEPT !.offset = o]] \in Seq(FTE)
      BY <1>2, <2>1, ExceptSeq
    <2> QED
      BY <2>2
  <1> QED
    BY <1>1, <1>2, <1>3, <1>4

(* What freeBlocks leaves to its caller, whether it found blocks or not.   *)
LEMMA GotBlocksLocals ==
  ASSUME NEW l \in Locals, NEW r \in Int
  PROVE  [l EXCEPT !.cur = r, !.last = 0, !.first = 0, !.count = 0,
                   !.blk = RawBlock] \in Locals
  <1> DEFINE m == [l EXCEPT !.cur = r, !.last = 0, !.first = 0]
  <1>1. m \in Locals
    <2>1. \A x, y \in Int : [l EXCEPT !.cur = r, !.last = x, !.first = y] \in Locals
      BY DEF Locals
    <2>2. 0 \in Int
      OBVIOUS
    <2> QED
      BY <2>1, <2>2, Zenon
  <1>2. [l EXCEPT !.cur = r, !.last = 0, !.first = 0, !.count = 0, !.blk = RawBlock]
          = [m EXCEPT !.count = 0, !.blk = RawBlock]
    BY DEF Locals
  <1>3. [m EXCEPT !.count = 0, !.blk = RawBlock] \in Locals
    <2> HIDE DEF m
    <2> QED
      BY <1>1, BlocksBuilt DEF Locals
  <1> QED
    BY <1>2, <1>3

LEMMA FreshLocals ==
  /\ \A n \in AllNames :
       [NoCall EXCEPT !.then = "tfs_openFile", !.name = n] \in Locals
  /\ \A b \in Buffers :
       [NoCall EXCEPT !.then = "tfs_writeFile", !.buf = b] \in Locals
  /\ \A c \in Int : [NoCall EXCEPT !.cur = c, !.first = c] \in Locals
  /\ \A c \in Int, n \in Nat : [NoCall EXCEPT !.cur = c, !.want = n] \in Locals
  BY NoCallType DEF Locals, Callers

(* The type invariant in three parts, which different operators keep. *)
StoreType == disk \in [Indices -> Block] /\ size \in -1..NBlocks

TableType ==
  /\ LL \in Seq(FTE)
  /\ diskFd \in {NotMounted, MountFailed, Mounted}
  /\ currentFD \in 1..(MaxFD + 1)

ControlType == pc \in PCs /\ loc \in Locals /\ ret \in [code : Int, byte : Bytes]

LEMMA TypeParts == TypeOK <=> StoreType /\ TableType /\ ControlType
  BY DEF TypeOK, StoreType, TableType, ControlType

LEMMA TypePartsNext == TypeOK' <=> StoreType' /\ TableType' /\ ControlType'
  BY DEF TypeOK, StoreType, TableType, ControlType

LEMMA StoreKept ==
  ASSUME StoreType, UNCHANGED storage
  PROVE  StoreType'
  BY DEF StoreType, storage

LEMMA TableKept ==
  ASSUME TableType, UNCHANGED session
  PROVE  TableType'
  BY DEF TableType, session

LEMMA WriteBlockType ==
  ASSUME StoreType, NEW i, NEW b \in Block, WriteBlock(i, b)
  PROVE  StoreType' /\ size' = size
  BY DEF StoreType, WriteBlock

LEMMA GotoType ==
  ASSUME ControlType, NEW p \in PCs, NEW l \in Locals, Goto(p, l) \/ Call(p, l)
  PROVE  ControlType' /\ pc' = p /\ loc' = l
  BY NoRetType DEF ControlType, Goto, Call

LEMMA ReturnByteType ==
  ASSUME NEW c \in Int, NEW b \in Bytes, ReturnByte(c, b)
  PROVE  ControlType' /\ pc' = "idle" /\ loc' = NoCall
  BY NoCallType DEF ControlType, ReturnByte, PCs

LEMMA ReturnType ==
  ASSUME NEW c \in Int, Return(c)
  PROVE  ControlType' /\ pc' = "idle" /\ loc' = NoCall
  BY ReturnByteType DEF Return, Bytes

(* Between calls nothing is asked of the locals. *)
LEMMA IdleCallOK ==
  ASSUME pc' = "idle", loc' = NoCall
  PROVE  CallOK'
  BY NoCallType DEF CallOK, Allocating, Working, Writing, Mounting

(* The process may end at any point. *)
LEMMA DieType ==
  ASSUME TypeOK, Die
  PROVE  TypeOK' /\ CallOK'
  <1>1. StoreType'
    BY TypeParts, StoreKept DEF Die
  <1>2. TableType'
    BY SizesAssumption, EmptySeq DEF TableType, Die
  <1>3. ControlType'
    BY NoCallType, NoRetType DEF ControlType, Die, PCs
  <1>4. CallOK'
    BY IdleCallOK DEF Die
  <1> QED
    BY <1>1, <1>2, <1>3, <1>4, TypePartsNext

-----------------------------------------------------------------------------
(* Mounting *)

LEMMA MountReturnsType ==
  ASSUME TypeOK, CallOK, NEW fd \in {MountFailed, Mounted}, MountReturns(fd),
         pc \in Mounting
  PROVE  TableType' /\ ControlType' /\ CallOK'
  <1>1. TableType'
    BY DEF TypeOK, TableType, MountReturns
  <1>2. CASE loc.then = "tfs_openFile"
    <2>1. pc' = "lookup" /\ loc' = [loc EXCEPT !.cur = 0] /\ ret' = ret
          /\ currentFD' = currentFD
      BY <1>2 DEF MountReturns, Goto
    <2>2. PICK c \in Int : loc' = [loc EXCEPT !.cur = c]
      BY <2>1
    <2>3. loc' \in Locals /\ loc'.then = "tfs_openFile"
      BY <1>2, <2>2 DEF TypeOK, Locals
    <2>4. ControlType'
      BY <2>1, <2>3 DEF TypeOK, ControlType, PCs
    <2>5. currentFD <= MaxFD
      BY <1>2 DEF CallOK
    <2>6. CallOK'
      BY <2>1, <2>3, <2>5 DEF CallOK, Allocating, Working, Writing, Mounting
    <2> QED
      BY <1>1, <2>4, <2>6
  <1>3. CASE loc.then # "tfs_openFile"
    <2>1. Return(fd)
      BY <1>3 DEF MountReturns
    <2>2. fd \in Int
      BY DEF MountFailed, Mounted, TFS_ERROR_DISK_OPEN
    <2> QED
      BY <1>1, <2>1, <2>2, ReturnType, IdleCallOK
  <1> QED
    BY <1>2, <1>3

(* A call of tfs_mount stays in it: no step of it concerns a file.         *)
LEMMA MountStays ==
  ASSUME TypeOK, CallOK, pc \in Mounting, pc' \in Mounting,
         loc' \in Locals, loc'.then = loc.then, UNCHANGED session,
         pc' = "create" => size' \in 0..(NBlocks - 1)
  PROVE  CallOK'
  BY DEF CallOK, Mounting, Allocating, Working, Writing, session

LEMMA ClientMountType ==
  ASSUME TypeOK, CallOK, ClientMount
  PROVE  TypeOK' /\ CallOK'
  <1>1. /\ pc' = "mount" /\ loc' = [NoCall EXCEPT !.then = "client"]
        /\ ret' = NoRet /\ UNCHANGED session /\ UNCHANGED storage
    BY DEF ClientMount, Call
  <1>2. loc' \in Locals /\ loc'.then = "client"
    BY <1>1, NoCallType DEF Locals, Callers
  <1>3. StoreType' /\ TableType' /\ ControlType'
    BY <1>1, <1>2, NoRetType, TypeParts, StoreKept, TableKept DEF ControlType, PCs
  <1>4. CallOK'
    BY <1>1, <1>2 DEF CallOK, Mounting, Allocating, Working, Writing
  <1> QED
    BY <1>3, <1>4, TypePartsNext

LEMMA MountOpensType ==
  ASSUME TypeOK, CallOK, MountOpens
  PROVE  TypeOK' /\ CallOK'
  <1>1. StoreType'
    BY SizesAssumption DEF MountOpens, TypeOK, StoreType, storage
  <1>2. TableType'
    BY TypeParts, TableKept DEF MountOpens
  <1>3. ControlType' /\ loc' = loc
    BY DEF MountOpens, TypeOK, ControlType, Goto, PCs
  <1>4. pc \in Mounting /\ pc' \in Mounting /\ UNCHANGED session
        /\ (pc' = "create" => size' \in 0..(NBlocks - 1))
    BY SizesAssumption DEF MountOpens, Goto, Mounting
  <1>5. CallOK'
    BY <1>3, <1>4, MountStays DEF ControlType
  <1> QED
    BY <1>1, <1>2, <1>3, <1>5, TypePartsNext

LEMMA MountFailsType ==
  ASSUME TypeOK, CallOK, MountFails
  PROVE  TypeOK' /\ CallOK'
  <1>1. StoreType'
    BY TypeParts, StoreKept DEF MountFails
  <1>2. pc \in Mounting /\ MountReturns(MountFailed)
    BY DEF MountFails, Mounting, MountFailed
  <1> QED
    BY <1>1, <1>2, MountReturnsType, TypePartsNext

LEMMA CreateBlockType ==
  ASSUME TypeOK, CallOK, CreateBlock
  PROVE  TypeOK' /\ CallOK'
  <1>1. size \in 0..(NBlocks - 1)
    BY DEF CreateBlock, CallOK
  <1>2. StoreType'
    <2>1. RawBlock \in Block
      BY BlocksBuilt
    <2>2. disk' \in [Indices -> Block]
      BY <2>1 DEF CreateBlock, TypeOK
    <2>3. size' \in -1..NBlocks
      BY <1>1, SizesAssumption DEF CreateBlock
    <2> QED
      BY <2>2, <2>3 DEF StoreType
  <1>3. TableType'
    BY TypeParts, TableKept DEF CreateBlock
  <1>4. ControlType' /\ loc' = loc
    BY DEF CreateBlock, TypeOK, ControlType, Goto, PCs
  <1>5. pc \in Mounting /\ pc' \in Mounting /\ UNCHANGED session
        /\ (pc' = "create" => size' \in 0..(NBlocks - 1))
    BY <1>1, SizesAssumption DEF CreateBlock, Goto, Mounting
  <1>6. CallOK'
    BY <1>4, <1>5, MountStays DEF ControlType
  <1> QED
    BY <1>2, <1>3, <1>4, <1>6, TypePartsNext

LEMMA ValidateType ==
  ASSUME TypeOK, CallOK, Validate
  PROVE  TypeOK' /\ CallOK'
  <1>1. StoreType'
    BY TypeParts, StoreKept DEF Validate
  <1>2. pc \in Mounting
    BY DEF Validate, Mounting
  <1>3. CASE MountReturns(Mounted)
    BY <1>1, <1>2, <1>3, MountReturnsType, TypePartsNext
  <1>4. CASE Goto("format", loc) /\ UNCHANGED session
    <2>1. TableType' /\ ControlType' /\ pc' = "format" /\ loc' = loc
      BY <1>4, TypeParts, TableKept DEF Goto, ControlType, PCs
    <2>2. CallOK'
      BY <1>2, <1>4, <2>1, MountStays DEF ControlType, Mounting
    <2> QED
      BY <1>1, <2>1, <2>2, TypePartsNext
  <1> QED
    BY <1>3, <1>4 DEF Validate

LEMMA FormatSuperType ==
  ASSUME TypeOK, CallOK, FormatSuper
  PROVE  TypeOK' /\ CallOK'
  <1> DEFINE b == [type |-> sb, nextIdx |-> 0, body |-> SuperBody(size - 1, 1)]
  <1>1. b \in Block
    <2>1. size - 1 \in Int /\ 1 \in Int
      BY SizesAssumption DEF TypeOK
    <2> QED
      BY <2>1, BlocksBuilt
  <1>2. WriteBlock(0, b)
    BY DEF FormatSuper
  <1>3. StoreType'
    BY <1>1, <1>2, WriteBlockType, TypeParts
  <1>4. loc' = [loc EXCEPT !.cur = 1] /\ ret' = ret /\ UNCHANGED session
        /\ pc \in Mounting /\ pc' \in {"formatEnd", "formatBlock"}
    BY DEF FormatSuper, Goto, Mounting
  <1>5. loc' \in Locals /\ loc'.then = loc.then
    <2>1. PICK c \in Int : loc' = [loc EXCEPT !.cur = c]
      BY <1>4
    <2> QED
      BY <2>1 DEF TypeOK, Locals
  <1>6. TableType' /\ ControlType'
    BY <1>4, <1>5, TypeParts, TableKept DEF ControlType, PCs
  <1>7. CallOK'
    BY <1>4, <1>5, MountStays DEF Mounting
  <1> QED
    BY <1>3, <1>6, <1>7, TypePartsNext

LEMMA FormatBlockType ==
  ASSUME TypeOK, CallOK, FormatBlock
  PROVE  TypeOK' /\ CallOK'
  <1>1. pc \in Mounting
    BY DEF FormatBlock, Mounting
  <1>2. CASE loc.cur < size
    <2> DEFINE b == [type |-> FB, nextIdx |-> ToIdx(loc.cur + 1), body |-> ZeroBody]
    <2>1. loc.cur + 1 \in Int
      BY DEF TypeOK, Locals
    <2>2. b \in Block
      BY <2>1, BlocksBuilt
    <2>3. WriteBlock(loc.cur, b)
      BY <1>2 DEF FormatBlock
    <2>4. StoreType'
      BY <2>2, <2>3, WriteBlockType, TypeParts
    <2>5. loc' = [loc EXCEPT !.cur = @ + 1] /\ ret' = ret /\ UNCHANGED session
          /\ pc' = "formatBlock"
      BY <1>2 DEF FormatBlock, Goto
    <2>6. loc' \in Locals /\ loc'.then = loc.then
      BY <2>1, <2>5 DEF TypeOK, Locals
    <2>7. TableType' /\ ControlType'
      BY <2>5, <2>6, TypeParts, TableKept DEF ControlType, PCs
    <2>8. CallOK'
      BY <1>1, <2>5, <2>6, MountStays DEF Mounting
    <2> QED
      BY <2>4, <2>7, <2>8, TypePartsNext
  <1>3. CASE ~(loc.cur < size)
    <2>1. MountReturns(Mounted) /\ UNCHANGED storage
      BY <1>3 DEF FormatBlock
    <2> QED
      BY <1>1, <2>1, MountReturnsType, StoreKept, TypeParts, TypePartsNext
  <1> QED
    BY <1>2, <1>3

LEMMA FormatEndType ==
  ASSUME TypeOK, CallOK, FormatEnd
  PROVE  TypeOK' /\ CallOK'
  <1> DEFINE b == [type |-> sb, nextIdx |-> 0, body |-> SuperBody(0, 0)]
  <1>1. b \in Block
    BY BlocksBuilt
  <1>2. WriteBlock(0, b) /\ MountReturns(Mounted) /\ pc \in Mounting
    BY DEF FormatEnd, Mounting
  <1> QED
    BY <1>1, <1>2, WriteBlockType, MountReturnsType, TypeParts, TypePartsNext

LEMMA UnmountType ==
  ASSUME TypeOK, CallOK, Unmount
  PROVE  TypeOK' /\ CallOK'
  <1>1. StoreType'
    BY TypeParts, StoreKept DEF Unmount, storage
  <1>2. TableType'
    BY DEF Unmount, TypeOK, TableType
  <1>3. Return(0) \/ Return(TFS_ERROR_DISK_OPEN)
    BY DEF Unmount
  <1>4. ControlType' /\ pc' = "idle" /\ loc' = NoCall
    BY <1>3, ReturnType DEF TFS_ERROR_DISK_OPEN
  <1> QED
    BY <1>1, <1>2, <1>4, IdleCallOK, TypePartsNext

-----------------------------------------------------------------------------
(* Opening *)

LEMMA OpenFileType ==
  ASSUME TypeOK, CallOK, NEW n \in Names, OpenFile(n)
  PROVE  TypeOK' /\ CallOK'
  <1> DEFINE l == [NoCall EXCEPT !.then = "tfs_openFile", !.name = n]
  <1>1. l \in Locals /\ l.then = "tfs_openFile"
    BY FreshLocals, NoCallType DEF AllNames, Locals
  <1>2. /\ loc' = l /\ pc' \in {"mount", "lookup"} /\ ret' = NoRet
        /\ currentFD <= MaxFD /\ UNCHANGED session /\ UNCHANGED storage
    BY DEF OpenFile, Call
  <1>3. StoreType' /\ TableType' /\ ControlType'
    BY <1>1, <1>2, NoRetType, TypeParts, StoreKept, TableKept DEF ControlType, PCs
  <1>4. CallOK'
    BY <1>1, <1>2 DEF CallOK, Mounting, Allocating, Working, Writing, session
  <1> QED
    BY <1>3, <1>4, TypePartsNext

LEMMA OpenedType ==
  ASSUME TypeOK, CallOK, NEW idx \in Int, Opened(idx), currentFD <= MaxFD
  PROVE  TableType' /\ ControlType' /\ CallOK'
  <1> DEFINE e == [fd |-> currentFD, inodeIdx |-> idx, offset |-> 0,
                   fileName |-> loc.name]
  <1>1. e \in FTE
    BY SizesAssumption DEF TypeOK, FTE, Locals
  <1>2. LL' \in Seq(FTE)
    BY <1>1, AppendProperties DEF Opened, TypeOK
  <1>3. TableType'
    BY <1>2, SizesAssumption DEF Opened, TypeOK, TableType
  <1>4. Return(currentFD) /\ currentFD \in Int
    BY SizesAssumption DEF Opened, TypeOK
  <1> QED
    BY <1>3, <1>4, ReturnType, IdleCallOK

(* A block that can be read is one of the disk's. *)
LEMMA ReadBlock ==
  ASSUME TypeOK, NEW i \in Int, Readable(i)
  PROVE  disk[i] \in Block /\ disk[i].nextIdx \in Int
  <1>1. i \in Indices
    BY SizesAssumption DEF TypeOK, Readable, Indices
  <1>2. disk[i] \in Block
    BY <1>1 DEF TypeOK
  <1> QED
    BY <1>2, FieldsRead

LEMMA LocalFields ==
  ASSUME TypeOK
  PROVE  /\ loc \in Locals
         /\ loc.cur \in Int /\ loc.last \in Int /\ loc.first \in Int
         /\ loc.count \in Nat /\ loc.count + 1 \in Nat /\ loc.want \in Nat
         /\ loc.inb \in Block
  <1>1. loc.count \in Nat
    BY DEF TypeOK, Locals
  <1> QED
    BY <1>1 DEF TypeOK, Locals

(* freeBlocks goes back to its caller with a number. *)
LEMMA GotBlocksType ==
  ASSUME ControlType, NEW r \in Int, NEW l \in Locals, GotBlocks(r, l)
  PROVE  /\ ControlType'
         /\ pc' = IF l.then = "createFile" THEN "createInode" ELSE "writeInode"
         /\ loc'.then = l.then /\ loc'.buf = l.buf /\ loc'.name = l.name
  <1>1. loc' = [l EXCEPT !.cur = r, !.last = 0, !.first = 0, !.count = 0,
                         !.blk = RawBlock]
        /\ ret' = ret
        /\ pc' = IF l.then = "createFile" THEN "createInode" ELSE "writeInode"
    BY DEF GotBlocks, Goto
  <1>2. loc' \in Locals
    BY <1>1, GotBlocksLocals
  <1>3. loc'.then = l.then /\ loc'.buf = l.buf /\ loc'.name = l.name
    BY <1>1 DEF Locals
  <1> QED
    BY <1>1, <1>2, <1>3 DEF ControlType, PCs

LEMMA TakeBlocksType ==
  ASSUME StoreType, ControlType, NEW n \in Nat, NEW l \in Locals, TakeBlocks(n, l)
  PROVE  /\ ControlType'
         /\ \/ pc' = "allocWalk"
            \/ pc' = IF l.then = "createFile" THEN "createInode" ELSE "writeInode"
         /\ loc'.then = l.then /\ loc'.buf = l.buf /\ loc'.name = l.name
  <1>1. CASE FreeCount(disk[0]) < n
    <2> DEFINE m == [l EXCEPT !.want = n]
    <2>1. m \in Locals /\ m.then = l.then /\ m.buf = l.buf /\ m.name = l.name
      BY DEF Locals
    <2>2. GotBlocks(TFS_ERROR_INVALID_PARAMETER, m)
      BY <1>1 DEF TakeBlocks
    <2>3. TFS_ERROR_INVALID_PARAMETER \in Int
      BY DEF TFS_ERROR_INVALID_PARAMETER
    <2> HIDE DEF m
    <2> QED
      BY <2>1, <2>2, <2>3, GotBlocksType
  <1>2. CASE ~(FreeCount(disk[0]) < n)
    <2>1. FirstFree(disk[0]) \in Int
      BY FieldsRead, SizesAssumption DEF StoreType, Indices
    <2>2. 0 \in Nat
      OBVIOUS
    <2>3. PICK c \in Int, k \in Nat :
            loc' = [l EXCEPT !.cur = c, !.first = c, !.count = k, !.want = n]
      BY <1>2, <2>1, <2>2, Zenon DEF TakeBlocks, Goto
    <2>4. loc' \in Locals /\ loc'.then = l.then /\ loc'.buf = l.buf /\ loc'.name = l.name
      BY <2>3 DEF Locals
    <2>5. pc' = "allocWalk" /\ ret' = ret
      BY <1>2 DEF TakeBlocks, Goto
    <2> QED
      BY <2>4, <2>5 DEF ControlType, PCs
  <1> QED
    BY <1>1, <1>2

LEMMA LookupType ==
  ASSUME TypeOK, CallOK, Lookup
  PROVE  TypeOK' /\ CallOK'
  <1>1. StoreType'
    BY TypeParts, StoreKept DEF Lookup
  <1>2. pc = "lookup" /\ loc.then = "tfs_openFile" /\ currentFD <= MaxFD
    BY DEF Lookup, CallOK
  <1>3. CASE Return(TFS_ERROR_BAD_ALLOC) /\ UNCHANGED session
    BY <1>1, <1>3, ReturnType, IdleCallOK, TableKept, TypeParts, TypePartsNext
    DEF TFS_ERROR_BAD_ALLOC
  <1>4. CASE \E idx \in Int : Opened(idx)
    BY <1>1, <1>2, <1>4, OpenedType, TypePartsNext
  <1>5. CASE TakeBlocks(1, [loc EXCEPT !.then = "createFile"]) /\ UNCHANGED session
    <2> DEFINE l == [loc EXCEPT !.then = "createFile"]
    <2>1. l \in Locals /\ l.then = "createFile"
      BY DEF TypeOK, Locals, Callers
    <2>2. TakeBlocks(1, l) /\ 1 \in Nat
      BY <1>5
    <2> HIDE DEF l
    <2>3. /\ ControlType' /\ loc'.then = "createFile"
          /\ pc' \in {"allocWalk", "createInode"}
      BY <2>1, <2>2, TakeBlocksType, TypeParts
    <2>4. TableType' /\ currentFD' = currentFD
      BY <1>5, TableKept, TypeParts DEF session
    <2>5. CallOK'
      BY <1>2, <2>3, <2>4 DEF CallOK, Mounting, Allocating, Working, Writing
    <2> QED
      BY <1>1, <2>3, <2>4, <2>5, TypePartsNext
  <1>6. FindByName(loc.name) # 0 => FindByName(loc.name) \in Int
    BY DEF FindByName, Hits
  <1>7. TFS_ERROR_VALIDATE \in Int /\ TFS_ERROR_INVALID_PARAMETER \in Int
    BY DEF TFS_ERROR_VALIDATE, TFS_ERROR_INVALID_PARAMETER
  <1> QED
    BY <1>3, <1>4, <1>5, <1>6, <1>7 DEF Lookup

LEMMA CreateInodeType ==
  ASSUME TypeOK, CallOK, CreateInode
  PROVE  TypeOK' /\ CallOK'
  <1> DEFINE b == [type |-> inode, nextIdx |-> 0, body |-> InodeBody(loc.name, 0)]
  <1>1. currentFD <= MaxFD
    BY DEF CreateInode, CallOK
  <1>2. b \in Block /\ loc.cur \in Int
    BY BlocksBuilt DEF TypeOK, Locals
  <1>3. StoreType'
    BY <1>2, WriteBlockType, StoreKept, TypeParts DEF CreateInode
  <1>4. Opened(loc.cur) \/ Opened(TFS_ERROR_DISK_WRITE)
    BY DEF CreateInode
  <1>5. TFS_ERROR_DISK_WRITE \in Int
    BY DEF TFS_ERROR_DISK_WRITE
  <1> QED
    BY <1>1, <1>2, <1>3, <1>4, <1>5, OpenedType, TypePartsNext

-----------------------------------------------------------------------------
(* Taking blocks *)

(* A step of freeBlocks that leaves the file of tfs_writeFile in place.    *)
LEMMA AllocStays ==
  ASSUME CallOK, pc \in Allocating, UNCHANGED session, size' = size,
         loc'.then = loc.then, loc'.buf = loc.buf,
         \/ pc' \in Allocating
         \/ pc' = IF loc.then = "createFile" THEN "createInode" ELSE "writeInode"
  PROVE  CallOK'
  BY DEF CallOK, Mounting, Allocating, Working, Writing, session, Readable, fte

LEMMA AllocWalkType ==
  ASSUME TypeOK, CallOK, AllocWalk
  PROVE  TypeOK' /\ CallOK'
  <1>1. StoreType' /\ TableType' /\ size' = size /\ UNCHANGED session
    BY TypeParts, StoreKept, TableKept DEF AllocWalk, storage
  <1>2. pc \in Allocating
    BY DEF AllocWalk, Allocating
  <1>3. CASE Readable(loc.cur)
    <2>1. disk[loc.cur] \in Block /\ disk[loc.cur].nextIdx \in Int
      BY <1>3, ReadBlock, LocalFields
    <2>2. loc.cur \in Int /\ loc.count + 1 \in Nat
      BY LocalFields
    <2>3. PICK b \in Block, x \in Int, c \in Int, n \in Nat :
            loc' = [loc EXCEPT !.blk = b, !.last = x, !.cur = c, !.count = n]
      BY <1>3, <2>1, <2>2 DEF AllocWalk, Goto
    <2>4. loc' \in Locals /\ loc'.then = loc.then /\ loc'.buf = loc.buf
      BY <2>3 DEF TypeOK, Locals
    <2>5. pc' \in {"allocWalk", "allocSuper"} /\ ret' = ret
      BY <1>3 DEF AllocWalk, Goto
    <2>6. ControlType'
      BY <2>4, <2>5, TypeParts DEF ControlType, PCs
    <2>7. CallOK'
      BY <1>1, <1>2, <2>4, <2>5, AllocStays DEF Allocating
    <2> QED
      BY <1>1, <2>6, <2>7, TypePartsNext
  <1>4. CASE ~Readable(loc.cur)
    <2>1. GotBlocks(TFS_ERROR_DISK_READ, loc) /\ TFS_ERROR_DISK_READ \in Int
      BY <1>4 DEF AllocWalk, TFS_ERROR_DISK_READ
    <2>2. loc \in Locals
      BY DEF TypeOK
    <2> QED
      BY <1>1, <1>2, <2>1, <2>2, GotBlocksType, AllocStays, TypeParts, TypePartsNext
  <1> QED
    BY <1>3, <1>4

LEMMA AllocSuperType ==
  ASSUME TypeOK, CallOK, AllocSuper
  PROVE  TypeOK' /\ CallOK'
  <1> DEFINE b == SetSuper(disk[0], FreeCount(disk[0]) - loc.want, loc.cur)
  <1>1. disk[0] \in Block
    BY SizesAssumption DEF TypeOK, Indices
  <1>2. FreeCount(disk[0]) - loc.want \in Int /\ loc.cur \in Int
    <2>1. FreeCount(disk[0]) \in Int
      BY <1>1, FieldsRead
    <2>2. loc.want \in Int /\ loc.cur \in Int
      BY LocalFields
    <2> QED
      BY <2>1, <2>2
  <1>3. b \in Block
    BY <1>1, <1>2, BlocksStored
  <1>4. WriteBlock(0, b) /\ UNCHANGED session /\ pc \in Allocating
        /\ Goto("allocLast", loc)
    BY DEF AllocSuper, Allocating
  <1>5. StoreType' /\ size' = size
    BY <1>3, <1>4, WriteBlockType, TypeParts
  <1>6. TableType' /\ ControlType' /\ pc' = "allocLast" /\ loc' = loc
    BY <1>4, TypeParts, TableKept DEF Goto, ControlType, PCs
  <1>7. CallOK'
    BY <1>4, <1>5, <1>6, AllocStays DEF Allocating
  <1> QED
    BY <1>5, <1>6, <1>7, TypePartsNext

LEMMA AllocLastType ==
  ASSUME TypeOK, CallOK, AllocLast
  PROVE  TypeOK' /\ CallOK'
  <1> DEFINE b == [loc.blk EXCEPT !.nextIdx = 0]
  <1>1. loc.blk \in Block /\ 0 \in 0..255 /\ loc \in Locals /\ loc.first \in Int
    BY DEF TypeOK, Locals
  <1>2. b \in Block
    BY <1>1 DEF Block
  <1>3. WriteBlock(loc.last, b) /\ UNCHANGED session /\ pc \in Allocating
        /\ GotBlocks(loc.first, loc)
    BY DEF AllocLast, Allocating
  <1>4. StoreType' /\ TableType' /\ size' = size
    BY <1>2, <1>3, WriteBlockType, TableKept, TypeParts
  <1> QED
    BY <1>1, <1>3, <1>4, GotBlocksType, AllocStays, TypeParts, TypePartsNext

-----------------------------------------------------------------------------
(* Working on the file at the head of the list *)

(* A step within one call that keeps the file where it is.                 *)
LEMMA WorkStays ==
  ASSUME CallOK, pc \in Working, pc' \in Working, UNCHANGED session, size' = size,
         loc'.then = loc.then, loc'.buf = loc.buf, pc' \in Writing => pc \in Writing
  PROVE  CallOK'
  BY DEF CallOK, Mounting, Allocating, Working, Writing, session, Readable, fte

LEMMA FreeOneType ==
  ASSUME TypeOK, NEW p \in PCs, NEW end \in PCs, Readable(loc.cur), FreeOne(p, end)
  PROVE  /\ TypeOK' /\ size' = size /\ UNCHANGED session
         /\ pc' \in {p, end} /\ loc'.then = loc.then /\ loc'.buf = loc.buf
         /\ loc'.name = loc.name
  <1>1. disk[loc.cur] \in Block /\ disk[loc.cur].nextIdx \in Int
    BY ReadBlock, LocalFields
  <1>2. Erased(disk[loc.cur]) \in Block
    BY <1>1, BlocksStored
  <1>3. WriteBlock(loc.cur, Erased(disk[loc.cur])) /\ UNCHANGED session
    BY DEF FreeOne
  <1>4. StoreType' /\ TableType' /\ size' = size
    BY <1>2, <1>3, WriteBlockType, TableKept, TypeParts
  <1>5. loc.cur \in Int /\ loc.count + 1 \in Nat
    BY LocalFields
  <1>6. PICK x \in Int, c \in Int, n \in Nat :
          loc' = [loc EXCEPT !.last = x, !.cur = c, !.count = n]
    BY <1>1, <1>5 DEF FreeOne, Goto
  <1>7. loc' \in Locals /\ loc'.then = loc.then /\ loc'.buf = loc.buf
         /\ loc'.name = loc.name
    BY <1>6 DEF TypeOK, Locals
  <1>8. pc' \in {p, end} /\ ret' = ret
    BY DEF FreeOne, Goto
  <1>9. ControlType'
    BY <1>7, <1>8, TypeParts DEF ControlType
  <1> QED
    BY <1>3, <1>4, <1>7, <1>8, <1>9, TypePartsNext

LEMMA FreeLastType ==
  ASSUME TypeOK, NEW p \in PCs, FreeLast(p)
  PROVE  TypeOK' /\ size' = size /\ UNCHANGED session /\ pc' = p /\ loc' = loc
  <1>1. disk[0] \in Block
    BY SizesAssumption DEF TypeOK, Indices
  <1>2. FirstFree(disk[0]) \in Int
    BY <1>1, FieldsRead
  <1> DEFINE b == [type |-> FB, nextIdx |-> ToIdx(FirstFree(disk[0])),
                   body |-> ZeroBody]
  <1>3. b \in Block
    BY <1>2, BlocksBuilt
  <1>4. WriteBlock(loc.last, b) /\ UNCHANGED session /\ Goto(p, loc)
    BY DEF FreeLast
  <1>5. loc \in Locals
    BY DEF TypeOK
  <1> QED
    BY <1>3, <1>4, <1>5, WriteBlockType, TableKept, GotoType, TypeParts, TypePartsNext

LEMMA FreeSuperType ==
  ASSUME TypeOK, FreeSuper
  PROVE  StoreType' /\ size' = size
  <1>1. disk[0] \in Block
    BY SizesAssumption DEF TypeOK, Indices
  <1>2. FreeCount(disk[0]) + loc.count \in Int /\ loc.first \in Int
    <2>1. FreeCount(disk[0]) \in Int
      BY <1>1, FieldsRead
    <2>2. loc.count \in Int /\ loc.first \in Int
      BY LocalFields
    <2> QED
      BY <2>1, <2>2
  <1>3. SetSuper(disk[0], FreeCount(disk[0]) + loc.count, loc.first) \in Block
    BY <1>1, <1>2, BlocksStored
  <1> QED
    BY <1>3, WriteBlockType, TypeParts DEF FreeSuper

LEMMA TruncBlockType ==
  ASSUME TypeOK, CallOK, TruncBlock
  PROVE  TypeOK' /\ CallOK'
  <1>1. FreeOne("truncBlock", "truncLast") /\ Readable(loc.cur) /\ pc = "truncBlock"
    BY DEF TruncBlock
  <1>2. "truncBlock" \in PCs /\ "truncLast" \in PCs
    BY DEF PCs
  <1>3. /\ TypeOK' /\ size' = size /\ UNCHANGED session
        /\ pc' \in {"truncBlock", "truncLast"}
        /\ loc'.then = loc.then /\ loc'.buf = loc.buf
    BY <1>1, <1>2, FreeOneType
  <1> QED
    BY <1>1, <1>3, WorkStays DEF Working, Writing

LEMMA TruncEndType ==
  ASSUME TypeOK, CallOK, pc \in Writing, StoreType', size' = size, UNCHANGED session,
         Goto("writeAlloc", [NoCall EXCEPT !.then = loc.then, !.buf = loc.buf])
  PROVE  TypeOK' /\ CallOK'
  <1>1. loc.then = "tfs_writeFile" /\ loc.buf \in Buffers
    BY DEF CallOK
  <1>2. loc' = [NoCall EXCEPT !.then = "tfs_writeFile", !.buf = loc.buf]
        /\ pc' = "writeAlloc" /\ ret' = ret
    BY <1>1 DEF Goto
  <1>3. loc' \in Locals /\ loc'.then = loc.then /\ loc'.buf = loc.buf
    BY <1>1, <1>2, NoCallType DEF Locals, Callers
  <1>4. ControlType' /\ TableType'
    BY <1>2, <1>3, TypeParts, TableKept DEF ControlType, PCs
  <1>5. CallOK'
    BY <1>2, <1>3, WorkStays DEF Working, Writing
  <1> QED
    BY <1>4, <1>5, TypePartsNext

LEMMA TruncBlockFailsType ==
  ASSUME TypeOK, CallOK, TruncBlockFails
  PROVE  TypeOK' /\ CallOK'
  BY TruncEndType, StoreKept, TypeParts DEF TruncBlockFails, Writing, storage

LEMMA TruncLastType ==
  ASSUME TypeOK, CallOK, TruncLast
  PROVE  TypeOK' /\ CallOK'
  <1>1. "truncSuper" \in PCs /\ FreeLast("truncSuper") /\ pc = "truncLast"
    BY DEF PCs, TruncLast
  <1> QED
    BY <1>1, FreeLastType, WorkStays DEF Working, Writing

LEMMA TruncSuperType ==
  ASSUME TypeOK, CallOK, TruncSuper
  PROVE  TypeOK' /\ CallOK'
  BY TruncEndType, FreeSuperType DEF TruncSuper, Writing

(* The file worked on: its entry and its inode can be read. *)
LEMMA WorkFile ==
  ASSUME TypeOK, CallOK, pc \in Working \/ loc.then = "tfs_writeFile"
  PROVE  /\ LL # <<>> /\ fte \in FTE /\ fte.inodeIdx \in Int
         /\ Readable(fte.inodeIdx) /\ disk[fte.inodeIdx] \in Block
  <1>1. LL # <<>> /\ Readable(fte.inodeIdx)
    BY DEF CallOK
  <1>2. fte \in FTE
    BY <1>1, ListKept DEF TypeOK
  <1>3. fte.inodeIdx \in Int
    BY <1>2 DEF FTE
  <1> QED
    BY <1>1, <1>2, <1>3, ReadBlock

LEMMA SetOffsetType ==
  ASSUME TypeOK, LL # <<>>, NEW o \in Nat, SetOffset(o), UNCHANGED <<diskFd, currentFD>>
  PROVE  TableType'
  BY ListKept DEF TypeOK, TableType, SetOffset

LEMMA CloseHeadType ==
  ASSUME TypeOK, LL # <<>>, CloseHead
  PROVE  TableType' /\ ControlType' /\ CallOK'
  <1>1. TableType'
    BY ListKept DEF TypeOK, TableType, CloseHead
  <1>2. Return(0) /\ 0 \in Int
    BY DEF CloseHead
  <1> QED
    BY <1>1, <1>2, ReturnType, IdleCallOK

(* A call that returns a code and leaves the table and the disk alone.     *)
LEMMA ReturnStays ==
  ASSUME TypeOK, NEW c \in Int, Return(c), UNCHANGED storage, UNCHANGED session
  PROVE  TypeOK' /\ CallOK'
  BY ReturnType, IdleCallOK, StoreKept, TableKept, TypeParts, TypePartsNext

LEMMA CloseFileType ==
  ASSUME TypeOK, CallOK, NEW FD \in Descriptors, CloseFile(FD)
  PROVE  TypeOK' /\ CallOK'
  BY CloseHeadType, StoreKept, TypeParts, TypePartsNext DEF CloseFile, Served

(* A call on a descriptor works on the head of the list. *)
LEMMA ServedFile ==
  ASSUME TypeOK, NEW FD, Served(FD)
  PROVE  /\ LL # <<>> /\ fte \in FTE /\ fte.inodeIdx \in Int /\ fte.offset \in Nat
         /\ fte.offset + 1 \in Nat /\ pc = "idle"
         /\ Readable(fte.inodeIdx) => /\ disk[fte.inodeIdx] \in Block
                                      /\ disk[fte.inodeIdx].nextIdx \in Int
  <1>1. LL # <<>> /\ pc = "idle"
    BY DEF Served
  <1>2. fte \in FTE
    BY <1>1, ListKept DEF TypeOK
  <1>3. fte.inodeIdx \in Int /\ fte.offset \in Nat
    BY <1>2 DEF FTE
  <1> QED
    BY <1>1, <1>2, <1>3, ReadBlock

(* A call that starts to work on a file that can be read. *)
LEMMA WorkStarts ==
  ASSUME LL # <<>>, Readable(fte.inodeIdx), UNCHANGED session, size' = size,
         pc' \in Working, loc' \in Locals,
         \/ pc' \notin Writing /\ loc'.then = "none"
         \/ loc'.then = "tfs_writeFile" /\ loc'.buf \in Buffers
  PROVE  CallOK'
  BY DEF CallOK, Mounting, Allocating, Working, Writing, session, Readable, fte

LEMMA DeleteFileType ==
  ASSUME TypeOK, CallOK, NEW FD \in Descriptors, DeleteFile(FD)
  PROVE  TypeOK' /\ CallOK'
  <1>1. Served(FD) /\ UNCHANGED storage /\ UNCHANGED session
    BY DEF DeleteFile
  <1>2. CASE Readable(fte.inodeIdx)
    <2>1. pc' = "deleteBlock" /\ ret' = NoRet
          /\ loc' = [NoCall EXCEPT !.cur = fte.inodeIdx, !.first = fte.inodeIdx]
      BY <1>2 DEF DeleteFile, Call
    <2>2. loc' \in Locals /\ loc'.then = "none"
      BY <1>1, <2>1, ServedFile, NoCallType DEF Locals
    <2>3. StoreType' /\ TableType' /\ ControlType'
      BY <1>1, <2>1, <2>2, NoRetType, StoreKept, TableKept, TypeParts
      DEF ControlType, PCs
    <2>4. CallOK'
      BY <1>1, <1>2, <2>1, <2>2, ServedFile, WorkStarts
      DEF Working, Writing, storage
    <2> QED
      BY <2>3, <2>4, TypePartsNext
  <1>3. CASE ~Readable(fte.inodeIdx)
    BY <1>1, <1>3, ReturnStays DEF DeleteFile, TFS_ERROR_DISK_READ
  <1> QED
    BY <1>2, <1>3

LEMMA DeleteBlockType ==
  ASSUME TypeOK, CallOK, DeleteBlock
  PROVE  TypeOK' /\ CallOK'
  <1>1. FreeOne("deleteBlock", "deleteLast") /\ Readable(loc.cur) /\ pc = "deleteBlock"
    BY DEF DeleteBlock
  <1>2. "deleteBlock" \in PCs /\ "deleteLast" \in PCs
    BY DEF PCs
  <1>3. /\ TypeOK' /\ size' = size /\ UNCHANGED session
        /\ pc' \in {"deleteBlock", "deleteLast"}
        /\ loc'.then = loc.then /\ loc'.buf = loc.buf
    BY <1>1, <1>2, FreeOneType
  <1> QED
    BY <1>1, <1>3, WorkStays DEF Working, Writing

LEMMA DeleteBlockFailsType ==
  ASSUME TypeOK, CallOK, DeleteBlockFails
  PROVE  TypeOK' /\ CallOK'
  BY ReturnStays DEF DeleteBlockFails, TFS_ERROR_DISK_READ

LEMMA DeleteLastType ==
  ASSUME TypeOK, CallOK, DeleteLast
  PROVE  TypeOK' /\ CallOK'
  <1>1. "deleteSuper" \in PCs /\ FreeLast("deleteSuper") /\ pc = "deleteLast"
    BY DEF PCs, DeleteLast
  <1> QED
    BY <1>1, FreeLastType, WorkStays DEF Working, Writing

LEMMA DeleteSuperType ==
  ASSUME TypeOK, CallOK, DeleteSuper
  PROVE  TypeOK' /\ CallOK'
  <1>1. LL # <<>>
    BY WorkFile DEF DeleteSuper, Working
  <1> QED
    BY <1>1, FreeSuperType, CloseHeadType, TypePartsNext DEF DeleteSuper

-----------------------------------------------------------------------------
(* Writing *)

LEMMA WriteFileType ==
  ASSUME TypeOK, CallOK, NEW FD \in Descriptors, NEW b \in Buffers, WriteFile(FD, b)
  PROVE  TypeOK' /\ CallOK'
  <1> DEFINE i == fte.inodeIdx
             l == [NoCall EXCEPT !.then = "tfs_writeFile", !.buf = b]
  <1>1. Served(FD) /\ UNCHANGED session
    BY DEF WriteFile
  <1>2. LL # <<>> /\ i \in Int
    BY <1>1, ServedFile
  <1>3. CASE ~Readable(i)
    BY <1>1, <1>3, ReturnStays DEF WriteFile, TFS_ERROR_DISK_READ
  <1>4. CASE Readable(i) /\ disk[i].nextIdx = 0
    <2>1. loc' = l /\ pc' = "writeAlloc" /\ ret' = NoRet /\ UNCHANGED storage
      BY <1>4 DEF WriteFile, Call
    <2>2. loc' \in Locals /\ loc'.then = "tfs_writeFile" /\ loc'.buf = b
      BY <2>1, NoCallType DEF Locals, Callers
    <2>3. StoreType' /\ TableType' /\ ControlType'
      BY <1>1, <2>1, <2>2, NoRetType, StoreKept, TableKept, TypeParts
      DEF ControlType, PCs
    <2>4. CallOK'
      BY <1>1, <1>2, <1>4, <2>1, <2>2, WorkStarts DEF Working, Writing, storage
    <2> QED
      BY <2>3, <2>4, TypePartsNext
  <1>5. CASE Readable(i) /\ disk[i].nextIdx # 0
    <2> DEFINE x == [SetSize(disk[i], 0) EXCEPT !.nextIdx = 0]
    <2>1. disk[i] \in Block /\ disk[i].nextIdx \in Int
      BY <1>2, <1>5, ReadBlock
    <2>2. SetSize(disk[i], 0) \in Block
      BY <2>1, BlocksStored
    <2>3. x \in Block
      BY <2>2 DEF Block
    <2>4. /\ WriteBlock(i, x) /\ pc' = "truncBlock" /\ ret' = NoRet
          /\ loc' = [l EXCEPT !.cur = disk[i].nextIdx, !.first = disk[i].nextIdx]
      BY <1>5 DEF WriteFile, Call
    <2>5. StoreType' /\ size' = size
      BY <2>3, <2>4, WriteBlockType, TypeParts
    <2>6. loc' \in Locals /\ loc'.then = "tfs_writeFile" /\ loc'.buf = b
      <3>1. l \in Locals /\ l.then = "tfs_writeFile" /\ l.buf = b
        BY NoCallType DEF Locals, Callers
      <3> HIDE DEF l
      <3> QED
        BY <2>1, <2>4, <3>1 DEF Locals
    <2>7. TableType' /\ ControlType'
      BY <1>1, <2>4, <2>6, NoRetType, TableKept, TypeParts DEF ControlType, PCs
    <2>8. CallOK'
      BY <1>1, <1>2, <1>5, <2>4, <2>5, <2>6, WorkStarts DEF Working, Writing
    <2> QED
      BY <2>5, <2>7, <2>8, TypePartsNext
  <1> QED
    BY <1>3, <1>4, <1>5

LEMMA WriteAllocType ==
  ASSUME TypeOK, CallOK, WriteAlloc
  PROVE  TypeOK' /\ CallOK'
  <1> DEFINE l == [loc EXCEPT !.inb = disk[fte.inodeIdx]]
             n == BlocksFor(Length[loc.buf])
  <1>1. pc = "writeAlloc" /\ UNCHANGED storage /\ UNCHANGED session /\ TakeBlocks(n, l)
    BY DEF WriteAlloc
  <1>2. loc.then = "tfs_writeFile" /\ loc.buf \in Buffers
    BY <1>1 DEF CallOK, Writing
  <1>3. n \in Nat
    BY <1>2, BlocksForType, ClientAssumption
  <1>4. disk[fte.inodeIdx] \in Block
    BY <1>2, WorkFile
  <1>5. l \in Locals /\ l.then = loc.then /\ l.buf = loc.buf
    BY <1>4 DEF TypeOK, Locals
  <1>6. StoreType' /\ TableType'
    BY <1>1, StoreKept, TableKept, TypeParts
  <1> HIDE DEF l, n
  <1>7. /\ ControlType' /\ loc'.then = loc.then /\ loc'.buf = loc.buf
        /\ pc' \in {"allocWalk", "writeInode"}
    BY <1>1, <1>2, <1>3, <1>5, TakeBlocksType, TypeParts
  <1>8. CallOK'
    BY <1>1, <1>2, <1>7
    DEF CallOK, Mounting, Allocating, Working, Writing, session, storage, Readable, fte
  <1> QED
    BY <1>6, <1>7, <1>8, TypePartsNext

(* The last write of tfs_writeFile resets the offset and returns.          *)
LEMMA WriteEnds ==
  ASSUME TypeOK, LL # <<>>, SetOffset(0), Return(0), UNCHANGED <<diskFd, currentFD>>
  PROVE  TableType' /\ ControlType' /\ CallOK'
  BY SetOffsetType, ReturnType, IdleCallOK

LEMMA WriteInodeType ==
  ASSUME TypeOK, CallOK, WriteInode
  PROVE  TypeOK' /\ CallOK'
  <1> DEFINE b == [type |-> inode, nextIdx |-> ToIdx(loc.cur),
                   body |-> SetSize(loc.inb, Length[loc.buf]).body]
  <1>1. pc = "writeInode" /\ WriteBlock(fte.inodeIdx, b) /\ UNCHANGED <<diskFd, currentFD>>
    BY DEF WriteInode
  <1>2. loc.then = "tfs_writeFile" /\ loc.buf \in Buffers /\ LL # <<>>
    BY <1>1, WorkFile DEF CallOK, Writing
  <1>3. b \in Block
    BY <1>2, LocalFields, BlocksStored, ClientAssumption
  <1>4. StoreType' /\ size' = size
    BY <1>1, <1>3, WriteBlockType, TypeParts
  <1>5. CASE SetOffset(0) /\ Return(0)
    BY <1>1, <1>2, <1>4, <1>5, WriteEnds, TypePartsNext
  <1>6. CASE UNCHANGED LL /\ Goto("writeData", [loc EXCEPT !.inb = RawBlock])
    <2>1. loc' = [loc EXCEPT !.inb = RawBlock] /\ pc' = "writeData" /\ ret' = ret
      BY <1>6 DEF Goto
    <2>2. loc' \in Locals /\ loc'.then = loc.then /\ loc'.buf = loc.buf
      BY <2>1, BlocksBuilt DEF TypeOK, Locals
    <2>3. UNCHANGED session
      BY <1>1, <1>6 DEF session
    <2>4. TableType' /\ ControlType'
      BY <2>1, <2>2, <2>3, TableKept, TypeParts DEF ControlType, PCs
    <2>5. CallOK'
      BY <1>1, <1>4, <2>1, <2>2, <2>3, WorkStays DEF Working, Writing
    <2> QED
      BY <1>4, <2>4, <2>5, TypePartsNext
  <1> QED
    BY <1>5, <1>6 DEF WriteInode

LEMMA WriteDataType ==
  ASSUME TypeOK, CallOK, WriteData
  PROVE  TypeOK' /\ CallOK'
  <1> DEFINE b == [type |-> FEB, nextIdx |-> disk[loc.cur].nextIdx,
                   body |-> DataBody(loc.buf, loc.count)]
  <1>1. /\ pc = "writeData" /\ WriteBlock(loc.cur, b) /\ Readable(loc.cur)
        /\ UNCHANGED <<diskFd, currentFD>>
    BY DEF WriteData
  <1>2. loc.then = "tfs_writeFile" /\ loc.buf \in Buffers /\ LL # <<>>
    BY <1>1, WorkFile DEF CallOK, Writing
  <1>3. disk[loc.cur] \in Block /\ disk[loc.cur].nextIdx \in Int
    BY <1>1, ReadBlock, LocalFields
  <1>4. b \in Block
    BY <1>2, <1>3, LocalFields, BlocksBuilt
  <1>5. StoreType' /\ size' = size
    BY <1>1, <1>4, WriteBlockType, TypeParts
  <1>6. CASE SetOffset(0) /\ Return(0)
    BY <1>1, <1>2, <1>5, <1>6, WriteEnds, TypePartsNext
  <1>7. CASE UNCHANGED LL /\ Goto("writeData", [loc EXCEPT !.cur = disk[loc.cur].nextIdx,
                                                            !.count = @ + 1])
    <2>1. PICK c \in Int, n \in Nat : loc' = [loc EXCEPT !.cur = c, !.count = n]
      BY <1>3, <1>7, LocalFields DEF Goto
    <2>2. loc' \in Locals /\ loc'.then = loc.then /\ loc'.buf = loc.buf
      BY <2>1 DEF TypeOK, Locals
    <2>3. UNCHANGED session /\ pc' = "writeData" /\ ret' = ret
      BY <1>1, <1>7 DEF session, Goto
    <2>4. TableType' /\ ControlType'
      BY <2>2, <2>3, TableKept, TypeParts DEF ControlType, PCs
    <2>5. CallOK'
      BY <1>1, <1>5, <2>2, <2>3, WorkStays DEF Working, Writing
    <2> QED
      BY <1>5, <2>4, <2>5, TypePartsNext
  <1> QED
    BY <1>6, <1>7 DEF WriteData

LEMMA WriteDataFailsType ==
  ASSUME TypeOK, CallOK, WriteDataFails
  PROVE  TypeOK' /\ CallOK'
  BY ReturnStays DEF WriteDataFails, TFS_ERROR_DISK_READ

-----------------------------------------------------------------------------
(* Reading, and the calls of one step *)

LEMMA ReadByteType ==
  ASSUME TypeOK, CallOK, NEW FD \in Descriptors, ReadByte(FD)
  PROVE  TypeOK' /\ CallOK'
  <1> DEFINE i == fte.inodeIdx
  <1>1. Served(FD) /\ UNCHANGED storage /\ UNCHANGED session
    BY DEF ReadByte
  <1>2. CASE Return(TFS_ERROR_DISK_READ) \/ Return(TFS_ERROR_BAD_ALLOC)
    BY <1>1, <1>2, ReturnStays DEF TFS_ERROR_DISK_READ, TFS_ERROR_BAD_ALLOC
  <1>3. CASE /\ Readable(i)
             /\ Call("readWalk", [NoCall EXCEPT !.cur = disk[i].nextIdx,
                                                !.want = BlocksFor(fte.offset + 1)])
    <2>1. disk[i].nextIdx \in Int /\ BlocksFor(fte.offset + 1) \in Nat
      BY <1>1, <1>3, ServedFile, BlocksForType
    <2>2. PICK c \in Int, n \in Nat : loc' = [NoCall EXCEPT !.cur = c, !.want = n]
      BY <1>3, <2>1 DEF Call
    <2>3. loc' \in Locals /\ loc'.then = "none"
      BY <2>2, NoCallType DEF Locals
    <2>4. pc' = "readWalk" /\ ret' = NoRet
      BY <1>3 DEF Call
    <2>5. StoreType' /\ TableType' /\ ControlType'
      BY <1>1, <2>3, <2>4, NoRetType, StoreKept, TableKept, TypeParts
      DEF ControlType, PCs
    <2>6. CallOK'
      BY <1>1, <1>3, <2>3, <2>4, ServedFile, WorkStarts DEF Working, Writing, storage
    <2> QED
      BY <2>5, <2>6, TypePartsNext
  <1> QED
    BY <1>2, <1>3 DEF ReadByte

LEMMA ReadWalkType ==
  ASSUME TypeOK, CallOK, ReadWalk
  PROVE  TypeOK' /\ CallOK'
  <1>1. /\ pc = "readWalk" /\ Readable(loc.cur) /\ UNCHANGED storage
        /\ UNCHANGED <<diskFd, currentFD>>
    BY DEF ReadWalk
  <1>2. StoreType' /\ size' = size
    BY <1>1, StoreKept, TypeParts DEF storage
  <1>3. LL # <<>> /\ fte \in FTE
    BY <1>1, WorkFile DEF Working
  <1>4. disk[loc.cur] \in Block /\ disk[loc.cur].nextIdx \in Int
    BY <1>1, ReadBlock, LocalFields
  <1>5. CASE loc.count + 1 < loc.want
    <2>1. PICK c \in Int, n \in Nat : loc' = [loc EXCEPT !.cur = c, !.count = n]
      BY <1>4, <1>5, LocalFields DEF ReadWalk, Goto
    <2>2. loc' \in Locals /\ loc'.then = loc.then /\ loc'.buf = loc.buf
      BY <2>1 DEF TypeOK, Locals
    <2>3. UNCHANGED session /\ pc' = "readWalk" /\ ret' = ret
      BY <1>1, <1>5 DEF ReadWalk, session, Goto
    <2>4. TableType' /\ ControlType'
      BY <2>2, <2>3, TableKept, TypeParts DEF ControlType, PCs
    <2>5. CallOK'
      BY <1>1, <1>2, <2>2, <2>3, WorkStays DEF Working, Writing
    <2> QED
      BY <1>2, <2>4, <2>5, TypePartsNext
  <1>6. CASE ~(loc.count + 1 < loc.want)
    <2> DEFINE c == ByteAt(disk[loc.cur], fte.offset % DataSize)
    <2>1. fte.offset \in Nat /\ fte.offset + 1 \in Nat /\ fte.offset % DataSize \in Nat
      BY <1>3, SizesAssumption DEF FTE
    <2>2. c \in Bytes
      BY <1>4, <2>1, ByteAtType
    <2>3. ReturnByte(0, c) /\ (UNCHANGED LL \/ SetOffset(fte.offset + 1))
      BY <1>6 DEF ReadWalk
    <2> HIDE DEF c
    <2>4. ControlType' /\ CallOK'
      BY <2>2, <2>3, ReturnByteType, IdleCallOK
    <2>5. TableType'
      BY <1>1, <1>3, <2>1, <2>3, SetOffsetType, TableKept, TypeParts DEF session
    <2> QED
      BY <1>2, <2>4, <2>5, TypePartsNext
  <1> QED
    BY <1>5, <1>6

LEMMA ReadWalkFailsType ==
  ASSUME TypeOK, CallOK, ReadWalkFails
  PROVE  TypeOK' /\ CallOK'
  BY ReturnStays DEF ReadWalkFails, TFS_ERROR_DISK_READ

LEMMA SeekType ==
  ASSUME TypeOK, CallOK, NEW FD \in Descriptors, NEW o \in Offsets, Seek(FD, o)
  PROVE  TypeOK' /\ CallOK'
  <1>1. /\ LL # <<>> /\ SetOffset(o) /\ Return(0) /\ UNCHANGED storage
        /\ UNCHANGED <<diskFd, currentFD>> /\ o \in Nat
    BY ClientAssumption DEF Seek, Served
  <1> QED
    BY <1>1, SetOffsetType, ReturnType, IdleCallOK, StoreKept, TypeParts, TypePartsNext

LEMMA RenameType ==
  ASSUME TypeOK, CallOK, NEW FD \in Descriptors, NEW n \in NewNames, Rename(FD, n)
  PROVE  TypeOK' /\ CallOK'
  <1> DEFINE i == fte.inodeIdx
  <1>1. Served(FD) /\ UNCHANGED session
    BY DEF Rename
  <1>2. CASE Readable(i)
    <2>1. disk[i] \in Block
      BY <1>1, <1>2, ServedFile
    <2>2. SetName(disk[i], n) \in Block
      BY <2>1, BlocksStored DEF AllNames
    <2>3. WriteBlock(i, SetName(disk[i], n)) /\ Return(0) /\ 0 \in Int
      BY <1>2 DEF Rename
    <2> QED
      BY <1>1, <2>2, <2>3, WriteBlockType, TableKept, ReturnType, IdleCallOK,
         TypeParts, TypePartsNext
  <1>3. CASE ~Readable(i)
    BY <1>1, <1>3, ReturnStays DEF Rename, TFS_ERROR_DISK_READ
  <1> QED
    BY <1>2, <1>3

LEMMA GetTimeStampType ==
  ASSUME TypeOK, CallOK, NEW FD \in Descriptors, GetTimeStamp(FD)
  PROVE  TypeOK' /\ CallOK'
  BY ReturnStays DEF GetTimeStamp, TFS_ERROR_DISK_READ

LEMMA RefusedType ==
  ASSUME TypeOK, CallOK, Refused
  PROVE  TypeOK' /\ CallOK'
  BY ReturnStays DEF Refused, TFS_ERROR_INVALID_PARAMETER, TFS_ERROR_INVALID_FD

LEMMA IndexHitType ==
  ASSUME TypeOK, CallOK, NEW FD \in Descriptors, IndexHit(FD)
  PROVE  TypeOK' /\ CallOK'
  BY ReturnStays, DieType DEF IndexHit, TFS_ERROR_BAD_ALLOC

-----------------------------------------------------------------------------
(* The theorems *)

LEMMA ListMissingType ==
  ASSUME TypeOK, ListMissing
  PROVE  TypeOK' /\ CallOK'
  BY DieType DEF ListMissing

LEMMA TypeNext ==
  ASSUME TypeOK, CallOK, [Next]_vars
  PROVE  TypeOK' /\ CallOK'
  <1>1. CASE UNCHANGED vars
    BY <1>1 DEF vars, TypeOK, CallOK, Mounting, Allocating, Working, Writing,
                Readable, fte
  <1>2. CASE Step
    BY <1>2, MountOpensType, MountFailsType, CreateBlockType, ValidateType,
       FormatSuperType, FormatBlockType, FormatEndType, LookupType,
       CreateInodeType, AllocWalkType, AllocSuperType, AllocLastType,
       TruncBlockType, TruncBlockFailsType, TruncLastType, TruncSuperType,
       WriteAllocType, WriteInodeType, WriteDataType, WriteDataFailsType,
       DeleteBlockType, DeleteBlockFailsType, DeleteLastType, DeleteSuperType,
       ReadWalkType, ReadWalkFailsType
    DEF Step
  <1>3. CASE Client
    <2>1. CASE ClientMount \/ Unmount \/ ListMissing \/ Refused
      BY <2>1, ClientMountType, UnmountType, ListMissingType, RefusedType
    <2>2. CASE \E n \in Names : OpenFile(n)
      BY <2>2, OpenFileType
    <2>3. ASSUME NEW FD \in Descriptors,
                 \/ CloseFile(FD) \/ DeleteFile(FD) \/ DeleteFileDies(FD)
                 \/ \E b \in Buffers : WriteFile(FD, b)
                 \/ ReadByte(FD)
                 \/ \E o \in Offsets : Seek(FD, o)
                 \/ \E n \in NewNames : Rename(FD, n)
                 \/ GetTimeStamp(FD)
                 \/ IndexHit(FD)
          PROVE  TypeOK' /\ CallOK'
      <3>1. DeleteFileDies(FD) => Die
        BY DEF DeleteFileDies
      <3> QED
        BY <2>3, <3>1, CloseFileType, DeleteFileType, DieType, WriteFileType,
           ReadByteType, SeekType, RenameType, GetTimeStampType, IndexHitType
    <2> QED
      BY <1>3, <2>1, <2>2, <2>3 DEF Client
  <1>4. CASE Crash
    BY <1>4, DieType DEF Crash
  <1> QED
    BY <1>1, <1>2, <1>3, <1>4 DEF Next

LEMMA TypeInit ==
  ASSUME Init
  PROVE  TypeOK /\ CallOK
  <1>1. TypeOK
    <2>1. StoreType
      <3>1. RawBlock \in Block
        BY BlocksBuilt
      <3>2. disk \in [Indices -> Block]
        BY <3>1 DEF Init
      <3>3. size \in -1..NBlocks
        BY SizesAssumption DEF Init
      <3> QED
        BY <3>2, <3>3 DEF StoreType
    <2>2. TableType
      BY SizesAssumption, EmptySeq DEF Init, TableType
    <2>3. ControlType
      BY NoCallType, NoRetType DEF Init, ControlType, PCs
    <2> QED
      BY <2>1, <2>2, <2>3, TypeParts
  <1>2. CallOK
    BY NoCallType DEF Init, CallOK, Mounting, Allocating, Working, Writing
  <1> QED
    BY <1>1, <1>2

(* Every variable keeps its type, however damaged the disk and whatever    *)
(* the client does.                                                        *)
THEOREM TypeCorrect == Spec => []TypeOK
  <1>1. Init => TypeOK /\ CallOK
    BY TypeInit
  <1>2. TypeOK /\ CallOK /\ [Next]_vars => (TypeOK /\ CallOK)'
    BY TypeNext
  <1> QED
    BY <1>1, <1>2, PTL DEF Spec

(* A call knows where it is: it returns to the one that made it, and the   *)
(* file it works on stays at the head of the list with a readable inode.   *)
THEOREM CallsConsistent == Spec => []CallOK
  <1>1. Init => TypeOK /\ CallOK
    BY TypeInit
  <1>2. TypeOK /\ CallOK /\ [Next]_vars => (TypeOK /\ CallOK)'
    BY TypeNext
  <1> QED
    BY <1>1, <1>2, PTL DEF Spec

-----------------------------------------------------------------------------
(* The open-file table *)

(* TableOK is not inductive: an entry is added some steps after the list   *)
(* was searched for its name, and the image is open before the entry is    *)
(* there.                                                                  *)
NoEntryYet == loc.then = "createFile" => ~IsOpen(loc.name)

OpenForEntry ==
  LL = <<>> /\ diskFd = Mounted => pc = "lookup" \/ loc.then = "createFile"

TableInv == TableOK /\ NoEntryYet /\ OpenForEntry

(* The parts of TableOK that concern the entries. *)
EntriesOK ==
  /\ \A j, k \in DOMAIN LL :
       j < k => LL[j].fd < LL[k].fd /\ LL[j].fileName # LL[k].fileName
  /\ \A k \in DOMAIN LL : LL[k].fd < currentFD

LEMMA TableParts ==
  /\ TableOK <=> EntriesOK /\ (pc = "idle" /\ LL = <<>> => diskFd # Mounted)
  /\ TableOK' <=> EntriesOK' /\ (pc' = "idle" /\ LL' = <<>> => diskFd' # Mounted)
  BY DEF TableOK, EntriesOK

LEMMA EntriesSame ==
  ASSUME EntriesOK, LL' = LL, currentFD' = currentFD
  PROVE  EntriesOK'
  BY DEF EntriesOK

(* A step that changes neither list nor disk_fd and is not in createFile.  *)
LEMMA QuietTable ==
  ASSUME TableInv, UNCHANGED session, loc'.then # "createFile",
         LL = <<>> => diskFd # Mounted
  PROVE  TableInv'
  BY EntriesSame, TableParts DEF TableInv, NoEntryYet, OpenForEntry, session

(* A step within a call that keeps its purpose and its name.               *)
LEMMA GoesOnTable ==
  ASSUME TableInv, UNCHANGED session, loc'.then = loc.then, loc'.name = loc.name,
         pc # "lookup", pc' # "idle"
  PROVE  TableInv'
  BY EntriesSame, TableParts
  DEF TableInv, NoEntryYet, OpenForEntry, session, IsOpen

(* Between calls, and in a call on a file, the table is in order.          *)
LEMMA TableSettled ==
  ASSUME CallOK, TableInv, pc = "idle" \/ pc \in Working
  PROVE  LL = <<>> => diskFd # Mounted
  BY TableParts DEF TableInv, CallOK

LEMMA ReturnTable ==
  ASSUME CallOK, TableInv, NEW c, Return(c), UNCHANGED session,
         pc = "idle" \/ pc \in Working
  PROVE  TableInv'
  <1>1. loc'.then # "createFile"
    BY NoCallType DEF Return, ReturnByte
  <1> QED
    BY <1>1, TableSettled, QuietTable

(* A change of offset leaves names and descriptors as they are. *)
LEMMA OffsetTable ==
  ASSUME TypeOK, CallOK, TableInv, LL # <<>>, NEW o \in Nat, SetOffset(o),
         UNCHANGED <<diskFd, currentFD>>, loc' = NoCall
  PROVE  TableInv'
  <1>1. 1 \in 1..Len(LL) /\ DOMAIN LL = 1..Len(LL) /\ \A k \in DOMAIN LL : LL[k] \in FTE
    BY ListKept DEF TypeOK
  <1>2. LL' = [LL EXCEPT ![1] = [LL[1] EXCEPT !.offset = o]]
    BY DEF SetOffset
  <1>3. DOMAIN LL' = DOMAIN LL
    BY <1>2
  <1>4. \A k \in DOMAIN LL : LL'[k].fd = LL[k].fd /\ LL'[k].fileName = LL[k].fileName
    BY <1>1, <1>2 DEF FTE
  <1>5. EntriesOK'
    BY <1>3, <1>4 DEF EntriesOK, TableInv, TableOK
  <1>6. LL' # <<>>
    BY <1>1, <1>3
  <1> QED
    BY <1>5, <1>6, TableParts, NoCallType DEF TableInv, NoEntryYet, OpenForEntry

LEMMA CloseTable ==
  ASSUME TypeOK, TableInv, LL # <<>>, CloseHead
  PROVE  TableInv'
  <1>1. LL' = Tail(LL) /\ currentFD' = currentFD /\ loc' = NoCall /\ pc' = "idle"
    BY DEF CloseHead, Return, ReturnByte
  <1>2. /\ Len(Tail(LL)) = Len(LL) - 1 /\ Tail(LL) \in Seq(FTE)
        /\ \A k \in 1..Len(Tail(LL)) : Tail(LL)[k] = LL[k + 1]
    BY HeadTailProperties DEF TypeOK
  <1>3. \A k \in DOMAIN LL' : k + 1 \in DOMAIN LL /\ LL'[k] = LL[k + 1]
    BY <1>1, <1>2 DEF TypeOK
  <1>4. \A k \in DOMAIN LL' : k \in Int
    BY <1>1, <1>2
  <1>5. EntriesOK'
    BY <1>1, <1>3, <1>4 DEF EntriesOK, TableInv, TableOK
  <1>6. LL' = <<>> => diskFd' # Mounted
    BY DEF CloseHead, NotMounted, Mounted
  <1> QED
    BY <1>1, <1>5, <1>6, TableParts, NoCallType DEF TableInv, NoEntryYet, OpenForEntry

LEMMA OpenedTable ==
  ASSUME TypeOK, CallOK, TableInv, NEW idx \in Int, Opened(idx),
         currentFD <= MaxFD, ~IsOpen(loc.name)
  PROVE  TableInv'
  <1> DEFINE e == [fd |-> currentFD, inodeIdx |-> idx, offset |-> 0,
                   fileName |-> loc.name]
  <1>1. e \in FTE
    BY SizesAssumption DEF TypeOK, FTE, Locals
  <1>2. LL' = Append(LL, e) /\ currentFD' = currentFD + 1 /\ loc' = NoCall
    BY DEF Opened, Return, ReturnByte
  <1>3. /\ LL' \in Seq(FTE) /\ LL' # <<>> /\ Len(LL') = Len(LL) + 1
        /\ \A k \in 1..Len(LL) : LL'[k] = LL[k]
        /\ LL'[Len(LL) + 1] = e
    BY <1>1, <1>2, AppendProperties DEF TypeOK
  <1>4. DOMAIN LL = 1..Len(LL) /\ DOMAIN LL' = 1..(Len(LL) + 1) /\ Len(LL) \in Nat
    BY <1>3 DEF TypeOK
  <1>5. \A k \in 1..Len(LL) : LL[k].fd \in Nat /\ LL[k].fd < currentFD
                              /\ LL[k].fileName # loc.name
    <2>1. ASSUME NEW k \in 1..Len(LL) PROVE LL[k].fd \in Nat
      <3>1. LL[k] \in FTE
        BY ListKept DEF TypeOK
      <3> QED
        BY <3>1 DEF FTE
    <2>2. ASSUME NEW k \in 1..Len(LL) PROVE LL[k].fd < currentFD
      BY <1>4 DEF TableInv, TableOK
    <2>3. ASSUME NEW k \in 1..Len(LL) PROVE LL[k].fileName # loc.name
      BY <1>4 DEF IsOpen
    <2> QED
      BY <2>1, <2>2, <2>3
  <1>6. e.fd = currentFD /\ e.fileName = loc.name /\ currentFD \in Int
    BY SizesAssumption DEF TypeOK
  <1> HIDE DEF e
  <1>7. ASSUME NEW j \in DOMAIN LL', NEW k \in DOMAIN LL', j < k
        PROVE  LL'[j].fd < LL'[k].fd /\ LL'[j].fileName # LL'[k].fileName
    <2>1. j \in 1..Len(LL) /\ LL'[j] = LL[j]
      BY <1>3, <1>4, <1>7
    <2>2. CASE k = Len(LL) + 1
      BY <1>3, <1>5, <1>6, <2>1, <2>2
    <2>3. CASE k \in 1..Len(LL)
      BY <1>3, <1>4, <1>7, <2>1, <2>3 DEF TableInv, TableOK
    <2> QED
      BY <1>4, <2>2, <2>3
  <1>8. ASSUME NEW k \in DOMAIN LL'
        PROVE  LL'[k].fd < currentFD'
    <2>1. CASE k = Len(LL) + 1
      BY <1>2, <1>3, <1>6, <2>1
    <2>2. CASE k \in 1..Len(LL)
      BY <1>2, <1>3, <1>5, <1>6, <2>2
    <2> QED
      BY <1>4, <2>1, <2>2
  <1>9. EntriesOK'
    BY <1>7, <1>8 DEF EntriesOK
  <1> QED
    BY <1>2, <1>3, <1>9, TableParts, NoCallType DEF TableInv, NoEntryYet, OpenForEntry

LEMMA DieTable ==
  ASSUME Die
  PROVE  TableInv'
  <1>1. LL' = <<>> /\ diskFd' = NotMounted /\ loc' = NoCall
    BY DEF Die
  <1>2. EntriesOK'
    BY <1>1 DEF EntriesOK
  <1> QED
    BY <1>1, <1>2, TableParts, NoCallType
    DEF TableInv, NoEntryYet, OpenForEntry, NotMounted, Mounted

(* tfs_mount may leave the image open with no entry: its caller adds one.  *)
LEMMA MountReturnsTable ==
  ASSUME TypeOK, CallOK, TableInv, NEW fd, MountReturns(fd), pc \in Mounting
  PROVE  TableInv'
  <1>1. LL' = LL /\ currentFD' = currentFD /\ pc # "lookup"
    BY DEF MountReturns, Mounting
  <1>2. EntriesOK'
    BY <1>1, EntriesSame, TableParts DEF TableInv
  <1>3. CASE loc.then = "tfs_openFile"
    <2>1. pc' = "lookup" /\ loc' = [loc EXCEPT !.cur = 0]
      BY <1>3 DEF MountReturns, Goto
    <2>2. loc'.then # "createFile"
      BY <1>3, <2>1 DEF TypeOK, Locals
    <2> QED
      BY <1>2, <2>1, <2>2, TableParts DEF TableInv, NoEntryYet, OpenForEntry
  <1>4. CASE loc.then # "tfs_openFile"
    <2>1. loc' = NoCall /\ diskFd' = diskFd
      BY <1>4 DEF MountReturns, Return, ReturnByte
    <2>2. loc.then = "client"
      BY <1>4 DEF CallOK
    <2>3. LL = <<>> => diskFd # Mounted
      BY <1>1, <2>2 DEF TableInv, OpenForEntry
    <2> QED
      BY <1>1, <2>1, <2>3, QuietTable, NoCallType DEF session
  <1> QED
    BY <1>3, <1>4

LEMMA MountingTable ==
  ASSUME TypeOK, CallOK, TableInv,
         \/ MountOpens \/ MountFails \/ CreateBlock \/ Validate
         \/ FormatSuper \/ FormatBlock \/ FormatEnd
  PROVE  TableInv'
  <1>1. pc \in Mounting /\ pc # "lookup"
    BY DEF Mounting, MountOpens, MountFails, CreateBlock, Validate, FormatSuper,
           FormatBlock, FormatEnd
  <1>2. CASE \E fd \in Int : MountReturns(fd)
    BY <1>1, <1>2, MountReturnsTable
  <1>3. CASE UNCHANGED session /\ \E p \in Mounting : Goto(p, loc)
    <2>1. loc' = loc /\ pc' # "idle"
      BY <1>3 DEF Goto, Mounting
    <2> QED
      BY <1>1, <1>3, <2>1, GoesOnTable
  <1>4. CASE UNCHANGED session /\ \E p \in Mounting, c \in Int :
               Goto(p, [loc EXCEPT !.cur = c])
    <2>1. PICK p \in Mounting, c \in Int : Goto(p, [loc EXCEPT !.cur = c])
      BY <1>4
    <2>2. loc' = [loc EXCEPT !.cur = c] /\ pc' # "idle"
      BY <2>1 DEF Goto, Mounting
    <2>3. loc'.then = loc.then /\ loc'.name = loc.name
      BY <2>2 DEF TypeOK, Locals
    <2> QED
      BY <1>1, <1>4, <2>2, <2>3, GoesOnTable
  <1>5. CASE MountOpens \/ CreateBlock
    BY <1>3, <1>5 DEF MountOpens, CreateBlock, Mounting
  <1>6. CASE MountFails \/ Validate \/ FormatEnd
    BY <1>2, <1>3, <1>6 DEF MountFails, Validate, FormatEnd, Mounting, Mounted,
                            TFS_ERROR_DISK_OPEN
  <1>7. CASE FormatSuper
    <2>1. 1 \in Int /\ UNCHANGED session
          /\ Goto(IF size = 1 THEN "formatEnd" ELSE "formatBlock", [loc EXCEPT !.cur = 1])
      BY <1>7 DEF FormatSuper
    <2> QED
      BY <1>4, <2>1 DEF Mounting
  <1>8. CASE FormatBlock
    <2>1. loc.cur + 1 \in Int /\ Mounted \in Int
      BY LocalFields DEF Mounted
    <2>2. \/ UNCHANGED session /\ Goto("formatBlock", [loc EXCEPT !.cur = loc.cur + 1])
          \/ MountReturns(Mounted)
      BY <1>8 DEF FormatBlock
    <2> QED
      BY <1>2, <1>4, <2>1, <2>2 DEF Mounting
  <1> QED
    BY <1>5, <1>6, <1>7, <1>8

LEMMA LookupTable ==
  ASSUME TypeOK, CallOK, TableInv, Lookup
  PROVE  TableInv'
  <1>1. pc = "lookup" /\ loc.then = "tfs_openFile" /\ currentFD <= MaxFD
    BY DEF Lookup, CallOK
  <1>2. CASE IsOpen(loc.name)
    <2>1. Return(TFS_ERROR_BAD_ALLOC) /\ UNCHANGED session
      BY <1>2 DEF Lookup
    <2>2. LL # <<>>
      BY <1>2 DEF IsOpen
    <2>3. loc' = NoCall
      BY <2>1 DEF Return, ReturnByte
    <2> QED
      BY <2>1, <2>2, <2>3, QuietTable, NoCallType
  <1>3. CASE ~IsOpen(loc.name) /\ \E idx \in Int : Opened(idx)
    BY <1>1, <1>3, OpenedTable
  <1>4. CASE /\ ~IsOpen(loc.name) /\ UNCHANGED session
             /\ TakeBlocks(1, [loc EXCEPT !.then = "createFile"])
    <2> DEFINE l == [loc EXCEPT !.then = "createFile"]
    <2>1. l \in Locals /\ l.then = "createFile" /\ l.name = loc.name
      BY DEF TypeOK, Locals, Callers
    <2>2. TakeBlocks(1, l) /\ 1 \in Nat
      BY <1>4
    <2> HIDE DEF l
    <2>3. /\ loc'.then = "createFile" /\ loc'.name = loc.name
          /\ pc' \in {"allocWalk", "createInode"}
      BY <2>1, <2>2, TakeBlocksType, TypeParts
    <2> QED
      BY <1>4, <2>3, EntriesSame, TableParts
      DEF TableInv, NoEntryYet, OpenForEntry, session, IsOpen
  <1>5. FindByName(loc.name) # 0 => FindByName(loc.name) \in Int
    BY DEF FindByName, Hits
  <1>6. TFS_ERROR_VALIDATE \in Int /\ TFS_ERROR_INVALID_PARAMETER \in Int
    BY DEF TFS_ERROR_VALIDATE, TFS_ERROR_INVALID_PARAMETER
  <1> QED
    BY <1>2, <1>3, <1>4, <1>5, <1>6 DEF Lookup

LEMMA CreateInodeTable ==
  ASSUME TypeOK, CallOK, TableInv, CreateInode
  PROVE  TableInv'
  <1>1. loc.then = "createFile" /\ currentFD <= MaxFD
    BY DEF CreateInode, CallOK
  <1>2. ~IsOpen(loc.name)
    BY <1>1 DEF TableInv, NoEntryYet
  <1>3. loc.cur \in Int /\ TFS_ERROR_DISK_WRITE \in Int
    BY LocalFields DEF TFS_ERROR_DISK_WRITE
  <1> QED
    BY <1>1, <1>2, <1>3, OpenedTable DEF CreateInode

LEMMA AllocTable ==
  ASSUME TypeOK, CallOK, TableInv, AllocWalk \/ AllocSuper \/ AllocLast
  PROVE  TableInv'
  <1>1. pc # "lookup" /\ UNCHANGED session /\ loc \in Locals /\ ControlType
    BY TypeParts DEF AllocWalk, AllocSuper, AllocLast, TypeOK
  <1>2. CASE \E r \in Int : GotBlocks(r, loc)
    BY <1>1, <1>2, GotBlocksType, GoesOnTable
  <1>3. CASE AllocWalk /\ Readable(loc.cur)
    <2>1. disk[loc.cur] \in Block /\ disk[loc.cur].nextIdx \in Int
      BY <1>3, ReadBlock, LocalFields
    <2>2. PICK b \in Block, x \in Int, c \in Int, n \in Nat :
            loc' = [loc EXCEPT !.blk = b, !.last = x, !.cur = c, !.count = n]
      BY <1>3, <2>1, LocalFields DEF AllocWalk, Goto
    <2>3. loc'.then = loc.then /\ loc'.name = loc.name
      BY <1>1, <2>2 DEF Locals
    <2>4. pc' # "idle"
      BY <1>3 DEF AllocWalk, Goto
    <2> QED
      BY <1>1, <2>3, <2>4, GoesOnTable
  <1>4. CASE AllocWalk /\ ~Readable(loc.cur)
    BY <1>2, <1>4 DEF AllocWalk, TFS_ERROR_DISK_READ
  <1>5. CASE AllocSuper
    <2>1. pc' # "idle" /\ loc' = loc
      BY <1>5 DEF AllocSuper, Goto
    <2> QED
      BY <1>1, <2>1, GoesOnTable
  <1>6. CASE AllocLast
    BY <1>2, <1>6, LocalFields DEF AllocLast
  <1> QED
    BY <1>3, <1>4, <1>5, <1>6

(* tfs_truncate and tfs_deleteFile, until the entry goes. *)
LEMMA GiveBackTable ==
  ASSUME TypeOK, CallOK, TableInv,
         \/ TruncBlock \/ TruncBlockFails \/ TruncLast \/ TruncSuper
         \/ DeleteBlock \/ DeleteBlockFails \/ DeleteLast
  PROVE  TableInv'
  <1>1. pc \in Working /\ pc # "lookup"
    BY DEF Working, Writing, TruncBlock, TruncBlockFails, TruncLast, TruncSuper,
           DeleteBlock, DeleteBlockFails, DeleteLast
  <1>2. CASE TruncBlock \/ DeleteBlock
    <2>1. PICK p \in PCs, end \in PCs :
            FreeOne(p, end) /\ p # "idle" /\ end # "idle" /\ Readable(loc.cur)
      BY <1>2 DEF TruncBlock, DeleteBlock, PCs
    <2> QED
      BY <1>1, <2>1, FreeOneType, GoesOnTable
  <1>3. CASE TruncLast \/ DeleteLast
    <2>1. PICK p \in PCs : FreeLast(p) /\ p # "idle"
      BY <1>3 DEF TruncLast, DeleteLast, PCs
    <2> QED
      BY <1>1, <2>1, FreeLastType, GoesOnTable
  <1>4. CASE TruncBlockFails \/ TruncSuper
    <2>1. loc.then = "tfs_writeFile" /\ loc.buf \in Buffers
      BY <1>4 DEF CallOK, TruncBlockFails, TruncSuper, Writing
    <2>2. /\ UNCHANGED session
          /\ loc' = [NoCall EXCEPT !.then = "tfs_writeFile", !.buf = loc.buf]
      BY <1>4, <2>1 DEF TruncBlockFails, TruncSuper, Goto
    <2>3. loc'.then = "tfs_writeFile"
      BY <2>2, NoCallType DEF Locals
    <2> QED
      BY <1>1, <2>2, <2>3, TableSettled, QuietTable
  <1>5. CASE DeleteBlockFails
    BY <1>1, <1>5, ReturnTable DEF DeleteBlockFails
  <1> QED
    BY <1>2, <1>3, <1>4, <1>5

(* The rest of tfs_writeFile and of tfs_readByte. *)
LEMMA DataTable ==
  ASSUME TypeOK, CallOK, TableInv,
         \/ WriteAlloc \/ WriteInode \/ WriteData \/ WriteDataFails
         \/ ReadWalk \/ ReadWalkFails
  PROVE  TableInv'
  <1>1. pc \in Working /\ pc # "lookup"
    BY DEF Working, Writing, WriteAlloc, WriteInode, WriteData, WriteDataFails,
           ReadWalk, ReadWalkFails
  <1>2. LL # <<>> /\ fte \in FTE
    BY <1>1, WorkFile
  <1>3. CASE /\ UNCHANGED <<diskFd, currentFD>> /\ loc' = NoCall
             /\ \E o \in Nat : SetOffset(o)
    BY <1>2, <1>3, OffsetTable
  <1>4. CASE WriteDataFails \/ ReadWalkFails
    BY <1>1, <1>4, ReturnTable DEF WriteDataFails, ReadWalkFails
  <1>5. CASE UNCHANGED session /\ loc'.then # "createFile"
    BY <1>2, <1>5, QuietTable
  <1>6. CASE WriteAlloc
    <2> DEFINE l == [loc EXCEPT !.inb = disk[fte.inodeIdx]]
               n == BlocksFor(Length[loc.buf])
    <2>1. pc = "writeAlloc" /\ UNCHANGED session /\ TakeBlocks(n, l)
      BY <1>6 DEF WriteAlloc
    <2>2. loc.then = "tfs_writeFile" /\ loc.buf \in Buffers
      BY <2>1 DEF CallOK, Writing
    <2>3. n \in Nat /\ disk[fte.inodeIdx] \in Block
      BY <1>1, <2>2, BlocksForType, ClientAssumption, WorkFile
    <2>4. l \in Locals /\ l.then = loc.then
      BY <2>3 DEF TypeOK, Locals
    <2> HIDE DEF l, n
    <2>5. loc'.then = loc.then
      BY <2>1, <2>3, <2>4, TakeBlocksType, TypeParts
    <2> QED
      BY <1>5, <2>1, <2>2, <2>5
  <1>7. CASE WriteInode
    <2>1. loc.then = "tfs_writeFile"
      BY <1>7 DEF CallOK, Writing, WriteInode
    <2>2. CASE SetOffset(0) /\ Return(0)
      BY <1>3, <1>7, <2>2 DEF WriteInode, Return, ReturnByte
    <2>3. CASE UNCHANGED LL /\ Goto("writeData", [loc EXCEPT !.inb = RawBlock])
      <3>1. loc' = [loc EXCEPT !.inb = RawBlock]
        BY <2>3 DEF Goto
      <3>2. loc'.then = loc.then
        BY <3>1 DEF TypeOK, Locals
      <3> QED
        BY <1>5, <1>7, <2>1, <2>3, <3>2 DEF WriteInode, session
    <2> QED
      BY <1>7, <2>2, <2>3 DEF WriteInode
  <1>8. CASE WriteData
    <2>1. loc.then = "tfs_writeFile" /\ Readable(loc.cur)
      BY <1>8 DEF CallOK, Writing, WriteData
    <2>2. CASE SetOffset(0) /\ Return(0)
      BY <1>3, <1>8, <2>2 DEF WriteData, Return, ReturnByte
    <2>3. CASE UNCHANGED LL /\ Goto("writeData", [loc EXCEPT !.cur = disk[loc.cur].nextIdx,
                                                              !.count = @ + 1])
      <3>1. PICK c \in Int, n \in Nat : loc' = [loc EXCEPT !.cur = c, !.count = n]
        BY <2>1, <2>3, LocalFields, ReadBlock DEF Goto
      <3>2. loc'.then = loc.then
        BY <3>1 DEF TypeOK, Locals
      <3> QED
        BY <1>5, <1>8, <2>1, <2>3, <3>2 DEF WriteData, session
    <2> QED
      BY <1>8, <2>2, <2>3 DEF WriteData
  <1>9. CASE ReadWalk
    <2>1. Readable(loc.cur) /\ UNCHANGED <<diskFd, currentFD>>
      BY <1>9 DEF ReadWalk
    <2>2. CASE loc.count + 1 < loc.want
      <3>1. PICK c \in Int, n \in Nat : loc' = [loc EXCEPT !.cur = c, !.count = n]
        BY <1>9, <2>1, <2>2, LocalFields, ReadBlock DEF ReadWalk, Goto
      <3>2. loc'.then = loc.then /\ loc'.name = loc.name
        BY <3>1 DEF TypeOK, Locals
      <3>3. UNCHANGED session /\ pc' # "idle"
        BY <1>9, <2>1, <2>2 DEF ReadWalk, session, Goto
      <3> QED
        BY <1>1, <3>2, <3>3, GoesOnTable
    <2>3. CASE ~(loc.count + 1 < loc.want)
      <3>1. fte.offset + 1 \in Nat
        BY <1>2 DEF FTE
      <3>2. loc' = NoCall /\ (UNCHANGED LL \/ SetOffset(fte.offset + 1))
        BY <1>9, <2>3 DEF ReadWalk, ReturnByte
      <3> QED
        BY <1>3, <1>5, <2>1, <3>1, <3>2, NoCallType DEF session
    <2> QED
      BY <2>2, <2>3
  <1> QED
    BY <1>4, <1>6, <1>7, <1>8, <1>9

(* What the client may begin, or have done in one step. *)
LEMMA ClientTable ==
  ASSUME TypeOK, CallOK, TableInv, Client
  PROVE  TableInv'
  <1>1. CASE pc = "idle" /\ UNCHANGED session /\ loc'.then # "createFile"
    BY <1>1, TableSettled, QuietTable
  <1>2. CASE pc = "idle" /\ UNCHANGED session /\ \E c : Return(c)
    BY <1>2, ReturnTable
  <1>3. CASE ClientMount
    <2>1. loc' = [NoCall EXCEPT !.then = "client"]
      BY <1>3 DEF ClientMount, Call
    <2>2. loc'.then = "client"
      BY <2>1, NoCallType DEF Locals
    <2> QED
      BY <1>1, <1>3, <2>2 DEF ClientMount
  <1>4. CASE Unmount
    <2>1. LL' = LL /\ currentFD' = currentFD /\ loc' = NoCall /\ pc = "idle"
      BY <1>4 DEF Unmount, Return, ReturnByte
    <2>2. diskFd' # Mounted
      BY <1>4 DEF Unmount, NotMounted, Mounted
    <2> QED
      BY <2>1, <2>2, EntriesSame, TableParts, NoCallType
      DEF TableInv, NoEntryYet, OpenForEntry
  <1>5. CASE \E n \in Names : OpenFile(n)
    <2>1. PICK n \in Names : OpenFile(n)
      BY <1>5
    <2>2. loc' = [NoCall EXCEPT !.then = "tfs_openFile", !.name = n]
      BY <2>1 DEF OpenFile, Call
    <2>3. loc'.then = "tfs_openFile"
      BY <2>2, NoCallType DEF Locals
    <2> QED
      BY <1>1, <2>1, <2>3 DEF OpenFile
  <1>6. CASE ListMissing \/ Refused
    BY <1>2, <1>6, DieTable DEF ListMissing, Refused
  <1>7. ASSUME NEW FD \in Descriptors,
               \/ CloseFile(FD) \/ DeleteFile(FD) \/ DeleteFileDies(FD)
               \/ ReadByte(FD)
               \/ \E o \in Offsets : Seek(FD, o)
               \/ \E n \in NewNames : Rename(FD, n)
               \/ GetTimeStamp(FD)
               \/ IndexHit(FD)
        PROVE  TableInv'
    <2>1. CASE CloseFile(FD)
      BY <2>1, CloseTable DEF CloseFile, Served
    <2>2. CASE DeleteFile(FD)
      <3>1. Served(FD) /\ UNCHANGED session
        BY <2>2 DEF DeleteFile
      <3>2. CASE loc' = [NoCall EXCEPT !.cur = fte.inodeIdx, !.first = fte.inodeIdx]
        <4>1. loc'.then = "none"
          BY <3>2, NoCallType DEF Locals
        <4> QED
          BY <1>1, <3>1, <4>1 DEF Served
      <3> QED
        BY <1>2, <2>2, <3>1, <3>2 DEF DeleteFile, Served, Call
    <2>3. CASE DeleteFileDies(FD)
      BY <2>3, DieTable DEF DeleteFileDies
    <2>4. CASE ReadByte(FD)
      <3>1. Served(FD) /\ UNCHANGED session /\ fte.offset + 1 \in Nat
        BY <2>4, ServedFile DEF ReadByte
      <3>2. CASE /\ Readable(fte.inodeIdx)
                 /\ loc' = [NoCall EXCEPT !.cur = disk[fte.inodeIdx].nextIdx,
                                          !.want = BlocksFor(fte.offset + 1)]
        <4>1. disk[fte.inodeIdx].nextIdx \in Int /\ BlocksFor(fte.offset + 1) \in Nat
          BY <3>1, <3>2, ServedFile, BlocksForType
        <4>2. PICK c \in Int, n \in Nat : loc' = [NoCall EXCEPT !.cur = c, !.want = n]
          BY <3>2, <4>1
        <4>3. loc'.then = "none"
          BY <4>2, NoCallType DEF Locals
        <4> QED
          BY <1>1, <3>1, <4>3 DEF Served
      <3> QED
        BY <1>2, <2>4, <3>1, <3>2 DEF ReadByte, Served, Call
    <2>5. CASE \E o \in Offsets : Seek(FD, o)
      BY <2>5, OffsetTable, ClientAssumption DEF Seek, Served, Return, ReturnByte
    <2>6. CASE (\E n \in NewNames : Rename(FD, n)) \/ GetTimeStamp(FD)
      BY <1>2, <2>6 DEF Rename, GetTimeStamp, Served
    <2>7. CASE IndexHit(FD)
      BY <1>2, <2>7, DieTable DEF IndexHit
    <2> QED
      BY <1>7, <2>1, <2>2, <2>3, <2>4, <2>5, <2>6, <2>7
  <1>8. ASSUME NEW FD \in Descriptors, NEW b \in Buffers, WriteFile(FD, b)
        PROVE  TableInv'
    <2> DEFINE l == [NoCall EXCEPT !.then = "tfs_writeFile", !.buf = b]
               i == fte.inodeIdx
    <2>1. Served(FD) /\ UNCHANGED session /\ pc = "idle" /\ i \in Int
      BY <1>8, ServedFile DEF WriteFile
    <2>2. l \in Locals /\ l.then = "tfs_writeFile"
      BY NoCallType DEF Locals, Callers
    <2>3. CASE ~Readable(i)
      BY <1>2, <1>8, <2>1, <2>3 DEF WriteFile
    <2>4. CASE Readable(i) /\ disk[i].nextIdx = 0
      BY <1>1, <1>8, <2>1, <2>2, <2>4 DEF WriteFile, Call
    <2>5. CASE Readable(i) /\ disk[i].nextIdx # 0
      <3>1. disk[i].nextIdx \in Int
        BY <2>1, <2>5, ReadBlock
      <3>2. loc' = [l EXCEPT !.cur = disk[i].nextIdx, !.first = disk[i].nextIdx]
        BY <1>8, <2>5 DEF WriteFile, Call
      <3> HIDE DEF l
      <3>3. loc'.then = "tfs_writeFile"
        BY <2>2, <3>1, <3>2 DEF Locals
      <3> QED
        BY <1>1, <2>1, <3>3
    <2> QED
      BY <2>3, <2>4, <2>5
  <1> QED
    BY <1>3, <1>4, <1>5, <1>6, <1>7, <1>8 DEF Client

LEMMA TableNext ==
  ASSUME TypeOK, CallOK, TableInv, [Next]_vars
  PROVE  TableInv'
  <1>1. CASE UNCHANGED vars
    BY <1>1, EntriesSame, TableParts
    DEF vars, TableInv, NoEntryYet, OpenForEntry, IsOpen
  <1>2. CASE Step
    <2>1. CASE DeleteSuper
      BY <2>1, CloseTable, WorkFile DEF DeleteSuper, Working
    <2> QED
      BY <1>2, <2>1, MountingTable, LookupTable, CreateInodeTable, AllocTable,
         GiveBackTable, DataTable DEF Step
  <1>3. CASE Client
    BY <1>3, ClientTable
  <1>4. CASE Crash
    BY <1>4, DieTable DEF Crash
  <1> QED
    BY <1>1, <1>2, <1>3, <1>4 DEF Next

LEMMA TableInit ==
  ASSUME Init
  PROVE  TableInv
  <1>1. LL = <<>> /\ diskFd = NotMounted /\ loc = NoCall
    BY DEF Init
  <1>2. EntriesOK
    BY <1>1 DEF EntriesOK
  <1> QED
    BY <1>1, <1>2, TableParts, NoCallType
    DEF TableInv, NoEntryYet, OpenForEntry, NotMounted, Mounted

(* The table of open files is in order whatever the disk holds: ascending  *)
(* descriptors, no name twice, and no image left open without a file, so   *)
(* that the next tfs_openFile mounts again.                                *)
THEOREM TableConsistent == Spec => []TableOK
  <1>1. Init => TypeOK /\ CallOK /\ TableInv
    BY TypeInit, TableInit
  <1>2. TypeOK /\ CallOK /\ TableInv /\ [Next]_vars => (TypeOK /\ CallOK /\ TableInv)'
    BY TypeNext, TableNext
  <1>3. TableInv => TableOK
    BY DEF TableInv
  <1> QED
    BY <1>1, <1>2, <1>3, PTL DEF Spec

=============================================================================
