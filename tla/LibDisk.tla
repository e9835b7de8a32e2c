------------------------------ MODULE LibDisk ------------------------------
(***************************************************************************)
(* The emulated disk of libDisk.c, byte by byte and in the arithmetic of a *)
(* C int, for any number of disks and descriptors.  A disk is a file; a    *)
(* call is a few system calls on it.  Every read and write seeks first, so *)
(* the position of a descriptor is no state of the library, and only the   *)
(* loop of openDisk that fills a new disk is worth more than a step: the   *)
(* process may be killed, or the file system fill up, between two of its   *)
(* bytes.                                                                  *)
(*                                                                         *)
(* The file system is external: who may open a file, and whether it has    *)
(* room, change under the library.                                         *)
(***************************************************************************)
EXTENDS Integers, Sequences, FiniteSets, FiniteSetsExt

CONSTANTS
  Names,        \* file names of disks
  FDs,          \* descriptors the process may have: 0, 1, ...
  Descriptors,  \* descriptors a client passes, valid or not
  Sizes,        \* nBytes a client passes to openDisk
  Indices,      \* block numbers a client passes
  Fills,        \* bytes a client fills a block with
  Zero,         \* the byte '\0'
  BlockSize,    \* BLOCK_SIZE (256)
  IntRange,     \* the values a C int has: 2^32 of them
  WriteMayFail, \* whether the file system may be full
  NoFile, Closed

ASSUME DiskAssumption ==
  /\ BlockSize \in Nat \ {0}
  /\ IntRange \in Nat \ {0} /\ IntRange % 2 = 0
  /\ FDs \subseteq Nat
  /\ Descriptors \subseteq Int /\ Sizes \subseteq Int /\ Indices \subseteq Int
  /\ WriteMayFail \in BOOLEAN
  /\ Closed \notin Names \cup FDs
  /\ NoFile \notin Seq(Fills \cup {Zero}) \cup Seq(Seq(Fills \cup {Zero}))

VARIABLES
  file,     \* the bytes of every file, or NoFile
  locked,   \* files whose permissions refuse O_RDWR
  fds,      \* the file of every open descriptor
  pc, loc,  \* where openDisk is: its filename, nBytes, fd and i
  ret       \* what the last call returned, and for which arguments

dvars == <<file, locked, fds, pc, loc, ret>>

Byte == Fills \cup {Zero}

NoLoc == [name |-> Closed, want |-> 0, fd |-> -1, i |-> 0]

NoRet == [op |-> "none", args |-> << >>, code |-> 0, block |-> << >>]

DiskTypeOK ==
  /\ file \in [Names -> {NoFile} \cup Seq(Byte)]
  /\ locked \subseteq Names
  /\ fds \in [FDs -> Names \cup {Closed}]
  /\ pc \in {"idle", "create"}
  /\ loc \in [name : Names \cup {Closed}, want : Nat, fd : FDs \cup {-1}, i : Nat]
  /\ loc.i <= loc.want
  /\ ret.code \in Int

DiskInit ==
  /\ file = [n \in Names |-> NoFile]
  /\ locked = {}
  /\ fds = [d \in FDs |-> Closed]
  /\ pc = "idle" /\ loc = NoLoc /\ ret = NoRet

-----------------------------------------------------------------------------
(* The arithmetic and the system calls *)

(* An int computation wraps around in the build: a shift and a signed      *)
(* comparison.                                                             *)
ToInt(x) ==
  LET m == x % IntRange IN IF m < IntRange \div 2 THEN m ELSE m - IntRange

FirstByte(i) == ToInt(i * BlockSize)

EndByte(i) == ToInt(FirstByte(i) + BlockSize)

IsOpen(d) == d \in FDs /\ fds[d] # Closed

Free == {d \in FDs : fds[d] = Closed}

(* open(2) gives the least descriptor; it looks for it before the name.    *)
NewFd == CHOOSE d \in Free : \A e \in Free : d <= e

DiskSize(d) == ToInt(Len(file[fds[d]]))

(* What write(2) leaves at a position, which may lie past the end.         *)
Written(f, pos, b) ==
  [k \in 1..Max({Len(f), pos + BlockSize}) |->
     IF k > pos /\ k <= pos + BlockSize THEN b[k - pos]
     ELSE IF k <= Len(f) THEN f[k] ELSE Zero]

Filled(x) == [k \in 1..BlockSize |-> x]

Reply(op, args, c, b) ==
  /\ pc' = "idle" /\ loc' = NoLoc
  /\ ret' = [op |-> op, args |-> args, code |-> c, block |-> b]

Answer(op, args, c) == Reply(op, args, c, << >>)

Idle == pc = "idle"

-----------------------------------------------------------------------------
(* openDisk *)

(* Opened for nBytes = 0. *)
CanOpen(n) == Free # {} /\ file[n] # NoFile /\ n \notin locked

(* Opened with O_CREAT. *)
CanCreate(n) == Free # {} /\ (file[n] = NoFile \/ n \notin locked)

OpenExisting(n) ==
  /\ Idle
  /\ IF CanOpen(n)
       THEN /\ fds' = [fds EXCEPT ![NewFd] = n]
            /\ Answer("openDisk", <<n>>, NewFd)
       ELSE Answer("openDisk", <<n>>, -1) /\ UNCHANGED fds
  /\ UNCHANGED <<file, locked>>

(* Mutation: without O_TRUNC. *)
OpenCreatesOver(n, k) ==
  /\ Idle
  /\ CanCreate(n)
  /\ file' = [file EXCEPT ![n] = IF @ = NoFile THEN << >> ELSE @]
  /\ fds' = [fds EXCEPT ![NewFd] = n]
  /\ pc' = "create"
  /\ loc' = [name |-> n, want |-> k, fd |-> NewFd, i |-> 0]
  /\ ret' = NoRet
  /\ UNCHANGED locked

OpenCreates(n, k) ==
  /\ Idle
  /\ CanCreate(n)
  /\ file' = [file EXCEPT ![n] = << >>]
  /\ fds' = [fds EXCEPT ![NewFd] = n]
  /\ pc' = "create"
  /\ loc' = [name |-> n, want |-> k, fd |-> NewFd, i |-> 0]
  /\ ret' = NoRet
  /\ UNCHANGED locked

OpenRefused(n, k) ==
  /\ Idle
  /\ k < 0 \/ ~CanCreate(n)
  /\ Answer("openDisk", <<n>>, -1)
  /\ UNCHANGED <<file, locked, fds>>

OpenDisk(n, k) ==
  \/ k = 0 /\ OpenExisting(n)
  \/ k > 0 /\ OpenCreates(n, k)
  \/ k # 0 /\ OpenRefused(n, k)

(* Mutation: <= for < in the loop. *)
CreateByteOneMore ==
  /\ pc = "create" /\ loc.i <= loc.want
  /\ file' = [file EXCEPT ![loc.name] = Append(@, Zero)]
  /\ loc' = [loc EXCEPT !.i = @ + 1]
  /\ UNCHANGED <<locked, fds, pc, ret>>

CreateByte ==
  /\ pc = "create" /\ loc.i < loc.want
  /\ file' = [file EXCEPT ![loc.name] = Append(@, Zero)]
  /\ loc' = [loc EXCEPT !.i = @ + 1]
  /\ UNCHANGED <<locked, fds, pc, ret>>

(* The descriptor stays open, and nobody has it. *)
CreateFails ==
  /\ pc = "create" /\ loc.i < loc.want
  /\ WriteMayFail
  /\ Answer("openDisk", <<loc.name>>, -1)
  /\ UNCHANGED <<file, locked, fds>>

(* Mutation: the loop is left a turn too late. *)
CreateReturnsLate ==
  /\ pc = "create" /\ loc.i > loc.want
  /\ Answer("openDisk", <<loc.name>>, loc.fd)
  /\ UNCHANGED <<file, locked, fds>>

CreateReturns ==
  /\ pc = "create" /\ loc.i >= loc.want
  /\ Answer("openDisk", <<loc.name>>, loc.fd)
  /\ UNCHANGED <<file, locked, fds>>

-----------------------------------------------------------------------------
(* readBlock and writeBlock *)

(* Mutation: off by one block. *)
SeeksToLax(d, i) ==
  /\ d >= 0 /\ i >= 0 /\ IsOpen(d)
  /\ DiskSize(d) # -1
  /\ FirstByte(i) <= DiskSize(d)
  /\ FirstByte(i) >= 0

(* The checks pass: parameters, getDiskSize, the end of the block, lseek.  *)
SeeksTo(d, i) ==
  /\ d >= 0 /\ i >= 0 /\ IsOpen(d)
  /\ DiskSize(d) # -1
  /\ EndByte(i) <= DiskSize(d)
  /\ FirstByte(i) >= 0

(* read(2) stops at the end of the file, and readBlock does not ask how    *)
(* much it got.                                                            *)
ReadBlock(d, i) ==
  /\ Idle
  /\ IF SeeksTo(d, i)
       THEN Reply("readBlock", <<d, i>>, 0,
                  SubSeq(file[fds[d]], FirstByte(i) + 1,
                         Min({Len(file[fds[d]]), FirstByte(i) + BlockSize})))
       ELSE Answer("readBlock", <<d, i>>, -1)
  /\ UNCHANGED <<file, locked, fds>>

WriteBlock(d, i, x) ==
  /\ Idle
  /\ IF SeeksTo(d, i)
       THEN /\ file' = [file EXCEPT ![fds[d]] = Written(@, FirstByte(i), Filled(x))]
            /\ Answer("writeBlock", <<d, i>>, 0)
       ELSE Answer("writeBlock", <<d, i>>, -1) /\ UNCHANGED file
  /\ UNCHANGED <<locked, fds>>

-----------------------------------------------------------------------------
(* closeDisk, diskExists, getDiskSize *)

CloseDisk(d) ==
  /\ Idle
  /\ IF d >= 0 /\ IsOpen(d)
       THEN fds' = [fds EXCEPT ![d] = Closed] /\ Answer("closeDisk", <<d>>, 0)
       ELSE Answer("closeDisk", <<d>>, -1) /\ UNCHANGED fds
  /\ UNCHANGED <<file, locked>>

(* errno is EACCES for a file that is there but may not be opened.         *)
DiskExists(n) ==
  /\ Idle
  /\ Answer("diskExists", <<n>>,
            IF CanOpen(n) THEN 1
            ELSE IF Free # {} /\ file[n] # NoFile THEN 0 ELSE -1)
  /\ UNCHANGED <<file, locked, fds>>

GetDiskSize(d) ==
  /\ Idle
  /\ Answer("getDiskSize", <<d>>, IF d >= 0 /\ IsOpen(d) THEN DiskSize(d) ELSE -1)
  /\ UNCHANGED <<file, locked, fds>>

-----------------------------------------------------------------------------
(* The world *)

(* The process ends or is killed; the kernel closes its files. *)
ProcessEnds ==
  /\ fds' = [d \in FDs |-> Closed]
  /\ pc' = "idle" /\ loc' = NoLoc /\ ret' = NoRet
  /\ UNCHANGED <<file, locked>>

(* Somebody deletes a disk, or changes its permissions, between processes. *)
Unused == Idle /\ \A d \in FDs : fds[d] = Closed

Delete(n) ==
  /\ Unused
  /\ file[n] # NoFile
  /\ file' = [file EXCEPT ![n] = NoFile]
  /\ locked' = locked \ {n}
  /\ UNCHANGED <<fds, pc, loc, ret>>

Chmod(n) ==
  /\ Unused
  /\ file[n] # NoFile
  /\ locked' = IF n \in locked THEN locked \ {n} ELSE locked \cup {n}
  /\ UNCHANGED <<file, fds, pc, loc, ret>>

-----------------------------------------------------------------------------
(* The specification *)

DiskClient ==
  \/ \E n \in Names :
       DiskExists(n) \/ Delete(n) \/ Chmod(n) \/ \E k \in Sizes : OpenDisk(n, k)
  \/ \E d \in Descriptors : CloseDisk(d) \/ GetDiskSize(d)
  \/ \E d \in Descriptors, i \in Indices :
       ReadBlock(d, i) \/ \E x \in Fills : WriteBlock(d, i, x)

DiskStep == CreateByte \/ CreateFails \/ CreateReturns

DiskNext == DiskClient \/ DiskStep \/ ProcessEnds

(* A call goes on unless the process ends. *)
DiskSpec == DiskInit /\ [][DiskNext]_dvars /\ WF_dvars(DiskStep)

-----------------------------------------------------------------------------
(* Properties *)

(* The blocks of a file, without a last one that is cut short. *)
BlocksOf(f) ==
  [k \in 1..(Len(f) \div BlockSize) |->
     SubSeq(f, (k - 1) * BlockSize + 1, k * BlockSize)]

DisksOf ==
  [n \in Names |-> IF file[n] = NoFile THEN NoFile ELSE BlocksOf(file[n])]

MakingFd == IF pc = "idle" THEN Closed ELSE loc.fd

Device == INSTANCE BlockDevice WITH
  disks   <- DisksOf,
  handles <- fds,
  making  <- MakingFd,
  Buffers <- {Filled(x) : x \in Fills},
  Blank   <- Filled(Zero),
  NoDisk  <- NoFile

(* A disk is an array of blocks: a block read is the one last written, by  *)
(* whatever descriptor of whatever process, a block that is not there is   *)
(* refused, and no other disk changes.                                     *)
ImplementsBlockDevice == Device!Spec

(* openDisk returns, if the process lives. *)
OpenReturns == pc = "create" ~> pc = "idle"

(* No write makes a disk longer once openDisk has returned, and none makes *)
(* it shorter: only openDisk and a deletion change its size.               *)
SizeKept ==
  [][pc = "idle" => \A n \in Names :
       file[n] # NoFile /\ file'[n] # NoFile /\ pc' = "idle" =>
         Len(file'[n]) = Len(file[n])]_dvars

=============================================================================
