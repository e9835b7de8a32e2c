---------------------------- MODULE BlockDevice ----------------------------
(***************************************************************************)
(* What libDisk.h promises: a disk is an array of blocks that outlives the *)
(* process, a descriptor stands for a disk, the block that is read is the  *)
(* one that was written last, and only a block that is not there is        *)
(* refused.  Only openDisk, while it makes a disk, takes more than a step. *)
(***************************************************************************)
EXTENDS Integers, Sequences

CONSTANTS
  Names, FDs,           \* disk names; descriptors
  Descriptors, Indices, \* descriptors and block numbers a client passes
  Buffers,              \* blocks a client writes
  BlockSize,            \* bytes of a block
  Blank,                \* the block of zeros
  NoDisk, Closed        \* no disk of that name; no open descriptor

VARIABLES
  disks,    \* the blocks of every disk
  handles,  \* the disk of every open descriptor
  making,   \* the descriptor openDisk makes a disk for; Closed when none
  ret       \* what the last call returned, and for which arguments

vars == <<disks, handles, making, ret>>

NoRet == [op |-> "none", args |-> << >>, code |-> 0, block |-> << >>]

Reply(op, args, c, b) ==
  ret' = [op |-> op, args |-> args, code |-> c, block |-> b]

Answer(op, args, c) == Reply(op, args, c, << >>)

Init ==
  /\ disks = [n \in Names |-> NoDisk]
  /\ handles = [d \in FDs |-> Closed]
  /\ making = Closed
  /\ ret = NoRet

Idle == making = Closed /\ UNCHANGED making

Open(d) == d \in FDs /\ handles[d] # Closed

BlocksOf(d) == Len(disks[handles[d]])

Has(d, i) == Open(d) /\ i \in 0..(BlocksOf(d) - 1)

OpenDisk(n) ==
  /\ Idle
  /\ UNCHANGED disks
  /\ \/ \E d \in FDs :
          /\ disks[n] # NoDisk /\ ~Open(d)
          /\ handles' = [handles EXCEPT ![d] = n]
          /\ Answer("openDisk", <<n>>, d)
     \/ Answer("openDisk", <<n>>, -1) /\ UNCHANGED handles

(* A disk of that name loses its blocks, whoever holds it. *)
Make(n) ==
  /\ making = Closed
  /\ \E d \in FDs :
       /\ ~Open(d)
       /\ handles' = [handles EXCEPT ![d] = n]
       /\ making' = d
  /\ disks' = [disks EXCEPT ![n] = << >>]
  /\ ret' = NoRet

Grow ==
  /\ making # Closed
  /\ disks' = [disks EXCEPT ![handles[making]] = Append(@, Blank)]
  /\ UNCHANGED <<handles, making, ret>>

(* On failure the disk keeps the blocks it has, and the descriptor stays   *)
(* open.                                                                   *)
MakeReturns ==
  /\ making # Closed /\ making' = Closed
  /\ \E c \in {making, -1} : Answer("openDisk", <<handles[making]>>, c)
  /\ UNCHANGED <<disks, handles>>

ReadBlock(d, i) ==
  /\ Idle
  /\ IF Has(d, i)
       THEN Reply("readBlock", <<d, i>>, 0, disks[handles[d]][i + 1])
       ELSE Answer("readBlock", <<d, i>>, -1)
  /\ UNCHANGED <<disks, handles>>

WriteBlock(d, i, b) ==
  /\ Idle
  /\ IF Has(d, i)
       THEN /\ disks' = [disks EXCEPT ![handles[d]][i + 1] = b]
            /\ Answer("writeBlock", <<d, i>>, 0)
       ELSE Answer("writeBlock", <<d, i>>, -1) /\ UNCHANGED disks
  /\ UNCHANGED handles

CloseDisk(d) ==
  /\ Idle
  /\ IF Open(d)
       THEN /\ handles' = [handles EXCEPT ![d] = Closed]
            /\ Answer("closeDisk", <<d>>, 0)
       ELSE Answer("closeDisk", <<d>>, -1) /\ UNCHANGED handles
  /\ UNCHANGED disks

(* 1 means the disk is there; 0 and -1 mean nothing. *)
DiskExists(n) ==
  /\ Idle
  /\ \E c \in -1..1 : Answer("diskExists", <<n>>, c) /\ (c = 1 => disks[n] # NoDisk)
  /\ UNCHANGED <<disks, handles>>

(* The size is in bytes; the last block may be cut short. *)
GetDiskSize(d) ==
  /\ Idle
  /\ IF Open(d)
       THEN \E more \in 0..(BlockSize - 1) :
              Answer("getDiskSize", <<d>>, BlocksOf(d) * BlockSize + more)
       ELSE Answer("getDiskSize", <<d>>, -1)
  /\ UNCHANGED <<disks, handles>>

(* The process ends, and no descriptor outlives it. *)
ProcessEnds ==
  /\ handles' = [d \in FDs |-> Closed]
  /\ making' = Closed
  /\ ret' = NoRet
  /\ UNCHANGED disks

(* Somebody deletes a disk that no process has open. *)
Delete(n) ==
  /\ Idle
  /\ \A d \in FDs : handles[d] # n
  /\ disks' = [disks EXCEPT ![n] = NoDisk]
  /\ UNCHANGED <<handles, ret>>

Next ==
  \/ Grow \/ MakeReturns \/ ProcessEnds
  \/ \E n \in Names : OpenDisk(n) \/ Make(n) \/ DiskExists(n) \/ Delete(n)
  \/ \E d \in Descriptors : CloseDisk(d) \/ GetDiskSize(d)
  \/ \E d \in Descriptors, i \in Indices :
       ReadBlock(d, i) \/ \E b \in Buffers : WriteBlock(d, i, b)

Spec == Init /\ [][Next]_vars

=============================================================================
