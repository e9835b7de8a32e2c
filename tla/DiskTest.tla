------------------------------ MODULE DiskTest ------------------------------
(***************************************************************************)
(* The program diskTest.c over LibDisk.  For each of its disks it opens    *)
(* the disk that is there and verifies the test blocks, or makes the disk  *)
(* and writes them.  The program may be run again and again, be killed     *)
(* between any two steps, and a disk may be deleted or have its            *)
(* permissions changed between two runs.                                   *)
(*                                                                         *)
(* begun is a history variable, read by no action: the disks whose making  *)
(* has begun and has not reached its last write.                           *)
(***************************************************************************)
EXTENDS LibDisk

CONSTANTS
  TestDisks,   \* the names diskX.dsk, in order (4)
  NumBlocks,   \* NUM_BLOCKS (50)
  TestBlocks,  \* TEST_BLOCKS, with one of them twice
  Dollar       \* the byte '$'

ASSUME TestAssumption ==
  /\ TestDisks \in Seq(Names)
  /\ Names = {TestDisks[k] : k \in 1..Len(TestDisks)}
  /\ \A j, k \in 1..Len(TestDisks) : TestDisks[j] = TestDisks[k] => j = k
  /\ NumBlocks \in Nat \ {0}
  /\ TestBlocks \in Seq(0..(NumBlocks - 1)) /\ TestBlocks # << >>
  /\ Dollar \in Fills /\ Dollar # Zero

VARIABLES
  tpc,            \* where main is; "off" when no process runs
  index, index2,  \* its locals
  disks,
  begun           \* history

tvars == <<tpc, index, index2, disks, begun>>
vars == <<dvars, tvars>>

NumTestDisks == Len(TestDisks)

Name == TestDisks[index + 1]

TypeOK ==
  /\ DiskTypeOK
  /\ tpc \in {"off", "open", "make", "made", "write", "verify", "done", "failed"}
  /\ index \in 0..NumTestDisks
  /\ index2 \in 0..Len(TestBlocks)
  /\ disks \in [0..(NumTestDisks - 1) -> Int]
  /\ begun \subseteq Names

Init ==
  /\ DiskInit
  /\ tpc = "off" /\ index = 0 /\ index2 = 0
  /\ disks = [k \in 0..(NumTestDisks - 1) |-> -1]
  /\ begun = {}

-----------------------------------------------------------------------------
(* main *)

Start ==
  /\ tpc = "off" /\ tpc' = "open"
  /\ index' = 0 /\ index2' = 0
  /\ disks' = [k \in 0..(NumTestDisks - 1) |-> -1]
  /\ UNCHANGED <<dvars, begun>>

OpenTestDisk ==
  /\ tpc = "open" /\ index < NumTestDisks
  /\ OpenDisk(Name, 0)
  /\ disks' = [disks EXCEPT ![index] = ret'.code]
  /\ tpc' = IF ret'.code < 0 THEN "make" ELSE "verify"
  /\ index2' = 0
  /\ UNCHANGED <<index, begun>>

MakeTestDisk ==
  /\ tpc = "make" /\ tpc' = "made"
  /\ OpenDisk(Name, BlockSize * NumBlocks)
  /\ begun' = IF pc' = "create" THEN begun \cup {Name} ELSE begun
  /\ UNCHANGED <<index, index2, disks>>

OpenDiskRuns == tpc = "made" /\ DiskStep /\ UNCHANGED tvars

TestDiskMade ==
  /\ tpc = "made" /\ pc = "idle"
  /\ disks' = [disks EXCEPT ![index] = ret.code]
  /\ tpc' = IF ret.code < 0 THEN "failed" ELSE "write"
  /\ UNCHANGED <<dvars, index, index2, begun>>

TestBlock == TestBlocks[index2 + 1]

(* Mutation: the first disk is written for every disk. *)
WriteTestBlockOfFirst ==
  /\ tpc = "write" /\ index2 < Len(TestBlocks)
  /\ WriteBlock(disks[0], TestBlock, Dollar)
  /\ IF ret'.code < 0 THEN tpc' = "failed" /\ UNCHANGED index2
                      ELSE index2' = index2 + 1 /\ UNCHANGED tpc
  /\ UNCHANGED <<index, disks, begun>>

(* Mutation: index2 stays. *)
WriteTestBlockStays ==
  /\ tpc = "write" /\ index2 < Len(TestBlocks)
  /\ WriteBlock(disks[index], TestBlock, Dollar)
  /\ tpc' = IF ret'.code < 0 THEN "failed" ELSE tpc
  /\ UNCHANGED <<index, index2, disks, begun>>

WriteTestBlock ==
  /\ tpc = "write" /\ index2 < Len(TestBlocks)
  /\ WriteBlock(disks[index], TestBlock, Dollar)
  /\ IF ret'.code < 0 THEN tpc' = "failed" /\ UNCHANGED index2
                      ELSE index2' = index2 + 1 /\ UNCHANGED tpc
  /\ UNCHANGED <<index, disks, begun>>

(* Mutation: only the result is looked at, not the bytes. *)
VerifyTestBlockUnread ==
  /\ tpc = "verify" /\ index2 < Len(TestBlocks)
  /\ ReadBlock(disks[index], TestBlock)
  /\ IF ret'.code < 0 THEN tpc' = "failed" /\ UNCHANGED index2
                      ELSE index2' = index2 + 1 /\ UNCHANGED tpc
  /\ UNCHANGED <<index, disks, begun>>

(* Mutation: a test block that does not verify is written again. *)
VerifyTestBlockRepairs ==
  /\ tpc = "verify" /\ index2 < Len(TestBlocks)
  /\ WriteBlock(disks[index], TestBlock, Dollar)
  /\ IF ret'.code < 0 THEN tpc' = "failed" /\ UNCHANGED index2
                      ELSE index2' = index2 + 1 /\ UNCHANGED tpc
  /\ UNCHANGED <<index, disks, begun>>

VerifyTestBlock ==
  /\ tpc = "verify" /\ index2 < Len(TestBlocks)
  /\ ReadBlock(disks[index], TestBlock)
  /\ IF ret'.code < 0 \/ ret'.block # Filled(Dollar)
       THEN tpc' = "failed" /\ UNCHANGED index2
       ELSE index2' = index2 + 1 /\ UNCHANGED tpc
  /\ UNCHANGED <<index, disks, begun>>

NextDisk ==
  /\ tpc \in {"write", "verify"} /\ index2 = Len(TestBlocks)
  /\ index' = index + 1 /\ tpc' = "open"
  /\ begun' = IF tpc = "write" THEN begun \ {Name} ELSE begun
  /\ UNCHANGED <<dvars, index2, disks>>

Finish ==
  /\ tpc = "open" /\ index = NumTestDisks
  /\ tpc' = "done"
  /\ UNCHANGED <<dvars, index, index2, disks, begun>>

(* No disk is closed: exit does that. *)
Exit ==
  /\ tpc \in {"done", "failed"} /\ tpc' = "off"
  /\ ProcessEnds
  /\ UNCHANGED <<index, index2, disks, begun>>

-----------------------------------------------------------------------------
(* The world *)

Killed ==
  /\ tpc # "off" /\ tpc' = "off"
  /\ ProcessEnds
  /\ UNCHANGED <<index, index2, disks, begun>>

(* "Now, delete the .dsk files if you want to run this test again." *)
DeleteDisk(n) ==
  /\ tpc = "off"
  /\ Delete(n)
  /\ begun' = begun \ {n}
  /\ UNCHANGED <<tpc, index, index2, disks>>

ChangeMode(n) == tpc = "off" /\ Chmod(n) /\ UNCHANGED tvars

-----------------------------------------------------------------------------
(* The specification *)

Main ==
  \/ OpenTestDisk \/ MakeTestDisk \/ OpenDiskRuns \/ TestDiskMade
  \/ WriteTestBlock \/ VerifyTestBlock \/ NextDisk \/ Finish \/ Exit

Next ==
  \/ Start \/ Main \/ Killed
  \/ \E n \in Names : DeleteDisk(n) \/ ChangeMode(n)

(* A program that runs goes on; nobody has to start it. *)
Spec == Init /\ [][Next]_vars /\ WF_vars(Main)

-----------------------------------------------------------------------------
(* Properties *)

(* The disk a whole run leaves. *)
WholeDisk ==
  [k \in 1..(BlockSize * NumBlocks) |->
     IF \E j \in 1..Len(TestBlocks) : TestBlocks[j] = (k - 1) \div BlockSize
       THEN Dollar ELSE Zero]

(* A disk is whole unless its making was cut short: what is done to the    *)
(* other disks, in this run or a later one, leaves it as it is.            *)
DisksWhole ==
  \A n \in Names : file[n] # NoFile /\ n \notin begun => file[n] = WholeDisk

(* A run that ends well tells the truth: every disk is whole, those it     *)
(* found and only read the test blocks of, too.                            *)
SuccessIsTrue == tpc = "done" => \A n \in Names : file[n] = WholeDisk

(* A run fails for a reason: the disk it is at was cut short, by a kill or *)
(* a full file system, or its permissions refuse it.                       *)
FailureIsEarned == tpc = "failed" => Name \in begun \cup locked

(* The program writes no disk but the one it is making, so it does not     *)
(* repair one that was cut short: every later run fails there, until       *)
(* somebody deletes it.                                                    *)
FoundIsKept ==
  [][\A n \in Names :
       file[n] # NoFile /\ file'[n] # file[n] =>
         \/ file'[n] = NoFile
         \/ tpc \in {"made", "write"} /\ n = Name]_vars

(* A run ends. *)
TestEnds == tpc # "off" ~> tpc = "off"

=============================================================================
