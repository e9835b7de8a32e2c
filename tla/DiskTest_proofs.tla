-------------------------- MODULE DiskTest_proofs ---------------------------
(***************************************************************************)
(* Proofs about DiskTest, for any number of disks, blocks and test blocks: *)
(* its type invariant; what a run that ends well, or fails, says of the    *)
(* disks; and which disks the program writes.                              *)
(***************************************************************************)
EXTENDS DiskTest, LibDisk_proofs

-----------------------------------------------------------------------------
(* The inductive invariant *)

(* Where the program is says which disk it is at.                          *)
IndexInv ==
  /\ tpc \in {"make", "made", "write", "verify", "failed"} => index < NumTestDisks
  /\ tpc = "done" => index = NumTestDisks
  /\ tpc \in {"make", "made"} => index2 = 0

(* The rest of TypeOK.                                                     *)
RunTypeOK ==
  /\ tpc \in {"off", "open", "make", "made", "write", "verify", "done", "failed"}
  /\ index \in 0..NumTestDisks
  /\ index2 \in 0..Len(TestBlocks)
  /\ disks \in [0..(NumTestDisks - 1) -> Int]
  /\ begun \subseteq Names

TypeInv == DiskInv /\ RunTypeOK /\ IndexInv

Whole == BlockSize * NumBlocks

Zeros(m) == [k \in 1..m |-> Zero]

(* A disk with the first m test blocks written.                            *)
PartDisk(m) ==
  [k \in 1..Whole |->
     IF \E j \in 1..m : TestBlocks[j] = (k - 1) \div BlockSize THEN Dollar ELSE Zero]

(* A block of a file is there, and full of '$'.                            *)
Shows(f, b) ==
  /\ b * BlockSize + BlockSize <= Len(f)
  /\ \A k \in 1..BlockSize : f[b * BlockSize + k] = Dollar

(* The program holds the disk it is at.                                    *)
Holds == disks[index] \in FDs /\ fds[disks[index]] = Name

(* openDisk makes the disk the program is at, and is not asked for another *)
(* one.                                                                    *)
CallInv ==
  pc = "create" =>
    tpc = "made" /\ loc.name = Name /\ loc.want = Whole /\ Name \in begun

(* A disk is made only when it could not be opened.                        *)
MakeInv == tpc = "make" => ~CanOpen(Name)

(* The descriptors the system has are enough for a run.                    *)
EnoughFDs == IsFiniteSet(FDs) /\ NumTestDisks <= Cardinality(FDs)

MadeInv ==
  tpc = "made" /\ pc = "idle" =>
    IF ret.code < 0
      THEN EnoughFDs => Name \in begun \cup locked
      ELSE /\ ret.code \in FDs /\ fds[ret.code] = Name
           /\ file[Name] = Zeros(Whole) /\ Name \in begun

WriteInv ==
  tpc = "write" => Holds /\ file[Name] = PartDisk(index2) /\ Name \in begun

VerifyInv ==
  tpc = "verify" =>
    /\ Holds
    /\ \A j \in 1..index2 : Shows(file[Name], TestBlocks[j])

(* A disk that was cut short was cut short in the loop of openDisk, or     *)
(* between two test blocks.                                                *)
BegunInv ==
  \A n \in begun :
    \/ \E m \in Nat : file[n] = Zeros(m)
    \/ \E m \in 0..Len(TestBlocks) : file[n] = PartDisk(m)

(* The disks a run is done with are whole.                                 *)
PassedInv ==
  tpc # "off" => \A j \in 1..index : file[TestDisks[j]] = WholeDisk

(* No descriptor is open but those the run holds.                          *)
Held == {disks[j] : j \in 0..(index - 1)}

FdsInv ==
  /\ tpc = "off" => \A d \in FDs : fds[d] = Closed
  /\ tpc \in {"open", "make"} => \A d \in FDs : fds[d] # Closed => d \in Held
  /\ tpc \in {"write", "verify"} =>
       \A d \in FDs : fds[d] # Closed => d \in Held \cup {disks[index]}
  /\ tpc = "made" /\ pc = "create" =>
       \A d \in FDs : fds[d] # Closed => d \in Held \cup {loc.fd}
  /\ tpc = "made" /\ pc = "idle" /\ ret.code >= 0 =>
       \A d \in FDs : fds[d] # Closed => d \in Held \cup {ret.code}

FailInv ==
  tpc = "failed" /\ EnoughFDs => Name \in begun \cup locked

TestInv ==
  /\ TypeInv /\ CallInv /\ MakeInv /\ MadeInv /\ WriteInv /\ VerifyInv
  /\ DisksWhole /\ BegunInv /\ PassedInv /\ FdsInv /\ FailInv


-----------------------------------------------------------------------------
(* Types *)

LEMMA SeqElements ==
  ASSUME NEW S, NEW s \in Seq(S)
  PROVE  Len(s) \in Nat /\ \A j \in 1..Len(s) : s[j] \in S
OBVIOUS

LEMMA SeqEmpty ==
  ASSUME NEW S, NEW s \in Seq(S), Len(s) = 0
  PROVE  s = << >>
OBVIOUS

LEMMA TestConstants ==
  /\ NumTestDisks \in Nat /\ Len(TestBlocks) \in Nat
  /\ Dollar \in Fills /\ Dollar \in Byte /\ Zero \in Byte /\ Dollar # Zero
  /\ \A j \in 1..NumTestDisks : TestDisks[j] \in Names
  /\ \A j \in 1..Len(TestBlocks) : TestBlocks[j] \in 0..(NumBlocks - 1)
  /\ NumBlocks \in Nat /\ NumBlocks > 0
<1>1. Dollar \in Fills /\ Dollar # Zero
  BY TestAssumption
<1>2. Dollar \in Byte /\ Zero \in Byte
  BY <1>1 DEF Byte
<1>3. NumBlocks \in Nat /\ NumBlocks > 0
  BY TestAssumption
<1>4. NumTestDisks \in Nat /\ \A j \in 1..NumTestDisks : TestDisks[j] \in Names
  <2>1. TestDisks \in Seq(Names)
    BY TestAssumption
  <2> QED
    BY <2>1 DEF NumTestDisks
<1>5. /\ Len(TestBlocks) \in Nat
      /\ \A j \in 1..Len(TestBlocks) : TestBlocks[j] \in 0..(NumBlocks - 1)
  <2>1. TestBlocks \in Seq(0..(NumBlocks - 1))
    BY TestAssumption
  <2> QED
    BY <2>1, SeqElements
<1> QED
  BY <1>1, <1>2, <1>3, <1>4, <1>5

LEMMA WholeNat == Whole \in Nat /\ Whole > 0
<1>1. PICK d \in Nat, n \in Nat : d = BlockSize /\ n = NumBlocks /\ d > 0 /\ n > 0
  BY BlockSizeNat, TestConstants
<1>2. d * n \in Nat /\ d * n > 0
  BY <1>1, SMTT(30)
<1> QED
  BY <1>1, <1>2 DEF Whole

LEMMA AtDisk ==
  ASSUME RunTypeOK, index < NumTestDisks
  PROVE  /\ index \in Nat /\ index + 1 \in 1..NumTestDisks
         /\ index \in 0..(NumTestDisks - 1) /\ Name \in Names
<1>1. index \in Nat /\ index + 1 \in 1..NumTestDisks /\ index \in 0..(NumTestDisks - 1)
  BY TestConstants DEF RunTypeOK
<1> QED
  BY <1>1, TestConstants DEF Name

LEMMA AtBlock ==
  ASSUME RunTypeOK, index2 < Len(TestBlocks)
  PROVE  /\ index2 \in Nat /\ index2 + 1 \in 1..Len(TestBlocks)
         /\ index2 + 1 \in 0..Len(TestBlocks)
         /\ TestBlock \in Nat /\ TestBlock < NumBlocks
<1>1. /\ index2 \in Nat /\ index2 + 1 \in 1..Len(TestBlocks)
      /\ index2 + 1 \in 0..Len(TestBlocks)
  BY TestConstants DEF RunTypeOK
<1>2. TestBlocks[index2 + 1] \in 0..(NumBlocks - 1)
  BY <1>1, TestConstants
<1>3. TestBlock \in Nat /\ TestBlock < NumBlocks
  BY <1>2, TestConstants DEF TestBlock
<1> QED
  BY <1>1, <1>3

(* A step of the program leaves the libraries' part of the invariant.      *)
LEMMA LibraryStep ==
  ASSUME TypeInv, [Next]_vars
  PROVE  DiskInv'
<1>1. CASE UNCHANGED dvars
  <2>1. [DiskNext]_dvars /\ DiskInv
    BY <1>1 DEF TypeInv
  <2> QED
    BY <2>1, DiskInvNext
<1>2. CASE OpenTestDisk \/ MakeTestDisk
  <2>1. index < NumTestDisks
    BY <1>2 DEF OpenTestDisk, MakeTestDisk, TypeInv, IndexInv
  <2>2. Name \in Names
    BY <2>1, AtDisk DEF TypeInv
  <2>3. PICK k \in Int : OpenDisk(Name, k)
    <3>1. BlockSize * NumBlocks \in Int /\ 0 \in Int
      BY WholeNat DEF Whole
    <3> QED
      BY <1>2, <3>1 DEF OpenTestDisk, MakeTestDisk
  <2> QED
    BY <2>2, <2>3, DiskInvOpen DEF TypeInv
<1>3. CASE OpenDiskRuns
  BY <1>3, DiskInvStep DEF OpenDiskRuns, TypeInv
<1>4. CASE WriteTestBlock
  <2>1. TestBlock \in Int /\ Dollar \in Fills
    BY <1>4, AtBlock, TestConstants DEF WriteTestBlock, TypeInv
  <2>2. WriteBlock(disks[index], TestBlock, Dollar)
    BY <1>4 DEF WriteTestBlock
  <2> QED
    BY <2>1, <2>2, DiskInvWrite DEF TypeInv
<1>5. CASE VerifyTestBlock
  BY <1>5, DiskInvRead DEF VerifyTestBlock, TypeInv
<1>6. CASE ProcessEnds
  BY <1>6, DiskInvWorld DEF TypeInv
<1>7. ASSUME NEW n \in Names, Delete(n) \/ Chmod(n) PROVE DiskInv'
  BY <1>7, DiskInvWorld DEF TypeInv
<1> QED
  BY <1>1, <1>2, <1>3, <1>4, <1>5, <1>6, <1>7
     DEF Next, Main, vars, Start, TestDiskMade, NextDisk, Finish, Exit, Killed,
         DeleteDisk, ChangeMode

LEMMA TypeInvInit == Init => TypeInv
<1> SUFFICES ASSUME Init PROVE TypeInv
  OBVIOUS
<1>1. DiskInv
  BY DiskInvInit DEF Init
<1>2. RunTypeOK
  BY TestConstants DEF Init, RunTypeOK
<1>3. IndexInv
  BY DEF Init, IndexInv
<1> QED
  BY <1>1, <1>2, <1>3 DEF TypeInv

LEMMA TypeInvNext == TypeInv /\ [Next]_vars => TypeInv'
<1> SUFFICES ASSUME TypeInv, [Next]_vars PROVE RunTypeOK' /\ IndexInv'
  BY LibraryStep DEF TypeInv
<1>0. /\ RunTypeOK /\ IndexInv
      /\ NumTestDisks \in Nat /\ Len(TestBlocks) \in Nat
  BY TestConstants DEF TypeInv
<1>1. ret.code \in Int /\ ret'.code \in Int
  BY LibraryStep DEF TypeInv, DiskInv, DiskTypeOK
<1>2. CASE Start
  BY <1>0, <1>2 DEF Start, RunTypeOK, IndexInv
<1>3. CASE OpenTestDisk
  BY <1>0, <1>1, <1>3 DEF OpenTestDisk, RunTypeOK, IndexInv
<1>4. CASE MakeTestDisk
  <2>1. Name \in Names
    BY <1>0, <1>4, AtDisk DEF MakeTestDisk, IndexInv
  <2> QED
    BY <1>0, <1>4, <2>1 DEF MakeTestDisk, RunTypeOK, IndexInv
<1>5. CASE TestDiskMade
  BY <1>0, <1>1, <1>5 DEF TestDiskMade, RunTypeOK, IndexInv
<1>6. CASE WriteTestBlock
  <2>1. index2 + 1 \in 0..Len(TestBlocks)
    BY <1>0, <1>6, AtBlock DEF WriteTestBlock
  <2> QED
    BY <1>0, <1>6, <2>1 DEF WriteTestBlock, RunTypeOK, IndexInv
<1>7. CASE VerifyTestBlock
  <2>1. index2 + 1 \in 0..Len(TestBlocks)
    BY <1>0, <1>7, AtBlock DEF VerifyTestBlock
  <2> QED
    BY <1>0, <1>7, <2>1 DEF VerifyTestBlock, RunTypeOK, IndexInv
<1>8. CASE NextDisk
  <2>1. index + 1 \in 0..NumTestDisks
    BY <1>0, <1>8 DEF NextDisk, RunTypeOK, IndexInv
  <2> QED
    BY <1>0, <1>8, <2>1 DEF NextDisk, RunTypeOK, IndexInv
<1>9. CASE OpenDiskRuns \/ Finish \/ Exit \/ Killed
  BY <1>0, <1>9 DEF OpenDiskRuns, Finish, Exit, Killed, tvars, RunTypeOK, IndexInv
<1>10. ASSUME NEW n \in Names, DeleteDisk(n) \/ ChangeMode(n)
       PROVE  RunTypeOK' /\ IndexInv'
  BY <1>0, <1>10 DEF DeleteDisk, ChangeMode, tvars, RunTypeOK, IndexInv
<1>11. CASE UNCHANGED vars
  BY <1>0, <1>11 DEF vars, tvars, RunTypeOK, IndexInv
<1> QED
  BY <1>2, <1>3, <1>4, <1>5, <1>6, <1>7, <1>8, <1>9, <1>10, <1>11 DEF Next, Main

(***************************************************************************)
(* main indexes its arrays of disks and of test blocks within their        *)
(* bounds, and every variable of the program and of the disk keeps its     *)
(* type, whatever is killed or deleted.                                    *)
(***************************************************************************)
THEOREM TestTypeCorrect == Spec => []TypeOK
<1>1. TypeInv => TypeOK
  BY DEF TypeInv, DiskInv, RunTypeOK, TypeOK
<1> QED
  BY <1>1, TypeInvInit, TypeInvNext, PTL DEF Spec


-----------------------------------------------------------------------------
(* The test blocks of a file *)

LEMMA BlockFits ==
  ASSUME NEW b \in Nat, b < NumBlocks
  PROVE  /\ b * BlockSize \in Nat
         /\ (b + 1) * BlockSize = b * BlockSize + BlockSize
         /\ b * BlockSize + BlockSize <= Whole
<1>1. b * BlockSize \in Nat /\ (b + 1) * BlockSize = b * BlockSize + BlockSize
  BY BlockSizeNat, QuotientFits
<1>2. b * BlockSize + BlockSize <= NumBlocks * BlockSize
  BY TestConstants, BlocksApart
<1>3. NumBlocks * BlockSize = Whole
  <2>1. PICK d \in Nat, n \in Nat : d = BlockSize /\ n = NumBlocks
    BY BlockSizeNat, TestConstants
  <2>2. n * d = d * n
    OBVIOUS
  <2> QED
    BY <2>1, <2>2 DEF Whole
<1> QED
  BY <1>1, <1>2, <1>3

(* The bytes of a block.                                                   *)
LEMMA BlockOfByte ==
  ASSUME NEW k \in Nat \ {0}, NEW b \in Nat
  PROVE  (k - 1) \div BlockSize = b <=>
           b * BlockSize < k /\ k <= b * BlockSize + BlockSize
<1>1. PICK d \in Nat, x \in Nat : d = BlockSize /\ d > 0 /\ x = k - 1 /\ k = x + 1
  <2>1. k - 1 \in Nat /\ k = (k - 1) + 1
    OBVIOUS
  <2> QED
    BY <2>1, BlockSizeNat
<1>2. PICK q \in Nat, r \in 0..(d - 1) : q = x \div d /\ x = q * d + r
  BY <1>1, Quotient
<1>3. q * d \in Nat /\ b * d \in Nat
  BY <1>1, SMTT(30)
<1>4. ASSUME b * d < k, k <= b * d + d PROVE q = b
  <2>1. PICK v \in 0..(d - 1) : x = b * d + v
    <3>1. x - b * d \in 0..(d - 1) /\ x = b * d + (x - b * d)
      BY <1>1, <1>3, <1>4
    <3> QED
      BY <3>1
  <2>2. q * d + r <= b * d + v /\ b * d + v <= q * d + r
    <3>1. PICK s \in Nat, t \in Nat : s = q * d /\ t = b * d
      BY <1>3
    <3>2. s + r = x /\ t + v = x
      BY <1>2, <2>1, <3>1
    <3>3. s + r <= t + v /\ t + v <= s + r
      BY <3>2
    <3> QED
      BY <3>1, <3>3
  <2> QED
    BY <1>1, <2>2, QuotientOrder
<1>5. ASSUME q = b PROVE b * d < k /\ k <= b * d + d
  BY <1>1, <1>2, <1>3, <1>5
<1> QED
  BY <1>1, <1>2, <1>4, <1>5

LEMMA PartType ==
  ASSUME NEW m \in Nat
  PROVE  PartDisk(m) \in Seq(Byte) /\ Len(PartDisk(m)) = Whole
BY WholeNat, TestConstants DEF PartDisk

LEMMA PartByte ==
  ASSUME NEW m \in 0..Len(TestBlocks), NEW k \in 1..Whole
  PROVE  PartDisk(m)[k] =
           IF \E j \in 1..m : /\ TestBlocks[j] * BlockSize < k
                              /\ k <= TestBlocks[j] * BlockSize + BlockSize
             THEN Dollar ELSE Zero
<1>1. k \in Nat \ {0}
  BY WholeNat
<1>2. ASSUME NEW j \in 1..m PROVE TestBlocks[j] \in Nat
  BY TestConstants
<1>3. \A j \in 1..m : (TestBlocks[j] = (k - 1) \div BlockSize) <=>
                        /\ TestBlocks[j] * BlockSize < k
                        /\ k <= TestBlocks[j] * BlockSize + BlockSize
  BY <1>1, <1>2, BlockOfByte
<1> QED
  BY <1>3 DEF PartDisk

LEMMA PartNone == PartDisk(0) = Zeros(Whole)
BY DEF PartDisk, Zeros

LEMMA PartAll == WholeDisk = PartDisk(Len(TestBlocks))
BY DEF WholeDisk, PartDisk, Whole

(* The next test block is written.                                         *)
LEMMA PartNext ==
  ASSUME NEW m \in Nat, m < Len(TestBlocks)
  PROVE  Written(PartDisk(m), TestBlocks[m + 1] * BlockSize, Filled(Dollar)) =
           PartDisk(m + 1)
<1>1. m \in 0..Len(TestBlocks) /\ m + 1 \in 0..Len(TestBlocks) /\ m + 1 \in 1..Len(TestBlocks)
  BY TestConstants
<1>2. PICK b \in Nat, p \in Nat, l \in Nat, d \in Nat :
        /\ b = TestBlocks[m + 1] /\ p = b * BlockSize /\ l = Whole /\ d = BlockSize
        /\ p + d <= l
  <2>1. TestBlocks[m + 1] \in Nat /\ TestBlocks[m + 1] < NumBlocks
    BY <1>1, TestConstants
  <2> QED
    BY <2>1, BlockFits, WholeNat, BlockSizeNat
<1>3. PICK f \in Seq(Byte) : f = PartDisk(m) /\ Len(f) = l
  BY <1>2, PartType
<1>4. Written(f, p, Filled(Dollar)) =
        [k \in 1..l |-> IF k > p /\ k <= p + d THEN Filled(Dollar)[k - p]
                        ELSE IF k <= l THEN f[k] ELSE Zero]
  <2>1. p + d <= l
    BY <1>2
  <2>2. Max({l, p + d}) = l
    BY <2>1, MaxOfTwo
  <2> QED
    BY <1>2, <1>3, <2>2 DEF Written
<1>5. ASSUME NEW k \in 1..l
      PROVE  (IF k > p /\ k <= p + d THEN Filled(Dollar)[k - p]
              ELSE IF k <= l THEN f[k] ELSE Zero) = PartDisk(m + 1)[k]
  <2>1. PartDisk(m + 1)[k] =
          IF \E j \in 1..(m + 1) : /\ TestBlocks[j] * BlockSize < k
                                   /\ k <= TestBlocks[j] * BlockSize + BlockSize
            THEN Dollar ELSE Zero
    BY <1>1, <1>2, PartByte
  <2>2. f[k] = IF \E j \in 1..m : /\ TestBlocks[j] * BlockSize < k
                                  /\ k <= TestBlocks[j] * BlockSize + BlockSize
                 THEN Dollar ELSE Zero
    BY <1>1, <1>2, <1>3, PartByte
  <2>3. CASE k > p /\ k <= p + d
    <3>1. k - p \in 1..d
      BY <2>3
    <3>2. Filled(Dollar)[k - p] = Dollar
      BY <1>2, <3>1 DEF Filled
    <3>3. m + 1 \in 1..(m + 1)
      OBVIOUS
    <3> QED
      BY <1>2, <2>1, <2>3, <3>2, <3>3
  <2>4. CASE ~ (k > p /\ k <= p + d)
    <3>1. \A j \in 1..(m + 1) : j \in 1..m \/ j = m + 1
      OBVIOUS
    <3>2. 1..m \subseteq 1..(m + 1)
      OBVIOUS
    <3>3. ~ (TestBlocks[m + 1] * BlockSize < k /\ k <= TestBlocks[m + 1] * BlockSize + BlockSize)
      BY <1>2, <2>4
    <3>4. PartDisk(m + 1)[k] = f[k]
      BY <2>1, <2>2, <3>1, <3>2, <3>3
    <3>5. k <= l
      OBVIOUS
    <3> QED
      BY <2>4, <3>4, <3>5
  <2> QED
    BY <2>3, <2>4
<1>6. PartDisk(m + 1) = [k \in 1..l |-> PartDisk(m + 1)[k]]
  BY <1>2 DEF PartDisk
<1> QED
  BY <1>2, <1>3, <1>4, <1>5, <1>6

LEMMA WholeShows ==
  ASSUME NEW j \in 1..Len(TestBlocks)
  PROVE  Shows(WholeDisk, TestBlocks[j])
<1>1. PICK b \in Nat, p \in Nat, d \in Nat :
        /\ b = TestBlocks[j] /\ p = b * BlockSize /\ d = BlockSize
        /\ p + d <= Whole
  <2>1. TestBlocks[j] \in Nat /\ TestBlocks[j] < NumBlocks
    BY TestConstants
  <2> QED
    BY <2>1, BlockFits, BlockSizeNat
<1>2. Len(TestBlocks) \in Nat /\ Len(TestBlocks) \in 0..Len(TestBlocks)
  BY TestConstants
<1>3. Len(WholeDisk) = Whole
  BY <1>2, PartAll, PartType
<1>4. ASSUME NEW k \in 1..d PROVE WholeDisk[p + k] = Dollar
  <2>1. p + k \in 1..Whole
    <3>1. PICK l \in Nat : l = Whole /\ p + d <= l
      BY <1>1, WholeNat
    <3>2. p + k \in 1..l
      BY <3>1
    <3> QED
      BY <3>1, <3>2
  <2>2. p < p + k /\ p + k <= p + d
    OBVIOUS
  <2> QED
    BY <1>1, <1>2, <2>1, <2>2, PartByte, PartAll
<1> QED
  BY <1>1, <1>3, <1>4 DEF Shows

(* A disk that was cut short, and shows every test block, was not cut      *)
(* short after all.                                                        *)
LEMMA ShowsWhole ==
  ASSUME NEW f,
         \/ \E m \in Nat : f = Zeros(m)
         \/ \E m \in 0..Len(TestBlocks) : f = PartDisk(m),
         \A j \in 1..Len(TestBlocks) : Shows(f, TestBlocks[j])
  PROVE  f = WholeDisk
<1>1. ASSUME NEW m \in Nat, f = Zeros(m) PROVE FALSE
  <2>1. 1 \in 1..Len(TestBlocks)
    <3>1. TestBlocks \in Seq(0..(NumBlocks - 1)) /\ TestBlocks # << >>
      BY TestAssumption
    <3>2. Len(TestBlocks) # 0
      BY <3>1, SeqEmpty
    <3> QED
      BY <3>2, TestConstants
  <2>2. PICK b \in Nat : b = TestBlocks[1]
    BY <2>1, TestConstants
  <2>3. Shows(f, b) /\ Len(f) = m
    BY <1>1, <2>1, <2>2 DEF Zeros
  <2>4. PICK p \in Nat : p = b * BlockSize /\ p + BlockSize <= m
    BY <2>3, BlockSizeNat, QuotientFits DEF Shows
  <2>5. 1 \in 1..BlockSize /\ p + 1 \in 1..m
    BY <2>4, BlockSizeNat
  <2>6. f[p + 1] = Dollar
    BY <2>3, <2>4, <2>5 DEF Shows
  <2>7. f[p + 1] = Zero
    BY <1>1, <2>5 DEF Zeros
  <2> QED
    BY <2>6, <2>7, TestConstants
<1>2. ASSUME NEW m \in 0..Len(TestBlocks), f = PartDisk(m) PROVE f = WholeDisk
  <2>1. PICK l \in Nat : l = Len(TestBlocks)
    BY TestConstants
  <2>2. ASSUME NEW k \in 1..Whole PROVE PartDisk(m)[k] = PartDisk(l)[k]
    <3>0. k \in Nat
      BY WholeNat
    <3>1. PartDisk(m)[k] =
            IF \E j \in 1..m : /\ TestBlocks[j] * BlockSize < k
                               /\ k <= TestBlocks[j] * BlockSize + BlockSize
              THEN Dollar ELSE Zero
      BY PartByte
    <3>2. PartDisk(l)[k] =
            IF \E j \in 1..l : /\ TestBlocks[j] * BlockSize < k
                               /\ k <= TestBlocks[j] * BlockSize + BlockSize
              THEN Dollar ELSE Zero
      BY <2>1, PartByte
    <3>3. 1..m \subseteq 1..l
      BY <2>1
    <3>4. ASSUME NEW j \in 1..l, TestBlocks[j] * BlockSize < k,
                 k <= TestBlocks[j] * BlockSize + BlockSize
          PROVE  PartDisk(m)[k] = Dollar
      <4>1. PICK b \in Nat : b = TestBlocks[j]
        BY <2>1, TestConstants
      <4>2. PICK p \in Nat, d \in Nat : p = b * BlockSize /\ d = BlockSize
        BY BlockSizeNat, QuotientFits
      <4>3. k - p \in 1..BlockSize /\ p + (k - p) = k
        <5>1. p < k /\ k <= p + d
          BY <3>4, <4>1, <4>2
        <5>2. k - p \in 1..d /\ p + (k - p) = k
          BY <3>0, <5>1
        <5> QED
          BY <4>2, <5>2
      <4>4. Shows(f, b)
        BY <2>1, <4>1
      <4> QED
        BY <1>2, <4>2, <4>3, <4>4 DEF Shows
    <3> QED
      BY <3>1, <3>2, <3>3, <3>4
  <2>3. /\ PartDisk(m) = [k \in 1..Whole |-> PartDisk(m)[k]]
        /\ PartDisk(l) = [k \in 1..Whole |-> PartDisk(l)[k]]
    BY DEF PartDisk
  <2> QED
    BY <1>2, <2>1, <2>2, <2>3, PartAll
<1> QED
  BY <1>1, <1>2


-----------------------------------------------------------------------------
(* The steps of a run *)

(* Every byte of a test disk has an offset that an int holds.              *)
DisksFit == Whole < Half

LEMMA BlockFitsInt ==
  ASSUME DisksFit, NEW b \in Nat, b < NumBlocks
  PROVE  (b + 1) * BlockSize < Half
BY BlockFits, WholeNat, BlockSizeNat, HalfInt DEF DisksFit

(* On a disk of full length every test block is there.                     *)
LEMMA SeeksWhole ==
  ASSUME DisksFit, DiskInv, NEW d \in FDs, fds[d] \in Names,
         file[fds[d]] \in Seq(Byte), Len(file[fds[d]]) = Whole,
         NEW b \in Nat, b < NumBlocks
  PROVE  SeeksTo(d, b) /\ FirstByte(b) = b * BlockSize
<1>1. /\ FirstByte(b) = b * BlockSize /\ EndByte(b) = b * BlockSize + BlockSize
      /\ b * BlockSize \in Nat /\ b * BlockSize + BlockSize <= Whole
  BY BlockFitsInt, BlockFits, BlockOffset
<1>2. DiskSize(d) = Whole
  BY WholeNat, ToIntSmall DEF DiskSize, DisksFit
<1>3. d >= 0
  <2>1. \A e \in FDs : e \in Nat
    BY DiskAssumption
  <2> QED
    BY <2>1
<1>4. fds[d] # Closed
  BY DiskAssumption
<1>5. DiskSize(d) # -1 /\ EndByte(b) <= DiskSize(d) /\ FirstByte(b) >= 0
  BY <1>1, <1>2, WholeNat
<1> QED
  BY <1>1, <1>3, <1>4, <1>5 DEF SeeksTo, IsOpen

(* readBlock returns the bytes of the block, when it succeeds.             *)
LEMMA ReadShows ==
  ASSUME DisksFit, DiskInv, NEW d, NEW b \in Nat, b < NumBlocks, ReadBlock(d, b),
         SeeksTo(d, b)
  PROVE  /\ ret'.code = 0
         /\ ret'.block = Filled(Dollar) <=> Shows(file[fds[d]], b)
<1>1. (b + 1) * BlockSize < Half
  BY BlockFitsInt
<1>2. /\ fds[d] \in Names /\ file[fds[d]] \in Seq(Byte)
      /\ FirstByte(b) = b * BlockSize /\ b * BlockSize \in Nat
      /\ b * BlockSize + BlockSize <= Len(file[fds[d]])
  BY <1>1, SeeksFile, SeeksWithin, DiskInvFiles
<1>3. PICK f \in Seq(Byte), l \in Nat, p \in Nat, c \in Nat :
        /\ f = file[fds[d]] /\ l = Len(f) /\ p = b * BlockSize /\ c = BlockSize
        /\ p + c <= l
  <2>1. Len(file[fds[d]]) \in Nat
    BY <1>2
  <2> QED
    BY <1>2, <2>1, BlockSizeNat
<1>4. Min({l, p + c}) = p + c
  BY <1>3, MinOfTwo
<1>5. Reply("readBlock", <<d, b>>, 0, SubSeq(f, p + 1, p + c))
  BY <1>2, <1>3, <1>4 DEF ReadBlock
<1>6. SubSeq(f, p + 1, p + c) = [k \in 1..c |-> f[p + k]]
  <2>1. SubSeq(f, p + 1, p + c) = [k \in 1..(1 + (p + c) - (p + 1)) |-> f[k + (p + 1) - 1]]
    OBVIOUS
  <2>2. 1 + (p + c) - (p + 1) = c /\ \A k \in 1..c : k + (p + 1) - 1 = p + k
    OBVIOUS
  <2> QED
    BY <2>1, <2>2
<1>7. (\A k \in 1..c : f[p + k] = Dollar) <=>
        [k \in 1..c |-> f[p + k]] = [k \in 1..c |-> Dollar]
  <2>1. ASSUME [k \in 1..c |-> f[p + k]] = [k \in 1..c |-> Dollar], NEW k \in 1..c
        PROVE  f[p + k] = Dollar
    <3>1. [j \in 1..c |-> f[p + j]][k] = [j \in 1..c |-> Dollar][k]
      BY <2>1
    <3> QED
      BY <3>1
  <2> QED
    BY <2>1
<1> QED
  BY <1>3, <1>5, <1>6, <1>7 DEF Reply, Shows, Filled

LEMMA ReadFails ==
  ASSUME NEW d, NEW b, ReadBlock(d, b), ~SeeksTo(d, b)
  PROVE  ret'.code = -1
BY DEF ReadBlock, Answer, Reply

(* The disks a run is done with are other ones than the one it is at.      *)
LEMMA OtherDisk ==
  ASSUME RunTypeOK, index < NumTestDisks, NEW j \in 1..index
  PROVE  TestDisks[j] \in Names /\ TestDisks[j] # Name
<1>1. PICK i \in Nat : i = index /\ i + 1 \in 1..NumTestDisks
  BY AtDisk
<1>2. j \in 1..i /\ j \in 1..NumTestDisks /\ j # i + 1
  BY <1>1, TestConstants
<1> QED
  BY <1>1, <1>2, TestAssumption, TestConstants DEF Name, NumTestDisks

(* What the invariant says of files: for a step that changes none, and for *)
(* one that changes the disk a run is making.                              *)
FileFacts == DisksWhole /\ BegunInv /\ PassedInv

LEMMA FilesStay ==
  ASSUME FileFacts, UNCHANGED <<file, begun>>,
         tpc' = "off" \/ (index' = index /\ (tpc = "off" => tpc' = "off"))
  PROVE  FileFacts'
<1>1. DisksWhole' /\ BegunInv'
  BY DEF FileFacts, DisksWhole, BegunInv
<1>2. PassedInv'
  BY DEF FileFacts, PassedInv, WholeDisk
<1> QED
  BY <1>1, <1>2 DEF FileFacts

LEMMA FileGrows ==
  ASSUME FileFacts, TypeInv, tpc # "off", index < NumTestDisks, index' = index,
         NEW f, file' = [file EXCEPT ![Name] = f], begun' = begun \cup {Name},
         \/ \E m \in Nat : f = Zeros(m)
         \/ \E m \in 0..Len(TestBlocks) : f = PartDisk(m)
  PROVE  FileFacts'
<1>1. Name \in Names /\ file \in [Names -> {NoFile} \cup Seq(Byte)]
  BY AtDisk, DiskInvFiles DEF TypeInv, FilesInv
<1>2. file'[Name] = f /\ \A n \in Names : n # Name => file'[n] = file[n]
  BY <1>1
<1>3. DisksWhole'
  <2>1. ASSUME NEW n \in Names, file'[n] # NoFile, n \notin begun'
        PROVE  file'[n] = WholeDisk
    BY <1>2, <2>1 DEF FileFacts, DisksWhole
  <2> QED
    BY <2>1 DEF DisksWhole, WholeDisk
<1>4. BegunInv'
  <2>1. begun \subseteq Names
    BY DEF TypeInv, RunTypeOK
  <2>2. ASSUME NEW n \in begun'
        PROVE  \/ \E m \in Nat : file'[n] = Zeros(m)
               \/ \E m \in 0..Len(TestBlocks) : file'[n] = PartDisk(m)
    <3>1. CASE n = Name
      BY <1>2, <3>1
    <3>2. CASE n # Name
      <4>1. n \in begun /\ file'[n] = file[n]
        BY <1>2, <2>1, <3>2
      <4> QED
        BY <4>1 DEF FileFacts, BegunInv
    <3> QED
      BY <3>1, <3>2
  <2> QED
    BY <2>2 DEF BegunInv, Zeros, PartDisk, Whole
<1>5. PassedInv'
  <2>1. ASSUME NEW j \in 1..index PROVE file'[TestDisks[j]] = WholeDisk
    <3>1. TestDisks[j] \in Names /\ TestDisks[j] # Name
      BY OtherDisk DEF TypeInv
    <3> QED
      BY <1>2, <3>1 DEF FileFacts, PassedInv
  <2> QED
    BY <2>1 DEF PassedInv, WholeDisk
<1> QED
  BY <1>3, <1>4, <1>5 DEF FileFacts

(* A run that is not done with its disks has not opened every descriptor.  *)
LEMMA FreeLeft ==
  ASSUME EnoughFDs, RunTypeOK, index < NumTestDisks,
         \A d \in FDs : fds[d] # Closed => d \in Held
  PROVE  Free # {}
<1> SUFFICES ASSUME Free = {} PROVE FALSE
  OBVIOUS
<1>1. FDs \subseteq Held
  BY DEF Free
<1>2. PICK i \in Nat : i = index /\ i < NumTestDisks
  BY DEF RunTypeOK
<1>3. PICK f : f = [j \in 0..(i - 1) |-> disks[j]]
  OBVIOUS
<1>4. f \in Surjection(0..(i - 1), Held)
  BY <1>2, <1>3 DEF Surjection, Held
<1>5. IsFiniteSet(0..(i - 1)) /\ Cardinality(0..(i - 1)) = i
  <2>1. 0 \in Int /\ i - 1 \in Int
    OBVIOUS
  <2>2. /\ IsFiniteSet(0..(i - 1))
        /\ Cardinality(0..(i - 1)) = IF 0 > i - 1 THEN 0 ELSE (i - 1) - 0 + 1
    BY <2>1, FS_Interval
  <2> QED
    BY <2>2
<1>6. IsFiniteSet(Held) /\ Cardinality(Held) <= i
  BY <1>4, <1>5, FS_Surjection
<1>7. Cardinality(FDs) <= Cardinality(Held)
  BY <1>1, <1>6, FS_Subset
<1>8. /\ Cardinality(FDs) \in Nat /\ Cardinality(Held) \in Nat
      /\ NumTestDisks <= Cardinality(FDs) /\ NumTestDisks \in Nat
  BY <1>6, FS_CardinalityType, TestConstants DEF EnoughFDs
<1> QED
  BY <1>2, <1>6, <1>7, <1>8


LEMMA TestInvInit == Init => TestInv
<1> SUFFICES ASSUME Init PROVE TestInv
  OBVIOUS
<1>1. TypeInv
  BY TypeInvInit
<1>2. CallInv /\ MakeInv /\ MadeInv /\ WriteInv /\ VerifyInv /\ FailInv
  BY DEF Init, DiskInit, CallInv, MakeInv, MadeInv, WriteInv, VerifyInv, FailInv
<1>3. DisksWhole /\ BegunInv /\ PassedInv /\ FdsInv
  BY DEF Init, DiskInit, DisksWhole, BegunInv, PassedInv, FdsInv
<1> QED
  BY <1>1, <1>2, <1>3 DEF TestInv

(* Where the program is decides which parts of the invariant say anything. *)
LEMMA ParksAt ==
  ASSUME tpc' \in {"off", "open", "done"}, pc' = "idle"
  PROVE  (CallInv /\ MakeInv /\ MadeInv /\ WriteInv /\ VerifyInv /\ FailInv)'
BY DEF CallInv, MakeInv, MadeInv, WriteInv, VerifyInv, FailInv

LEMMA IdleUnlessMade ==
  ASSUME TypeInv, CallInv, tpc # "made"
  PROVE  pc = "idle"
BY DEF CallInv, TypeInv, DiskInv, DiskTypeOK

LEMMA StepStart ==
  ASSUME TestInv, TypeInv', Start
  PROVE  TestInv'
<1>1. /\ tpc = "off" /\ tpc' = "open" /\ index' = 0
      /\ UNCHANGED <<file, fds, pc, begun>>
  BY DEF Start, dvars
<1>2. (CallInv /\ MakeInv /\ MadeInv /\ WriteInv /\ VerifyInv /\ FailInv)'
  BY <1>1, IdleUnlessMade, ParksAt DEF TestInv
<1>3. DisksWhole' /\ BegunInv'
  BY <1>1 DEF TestInv, DisksWhole, BegunInv
<1>4. PassedInv'
  BY <1>1 DEF PassedInv
<1>5. FdsInv'
  BY <1>1 DEF TestInv, FdsInv
<1> QED
  BY <1>2, <1>3, <1>4, <1>5 DEF TestInv

LEMMA StepOpen ==
  ASSUME TestInv, TypeInv', OpenTestDisk
  PROVE  TestInv'
<1>1. /\ tpc = "open" /\ index < NumTestDisks /\ OpenExisting(Name)
      /\ disks' = [disks EXCEPT ![index] = ret'.code]
      /\ tpc' = IF ret'.code < 0 THEN "make" ELSE "verify"
      /\ index2' = 0
      /\ UNCHANGED <<index, begun>>
  BY DEF OpenTestDisk, OpenDisk
<1>2. UNCHANGED <<file, locked, begun, index>> /\ pc' = "idle" /\ UNCHANGED Name
  BY <1>1 DEF OpenExisting, Answer, Reply, Name
<1>3. FileFacts'
  BY <1>1, <1>2, FilesStay DEF TestInv, FileFacts
<1>4. CallInv' /\ MadeInv' /\ WriteInv' /\ FailInv'
  BY <1>1, <1>2 DEF CallInv, MadeInv, WriteInv, FailInv
<1>5. index \in 0..(NumTestDisks - 1) /\ Name \in Names /\ index \in Nat
  BY <1>1, AtDisk DEF TestInv, TypeInv
<1>6. disks'[index] = ret'.code /\ \A j \in 0..(index - 1) : disks'[j] = disks[j]
  <2>1. disks \in [0..(NumTestDisks - 1) -> Int]
    BY DEF TestInv, TypeInv, RunTypeOK
  <2> QED
    BY <1>1, <1>5, <2>1
<1>7. UNCHANGED Held
  BY <1>2, <1>6 DEF Held
<1>8. \A d \in FDs : fds[d] # Closed => d \in Held
  BY <1>1 DEF TestInv, FdsInv
<1>9. CASE CanOpen(Name)
  <2>1. NewFd \in FDs /\ NewFd \in Nat
    BY <1>9, NewFdClosed DEF CanOpen
  <2>2. fds' = [fds EXCEPT ![NewFd] = Name] /\ ret'.code = NewFd
    BY <1>1, <1>9 DEF OpenExisting, Answer, Reply
  <2>3. tpc' = "verify"
    BY <1>1, <2>1, <2>2
  <2>4. fds'[NewFd] = Name /\ \A d \in FDs : d # NewFd => fds'[d] = fds[d]
    BY <2>1, <2>2 DEF TestInv, TypeInv, DiskInv, DiskTypeOK
  <2>5. VerifyInv'
    BY <1>1, <1>2, <1>6, <2>1, <2>2, <2>4 DEF VerifyInv, Holds
  <2>6. FdsInv'
    BY <1>2, <1>6, <1>7, <1>8, <2>2, <2>3, <2>4 DEF FdsInv
  <2>7. MakeInv'
    BY <2>3 DEF MakeInv
  <2> QED
    BY <1>3, <1>4, <2>5, <2>6, <2>7 DEF TestInv, FileFacts
<1>10. CASE ~CanOpen(Name)
  <2>1. UNCHANGED fds /\ ret'.code = -1
    BY <1>1, <1>10 DEF OpenExisting, Answer, Reply
  <2>2. tpc' = "make"
    BY <1>1, <2>1
  <2>3. MakeInv'
    BY <1>2, <1>10, <2>1 DEF MakeInv, CanOpen, Free
  <2>4. VerifyInv'
    BY <2>2 DEF VerifyInv
  <2>5. FdsInv'
    BY <1>7, <1>8, <2>1, <2>2 DEF FdsInv
  <2> QED
    BY <1>3, <1>4, <2>3, <2>4, <2>5 DEF TestInv, FileFacts
<1> QED
  BY <1>9, <1>10

LEMMA StepMake ==
  ASSUME TestInv, TypeInv', MakeTestDisk
  PROVE  TestInv'
<1>1. /\ tpc = "make" /\ tpc' = "made"
      /\ OpenDisk(Name, Whole)
      /\ begun' = IF pc' = "create" THEN begun \cup {Name} ELSE begun
      /\ UNCHANGED <<index, index2, disks>>
  BY DEF MakeTestDisk, Whole
<1>2. index < NumTestDisks /\ index \in 0..(NumTestDisks - 1) /\ Name \in Names
  BY <1>1, AtDisk DEF TestInv, TypeInv, IndexInv
<1>3. UNCHANGED <<Name, Held>>
  BY <1>1 DEF Name, Held
<1>4. MakeInv' /\ WriteInv' /\ VerifyInv' /\ FailInv'
  BY <1>1 DEF MakeInv, WriteInv, VerifyInv, FailInv
<1>5. \A d \in FDs : fds[d] # Closed => d \in Held
  BY <1>1 DEF TestInv, FdsInv
<1>6. ~CanOpen(Name)
  BY <1>1 DEF TestInv, MakeInv
<1>7. CASE OpenCreates(Name, Whole)
  <2>1. /\ file' = [file EXCEPT ![Name] = << >>]
        /\ fds' = [fds EXCEPT ![NewFd] = Name]
        /\ pc' = "create"
        /\ loc' = [name |-> Name, want |-> Whole, fd |-> NewFd, i |-> 0]
    BY <1>7 DEF OpenCreates
  <2>2. begun' = begun \cup {Name}
    BY <1>1, <2>1
  <2>3. << >> = Zeros(0) /\ 0 \in Nat
    BY DEF Zeros
  <2>4. FileFacts'
    BY <1>1, <1>2, <2>1, <2>2, <2>3, FileGrows DEF TestInv, FileFacts
  <2>5. CallInv'
    BY <1>1, <1>3, <2>1, <2>2 DEF CallInv, Whole
  <2>6. MadeInv'
    BY <2>1 DEF MadeInv
  <2>7. \A d \in FDs : d # NewFd => fds'[d] = fds[d]
    BY <2>1 DEF TestInv, TypeInv, DiskInv, DiskTypeOK
  <2>8. FdsInv'
    BY <1>1, <1>3, <1>5, <2>1, <2>7 DEF FdsInv
  <2> QED
    BY <1>4, <2>4, <2>5, <2>6, <2>8 DEF TestInv, FileFacts
<1>8. CASE OpenRefused(Name, Whole)
  <2>1. /\ UNCHANGED <<file, locked, fds>> /\ pc' = "idle" /\ ret'.code = -1
        /\ ~CanCreate(Name)
    BY <1>8, WholeNat DEF OpenRefused, Answer, Reply
  <2>2. UNCHANGED begun
    BY <1>1, <2>1
  <2>3. FileFacts'
    BY <1>1, <2>1, <2>2, FilesStay DEF TestInv, FileFacts
  <2>4. CallInv'
    BY <2>1 DEF CallInv
  <2>5. EnoughFDs => Name \in locked
    <3>1. EnoughFDs => Free # {}
      BY <1>2, <1>5, FreeLeft DEF TestInv, TypeInv
    <3> QED
      BY <2>1, <3>1 DEF CanCreate
  <2>6. MadeInv'
    BY <1>3, <2>1, <2>5 DEF MadeInv
  <2>7. FdsInv'
    BY <1>1, <2>1 DEF FdsInv
  <2> QED
    BY <1>4, <2>3, <2>4, <2>6, <2>7 DEF TestInv, FileFacts
<1> QED
  BY <1>1, <1>7, <1>8, WholeNat DEF OpenDisk

LEMMA StepRuns ==
  ASSUME TestInv, TypeInv', OpenDiskRuns
  PROVE  TestInv'
<1>1. tpc = "made" /\ DiskStep /\ UNCHANGED <<tpc, index, index2, disks, begun>>
  BY DEF OpenDiskRuns, tvars
<1>2. pc = "create" /\ UNCHANGED <<locked, fds>>
  BY <1>1 DEF DiskStep, CreateByte, CreateFails, CreateReturns
<1>3. index < NumTestDisks /\ Name \in Names /\ UNCHANGED <<Name, Held>>
  BY <1>1, AtDisk DEF TestInv, TypeInv, IndexInv, Name, Held
<1>4. /\ loc.name = Name /\ loc.want = Whole /\ Name \in begun
      /\ loc.fd \in FDs /\ fds[loc.fd] = Name
      /\ file[Name] = [k \in 1..loc.i |-> Zero]
      /\ loc.i \in Nat /\ loc.i <= Whole
      /\ loc \in [name : Names \cup {Closed}, want : Nat, fd : FDs \cup {-1}, i : Nat]
  BY <1>2 DEF TestInv, CallInv, TypeInv, DiskInv, MakingInv, DiskTypeOK
<1>5. MakeInv' /\ WriteInv' /\ VerifyInv' /\ FailInv'
  BY <1>1 DEF MakeInv, WriteInv, VerifyInv, FailInv
<1>6. \A d \in FDs : fds[d] # Closed => d \in Held \cup {loc.fd}
  BY <1>1, <1>2 DEF TestInv, FdsInv
<1>7. CASE CreateByte
  <2>1. /\ pc' = "create" /\ loc' = [loc EXCEPT !.i = @ + 1]
        /\ file' = [file EXCEPT ![Name] = [k \in 1..(loc.i + 1) |-> Zero]]
    BY <1>4, <1>7, MakingTurn DEF TestInv, TypeInv, CreateByte
  <2>2. loc'.name = loc.name /\ loc'.want = loc.want /\ loc'.fd = loc.fd
    BY <1>4, <2>1
  <2>3. [k \in 1..(loc.i + 1) |-> Zero] = Zeros(loc.i + 1) /\ loc.i + 1 \in Nat
    BY <1>4 DEF Zeros
  <2>4. begun' = begun \cup {Name}
    BY <1>1, <1>4
  <2>5. FileFacts'
    BY <1>1, <1>3, <2>1, <2>3, <2>4, FileGrows DEF TestInv, FileFacts
  <2>6. CallInv'
    BY <1>1, <1>3, <1>4, <2>2 DEF CallInv, Whole
  <2>7. MadeInv'
    BY <2>1 DEF MadeInv
  <2>8. FdsInv'
    BY <1>1, <1>2, <1>3, <1>6, <2>1, <2>2 DEF FdsInv
  <2> QED
    BY <1>5, <2>5, <2>6, <2>7, <2>8 DEF TestInv, FileFacts
<1>8. CASE CreateFails \/ CreateReturns
  <2>1. UNCHANGED file /\ pc' = "idle"
    BY <1>8 DEF CreateFails, CreateReturns, Answer, Reply
  <2>2. FileFacts'
    BY <1>1, <2>1, FilesStay DEF TestInv, FileFacts
  <2>3. CallInv'
    BY <2>1 DEF CallInv
  <2>4. CASE CreateFails
    <3>1. ret'.code = -1
      BY <2>4 DEF CreateFails, Answer, Reply
    <3>2. MadeInv'
      BY <1>1, <1>3, <1>4, <3>1 DEF MadeInv
    <3>3. FdsInv'
      BY <1>1, <2>1, <3>1 DEF FdsInv
    <3> QED
      BY <1>5, <2>2, <2>3, <3>2, <3>3 DEF TestInv, FileFacts
  <2>5. CASE CreateReturns
    <3>1. ret'.code = loc.fd /\ loc.i >= Whole
      BY <1>4, <2>5 DEF CreateReturns, Answer, Reply
    <3>2. loc.i = Whole
      BY <1>4, <3>1, WholeNat
    <3>3. file[Name] = Zeros(Whole) /\ Zeros(Whole)' = Zeros(Whole)
      BY <1>4, <3>2 DEF Zeros, Whole
    <3>4. ret'.code \in FDs /\ ret'.code >= 0
      <4>1. \A e \in FDs : e \in Nat
        BY DiskAssumption
      <4> QED
        BY <1>4, <3>1, <4>1
    <3>5. MadeInv'
      BY <1>1, <1>2, <1>3, <1>4, <2>1, <3>1, <3>3, <3>4 DEF MadeInv
    <3>6. FdsInv'
      BY <1>1, <1>2, <1>3, <1>6, <2>1, <3>1 DEF FdsInv
    <3> QED
      BY <1>5, <2>2, <2>3, <3>5, <3>6 DEF TestInv, FileFacts
  <2> QED
    BY <1>8, <2>4, <2>5
<1> QED
  BY <1>1, <1>7, <1>8 DEF DiskStep

LEMMA StepMade ==
  ASSUME TestInv, TypeInv', TestDiskMade
  PROVE  TestInv'
<1>1. /\ tpc = "made" /\ pc = "idle"
      /\ disks' = [disks EXCEPT ![index] = ret.code]
      /\ tpc' = IF ret.code < 0 THEN "failed" ELSE "write"
      /\ UNCHANGED <<file, locked, fds, pc, loc, ret, index, index2, begun>>
  BY DEF TestDiskMade, dvars
<1>2. /\ index < NumTestDisks /\ index \in 0..(NumTestDisks - 1)
      /\ index \in Nat /\ index2 = 0 /\ UNCHANGED Name
  BY <1>1, AtDisk DEF TestInv, TypeInv, IndexInv, Name
<1>3. disks'[index] = ret.code /\ \A j \in 0..(index - 1) : disks'[j] = disks[j]
  <2>1. disks \in [0..(NumTestDisks - 1) -> Int]
    BY DEF TestInv, TypeInv, RunTypeOK
  <2> QED
    BY <1>1, <1>2, <2>1
<1>4. UNCHANGED Held
  BY <1>1, <1>3 DEF Held
<1>5. FileFacts'
  BY <1>1, FilesStay DEF TestInv, FileFacts
<1>6. CallInv' /\ MakeInv' /\ MadeInv' /\ VerifyInv'
  BY <1>1 DEF CallInv, MakeInv, MadeInv, VerifyInv
<1>7. CASE ret.code < 0
  <2>1. FailInv' /\ WriteInv' /\ FdsInv'
    BY <1>1, <1>2, <1>7 DEF TestInv, MadeInv, FailInv, WriteInv, FdsInv
  <2> QED
    BY <1>5, <1>6, <2>1 DEF TestInv, FileFacts
<1>8. CASE ~ (ret.code < 0)
  <2>1. /\ ret.code \in FDs /\ fds[ret.code] = Name
        /\ file[Name] = PartDisk(0) /\ Name \in begun
    BY <1>1, <1>8, PartNone DEF TestInv, MadeInv
  <2>2. WriteInv'
    BY <1>1, <1>2, <1>3, <2>1 DEF WriteInv, Holds, PartDisk, Whole
  <2>3. ret.code >= 0
    BY <1>8 DEF TestInv, TypeInv, DiskInv, DiskTypeOK
  <2>4. FdsInv'
    BY <1>1, <1>3, <1>4, <1>8, <2>3 DEF TestInv, FdsInv
  <2>5. FailInv'
    BY <1>1, <1>8 DEF FailInv
  <2> QED
    BY <1>5, <1>6, <2>2, <2>4, <2>5 DEF TestInv, FileFacts
<1> QED
  BY <1>7, <1>8


LEMMA StepWrite ==
  ASSUME DisksFit, TestInv, TypeInv', WriteTestBlock
  PROVE  TestInv'
<1>1. /\ tpc = "write" /\ index2 < Len(TestBlocks)
      /\ WriteBlock(disks[index], TestBlock, Dollar)
      /\ UNCHANGED <<index, disks, begun, locked, fds>>
  BY DEF WriteTestBlock, WriteBlock
<1>2. /\ index < NumTestDisks /\ Name \in Names /\ UNCHANGED <<Name, Held>>
      /\ index2 \in Nat /\ index2 + 1 \in 0..Len(TestBlocks)
      /\ TestBlock \in Nat /\ TestBlock < NumBlocks
  BY <1>1, AtDisk, AtBlock DEF TestInv, TypeInv, IndexInv, Name, Held
<1>3. /\ disks[index] \in FDs /\ fds[disks[index]] = Name
      /\ file[Name] = PartDisk(index2) /\ Name \in begun
  BY <1>1 DEF TestInv, WriteInv, Holds
<1>4. PICK f \in Seq(Byte) : f = file[Name] /\ f = PartDisk(index2) /\ Len(f) = Whole
  BY <1>2, <1>3, PartType
<1>5. /\ SeeksTo(disks[index], TestBlock)
      /\ FirstByte(TestBlock) = TestBlock * BlockSize
  BY <1>2, <1>3, <1>4, SeeksWhole DEF TestInv, TypeInv
<1>6. /\ file' = [file EXCEPT ![Name] =
                    Written(f, TestBlock * BlockSize, Filled(Dollar))]
      /\ ret'.code = 0 /\ pc' = "idle"
  BY <1>1, <1>3, <1>4, <1>5 DEF WriteBlock, Answer, Reply
<1>7. Written(f, TestBlock * BlockSize, Filled(Dollar)) = PartDisk(index2 + 1)
  BY <1>1, <1>2, <1>4, PartNext DEF TestBlock
<1>8. index2' = index2 + 1 /\ tpc' = "write"
  BY <1>1, <1>6 DEF WriteTestBlock
<1>9. begun' = begun \cup {Name}
  BY <1>1, <1>3
<1>10. FileFacts'
  BY <1>1, <1>2, <1>6, <1>7, <1>9, FileGrows DEF TestInv, FileFacts
<1>11. file'[Name] = PartDisk(index2 + 1)
  BY <1>2, <1>6, <1>7 DEF TestInv, TypeInv, DiskInv, DiskTypeOK
<1>12. WriteInv'
  BY <1>1, <1>2, <1>3, <1>8, <1>11 DEF WriteInv, Holds, PartDisk, Whole
<1>13. CallInv' /\ MakeInv' /\ MadeInv' /\ VerifyInv' /\ FailInv'
  BY <1>6, <1>8 DEF CallInv, MakeInv, MadeInv, VerifyInv, FailInv
<1>14. FdsInv'
  BY <1>1, <1>2, <1>8 DEF TestInv, FdsInv
<1> QED
  BY <1>10, <1>12, <1>13, <1>14 DEF TestInv, FileFacts

(* A test block that does not verify is one of a disk that was cut short.  *)
LEMMA StepVerify ==
  ASSUME DisksFit, TestInv, TypeInv', VerifyTestBlock
  PROVE  TestInv'
<1>1. /\ tpc = "verify" /\ index2 < Len(TestBlocks)
      /\ ReadBlock(disks[index], TestBlock)
      /\ UNCHANGED <<index, disks, begun, locked, fds, file>>
  BY DEF VerifyTestBlock, ReadBlock
<1>2. /\ index < NumTestDisks /\ Name \in Names /\ UNCHANGED <<Name, Held>>
      /\ index2 \in Nat /\ index2 + 1 \in 1..Len(TestBlocks)
      /\ TestBlock \in Nat /\ TestBlock < NumBlocks
  BY <1>1, AtDisk, AtBlock DEF TestInv, TypeInv, IndexInv, Name, Held
<1>3. disks[index] \in FDs /\ fds[disks[index]] = Name
  BY <1>1 DEF TestInv, VerifyInv, Holds
<1>4. pc' = "idle"
  BY <1>1 DEF ReadBlock, Answer, Reply
<1>5. FileFacts'
  BY <1>1, FilesStay DEF TestInv, FileFacts
<1>6. CASE ret'.code < 0 \/ ret'.block # Filled(Dollar)
  <2>1. tpc' = "failed"
    BY <1>6 DEF VerifyTestBlock
  <2>2. ASSUME Name \notin begun PROVE FALSE
    <3>1. file[Name] # NoFile
      BY <1>2, <1>3, DiskAssumption DEF TestInv, TypeInv, DiskInv, HeldInv
    <3>2. file[Name] = WholeDisk
      BY <1>2, <2>2, <3>1 DEF TestInv, DisksWhole
    <3>3. file[Name] \in Seq(Byte) /\ Len(file[Name]) = Whole
      BY <3>2, PartAll, PartType, TestConstants
    <3>4. SeeksTo(disks[index], TestBlock)
      BY <1>2, <1>3, <3>3, SeeksWhole DEF TestInv, TypeInv
    <3>5. Shows(file[Name], TestBlock)
      BY <1>2, <3>2, WholeShows DEF TestBlock
    <3>6. ret'.code = 0 /\ ret'.block = Filled(Dollar)
      BY <1>1, <1>2, <1>3, <3>4, <3>5, ReadShows DEF TestInv, TypeInv
    <3> QED
      BY <1>6, <3>6
  <2>3. FailInv'
    BY <1>1, <1>2, <2>2 DEF FailInv
  <2>4. CallInv' /\ MakeInv' /\ MadeInv' /\ WriteInv' /\ VerifyInv' /\ FdsInv'
    BY <1>4, <2>1 DEF CallInv, MakeInv, MadeInv, WriteInv, VerifyInv, FdsInv
  <2> QED
    BY <1>5, <2>3, <2>4 DEF TestInv, FileFacts
<1>7. CASE ~ (ret'.code < 0 \/ ret'.block # Filled(Dollar))
  <2>1. tpc' = "verify" /\ index2' = index2 + 1
    BY <1>1, <1>7 DEF VerifyTestBlock
  <2>2. SeeksTo(disks[index], TestBlock)
    BY <1>1, <1>7, ReadFails
  <2>3. Shows(file[Name], TestBlock)
    BY <1>1, <1>2, <1>3, <1>7, <2>2, ReadShows DEF TestInv, TypeInv
  <2>4. ASSUME NEW j \in 1..(index2 + 1) PROVE Shows(file[Name], TestBlocks[j])
    <3>1. j \in 1..index2 \/ j = index2 + 1
      BY <1>2
    <3> QED
      BY <1>1, <2>3, <3>1 DEF TestInv, VerifyInv, TestBlock
  <2>5. VerifyInv'
    BY <1>1, <1>2, <1>3, <2>1, <2>4 DEF VerifyInv, Holds, Shows
  <2>6. CallInv' /\ MakeInv' /\ MadeInv' /\ WriteInv' /\ FailInv'
    BY <1>4, <2>1 DEF CallInv, MakeInv, MadeInv, WriteInv, FailInv
  <2>7. FdsInv'
    BY <1>1, <1>2, <2>1 DEF TestInv, FdsInv
  <2> QED
    BY <1>5, <2>5, <2>6, <2>7 DEF TestInv, FileFacts
<1> QED
  BY <1>6, <1>7

(* A disk that is done with is whole.                                      *)
LEMMA DoneWhole ==
  ASSUME TestInv, NextDisk
  PROVE  Name \in Names /\ file[Name] = WholeDisk
<1>1. tpc \in {"write", "verify"} /\ index2 = Len(TestBlocks)
  BY DEF NextDisk
<1>2. Name \in Names
  BY <1>1, AtDisk DEF TestInv, TypeInv, IndexInv
<1>3. CASE tpc = "write"
  BY <1>1, <1>2, <1>3, PartAll DEF TestInv, WriteInv
<1>4. CASE tpc = "verify"
  <2>1. \A j \in 1..Len(TestBlocks) : Shows(file[Name], TestBlocks[j])
    BY <1>1, <1>4 DEF TestInv, VerifyInv
  <2>2. CASE Name \in begun
    BY <1>2, <2>1, <2>2, ShowsWhole DEF TestInv, BegunInv
  <2>3. CASE Name \notin begun
    <3>1. file[Name] # NoFile
      BY <1>2, <1>4, DiskAssumption
         DEF TestInv, VerifyInv, Holds, TypeInv, DiskInv, HeldInv
    <3> QED
      BY <1>2, <2>3, <3>1 DEF TestInv, DisksWhole
  <2> QED
    BY <1>2, <2>2, <2>3
<1> QED
  BY <1>1, <1>3, <1>4

LEMMA StepNextDisk ==
  ASSUME TestInv, TypeInv', NextDisk
  PROVE  TestInv'
<1>1. /\ tpc \in {"write", "verify"} /\ tpc' = "open" /\ index' = index + 1
      /\ begun' = begun \ {Name} \/ begun' = begun
      /\ UNCHANGED <<file, fds, pc, disks>>
  BY DEF NextDisk, dvars
<1>2. Name \in Names /\ file[Name] = WholeDisk
  BY DoneWhole
<1>3. PICK i \in Nat : i = index /\ index' = i + 1
  BY <1>1 DEF TestInv, TypeInv, RunTypeOK
<1>4. (CallInv /\ MakeInv /\ MadeInv /\ WriteInv /\ VerifyInv /\ FailInv)'
  <2>1. pc' = "idle"
    BY <1>1, IdleUnlessMade DEF TestInv
  <2> QED
    BY <1>1, <2>1, ParksAt
<1>5. DisksWhole'
  <2>1. ASSUME NEW n \in Names, file[n] # NoFile, n \notin begun'
        PROVE  file[n] = WholeDisk
    BY <1>1, <1>2, <2>1 DEF TestInv, DisksWhole
  <2> QED
    BY <1>1, <2>1 DEF DisksWhole, WholeDisk
<1>6. BegunInv'
  <2>1. begun' \subseteq begun
    BY <1>1
  <2> QED
    BY <1>1, <2>1 DEF TestInv, BegunInv
<1>7. PassedInv'
  <2>1. ASSUME NEW j \in 1..(i + 1) PROVE file[TestDisks[j]] = WholeDisk
    <3>1. j \in 1..i \/ j = i + 1
      OBVIOUS
    <3>2. tpc # "off"
      BY <1>1
    <3> QED
      BY <1>2, <1>3, <3>1, <3>2 DEF TestInv, PassedInv, Name
  <2> QED
    BY <1>1, <1>3, <2>1 DEF PassedInv, WholeDisk
<1>8. FdsInv'
  <2>1. \A d \in FDs : fds[d] # Closed => d \in Held \cup {disks[index]}
    BY <1>1 DEF TestInv, FdsInv
  <2>2. Held \cup {disks[index]} \subseteq Held'
    <3>1. Held = {disks[j] : j \in 0..(i - 1)} /\ Held' = {disks[j] : j \in 0..i}
      <4>1. (i + 1) - 1 = i
        OBVIOUS
      <4> QED
        BY <1>1, <1>3, <4>1 DEF Held
    <3> QED
      BY <1>3, <3>1
  <2> QED
    BY <1>1, <2>1, <2>2 DEF FdsInv
<1> QED
  BY <1>4, <1>5, <1>6, <1>7, <1>8 DEF TestInv

(* The run is done, exits or is killed.                                    *)
LEMMA StepEnds ==
  ASSUME TestInv, TypeInv', Finish \/ Exit \/ Killed
  PROVE  TestInv'
<1>1. UNCHANGED <<file, begun, index>> /\ tpc # "off"
  BY DEF Finish, Exit, Killed, ProcessEnds, dvars
<1>2. tpc' \in {"off", "done"} /\ pc' = "idle"
  BY IdleUnlessMade DEF TestInv, Finish, Exit, Killed, ProcessEnds, dvars
<1>3. FileFacts'
  BY <1>1, FilesStay DEF TestInv, FileFacts
<1>4. (CallInv /\ MakeInv /\ MadeInv /\ WriteInv /\ VerifyInv /\ FailInv)'
  BY <1>2, ParksAt
<1>5. FdsInv'
  <2>1. CASE Finish
    BY <2>1 DEF Finish, FdsInv
  <2>2. CASE Exit \/ Killed
    BY <2>2 DEF Exit, Killed, ProcessEnds, FdsInv
  <2> QED
    BY <2>1, <2>2
<1> QED
  BY <1>3, <1>4, <1>5 DEF TestInv, FileFacts

(* Between two runs a disk is deleted, or its permissions change.          *)
LEMMA StepWorld ==
  ASSUME TestInv, TypeInv', NEW n \in Names, DeleteDisk(n) \/ ChangeMode(n)
  PROVE  TestInv'
<1>1. tpc = "off" /\ tpc' = "off" /\ UNCHANGED <<fds, pc>>
  BY DEF DeleteDisk, ChangeMode, Delete, Chmod, tvars
<1>2. (CallInv /\ MakeInv /\ MadeInv /\ WriteInv /\ VerifyInv /\ FailInv)'
  BY <1>1, IdleUnlessMade, ParksAt DEF TestInv
<1>3. FdsInv' /\ PassedInv'
  BY <1>1 DEF TestInv, FdsInv, PassedInv
<1>4. CASE ChangeMode(n)
  <2>1. UNCHANGED <<file, begun>>
    BY <1>4 DEF ChangeMode, Chmod, tvars
  <2>2. FileFacts'
    <3>1. FileFacts
      BY DEF TestInv, FileFacts
    <3> QED
      BY <1>1, <2>1, <3>1, FilesStay
  <2> QED
    BY <1>2, <1>3, <2>2 DEF TestInv, FileFacts
<1>5. CASE DeleteDisk(n)
  <2>1. file' = [file EXCEPT ![n] = NoFile] /\ begun' = begun \ {n}
    BY <1>5 DEF DeleteDisk, Delete
  <2>2. file'[n] = NoFile /\ \A m \in Names : m # n => file'[m] = file[m]
    BY <2>1 DEF TestInv, TypeInv, DiskInv, DiskTypeOK
  <2>3. DisksWhole'
    <3>1. ASSUME NEW m \in Names, file'[m] # NoFile, m \notin begun'
          PROVE  file'[m] = WholeDisk
      BY <2>1, <2>2, <3>1 DEF TestInv, DisksWhole
    <3> QED
      BY <3>1 DEF DisksWhole, WholeDisk
  <2>4. BegunInv'
    <3>1. ASSUME NEW m \in begun' PROVE m \in begun /\ file'[m] = file[m]
      BY <2>1, <2>2 DEF TestInv, TypeInv, RunTypeOK
    <3> QED
      BY <3>1 DEF TestInv, BegunInv
  <2> QED
    BY <1>2, <1>3, <2>3, <2>4 DEF TestInv
<1> QED
  BY <1>4, <1>5

LEMMA TestInvNext == DisksFit /\ TestInv /\ [Next]_vars => TestInv'
<1> SUFFICES ASSUME DisksFit, TestInv, [Next]_vars PROVE TestInv'
  OBVIOUS
<1>1. TypeInv'
  BY TypeInvNext DEF TestInv
<1>2. CASE UNCHANGED vars
  <2>1. UNCHANGED <<file, locked, fds, pc, loc, ret, tpc, index, index2, disks, begun>>
    BY <1>2 DEF vars, dvars, tvars
  <2>2. FileFacts' /\ FdsInv'
    <3>1. FileFacts'
      BY <2>1, FilesStay DEF TestInv, FileFacts, PassedInv
    <3>2. UNCHANGED Held
      BY <2>1 DEF Held
    <3> QED
      BY <2>1, <3>1, <3>2 DEF TestInv, FdsInv
  <2>3. (CallInv /\ MakeInv /\ MadeInv /\ WriteInv /\ VerifyInv /\ FailInv)'
    BY <2>1 DEF TestInv, CallInv, MakeInv, MadeInv, WriteInv, VerifyInv, FailInv,
                CanOpen, Free, Holds, Name, Shows
  <2> QED
    BY <1>1, <2>2, <2>3 DEF TestInv, FileFacts
<1>3. ASSUME NEW n \in Names, DeleteDisk(n) \/ ChangeMode(n) PROVE TestInv'
  BY <1>1, <1>3, StepWorld
<1>4. CASE Start \/ OpenTestDisk \/ MakeTestDisk \/ OpenDiskRuns \/ TestDiskMade
  BY <1>1, <1>4, StepStart, StepOpen, StepMake, StepRuns, StepMade
<1>5. CASE WriteTestBlock \/ VerifyTestBlock \/ NextDisk \/ Finish \/ Exit \/ Killed
  BY <1>1, <1>5, StepWrite, StepVerify, StepNextDisk, StepEnds
<1> QED
  BY <1>2, <1>3, <1>4, <1>5 DEF Next, Main

LEMMA TestInvariant ==
  ASSUME DisksFit
  PROVE  Spec => []TestInv
<1>1. TestInv /\ [Next]_vars => TestInv'
  BY TestInvNext
<1> QED
  BY <1>1, TestInvInit, PTL DEF Spec

(***************************************************************************)
(* A disk whose making was not cut short is whole in every byte, over any  *)
(* number of runs, kills and deletions: no run, of this disk or another,   *)
(* disturbs it.                                                            *)
(***************************************************************************)
THEOREM DisksStayWhole ==
  ASSUME DisksFit
  PROVE  Spec => []DisksWhole
<1>1. TestInv => DisksWhole
  BY DEF TestInv
<1> QED
  BY <1>1, TestInvariant, PTL

(***************************************************************************)
(* A run of diskTest that ends well found or made every disk whole.  It    *)
(* reads the test blocks of a disk it found and no other byte; that is     *)
(* enough, because a disk is cut short before the last of them is written. *)
(***************************************************************************)
THEOREM SuccessTells ==
  ASSUME DisksFit
  PROVE  Spec => []SuccessIsTrue
<1>1. TestInv => SuccessIsTrue
  <2> SUFFICES ASSUME TestInv, tpc = "done", NEW n \in Names PROVE file[n] = WholeDisk
    BY DEF SuccessIsTrue
  <2>1. index = Len(TestDisks) /\ tpc # "off"
    BY DEF TestInv, TypeInv, IndexInv, NumTestDisks
  <2>2. PICK j \in 1..Len(TestDisks) : n = TestDisks[j]
    BY TestAssumption
  <2> QED
    BY <2>1, <2>2 DEF TestInv, PassedInv
<1> QED
  BY <1>1, TestInvariant, PTL

(***************************************************************************)
(* A run fails only at a disk whose making was cut short, or whose         *)
(* permissions refuse it: with a descriptor for every disk openDisk has    *)
(* one to give, every test block it writes is there, and every test block  *)
(* of a whole disk verifies.                                               *)
(***************************************************************************)
THEOREM FailureTells ==
  ASSUME DisksFit, EnoughFDs
  PROVE  Spec => []FailureIsEarned
<1>1. TestInv => FailureIsEarned
  BY DEF TestInv, FailInv, FailureIsEarned
<1> QED
  BY <1>1, TestInvariant, PTL

(* What a step may do to the disks it finds.                               *)
FoundStay ==
  \A n \in Names :
    file[n] # NoFile /\ file'[n] # file[n] =>
      \/ file'[n] = NoFile
      \/ tpc \in {"made", "write"} /\ n = Name

LEMMA FoundStayStep == DisksFit /\ TestInv /\ [Next]_vars => FoundStay
<1> SUFFICES ASSUME DisksFit, TestInv, [Next]_vars PROVE FoundStay
  OBVIOUS
<1>1. CASE UNCHANGED file
  BY <1>1 DEF FoundStay
<1>2. ASSUME NEW f, file' = [file EXCEPT ![Name] = f],
             tpc \in {"made", "write"} \/ file[Name] = NoFile
      PROVE  FoundStay
  <2>1. \A n \in Names : n # Name => file'[n] = file[n]
    BY <1>2 DEF TestInv, TypeInv, DiskInv, DiskTypeOK
  <2> QED
    BY <1>2, <2>1 DEF FoundStay
<1>3. CASE MakeTestDisk
  <2>1. OpenDisk(Name, Whole) /\ ~CanOpen(Name)
    BY <1>3 DEF MakeTestDisk, Whole, TestInv, MakeInv
  <2>2. CASE OpenCreates(Name, Whole)
    BY <1>2, <2>1, <2>2 DEF OpenCreates, CanCreate, CanOpen
  <2> QED
    BY <1>1, <2>1, <2>2 DEF OpenDisk, OpenExisting, OpenRefused
<1>4. CASE OpenDiskRuns
  <2>1. tpc = "made" /\ DiskStep
    BY <1>4 DEF OpenDiskRuns
  <2>2. CASE CreateByte
    <3>1. /\ loc.name = Name
          /\ file' = [file EXCEPT ![loc.name] = [k \in 1..(loc.i + 1) |-> Zero]]
      BY <2>2, MakingTurn DEF TestInv, TypeInv, CallInv, CreateByte
    <3> QED
      BY <1>2, <2>1, <3>1
  <2> QED
    BY <1>1, <2>1, <2>2 DEF DiskStep, CreateFails, CreateReturns
<1>5. CASE WriteTestBlock
  <2>1. tpc = "write" /\ WriteBlock(disks[index], TestBlock, Dollar)
    BY <1>5 DEF WriteTestBlock
  <2>2. fds[disks[index]] = Name
    BY <2>1 DEF TestInv, WriteInv, Holds
  <2>3. UNCHANGED file \/ \E f : file' = [file EXCEPT ![Name] = f]
    BY <2>1, <2>2 DEF WriteBlock
  <2> QED
    BY <1>1, <1>2, <2>1, <2>3
<1>6. ASSUME NEW n \in Names, DeleteDisk(n) PROVE FoundStay
  <2>1. file' = [file EXCEPT ![n] = NoFile]
    BY <1>6 DEF DeleteDisk, Delete
  <2> QED
    BY <2>1 DEF TestInv, TypeInv, DiskInv, DiskTypeOK, FoundStay
<1>7. CASE OpenTestDisk
  BY <1>1, <1>7 DEF OpenTestDisk, OpenDisk, OpenExisting
<1> QED
  BY <1>1, <1>3, <1>4, <1>5, <1>6, <1>7
     DEF Next, Main, vars, dvars, Start, TestDiskMade, VerifyTestBlock, ReadBlock,
         NextDisk, Finish, Exit, Killed, ProcessEnds, ChangeMode, Chmod

(***************************************************************************)
(* The program writes no disk but the one it is making, and makes one only *)
(* where none is: it does not repair a disk that was cut short.            *)
(***************************************************************************)
THEOREM FoundDisksKept ==
  ASSUME DisksFit
  PROVE  Spec => FoundIsKept
<1>1. TestInv /\ [Next]_vars => FoundStay
  BY FoundStayStep
<1>2. FoundStay =>
        [\A n \in Names :
           file[n] # NoFile /\ file'[n] # file[n] =>
             \/ file'[n] = NoFile
             \/ tpc \in {"made", "write"} /\ n = Name]_vars
  BY DEF FoundStay
<1> QED
  BY <1>1, <1>2, TestInvariant, PTL DEF Spec, FoundIsKept

=============================================================================
