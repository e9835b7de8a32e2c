--------------------------- MODULE LibDisk_proofs ---------------------------
(***************************************************************************)
(* Proofs about LibDisk, for any number of disks and descriptors, any      *)
(* block size and any width of an int: its type invariant; that the size   *)
(* of a disk is its own; and that libDisk.c implements the array of blocks *)
(* that BlockDevice describes, as long as no offset reaches half of what   *)
(* an int holds.                                                           *)
(***************************************************************************)
EXTENDS LibDisk, TLAPS, FiniteSetTheorems

-----------------------------------------------------------------------------
(* Naturals *)

(* Of the intervals 1..n for the n of a set there is a minimal one, so a   *)
(* set of naturals has a least element.                                    *)
LEMMA LeastDescriptor ==
  ASSUME NEW T, T \subseteq Nat, T # {}
  PROVE  \E m \in T : \A k \in T : m <= k
<1> DEFINE U == {1..n : n \in T}
<1>1. U \subseteq FiniteSubsetsOf(Nat)
  <2>1. ASSUME NEW n \in T PROVE 1..n \in FiniteSubsetsOf(Nat)
    BY FS_Interval DEF FiniteSubsetsOf
  <2> QED
    BY <2>1
<1>2. U # {}
  OBVIOUS
<1>3. \E x \in U : \A y \in U : ~ (<<y, x>> \in StrictSubsetOrdering(Nat))
  <2> HIDE DEF U
  <2> QED
    BY <1>1, <1>2, FS_StrictSubsetOrderingWellFounded, WFMin
<1>4. PICK m \in T : \A k \in T : ~ (<<1..k, 1..m>> \in StrictSubsetOrdering(Nat))
  BY <1>3
<1>5. ASSUME NEW k \in T, k < m PROVE FALSE
  <2>1. 1..k \subseteq 1..m /\ m \notin 1..k /\ m \in 1..m
    BY <1>5
  <2>2. 1..k \in SUBSET Nat /\ 1..m \in SUBSET Nat
    OBVIOUS
  <2> QED
    BY <1>4, <2>1, <2>2 DEF StrictSubsetOrdering
<1> QED
  BY <1>5

(* open(2) finds a descriptor that is free, if there is one.               *)
LEMMA NewFdFree ==
  ASSUME Free # {}
  PROVE  NewFd \in Free
<1>1. Free \subseteq Nat
  BY DiskAssumption DEF Free
<1>2. \E d \in Free : \A e \in Free : d <= e
  BY <1>1, LeastDescriptor
<1> QED
  BY <1>2 DEF NewFd

LEMMA NewFdClosed ==
  ASSUME Free # {}
  PROVE  NewFd \in FDs /\ fds[NewFd] = Closed /\ NewFd \in Nat
BY NewFdFree, DiskAssumption DEF Free

LEMMA MaxOfTwo ==
  ASSUME NEW a \in Int, NEW b \in Int
  PROVE  Max({a, b}) = IF a < b THEN b ELSE a
<1>1. \A x \in {a, b} : (\A y \in {a, b} : x >= y) <=> x = IF a < b THEN b ELSE a
  OBVIOUS
<1> QED
  BY <1>1 DEF Max

LEMMA MinOfTwo ==
  ASSUME NEW a \in Int, NEW b \in Int
  PROVE  Min({a, b}) = IF a < b THEN a ELSE b
<1>1. \A x \in {a, b} : (\A y \in {a, b} : x =< y) <=> x = IF a < b THEN a ELSE b
  OBVIOUS
<1> QED
  BY <1>1 DEF Min

(* Division by the size of a block.                                        *)
LEMMA Quotient ==
  ASSUME NEW d \in Nat, d > 0, NEW x \in Nat
  PROVE  /\ x \div d \in Nat /\ x % d \in 0..(d - 1)
         /\ x = (x \div d) * d + (x % d)
OBVIOUS

(* A number with a smaller quotient is smaller.                            *)
LEMMA QuotientOrder ==
  ASSUME NEW d \in Nat, d > 0, NEW p \in Int, NEW q \in Int,
         NEW u \in 0..(d - 1), NEW v \in 0..(d - 1), p * d + u <= q * d + v
  PROVE  p <= q
<1> SUFFICES ASSUME q + 1 <= p PROVE FALSE
  OBVIOUS
<1>1. (q + 1) * d <= p * d
  BY SMTT(30)
<1>2. (q + 1) * d = q * d + d
  BY SMTT(30)
<1>3. q * d \in Int /\ p * d \in Int
  OBVIOUS
<1> QED
  BY <1>1, <1>2, <1>3

(* Blocks before the i-th fit in x bytes exactly when there are i of them. *)
LEMMA QuotientFits ==
  ASSUME NEW d \in Nat, d > 0, NEW x \in Nat, NEW i \in Nat
  PROVE  /\ i * d \in Nat
         /\ (i + 1) * d = i * d + d
         /\ i * d <= x <=> i <= x \div d
<1>1. x \div d \in Nat /\ x % d \in 0..(d - 1) /\ x = (x \div d) * d + (x % d)
  BY Quotient
<1>2. i * d \in Nat /\ (x \div d) * d \in Nat
  BY <1>1, SMTT(30)
<1>3. (i + 1) * d = i * d + d
  BY SMTT(30)
<1>4. ASSUME i * d <= x PROVE i <= x \div d
  <2>1. i * d + 0 <= (x \div d) * d + (x % d)
    BY <1>1, <1>2, <1>4
  <2> QED
    BY <1>1, <2>1, QuotientOrder
<1>5. ASSUME i <= x \div d PROVE i * d <= x
  <2>1. PICK q \in Nat : q = x \div d
    BY <1>1
  <2>2. i * d <= q * d
    BY <2>1, <1>5, SMTT(30)
  <2> QED
    BY <1>1, <1>2, <2>1, <2>2
<1> QED
  BY <1>2, <1>3, <1>4, <1>5

-----------------------------------------------------------------------------
(* An int *)

Half == IntRange \div 2

LEMMA HalfInt == Half \in Nat /\ Half > 0 /\ IntRange = 2 * Half
BY DiskAssumption DEF Half

LEMMA ToIntType ==
  ASSUME NEW x \in Int
  PROVE  ToInt(x) \in Int
<1>1. x % IntRange \in Int
  BY DiskAssumption
<1> QED
  BY <1>1, DiskAssumption DEF ToInt

(* Half of an int's values are themselves; of a natural an int never makes *)
(* more than it is.                                                        *)
LEMMA ToIntSmall ==
  ASSUME NEW x \in Nat, x < Half
  PROVE  ToInt(x) = x
<1>1. x % IntRange = x
  BY HalfInt
<1> QED
  BY <1>1 DEF ToInt, Half

LEMMA ToIntLess ==
  ASSUME NEW x \in Nat
  PROVE  ToInt(x) <= x
<1>1. PICK r \in Nat : r = x % IntRange /\ r <= x
  <2>1. IntRange \in Nat /\ IntRange > 0
    BY DiskAssumption
  <2>2. /\ x \div IntRange \in Nat /\ x % IntRange \in 0..(IntRange - 1)
        /\ x = (x \div IntRange) * IntRange + (x % IntRange)
    BY <2>1, Quotient
  <2>3. (x \div IntRange) * IntRange \in Nat
    BY <2>1, <2>2, SMTT(30)
  <2> QED
    BY <2>2, <2>3
<1> QED
  BY <1>1, HalfInt, DiskAssumption DEF ToInt


-----------------------------------------------------------------------------
(* Files *)

LEMMA BlockSizeNat == BlockSize \in Nat /\ BlockSize > 0
BY DiskAssumption

LEMMA NoFileNoSeq ==
  /\ NoFile \notin Seq(Byte)
  /\ NoFile \notin Seq(Seq(Byte))
BY DiskAssumption DEF Byte

LEMMA WrittenType ==
  ASSUME NEW f \in Seq(Byte), NEW pos \in Nat, NEW x \in Byte
  PROVE  /\ Written(f, pos, Filled(x)) \in Seq(Byte)
         /\ Len(Written(f, pos, Filled(x))) = IF Len(f) < pos + BlockSize
                                                THEN pos + BlockSize ELSE Len(f)
<1>1. PICK m \in Nat : /\ m = Max({Len(f), pos + BlockSize})
                       /\ m = IF Len(f) < pos + BlockSize
                                THEN pos + BlockSize ELSE Len(f)
  BY BlockSizeNat, MaxOfTwo
<1>2. ASSUME NEW k \in 1..m
      PROVE  (IF k > pos /\ k <= pos + BlockSize THEN Filled(x)[k - pos]
              ELSE IF k <= Len(f) THEN f[k] ELSE Zero) \in Byte
  <2>1. CASE k > pos /\ k <= pos + BlockSize
    <3>1. k - pos \in 1..BlockSize
      BY <2>1, BlockSizeNat
    <3> QED
      BY <2>1, <3>1 DEF Filled
  <2>2. CASE ~ (k > pos /\ k <= pos + BlockSize)
    <3>1. Zero \in Byte
      BY DEF Byte
    <3>2. k <= Len(f) => f[k] \in Byte
      OBVIOUS
    <3> QED
      BY <2>2, <3>1, <3>2
  <2> QED
    BY <2>1, <2>2
<1> DEFINE w == [k \in 1..m |->
                   IF k > pos /\ k <= pos + BlockSize THEN Filled(x)[k - pos]
                   ELSE IF k <= Len(f) THEN f[k] ELSE Zero]
<1>3. w \in [1..m -> Byte]
  BY <1>2
<1>4. w = Written(f, pos, Filled(x))
  BY <1>1 DEF Written
<1> HIDE DEF w
<1>5. w \in Seq(Byte) /\ Len(w) = m
  BY <1>3
<1> QED
  BY <1>1, <1>4, <1>5

-----------------------------------------------------------------------------
(* The invariant of a disk *)

(* While openDisk makes a disk, the disk is the zeros it has written, and  *)
(* nobody else has written or deleted it; its descriptor is open.          *)
MakingInv ==
  pc = "create" =>
    /\ loc.name \in Names /\ loc.fd \in FDs
    /\ fds[loc.fd] = loc.name
    /\ file[loc.name] = [k \in 1..loc.i |-> Zero]

(* A disk that is open is there.                                           *)
HeldInv == \A d \in FDs : fds[d] # Closed => file[fds[d]] # NoFile

DiskInv == DiskTypeOK /\ HeldInv /\ MakingInv

(* What DiskInv says of files and descriptors.                             *)
FilesInv ==
  /\ file \in [Names -> {NoFile} \cup Seq(Byte)]
  /\ locked \subseteq Names
  /\ fds \in [FDs -> Names \cup {Closed}]
  /\ HeldInv

LEMMA DiskInvFiles == DiskInv => FilesInv
BY DEF DiskInv, DiskTypeOK, FilesInv

LEMMA FilesSame ==
  ASSUME FilesInv, UNCHANGED <<file, locked, fds>>
  PROVE  FilesInv'
BY DEF FilesInv, HeldInv

(* A file is replaced by another one, a descriptor opened or closed.       *)
LEMMA FilesSet ==
  ASSUME FilesInv, NEW n \in Names, NEW f \in Seq(Byte),
         file' = [file EXCEPT ![n] = f], UNCHANGED <<locked, fds>>
  PROVE  FilesInv'
<1>1. file' \in [Names -> {NoFile} \cup Seq(Byte)]
  BY DEF FilesInv
<1>2. ASSUME NEW d \in FDs, fds'[d] # Closed PROVE file'[fds'[d]] # NoFile
  <2>1. fds[d] \in Names /\ file[fds[d]] # NoFile
    BY <1>2 DEF FilesInv, HeldInv
  <2> QED
    BY <2>1, NoFileNoSeq DEF FilesInv
<1> QED
  BY <1>1, <1>2 DEF FilesInv, HeldInv

LEMMA FilesOpen ==
  ASSUME FilesInv, NEW n \in Names, file[n] # NoFile, NEW d \in FDs,
         fds' = [fds EXCEPT ![d] = n], UNCHANGED <<file, locked>>
  PROVE  FilesInv'
BY DEF FilesInv, HeldInv

LEMMA FilesClose ==
  ASSUME FilesInv, NEW d \in FDs,
         fds' = [fds EXCEPT ![d] = Closed], UNCHANGED <<file, locked>>
  PROVE  FilesInv'
BY DEF FilesInv, HeldInv

LEMMA DiskInvInit == DiskInit => DiskInv
<1> SUFFICES ASSUME DiskInit PROVE DiskInv
  OBVIOUS
<1>1. DiskTypeOK
  BY DEF DiskInit, DiskTypeOK, NoLoc, NoRet
<1>2. MakingInv
  BY DEF DiskInit, MakingInv
<1>3. HeldInv
  BY DEF DiskInit, HeldInv
<1> QED
  BY <1>1, <1>2, <1>3 DEF DiskInv

(* A step that ends a call leaves the invariant to files and descriptors.  *)
LEMMA DiskInvReply ==
  ASSUME FilesInv', NEW op, NEW args, NEW c \in Int, NEW b, Reply(op, args, c, b)
  PROVE  DiskInv'
<1>1. pc' = "idle" /\ loc' = NoLoc /\ ret'.code = c
  BY DEF Reply
<1>2. /\ loc' \in [name : Names \cup {Closed}, want : Nat, fd : FDs \cup {-1}, i : Nat]
      /\ loc'.i <= loc'.want
  BY <1>1 DEF NoLoc
<1>3. DiskTypeOK'
  BY <1>1, <1>2 DEF DiskTypeOK, FilesInv
<1> QED
  BY <1>1, <1>3 DEF DiskInv, MakingInv, FilesInv

LEMMA DiskInvAnswer ==
  ASSUME FilesInv', NEW op, NEW args, NEW c \in Int, Answer(op, args, c)
  PROVE  DiskInv'
BY DiskInvReply DEF Answer

LEMMA DiskInvOpen ==
  ASSUME DiskInv, NEW n \in Names, NEW k \in Int, OpenDisk(n, k)
  PROVE  DiskInv'
<1>0. FilesInv
  BY DiskInvFiles
<1>1. CASE OpenExisting(n)
  <2>1. UNCHANGED <<file, locked>>
    BY <1>1 DEF OpenExisting
  <2>2. CASE CanOpen(n)
    <3>1. NewFd \in FDs /\ NewFd \in Int /\ file[n] # NoFile
      BY <2>2, NewFdClosed DEF CanOpen
    <3>2. fds' = [fds EXCEPT ![NewFd] = n] /\ Answer("openDisk", <<n>>, NewFd)
      BY <1>1, <2>2 DEF OpenExisting
    <3>3. FilesInv'
      BY <1>0, <2>1, <3>1, <3>2, FilesOpen
    <3> QED
      BY <3>1, <3>2, <3>3, DiskInvAnswer
  <2>3. CASE ~CanOpen(n)
    <3>1. Answer("openDisk", <<n>>, -1) /\ UNCHANGED fds
      BY <1>1, <2>3 DEF OpenExisting
    <3> QED
      BY <1>0, <2>1, <3>1, FilesSame, DiskInvAnswer
  <2> QED
    BY <2>2, <2>3
<1>2. CASE k > 0 /\ OpenCreates(n, k)
  <2>1. NewFd \in FDs
    BY <1>2, NewFdClosed DEF OpenCreates, CanCreate
  <2>2. /\ file' = [file EXCEPT ![n] = << >>]
        /\ fds' = [fds EXCEPT ![NewFd] = n]
        /\ pc' = "create"
        /\ loc' = [name |-> n, want |-> k, fd |-> NewFd, i |-> 0]
        /\ ret' = NoRet
        /\ locked' = locked
    BY <1>2 DEF OpenCreates
  <2>3. file' \in [Names -> {NoFile} \cup Seq(Byte)] /\ file'[n] = << >>
    BY <1>0, <2>2 DEF FilesInv
  <2>4. fds' \in [FDs -> Names \cup {Closed}] /\ fds'[NewFd] = n
    BY <1>0, <2>1, <2>2 DEF FilesInv
  <2>5. /\ loc' \in [name : Names \cup {Closed}, want : Nat, fd : FDs \cup {-1}, i : Nat]
        /\ loc'.i <= loc'.want
    BY <1>2, <2>1, <2>2
  <2>6. ret'.code \in Int
    BY <2>2 DEF NoRet
  <2>7. DiskTypeOK'
    BY <1>0, <2>2, <2>3, <2>4, <2>5, <2>6 DEF DiskTypeOK, FilesInv
  <2>8. << >> = [j \in 1..0 |-> Zero] /\ << >> \in Seq(Byte)
    OBVIOUS
  <2>9. MakingInv'
    BY <2>1, <2>2, <2>3, <2>4, <2>8 DEF MakingInv
  <2>10. HeldInv'
    <3>1. ASSUME NEW d \in FDs, fds'[d] # Closed, fds'[d] # n
          PROVE  file'[fds'[d]] # NoFile
      BY <1>0, <2>2, <2>3, <2>4, <3>1 DEF FilesInv, HeldInv
    <3> QED
      BY <2>3, <2>8, <3>1, NoFileNoSeq DEF HeldInv
  <2> QED
    BY <2>7, <2>9, <2>10 DEF DiskInv
<1>3. CASE OpenRefused(n, k)
  <2>1. Answer("openDisk", <<n>>, -1) /\ UNCHANGED <<file, locked, fds>>
    BY <1>3 DEF OpenRefused
  <2> QED
    BY <1>0, <2>1, FilesSame, DiskInvAnswer
<1> QED
  BY <1>1, <1>2, <1>3 DEF OpenDisk

(* A turn of openDisk's loop.                                              *)
LEMMA MakingTurn ==
  ASSUME DiskInv, CreateByte
  PROVE  /\ loc.name \in Names /\ loc.i \in Nat /\ loc.want \in Nat
         /\ loc.i + 1 <= loc.want
         /\ file[loc.name] \in Seq(Byte) /\ Len(file[loc.name]) = loc.i
         /\ file' = [file EXCEPT ![loc.name] = [k \in 1..(loc.i + 1) |-> Zero]]
         /\ [k \in 1..(loc.i + 1) |-> Zero] \in Seq(Byte)
<1>1. /\ loc.name \in Names /\ loc.i \in Nat /\ loc.want \in Nat
      /\ loc.i + 1 <= loc.want
  BY DEF CreateByte, DiskInv, MakingInv, DiskTypeOK
<1>2. PICK i \in Nat : i = loc.i
  BY <1>1
<1>3. file[loc.name] = [k \in 1..i |-> Zero]
  BY <1>2 DEF CreateByte, DiskInv, MakingInv
<1>4. Zero \in Byte
  BY DEF Byte
<1>5. file[loc.name] \in Seq(Byte) /\ Len(file[loc.name]) = i
  BY <1>3, <1>4
<1>6. file' = [file EXCEPT ![loc.name] = Append(file[loc.name], Zero)]
  BY DEF CreateByte
<1>7. /\ Append([k \in 1..i |-> Zero], Zero) = [k \in 1..(i + 1) |-> Zero]
      /\ [k \in 1..(i + 1) |-> Zero] \in Seq(Byte)
  BY <1>4
<1> QED
  BY <1>1, <1>2, <1>3, <1>5, <1>6, <1>7

LEMMA DiskInvStep ==
  ASSUME DiskInv, DiskStep
  PROVE  DiskInv'
<1>0. FilesInv
  BY DiskInvFiles
<1>1. CASE CreateByte
  <2>1. /\ loc.name \in Names /\ loc.i \in Nat /\ loc.want \in Nat
        /\ loc.i + 1 <= loc.want
        /\ file' = [file EXCEPT ![loc.name] = [k \in 1..(loc.i + 1) |-> Zero]]
        /\ [k \in 1..(loc.i + 1) |-> Zero] \in Seq(Byte)
    BY <1>1, MakingTurn
  <2>2. /\ loc' = [loc EXCEPT !.i = @ + 1]
        /\ UNCHANGED <<locked, fds, pc, ret>>
    BY <1>1 DEF CreateByte
  <2>3. loc \in [name : Names \cup {Closed}, want : Nat, fd : FDs \cup {-1}, i : Nat]
    BY DEF DiskInv, DiskTypeOK
  <2>4. /\ loc'.name = loc.name /\ loc'.fd = loc.fd /\ loc'.want = loc.want
        /\ loc'.i = loc.i + 1
        /\ loc' \in [name : Names \cup {Closed}, want : Nat, fd : FDs \cup {-1}, i : Nat]
    BY <2>1, <2>2, <2>3
  <2>5. FilesInv'
    BY <1>0, <2>1, <2>2, FilesSet
  <2>6. DiskTypeOK'
    BY <2>1, <2>2, <2>4, <2>5 DEF DiskInv, DiskTypeOK, FilesInv
  <2>7. loc.fd \in FDs /\ fds[loc.fd] = loc.name
    BY <1>1 DEF CreateByte, DiskInv, MakingInv
  <2>8. file'[loc.name] = [k \in 1..(loc.i + 1) |-> Zero]
    BY <1>0, <2>1 DEF FilesInv
  <2>9. MakingInv'
    BY <2>1, <2>2, <2>4, <2>7, <2>8 DEF MakingInv
  <2> QED
    BY <2>5, <2>6, <2>9 DEF DiskInv, FilesInv
<1>2. CASE CreateFails
  BY <1>0, <1>2, FilesSame, DiskInvAnswer DEF CreateFails
<1>3. CASE CreateReturns
  <2>1. loc.fd \in FDs
    BY <1>3 DEF CreateReturns, DiskInv, MakingInv
  <2>2. loc.fd \in Int
    <3>1. FDs \subseteq Int
      BY DiskAssumption
    <3> QED
      BY <2>1, <3>1
  <2> QED
    BY <1>0, <1>3, <2>2, FilesSame, DiskInvAnswer DEF CreateReturns
<1> QED
  BY <1>1, <1>2, <1>3 DEF DiskStep

(* What a read or a write is at, once the checks pass.                     *)
LEMMA SeeksFile ==
  ASSUME FilesInv, NEW d, NEW i \in Int, SeeksTo(d, i)
  PROVE  /\ d \in FDs /\ fds[d] \in Names /\ file[fds[d]] \in Seq(Byte)
         /\ i \in Nat /\ FirstByte(i) \in Nat
<1>1. d \in FDs /\ fds[d] \in Names /\ file[fds[d]] \in Seq(Byte)
  BY DEF SeeksTo, IsOpen, FilesInv, HeldInv
<1>2. FirstByte(i) \in Int
  <2>1. i * BlockSize \in Int
    BY BlockSizeNat
  <2> QED
    BY <2>1, ToIntType DEF FirstByte
<1> QED
  BY <1>1, <1>2 DEF SeeksTo

LEMMA DiskInvRead ==
  ASSUME DiskInv, NEW d, NEW i, ReadBlock(d, i)
  PROVE  DiskInv'
<1>1. FilesInv'
  BY DiskInvFiles, FilesSame DEF ReadBlock
<1>2. CASE SeeksTo(d, i)
  <2>1. \E b : Reply("readBlock", <<d, i>>, 0, b)
    BY <1>2 DEF ReadBlock
  <2> QED
    BY <1>1, <2>1, DiskInvReply
<1>3. CASE ~SeeksTo(d, i)
  <2>1. Answer("readBlock", <<d, i>>, -1)
    BY <1>3 DEF ReadBlock
  <2> QED
    BY <1>1, <2>1, DiskInvAnswer
<1> QED
  BY <1>2, <1>3

LEMMA DiskInvWrite ==
  ASSUME DiskInv, NEW d, NEW i \in Int, NEW x \in Fills, WriteBlock(d, i, x)
  PROVE  DiskInv'
<1>1. FilesInv /\ UNCHANGED <<locked, fds>>
  BY DiskInvFiles DEF WriteBlock
<1>2. CASE SeeksTo(d, i)
  <2>1. /\ file' = [file EXCEPT ![fds[d]] =
                       Written(file[fds[d]], FirstByte(i), Filled(x))]
        /\ Answer("writeBlock", <<d, i>>, 0)
    BY <1>2 DEF WriteBlock
  <2>2. x \in Byte
    BY DEF Byte
  <2>3. fds[d] \in Names /\ file[fds[d]] \in Seq(Byte) /\ FirstByte(i) \in Nat
    BY <1>1, <1>2, SeeksFile
  <2>4. Written(file[fds[d]], FirstByte(i), Filled(x)) \in Seq(Byte)
    BY <2>2, <2>3, WrittenType
  <2>5. FilesInv'
    BY <1>1, <2>1, <2>3, <2>4, FilesSet
  <2> QED
    BY <2>1, <2>5, DiskInvAnswer
<1>3. CASE ~SeeksTo(d, i)
  <2>1. Answer("writeBlock", <<d, i>>, -1) /\ UNCHANGED file
    BY <1>3 DEF WriteBlock
  <2> QED
    BY <1>1, <2>1, FilesSame, DiskInvAnswer
<1> QED
  BY <1>2, <1>3

LEMMA DiskInvOthers ==
  ASSUME DiskInv,
         \/ \E d \in Descriptors : CloseDisk(d) \/ GetDiskSize(d)
         \/ \E n \in Names : DiskExists(n)
  PROVE  DiskInv'
<1>0. FilesInv
  BY DiskInvFiles
<1>1. ASSUME NEW d \in Descriptors, CloseDisk(d) PROVE DiskInv'
  <2>1. CASE d >= 0 /\ IsOpen(d)
    <3>1. fds' = [fds EXCEPT ![d] = Closed] /\ Answer("closeDisk", <<d>>, 0)
      BY <1>1, <2>1 DEF CloseDisk
    <3>2. d \in FDs /\ UNCHANGED <<file, locked>>
      BY <1>1, <2>1 DEF CloseDisk, IsOpen
    <3>3. FilesInv'
      BY <1>0, <3>1, <3>2, FilesClose
    <3> QED
      BY <3>1, <3>3, DiskInvAnswer
  <2>2. CASE ~ (d >= 0 /\ IsOpen(d))
    <3>1. Answer("closeDisk", <<d>>, -1) /\ UNCHANGED <<file, locked, fds>>
      BY <1>1, <2>2 DEF CloseDisk
    <3> QED
      BY <1>0, <3>1, FilesSame, DiskInvAnswer
  <2> QED
    BY <2>1, <2>2
<1>2. ASSUME NEW d \in Descriptors, GetDiskSize(d) PROVE DiskInv'
  <2>1. FilesInv'
    BY <1>0, <1>2, FilesSame DEF GetDiskSize
  <2>2. CASE d >= 0 /\ IsOpen(d)
    <3>1. file[fds[d]] \in Seq(Byte)
      BY <1>0, <2>2 DEF IsOpen, FilesInv, HeldInv
    <3>2. DiskSize(d) \in Int
      BY <3>1, ToIntType DEF DiskSize
    <3>3. Answer("getDiskSize", <<d>>, DiskSize(d))
      BY <1>2, <2>2 DEF GetDiskSize
    <3> QED
      BY <2>1, <3>2, <3>3, DiskInvAnswer
  <2>3. CASE ~ (d >= 0 /\ IsOpen(d))
    <3>1. Answer("getDiskSize", <<d>>, -1)
      BY <1>2, <2>3 DEF GetDiskSize
    <3> QED
      BY <2>1, <3>1, DiskInvAnswer
  <2> QED
    BY <2>2, <2>3
<1>3. ASSUME NEW n \in Names, DiskExists(n) PROVE DiskInv'
  <2>1. FilesInv'
    BY <1>0, <1>3, FilesSame DEF DiskExists
  <2>2. PICK c \in {-1, 0, 1} : Answer("diskExists", <<n>>, c)
    BY <1>3 DEF DiskExists
  <2> QED
    BY <2>1, <2>2, DiskInvAnswer
<1> QED
  BY <1>1, <1>2, <1>3

(* The process ends, a disk is deleted, its permissions change.            *)
LEMMA DiskInvWorld ==
  ASSUME DiskInv, ProcessEnds \/ \E n \in Names : Delete(n) \/ Chmod(n)
  PROVE  DiskInv'
<1>0. FilesInv /\ DiskTypeOK
  BY DiskInvFiles DEF DiskInv
<1>1. CASE ProcessEnds
  <2>1. DiskTypeOK'
    BY <1>0, <1>1 DEF ProcessEnds, DiskTypeOK, NoLoc, NoRet
  <2>2. HeldInv' /\ MakingInv'
    BY <1>1 DEF ProcessEnds, HeldInv, MakingInv
  <2> QED
    BY <2>1, <2>2 DEF DiskInv
<1>2. ASSUME NEW n \in Names, Delete(n) PROVE DiskInv'
  <2>1. /\ pc = "idle" /\ \A d \in FDs : fds[d] = Closed
        /\ file' = [file EXCEPT ![n] = NoFile]
        /\ locked' = locked \ {n}
        /\ UNCHANGED <<fds, pc, loc, ret>>
    BY <1>2 DEF Delete, Unused, Idle
  <2>2. file' \in [Names -> {NoFile} \cup Seq(Byte)]
    BY <1>0, <2>1 DEF FilesInv
  <2>3. DiskTypeOK'
    BY <1>0, <2>1, <2>2 DEF DiskTypeOK
  <2>4. HeldInv' /\ MakingInv'
    BY <2>1 DEF HeldInv, MakingInv
  <2> QED
    BY <2>3, <2>4 DEF DiskInv
<1>3. ASSUME NEW n \in Names, Chmod(n) PROVE DiskInv'
  <2>1. /\ pc = "idle"
        /\ locked' \subseteq Names
        /\ UNCHANGED <<file, fds, pc, loc, ret>>
    BY <1>0, <1>3 DEF Chmod, Unused, Idle, FilesInv
  <2>2. DiskTypeOK'
    BY <1>0, <2>1 DEF DiskTypeOK
  <2>3. HeldInv' /\ MakingInv'
    BY <1>0, <2>1 DEF FilesInv, HeldInv, MakingInv
  <2> QED
    BY <2>2, <2>3 DEF DiskInv
<1> QED
  BY <1>1, <1>2, <1>3

LEMMA DiskInvNext == DiskInv /\ [DiskNext]_dvars => DiskInv'
<1> SUFFICES ASSUME DiskInv, [DiskNext]_dvars PROVE DiskInv'
  OBVIOUS
<1>1. CASE DiskClient
  <2>1. CASE \/ \E d \in Descriptors : CloseDisk(d) \/ GetDiskSize(d)
             \/ \E n \in Names : DiskExists(n)
    BY <2>1, DiskInvOthers
  <2>2. CASE \E n \in Names : Delete(n) \/ Chmod(n)
    BY <2>2, DiskInvWorld
  <2>3. ASSUME NEW n \in Names, NEW k \in Sizes, OpenDisk(n, k) PROVE DiskInv'
    BY <2>3, DiskInvOpen, DiskAssumption
  <2>4. ASSUME NEW d \in Descriptors, NEW i \in Indices, ReadBlock(d, i)
        PROVE  DiskInv'
    BY <2>4, DiskInvRead
  <2>5. ASSUME NEW d \in Descriptors, NEW i \in Indices, NEW x \in Fills,
               WriteBlock(d, i, x)
        PROVE  DiskInv'
    BY <2>5, DiskInvWrite, DiskAssumption
  <2> QED
    BY <1>1, <2>1, <2>2, <2>3, <2>4, <2>5 DEF DiskClient
<1>2. CASE DiskStep
  BY <1>2, DiskInvStep
<1>3. CASE ProcessEnds
  BY <1>3, DiskInvWorld
<1>4. CASE UNCHANGED dvars
  BY <1>4 DEF dvars, DiskInv, DiskTypeOK, HeldInv, MakingInv
<1> QED
  BY <1>1, <1>2, <1>3, <1>4 DEF DiskNext

LEMMA DiskInvariant == DiskSpec => []DiskInv
BY DiskInvInit, DiskInvNext, PTL DEF DiskSpec

(***************************************************************************)
(* Files, descriptors and the local variables of openDisk keep their       *)
(* types: whatever the arguments and however an offset wraps around, a     *)
(* write leaves a file of bytes, and openDisk writes no more than it was   *)
(* asked for.                                                              *)
(***************************************************************************)
THEOREM DiskTypeCorrect == DiskSpec => []DiskTypeOK
<1>1. DiskInv => DiskTypeOK
  BY DEF DiskInv
<1> QED
  BY <1>1, DiskInvariant, PTL


-----------------------------------------------------------------------------
(* Offsets that an int holds *)

(* A block ends before half of what an int holds, so does its offset.      *)
IndicesFit == \A i \in Indices : (i + 1) * BlockSize < Half

LEMMA BlockOffset ==
  ASSUME NEW i \in Nat, (i + 1) * BlockSize < Half
  PROVE  /\ i * BlockSize \in Nat
         /\ (i + 1) * BlockSize = i * BlockSize + BlockSize
         /\ FirstByte(i) = i * BlockSize
         /\ EndByte(i) = i * BlockSize + BlockSize
<1>1. i * BlockSize \in Nat /\ (i + 1) * BlockSize = i * BlockSize + BlockSize
  BY BlockSizeNat, QuotientFits
<1>2. /\ i * BlockSize < Half /\ i * BlockSize + BlockSize < Half
      /\ i * BlockSize + BlockSize \in Nat
  BY <1>1, BlockSizeNat, HalfInt
<1>3. FirstByte(i) = i * BlockSize
  BY <1>1, <1>2, ToIntSmall DEF FirstByte
<1>4. EndByte(i) = i * BlockSize + BlockSize
  BY <1>2, <1>3, ToIntSmall DEF EndByte
<1> QED
  BY <1>1, <1>3, <1>4

(* The checks let no block through that does not end within the file.      *)
LEMMA SeeksWithin ==
  ASSUME FilesInv, NEW d, NEW i \in Int, SeeksTo(d, i), (i + 1) * BlockSize < Half
  PROVE  /\ i \in Nat /\ FirstByte(i) = i * BlockSize /\ i * BlockSize \in Nat
         /\ i * BlockSize + BlockSize <= Len(file[fds[d]])
<1>1. file[fds[d]] \in Seq(Byte) /\ i \in Nat
  BY SeeksFile
<1>2. /\ i * BlockSize \in Nat
      /\ FirstByte(i) = i * BlockSize
      /\ EndByte(i) = i * BlockSize + BlockSize
  BY <1>1, BlockOffset
<1>3. PICK l \in Nat : l = Len(file[fds[d]])
  BY <1>1
<1>4. ToInt(l) <= l /\ ToInt(l) \in Int
  BY ToIntLess, ToIntType
<1>5. EndByte(i) <= ToInt(l)
  BY <1>3 DEF SeeksTo, DiskSize
<1> QED
  BY <1>1, <1>2, <1>3, <1>4, <1>5, BlockSizeNat

(* So a write changes bytes of a file and never its length.                *)
LEMMA WriteWithin ==
  ASSUME FilesInv, NEW d, NEW i \in Int, NEW x \in Byte,
         (i + 1) * BlockSize < Half, SeeksTo(d, i)
  PROVE  /\ Written(file[fds[d]], FirstByte(i), Filled(x)) \in Seq(Byte)
         /\ Len(Written(file[fds[d]], FirstByte(i), Filled(x))) = Len(file[fds[d]])
<1>1. /\ i \in Nat /\ FirstByte(i) = i * BlockSize /\ i * BlockSize \in Nat
      /\ i * BlockSize + BlockSize <= Len(file[fds[d]])
  BY SeeksWithin
<1>2. file[fds[d]] \in Seq(Byte)
  BY SeeksFile
<1>3. PICK l \in Nat, p \in Nat :
        l = Len(file[fds[d]]) /\ p = i * BlockSize /\ p + BlockSize <= l
  BY <1>1, <1>2
<1>4. PICK w : w = Written(file[fds[d]], p, Filled(x))
  OBVIOUS
<1>5. w \in Seq(Byte) /\ Len(w) = IF l < p + BlockSize THEN p + BlockSize ELSE l
  BY <1>2, <1>3, <1>4, WrittenType
<1> QED
  BY <1>1, <1>3, <1>4, <1>5, BlockSizeNat

SameSizes ==
  \A n \in Names :
    file[n] # NoFile /\ file'[n] # NoFile /\ pc' = "idle" =>
      Len(file'[n]) = Len(file[n])

LEMMA SizeKeptStep ==
  ASSUME IndicesFit, DiskInv, [DiskNext]_dvars, pc = "idle"
  PROVE  SameSizes
<1>0. FilesInv
  BY DiskInvFiles
<1>1. CASE UNCHANGED file
  BY <1>1 DEF SameSizes
<1>2. ASSUME NEW n \in Names, NEW k \in Sizes, OpenDisk(n, k) PROVE SameSizes
  <2>1. CASE OpenExisting(n) \/ OpenRefused(n, k)
    BY <1>1, <2>1 DEF OpenExisting, OpenRefused
  <2>2. CASE OpenCreates(n, k)
    BY <2>2 DEF OpenCreates, SameSizes
  <2> QED
    BY <1>2, <2>1, <2>2 DEF OpenDisk
<1>3. ASSUME NEW n \in Names, Delete(n) PROVE SameSizes
  <2>1. file' = [file EXCEPT ![n] = NoFile]
    BY <1>3 DEF Delete
  <2> QED
    BY <1>0, <2>1 DEF FilesInv, SameSizes
<1>4. ASSUME NEW d \in Descriptors, NEW i \in Indices, NEW x \in Fills,
             WriteBlock(d, i, x)
      PROVE  SameSizes
  <2>1. CASE ~SeeksTo(d, i)
    BY <1>1, <1>4, <2>1 DEF WriteBlock
  <2>2. CASE SeeksTo(d, i)
    <3>1. i \in Int /\ (i + 1) * BlockSize < Half /\ x \in Byte
      BY DiskAssumption DEF IndicesFit, Byte
    <3>2. PICK w : w = Written(file[fds[d]], FirstByte(i), Filled(x))
      OBVIOUS
    <3>3. Len(w) = Len(file[fds[d]]) /\ fds[d] \in Names
      BY <1>0, <2>2, <3>1, <3>2, WriteWithin, SeeksFile
    <3>4. file' = [file EXCEPT ![fds[d]] = w]
      BY <1>4, <2>2, <3>2 DEF WriteBlock
    <3> QED
      BY <1>0, <3>3, <3>4 DEF FilesInv, SameSizes
  <2> QED
    BY <2>1, <2>2
<1>5. CASE DiskStep
  BY <1>5 DEF DiskStep, CreateByte, CreateFails, CreateReturns
<1>6. ASSUME NEW n \in Names, DiskExists(n) \/ Chmod(n) PROVE SameSizes
  BY <1>1, <1>6 DEF DiskExists, Chmod
<1>7. ASSUME NEW d \in Descriptors, CloseDisk(d) \/ GetDiskSize(d) PROVE SameSizes
  BY <1>1, <1>7 DEF CloseDisk, GetDiskSize
<1>8. ASSUME NEW d \in Descriptors, NEW i \in Indices, ReadBlock(d, i)
      PROVE  SameSizes
  BY <1>1, <1>8 DEF ReadBlock
<1>9. CASE ProcessEnds \/ UNCHANGED dvars
  BY <1>1, <1>9 DEF ProcessEnds, dvars
<1> QED
  BY <1>2, <1>3, <1>4, <1>5, <1>6, <1>7, <1>8, <1>9 DEF DiskNext, DiskClient

(***************************************************************************)
(* While every block a client names ends below half of what an int holds,  *)
(* no write makes a disk longer and none makes it shorter: the check of    *)
(* the last byte lets only blocks through that are there.  The hypothesis  *)
(* is needed: past it the sum of that check wraps around, and the run      *)
(* ClaimIndex shows a block past the end that is let through.              *)
(***************************************************************************)
THEOREM SizesKept ==
  ASSUME IndicesFit
  PROVE  DiskSpec => SizeKept
<1>1. DiskInv /\ [DiskNext]_dvars => (pc = "idle" => SameSizes)
  BY SizeKeptStep
<1>2. (pc = "idle" => SameSizes) =>
        [pc = "idle" => \A n \in Names :
           file[n] # NoFile /\ file'[n] # NoFile /\ pc' = "idle" =>
             Len(file'[n]) = Len(file[n])]_dvars
  BY DEF SameSizes
<1> QED
  BY <1>1, <1>2, DiskInvariant, PTL DEF DiskSpec, SizeKept


-----------------------------------------------------------------------------
(* The blocks of a file *)

(* The blocks of the first x bytes end by x.                               *)
LEMMA BlockWithin ==
  ASSUME NEW x \in Nat, NEW k \in 1..(x \div BlockSize)
  PROVE  /\ (k - 1) * BlockSize \in Nat
         /\ k * BlockSize = (k - 1) * BlockSize + BlockSize
         /\ (k - 1) * BlockSize + BlockSize <= x
<1>1. x \div BlockSize \in Nat
  BY BlockSizeNat, Quotient
<1>2. PICK i \in Nat : i = k - 1 /\ k = i + 1 /\ i + 1 <= x \div BlockSize
  <2>1. k - 1 \in Nat /\ k = (k - 1) + 1 /\ (k - 1) + 1 <= x \div BlockSize
    BY <1>1
  <2> QED
    BY <2>1
<1>3. i * BlockSize \in Nat /\ (i + 1) * BlockSize = i * BlockSize + BlockSize
  BY BlockSizeNat, QuotientFits
<1>4. i + 1 \in Nat
  OBVIOUS
<1>5. (i + 1) * BlockSize <= x
  BY <1>2, <1>4, BlockSizeNat, QuotientFits
<1> QED
  BY <1>2, <1>3, <1>5

LEMMA BlocksOfType ==
  ASSUME NEW f \in Seq(Byte)
  PROVE  /\ BlocksOf(f) \in Seq(Seq(Byte))
         /\ Len(BlocksOf(f)) = Len(f) \div BlockSize
         /\ BlocksOf(f) # NoFile
<1>1. PICK x \in Nat : x = Len(f)
  OBVIOUS
<1>2. PICK q \in Nat : q = x \div BlockSize
  BY BlockSizeNat, Quotient
<1>3. ASSUME NEW k \in 1..q
      PROVE  SubSeq(f, (k - 1) * BlockSize + 1, k * BlockSize) \in Seq(Byte)
  <2>1. PICK a \in Nat, b \in Nat :
          /\ a = (k - 1) * BlockSize /\ b = k * BlockSize
          /\ b = a + BlockSize /\ b <= x
    BY <1>2, BlockWithin, BlockSizeNat
  <2>2. SubSeq(f, a + 1, b) \in Seq(Byte)
    BY <1>1, <2>1, BlockSizeNat
  <2> QED
    BY <2>1, <2>2
<1>4. BlocksOf(f) = [k \in 1..q |-> SubSeq(f, (k - 1) * BlockSize + 1, k * BlockSize)]
  BY <1>1, <1>2 DEF BlocksOf
<1>5. BlocksOf(f) \in [1..q -> Seq(Byte)]
  BY <1>3, <1>4
<1>6. BlocksOf(f) \in Seq(Seq(Byte)) /\ Len(BlocksOf(f)) = q
  BY <1>5
<1> QED
  BY <1>1, <1>2, <1>6, NoFileNoSeq

(* Of a file of zeros every block is one of zeros.                         *)
LEMMA BlocksOfZeros ==
  ASSUME NEW x \in Nat
  PROVE  BlocksOf([j \in 1..x |-> Zero]) =
           [k \in 1..(x \div BlockSize) |-> Filled(Zero)]
<1> DEFINE f == [j \in 1..x |-> Zero]
<1>1. Len(f) = x
  OBVIOUS
<1>2. ASSUME NEW k \in 1..(x \div BlockSize)
      PROVE  SubSeq(f, (k - 1) * BlockSize + 1, k * BlockSize) = Filled(Zero)
  <2>1. PICK a \in Nat : /\ a = (k - 1) * BlockSize
                         /\ k * BlockSize = a + BlockSize
                         /\ a + BlockSize <= x
    BY BlockWithin
  <2>2. PICK d \in Nat : d = BlockSize
    BY BlockSizeNat
  <2>3. SubSeq(f, a + 1, a + d) = [j \in 1..d |-> Zero]
    <3>1. SubSeq(f, a + 1, a + d) = [j \in 1..(1 + (a + d) - (a + 1)) |-> f[j + (a + 1) - 1]]
      BY <1>1, <2>1, <2>2
    <3>2. 1 + (a + d) - (a + 1) = d
      OBVIOUS
    <3>3. ASSUME NEW j \in 1..d PROVE f[j + (a + 1) - 1] = Zero
      <4>1. j + (a + 1) - 1 \in 1..x
        BY <2>1, <2>2
      <4> QED
        BY <4>1
    <3> QED
      BY <3>1, <3>2, <3>3
  <2> QED
    BY <2>1, <2>2, <2>3 DEF Filled
<1> QED
  BY <1>1, <1>2 DEF BlocksOf

(* A byte more is a block more or none.                                    *)
LEMMA BlocksOfGrown ==
  ASSUME NEW x \in Nat
  PROVE  LET old == BlocksOf([j \in 1..x |-> Zero])
             new == BlocksOf([j \in 1..(x + 1) |-> Zero])
         IN  new = old \/ new = Append(old, Filled(Zero))
<1>1. PICK q \in Nat : q = x \div BlockSize
  BY BlockSizeNat, Quotient
<1>2. (x + 1) \div BlockSize = q \/ (x + 1) \div BlockSize = q + 1
  <2>1. PICK d \in Nat : d = BlockSize /\ d > 0
    BY BlockSizeNat
  <2>2. PICK r \in Nat, p \in Nat, s \in Nat :
          /\ r \in 0..(d - 1) /\ x = q * d + r
          /\ p = (x + 1) \div d /\ s \in 0..(d - 1) /\ x + 1 = p * d + s
    <3>1. x \div d \in Nat /\ x % d \in 0..(d - 1) /\ x = (x \div d) * d + (x % d)
      BY <2>1, Quotient
    <3>2. /\ (x + 1) \div d \in Nat /\ (x + 1) % d \in 0..(d - 1)
          /\ x + 1 = ((x + 1) \div d) * d + ((x + 1) % d)
      BY <2>1, Quotient
    <3> QED
      BY <1>1, <2>1, <3>1, <3>2
  <2>3. q * d \in Nat /\ p * d \in Nat /\ (q + 1) * d = q * d + d
    BY <2>1, SMTT(30)
  <2>4. q <= p
    <3>1. q * d + r <= p * d + s
      BY <2>2, <2>3
    <3> QED
      BY <2>1, <2>2, <3>1, QuotientOrder
  <2>5. p <= q + 1
    <3>1. p * d + s <= (q + 1) * d + 0
      BY <2>1, <2>2, <2>3
    <3> QED
      BY <2>1, <2>2, <3>1, QuotientOrder
  <2> QED
    BY <2>1, <2>2, <2>4, <2>5
<1>3. /\ BlocksOf([j \in 1..x |-> Zero]) = [k \in 1..q |-> Filled(Zero)]
      /\ BlocksOf([j \in 1..(x + 1) |-> Zero]) =
           [k \in 1..((x + 1) \div BlockSize) |-> Filled(Zero)]
  BY <1>1, BlocksOfZeros
<1>4. Append([k \in 1..q |-> Filled(Zero)], Filled(Zero)) =
        [k \in 1..(q + 1) |-> Filled(Zero)]
  OBVIOUS
<1> QED
  BY <1>2, <1>3, <1>4

(* Blocks do not overlap.                                                  *)
LEMMA BlocksApart ==
  ASSUME NEW i \in Nat, NEW k \in Nat, i < k
  PROVE  i * BlockSize + BlockSize <= k * BlockSize
<1>1. (i + 1) * BlockSize = i * BlockSize + BlockSize
  BY BlockSizeNat, QuotientFits
<1>2. PICK d \in Nat : d = BlockSize
  BY BlockSizeNat
<1>3. (i + 1) * d <= k * d
  BY SMTT(30)
<1> QED
  BY <1>1, <1>2, <1>3

(* A block written over a file's is that block, and no other changes.      *)
LEMMA BlocksOfWritten ==
  ASSUME NEW f \in Seq(Byte), NEW i \in Nat, NEW x \in Byte,
         i * BlockSize + BlockSize <= Len(f)
  PROVE  /\ i + 1 \in 1..(Len(f) \div BlockSize)
         /\ BlocksOf(Written(f, i * BlockSize, Filled(x))) =
              [BlocksOf(f) EXCEPT ![i + 1] = Filled(x)]
<1>1. PICK l \in Nat, p \in Nat, d \in Nat :
        /\ l = Len(f) /\ p = i * BlockSize /\ d = BlockSize /\ d > 0
        /\ p + d <= l
  BY BlockSizeNat, QuotientFits
<1>2. PICK q \in Nat : q = l \div BlockSize
  BY BlockSizeNat, Quotient
<1>3. i + 1 \in 1..q
  <2>1. (i + 1) * BlockSize <= l
    BY <1>1, BlockSizeNat, QuotientFits
  <2>2. i + 1 \in Nat
    OBVIOUS
  <2>3. i + 1 <= q
    BY <1>2, <2>1, <2>2, BlockSizeNat, QuotientFits
  <2> QED
    BY <2>3
<1>4. PICK w : w = Written(f, p, Filled(x))
  OBVIOUS
<1>5. w = [k \in 1..l |-> IF k > p /\ k <= p + d THEN Filled(x)[k - p] ELSE f[k]]
  <2>1. Max({l, p + d}) = l
    BY <1>1, MaxOfTwo
  <2>2. w = [k \in 1..l |-> IF k > p /\ k <= p + d THEN Filled(x)[k - p]
                             ELSE IF k <= l THEN f[k] ELSE Zero]
    BY <1>1, <1>4, <2>1 DEF Written
  <2>3. \A k \in 1..l : k <= l
    OBVIOUS
  <2> QED
    BY <2>2, <2>3
<1>6. Len(w) = l
  BY <1>5
<1>7. ASSUME NEW k \in 1..q
      PROVE  SubSeq(w, (k - 1) * BlockSize + 1, k * BlockSize) =
               IF k = i + 1 THEN Filled(x)
               ELSE SubSeq(f, (k - 1) * BlockSize + 1, k * BlockSize)
  <2>1. PICK a \in Nat : /\ a = (k - 1) * BlockSize
                         /\ k * BlockSize = a + d
                         /\ a + d <= l
    BY <1>1, <1>2, BlockWithin
  <2>2. 1 + (a + d) - (a + 1) = d
    OBVIOUS
  <2>3. SubSeq(w, a + 1, a + d) = [j \in 1..d |-> w[j + (a + 1) - 1]]
    <3>1. SubSeq(w, a + 1, a + d) =
            [j \in 1..(1 + (a + d) - (a + 1)) |-> w[j + (a + 1) - 1]]
      OBVIOUS
    <3> QED
      BY <2>2, <3>1
  <2>4. SubSeq(f, a + 1, a + d) = [j \in 1..d |-> f[j + (a + 1) - 1]]
    <3>1. SubSeq(f, a + 1, a + d) =
            [j \in 1..(1 + (a + d) - (a + 1)) |-> f[j + (a + 1) - 1]]
      OBVIOUS
    <3> QED
      BY <2>2, <3>1
  <2>5. CASE k = i + 1
    <3>1. a = p
      BY <1>1, <2>1, <2>5
    <3>2. ASSUME NEW j \in 1..d PROVE w[j + (a + 1) - 1] = x
      <4>1. j + (a + 1) - 1 \in 1..l /\ j + (a + 1) - 1 > p
            /\ j + (a + 1) - 1 <= p + d /\ (j + (a + 1) - 1) - p = j
        BY <1>1, <3>1
      <4>2. Filled(x)[j] = x
        BY <1>1 DEF Filled
      <4> QED
        BY <1>5, <4>1, <4>2
    <3>3. Filled(x) = [j \in 1..d |-> x]
      BY <1>1 DEF Filled
    <3> QED
      BY <1>1, <2>1, <2>3, <2>5, <3>2, <3>3
  <2>6. CASE k # i + 1
    <3>1. a + d <= p \/ p + d <= a
      <4>1. k - 1 \in Nat
        OBVIOUS
      <4>2. CASE k - 1 < i
        BY <1>1, <2>1, <4>1, <4>2, BlocksApart
      <4>3. CASE i < k - 1
        BY <1>1, <2>1, <4>1, <4>3, BlocksApart
      <4> QED
        BY <2>6, <4>1, <4>2, <4>3
    <3>2. ASSUME NEW j \in 1..d
          PROVE  w[j + (a + 1) - 1] = f[j + (a + 1) - 1]
      <4>1. /\ j + (a + 1) - 1 \in 1..l
            /\ ~ (j + (a + 1) - 1 > p /\ j + (a + 1) - 1 <= p + d)
        BY SMTT(30), <2>1, <3>1
      <4> QED
        BY <1>5, <4>1
    <3> QED
      BY <1>1, <2>1, <2>3, <2>4, <2>6, <3>2
  <2> QED
    BY <2>5, <2>6
<1>8. BlocksOf(w) = [k \in 1..q |-> SubSeq(w, (k - 1) * BlockSize + 1, k * BlockSize)]
  BY <1>2, <1>6 DEF BlocksOf
<1>9. BlocksOf(f) = [k \in 1..q |-> SubSeq(f, (k - 1) * BlockSize + 1, k * BlockSize)]
  BY <1>1, <1>2 DEF BlocksOf
<1>10. BlocksOf(w) = [BlocksOf(f) EXCEPT ![i + 1] = Filled(x)]
  <2> DEFINE g == [k \in 1..q |-> SubSeq(w, (k - 1) * BlockSize + 1, k * BlockSize)]
             h == [k \in 1..q |-> SubSeq(f, (k - 1) * BlockSize + 1, k * BlockSize)]
  <2>1. \A k \in 1..q : g[k] = IF k = i + 1 THEN Filled(x) ELSE h[k]
    BY <1>7
  <2>2. DOMAIN g = 1..q /\ DOMAIN h = 1..q
    OBVIOUS
  <2>3. g = [k \in 1..q |-> g[k]] /\ h = [k \in 1..q |-> h[k]]
    OBVIOUS
  <2> HIDE DEF g, h
  <2>4. g = [h EXCEPT ![i + 1] = Filled(x)]
    BY <1>3, <2>1, <2>2, <2>3
  <2> QED
    BY <1>8, <1>9, <2>4 DEF g, h
<1> QED
  BY <1>1, <1>2, <1>3, <1>4, <1>10


-----------------------------------------------------------------------------
(* libDisk.c implements the array of blocks *)

SizesFit == \A k \in Sizes : k < Half

(* Every file is shorter than half of what an int holds, the one that      *)
(* openDisk makes when it is done, too.                                    *)
SmallInv ==
  /\ \A n \in Names : file[n] # NoFile => Len(file[n]) < Half
  /\ pc = "create" => loc.want < Half

LEMMA SmallInit == DiskInit => SmallInv
BY DEF DiskInit, SmallInv

LEMMA SmallNext ==
  ASSUME IndicesFit, SizesFit, DiskInv, SmallInv, [DiskNext]_dvars
  PROVE  SmallInv'
<1>0. FilesInv
  BY DiskInvFiles
<1>1. ASSUME UNCHANGED file, pc' = "idle" \/ UNCHANGED <<pc, loc>> PROVE SmallInv'
  BY <1>1 DEF SmallInv
<1>2. ASSUME NEW n \in Names, NEW f \in Seq(Byte), Len(f) < Half,
             file' = [file EXCEPT ![n] = f],
             pc' = "create" => loc'.want < Half
      PROVE  SmallInv'
  BY <1>0, <1>2 DEF FilesInv, SmallInv
<1>3. ASSUME NEW n \in Names, NEW k \in Sizes, OpenDisk(n, k) PROVE SmallInv'
  <2>1. CASE OpenExisting(n) \/ OpenRefused(n, k)
    BY <1>1, <2>1 DEF OpenExisting, OpenRefused, Answer, Reply
  <2>2. CASE OpenCreates(n, k)
    <3>1. << >> \in Seq(Byte) /\ Len(<< >>) < Half /\ k < Half
      BY HalfInt DEF SizesFit
    <3>2. file' = [file EXCEPT ![n] = << >>] /\ loc'.want = k
      BY <2>2 DEF OpenCreates
    <3> QED
      BY <1>2, <3>1, <3>2
  <2> QED
    BY <1>3, <2>1, <2>2 DEF OpenDisk
<1>4. ASSUME NEW n \in Names, Delete(n) PROVE SmallInv'
  <2>1. file' = [file EXCEPT ![n] = NoFile] /\ UNCHANGED <<pc, loc>>
    BY <1>4 DEF Delete
  <2> QED
    BY <1>0, <2>1 DEF FilesInv, SmallInv
<1>5. ASSUME NEW d \in Descriptors, NEW i \in Indices, NEW x \in Fills,
             WriteBlock(d, i, x)
      PROVE  SmallInv'
  <2>1. pc' = "idle"
    BY <1>5 DEF WriteBlock, Answer, Reply
  <2>2. CASE ~SeeksTo(d, i)
    BY <1>1, <1>5, <2>1, <2>2 DEF WriteBlock
  <2>3. CASE SeeksTo(d, i)
    <3>1. i \in Int /\ (i + 1) * BlockSize < Half /\ x \in Byte
      BY DiskAssumption DEF IndicesFit, Byte
    <3>2. PICK w : w = Written(file[fds[d]], FirstByte(i), Filled(x))
      OBVIOUS
    <3>3. /\ w \in Seq(Byte) /\ Len(w) = Len(file[fds[d]])
          /\ fds[d] \in Names /\ file[fds[d]] # NoFile
      BY <1>0, <2>3, <3>1, <3>2, WriteWithin, SeeksFile, NoFileNoSeq
    <3>4. file' = [file EXCEPT ![fds[d]] = w]
      BY <1>5, <2>3, <3>2 DEF WriteBlock
    <3>5. Len(w) < Half
      BY <3>3 DEF SmallInv
    <3> QED
      BY <1>2, <2>1, <3>3, <3>4, <3>5
  <2> QED
    BY <2>2, <2>3
<1>6. CASE CreateByte
  <2>1. /\ loc.name \in Names /\ loc.i \in Nat /\ loc.want \in Nat
        /\ loc.i + 1 <= loc.want
        /\ file' = [file EXCEPT ![loc.name] = [k \in 1..(loc.i + 1) |-> Zero]]
        /\ [k \in 1..(loc.i + 1) |-> Zero] \in Seq(Byte)
    BY <1>6, MakingTurn
  <2>2. loc.want < Half
    BY <1>6 DEF CreateByte, SmallInv
  <2>3. loc'.want = loc.want
    <3>1. loc \in [name : Names \cup {Closed}, want : Nat, fd : FDs \cup {-1}, i : Nat]
      BY DEF DiskInv, DiskTypeOK
    <3> QED
      BY <1>6, <3>1 DEF CreateByte
  <2>4. Len([k \in 1..(loc.i + 1) |-> Zero]) = loc.i + 1
    BY <2>1
  <2>5. loc.i + 1 < Half
    BY <2>1, <2>2, HalfInt
  <2> QED
    BY <1>2, <2>1, <2>2, <2>3, <2>4, <2>5
<1>7. CASE CreateFails \/ CreateReturns
  BY <1>1, <1>7 DEF CreateFails, CreateReturns, Answer, Reply
<1>8. ASSUME NEW n \in Names, DiskExists(n) \/ Chmod(n) PROVE SmallInv'
  BY <1>1, <1>8 DEF DiskExists, Chmod, Answer, Reply
<1>9. ASSUME NEW d \in Descriptors, CloseDisk(d) \/ GetDiskSize(d) PROVE SmallInv'
  BY <1>1, <1>9 DEF CloseDisk, GetDiskSize, Answer, Reply
<1>10. ASSUME NEW d \in Descriptors, NEW i \in Indices, ReadBlock(d, i)
       PROVE  SmallInv'
  BY <1>1, <1>10 DEF ReadBlock, Answer, Reply
<1>11. CASE ProcessEnds \/ UNCHANGED dvars
  BY <1>1, <1>11 DEF ProcessEnds, dvars
<1> QED
  BY <1>3, <1>4, <1>5, <1>6, <1>7, <1>8, <1>9, <1>10, <1>11
     DEF DiskNext, DiskClient, DiskStep

(* The disks of BlockDevice, file by file.                                 *)
LEMMA DisksOfFile ==
  ASSUME FilesInv, NEW n \in Names
  PROVE  /\ file[n] # NoFile => DisksOf[n] = BlocksOf(file[n])
         /\ DisksOf[n] # NoFile <=> file[n] # NoFile
<1>1. file[n] # NoFile => BlocksOf(file[n]) # NoFile
  BY BlocksOfType DEF FilesInv
<1> QED
  BY <1>1 DEF DisksOf

LEMMA DisksOfDomain ==
  /\ DisksOf = [n \in Names |-> DisksOf[n]]
  /\ DisksOf' = [n \in Names |-> DisksOf'[n]]
BY DEF DisksOf

LEMMA DisksOfSet ==
  ASSUME FilesInv, NEW n \in Names, NEW f \in Seq(Byte),
         file' = [file EXCEPT ![n] = f]
  PROVE  DisksOf' = [DisksOf EXCEPT ![n] = BlocksOf(f)]
<1>1. f # NoFile
  BY NoFileNoSeq
<1>2. \A m \in Names : file'[m] = IF m = n THEN f ELSE file[m]
  BY DEF FilesInv
<1>3. \A m \in Names : DisksOf'[m] = IF m = n THEN BlocksOf(f) ELSE DisksOf[m]
  BY <1>1, <1>2 DEF DisksOf
<1> QED
  BY <1>3, DisksOfDomain

LEMMA DisksOfDeleted ==
  ASSUME FilesInv, NEW n \in Names, file' = [file EXCEPT ![n] = NoFile]
  PROVE  DisksOf' = [DisksOf EXCEPT ![n] = NoFile]
<1>1. \A m \in Names : file'[m] = IF m = n THEN NoFile ELSE file[m]
  BY DEF FilesInv
<1>2. \A m \in Names : DisksOf'[m] = IF m = n THEN NoFile ELSE DisksOf[m]
  BY <1>1 DEF DisksOf
<1> QED
  BY <1>2, DisksOfDomain

LEMMA DisksOfSame ==
  ASSUME UNCHANGED file
  PROVE  UNCHANGED DisksOf
BY DEF DisksOf

(* A call that is a step leaves no disk in the making.                     *)
LEMMA RefReply ==
  ASSUME pc = "idle", NEW op, NEW args, NEW c, NEW b, Reply(op, args, c, b)
  PROVE  Device!Idle /\ Device!Reply(op, args, c, b)
BY DEF Reply, MakingFd, Device!Idle, Device!Reply

LEMMA RefAnswer ==
  ASSUME pc = "idle", NEW op, NEW args, NEW c, Answer(op, args, c)
  PROVE  Device!Idle /\ Device!Answer(op, args, c)
BY RefReply DEF Answer, Device!Answer

LEMMA RefOpens ==
  ASSUME DiskInv, NEW n \in Names, OpenExisting(n)
  PROVE  Device!OpenDisk(n)
<1>1. pc = "idle" /\ UNCHANGED file
  BY DEF OpenExisting, Idle
<1>2. UNCHANGED DisksOf
  BY <1>1, DisksOfSame
<1>3. CASE CanOpen(n)
  <2>1. NewFd \in FDs /\ fds[NewFd] = Closed /\ file[n] # NoFile
    BY <1>3, NewFdClosed DEF CanOpen
  <2>2. fds' = [fds EXCEPT ![NewFd] = n] /\ Answer("openDisk", <<n>>, NewFd)
    BY <1>3 DEF OpenExisting
  <2>3. DisksOf[n] # NoFile
    BY <2>1, DiskInvFiles, DisksOfFile
  <2>4. Device!Idle /\ Device!Answer("openDisk", <<n>>, NewFd)
    BY <1>1, <2>2, RefAnswer
  <2> QED
    BY <1>2, <2>1, <2>2, <2>3, <2>4 DEF Device!OpenDisk, Device!Open
<1>4. CASE ~CanOpen(n)
  <2>1. Answer("openDisk", <<n>>, -1) /\ UNCHANGED fds
    BY <1>4 DEF OpenExisting
  <2>2. Device!Idle /\ Device!Answer("openDisk", <<n>>, -1)
    BY <1>1, <2>1, RefAnswer
  <2> QED
    BY <1>2, <2>1, <2>2 DEF Device!OpenDisk
<1> QED
  BY <1>3, <1>4

LEMMA RefRefused ==
  ASSUME NEW n \in Names, NEW k, OpenRefused(n, k)
  PROVE  Device!OpenDisk(n)
<1>1. /\ pc = "idle" /\ UNCHANGED <<file, fds>>
      /\ Answer("openDisk", <<n>>, -1)
  BY DEF OpenRefused, Idle
<1>2. Device!Idle /\ Device!Answer("openDisk", <<n>>, -1)
  BY <1>1, RefAnswer
<1> QED
  BY <1>1, <1>2, DisksOfSame DEF Device!OpenDisk

LEMMA RefCreates ==
  ASSUME DiskInv, NEW n \in Names, NEW k, OpenCreates(n, k)
  PROVE  Device!Make(n)
<1>1. NewFd \in FDs /\ fds[NewFd] = Closed
  BY NewFdClosed DEF OpenCreates, CanCreate
<1>2. /\ pc = "idle" /\ pc' = "create" /\ loc'.fd = NewFd
      /\ file' = [file EXCEPT ![n] = << >>]
      /\ fds' = [fds EXCEPT ![NewFd] = n]
      /\ ret' = NoRet
  BY DEF OpenCreates, Idle
<1>3. MakingFd = Closed /\ MakingFd' = NewFd
  BY <1>2 DEF MakingFd
<1>4. BlocksOf(<< >>) = << >>
  <2>1. << >> = [j \in 1..0 |-> Zero] /\ 0 \in Nat
    OBVIOUS
  <2>2. 0 \div BlockSize = 0
    BY BlockSizeNat
  <2>3. BlocksOf([j \in 1..0 |-> Zero]) = [j \in 1..(0 \div BlockSize) |-> Filled(Zero)]
    BY <2>1, BlocksOfZeros
  <2> QED
    BY <2>1, <2>2, <2>3
<1>5. DisksOf' = [DisksOf EXCEPT ![n] = << >>]
  <2>1. << >> \in Seq(Byte)
    OBVIOUS
  <2> QED
    BY <1>2, <1>4, <2>1, DiskInvFiles, DisksOfSet
<1> QED
  BY <1>1, <1>2, <1>3, <1>5 DEF Device!Make, Device!Open, Device!NoRet, NoRet

(* A byte more is a blank block more, or nothing that can be seen.         *)
LEMMA RefByte ==
  ASSUME DiskInv, CreateByte
  PROVE  Device!Grow \/ UNCHANGED Device!vars
<1>1. /\ loc.name \in Names /\ loc.i \in Nat
      /\ file' = [file EXCEPT ![loc.name] = [k \in 1..(loc.i + 1) |-> Zero]]
      /\ [k \in 1..(loc.i + 1) |-> Zero] \in Seq(Byte)
  BY MakingTurn
<1>2. /\ file[loc.name] = [k \in 1..loc.i |-> Zero]
      /\ loc.fd \in FDs /\ fds[loc.fd] = loc.name
  BY DEF CreateByte, DiskInv, MakingInv
<1>3. pc = "create" /\ UNCHANGED <<fds, pc, ret>> /\ loc'.fd = loc.fd
  <2>1. loc \in [name : Names \cup {Closed}, want : Nat, fd : FDs \cup {-1}, i : Nat]
    BY DEF DiskInv, DiskTypeOK
  <2> QED
    BY <2>1 DEF CreateByte
<1>4. MakingFd = loc.fd /\ UNCHANGED MakingFd
  BY <1>3 DEF MakingFd
<1>5. loc.fd # Closed
  BY <1>2, DiskAssumption
<1>6. PICK old, new :
        /\ old = BlocksOf([k \in 1..loc.i |-> Zero])
        /\ new = BlocksOf([k \in 1..(loc.i + 1) |-> Zero])
  OBVIOUS
<1>7. new = old \/ new = Append(old, Filled(Zero))
  BY <1>1, <1>6, BlocksOfGrown
<1>8. DisksOf' = [DisksOf EXCEPT ![loc.name] = new]
  BY <1>1, <1>6, DiskInvFiles, DisksOfSet
<1>9. DisksOf[loc.name] = old
  <2>1. file[loc.name] # NoFile
    BY MakingTurn, NoFileNoSeq
  <2> QED
    BY <1>1, <1>2, <1>6, <2>1, DiskInvFiles, DisksOfFile
<1>10. CASE new = old
  <2>1. UNCHANGED DisksOf
    BY <1>1, <1>8, <1>9, <1>10 DEF DisksOf
  <2> QED
    BY <1>3, <1>4, <2>1 DEF Device!vars
<1>11. CASE new = Append(old, Filled(Zero))
  BY <1>2, <1>3, <1>4, <1>5, <1>8, <1>9, <1>11 DEF Device!Grow
<1> QED
  BY <1>7, <1>10, <1>11


LEMMA RefReturns ==
  ASSUME DiskInv, CreateFails \/ CreateReturns
  PROVE  Device!MakeReturns
<1>1. /\ pc = "create" /\ UNCHANGED <<file, fds>>
      /\ loc.fd \in FDs /\ fds[loc.fd] = loc.name
  BY DEF CreateFails, CreateReturns, DiskInv, MakingInv
<1>2. PICK c \in {loc.fd, -1} : Answer("openDisk", <<loc.name>>, c)
  BY DEF CreateFails, CreateReturns
<1>3. /\ pc' = "idle"
      /\ ret' = [op |-> "openDisk", args |-> <<loc.name>>, code |-> c, block |-> << >>]
  BY <1>2 DEF Answer, Reply
<1>4. MakingFd = loc.fd /\ MakingFd # Closed /\ MakingFd' = Closed
  BY <1>1, <1>3, DiskAssumption DEF MakingFd
<1>5. UNCHANGED DisksOf
  BY <1>1, DisksOfSame
<1> QED
  BY <1>1, <1>3, <1>4, <1>5
     DEF Device!MakeReturns, Device!Answer, Device!Reply

(* A block is there for the device exactly when the checks let it through. *)
LEMMA RefHas ==
  ASSUME DiskInv, SmallInv, NEW d \in Int, NEW i \in Int, (i + 1) * BlockSize < Half
  PROVE  SeeksTo(d, i) <=> Device!Has(d, i)
<1>1. ASSUME SeeksTo(d, i) PROVE Device!Has(d, i)
  <2>1. /\ d \in FDs /\ fds[d] \in Names /\ file[fds[d]] \in Seq(Byte)
        /\ fds[d] # Closed
    BY <1>1, SeeksFile, DiskInvFiles DEF SeeksTo, IsOpen
  <2>2. i \in Nat /\ i * BlockSize + BlockSize <= Len(file[fds[d]])
    BY <1>1, SeeksWithin, DiskInvFiles
  <2>3. i + 1 \in 1..(Len(file[fds[d]]) \div BlockSize)
    <3>1. Zero \in Byte
      BY DEF Byte
    <3> QED
      BY <2>1, <2>2, <3>1, BlocksOfWritten
  <2>4. Len(DisksOf[fds[d]]) = Len(file[fds[d]]) \div BlockSize
    BY <2>1, DiskInvFiles, DisksOfFile, BlocksOfType, NoFileNoSeq
  <2>5. PICK q \in Nat : q = Len(DisksOf[fds[d]])
    <3>1. Len(file[fds[d]]) \in Nat
      BY <2>1
    <3> QED
      BY <2>4, <3>1, BlockSizeNat, Quotient
  <2>6. i \in 0..(q - 1)
    BY <2>2, <2>3, <2>4, <2>5
  <2> QED
    BY <2>1, <2>5, <2>6 DEF Device!Has, Device!Open, Device!BlocksOf
<1>2. ASSUME Device!Has(d, i) PROVE SeeksTo(d, i)
  <2>1. d \in FDs /\ fds[d] # Closed /\ i \in 0..(Len(DisksOf[fds[d]]) - 1)
    BY <1>2 DEF Device!Has, Device!Open, Device!BlocksOf
  <2>2. fds[d] \in Names /\ file[fds[d]] \in Seq(Byte)
    BY <2>1, DiskInvFiles DEF FilesInv, HeldInv
  <2>3. PICK l \in Nat : l = Len(file[fds[d]])
    BY <2>2
  <2>4. l < Half
    BY <2>2, <2>3, NoFileNoSeq DEF SmallInv
  <2>5. PICK q \in Nat : q = l \div BlockSize /\ q = Len(DisksOf[fds[d]])
    BY <2>2, <2>3, DiskInvFiles, DisksOfFile, BlocksOfType, NoFileNoSeq,
       BlockSizeNat, Quotient
  <2>6. i \in Nat /\ i + 1 \in Nat /\ i + 1 <= q
    BY <2>1, <2>5
  <2>7. (i + 1) * BlockSize <= l
    BY <2>5, <2>6, BlockSizeNat, QuotientFits
  <2>8. /\ FirstByte(i) = i * BlockSize /\ EndByte(i) = i * BlockSize + BlockSize
        /\ (i + 1) * BlockSize = i * BlockSize + BlockSize
        /\ i * BlockSize \in Nat
    BY <2>6, BlockOffset
  <2>9. DiskSize(d) = l
    BY <2>3, <2>4, ToIntSmall DEF DiskSize
  <2>10. d >= 0
    <3>1. FDs \subseteq Nat
      BY DiskAssumption
    <3> QED
      BY <2>1, <3>1
  <2>11. IsOpen(d)
    BY <2>1 DEF IsOpen
  <2>12. DiskSize(d) # -1 /\ FirstByte(i) >= 0 /\ EndByte(i) <= DiskSize(d)
    BY <2>7, <2>8, <2>9
  <2> QED
    BY <2>6, <2>10, <2>11, <2>12 DEF SeeksTo
<1> QED
  BY <1>1, <1>2

LEMMA RefRead ==
  ASSUME DiskInv, SmallInv, NEW d \in Int, NEW i \in Int,
         (i + 1) * BlockSize < Half, ReadBlock(d, i)
  PROVE  Device!ReadBlock(d, i)
<1>1. pc = "idle" /\ UNCHANGED <<file, fds>>
  BY DEF ReadBlock, Idle
<1>2. UNCHANGED DisksOf
  BY <1>1, DisksOfSame
<1>3. CASE SeeksTo(d, i)
  <2>1. Device!Has(d, i)
    BY <1>3, RefHas
  <2>2. /\ d \in FDs /\ fds[d] \in Names /\ file[fds[d]] \in Seq(Byte)
        /\ i \in Nat /\ FirstByte(i) = i * BlockSize /\ i * BlockSize \in Nat
        /\ i * BlockSize + BlockSize <= Len(file[fds[d]])
    BY <1>3, SeeksFile, SeeksWithin, DiskInvFiles
  <2>3. PICK f \in Seq(Byte), l \in Nat, p \in Nat :
          /\ f = file[fds[d]]
          /\ l = Len(f) /\ p = i * BlockSize /\ p + BlockSize <= l
    <3>1. Len(file[fds[d]]) \in Nat
      BY <2>2
    <3> QED
      BY <2>2, <3>1
  <2>4. Min({l, p + BlockSize}) = p + BlockSize
    BY <2>3, BlockSizeNat, MinOfTwo
  <2>5. Reply("readBlock", <<d, i>>, 0, SubSeq(f, p + 1, p + BlockSize))
    BY <1>3, <2>2, <2>3, <2>4 DEF ReadBlock
  <2>6. DisksOf[fds[d]] = BlocksOf(f)
    BY <2>2, <2>3, DiskInvFiles, DisksOfFile, NoFileNoSeq
  <2>7. BlocksOf(f)[i + 1] = SubSeq(f, p + 1, p + BlockSize)
    <3>1. i + 1 \in 1..(l \div BlockSize)
      <4>1. Zero \in Byte
        BY DEF Byte
      <4> QED
        BY <2>2, <2>3, <4>1, BlocksOfWritten
    <3>2. (i + 1) - 1 = i /\ (i + 1) * BlockSize = p + BlockSize
      BY <2>2, <2>3, BlockSizeNat, QuotientFits
    <3>3. BlocksOf(f)[i + 1] =
            SubSeq(f, ((i + 1) - 1) * BlockSize + 1, (i + 1) * BlockSize)
      BY <2>3, <3>1 DEF BlocksOf
    <3> QED
      BY <2>3, <3>2, <3>3
  <2>8. Device!Idle /\ Device!Reply("readBlock", <<d, i>>, 0, DisksOf[fds[d]][i + 1])
    BY <1>1, <2>5, <2>6, <2>7, RefReply
  <2> QED
    BY <1>1, <1>2, <2>1, <2>8 DEF Device!ReadBlock
<1>4. CASE ~SeeksTo(d, i)
  <2>1. ~Device!Has(d, i)
    BY <1>4, RefHas
  <2>2. Answer("readBlock", <<d, i>>, -1)
    BY <1>4 DEF ReadBlock
  <2>3. Device!Idle /\ Device!Answer("readBlock", <<d, i>>, -1)
    BY <1>1, <2>2, RefAnswer
  <2> QED
    BY <1>1, <1>2, <2>1, <2>3 DEF Device!ReadBlock
<1> QED
  BY <1>3, <1>4

LEMMA RefWrite ==
  ASSUME DiskInv, SmallInv, NEW d \in Int, NEW i \in Int, NEW x \in Fills,
         (i + 1) * BlockSize < Half, WriteBlock(d, i, x)
  PROVE  Device!WriteBlock(d, i, Filled(x))
<1>1. pc = "idle" /\ UNCHANGED fds
  BY DEF WriteBlock, Idle
<1>2. CASE SeeksTo(d, i)
  <2>1. Device!Has(d, i)
    BY <1>2, RefHas
  <2>2. x \in Byte
    BY DEF Byte
  <2>3. /\ d \in FDs /\ fds[d] \in Names /\ file[fds[d]] \in Seq(Byte)
        /\ i \in Nat /\ FirstByte(i) = i * BlockSize
        /\ i * BlockSize + BlockSize <= Len(file[fds[d]])
    BY <1>2, SeeksFile, SeeksWithin, DiskInvFiles
  <2>4. PICK n, f, w : /\ n = fds[d] /\ f = file[n]
                       /\ w = Written(f, i * BlockSize, Filled(x))
    OBVIOUS
  <2>5. /\ w \in Seq(Byte)
        /\ BlocksOf(w) = [BlocksOf(f) EXCEPT ![i + 1] = Filled(x)]
    BY <1>2, <2>2, <2>3, <2>4, WriteWithin, BlocksOfWritten, DiskInvFiles
  <2>6. file' = [file EXCEPT ![n] = w] /\ Answer("writeBlock", <<d, i>>, 0)
    BY <1>2, <2>3, <2>4 DEF WriteBlock
  <2>7. DisksOf' = [DisksOf EXCEPT ![n] = BlocksOf(w)]
    BY <2>3, <2>4, <2>5, <2>6, DiskInvFiles, DisksOfSet
  <2>8. DisksOf[n] = BlocksOf(f)
    BY <2>3, <2>4, DiskInvFiles, DisksOfFile, NoFileNoSeq
  <2>9. DisksOf' = [DisksOf EXCEPT ![fds[d]][i + 1] = Filled(x)]
    BY <2>4, <2>5, <2>7, <2>8
  <2>10. Device!Idle /\ Device!Answer("writeBlock", <<d, i>>, 0)
    BY <1>1, <2>6, RefAnswer
  <2> QED
    BY <1>1, <2>1, <2>9, <2>10 DEF Device!WriteBlock
<1>3. CASE ~SeeksTo(d, i)
  <2>1. ~Device!Has(d, i)
    BY <1>3, RefHas
  <2>2. Answer("writeBlock", <<d, i>>, -1) /\ UNCHANGED file
    BY <1>3 DEF WriteBlock
  <2>3. Device!Idle /\ Device!Answer("writeBlock", <<d, i>>, -1)
    BY <1>1, <2>2, RefAnswer
  <2> QED
    BY <1>1, <2>1, <2>2, <2>3, DisksOfSame DEF Device!WriteBlock
<1> QED
  BY <1>2, <1>3

LEMMA RefClose ==
  ASSUME NEW d \in Descriptors, CloseDisk(d)
  PROVE  Device!CloseDisk(d)
<1>1. pc = "idle" /\ UNCHANGED file
  BY DEF CloseDisk, Idle
<1>2. (d >= 0 /\ IsOpen(d)) <=> Device!Open(d)
  <2>1. \A e \in FDs : e \in Nat
    BY DiskAssumption
  <2>2. IsOpen(d) <=> Device!Open(d)
    BY DEF IsOpen, Device!Open
  <2>3. IsOpen(d) => d \in Nat
    BY <2>1 DEF IsOpen
  <2> QED
    BY <2>2, <2>3
<1>3. CASE Device!Open(d)
  <2>1. fds' = [fds EXCEPT ![d] = Closed] /\ Answer("closeDisk", <<d>>, 0)
    BY <1>2, <1>3 DEF CloseDisk
  <2>2. Device!Idle /\ Device!Answer("closeDisk", <<d>>, 0)
    BY <1>1, <2>1, RefAnswer
  <2> QED
    BY <1>1, <1>3, <2>1, <2>2, DisksOfSame DEF Device!CloseDisk
<1>4. CASE ~Device!Open(d)
  <2>1. Answer("closeDisk", <<d>>, -1) /\ UNCHANGED fds
    BY <1>2, <1>4 DEF CloseDisk
  <2>2. Device!Idle /\ Device!Answer("closeDisk", <<d>>, -1)
    BY <1>1, <2>1, RefAnswer
  <2> QED
    BY <1>1, <1>4, <2>1, <2>2, DisksOfSame DEF Device!CloseDisk
<1> QED
  BY <1>3, <1>4

LEMMA RefSize ==
  ASSUME DiskInv, SmallInv, NEW d \in Descriptors, GetDiskSize(d)
  PROVE  Device!GetDiskSize(d)
<1>1. pc = "idle" /\ UNCHANGED <<file, fds>>
  BY DEF GetDiskSize, Idle
<1>2. (d >= 0 /\ IsOpen(d)) <=> Device!Open(d)
  <2>1. \A e \in FDs : e \in Nat
    BY DiskAssumption
  <2>2. IsOpen(d) <=> Device!Open(d)
    BY DEF IsOpen, Device!Open
  <2>3. IsOpen(d) => d \in Nat
    BY <2>1 DEF IsOpen
  <2> QED
    BY <2>2, <2>3
<1>3. CASE Device!Open(d)
  <2>1. d \in FDs /\ fds[d] \in Names /\ file[fds[d]] \in Seq(Byte)
    BY <1>3, DiskInvFiles DEF Device!Open, FilesInv, HeldInv
  <2>2. PICK l \in Nat : l = Len(file[fds[d]])
    BY <2>1
  <2>3. DiskSize(d) = l
    BY <2>1, <2>2, ToIntSmall, NoFileNoSeq DEF DiskSize, SmallInv
  <2>4. PICK q \in Nat, more \in 0..(BlockSize - 1) :
          q = l \div BlockSize /\ l = q * BlockSize + more
    BY BlockSizeNat, Quotient
  <2>5. Device!BlocksOf(d) = q
    BY <2>1, <2>2, <2>4, DiskInvFiles, DisksOfFile, BlocksOfType, NoFileNoSeq
       DEF Device!BlocksOf
  <2>6. Answer("getDiskSize", <<d>>, l)
    BY <1>2, <1>3, <2>3 DEF GetDiskSize
  <2>7. /\ Device!Idle
        /\ Device!Answer("getDiskSize", <<d>>, Device!BlocksOf(d) * BlockSize + more)
    BY <1>1, <2>4, <2>5, <2>6, RefAnswer
  <2> QED
    BY <1>1, <1>3, <2>7, DisksOfSame DEF Device!GetDiskSize
<1>4. CASE ~Device!Open(d)
  <2>1. Answer("getDiskSize", <<d>>, -1)
    BY <1>2, <1>4 DEF GetDiskSize
  <2>2. Device!Idle /\ Device!Answer("getDiskSize", <<d>>, -1)
    BY <1>1, <2>1, RefAnswer
  <2> QED
    BY <1>1, <1>4, <2>2, DisksOfSame DEF Device!GetDiskSize
<1> QED
  BY <1>3, <1>4

LEMMA RefExists ==
  ASSUME DiskInv, NEW n \in Names, DiskExists(n)
  PROVE  Device!DiskExists(n)
<1>1. pc = "idle" /\ UNCHANGED <<file, fds>>
  BY DEF DiskExists, Idle
<1>2. PICK c \in -1..1 : /\ Answer("diskExists", <<n>>, c)
                         /\ c = 1 => file[n] # NoFile
  BY DEF DiskExists, CanOpen
<1>3. Device!Idle /\ Device!Answer("diskExists", <<n>>, c)
  BY <1>1, <1>2, RefAnswer
<1>4. c = 1 => DisksOf[n] # NoFile
  BY <1>2, DiskInvFiles, DisksOfFile
<1> QED
  BY <1>1, <1>3, <1>4, DisksOfSame DEF Device!DiskExists

LEMMA RefWorld ==
  ASSUME DiskInv
  PROVE  /\ ProcessEnds => Device!ProcessEnds
         /\ \A n \in Names : /\ Delete(n) => Device!Delete(n)
                             /\ Chmod(n) => UNCHANGED Device!vars
<1>1. ProcessEnds => Device!ProcessEnds
  BY DisksOfSame DEF ProcessEnds, Device!ProcessEnds, MakingFd, NoRet, Device!NoRet
<1>2. ASSUME NEW n \in Names, Delete(n) PROVE Device!Delete(n)
  <2>1. /\ pc = "idle" /\ pc' = pc /\ \A d \in FDs : fds[d] = Closed
        /\ file' = [file EXCEPT ![n] = NoFile]
        /\ UNCHANGED <<fds, ret>>
    BY <1>2 DEF Delete, Unused, Idle
  <2>2. DisksOf' = [DisksOf EXCEPT ![n] = NoFile]
    BY <2>1, DiskInvFiles, DisksOfDeleted
  <2>3. \A d \in FDs : fds[d] # n
    BY <2>1, DiskAssumption
  <2> QED
    BY <2>1, <2>2, <2>3 DEF Device!Delete, Device!Idle, MakingFd
<1>3. ASSUME NEW n \in Names, Chmod(n) PROVE UNCHANGED Device!vars
  BY <1>3, DisksOfSame DEF Chmod, Device!vars, MakingFd
<1> QED
  BY <1>1, <1>2, <1>3

LEMMA RefInit == DiskInit => Device!Init
<1> SUFFICES ASSUME DiskInit PROVE Device!Init
  OBVIOUS
<1>1. DisksOf = [n \in Names |-> NoFile]
  BY DEF DiskInit, DisksOf
<1> QED
  BY <1>1 DEF DiskInit, Device!Init, MakingFd, NoRet, Device!NoRet

LEMMA RefNext ==
  ASSUME IndicesFit, SizesFit, DiskInv, SmallInv, [DiskNext]_dvars
  PROVE  [Device!Next]_(Device!vars)
<1>1. ASSUME NEW n \in Names, NEW k \in Sizes, OpenDisk(n, k) PROVE Device!Next
  <2>1. Device!OpenDisk(n) \/ Device!Make(n)
    BY <1>1, RefOpens, RefRefused, RefCreates DEF OpenDisk
  <2> QED
    BY <2>1 DEF Device!Next
<1>2. ASSUME NEW n \in Names, DiskExists(n) \/ Delete(n) PROVE Device!Next
  <2>1. Device!DiskExists(n) \/ Device!Delete(n)
    BY <1>2, RefExists, RefWorld
  <2> QED
    BY <2>1 DEF Device!Next
<1>3. ASSUME NEW d \in Descriptors, CloseDisk(d) \/ GetDiskSize(d) PROVE Device!Next
  <2>1. Device!CloseDisk(d) \/ Device!GetDiskSize(d)
    BY <1>3, RefClose, RefSize
  <2> QED
    BY <2>1 DEF Device!Next
<1>4. ASSUME NEW d \in Descriptors, NEW i \in Indices,
             ReadBlock(d, i) \/ \E x \in Fills : WriteBlock(d, i, x)
      PROVE  Device!Next
  <2>1. d \in Int /\ i \in Int /\ (i + 1) * BlockSize < Half
    BY DiskAssumption DEF IndicesFit
  <2>2. CASE ReadBlock(d, i)
    <3>1. Device!ReadBlock(d, i)
      BY <2>1, <2>2, RefRead
    <3> QED
      BY <3>1 DEF Device!Next
  <2>3. ASSUME NEW x \in Fills, WriteBlock(d, i, x) PROVE Device!Next
    <3>1. Device!WriteBlock(d, i, Filled(x))
      BY <2>1, <2>3, RefWrite
    <3> QED
      BY <3>1 DEF Device!Next
  <2> QED
    BY <1>4, <2>2, <2>3
<1>5. CASE DiskStep
  <2>1. Device!Grow \/ Device!MakeReturns \/ UNCHANGED Device!vars
    BY <1>5, RefByte, RefReturns DEF DiskStep
  <2> QED
    BY <2>1 DEF Device!Next
<1>6. CASE ProcessEnds
  BY <1>6, RefWorld DEF Device!Next
<1>7. ASSUME NEW n \in Names, Chmod(n) PROVE UNCHANGED Device!vars
  BY <1>7, RefWorld
<1>8. CASE UNCHANGED dvars
  BY <1>8, DisksOfSame DEF dvars, Device!vars, MakingFd
<1> QED
  BY <1>1, <1>2, <1>3, <1>4, <1>5, <1>6, <1>7, <1>8 DEF DiskNext, DiskClient

(***************************************************************************)
(* libDisk.c implements the array of blocks of libDisk.h, while no block a *)
(* client names and no disk it asks for reaches half of what an int holds: *)
(* every call, the making of a disk byte by byte, a kill, a full file      *)
(* system and a deletion map to steps of BlockDevice or to none.  Both     *)
(* hypotheses are needed: the size of a disk and the end of a block are    *)
(* compared as ints.                                                       *)
(***************************************************************************)
THEOREM DiskImplementsDevice ==
  ASSUME IndicesFit, SizesFit
  PROVE  DiskSpec => ImplementsBlockDevice
<1>1. DiskInit => DiskInv /\ SmallInv /\ Device!Init
  BY DiskInvInit, SmallInit, RefInit
<1>2. DiskInv /\ SmallInv /\ [DiskNext]_dvars => DiskInv' /\ SmallInv'
  BY DiskInvNext, SmallNext
<1>3. DiskInv /\ SmallInv /\ [DiskNext]_dvars => [Device!Next]_(Device!vars)
  BY RefNext
<1> QED
  BY <1>1, <1>2, <1>3, PTL DEF DiskSpec, ImplementsBlockDevice, Device!Spec

=============================================================================
