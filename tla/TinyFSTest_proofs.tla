-------------------------- MODULE TinyFSTest_proofs --------------------------
(***************************************************************************)
(* What is proved about the test program: its types, that its reading      *)
(* loops stay inside result, that it never makes a second file, and, on a  *)
(* disk that has room for what kills may cost, that the file holds the     *)
(* string between the calls and every test passes.                         *)
(*                                                                         *)
(* A step of the program is a step of the library or leaves the library    *)
(* alone, so that the invariants of TinyFS hold of the library it drives.  *)
(* The program deletes and renames nothing: what it opens is and stays a   *)
(* file, and what tfs_openFile makes is the only one of its name.  A kill  *)
(* loses at most the blocks of one string (KillOwners), so there is always *)
(* room to write it again; a call that is served on the one open file then *)
(* succeeds, and what it leaves (the string, the offset, the byte) is what *)
(* the next one starts from.                                               *)
(***************************************************************************)
EXTENDS TinyFSTest, TinyFSStore_proofs

Deletes == {"deleteBlock", "deleteLast", "deleteSuper"}

(* Where the program is: in a call or between two, and what it counted.    *)
TestAt ==
  /\ test = 0 => at = 1
  /\ test # 0 => at \in 1..(Len(Tests[test]) + 1)
  /\ countTest < at
  /\ waiting => Running
  /\ ~waiting => pc = "idle"
  /\ fd <= MaxFD /\ ret.code <= MaxFD

-----------------------------------------------------------------------------
(* The tests *)

LEMMA TestsAre ==
  /\ Len(Tests) = 6
  /\ Tests[1] = Test1 /\ Tests[2] = Test2 /\ Tests[3] = Test3
  /\ Tests[4] = Test4 /\ Tests[5] = Test5 /\ Tests[6] = Test6
  BY DEF Tests

(* A test opens the file, and reads it at most once, not at first.         *)
LEMMA TestsShape ==
  ASSUME NEW t \in 1..6
  PROVE  /\ Len(Tests[t]) \in 3..5
         /\ Tests[t][1] = "open"
         /\ \A k \in 2..Len(Tests[t]) : Tests[t][k] # "open"
         /\ \A k \in 1..Len(Tests[t]), m \in 1..Len(Tests[t]) :
              Tests[t][k] = "read" /\ Tests[t][m] = "read" => k = m
  <1>1. CASE t \in {1, 3, 5}
    <2>1. /\ Len(Test1) = 3 /\ Test1[1] = "open" /\ Test1[2] = "write" /\ Test1[3] = "close"
          /\ Len(Test3) = 3 /\ Test3[1] = "open" /\ Test3[2] = "read" /\ Test3[3] = "close"
          /\ Len(Test5) = 3 /\ Test5[1] = "open" /\ Test5[2] = "getTimeStamp"
          /\ Test5[3] = "close"
      BY DEF Test1, Test3, Test5
    <2>2. \A k \in 1..3 : k = 1 \/ k = 2 \/ k = 3
      OBVIOUS
    <2> QED
      BY <1>1, <2>1, <2>2, TestsAre
  <1>2. CASE t \in {2, 4}
    <2>1. /\ Len(Test2) = 4 /\ Test2[1] = "open" /\ Test2[2] = "write" /\ Test2[3] = "read"
          /\ Test2[4] = "close"
          /\ Len(Test4) = 4 /\ Test4[1] = "open" /\ Test4[2] = "seekPast" /\ Test4[3] = "read"
          /\ Test4[4] = "close"
      BY DEF Test2, Test4
    <2>2. \A k \in 1..4 : k = 1 \/ k = 2 \/ k = 3 \/ k = 4
      OBVIOUS
    <2> QED
      BY <1>2, <2>1, <2>2, TestsAre
  <1>3. CASE t = 6
    <2>1. /\ Len(Test6) = 5 /\ Test6[1] = "open" /\ Test6[2] = "seekInto"
          /\ Test6[3] = "write" /\ Test6[4] = "read" /\ Test6[5] = "close"
      BY DEF Test6
    <2>2. \A k \in 1..5 : k = 1 \/ k = 2 \/ k = 3 \/ k = 4 \/ k = 5
      OBVIOUS
    <2>3. Tests[t] = Test6
      BY <1>3, TestsAre
    <2>4. \A k \in 1..5 : Test6[k] = "read" => k = 4
      BY <2>1, <2>2
    <2>5. \A k \in 2..5 : Test6[k] # "open"
      BY <2>1, <2>2
    <2>6. /\ Len(Tests[t]) = 5 /\ Tests[t][1] = "open"
          /\ \A k \in 2..5 : Tests[t][k] # "open"
          /\ \A k \in 1..5 : Tests[t][k] = "read" => k = 4
      BY <2>1, <2>3, <2>4, <2>5
    <2> QED
      BY <2>6
  <1> QED
    BY <1>1, <1>2, <1>3

-----------------------------------------------------------------------------
(* What the library returns *)

(* No code is greater than a descriptor. *)
CodeFits == ret'.code <= MaxFD \/ ret' = ret

LEMMA ReturnFits ==
  /\ \A c \in Int : \A b : c <= MaxFD /\ ReturnByte(c, b) => CodeFits
  /\ \A c \in Int : c <= MaxFD /\ Return(c) => CodeFits
  /\ \A p, l : Call(p, l) => CodeFits
  /\ \A p, l : Goto(p, l) => CodeFits
  /\ Die => CodeFits
  <1>1. MaxFD \in Nat
    BY SizesAssumption
  <1> QED
    BY <1>1 DEF CodeFits, Return, ReturnByte, Call, Goto, Die, NoRet

LEMMA CodesAre ==
  /\ TFS_ERROR_DISK_READ \in Int /\ TFS_ERROR_DISK_READ <= MaxFD
  /\ TFS_ERROR_DISK_OPEN \in Int /\ TFS_ERROR_DISK_OPEN <= MaxFD
  /\ TFS_ERROR_INVALID_FD \in Int /\ TFS_ERROR_INVALID_FD <= MaxFD
  /\ TFS_ERROR_INVALID_PARAMETER \in Int /\ TFS_ERROR_INVALID_PARAMETER <= MaxFD
  /\ TFS_ERROR_BAD_ALLOC \in Int /\ TFS_ERROR_BAD_ALLOC <= MaxFD
  /\ Mounted \in Int /\ Mounted <= MaxFD
  /\ 0 \in Int /\ 0 <= MaxFD
  BY SizesAssumption
     DEF TFS_ERROR_DISK_READ, TFS_ERROR_DISK_OPEN, TFS_ERROR_INVALID_FD,
         TFS_ERROR_INVALID_PARAMETER, TFS_ERROR_BAD_ALLOC, Mounted

LEMMA ClientFits ==
  ASSUME Client
  PROVE  CodeFits
  <1>1. ASSUME NEW FD, NEW b, WriteFile(FD, b) PROVE CodeFits
    BY <1>1, ReturnFits, CodesAre DEF WriteFile
  <1>2. ASSUME NEW FD, CloseFile(FD) \/ DeleteFile(FD) \/ DeleteFileDies(FD) \/ ReadByte(FD)
        PROVE  CodeFits
    BY <1>2, ReturnFits, CodesAre DEF CloseFile, CloseHead, DeleteFile, DeleteFileDies, ReadByte
  <1>3. ASSUME NEW FD, \/ (\E x : Seek(FD, x)) \/ (\E n : Rename(FD, n))
                       \/ GetTimeStamp(FD) \/ IndexHit(FD)
        PROVE  CodeFits
    BY <1>3, ReturnFits, CodesAre DEF Seek, Rename, GetTimeStamp, IndexHit
  <1>4. ASSUME NEW n, OpenFile(n) PROVE CodeFits
    BY <1>4, ReturnFits DEF OpenFile
  <1>5. ClientMount \/ Unmount \/ Refused \/ ListMissing => CodeFits
    BY ReturnFits, CodesAre DEF ClientMount, Unmount, Refused, ListMissing
  <1> QED
    BY <1>1, <1>2, <1>3, <1>4, <1>5 DEF Client

LEMMA StepFits ==
  ASSUME TypeOK, CallOK, Step
  PROVE  CodeFits
  <1>1. ASSUME NEW c \in {Mounted, TFS_ERROR_DISK_OPEN}, MountReturns(c) PROVE CodeFits
    BY <1>1, ReturnFits, CodesAre DEF MountReturns
  <1>2. CASE \/ MountOpens \/ MountFails \/ CreateBlock \/ Validate
             \/ FormatSuper \/ FormatBlock \/ FormatEnd
    BY <1>1, <1>2, ReturnFits DEF MountOpens, MountFails, CreateBlock, Validate, FormatSuper,
                                  FormatBlock, FormatEnd
  <1>3. ASSUME NEW x, Opened(x), loc.then \in {"tfs_openFile", "createFile"}
        PROVE  CodeFits
    <2>1. currentFD <= MaxFD /\ currentFD \in Int
      BY <1>3 DEF CallOK, TypeOK
    <2> QED
      BY <1>3, <2>1, ReturnFits DEF Opened
  <1>4. ASSUME NEW c, NEW l, GotBlocks(c, l) \/ TakeBlocks(c, l) PROVE CodeFits
    BY <1>4, ReturnFits DEF GotBlocks, TakeBlocks
  <1>5. CASE Lookup \/ CreateInode
    BY <1>3, <1>4, <1>5, ReturnFits, CodesAre DEF Lookup, CreateInode, CallOK
  <1>6. CASE AllocWalk \/ AllocSuper \/ AllocLast \/ WriteAlloc
    BY <1>4, <1>6, ReturnFits DEF AllocWalk, AllocSuper, AllocLast, WriteAlloc
  <1>7. CASE TruncBlock \/ TruncBlockFails \/ TruncLast \/ TruncSuper
    BY <1>7, ReturnFits DEF TruncBlock, TruncBlockFails, TruncLast, TruncSuper, FreeOne, FreeLast
  <1>8. CASE WriteInode \/ WriteData \/ WriteDataFails
    BY <1>8, ReturnFits, CodesAre DEF WriteInode, WriteData, WriteDataFails
  <1>9. CASE DeleteBlock \/ DeleteBlockFails \/ DeleteLast \/ DeleteSuper
    BY <1>9, ReturnFits, CodesAre DEF DeleteBlock, DeleteBlockFails, DeleteLast, DeleteSuper,
                                      FreeOne, FreeLast, CloseHead
  <1>10. CASE ReadWalk \/ ReadWalkFails
    BY <1>10, ReturnFits, CodesAre DEF ReadWalk, ReadWalkFails
  <1> QED
    BY <1>2, <1>5, <1>6, <1>7, <1>8, <1>9, <1>10 DEF Step

LEMMA CodesFit ==
  ASSUME TypeOK, CallOK, [Next]_vars, ret.code <= MaxFD
  PROVE  ret'.code <= MaxFD
  <1>1. Crash \/ UNCHANGED vars => CodeFits
    BY ReturnFits DEF Crash, vars, CodeFits
  <1> QED
    BY <1>1, ClientFits, StepFits DEF Next, CodeFits

-----------------------------------------------------------------------------
(* The program's steps are steps of the library *)

LEMMA LastIsIdle ==
  ASSUME TestAt, test = Len(Tests), at > Len(Tests[test])
  PROVE  pc = "idle"
  <1>1. test \in 1..6
    BY TestsAre
  <1>2. Len(Tests[test]) \in Int /\ at \in Int
    BY <1>1, TestsShape DEF TestAt
  <1> QED
    BY <1>2 DEF TestAt, Running

LEMMA MakesCalls ==
  ASSUME fd <= MaxFD, fd \in Int, NEW op, Makes(op)
  PROVE  Client
  <1>1. testfile \in Names /\ testString1 \in Buffers /\ {SeekInto, SeekPast} \subseteq Offsets
    BY TestAssumption
  <1>2. ASSUME Served(fd) PROVE fd \in Descriptors
    <2>1. fd \in 0..MaxFD
      BY <1>2, SizesAssumption DEF Served
    <2> QED
      BY <2>1, TestAssumption
  <1>3. Rejected => Client
    BY DEF Rejected, Client
  <1>4. OpenFile(testfile) => Client
    BY <1>1 DEF Client
  <1>5. WriteFile(fd, testString1) => Client
    BY <1>1, <1>2 DEF Client, WriteFile
  <1>6. ReadByte(fd) \/ GetTimeStamp(fd) \/ CloseFile(fd) => Client
    BY <1>2 DEF Client, ReadByte, GetTimeStamp, CloseFile
  <1>7. Seek(fd, SeekPast) \/ Seek(fd, SeekInto) => Client
    BY <1>1, <1>2 DEF Client, Seek
  <1> QED
    BY <1>3, <1>4, <1>5, <1>6, <1>7 DEF Makes

(* Every step of the program is one of the library, or none. *)
LEMMA TestSteps ==
  ASSUME TestTypeOK, TestAt, [TestNext]_allVars
  PROVE  [Next]_vars
  <1>1. StartTests \/ CallReturned \/ ByteRead \/ ReadEnds \/ Report => UNCHANGED vars
    BY DEF StartTests, CallReturned, Counts, ByteRead, ReadEnds, Report
  <1>2. MakeCall => Next
    BY MakesCalls DEF MakeCall, Next, TestAt, TestTypeOK
  <1>3. LibraryRuns => Next
    BY DEF LibraryRuns, Next
  <1>4. ReportLast => Next
    <2>1. "idle" \in CrashPoints
      BY TestAssumption
    <2> QED
      BY <2>1, LastIsIdle DEF ReportLast, Next, Crash
  <1>5. Aborts => Next
    <2>1. IndexHit(fd) => Client
      <3>1. IndexHit(fd) => fd \in 0..MaxFD
        BY SizesAssumption DEF IndexHit, TestAt, TestTypeOK
      <3> QED
        BY <3>1, TestAssumption DEF Client
    <2> QED
      BY <2>1 DEF Aborts, FirstCallHits, Next, Client
  <1>6. Killed => Next
    BY DEF Killed, Next
  <1>7. UNCHANGED allVars => UNCHANGED vars
    BY DEF allVars
  <1> QED
    BY <1>1, <1>2, <1>3, <1>4, <1>5, <1>6, <1>7 DEF TestNext, Main

(* When the program is not in a call none runs, and it is in one when one  *)
(* runs.                                                                   *)
LEMMA StepsInCall ==
  ASSUME CallOK, Step
  PROVE  pc # "idle"
  BY DEF Step, MountOpens, MountFails, CreateBlock, Validate, FormatSuper, FormatBlock,
         FormatEnd, Lookup, CreateInode, AllocWalk, AllocSuper, AllocLast, TruncBlock,
         TruncBlockFails, TruncLast, TruncSuper, WriteAlloc, WriteInode, WriteData,
         WriteDataFails, DeleteBlock, DeleteBlockFails, DeleteLast, DeleteSuper,
         ReadWalk, ReadWalkFails

-----------------------------------------------------------------------------
(* Where the program is *)

LEMMA TestStarts ==
  ASSUME TestInit
  PROVE  TestTypeOK /\ TestAt /\ CallOK
  <1>1. TypeOK /\ CallOK
    BY TypeInit DEF TestInit
  <1>2. TestTypeOK
    <2>1. NoResult \in [ResultIdx -> Bytes]
      BY DEF NoResult, Bytes
    <2>2. MaxKills \in Nat
      BY TestAssumption
    <2>3. /\ test = 0 /\ at = 1 /\ waiting = FALSE /\ fd = -1 /\ i = 0 /\ result = NoResult
          /\ countTest = 0 /\ failed = {} /\ kills = 0 /\ spoilt = FALSE
      BY DEF TestInit
    <2>4. test \in 0..Len(Tests)
      BY <2>3, TestsAre
    <2>5. at \in 1..6 /\ fd \in Int /\ i \in Nat /\ countTest \in 0..5 /\ kills \in 0..MaxKills
      BY <2>2, <2>3
    <2>6. waiting \in BOOLEAN /\ spoilt \in BOOLEAN
      BY <2>3
    <2> QED
      BY <1>1, <2>1, <2>3, <2>4, <2>5, <2>6 DEF TestTypeOK
  <1>3. TestAt
    BY SizesAssumption DEF TestInit, Init, TestAt, NoRet
  <1> QED
    BY <1>1, <1>2, <1>3

(* Where a step of the program leads. *)
LEMMA TestAtNext ==
  ASSUME TestTypeOK, CallOK, TestAt, [TestNext]_allVars
  PROVE  TestAt'
  <1>1. [Next]_vars /\ TypeOK /\ MaxFD \in Nat
    BY TestSteps, SizesAssumption DEF TestTypeOK
  <1>2. ret'.code <= MaxFD
    BY <1>1, CodesFit DEF TestAt
  <1>3. ASSUME Off, pc' = "idle" PROVE TestAt'
    BY <1>1, <1>2, <1>3 DEF Off, TestAt
  <1>4. test # 0 => test \in 1..6 /\ Len(Tests[test]) \in 3..5
    BY TestsAre, TestsShape DEF TestTypeOK
  <1>5. CASE StartTests
    <2>1. test' = 1 /\ at' = 1 /\ waiting' = FALSE /\ pc' = "idle"
      BY <1>5 DEF StartTests, TestAt, Running, vars
    <2> QED
      BY <1>2, <1>5, <2>1, TestsShape, TestsAre DEF StartTests, TestAt, mlocals
  <1>6. CASE MakeCall
    BY <1>2, <1>6 DEF MakeCall, TestAt, Running, mlocals
  <1>7. CASE LibraryRuns
    BY <1>2, <1>7 DEF LibraryRuns, TestAt, Running, mlocals
  <1>8. CASE CallReturned \/ ReadEnds
    <2>1. /\ Running /\ pc' = "idle" /\ waiting' = FALSE /\ at' = at + 1 /\ test' = test
          /\ countTest' \in {countTest, countTest + 1}
          /\ fd' \in {fd, ret.code}
      BY <1>8 DEF CallReturned, Counts, ReadEnds, vars
    <2>2. test # 0 /\ at \in 1..Len(Tests[test]) /\ countTest < at /\ countTest \in Int
      BY <1>4, <2>1 DEF Running, TestAt, TestTypeOK
    <2> QED
      BY <1>2, <1>4, <2>1, <2>2 DEF TestAt
  <1>9. CASE ByteRead
    BY <1>2, <1>9 DEF ByteRead, TestAt, Running, vars
  <1>10. CASE Report
    <2>1. /\ test' = test + 1 /\ test' \in 1..6 /\ at' = 1 /\ countTest' = 0 /\ fd' = fd
          /\ test' # 0
      BY <1>4, <1>10, TestsAre DEF Report
    <2>2. ~waiting /\ waiting' = FALSE /\ pc' = "idle"
      BY <1>4, <1>10 DEF Report, TestAt, Running, vars, TestTypeOK
    <2> QED
      BY <1>2, <2>1, <2>2, TestsShape DEF TestAt
  <1>11. CASE ReportLast \/ Aborts \/ Killed
    BY <1>3, <1>11 DEF ReportLast, Aborts, Killed, ListMissing, FirstCallHits, Crash, Die
  <1>12. CASE UNCHANGED allVars
    BY <1>2, <1>12 DEF allVars, tvars, mlocals, vars, TestAt, Running
  <1> QED
    BY <1>5, <1>6, <1>7, <1>8, <1>9, <1>10, <1>11, <1>12 DEF TestNext, Main

LEMMA TestTypeNext ==
  ASSUME TestTypeOK, CallOK, TestAt, [TestNext]_allVars
  PROVE  TestTypeOK' /\ CallOK'
  <1>1. TypeOK' /\ CallOK'
    BY TestSteps, TypeNext DEF TestTypeOK
  <1>2. ret.code \in Int /\ ret.byte \in Bytes /\ 6 = Len(Tests) /\ MaxKills \in Nat
    BY TestsAre, TestAssumption DEF TestTypeOK, TypeOK
  <1>3. NoResult \in [ResultIdx -> Bytes] /\ Stored \in [ResultIdx -> Bytes]
    BY <1>2 DEF NoResult, Bytes, Stored, TestTypeOK
  <1>4. test' \in 0..6 /\ at' \in 1..6 /\ countTest' \in 0..5
    <2>1. TestAt'
      BY TestAtNext
    <2>2. test' \in 0..6
      <3> test \in 0..6
        BY <1>2 DEF TestTypeOK
      <3>1. Report => test' \in 0..6
        <4>1. Report => test < 6 /\ test' = test + 1
          BY <1>2 DEF Report
        <4> QED
          BY <4>1
      <3>2. ~Report => test' \in {test, 0, 1}
        BY DEF TestNext, Main, StartTests, MakeCall, LibraryRuns, CallReturned, Counts,
               ByteRead, ReadEnds, ReportLast, Aborts, Killed, Off, allVars, tvars
      <3> QED
        BY <3>1, <3>2
    <2>3. at' \in 1..6
      <3>1. CASE test' = 0
        BY <2>1, <3>1 DEF TestAt
      <3>2. CASE test' # 0
        <4>1. test' \in 1..6
          BY <2>2, <3>2
        <4>2. PICK n \in 3..5 : n = Len(Tests[test'])
          BY <4>1, TestsShape
        <4>3. at' \in 1..(n + 1)
          BY <2>1, <3>2, <4>2 DEF TestAt
        <4> QED
          BY <4>3
      <3> QED
        BY <3>1, <3>2
    <2>4. countTest' \in Nat
      BY DEF TestNext, Main, StartTests, MakeCall, LibraryRuns, CallReturned, Counts,
             ByteRead, ReadEnds, Report, ReportLast, Aborts, Killed, Off, allVars, tvars,
             mlocals, TestTypeOK
    <2> QED
      BY <2>1, <2>2, <2>3, <2>4 DEF TestAt
  <1>5. waiting' \in BOOLEAN /\ spoilt' \in BOOLEAN /\ kills' \in 0..MaxKills
    <2>1. waiting' \in BOOLEAN
      BY DEF TestNext, Main, StartTests, MakeCall, LibraryRuns, CallReturned, Counts,
             ByteRead, ReadEnds, Report, ReportLast, Aborts, Killed, Off, allVars, tvars,
             TestTypeOK
    <2>2. spoilt' \in BOOLEAN
      BY DEF TestNext, Main, StartTests, MakeCall, LibraryRuns, CallReturned, Counts,
             ByteRead, ReadEnds, Report, ReportLast, Aborts, Killed, Off, allVars, tvars,
             TestTypeOK
    <2>3. kills' \in 0..MaxKills
      BY <1>2 DEF TestNext, Main, StartTests, MakeCall, LibraryRuns, CallReturned, Counts,
                  ByteRead, ReadEnds, Report, ReportLast, Aborts, Killed, Off, allVars, tvars,
                  TestTypeOK
    <2> QED
      BY <2>1, <2>2, <2>3
  <1>6. fd' \in Int /\ i' \in Nat /\ result' \in [ResultIdx -> Bytes]
    BY <1>2, <1>3 DEF TestNext, Main, StartTests, MakeCall, LibraryRuns, CallReturned, Counts,
             ByteRead, ReadEnds, Report, ReportLast, Aborts, Killed, Off, allVars, tvars,
             mlocals, TestTypeOK
  <1>7. failed' \subseteq 1..6
    <2>1. Report => test \in 1..6
      <3>1. test \in 0..6
        BY <1>2 DEF TestTypeOK
      <3> QED
        BY <3>1 DEF Report
    <2> QED
      BY <1>2, <2>1 DEF TestNext, Main, StartTests, MakeCall, LibraryRuns, CallReturned, Counts,
                ByteRead, ReadEnds, Report, ReportLast, Aborts, Killed, Off, allVars, tvars,
                TestTypeOK
  <1> QED
    BY <1>1, <1>2, <1>4, <1>5, <1>6, <1>7 DEF TestTypeOK

(* The program's variables keep their types, and those of the library      *)
(* theirs, whatever it finds on the disk and wherever it is killed.        *)
THEOREM TestTypesCorrect == TestSpec => []TestTypeOK
  <1>1. TestInit => TestTypeOK /\ CallOK /\ TestAt
    BY TestStarts
  <1>2. TestTypeOK /\ CallOK /\ TestAt /\ [TestNext]_allVars => (TestTypeOK /\ CallOK /\ TestAt)'
    BY TestTypeNext, TestAtNext
  <1> QED
    BY <1>1, <1>2, PTL DEF TestSpec

-----------------------------------------------------------------------------
(* Without tfs_deleteFile and tfs_rename *)

(* An open file is one, and has its name for itself. *)
FilesOnce ==
  /\ OpenInodes \subseteq StoredFiles
  /\ \A f, g \in StoredFiles : NameOf(disk[f]) = NameOf(disk[g]) => f = g

(* The files stay, and stay the same ones. *)
SameFiles ==
  \A f : /\ f \in StoredFiles' <=> f \in StoredFiles
         /\ f \in StoredFiles => NameOf(disk'[f]) = NameOf(disk[f])

(* A file is made, of a name that there was not. *)
MakesFile(f) ==
  /\ NameOf(disk'[f]) = loc.name
  /\ \A g \in StoredFiles : NameOf(disk[g]) # loc.name
  /\ \A g : g # f => /\ g \in StoredFiles' <=> g \in StoredFiles
                     /\ g \in StoredFiles => NameOf(disk'[g]) = NameOf(disk[g])

LEMMA OnceKept ==
  ASSUME FilesOnce, SameFiles, OpenInodes' \subseteq OpenInodes \cup StoredFiles
  PROVE  FilesOnce'
  <1>1. OpenInodes' \subseteq StoredFiles'
    BY DEF FilesOnce, SameFiles
  <1>2. ASSUME NEW f \in StoredFiles', NEW g \in StoredFiles',
               NameOf(disk'[f]) = NameOf(disk'[g])
        PROVE  f = g
    BY <1>2 DEF FilesOnce, SameFiles
  <1> QED
    BY <1>1, <1>2 DEF FilesOnce

LEMMA OnceMade ==
  ASSUME FilesOnce, NEW x, MakesFile(x), x \notin StoredFiles, x \in StoredFiles',
         OpenInodes' \subseteq OpenInodes \cup {x}
  PROVE  FilesOnce'
  <1>1. OpenInodes' \subseteq StoredFiles'
    BY DEF FilesOnce, MakesFile
  <1>2. ASSUME NEW f \in StoredFiles', NEW g \in StoredFiles',
               NameOf(disk'[f]) = NameOf(disk'[g])
        PROVE  f = g
    BY <1>2 DEF FilesOnce, MakesFile
  <1> QED
    BY <1>1, <1>2 DEF FilesOnce

LEMMA StorageFiles ==
  ASSUME UNCHANGED storage
  PROVE  SameFiles /\ OnDisk' = OnDisk
  BY DEF storage, SameFiles, StoredFiles, Inodes, OnDisk

(* A step that alters no file but f, and leaves f its name. *)
LEMMA AlteredFiles ==
  ASSUME Careful, TypeOK, TypeOK',
         NEW o \in [Indices -> Int], NEW r \in [Indices -> Int], NEW h, Owned(o, r, h),
         NEW x, Alters(o, x),
         \/ x \notin OnDisk
         \/ /\ disk'[x].type = inode <=> disk[x].type = inode
            /\ NameOf(disk'[x]) = NameOf(disk[x])
  PROVE  SameFiles
  <1>1. \A f : f # x => Alike(f)
    BY OthersAlike
  <1>2. OnDisk' = OnDisk
    BY DEF Alters
  <1>3. x \in StoredFiles' <=> x \in StoredFiles
    BY <1>2 DEF StoredFiles, Inodes
  <1>4. x \in StoredFiles => NameOf(disk'[x]) = NameOf(disk[x])
    BY DEF StoredFiles, Inodes
  <1> QED
    BY <1>1, <1>3, <1>4 DEF SameFiles, Alike

LEMMA StayOnce ==
  ASSUME TypeOK, FilesOnce, UNCHANGED storage, TableMoves
  PROVE  FilesOnce'
  <1>1. SameFiles /\ OpenInodes' \subseteq OpenInodes
    BY StorageFiles, OpenShrinks
  <1> QED
    BY <1>1, OnceKept

LEMMA WorkOnce ==
  ASSUME Careful, TypeOK, TypeOK', FilesOnce, TableMoves,
         NEW o \in [Indices -> Int], NEW r \in [Indices -> Int], NEW h, Owned(o, r, h),
         NEW x, Alters(o, x),
         \/ x \notin OnDisk
         \/ /\ disk'[x].type = inode <=> disk[x].type = inode
            /\ NameOf(disk'[x]) = NameOf(disk[x])
  PROVE  FilesOnce'
  <1>1. SameFiles
    BY AlteredFiles
  <1>2. OpenInodes' \subseteq OpenInodes
    BY OpenShrinks DEF Alters
  <1> QED
    BY <1>1, <1>2, OnceKept

LEMMA ClientOnce ==
  ASSUME Careful, NewNames = {}, TypeOK, TypeOK', OwnersInv, FilesOnce, Client
  PROVE  FilesOnce'
  <1>1. TableMoves /\ ImageMoves /\ pc = "idle"
    BY ClientDoes, ClientIdle
  <1>2. CASE UNCHANGED storage
    BY <1>1, <1>2, StayOnce
  <1>3. ASSUME NEW FD, NEW b, WriteFile(FD, b), ~UNCHANGED storage
        PROVE  FilesOnce'
    <2>1. /\ Readable(fte.inodeIdx) /\ LL # <<>>
          /\ \E c : /\ WriteBlock(fte.inodeIdx, c)
                    /\ c.type = disk[fte.inodeIdx].type
                    /\ NameOf(c) = NameOf(disk[fte.inodeIdx])
      BY <1>3, CutIs
    <2>2. PICK c : /\ WriteBlock(fte.inodeIdx, c)
                   /\ c.type = disk[fte.inodeIdx].type
                   /\ NameOf(c) = NameOf(disk[fte.inodeIdx])
      BY <2>1
    <2>3. HasFS
      BY <2>1, InvParts, HeadOpen
    <2>4. PICK o \in [Indices -> Int], r \in [Indices -> Int], h \in Nat : Owned(o, r, h)
      BY <2>3 DEF OwnersInv
    <2>5. Alters(o, fte.inodeIdx) /\ disk'[fte.inodeIdx] = c
      BY <1>1, <2>1, <2>2, <2>4, HeadAlters
    <2> QED
      BY <1>1, <2>2, <2>4, <2>5, WorkOnce
  <1> QED
    BY <1>1, <1>2, <1>3 DEF ImageMoves

LEMMA MountsOnce ==
  ASSUME Careful, TypeOK, CallOK, OwnersInv, FilesMounted, FilesOnce, Mounts
  PROVE  FilesOnce'
  <1>1. LL' = LL
    BY MountLeads DEF session
  <1>2. CASE HasFS
    BY <1>1, <1>2, MountsRead, StayOnce DEF TableMoves
  <1>3. CASE ~HasFS
    <2>1. Inodes = {} /\ Inodes' = {}
      BY <1>3, MountsNoFile DEF FilesMounted
    <2>2. OpenInodes' = {}
      BY <1>1, <1>3, InvParts, NoEntries
    <2>3. StoredFiles' = {}
      BY <2>1 DEF StoredFiles
    <2> QED
      BY <2>2, <2>3 DEF FilesOnce
  <1> QED
    BY <1>2, <1>3

LEMMA LookupOnce ==
  ASSUME TypeOK, TypeOK', CallOK, NameStillNew, FilesOnce, Lookup
  PROVE  FilesOnce'
  <1>1. ASSUME UNCHANGED storage, LL' = LL PROVE FilesOnce'
    BY <1>1, StayOnce DEF TableMoves
  <1>2. ASSUME UNCHANGED storage, NEW x \in Int, Opened(x), x \in StoredFiles \/ x < 0
        PROVE  FilesOnce'
    <2>1. SameFiles /\ OpenInodes' \subseteq OpenInodes \cup {x}
      BY <1>2, StorageFiles, OpenGrows
    <2>2. x < 0 => x \notin OpenInodes'
      BY <1>2, StorageFiles, HeldNowhere DEF OpenInodes
    <2> QED
      BY <1>2, <2>1, <2>2, OnceKept
  <1>3. loc.name \in Names /\ loc.name # EmptyName
    BY ClientAssumption DEF NameStillNew, Lookup, CallOK
  <1>4. FindByName(loc.name) # 0 => FindByName(loc.name) \in StoredFiles
    BY <1>3, FindIs, FoundInode DEF StoredFiles, Hits
  <1>5. \A x \in StoredFiles : x \in Int
    BY OnDiskFacts DEF StoredFiles, Inodes
  <1> QED
    BY <1>1, <1>2, <1>4, <1>5, LookupLeads
       DEF session, TFS_ERROR_VALIDATE, TFS_ERROR_INVALID_PARAMETER

LEMMA CreateOnce ==
  ASSUME Careful, TypeOK, TypeOK', CallOK, OwnersInv, NameStillNew, FilesOnce, CreateInode
  PROVE  FilesOnce'
  <1>1. CASE ~Readable(loc.cur)
    <2>1. UNCHANGED storage /\ Opened(TFS_ERROR_DISK_WRITE)
      BY <1>1 DEF CreateInode
    <2>2. TFS_ERROR_DISK_WRITE \in Int /\ TFS_ERROR_DISK_WRITE < 0
      BY DEF TFS_ERROR_DISK_WRITE
    <2>3. SameFiles /\ OpenInodes' \subseteq OpenInodes \cup {TFS_ERROR_DISK_WRITE}
      BY <2>1, <2>2, StorageFiles, OpenGrows
    <2>4. TFS_ERROR_DISK_WRITE \notin OpenInodes'
      BY <2>1, <2>2, StorageFiles, HeldNowhere DEF OpenInodes
    <2> QED
      BY <2>3, <2>4, OnceKept
  <1>2. CASE Readable(loc.cur)
    <2>1. HasFS /\ pc = "createInode" /\ loc.then = "createFile"
      BY DEF CreateInode, OwnersInv, MakingOK, HasFS, CallOK
    <2>2. PICK o \in [Indices -> Int], r \in [Indices -> Int], h \in Nat : Owned(o, r, h)
      BY <2>1 DEF OwnersInv
    <2>3. /\ Alters(o, loc.cur) /\ loc.cur \in OnDisk /\ o[loc.cur] = Held
          /\ disk'[loc.cur] = [type |-> inode, nextIdx |-> 0, body |-> InodeBody(loc.name, 0)]
      BY <1>2, <2>2, CreateAlters
    <2>4. OpenInodes' \subseteq OpenInodes \cup {loc.cur}
      BY <1>2, <2>3, OpenGrows, LocalFields DEF CreateInode, Alters
    <2>5. /\ loc.name \in Names /\ loc.name # EmptyName /\ Hits(loc.name) = {}
      BY <2>1, ClientAssumption DEF NameStillNew
    <2>6. disk'[loc.cur].type = inode /\ NameOf(disk'[loc.cur]) = loc.name
      BY <2>3, InodeReads
    <2>7. \A g \in StoredFiles : NameOf(disk[g]) # loc.name
      BY <2>5 DEF StoredFiles, Inodes, OnDisk, Hits
    <2>8. loc.cur \in StoredFiles'
      BY <2>3, <2>5, <2>6 DEF Alters, StoredFiles, Inodes
    <2>9. loc.cur \notin StoredFiles
      <3>1. Held \notin OnDisk
        BY HeldNowhere
      <3> QED
        BY <2>2, <2>3, <3>1 DEF Owned, FilesOwned, StoredFiles
    <2>10. \A f : f # loc.cur => Alike(f)
      BY <2>2, <2>3, OthersAlike
    <2>11. MakesFile(loc.cur)
      BY <2>6, <2>7, <2>10 DEF MakesFile, Alike
    <2> QED
      BY <2>4, <2>8, <2>9, <2>11, OnceMade
  <1> QED
    BY <1>1, <1>2

LEMMA AllocOnce ==
  ASSUME Careful, TypeOK, TypeOK', CallOK, OwnersInv, FilesOnce,
         AllocWalk \/ AllocSuper \/ AllocLast
  PROVE  FilesOnce'
  <1>1. LL' = LL /\ pc \in Allocating
    BY AllocLeads DEF session
  <1>2. CASE AllocWalk
    BY <1>1, <1>2, StayOnce DEF AllocWalk, TableMoves
  <1>3. CASE AllocSuper \/ AllocLast
    <2>1. HasFS
      BY <1>1 DEF OwnersInv, MakingOK, HasFS, Allocating
    <2>2. PICK o \in [Indices -> Int], r \in [Indices -> Int], h \in Nat : Owned(o, r, h)
      BY <2>1 DEF OwnersInv
    <2>3. Alters(o, Held)
      BY <1>3, <2>2, AllocAlters
    <2> QED
      BY <1>1, <2>2, <2>3, HeldNowhere, WorkOnce DEF TableMoves
  <1> QED
    BY <1>2, <1>3

LEMMA WriteOnce ==
  ASSUME Careful, TypeOK, TypeOK', CallOK, OwnersInv, StoreInv, FilesOnce,
         Truncs \/ WriteAlloc \/ WriteInode \/ WriteData \/ WriteDataFails
  PROVE  FilesOnce'
  <1>1. pc \in Writing /\ pc # "deleteSuper"
    <2>1. Truncs \/ WriteAlloc => pc \in Writing
      BY TruncLeads, WriteAllocLeads DEF Writing
    <2>2. WriteInode \/ WriteData \/ WriteDataFails => pc \in Writing
      BY DataLeads DEF Writing
    <2> QED
      BY <2>1, <2>2 DEF Writing
  <1>2. /\ LL # <<>> /\ HasFS /\ Readable(fte.inodeIdx)
        /\ fte.inodeIdx \in OnDisk /\ fte.inodeIdx \in OpenInodes
    BY <1>1, WorkOwners DEF Working
  <1>3. TableMoves
    BY <1>2, TruncLeads, WriteAllocLeads, DataLeads DEF TableMoves, session
  <1>4. CASE TruncBlockFails \/ WriteAlloc \/ WriteDataFails
    BY <1>3, <1>4, StayOnce DEF TruncBlockFails, WriteAlloc, WriteDataFails
  <1>5. PICK o \in [Indices -> Int], r \in [Indices -> Int], h \in Nat : Owned(o, r, h)
    BY <1>2 DEF OwnersInv
  <1>6. CASE TruncBlock \/ TruncLast \/ TruncSuper
    BY <1>3, <1>5, <1>6, TruncAlters, HeldNowhere, WorkOnce
  <1>7. CASE WriteInode
    <2> PICK x : x = fte.inodeIdx
      OBVIOUS
    <2>1. /\ disk'[x].type = inode /\ NameOf(disk'[x]) = NameOf(disk[x])
          /\ \A f : f # x => Alike(f)
          /\ OnDisk' = OnDisk
      BY <1>7, InodeTorn
    <2>2. x \in StoredFiles
      BY <1>2 DEF FilesOnce
    <2>3. x \in StoredFiles'
      BY <2>1, <2>2 DEF StoredFiles, Inodes
    <2>4. SameFiles
      BY <2>1, <2>2, <2>3 DEF SameFiles, Alike
    <2>5. OpenInodes' \subseteq OpenInodes
      BY <1>3, <2>1, OpenShrinks
    <2> QED
      BY <2>4, <2>5, OnceKept
  <1>8. CASE WriteData
    <2>1. Alters(o, fte.inodeIdx) /\ disk'[fte.inodeIdx] = disk[fte.inodeIdx]
      BY <1>5, <1>8, DataAlters
    <2> QED
      BY <1>3, <1>5, <2>1, WorkOnce
  <1> QED
    BY <1>4, <1>6, <1>7, <1>8 DEF Truncs

LEMMA OnceNext ==
  ASSUME Careful, NewNames = {}, TypeOK, TypeOK', CallOK, OwnersInv, StoreInv, FilesOnce,
         pc \notin Deletes, [Next]_vars
  PROVE  FilesOnce'
  <1>1. FilesMounted /\ NameStillNew
    BY DEF StoreInv
  <1>2. CASE Client \/ Mounts \/ Lookup \/ CreateInode
    BY <1>1, <1>2, ClientOnce, MountsOnce, LookupOnce, CreateOnce
  <1>3. CASE AllocWalk \/ AllocSuper \/ AllocLast
    BY <1>3, AllocOnce
  <1>4. CASE Truncs \/ WriteAlloc \/ WriteInode \/ WriteData \/ WriteDataFails
    BY <1>4, WriteOnce
  <1>5. ~DeleteBlock /\ ~DeleteLast /\ ~DeleteSuper /\ ~DeleteBlockFails
    BY DEF DeleteBlock, DeleteLast, DeleteSuper, DeleteBlockFails, Deletes
  <1>6. CASE ReadWalkFails \/ Crash \/ UNCHANGED vars
    BY <1>6, StayOnce DEF ReadWalkFails, Crash, Die, vars, storage, session, TableMoves
  <1>7. CASE ReadWalk
    <2>1. LL # <<>>
      BY <1>7, WorkFile DEF ReadWalk, Working
    <2>2. TableMoves /\ UNCHANGED storage
      BY <1>7, <2>1, ReadLeads DEF TableMoves, session
    <2> QED
      BY <2>2, StayOnce
  <1> QED
    BY <1>2, <1>3, <1>4, <1>5, <1>6, <1>7, StepKinds

(* The program makes no call that deletes. *)
LEMMA MakesNoDelete ==
  ASSUME NEW op, Makes(op)
  PROVE  pc' \notin Deletes
  <1>1. OpenFile(testfile) => pc' \notin Deletes
    BY DEF OpenFile, Call, Deletes
  <1>2. WriteFile(fd, testString1) => pc' \notin Deletes
    BY DEF WriteFile, Call, Return, ReturnByte, Deletes
  <1>3. ReadByte(fd) => pc' \notin Deletes
    BY DEF ReadByte, Call, Return, ReturnByte, Deletes
  <1>4. Rejected => pc' \notin Deletes
    BY DEF Rejected, Refused, Return, ReturnByte, Deletes
  <1>5. Seek(fd, SeekPast) \/ Seek(fd, SeekInto) \/ GetTimeStamp(fd) \/ CloseFile(fd) =>
          pc' \notin Deletes
    BY DEF Seek, GetTimeStamp, CloseFile, CloseHead, Return, ReturnByte, Deletes
  <1> QED
    BY <1>1, <1>2, <1>3, <1>4, <1>5 DEF Makes

LEMMA StepsNoDelete ==
  ASSUME Careful, TypeOK, CallOK, pc \notin Deletes, Step
  PROVE  pc' \notin Deletes
  <1>1. Home => pc' \notin Deletes
    BY DEF Home, Deletes
  <1>2. Mounts => pc' \notin Deletes
    BY <1>1, MountLeads DEF Mounting, Deletes
  <1>3. Lookup => pc' \notin Deletes
    BY <1>1, LookupLeads, ReturnsHome DEF Opened, Deletes
  <1>4. AllocWalk \/ AllocSuper \/ AllocLast \/ Truncs \/ WriteAlloc => pc' \notin Deletes
    BY AllocLeads, TruncLeads, WriteAllocLeads DEF Allocating, Deletes
  <1>5. WriteInode \/ WriteData \/ WriteDataFails => pc' \notin Deletes
    BY <1>1, DataLeads DEF Deletes
  <1>6. ~DeleteBlock /\ ~DeleteLast /\ ~DeleteSuper /\ ~DeleteBlockFails
    BY DEF DeleteBlock, DeleteLast, DeleteSuper, DeleteBlockFails, Deletes
  <1>7. ReadWalk \/ ReadWalkFails \/ CreateInode => pc' \notin Deletes
    BY <1>1, ReadLeads, EndLeads DEF Deletes
  <1>8. ~Client /\ (Crash => pc' \notin Deletes)
    <2>1. Client => pc = "idle"
      BY ClientIdle
    <2>2. pc # "idle"
      BY StepsInCall
    <2>3. Crash => pc' \notin Deletes
      BY <1>1, EndLeads
    <2> QED
      BY <2>1, <2>2, <2>3
  <1>9. UNCHANGED vars => pc' \notin Deletes
    BY DEF vars
  <1> QED
    BY <1>2, <1>3, <1>4, <1>5, <1>6, <1>7, <1>8, <1>9, StepKinds DEF Next

LEMMA NoDeleteNext ==
  ASSUME Careful, TestTypeOK, CallOK, pc \notin Deletes, [TestNext]_allVars
  PROVE  pc' \notin Deletes
  <1>1. MakeCall => pc' \notin Deletes
    BY MakesNoDelete DEF MakeCall
  <1>2. LibraryRuns => pc' \notin Deletes
    BY StepsNoDelete DEF LibraryRuns, TestTypeOK
  <1>3. StartTests \/ CallReturned \/ ByteRead \/ ReadEnds \/ Report \/ UNCHANGED allVars =>
          pc' \notin Deletes
    BY DEF StartTests, CallReturned, Counts, ByteRead, ReadEnds, Report, allVars, vars
  <1>4. ReportLast \/ Aborts \/ Killed => pc' \notin Deletes
    BY DEF ReportLast, Aborts, Killed, ListMissing, FirstCallHits, Crash, Die, Deletes
  <1> QED
    BY <1>1, <1>2, <1>3, <1>4 DEF TestNext, Main

-----------------------------------------------------------------------------
(* The image that the program drives *)

ImageInv == TypeOK /\ CallOK /\ OwnersInv /\ StoreInv /\ ReadInv /\ FilesOnce

LEMMA ImageStarts ==
  ASSUME Init
  PROVE  ImageInv /\ pc \notin Deletes
  <1>1. TypeOK /\ CallOK /\ OwnersInv /\ StoreInv
    BY TypeInit, OwnersInit, StoreInit
  <1>2. ReadInv /\ pc \notin Deletes
    BY DEF Init, ReadInv, Deletes
  <1>3. OnDisk = {} /\ Inodes = {} /\ StoredFiles = {} /\ OpenInodes = {}
    BY DEF Init, OnDisk, Inodes, StoredFiles, OpenInodes
  <1> QED
    BY <1>1, <1>2, <1>3 DEF ImageInv, FilesOnce

LEMMA ImageNext ==
  ASSUME Careful, TestTypeOK, TestAt, ImageInv, pc \notin Deletes, [TestNext]_allVars
  PROVE  ImageInv' /\ pc' \notin Deletes
  <1>1. [Next]_vars /\ pc' \notin Deletes /\ NewNames = {}
    BY TestSteps, NoDeleteNext, TestAssumption DEF ImageInv
  <1>2. TypeOK' /\ CallOK'
    BY <1>1, TypeNext DEF ImageInv
  <1>3. OwnersInv' /\ StoreInv' /\ ReadInv'
    BY <1>1, <1>2, OwnersNext, StoreInvNext, ReadInvNext DEF ImageInv
  <1>4. FilesOnce'
    BY <1>1, <1>2, OnceNext DEF ImageInv
  <1> QED
    BY <1>1, <1>2, <1>3, <1>4 DEF ImageInv

LEMMA OneFile ==
  ASSUME TypeOK, FilesOnce
  PROVE  OneTestFile
  <1>1. testfile # EmptyName
    BY TestAssumption, ClientAssumption
  <1>2. TestFiles \subseteq StoredFiles
    BY <1>1 DEF TestFiles, StoredFiles
  <1>3. \A f, g \in TestFiles : f = g
    BY <1>2 DEF TestFiles, FilesOnce
  <1>4. CASE TestFiles = {}
    BY <1>4, FS_EmptySet DEF OneTestFile
  <1>5. CASE TestFiles # {}
    <2>1. PICK f : TestFiles = {f}
      BY <1>3, <1>5
    <2>2. Cardinality({f}) = 1
      BY FS_Singleton
    <2> QED
      BY <2>1, <2>2 DEF OneTestFile
  <1> QED
    BY <1>4, <1>5

(* What the program opened has the size of its string, or none yet.        *)
LEMMA HeadSized ==
  ASSUME ImageInv, LL # <<>>, Readable(fte.inodeIdx), pc \notin Deletes
  PROVE  FileSize(disk[fte.inodeIdx]) \in {0, Length[testString1]}
  <1>1. fte.inodeIdx \in OpenInodes
    BY HeadFile DEF ImageInv, Deletes
  <1>2. fte.inodeIdx \in Inodes /\ HasFS
    BY <1>1, HeadFile DEF ImageInv, FilesOnce, StoredFiles, Deletes
  <1>3. PICK o, r \in [Indices -> Int], h \in Nat : Owned(o, r, h)
    BY <1>2 DEF ImageInv, OwnersInv
  <1>4. Buffers = {testString1}
    BY TestAssumption
  <1>5. \E b \in Buffers : DataOf(o, r, fte.inodeIdx, b)
    BY <1>2, <1>3, <1>4 DEF Owned, FilesOwned
  <1> QED
    BY <1>4, <1>5 DEF DataOf

-----------------------------------------------------------------------------
(* The reading loops *)

(* Since the file was opened nothing has been read. *)
NothingRead ==
  test # 0 =>
    \A k \in 2..Len(Tests[test]) :
      Tests[test][k] = "read" /\ at \in 2..(k - 1) => i = 0 /\ result = NoResult

(* The loop has stored i bytes and the offset of the file is that far at   *)
(* least; behind them result is still empty.  A byte that a call has just  *)
(* given it was one of the string's.                                       *)
BytesRead ==
  Running /\ Op = "read" =>
    /\ pc \in {"idle", "readWalk"}
    /\ i \in 0..Length[testString1]
    /\ \A k \in ResultIdx : k >= i => result[k] = Nul
    /\ ~waiting \/ pc = "readWalk" => i = 0 \/ (LL # <<>> /\ i <= fte.offset)
    /\ waiting /\ pc = "idle" =>
         \/ ret.byte = Nul
         \/ ret.code = 0 /\ LL # <<>> /\ i < fte.offset /\ fte.offset <= Length[testString1]

LEMMA StringFits ==
  /\ ResultSize \in Nat
  /\ Length[testString1] \in Nat /\ Length[testString1] < ResultSize
  /\ ResultIdx = 0..(ResultSize - 1)
  /\ \A k \in ResultIdx : NoResult[k] = Nul
  BY TestAssumption DEF ResultIdx, NoResult

(* A loop about to begin. *)
LEMMA LoopBegins ==
  ASSUME i' = 0, result' = NoResult, waiting' = FALSE, pc' = "idle"
  PROVE  BytesRead'
  BY StringFits DEF BytesRead

LEMMA NothingReadNext ==
  ASSUME TestTypeOK, TestAt, NothingRead, [TestNext]_allVars
  PROVE  NothingRead'
  <1>1. test # 0 => test \in 1..6 /\ Len(Tests[test]) \in 3..5
    BY TestsAre, TestsShape DEF TestTypeOK
  <1>2. CASE CallReturned
    <2>1. /\ test \in 1..6 /\ at \in 1..Len(Tests[test]) /\ Op = Tests[test][at]
          /\ test' = test /\ at' = at + 1
      BY <1>1, <1>2 DEF CallReturned, Counts, Running, TestAt, TestTypeOK, Op
    <2>2. CASE Op = "open"
      BY <1>2, <2>2 DEF CallReturned, Counts, NothingRead
    <2>3. CASE Op # "open"
      <3>1. at # 1 /\ i' = i /\ result' = result
        BY <1>2, <2>1, <2>3, TestsShape DEF CallReturned, Counts
      <3> QED
        BY <1>1, <2>1, <3>1 DEF NothingRead
    <2> QED
      BY <2>2, <2>3
  <1>3. CASE ByteRead \/ ReadEnds
    <2>1. /\ test \in 1..6 /\ at \in 1..Len(Tests[test]) /\ Tests[test][at] = "read"
          /\ test' = test /\ at' \in {at, at + 1}
      BY <1>1, <1>3 DEF ByteRead, ReadEnds, Running, TestAt, TestTypeOK, Op
    <2>2. \A k \in 1..Len(Tests[test]) : Tests[test][k] = "read" => k = at
      <3>1. \A k \in 1..Len(Tests[test]), m \in 1..Len(Tests[test]) :
              Tests[test][k] = "read" /\ Tests[test][m] = "read" => k = m
        BY <2>1, TestsShape
      <3> QED
        BY ONLY <2>1, <3>1
    <2>3. \A k \in 2..Len(Tests[test]) : k \in 1..Len(Tests[test])
      BY <2>1
    <2> QED
      BY <1>1, <2>1, <2>2, <2>3 DEF NothingRead
  <1>4. CASE StartTests
    <2>1. at' = 1
      BY <1>4 DEF StartTests, TestAt
    <2> QED
      BY <2>1 DEF NothingRead
  <1>5. CASE Report
    BY <1>5 DEF Report, NothingRead
  <1>6. CASE ReportLast \/ Aborts \/ Killed
    BY <1>6 DEF ReportLast, Aborts, Killed, Off, NothingRead
  <1>7. CASE MakeCall \/ LibraryRuns \/ UNCHANGED allVars
    BY <1>7 DEF MakeCall, LibraryRuns, allVars, tvars, mlocals, NothingRead
  <1> QED
    BY <1>2, <1>3, <1>4, <1>5, <1>6, <1>7 DEF TestNext, Main

(* A call of the loop, and its way through the library. *)
LEMMA ReadMade ==
  ASSUME TestTypeOK, BytesRead, MakeCall, Op = "read"
  PROVE  BytesRead'
  <1>1. /\ Running /\ ~waiting /\ waiting' = TRUE
        /\ Running' /\ Op' = "read" /\ i' = i /\ result' = result
    BY DEF MakeCall, Running, Op, mlocals
  <1>2. ReadByte(fd) \/ Rejected
    BY DEF MakeCall, Makes
  <1>3. LL' = LL /\ fte' = fte
    BY <1>2 DEF ReadByte, Rejected, Refused, session, fte
  <1>4. pc' = "readWalk" \/ (pc' = "idle" /\ ret'.byte = Nul)
    BY <1>2 DEF ReadByte, Rejected, Refused, Return, ReturnByte, Call
  <1> QED
    BY <1>1, <1>3, <1>4 DEF BytesRead

LEMMA OffsetMoved ==
  ASSUME LL \in Seq(FTE), LL # <<>>, NEW x \in Nat, SetOffset(x)
  PROVE  LL' # <<>> /\ fte'.offset = x
  <1>1. Len(LL) \in Nat /\ DOMAIN LL = 1..Len(LL) /\ 1 \in 1..Len(LL) /\ LL[1] \in FTE
    BY ListKept, LenProperties, ElementOfSeq
  <1>2. LL' \in Seq(FTE) /\ LL' = [LL EXCEPT ![1] = [LL[1] EXCEPT !.offset = x]]
    BY ListKept DEF SetOffset
  <1>3. LL'[1].offset = x /\ 1 \in DOMAIN LL'
    BY <1>1, <1>2 DEF FTE
  <1>4. LL' # <<>>
    BY <1>3
  <1>5. fte' = LL'[1]
    BY <1>2, <1>4 DEF fte
  <1> QED
    BY <1>3, <1>4, <1>5

LEMMA ReadRuns ==
  ASSUME TestTypeOK, ImageInv, pc \notin Deletes, BytesRead, LibraryRuns, Running, Op = "read"
  PROVE  BytesRead'
  <1>1. /\ waiting' = TRUE /\ Running' /\ Op' = "read" /\ i' = i /\ result' = result
        /\ Step /\ CallOK
    BY DEF LibraryRuns, Running, Op, mlocals, ImageInv
  <1>2. pc = "readWalk"
    BY <1>1, StepsInCall DEF BytesRead
  <1>3. ReadWalk \/ ReadWalkFails
    BY <1>1, <1>2
       DEF Step, MountOpens, MountFails, CreateBlock, Validate, FormatSuper, FormatBlock,
           FormatEnd, Lookup, CreateInode, AllocWalk, AllocSuper, AllocLast, TruncBlock,
           TruncBlockFails, TruncLast, TruncSuper, WriteAlloc, WriteInode, WriteData,
           WriteDataFails, DeleteBlock, DeleteBlockFails, DeleteLast, DeleteSuper
  <1>4. /\ LL # <<>> /\ Readable(fte.inodeIdx) /\ fte.offset \in Nat
        /\ LL \in Seq(FTE)
    BY <1>1, <1>2, WorkFile DEF Working, FTE, ImageInv, TypeOK
  <1>5. i \in 0..Length[testString1] /\ i <= fte.offset
    BY <1>1, <1>2, <1>4, StringFits DEF BytesRead
  <1>6. fte.offset < Length[testString1]
    <2>1. fte.offset < FileSize(disk[fte.inodeIdx])
      BY <1>2 DEF ImageInv, ReadInv
    <2> QED
      BY <1>4, <2>1, HeadSized
  <1>7. CASE pc' = "readWalk"
    <2>1. LL' = LL /\ fte' = fte
      BY <1>3, <1>7 DEF ReadWalk, ReadWalkFails, ReturnByte, Return, session, fte
    <2> QED
      BY <1>1, <1>2, <1>7, <2>1 DEF BytesRead
  <1>8. CASE pc' = "idle"
    <2>1. ret'.byte = Nul \/ (ret'.code = 0 /\ SetOffset(fte.offset + 1))
      BY <1>3, <1>8 DEF ReadWalk, ReadWalkFails, ReturnByte, Return, Goto
    <2>2. ASSUME SetOffset(fte.offset + 1)
          PROVE  LL' # <<>> /\ fte'.offset = fte.offset + 1
      BY <1>4, <2>2, OffsetMoved
    <2>3. ret'.byte = Nul \/ ( /\ ret'.code = 0 /\ LL' # <<>> /\ i' < fte'.offset
                              /\ fte'.offset <= Length[testString1])
      BY <1>1, <1>4, <1>5, <1>6, <2>1, <2>2, StringFits
    <2> QED
      BY <1>1, <1>2, <1>8, <2>3 DEF BytesRead
  <1> QED
    BY <1>3, <1>7, <1>8 DEF ReadWalk, ReadWalkFails, ReturnByte, Return, Goto

(* A byte is stored and the loop goes on. *)
LEMMA ReadGoesOn ==
  ASSUME TestTypeOK, BytesRead, ByteRead
  PROVE  BytesRead'
  <1>1. /\ Running /\ waiting /\ pc = "idle" /\ Op = "read"
        /\ Running' /\ Op' = "read" /\ waiting' = FALSE /\ pc' = "idle"
        /\ i' = i + 1 /\ LL' = LL /\ fte' = fte
        /\ result' = Stored /\ result'[i] # Nul
    BY DEF ByteRead, Running, Op, vars, fte
  <1>2. /\ i \in 0..Length[testString1]
        /\ \A k \in ResultIdx : k >= i => result[k] = Nul
        /\ ret.byte = Nul \/ ( /\ LL # <<>> /\ i < fte.offset
                              /\ fte.offset <= Length[testString1])
    BY <1>1 DEF BytesRead
  <1>3. i \in ResultIdx /\ i \in Nat
    BY <1>2, StringFits
  <1>4. result \in [ResultIdx -> Bytes]
    BY DEF TestTypeOK
  <1>5. result' = [result EXCEPT ![i] = ret.byte] /\ ret.byte # Nul
    BY <1>1, <1>2, <1>3, <1>4 DEF Stored
  <1>6. LL # <<>> /\ i < fte.offset /\ fte.offset <= Length[testString1]
    BY <1>2, <1>5
  <1>7. fte.offset \in Nat
    BY <1>6, ListKept DEF TestTypeOK, TypeOK, FTE
  <1>8. i' \in 0..Length[testString1] /\ i' <= fte'.offset /\ LL' # <<>>
    BY <1>1, <1>3, <1>6, <1>7, StringFits
  <1>9. \A k \in ResultIdx : k >= i' => result'[k] = Nul
    BY <1>1, <1>2, <1>3, <1>4, <1>5, StringFits
  <1> QED
    BY <1>1, <1>8, <1>9 DEF BytesRead

LEMMA BytesReadNext ==
  ASSUME TestTypeOK, TestAt, ImageInv, pc \notin Deletes, NothingRead, BytesRead,
         [TestNext]_allVars
  PROVE  BytesRead'
  <1>1. test # 0 => test \in 1..6 /\ Len(Tests[test]) \in 3..5
    BY TestsAre, TestsShape DEF TestTypeOK
  <1>2. CASE MakeCall
    <2>1. CASE Op = "read"
      BY <1>2, <2>1, ReadMade
    <2>2. CASE Op # "read"
      BY <1>2, <2>2 DEF MakeCall, BytesRead, Op
    <2> QED
      BY <2>1, <2>2
  <1>3. CASE LibraryRuns
    <2>1. CASE Running /\ Op = "read"
      BY <1>3, <2>1, ReadRuns
    <2>2. CASE ~(Running /\ Op = "read")
      BY <1>3, <2>2 DEF LibraryRuns, BytesRead, Running, Op
    <2> QED
      BY <2>1, <2>2
  <1>4. CASE ByteRead
    BY <1>4, ReadGoesOn
  <1>5. CASE CallReturned
    <2>1. /\ test \in 1..6 /\ at \in 1..Len(Tests[test]) /\ Op = Tests[test][at]
          /\ test' = test /\ at' = at + 1 /\ waiting' = FALSE /\ pc' = "idle"
      BY <1>1, <1>5 DEF CallReturned, Counts, Running, TestAt, TestTypeOK, Op, vars
    <2>2. CASE Op = "open"
      <3>1. i' = 0 /\ result' = NoResult
        BY <1>5, <2>2 DEF CallReturned, Counts
      <3> QED
        BY <2>1, <3>1, LoopBegins
    <2>3. CASE Op # "open" /\ Running' /\ Op' = "read"
      <3>1. at # 1 /\ i' = i /\ result' = result
        BY <1>5, <2>1, <2>3, TestsShape DEF CallReturned, Counts
      <3>2. at + 1 \in 2..Len(Tests[test]) /\ Tests[test][at + 1] = "read" /\ at \in 2..at
        BY <1>1, <2>1, <2>3, <3>1 DEF Running, Op
      <3>3. i = 0 /\ result = NoResult
        BY <1>1, <2>1, <3>2 DEF NothingRead
      <3> QED
        BY <2>1, <3>1, <3>3, LoopBegins
    <2>4. CASE ~(Running' /\ Op' = "read")
      BY <2>4 DEF BytesRead
    <2> QED
      BY <2>2, <2>3, <2>4
  <1>6. CASE ReadEnds
    <2>1. /\ test \in 1..6 /\ at \in 1..Len(Tests[test]) /\ Tests[test][at] = "read"
          /\ test' = test /\ at' = at + 1
      BY <1>1, <1>6 DEF ReadEnds, Running, TestAt, TestTypeOK, Op
    <2>2. ASSUME at + 1 \in 1..Len(Tests[test]), Tests[test][at + 1] = "read"
          PROVE  FALSE
      <3>1. \A k \in 1..Len(Tests[test]), m \in 1..Len(Tests[test]) :
              Tests[test][k] = "read" /\ Tests[test][m] = "read" => k = m
        BY <2>1, TestsShape
      <3>2. at = at + 1
        BY ONLY <2>1, <2>2, <3>1
      <3>3. at \in Int
        BY ONLY <2>1
      <3> QED
        BY ONLY <3>2, <3>3
    <2>3. ~(Running' /\ Op' = "read")
      BY <1>1, <2>1, <2>2 DEF Running, Op
    <2> QED
      BY <2>3 DEF BytesRead
  <1>7. CASE StartTests \/ Report
    <2>1. test' \in 1..6 /\ at' = 1
      BY <1>1, <1>7, TestsAre DEF StartTests, Report, TestAt, TestTypeOK
    <2>2. Tests[test'][1] = "open"
      BY <2>1, TestsShape
    <2>3. Op' # "read"
      BY <2>1, <2>2 DEF Op
    <2> QED
      BY <2>3 DEF BytesRead
  <1>8. CASE ReportLast \/ Aborts \/ Killed
    BY <1>8 DEF ReportLast, Aborts, Killed, Off, BytesRead, Running
  <1>9. CASE UNCHANGED allVars
    BY <1>9 DEF allVars, tvars, mlocals, vars, BytesRead, Running, Op, fte
  <1> QED
    BY <1>2, <1>3, <1>4, <1>5, <1>6, <1>7, <1>8, <1>9 DEF TestNext, Main

-----------------------------------------------------------------------------
(* The one file of the image *)

(* Every inode has the name of the file. *)
AllNamed == \A j \in Inodes : NameOf(disk[j]) = testfile

LEMMA NamedKept ==
  ASSUME AllNamed, NEW o, NEW x, Alters(o, x),
         x \in OnDisk /\ disk'[x].type = inode => NameOf(disk'[x]) = testfile
  PROVE  AllNamed'
  BY DEF AllNamed, Inodes, Alters

LEMMA NamedStays ==
  ASSUME AllNamed, UNCHANGED storage
  PROVE  AllNamed' /\ Inodes' = Inodes
  BY DEF AllNamed, storage, Inodes, OnDisk

LEMMA ClientNamed ==
  ASSUME TypeOK, OwnersInv, AllNamed, Client
  PROVE  AllNamed'
  <1>1. ImageMoves /\ pc = "idle" /\ NewNames = {}
    BY ClientDoes, ClientIdle, TestAssumption
  <1>2. ASSUME NEW FD, NEW b, WriteFile(FD, b), ~UNCHANGED storage
        PROVE  AllNamed'
    <2> PICK x : x = fte.inodeIdx
      OBVIOUS
    <2>1. /\ Readable(x) /\ LL # <<>>
          /\ \E c : /\ WriteBlock(x, c)
                    /\ c.type = disk[x].type /\ NameOf(c) = NameOf(disk[x])
      BY <1>2, CutIs
    <2>2. PICK c : WriteBlock(x, c) /\ c.type = disk[x].type /\ NameOf(c) = NameOf(disk[x])
      BY <2>1
    <2>3. \E o, r \in [Indices -> Int], h \in Nat : Owned(o, r, h)
      BY <1>1, <2>1, HeadFile
    <2>4. PICK o \in [Indices -> Int], r \in [Indices -> Int], h \in Nat : Owned(o, r, h)
      BY <2>3
    <2>5. Alters(o, x) /\ disk'[x] = c
      BY <1>1, <2>1, <2>2, <2>4, HeadAlters
    <2>6. x \in OnDisk /\ disk'[x].type = inode => NameOf(disk'[x]) = testfile
      BY <2>2, <2>5 DEF AllNamed, Inodes
    <2> QED
      BY <2>5, <2>6, NamedKept
  <1> QED
    BY <1>1, <1>2, NamedStays DEF ImageMoves

LEMMA CreateNamed ==
  ASSUME TypeOK, CallOK, OwnersInv, NameStillNew, AllNamed, CreateInode
  PROVE  AllNamed'
  <1>1. CASE ~Readable(loc.cur)
    BY <1>1, NamedStays DEF CreateInode
  <1>2. CASE Readable(loc.cur)
    <2>1. HasFS /\ pc = "createInode" /\ loc.then = "createFile"
      BY DEF CreateInode, OwnersInv, MakingOK, HasFS, CallOK
    <2>2. PICK o \in [Indices -> Int], r \in [Indices -> Int], h \in Nat : Owned(o, r, h)
      BY <2>1 DEF OwnersInv
    <2>3. /\ Alters(o, loc.cur)
          /\ disk'[loc.cur] = [type |-> inode, nextIdx |-> 0, body |-> InodeBody(loc.name, 0)]
      BY <1>2, <2>2, CreateAlters
    <2>4. NameOf(disk'[loc.cur]) = loc.name
      BY <2>3, InodeReads
    <2>5. loc.name = testfile
      BY <2>1, TestAssumption DEF NameStillNew
    <2> QED
      BY <2>3, <2>4, <2>5, NamedKept
  <1> QED
    BY <1>1, <1>2

LEMMA AllocNamed ==
  ASSUME TypeOK, CallOK, OwnersInv, AllNamed, AllocWalk \/ AllocSuper \/ AllocLast
  PROVE  AllNamed'
  <1>1. CASE AllocWalk
    BY <1>1, NamedStays DEF AllocWalk
  <1>2. CASE AllocSuper \/ AllocLast
    <2>1. pc \in Allocating
      BY <1>2, AllocLeads
    <2>2. HasFS
      BY <2>1 DEF OwnersInv, MakingOK, HasFS, Allocating
    <2>3. PICK o \in [Indices -> Int], r \in [Indices -> Int], h \in Nat : Owned(o, r, h)
      BY <2>2 DEF OwnersInv
    <2>4. Alters(o, Held)
      BY <1>2, <2>3, AllocAlters
    <2> QED
      BY <2>4, HeldNowhere, NamedKept
  <1> QED
    BY <1>1, <1>2

LEMMA WriteNamed ==
  ASSUME Careful, TypeOK, TypeOK', CallOK, OwnersInv, StoreInv, FilesOnce, AllNamed,
         Truncs \/ WriteAlloc \/ WriteInode \/ WriteData \/ WriteDataFails
  PROVE  AllNamed'
  <1>1. pc \in Writing /\ pc # "deleteSuper"
    <2>1. Truncs \/ WriteAlloc => pc \in Writing
      BY TruncLeads, WriteAllocLeads DEF Writing
    <2>2. WriteInode \/ WriteData \/ WriteDataFails => pc \in Writing
      BY DataLeads DEF Writing
    <2> QED
      BY <2>1, <2>2 DEF Writing
  <1> PICK x : x = fte.inodeIdx
    OBVIOUS
  <1>2. LL # <<>> /\ Readable(x) /\ x \in OpenInodes /\ HasFS
    BY <1>1, WorkOwners DEF Working
  <1>3. x \in Inodes
    BY <1>2 DEF FilesOnce, StoredFiles
  <1>4. CASE TruncBlockFails \/ WriteAlloc \/ WriteDataFails
    BY <1>4, NamedStays DEF TruncBlockFails, WriteAlloc, WriteDataFails
  <1>5. PICK o \in [Indices -> Int], r \in [Indices -> Int], h \in Nat : Owned(o, r, h)
    BY <1>2 DEF OwnersInv
  <1>6. CASE TruncBlock \/ TruncLast \/ TruncSuper
    BY <1>5, <1>6, TruncAlters, HeldNowhere, NamedKept
  <1>7. CASE WriteInode
    <2>1. NameOf(disk'[x]) = NameOf(disk[x])
      BY <1>7, InodeTorn
    <2>2. Alters(o, x)
      BY <1>1, <1>2, <1>5, <1>7, HeadAlters DEF WriteInode
    <2> QED
      BY <1>3, <2>1, <2>2, NamedKept DEF AllNamed
  <1>8. CASE WriteData
    <2>1. Alters(o, x) /\ disk'[x] = disk[x]
      BY <1>5, <1>8, DataAlters
    <2> QED
      BY <1>3, <2>1, NamedKept DEF AllNamed
  <1> QED
    BY <1>4, <1>6, <1>7, <1>8 DEF Truncs

LEMMA NamedNext ==
  ASSUME Careful, TypeOK', ImageInv, AllNamed, pc \notin Deletes, [Next]_vars
  PROVE  AllNamed'
  <1> USE DEF ImageInv
  <1>1. FilesMounted /\ NameStillNew
    BY DEF StoreInv
  <1>2. CASE Client \/ CreateInode
    BY <1>1, <1>2, ClientNamed, CreateNamed
  <1>3. CASE AllocWalk \/ AllocSuper \/ AllocLast
    BY <1>3, AllocNamed
  <1>4. CASE Truncs \/ WriteAlloc \/ WriteInode \/ WriteData \/ WriteDataFails
    BY <1>4, WriteNamed
  <1>5. ~DeleteBlock /\ ~DeleteLast /\ ~DeleteSuper /\ ~DeleteBlockFails
    BY DEF DeleteBlock, DeleteLast, DeleteSuper, DeleteBlockFails, Deletes
  <1>6. CASE Lookup \/ ReadWalk \/ ReadWalkFails \/ Crash \/ UNCHANGED vars
    BY <1>6, NamedStays DEF Lookup, ReadWalk, ReadWalkFails, Crash, Die, vars, storage
  <1>7. CASE Mounts
    <2>1. CASE HasFS
      BY <1>7, <2>1, MountsRead, NamedStays
    <2>2. CASE ~HasFS
      BY <1>1, <1>7, <2>2, MountsNoFile DEF FilesMounted, AllNamed
    <2> QED
      BY <2>1, <2>2
  <1> QED
    BY <1>2, <1>3, <1>4, <1>5, <1>6, <1>7, StepKinds

LEMMA OneInode ==
  ASSUME FilesOnce, AllNamed
  PROVE  Inodes = TestFiles /\ \A j, k \in Inodes : j = k
  <1>1. testfile # EmptyName
    BY TestAssumption, ClientAssumption
  <1>2. Inodes \subseteq StoredFiles
    BY <1>1 DEF AllNamed, StoredFiles
  <1> QED
    BY <1>2 DEF AllNamed, FilesOnce, TestFiles

-----------------------------------------------------------------------------
(* Room for every run *)

(* The blocks of the string. *)
Longest == BlocksFor(Length[testString1])

(* The disk has room for the superblock, the inode and the string, and for *)
(* what each kill may cost.                                                *)
RoomForKills == NBlocks >= 2 + Longest * (MaxKills + 1)

LEMMA LongestIs ==
  /\ Longest \in Nat \ {0} /\ MaxKills \in Nat /\ NBlocks \in Nat
  /\ \A b \in Buffers : BlocksFor(Length[b]) = Longest
  <1>1. Length[testString1] \in Nat /\ Length[testString1] > 0
    BY TestAssumption
  <1>2. Longest \in Nat \ {0}
    BY <1>1, BlocksForPositive DEF Longest
  <1>3. MaxKills \in Nat /\ NBlocks \in Nat /\ Buffers = {testString1}
    BY TestAssumption, SizesAssumption
  <1> QED
    BY <1>2, <1>3 DEF Longest

(* What k kills cost, and what is left. *)
LEMMA Costs ==
  ASSUME NEW k \in 0..MaxKills, RoomForKills
  PROVE  /\ k * Longest \in Nat
         /\ NBlocks - 1 - k * Longest >= 1 + Longest
         /\ (k + 1) * Longest = k * Longest + Longest
  <1>1. Longest \in Nat /\ MaxKills \in Nat /\ NBlocks \in Nat /\ k \in Nat
    BY LongestIs
  <1> DEFINE d == MaxKills - k
  <1>2. d \in Nat
    BY <1>1
  <1>3. d * Longest \in Nat /\ k * Longest \in Nat
    BY <1>1, <1>2
  <1>4. Longest * (MaxKills + 1) = k * Longest + d * Longest + Longest
    BY <1>1
  <1>5. (k + 1) * Longest = k * Longest + Longest
    BY <1>1
  <1> HIDE DEF d
  <1> QED
    BY <1>1, <1>3, <1>4, <1>5 DEF RoomForKills

(* Blocks that are neither free nor in S there are none. *)
LEMMA RoomLeft ==
  ASSUME TypeOK, HasFS,
         NEW o \in [Indices -> Int], NEW r \in [Indices -> Int], NEW h \in Nat, Owned(o, r, h),
         NEW S, IsFiniteSet(S), \A j \in OnDisk : o[j] = Free \/ j \in S
  PROVE  /\ FreeCount(disk[0]) \in Nat /\ Cardinality(S) \in Nat /\ size \in Nat
         /\ FreeCount(disk[0]) + Cardinality(S) >= size - 1
  <1> DEFINE B == OnDisk \ FreeChain
  <1>1. /\ \A j : j \in FreeChain <=> j \in OnDisk /\ o[j] = Free
        /\ Cardinality(FreeChain) = FreeCount(disk[0])
    BY FreeListOwned, OnDiskFacts DEF Owned
  <1>2. FreeCount(disk[0]) \in Nat
    BY FreeHead
  <1>3. Cardinality(S) \in Nat /\ Cardinality(B) \in Nat /\ Cardinality(B) <= Cardinality(S)
    <2>1. B \subseteq S
      BY <1>1
    <2> HIDE DEF B
    <2> QED
      BY <2>1, FS_Subset, FS_CardinalityType
  <1>4. /\ IsFiniteSet(OnDisk) /\ Cardinality(OnDisk) = size - 1
        /\ Cardinality(OnDisk) \in Nat /\ size \in Nat
    <2>1. size >= 1 /\ size \in Int
      BY OnDiskFacts DEF HasFS, HasSuperblock
    <2>2. IsFiniteSet(1..(size - 1)) /\ Cardinality(1..(size - 1)) = size - 1
      BY <2>1, FS_Interval
    <2> QED
      BY <2>1, <2>2, FS_CardinalityType DEF OnDisk
  <1>5. Cardinality(B) = Cardinality(OnDisk) - Cardinality(FreeChain)
    <2>1. OnDisk \cap FreeChain = FreeChain
      BY <1>1
    <2> QED
      BY <1>4, <2>1, FS_Difference
  <1> HIDE DEF B
  <1> QED
    BY <1>1, <1>2, <1>3, <1>4, <1>5

(* No more blocks are lost than the kills may have cost. *)
FewLost(L) ==
  L \in SUBSET Indices /\ Cardinality(L) \in Nat /\ Cardinality(L) <= kills * Longest

LEMMA NotAll ==
  ASSUME TestTypeOK, RoomForKills, NEW L, FewLost(L)
  PROVE  L # Indices /\ IsFiniteSet(L)
  <1>1. IsFiniteSet(Indices) /\ Cardinality(Indices) = NBlocks
    BY LongestIs, FS_Interval DEF Indices
  <1>2. kills \in 0..MaxKills
    BY DEF TestTypeOK
  <1>3. kills * Longest \in Nat /\ kills * Longest < NBlocks
    BY <1>2, Costs, LongestIs
  <1>4. IsFiniteSet(L)
    BY <1>1, FS_Subset DEF FewLost
  <1> QED
    BY <1>1, <1>3, <1>4, LongestIs DEF FewLost

LEMMA SparedRoom ==
  ASSUME TestTypeOK, RoomForKills, HasFS, size = NBlocks, NEW L, FewLost(L),
         NEW o \in [Indices -> Int], NEW r \in [Indices -> Int], NEW h \in Nat, Owned(o, r, h),
         NEW X, IsFiniteSet(X), Cardinality(X) \in {0, 1},
         \A j \in OnDisk \ (L \cup X) : o[j] = Free
  PROVE  FreeCount(disk[0]) \in Nat /\ FreeCount(disk[0]) >= 1 + Longest - Cardinality(X)
  <1>1. IsFiniteSet(L \cup X) /\ Cardinality(L \cup X) <= Cardinality(L) + Cardinality(X)
    <2>1. IsFiniteSet(L)
      BY NotAll
    <2>2. IsFiniteSet(L \cup X) /\ IsFiniteSet(L \cap X)
      BY <2>1, FS_Union, FS_Intersection
    <2>3. Cardinality(L \cap X) \in Nat /\ Cardinality(L \cup X) \in Nat
      BY <2>2, FS_CardinalityType
    <2>4. Cardinality(L \cup X) = Cardinality(L) + Cardinality(X) - Cardinality(L \cap X)
      BY <2>1, FS_Union
    <2> QED
      BY <2>2, <2>3, <2>4 DEF FewLost
  <1>2. /\ FreeCount(disk[0]) \in Nat /\ Cardinality(L \cup X) \in Nat
        /\ FreeCount(disk[0]) + Cardinality(L \cup X) >= size - 1
    BY <1>1, RoomLeft DEF TestTypeOK
  <1>3. kills * Longest \in Nat /\ NBlocks - 1 - kills * Longest >= 1 + Longest
    BY Costs DEF TestTypeOK
  <1>4. Cardinality(L) \in Nat /\ Cardinality(L) <= kills * Longest /\ Cardinality(X) \in Nat
    BY DEF FewLost
  <1> QED
    BY <1>1, <1>2, <1>3, <1>4, LongestIs

(* A whole image, open only when it is a file system, and few blocks lost. *)
Spared ==
  /\ size = -1 \/ pc = "create" \/ size = NBlocks
  /\ diskFd = Mounted => HasSuperblock
  /\ \E L \in SUBSET Indices : FewLost(L) /\ OwnersBut(L)

LEMMA SparedSize ==
  ASSUME TypeOK, OwnersInv, HasFS, Spared
  PROVE  size = NBlocks
  BY DEF HasFS, HasSuperblock, OwnersInv, MakingOK, Spared

LEMMA LookupRoom ==
  ASSUME TestTypeOK, OwnersInv, RoomForKills, Spared, HasFS, Inodes = {}, pc = "lookup"
  PROVE  FreeCount(disk[0]) \in Nat /\ FreeCount(disk[0]) >= 2
  <1>1. PICK L \in SUBSET Indices : FewLost(L) /\ OwnersBut(L)
    BY DEF Spared
  <1>2. L # Indices
    BY <1>1, NotAll
  <1>3. PICK o \in [Indices -> Int], r \in [Indices -> Int], h \in Nat :
          Owned(o, r, h) /\ Placed(o, r, h, L)
    BY <1>1, PlaceParts DEF HasPlaces
  <1>4. \A j \in OnDisk : o[j] # Held
    BY <1>3 DEF Owned, HeldOwned, Holding
  <1>5. \A j \in OnDisk \ (L \cup {}) : o[j] = Free
    BY <1>2, <1>3, <1>4 DEF Placed, InUse
  <1>6. IsFiniteSet({}) /\ Cardinality({}) = 0
    BY FS_EmptySet
  <1>7. size = NBlocks
    BY SparedSize DEF TestTypeOK
  <1> QED
    BY <1>1, <1>3, <1>5, <1>6, <1>7, SparedRoom, LongestIs

LEMMA WriteRoom ==
  ASSUME TestTypeOK, ImageInv, AllNamed, RoomForKills, Spared, NEW L, FewLost(L), OwnersBut(L)
  PROVE  RoomToWrite(L)
  <1> SUFFICES ASSUME pc = "writeAlloc"
               PROVE  FreeCount(disk[0]) >= BlocksFor(Length[loc.buf])
    BY DEF RoomToWrite
  <1> PICK x : x = fte.inodeIdx
    OBVIOUS
  <1>1. /\ HasFS /\ x \in OnDisk /\ x \in OpenInodes
        /\ \E o, r \in [Indices -> Int], h \in Nat : Owned(o, r, h) /\ Placed(o, r, h, L)
    BY WorkPlaced DEF Working, Writing, ImageInv
  <1>2. PICK o \in [Indices -> Int], r \in [Indices -> Int], h \in Nat :
          Owned(o, r, h) /\ Placed(o, r, h, L)
    BY <1>1
  <1>3. L # Indices /\ size = NBlocks
    BY <1>1, NotAll, SparedSize DEF TestTypeOK, ImageInv
  <1>4. x \in Inodes /\ \A j \in Inodes : j = x
    BY <1>1, OneInode DEF FilesOnce, StoredFiles, ImageInv
  <1>5. \A j \in OnDisk : o[j] # Held
    BY <1>2 DEF Owned, HeldOwned, Holding
  <1>6. o[x] = x /\ r[x] = 1
    BY <1>2, <1>4 DEF Owned, FilesOwned, Storing, Bare
  <1>7. ASSUME NEW j \in OnDisk, o[j] = x
        PROVE  j = x
    <2>1. x \notin {Nobody, Held} /\ x \in Indices /\ j \in Indices
      <3>1. TypeOK
        BY DEF TestTypeOK
      <3>2. OnDisk \subseteq Indices /\ OnDisk \subseteq Nat
        BY <3>1, OnDiskFacts
      <3> QED
        BY <1>1, <3>2 DEF Nobody, Held
    <2>2. r[j] >= 1 /\ r[j] <= r[x] /\ r[j] \in Int
      BY <1>1, <1>2, <1>7, <2>1 DEF Owned, Linked, FilesOwned
    <2> QED
      BY <1>1, <1>2, <1>6, <1>7, <2>1, <2>2 DEF Owned, Apart
  <1>8. \A j \in OnDisk \ (L \cup {x}) : o[j] = Free
    BY <1>2, <1>3, <1>4, <1>5, <1>7 DEF Placed, InUse
  <1>9. IsFiniteSet({x}) /\ Cardinality({x}) = 1
    BY FS_Singleton
  <1>10. FreeCount(disk[0]) \in Nat /\ FreeCount(disk[0]) >= 1 + Longest - 1
    BY <1>1, <1>2, <1>3, <1>8, <1>9, SparedRoom
  <1>11. loc.buf \in Buffers
    BY DEF CallOK, Writing, ImageInv
  <1> QED
    BY <1>10, <1>11, LongestIs

(* The size of the image changes only while it is made. *)
LEMMA SizeMoves ==
  ASSUME Careful, TypeOK, CallOK, pc \notin Deletes, [Next]_vars
  PROVE  size' = size \/ MountOpens \/ CreateBlock
  <1>1. CASE Client
    <2>1. ImageMoves /\ NewNames = {}
      BY <1>1, ClientDoes, TestAssumption
    <2> QED
      BY <2>1 DEF ImageMoves, storage, WriteFile, WriteBlock
  <1>2. CASE Mounts \/ Lookup \/ CreateInode
    BY <1>2 DEF Mounts, Validate, FormatSuper, FormatBlock, FormatEnd, Lookup, CreateInode,
                WriteBlock, storage
  <1>3. CASE AllocWalk \/ AllocSuper \/ AllocLast \/ Truncs \/ WriteAlloc
    BY <1>3 DEF AllocWalk, AllocSuper, AllocLast, Truncs, TruncBlock, TruncBlockFails,
                TruncLast, TruncSuper, FreeOne, FreeLast, FreeSuper, WriteAlloc, WriteBlock,
                storage
  <1>4. CASE WriteInode \/ WriteData \/ WriteDataFails \/ ReadWalk \/ ReadWalkFails
    BY <1>4 DEF WriteInode, WriteData, WriteDataFails, ReadWalk, ReadWalkFails, WriteBlock,
                storage
  <1>5. ~DeleteBlock /\ ~DeleteLast /\ ~DeleteSuper /\ ~DeleteBlockFails
    BY DEF DeleteBlock, DeleteLast, DeleteSuper, DeleteBlockFails, Deletes
  <1>6. CASE Crash \/ UNCHANGED vars
    BY <1>6 DEF Crash, Die, vars, storage
  <1> QED
    BY <1>1, <1>2, <1>3, <1>4, <1>5, <1>6, StepKinds

(* The image is opened by a mount. *)
LEMMA OpensImage ==
  ASSUME Careful, TypeOK, CallOK, pc \notin Deletes, [Next]_vars, diskFd # Mounted,
         diskFd' = Mounted
  PROVE  Mounts /\ pc' = "lookup"
  <1>1. diskFd' # diskFd /\ diskFd' # NotMounted
    BY DEF NotMounted, Mounted
  <1>2. ~Client
    BY <1>1, ClientFd
  <1>3. ~Lookup
    BY <1>1, LookupLeads DEF Opened, session
  <1>4. ~CreateInode /\ ~ReadWalkFails /\ ~Crash /\ ~UNCHANGED vars
    BY <1>1 DEF CreateInode, Opened, ReadWalkFails, Crash, Die, session, vars
  <1>5. ~AllocWalk /\ ~AllocSuper /\ ~AllocLast /\ ~Truncs /\ ~WriteAlloc
    BY <1>1, AllocLeads, TruncLeads, WriteAllocLeads DEF session
  <1>6. ~WriteInode /\ ~WriteData /\ ~WriteDataFails /\ ~ReadWalk
    BY <1>1, DataLeads, ReadLeads DEF session
  <1>7. ~DeleteBlock /\ ~DeleteLast /\ ~DeleteSuper /\ ~DeleteBlockFails
    BY DEF DeleteBlock, DeleteLast, DeleteSuper, DeleteBlockFails, Deletes
  <1>8. Mounts
    BY <1>2, <1>3, <1>4, <1>5, <1>6, <1>7, StepKinds
  <1> QED
    BY <1>1, <1>8, MountLeads DEF session

(* A kill costs what the call held, and no call holds more than a string.  *)
LEMMA KillSpared ==
  ASSUME TestTypeOK, TestTypeOK', ImageInv, RoomForKills, Careful, pc \notin Deletes,
         Spared, Killed, pc \notin Making
  PROVE  Spared'
  <1>1. /\ Die /\ UNCHANGED storage /\ diskFd' = NotMounted /\ kills' = kills + 1
        /\ kills < MaxKills
    BY DEF Killed, Crash, Die
  <1>2. size' = -1 \/ size' = NBlocks
    BY <1>1 DEF Spared, Making, storage
  <1>3. diskFd' # Mounted
    BY <1>1 DEF NotMounted, Mounted
  <1>4. PICK L \in SUBSET Indices : FewLost(L) /\ OwnersBut(L)
    BY DEF Spared
  <1>5. L # Indices /\ IsFiniteSet(L)
    BY <1>4, NotAll
  <1>6. TypeOK /\ CallOK /\ OwnersInv
    BY DEF ImageInv
  <1>7. fte.inodeIdx \in Inodes \/ pc \notin Writing
    <2>1. pc \in Writing => fte.inodeIdx \in OpenInodes
      BY <1>6, WorkOwners DEF Working
    <2> QED
      BY <2>1 DEF ImageInv, FilesOnce, StoredFiles
  <1>8. PICK H \in SUBSET OnDisk :
          Cardinality(H) \in Nat /\ Cardinality(H) <= Longest /\ OwnersBut(L \cup H)'
    <2>1. pc \notin {"formatBlock", "deleteBlock", "deleteLast", "deleteSuper"}
      BY DEF Making, Deletes
    <2>2. Longest \in Nat \ {0} /\ \A b \in Buffers : BlocksFor(Length[b]) <= Longest
      BY LongestIs
    <2> QED
      BY <1>1, <1>4, <1>5, <1>6, <1>7, <2>1, <2>2, KillOwners
  <1>9. L \cup H \in SUBSET Indices /\ IsFiniteSet(H)
    <2>1. OnDisk \subseteq Indices /\ IsFiniteSet(Indices)
      BY <1>6, OnDiskFacts, LongestIs, FS_Interval DEF Indices
    <2> QED
      BY <2>1, FS_Subset
  <1>10. FewLost(L \cup H)'
    <2>1. Cardinality(L \cup H) = Cardinality(L) + Cardinality(H) - Cardinality(L \cap H)
      BY <1>5, <1>9, FS_Union
    <2>2. Cardinality(L \cap H) \in Nat /\ Cardinality(L \cup H) \in Nat
      BY <1>5, <1>9, FS_Union, FS_Intersection, FS_CardinalityType
    <2>3. kills \in 0..MaxKills /\ Cardinality(L) \in Nat /\ Cardinality(L) <= kills * Longest
      BY <1>4 DEF FewLost, TestTypeOK
    <2>4. kills * Longest \in Nat /\ kills' * Longest = kills * Longest + Longest
      BY <1>1, <2>3, Costs
    <2>5. Longest \in Nat
      BY LongestIs
    <2>6. Cardinality(L \cup H) <= kills' * Longest
      BY <1>8, <2>1, <2>2, <2>3, <2>4, <2>5
    <2> QED
      BY <1>9, <2>2, <2>6 DEF FewLost, Indices
  <1> QED
    BY <1>2, <1>3, <1>8, <1>9, <1>10 DEF Spared

(* What a step of the program is to the library, but for a kill. *)
Drives ==
  \/ Client
  \/ Step /\ spoilt' = (spoilt \/ MountSpoils)
  \/ UNCHANGED vars
  \/ Die /\ pc = "idle"

LEMMA TestDrives ==
  ASSUME TestTypeOK, TestAt, [TestNext]_allVars, ~Killed
  PROVE  Drives /\ kills' = kills
  <1>1. StartTests \/ CallReturned \/ ByteRead \/ ReadEnds \/ Report => Drives /\ kills' = kills
    BY DEF StartTests, CallReturned, Counts, ByteRead, ReadEnds, Report, Drives
  <1>2. MakeCall => Drives /\ kills' = kills
    BY MakesCalls DEF MakeCall, Drives, TestAt, TestTypeOK
  <1>3. LibraryRuns => Drives /\ kills' = kills
    BY DEF LibraryRuns, Drives
  <1>4. ReportLast \/ Aborts => Drives /\ kills' = kills
    BY LastIsIdle DEF ReportLast, Aborts, ListMissing, FirstCallHits, IndexHit, Drives
  <1>5. UNCHANGED allVars => Drives /\ kills' = kills
    BY DEF allVars, tvars, Drives
  <1> QED
    BY <1>1, <1>2, <1>3, <1>4, <1>5 DEF TestNext, Main

LEMMA SizeSpared ==
  ASSUME Careful, TypeOK, CallOK, pc \notin Deletes, [Next]_vars, Drives, Spared
  PROVE  size' = -1 \/ pc' = "create" \/ size' = NBlocks
  <1>1. CASE MountOpens \/ CreateBlock
    <2>1. MountOpens => size' = size \/ pc' = "create"
      BY DEF MountOpens, Goto
    <2>2. MountOpens => pc # "create"
      BY DEF MountOpens
    <2>3. CreateBlock => /\ size \in 0..(NBlocks - 1)
                         /\ pc' = "create" \/ ~(size + 1 < NBlocks)
      <3>1. CreateBlock => pc = "create" /\ (pc' = "create" \/ ~(size + 1 < NBlocks))
        BY DEF CreateBlock, Goto
      <3> QED
        BY <3>1 DEF CallOK
    <2>4. CreateBlock => size' = size + 1
      BY DEF CreateBlock
    <2>5. NBlocks \in Nat
      BY LongestIs
    <2> QED
      BY <1>1, <2>1, <2>2, <2>3, <2>4, <2>5 DEF Spared
  <1>2. CASE size' = size /\ ~CreateBlock
    <2>1. pc = "create" => pc' = pc
      <3> SUFFICES ASSUME pc = "create" PROVE pc' = pc
        OBVIOUS
      <3>1. ~Client
        BY ClientIdle
      <3>2. ~Step
        <4>1. ~MountFails
          BY DEF MountFails, Careful
        <4> QED
          BY <1>2, <4>1
             DEF Step, MountOpens, Validate, FormatSuper, FormatBlock,
                 FormatEnd, Lookup, CreateInode, AllocWalk, AllocSuper, AllocLast, TruncBlock,
                 TruncBlockFails, TruncLast, TruncSuper, WriteAlloc, WriteInode, WriteData,
                 WriteDataFails, DeleteBlock, DeleteBlockFails, DeleteLast, DeleteSuper,
                 ReadWalk, ReadWalkFails
      <3> QED
        BY <3>1, <3>2 DEF Drives, vars
    <2> QED
      BY <1>2, <2>1 DEF Spared
  <1> QED
    BY <1>1, <1>2, SizeMoves

LEMMA OpenSpared ==
  ASSUME Careful, TypeOK, CallOK, OwnersInv, pc \notin Deletes, [Next]_vars, Spared,
         diskFd' = Mounted
  PROVE  HasSuperblock'
  <1>1. HasSuperblock => HasSuperblock'
    BY SuperblockStays
  <1>2. CASE diskFd = Mounted
    BY <1>1, <1>2 DEF Spared
  <1>3. CASE diskFd # Mounted
    <2>1. Mounts /\ pc' = "lookup"
      BY <1>3, OpensImage
    <2>2. CASE Validate
      <3>1. size = 0 \/ HasSuperblock
        BY <2>1, <2>2 DEF Validate, Goto
      <3>2. pc = "validate" /\ size >= 0 /\ NBlocks \in Nat /\ NBlocks >= 2
        BY <2>2, SizesAssumption DEF Validate, OwnersInv, MakingOK
      <3> QED
        BY <1>1, <3>1, <3>2 DEF Spared
    <2>3. CASE FormatBlock \/ FormatEnd
      <3>1. HasSuperblock
        BY <2>3 DEF FormatBlock, FormatEnd, OwnersInv, MakingOK
      <3> QED
        BY <1>1, <3>1
    <2>4. ~MountOpens /\ ~CreateBlock /\ ~FormatSuper
      BY <2>1 DEF MountOpens, CreateBlock, FormatSuper, Goto
    <2> QED
      BY <2>1, <2>2, <2>3, <2>4 DEF Mounts
  <1> QED
    BY <1>2, <1>3

LEMMA DrivesOwners ==
  ASSUME Careful, TestTypeOK, ImageInv, AllNamed, RoomForKills, Spared, Drives,
         NEW L, FewLost(L), OwnersBut(L)
  PROVE  OwnersBut(L)'
  <1>1. TypeOK /\ CallOK
    BY DEF ImageInv
  <1>2. CASE Client
    BY <1>1, <1>2, ClientOwners
  <1>3. CASE Step
    BY <1>1, <1>3, WriteRoom, StepsOwners
  <1>4. CASE UNCHANGED vars
    BY <1>4, StayOwners
  <1>5. CASE Die /\ pc = "idle"
    BY <1>1, <1>5, DieOwners DEF Settled, Holding
  <1> QED
    BY <1>2, <1>3, <1>4, <1>5 DEF Drives

LEMMA SparedNext ==
  ASSUME Careful, RoomForKills, TestTypeOK, TestTypeOK', TestAt, ImageInv, AllNamed,
         pc \notin Deletes, Spared, [TestNext]_allVars, ~spoilt'
  PROVE  Spared'
  <1>1. CASE Killed
    <2>1. pc \notin Making
      BY <1>1 DEF Killed
    <2> QED
      BY <1>1, <2>1, KillSpared
  <1>2. CASE ~Killed
    <2>1. Drives /\ kills' = kills /\ [Next]_vars
      BY <1>2, TestDrives, TestSteps
    <2>2. TypeOK /\ CallOK /\ OwnersInv
      BY DEF ImageInv
    <2>3. size' = -1 \/ pc' = "create" \/ size' = NBlocks
      BY <2>1, <2>2, SizeSpared
    <2>4. diskFd' = Mounted => HasSuperblock'
      BY <2>1, <2>2, OpenSpared
    <2>5. PICK L \in SUBSET Indices : FewLost(L) /\ OwnersBut(L)
      BY DEF Spared
    <2>6. OwnersBut(L)'
      BY <2>1, <2>5, DrivesOwners
    <2>7. FewLost(L)'
      BY <2>1, <2>5 DEF FewLost
    <2> QED
      BY <2>3, <2>4, <2>5, <2>6, <2>7 DEF Spared
  <1> QED
    BY <1>1, <1>2

-----------------------------------------------------------------------------
(* What the program has open *)

(* A test closes the file at its end and nowhere else; what it reads it    *)
(* has just opened, written, or moved to the end of.                       *)
Orderly(T) ==
  /\ \A k \in 1..Len(T) : T[k] = "close" <=> k = Len(T)
  /\ \A k \in 1..Len(T) :
       T[k] \in {"open", "write", "read", "seekPast", "seekInto", "getTimeStamp", "close"}
  /\ \A k \in 1..Len(T) :
       T[k] = "read" =>
         /\ k >= 2 /\ T[k - 1] \in {"open", "write", "seekPast"}
         /\ (\E m \in 1..k : T[m] = "seekPast") <=> T[k - 1] = "seekPast"

LEMMA TestsOrder ==
  /\ \A t \in 1..6 : Orderly(Tests[t])
  /\ Tests[1][2] = "write"
  <1>1. Orderly(Test1) /\ Orderly(Test3) /\ Orderly(Test5) /\ Test1[2] = "write"
    <2>1. /\ Len(Test1) = 3 /\ Test1[1] = "open" /\ Test1[2] = "write" /\ Test1[3] = "close"
          /\ Len(Test3) = 3 /\ Test3[1] = "open" /\ Test3[2] = "read" /\ Test3[3] = "close"
          /\ Len(Test5) = 3 /\ Test5[1] = "open" /\ Test5[2] = "getTimeStamp"
          /\ Test5[3] = "close"
      BY DEF Test1, Test3, Test5
    <2>2. \A k \in 1..3 : k = 1 \/ k = 2 \/ k = 3
      OBVIOUS
    <2>3. \A m \in 1..2 : m = 1 \/ m = 2
      OBVIOUS
    <2>4. Orderly(Test1)
      BY <2>1, <2>2 DEF Orderly
    <2>5. Orderly(Test3)
      <3>1. \A k \in 1..3 : Test3[k] = "read" => k = 2
        BY <2>1, <2>2
      <3>2. ~\E m \in 1..2 : Test3[m] = "seekPast"
        BY <2>1, <2>3
      <3> QED
        BY <2>1, <2>2, <3>1, <3>2 DEF Orderly
    <2>6. Orderly(Test5)
      BY <2>1, <2>2 DEF Orderly
    <2> QED
      BY <2>1, <2>4, <2>5, <2>6
  <1>2. Orderly(Test2) /\ Orderly(Test4)
    <2>1. /\ Len(Test2) = 4 /\ Test2[1] = "open" /\ Test2[2] = "write" /\ Test2[3] = "read"
          /\ Test2[4] = "close"
          /\ Len(Test4) = 4 /\ Test4[1] = "open" /\ Test4[2] = "seekPast" /\ Test4[3] = "read"
          /\ Test4[4] = "close"
      BY DEF Test2, Test4
    <2>2. \A k \in 1..4 : k = 1 \/ k = 2 \/ k = 3 \/ k = 4
      OBVIOUS
    <2>3. \A m \in 1..3 : m = 1 \/ m = 2 \/ m = 3
      OBVIOUS
    <2>4. Orderly(Test2)
      <3>1. \A k \in 1..4 : Test2[k] = "read" => k = 3
        BY <2>1, <2>2
      <3>2. ~\E m \in 1..3 : Test2[m] = "seekPast"
        BY <2>1, <2>3
      <3> QED
        BY <2>1, <2>2, <3>1, <3>2 DEF Orderly
    <2>5. Orderly(Test4)
      <3>1. \A k \in 1..4 : Test4[k] = "read" => k = 3
        BY <2>1, <2>2
      <3>2. \E m \in 1..3 : Test4[m] = "seekPast"
        BY <2>1
      <3> QED
        BY <2>1, <2>2, <3>1, <3>2 DEF Orderly
    <2> QED
      BY <2>4, <2>5
  <1>3. Orderly(Test6)
    <2>1. /\ Len(Test6) = 5 /\ Test6[1] = "open" /\ Test6[2] = "seekInto"
          /\ Test6[3] = "write" /\ Test6[4] = "read" /\ Test6[5] = "close"
      BY DEF Test6
    <2>2. \A k \in 1..5 : k = 1 \/ k = 2 \/ k = 3 \/ k = 4 \/ k = 5
      OBVIOUS
    <2>3. \A m \in 1..4 : m = 1 \/ m = 2 \/ m = 3 \/ m = 4
      OBVIOUS
    <2>4. \A k \in 1..5 : Test6[k] = "read" => k = 4
      BY <2>1, <2>2
    <2>5. ~\E m \in 1..4 : Test6[m] = "seekPast"
      BY <2>1, <2>3
    <2> QED
      BY <2>1, <2>2, <2>4, <2>5 DEF Orderly
  <1> QED
    BY <1>1, <1>2, <1>3, TestsAre

(* Whether the file is open: from the end of the call that opens it to the *)
(* one that closes it.                                                     *)
HasFile ==
  /\ Running
  /\ IF Op = "open" THEN waiting /\ pc = "idle" ELSE ~(Op = "close" /\ waiting)

(* It is the only one, and calls work on it.                               *)
FileHeld ==
  /\ Len(LL) = 1 /\ diskFd = Mounted /\ fte.inodeIdx \in Inodes
  /\ IF at = 1 THEN ret.code >= 1 ELSE fd >= 1
  /\ \/ pc = "idle"
     \/ Op = "read" /\ pc = "readWalk"
     \/ Op = "write" /\ pc \in Writing \cup Allocating /\ loc.then = "tfs_writeFile"

(* None is; what runs is tfs_openFile.                                     *)
NoneHeld ==
  /\ LL = <<>>
  /\ pc \in {"idle"} \cup Mounting => diskFd = NotMounted
  /\ pc # "idle" =>
       /\ Running /\ Op = "open"
       /\ pc \in Mounting \cup Allocating \cup {"lookup", "createInode"}
       /\ loc.then \in {"tfs_openFile", "createFile"} /\ loc.name = testfile

Table == IF HasFile THEN FileHeld ELSE NoneHeld

(* Where the program is, in words of the tests. *)
LEMMA AtCall ==
  ASSUME TestTypeOK, TestAt, Running
  PROVE  /\ test \in 1..6 /\ at \in 1..Len(Tests[test]) /\ Op = Tests[test][at]
         /\ Len(Tests[test]) \in 3..5
         /\ Op = "open" <=> at = 1
         /\ Op = "close" <=> at = Len(Tests[test])
         /\ Op \in {"open", "write", "read", "seekPast", "seekInto", "getTimeStamp", "close"}
  <1>1. test \in 1..6
    BY TestsAre DEF Running, TestTypeOK
  <1>2. Len(Tests[test]) \in 3..5
    BY <1>1, TestsShape
  <1>3. at \in 1..Len(Tests[test]) /\ Op = Tests[test][at]
    BY <1>1, <1>2 DEF Running, TestAt, Op
  <1>4. Op = "open" <=> at = 1
    <2>1. at # 1 => at \in 2..Len(Tests[test])
      BY <1>2, <1>3
    <2> QED
      BY <1>1, <1>3, <2>1, TestsShape
  <1>5. /\ Op = "close" <=> at = Len(Tests[test])
        /\ Op \in {"open", "write", "read", "seekPast", "seekInto", "getTimeStamp", "close"}
    BY <1>1, <1>3, TestsOrder DEF Orderly
  <1> QED
    BY <1>1, <1>2, <1>3, <1>4, <1>5

(* A step of the library that leaves the file where it is. *)
LEMMA HeldStays ==
  ASSUME TypeOK, TypeOK', FilesOnce', Len(LL) = 1, fte.inodeIdx \in Inodes,
         LL' = LL \/ (\E x \in Nat : SetOffset(x)), size' = size
  PROVE  Len(LL') = 1 /\ fte'.inodeIdx \in Inodes' /\ fte'.inodeIdx = fte.inodeIdx
  <1>1. LL \in Seq(FTE) /\ DOMAIN LL = 1..1 /\ LL[1] \in FTE
    <2>1. LL \in Seq(FTE)
      BY DEF TypeOK
    <2>2. DOMAIN LL = 1..1
      BY <2>1, LenProperties
    <2>3. 1 \in 1..Len(LL)
      OBVIOUS
    <2> QED
      BY <2>1, <2>2, <2>3, ElementOfSeq
  <1>2. LL' \in Seq(FTE) /\ Len(LL') = 1 /\ LL'[1].inodeIdx = LL[1].inodeIdx
    <2>1. CASE LL' = LL
      BY <1>1, <2>1
    <2>2. CASE \E x \in Nat : SetOffset(x)
      <3>1. PICK x \in Nat : LL' = [LL EXCEPT ![1] = [LL[1] EXCEPT !.offset = x]]
        BY <2>2 DEF SetOffset
      <3>2. LL' \in Seq(FTE)
        BY DEF TypeOK
      <3>3. DOMAIN LL' = DOMAIN LL /\ LL'[1] = [LL[1] EXCEPT !.offset = x]
        BY <1>1, <3>1
      <3>4. Len(LL') \in Nat /\ DOMAIN LL' = 1..Len(LL')
        BY <3>2, LenProperties
      <3>5. Len(LL') = 1
        BY <1>1, <3>3, <3>4
      <3> QED
        BY <1>1, <3>2, <3>3, <3>5 DEF FTE
    <2> QED
      BY <2>1, <2>2
  <1>3. DOMAIN LL' = 1..1 /\ fte = LL[1] /\ fte' = LL'[1]
    BY <1>1, <1>2, LenProperties DEF fte
  <1>4. OnDisk' = OnDisk /\ Inodes \subseteq OnDisk
    BY DEF OnDisk, Inodes
  <1>5. fte'.inodeIdx \in OpenInodes'
    BY <1>2, <1>3, <1>4 DEF OpenInodes
  <1> QED
    BY <1>2, <1>3, <1>5 DEF FilesOnce, StoredFiles

(* The first entry of the list. *)
LEMMA FirstOpened ==
  ASSUME TypeOK, TypeOK', LL = <<>>, NEW x \in Int, Opened(x)
  PROVE  /\ Len(LL') = 1 /\ fte'.inodeIdx = x /\ fte'.offset = 0
         /\ ret'.code >= 1 /\ pc' = "idle" /\ diskFd' = diskFd
  <1> DEFINE e == [fd |-> currentFD, inodeIdx |-> x, offset |-> 0, fileName |-> loc.name]
  <1>1. LL' = Append(LL, e) /\ e.inodeIdx = x /\ e.offset = 0
    BY DEF Opened
  <1>2. currentFD \in Nat /\ currentFD >= 1 /\ loc.name \in AllNames
    BY SizesAssumption DEF TypeOK, Locals
  <1>3. e \in FTE
    BY <1>2 DEF FTE
  <1> HIDE DEF e
  <1>4. LL' = <<e>>
    BY <1>1, <1>3
  <1>5. Len(LL') = 1 /\ fte' = e
    BY <1>4 DEF fte
  <1> QED
    BY <1>1, <1>2, <1>5 DEF Opened, Return, ReturnByte

(* Which steps tfs_openFile is made of, and which tfs_writeFile. *)
LEMMA OpensBy ==
  ASSUME Careful, Step, pc \in Mounting \cup Allocating \cup {"lookup", "createInode"}
  PROVE  Mounts \/ Lookup \/ CreateInode \/ AllocWalk \/ AllocSuper \/ AllocLast
  <1>1. ~MountFails
    BY DEF MountFails, Careful
  <1> QED
    BY <1>1 DEF Mounting, Allocating, Mounts,
                Step, TruncBlock, TruncBlockFails, TruncLast, TruncSuper, WriteAlloc, WriteInode,
                WriteData, WriteDataFails, DeleteBlock, DeleteBlockFails, DeleteLast,
                DeleteSuper, ReadWalk, ReadWalkFails

LEMMA WritesBy ==
  ASSUME Step, pc \in Writing \cup Allocating
  PROVE  \/ AllocWalk \/ AllocSuper \/ AllocLast
         \/ Truncs \/ WriteAlloc \/ WriteInode \/ WriteData \/ WriteDataFails
  BY DEF Writing, Allocating, Truncs,
         Step, MountOpens, MountFails, CreateBlock, Validate, FormatSuper, FormatBlock,
         FormatEnd, Lookup, CreateInode, DeleteBlock, DeleteBlockFails, DeleteLast,
         DeleteSuper, ReadWalk, ReadWalkFails

LEMMA ReadsBy ==
  ASSUME Step, pc = "readWalk"
  PROVE  ReadWalk \/ ReadWalkFails
  BY DEF Step, MountOpens, MountFails, CreateBlock, Validate, FormatSuper, FormatBlock,
         FormatEnd, Lookup, CreateInode, AllocWalk, AllocSuper, AllocLast, TruncBlock,
         TruncBlockFails, TruncLast, TruncSuper, WriteAlloc, WriteInode, WriteData,
         WriteDataFails, DeleteBlock, DeleteBlockFails, DeleteLast, DeleteSuper

(* What FileHeld says of the library while a call runs. *)
Serving ==
  /\ Len(LL) = 1 /\ diskFd = Mounted /\ fte.inodeIdx \in Inodes
  /\ pc \in {"idle", "readWalk"} \/ (pc \in Writing \cup Allocating /\ loc.then = "tfs_writeFile")

LEMMA ServingCalls ==
  ASSUME Careful, TypeOK, TypeOK', CallOK, FilesOnce', Serving, Client, fd >= 1, fd \in Int,
         NEW op, Makes(op), op \notin {"open", "close"}
  PROVE  /\ Len(LL') = 1 /\ diskFd' = Mounted /\ fte'.inodeIdx \in Inodes'
         /\ pc' = "idle"
            \/ (op = "read" /\ pc' = "readWalk")
            \/ (op = "write" /\ pc' \in Writing /\ loc'.then = "tfs_writeFile")
  <1>1. ~Rejected
    BY DEF Rejected, Serving, Mounted, NotMounted
  <1>2. size' = size
    <2>1. pc \notin Deletes /\ ~CreateBlock /\ ~MountOpens /\ [Next]_vars
      BY ClientIdle DEF Deletes, CreateBlock, MountOpens, Next
    <2> QED
      BY <2>1, SizeMoves
  <1>3. ASSUME LL' = LL \/ (\E x \in Nat : SetOffset(x))
        PROVE  Len(LL') = 1 /\ fte'.inodeIdx \in Inodes'
    BY <1>2, <1>3, HeldStays DEF Serving
  <1>4. CASE op = "write" /\ WriteFile(fd, testString1)
    <2>1. LL' = LL /\ diskFd' = Mounted
      BY <1>4 DEF WriteFile, session, Serving
    <2>2. pc' = "idle" \/ (pc' \in Writing /\ loc'.then = "tfs_writeFile")
      BY <1>4 DEF WriteFile, Return, ReturnByte, Call, NoCall, Writing
    <2> QED
      BY <1>3, <1>4, <2>1, <2>2
  <1>5. CASE op = "read" /\ ReadByte(fd)
    <2>1. LL' = LL /\ diskFd' = Mounted
      BY <1>5 DEF ReadByte, session, Serving
    <2>2. pc' \in {"idle", "readWalk"}
      BY <1>5 DEF ReadByte, Return, ReturnByte, Call
    <2> QED
      BY <1>3, <1>5, <2>1, <2>2
  <1>6. CASE op \in {"seekPast", "seekInto"}
    <2>1. SeekPast \in Nat /\ SeekInto \in Nat
      BY TestAssumption, ClientAssumption
    <2>2. Seek(fd, SeekPast) \/ Seek(fd, SeekInto)
      BY <1>1, <1>6 DEF Makes
    <2>3. (\E x \in Nat : SetOffset(x)) /\ diskFd' = Mounted /\ pc' = "idle"
      BY <2>1, <2>2 DEF Seek, Return, ReturnByte, Serving
    <2> QED
      BY <1>3, <2>3
  <1>7. CASE op = "getTimeStamp" /\ GetTimeStamp(fd)
    BY <1>3, <1>7 DEF GetTimeStamp, session, Return, ReturnByte, Serving
  <1> QED
    BY <1>1, <1>4, <1>5, <1>6, <1>7 DEF Makes

LEMMA ServingSteps ==
  ASSUME Careful, TypeOK, TypeOK', CallOK, FilesOnce', Serving, Step,
         pc # "idle"
  PROVE  /\ Len(LL') = 1 /\ diskFd' = Mounted /\ fte'.inodeIdx \in Inodes'
         /\ pc' = "idle"
            \/ (pc = "readWalk" /\ pc' = "readWalk")
            \/ /\ pc \in Writing \cup Allocating /\ pc' \in Writing \cup Allocating
               /\ loc'.then = "tfs_writeFile"
  <1>1. size' = size
    <2>1. pc \notin Deletes /\ ~CreateBlock /\ ~MountOpens /\ [Next]_vars
      BY DEF Deletes, CreateBlock, MountOpens, Next, Serving, Writing, Allocating
    <2> QED
      BY <2>1, SizeMoves
  <1>2. ASSUME LL' = LL \/ (\E x \in Nat : SetOffset(x))
        PROVE  Len(LL') = 1 /\ fte'.inodeIdx \in Inodes'
    BY <1>1, <1>2, HeldStays DEF Serving
  <1>3. CASE pc = "readWalk"
    <2>1. ReadWalk \/ ReadWalkFails
      BY <1>3, ReadsBy
    <2>2. fte.offset + 1 \in Nat
      BY <1>3, WorkFile DEF Working, FTE
    <2>3. CASE ReadWalk
      <3>1. LL' = LL \/ (\E x \in Nat : SetOffset(x))
        BY <2>2, <2>3, ReadLeads DEF session
      <3>2. diskFd' = diskFd /\ pc' \in {"idle", "readWalk"}
        BY <2>3 DEF ReadWalk, Goto, ReturnByte
      <3> QED
        BY <1>2, <1>3, <3>1, <3>2 DEF Serving
    <2>4. CASE ReadWalkFails
      BY <1>2, <2>4 DEF ReadWalkFails, session, Return, ReturnByte, Serving
    <2> QED
      BY <2>1, <2>3, <2>4
  <1>4. CASE pc \in Writing \cup Allocating /\ loc.then = "tfs_writeFile"
    <2>1. CASE AllocWalk \/ AllocSuper \/ AllocLast
      <3>1. /\ pc' \in Allocating \cup {"createInode", "writeInode"} /\ loc'.then = loc.then
            /\ UNCHANGED session
        BY <2>1, AllocLeads
      <3>2. pc' # "createInode"
        <4>1. CallOK'
          BY TypeNext DEF Next
        <4> QED
          BY <1>4, <3>1, <4>1 DEF CallOK
      <3> QED
        BY <1>2, <1>4, <3>1, <3>2 DEF session, Writing, Serving
    <2>2. CASE Truncs \/ WriteAlloc
      BY <1>2, <1>4, <2>2, TruncLeads, WriteAllocLeads
         DEF session, Writing, Allocating, Serving
    <2>3. CASE WriteInode \/ WriteData \/ WriteDataFails
      BY <1>2, <1>4, <2>3, DataLeads DEF Home, Writing, Allocating, Serving
    <2> QED
      BY <1>4, <2>1, <2>2, <2>3, WritesBy
  <1> QED
    BY <1>3, <1>4 DEF Serving

(* tfs_openFile under way, and what it ends with. *)
UnderWay ==
  /\ LL = <<>>
  /\ pc \in Mounting \cup Allocating \cup {"lookup", "createInode"}
  /\ pc \in Mounting => diskFd = NotMounted
  /\ loc.then \in {"tfs_openFile", "createFile"} /\ loc.name = testfile

Got ==
  /\ Len(LL') = 1 /\ diskFd' = Mounted /\ fte'.inodeIdx \in Inodes' /\ fte'.offset = 0
  /\ ret'.code >= 1 /\ pc' = "idle"

LEMMA LookupOpens ==
  ASSUME RoomForKills, TestTypeOK, TypeOK', ImageInv, AllNamed, Spared, UnderWay, Lookup
  PROVE  UnderWay' \/ Got
  <1>1. pc = "lookup" /\ TypeOK /\ OwnersInv /\ loc.then = "tfs_openFile"
    BY DEF Lookup, ImageInv, CallOK
  <1>2. diskFd = Mounted
    BY <1>1 DEF ImageInv, StoreInv, FilesMounted
  <1>3. HasSuperblock /\ HasFS
    BY <1>1, <1>2 DEF Spared, HasFS
  <1>4. ~IsOpen(loc.name)
    <2>1. DOMAIN LL = {}
      BY DEF UnderWay
    <2> QED
      BY <2>1 DEF IsOpen
  <1>5. CASE FindByName(loc.name) # 0
    <2>1. Opened(FindByName(loc.name)) /\ UNCHANGED storage
      BY <1>2, <1>3, <1>4, <1>5 DEF Lookup
    <2>2. FindByName(loc.name) \in Inodes
      BY <1>1, <1>5, FindIs DEF Hits, Inodes, OnDisk
    <2>3. FindByName(loc.name) \in Int
      BY <1>1, <2>2, OnDiskFacts DEF Inodes
    <2>4. Inodes' = Inodes
      BY <2>1 DEF storage, Inodes, OnDisk
    <2> QED
      BY <1>1, <1>2, <2>1, <2>2, <2>3, <2>4, FirstOpened DEF UnderWay, Got
  <1>6. CASE FindByName(loc.name) = 0
    <2>1. Hits(testfile) = {}
      BY <1>1, <1>6, FindIs DEF UnderWay
    <2>2. Inodes = {}
      BY <2>1 DEF Hits, AllNamed, Inodes, OnDisk
    <2>3. FreeCount(disk[0]) \in Nat /\ FreeCount(disk[0]) >= 2
      BY <1>1, <1>3, <2>2, LookupRoom
    <2>4. TakeBlocks(1, [loc EXCEPT !.then = "createFile"]) /\ UNCHANGED session
      BY <1>2, <1>3, <1>4, <1>6, <2>3 DEF Lookup
    <2>5. ~(FreeCount(disk[0]) < 1)
      BY <2>3
    <2>6. pc' = "allocWalk" /\ loc'.then = "createFile" /\ loc'.name = loc.name
      BY <1>1, <2>4, <2>5 DEF TakeBlocks, Goto, TypeOK, Locals
    <2> QED
      BY <2>4, <2>6 DEF UnderWay, session, Mounting, Allocating
  <1> QED
    BY <1>5, <1>6

LEMMA CreateOpens ==
  ASSUME TestTypeOK, TypeOK', ImageInv, UnderWay, CreateInode
  PROVE  Got
  <1>1. pc = "createInode" /\ TypeOK /\ OwnersInv
    BY DEF CreateInode, ImageInv
  <1>2. HasFS
    BY <1>1 DEF OwnersInv, MakingOK, HasFS
  <1>3. PICK o \in [Indices -> Int], r \in [Indices -> Int], h \in Nat : Owned(o, r, h)
    BY <1>1, <1>2 DEF OwnersInv
  <1>4. diskFd = Mounted /\ loc.cur \in OnDisk
    BY <1>1, <1>3 DEF Owned, Taking, Begins
  <1>5. Readable(loc.cur)
    BY <1>1, <1>4, OnDiskReadable
  <1>6. Opened(loc.cur)
    BY <1>5 DEF CreateInode
  <1>7. /\ Alters(o, loc.cur)
        /\ disk'[loc.cur] = [type |-> inode, nextIdx |-> 0, body |-> InodeBody(loc.name, 0)]
    BY <1>1, <1>3, <1>5, CreateAlters
  <1>8. loc.cur \in Inodes' /\ loc.cur \in Int
    BY <1>1, <1>4, <1>7, OnDiskFacts DEF Alters, Inodes
  <1> QED
    BY <1>1, <1>4, <1>6, <1>8, FirstOpened DEF UnderWay, Got

LEMMA OpeningSteps ==
  ASSUME Careful, RoomForKills, TestTypeOK, TypeOK', ImageInv, AllNamed, Spared, UnderWay, Step
  PROVE  UnderWay' \/ Got
  <1>1. TypeOK /\ CallOK
    BY DEF ImageInv
  <1>2. Mounts \/ Lookup \/ CreateInode \/ AllocWalk \/ AllocSuper \/ AllocLast
    BY OpensBy DEF UnderWay
  <1>3. CASE Mounts
    <2>1. loc.then = "tfs_openFile" /\ pc \in Mounting
      BY <1>1, <1>3, MountLeads DEF UnderWay
    <2> QED
      BY <1>1, <1>3, <2>1, MountLeads DEF UnderWay, session, Mounting
  <1>4. CASE AllocWalk \/ AllocSuper \/ AllocLast
    <2>1. /\ pc' \in Allocating \cup {"createInode", "writeInode"}
          /\ pc' = "writeInode" => loc.then = "tfs_writeFile"
          /\ loc'.then = loc.then /\ loc'.name = loc.name /\ UNCHANGED session
      BY <1>1, <1>4, AllocLeads
    <2> QED
      BY <2>1 DEF UnderWay, session, Mounting, Allocating
  <1> QED
    BY <1>2, <1>3, <1>4, LookupOpens, CreateOpens

LEMMA TableCall ==
  ASSUME Careful, TestTypeOK, TestTypeOK', TestAt, ImageInv, ImageInv', Table, MakeCall
  PROVE  Table'
  <1>1. /\ Running /\ ~waiting /\ waiting' = TRUE /\ Makes(Op) /\ pc = "idle"
        /\ Running' /\ Op' = Op /\ at' = at /\ fd' = fd /\ fd \in Int
    BY DEF MakeCall, Running, Op, mlocals, TestAt, TestTypeOK
  <1>2. at \in Int /\ (Op = "open" <=> at = 1)
    BY <1>1, AtCall
  <1>3. CASE Op = "open"
    <2>1. NoneHeld
      BY <1>1, <1>3 DEF Table, HasFile
    <2>2. OpenFile(testfile)
      BY <1>1, <1>3 DEF Makes
    <2>3. UNCHANGED session /\ diskFd = NotMounted
      BY <1>1, <2>1, <2>2 DEF OpenFile, NoneHeld
    <2>4. Call("mount", [NoCall EXCEPT !.then = "tfs_openFile", !.name = testfile])
      BY <2>2, <2>3 DEF OpenFile
    <2>5. /\ pc' = "mount" /\ loc'.then = "tfs_openFile" /\ loc'.name = testfile
      BY <2>4 DEF Call, NoCall
    <2>6. NoneHeld'
      BY <1>1, <1>3, <2>1, <2>3, <2>5 DEF NoneHeld, session, Mounting
    <2>7. ~HasFile'
      BY <1>1, <1>3, <2>5 DEF HasFile
    <2> QED
      BY <2>6, <2>7 DEF Table
  <1>4. CASE Op # "open"
    <2>1. FileHeld /\ fd >= 1 /\ at # 1
      BY <1>1, <1>2, <1>4 DEF Table, HasFile, FileHeld
    <2>2. Client /\ Serving /\ TypeOK /\ TypeOK' /\ CallOK /\ FilesOnce'
      BY <1>1, <2>1, MakesCalls DEF FileHeld, Serving, TestAt, ImageInv
    <2>3. CASE Op = "close"
      <3>1. ~Rejected
        BY <1>1, <2>1 DEF Rejected, FileHeld, Mounted, NotMounted
      <3>2. CloseFile(fd)
        BY <1>1, <2>3, <3>1 DEF Makes
      <3>3. LL \in Seq(FTE) /\ Len(LL) = 1
        BY <2>1, <2>2 DEF FileHeld, TypeOK
      <3>4. Tail(LL) = <<>>
        <4>1. Len(Tail(LL)) = 0 /\ Tail(LL) \in Seq(FTE)
          BY <3>3
        <4> QED
          BY <4>1, EmptySeq
      <3>5. LL' = <<>> /\ diskFd' = NotMounted /\ pc' = "idle"
        BY <2>1, <3>2, <3>4 DEF CloseFile, CloseHead, Return, ReturnByte, FileHeld
      <3> QED
        BY <1>1, <2>3, <3>5 DEF Table, HasFile, NoneHeld
    <2>4. CASE Op # "close"
      <3>1. /\ Len(LL') = 1 /\ diskFd' = Mounted /\ fte'.inodeIdx \in Inodes'
            /\ \/ pc' = "idle"
               \/ (Op = "read" /\ pc' = "readWalk")
               \/ (Op = "write" /\ pc' \in Writing /\ loc'.then = "tfs_writeFile")
        BY <1>1, <1>4, <2>1, <2>2, <2>4, ServingCalls
      <3>2. HasFile'
        BY <1>1, <1>4, <2>4 DEF HasFile
      <3> QED
        BY <1>1, <2>1, <3>1, <3>2 DEF Table, FileHeld
    <2> QED
      BY <2>3, <2>4
  <1> QED
    BY <1>3, <1>4

LEMMA TableRuns ==
  ASSUME Careful, RoomForKills, TestTypeOK, TestTypeOK', TestAt, ImageInv, ImageInv', AllNamed,
         Spared, Table, LibraryRuns
  PROVE  Table'
  <1>1. /\ waiting /\ waiting' = TRUE /\ Step /\ Running /\ pc # "idle"
        /\ Running' /\ Op' = Op /\ at' = at /\ fd' = fd
        /\ TypeOK /\ TypeOK' /\ CallOK /\ FilesOnce'
    BY StepsInCall DEF LibraryRuns, Running, Op, mlocals, TestAt, ImageInv
  <1>2. Op = "open" <=> at = 1
    BY <1>1, AtCall
  <1>3. CASE Op = "open"
    <2>1. NoneHeld
      BY <1>1, <1>3 DEF Table, HasFile
    <2>2. UnderWay
      BY <1>1, <2>1 DEF NoneHeld, UnderWay
    <2>3. CASE UnderWay'
      <3>1. pc' # "idle"
        BY <2>3 DEF UnderWay, Mounting, Allocating
      <3> QED
        BY <1>1, <1>3, <2>3, <3>1 DEF Table, HasFile, NoneHeld, UnderWay
    <2>4. CASE Got
      BY <1>1, <1>2, <1>3, <2>4 DEF Got, Table, HasFile, FileHeld
    <2> QED
      BY <1>1, <2>2, <2>3, <2>4, OpeningSteps
  <1>4. CASE Op # "open"
    <2>1. Op # "close" /\ FileHeld /\ fd >= 1 /\ at # 1
      BY <1>1, <1>2, <1>4 DEF Table, HasFile, NoneHeld, FileHeld
    <2>2. Serving
      BY <2>1 DEF FileHeld, Serving
    <2>3. /\ Len(LL') = 1 /\ diskFd' = Mounted /\ fte'.inodeIdx \in Inodes'
          /\ pc' = "idle"
             \/ (pc = "readWalk" /\ pc' = "readWalk")
             \/ /\ pc \in Writing \cup Allocating /\ pc' \in Writing \cup Allocating
                /\ loc'.then = "tfs_writeFile"
      BY <1>1, <2>2, ServingSteps
    <2>4. HasFile'
      BY <1>1, <1>4, <2>1 DEF HasFile
    <2>5. pc = "readWalk" => Op = "read"
      BY <2>1 DEF FileHeld, Writing, Allocating
    <2>6. pc \in Writing \cup Allocating => Op = "write"
      BY <1>1, <2>1 DEF FileHeld, Writing, Allocating
    <2> QED
      BY <1>1, <2>1, <2>3, <2>4, <2>5, <2>6 DEF Table, FileHeld
  <1> QED
    BY <1>3, <1>4

LEMMA TableCounts ==
  ASSUME TestTypeOK, TestAt, Table, CallReturned \/ ByteRead \/ ReadEnds
  PROVE  Table'
  <1>1. /\ Running /\ waiting /\ pc = "idle" /\ waiting' = FALSE /\ test' = test
        /\ UNCHANGED vars /\ fte' = fte
    BY DEF CallReturned, Counts, ByteRead, ReadEnds, vars, fte
  <1>2. /\ at \in 1..Len(Tests[test]) /\ Len(Tests[test]) \in 3..5 /\ test # 0
        /\ Op = "open" <=> at = 1
        /\ Op = "close" <=> at = Len(Tests[test])
    BY <1>1, AtCall DEF Running
  <1>3. Inodes' = Inodes /\ LL' = LL /\ diskFd' = diskFd /\ pc' = "idle" /\ ret' = ret
    BY <1>1 DEF vars, Inodes, OnDisk
  <1>4. CASE Op = "close"
    <2>1. at' = at + 1 /\ NoneHeld
      BY <1>1, <1>4 DEF CallReturned, Counts, ByteRead, ReadEnds, Table, HasFile
    <2>2. ~Running'
      BY <1>1, <1>2, <1>4, <2>1 DEF Running
    <2> QED
      BY <1>1, <1>3, <2>1, <2>2 DEF Table, HasFile, NoneHeld, Mounting
  <1>5. CASE Op # "close"
    <2>1. FileHeld
      BY <1>1, <1>5 DEF Table, HasFile
    <2>2. at' \in 1..Len(Tests[test]) /\ (at' # 1 \/ at' = at)
      <3>1. at' = at \/ at' = at + 1
        BY DEF CallReturned, Counts, ByteRead, ReadEnds
      <3> QED
        BY <1>2, <1>5, <3>1
    <2>3. at' # 1
      <3>1. ByteRead => Op # "open" /\ at' = at
        BY DEF ByteRead
      <3>2. ~ByteRead => at' = at + 1
        BY DEF CallReturned, Counts, ReadEnds
      <3> QED
        BY <1>2, <3>1, <3>2
    <2>4. fd' >= 1
      <3>1. CASE Op = "open"
        BY <1>2, <2>1, <3>1 DEF FileHeld, CallReturned, Counts, ByteRead, ReadEnds
      <3>2. CASE Op # "open"
        BY <1>2, <2>1, <3>2 DEF FileHeld, CallReturned, Counts, ByteRead, ReadEnds
      <3> QED
        BY <3>1, <3>2
    <2>5. HasFile'
      <3>1. Running'
        BY <1>1, <1>2, <2>2 DEF Running
      <3>2. Op' # "open"
        <4>1. test \in 1..6 /\ Op' = Tests[test][at']
          BY <1>1, AtCall DEF Op
        <4>2. at' \in 2..Len(Tests[test])
          BY <1>2, <2>2, <2>3
        <4> QED
          BY <4>1, <4>2, TestsShape
      <3> QED
        BY <1>1, <3>1, <3>2 DEF HasFile
    <2> QED
      BY <1>1, <1>3, <2>1, <2>3, <2>4, <2>5 DEF Table, FileHeld
  <1> QED
    BY <1>4, <1>5

LEMMA TestTableNext ==
  ASSUME Careful, RoomForKills, TestTypeOK, TestTypeOK', TestAt, ImageInv, ImageInv', AllNamed,
         Spared, Table, [TestNext]_allVars
  PROVE  Table'
  <1>1. CASE StartTests \/ Report
    <2>1. ~Running /\ pc = "idle" /\ ~waiting /\ UNCHANGED vars /\ waiting' = waiting
      BY <1>1, TestsAre DEF StartTests, Report, Running, TestAt, TestTypeOK
    <2>2. NoneHeld
      BY <2>1 DEF Table, HasFile
    <2>3. test' \in 1..6 /\ at' = 1
      BY <1>1, TestsAre DEF StartTests, Report, TestAt, TestTypeOK
    <2>4. Op' = "open"
      BY <2>3, TestsShape DEF Op
    <2>5. ~HasFile'
      BY <2>1, <2>4 DEF HasFile
    <2> QED
      BY <2>1, <2>2, <2>5 DEF Table, NoneHeld, vars
  <1>2. CASE ReportLast \/ Aborts \/ Killed
    <2>1. test' = 0 /\ LL' = <<>> /\ diskFd' = NotMounted /\ pc' = "idle"
      BY <1>2 DEF ReportLast, Aborts, Killed, Off, Crash, ListMissing, FirstCallHits, Die
    <2> QED
      BY <2>1 DEF Table, HasFile, NoneHeld, Running
  <1>3. CASE UNCHANGED allVars
    <2>1. /\ UNCHANGED vars /\ test' = test /\ at' = at /\ waiting' = waiting /\ fd' = fd
      BY <1>3 DEF allVars, tvars, mlocals
    <2>2. HasFile' = HasFile /\ FileHeld' = FileHeld /\ NoneHeld' = NoneHeld
      BY <2>1 DEF HasFile, FileHeld, NoneHeld, vars, Running, Op, Inodes, OnDisk, fte
    <2> QED
      BY <2>2 DEF Table
  <1> QED
    BY <1>1, <1>2, <1>3, TableCall, TableRuns, TableCounts DEF TestNext, Main

-----------------------------------------------------------------------------
(* What the file holds *)

(* Test 1 has made its write, or a later test runs. *)
HasWritten == test > 1 \/ (test = 1 /\ (at > 2 \/ (at = 2 /\ waiting)))

(* From then on the file holds the string, but while it is written anew.   *)
StoredNow ==
  HasWritten /\ ~(waiting /\ Op = "write" /\ pc # "idle") =>
    \E k \in Inodes : Holds(k, testString1)

LEMMA StoredStays ==
  ASSUME UNCHANGED storage, \E k \in Inodes : Holds(k, testString1)
  PROVE  \E k \in Inodes' : Holds(k, testString1)'
  <1>1. Inodes' = Inodes
    BY DEF storage, Inodes, OnDisk
  <1>2. PICK k \in Inodes : Holds(k, testString1)
    OBVIOUS
  <1>3. Holds(k, testString1)'
    BY <1>2, HoldsSame
  <1> QED
    BY <1>1, <1>3

(* tfs_writeFile never finds its blocks missing. *)
LEMMA DataThere ==
  ASSUME TestTypeOK, ImageInv, RoomForKills, Spared, pc = "writeData"
  PROVE  Readable(loc.cur)
  <1>1. PICK L \in SUBSET Indices : FewLost(L) /\ OwnersBut(L)
    BY DEF Spared
  <1>2. L # Indices /\ TypeOK /\ CallOK
    BY <1>1, NotAll DEF ImageInv
  <1>3. /\ diskFd = Mounted
        /\ \E o, r \in [Indices -> Int], h \in Nat : Owned(o, r, h) /\ Placed(o, r, h, L)
    BY <1>1, <1>2, WorkPlaced DEF Working, Writing
  <1>4. PICK o \in [Indices -> Int], r \in [Indices -> Int], h \in Nat :
          Owned(o, r, h) /\ Placed(o, r, h, L)
    BY <1>3
  <1>5. loc.count \in Nat /\ loc.want \in Nat
    BY <1>2 DEF TypeOK, Locals
  <1>6. loc.want > 0 /\ loc.count < loc.want /\ r[fte.inodeIdx] = loc.want + 1
    BY <1>2, <1>4 DEF Owned, Storing, Wanting, Placed, InHand
  <1>7. Begins(o, r, fte.inodeIdx, loc.cur, loc.want - loc.count)
    BY <1>4, <1>5, <1>6 DEF Owned, Storing
  <1>8. loc.cur \in OnDisk
    BY <1>5, <1>6, <1>7 DEF Begins
  <1> QED
    BY <1>2, <1>3, <1>8, OnDiskReadable

(* Its end, when it is called with the string. *)
LEMMA StringWritten ==
  ASSUME Careful, TestTypeOK, TypeOK', ImageInv, RoomForKills, Spared, Serving, Step,
         pc \in Writing \cup Allocating, pc' = "idle"
  PROVE  /\ \E k \in Inodes' : Holds(k, testString1)'
         /\ LL' # <<>> /\ fte'.offset = 0
  <1>1. TypeOK /\ CallOK /\ OwnersInv
    BY DEF ImageInv
  <1>2. ~AllocWalk /\ ~AllocSuper /\ ~AllocLast /\ ~Truncs /\ ~WriteAlloc
    BY <1>1, AllocLeads, TruncLeads, WriteAllocLeads DEF Allocating
  <1>3. pc \in {"writeInode", "writeData"}
    BY <1>1, <1>2, WritesBy, DataLeads
  <1>4. /\ HasFS /\ LL # <<>>
        /\ \E o, r \in [Indices -> Int], h \in Nat : Owned(o, r, h)
    BY <1>1, <1>3, WorkOwners DEF Working, Writing
  <1>5. PICK o \in [Indices -> Int], r \in [Indices -> Int], h \in Nat : Owned(o, r, h)
    BY <1>4
  <1>6. ~WriteInode
    <2>1. pc = "writeInode" => loc.want > 0 /\ loc.want \in Nat
      BY <1>1, <1>5 DEF Owned, Storing, Wanting, TypeOK, Locals
    <2> QED
      BY <2>1 DEF WriteInode, Goto
  <1>7. ~WriteDataFails
    BY DataThere DEF WriteDataFails
  <1>8. WriteData /\ pc = "writeData"
    BY <1>2, <1>6, <1>7, WritesBy DEF WriteData
  <1>9. loc.count + 1 = loc.want /\ SetOffset(0)
    BY <1>8 DEF WriteData, Goto
  <1> PICK x : x = fte.inodeIdx
    OBVIOUS
  <1>10. x \in Inodes /\ x \in Indices
    BY <1>1, OnDiskFacts DEF Serving, Inodes
  <1>11. Holds(x, testString1)'
    <2>1. loc.buf = testString1 /\ testString1 \in Buffers
      BY <1>1, <1>3, TestAssumption DEF CallOK, Writing
    <2> QED
      BY <1>1, <1>8, <1>9, <1>10, <2>1, LastDataStores
  <1>12. x \in Inodes'
    <2>1. Alters(o, x) /\ disk'[x] = disk[x]
      BY <1>1, <1>5, <1>8, DataAlters
    <2> QED
      BY <1>10, <2>1 DEF Alters, Inodes
  <1>13. LL' # <<>> /\ fte'.offset = 0
    BY <1>1, <1>4, <1>9, OffsetMoved DEF TypeOK
  <1> QED
    BY <1>11, <1>12, <1>13

(* Its beginning. *)
LEMMA StringBegun ==
  ASSUME TestTypeOK, TestAt, ImageInv, Table, MakeCall, Op = "write"
  PROVE  pc' # "idle"
  <1>1. Running /\ ~waiting /\ at # 1 /\ Makes(Op)
    <2>1. Running /\ ~waiting /\ Makes(Op)
      BY DEF MakeCall
    <2> QED
      BY <2>1, AtCall
  <1>2. FileHeld /\ fd \in Int
    BY <1>1 DEF Table, HasFile, TestTypeOK
  <1>3. ~Rejected
    BY <1>1, <1>2 DEF Rejected, FileHeld, Mounted, NotMounted
  <1>4. WriteFile(fd, testString1)
    BY <1>1, <1>3 DEF Makes
  <1>5. Readable(fte.inodeIdx)
    BY <1>2, OnDiskReadable DEF FileHeld, Inodes, ImageInv
  <1> QED
    BY <1>4, <1>5 DEF WriteFile, Call

(* The calls but tfs_writeFile leave the image alone. *)
LEMMA QuietCalls ==
  ASSUME NEW op, Makes(op), op # "write"
  PROVE  UNCHANGED storage
  BY DEF Makes, OpenFile, ReadByte, Seek, GetTimeStamp, CloseFile, Rejected, Refused

LEMMA OpenKeeps ==
  ASSUME Careful, ImageInv, AllNamed, UnderWay, Step, Inodes # {}
  PROVE  UNCHANGED storage
  <1>1. TypeOK /\ CallOK /\ OwnersInv /\ FilesMounted /\ NameStillNew
    BY DEF ImageInv, StoreInv
  <1>2. HasFS
    BY <1>1 DEF FilesMounted
  <1>3. pc \notin Allocating \cup {"createInode"}
    <2> SUFFICES ASSUME pc \in Allocating \cup {"createInode"} PROVE FALSE
      OBVIOUS
    <2>1. loc.then = "createFile"
      BY <1>1 DEF CallOK, UnderWay
    <2>2. Hits(testfile) = {}
      BY <1>1, <2>1 DEF NameStillNew, UnderWay
    <2> QED
      BY <2>2 DEF Hits, AllNamed, Inodes, OnDisk
  <1>4. Mounts \/ Lookup
    <2>1. Mounts \/ Lookup \/ CreateInode \/ AllocWalk \/ AllocSuper \/ AllocLast
      BY OpensBy DEF UnderWay
    <2> QED
      BY <1>3, <2>1 DEF CreateInode, AllocWalk, AllocSuper, AllocLast, Allocating
  <1> QED
    BY <1>1, <1>2, <1>4, MountsRead DEF Lookup

LEMMA StoredNext ==
  ASSUME Careful, RoomForKills, TestTypeOK, TestTypeOK', TestAt, ImageInv, ImageInv', AllNamed,
         Spared, Table, StoredNow, [TestNext]_allVars
  PROVE  StoredNow'
  <1>1. CASE MakeCall
    <2>1. /\ Running /\ ~waiting /\ waiting' = TRUE /\ Makes(Op)
          /\ Op' = Op /\ at' = at /\ test' = test
      BY <1>1 DEF MakeCall, Op
    <2>2. CASE Op = "write"
      BY <1>1, <2>1, <2>2, StringBegun DEF StoredNow
    <2>3. CASE Op # "write"
      <3>1. UNCHANGED storage
        BY <2>1, <2>3, QuietCalls
      <3>2. test = 1 /\ at = 2 => Op = "write"
        BY TestsOrder DEF Op
      <3>3. HasWritten' => HasWritten
        BY <2>1, <2>3, <3>2 DEF HasWritten
      <3> QED
        BY <2>1, <3>1, <3>3, StoredStays DEF StoredNow
    <2> QED
      BY <2>2, <2>3
  <1>2. CASE LibraryRuns
    <2>1. /\ Running /\ waiting /\ waiting' = TRUE /\ Op' = Op /\ at' = at /\ test' = test
          /\ Step /\ pc # "idle" /\ CallOK /\ TypeOK'
      BY <1>2, StepsInCall DEF LibraryRuns, TestAt, Op, ImageInv
    <2>2. HasWritten' => HasWritten
      BY <2>1 DEF HasWritten
    <2>3. CASE Op = "write" /\ pc' = "idle"
      <3>1. FileHeld
        BY <2>1, <2>3 DEF Table, HasFile
      <3>2. Serving /\ pc \in Writing \cup Allocating
        BY <2>1, <2>3, <3>1 DEF FileHeld, Serving
      <3>3. \E k \in Inodes' : Holds(k, testString1)'
        BY <2>1, <2>3, <3>2, StringWritten
      <3> QED
        BY <3>3 DEF StoredNow
    <2>4. CASE Op # "write"
      <3>1. CASE Op = "open"
        <4>1. UnderWay
          BY <2>1, <3>1 DEF Table, HasFile, NoneHeld, UnderWay
        <4> QED
          BY <2>1, <2>2, <2>4, <4>1, OpenKeeps, StoredStays DEF StoredNow
      <3>2. CASE Op # "open"
        <4>1. pc = "readWalk"
          BY <2>1, <2>4, <3>2 DEF Table, HasFile, FileHeld, NoneHeld
        <4>2. UNCHANGED storage
          BY <2>1, <4>1, ReadsBy DEF ReadWalk, ReadWalkFails
        <4> QED
          BY <2>1, <2>2, <2>4, <4>2, StoredStays DEF StoredNow
      <3> QED
        BY <3>1, <3>2
    <2>5. CASE Op = "write" /\ pc' # "idle"
      BY <2>1, <2>5 DEF StoredNow
    <2> QED
      BY <2>3, <2>4, <2>5
  <1>3. CASE CallReturned \/ ByteRead \/ ReadEnds
    <2>1. /\ Running /\ waiting /\ pc = "idle" /\ test' = test /\ at' \in {at, at + 1}
          /\ waiting' = FALSE /\ UNCHANGED vars
      BY <1>3 DEF CallReturned, Counts, ByteRead, ReadEnds
    <2>2. at \in Nat
      BY DEF TestTypeOK
    <2>3. HasWritten' => HasWritten
      BY <2>1, <2>2 DEF HasWritten
    <2> QED
      BY <2>1, <2>3, StoredStays DEF StoredNow, vars, storage
  <1>4. CASE Report
    <2>1. ~Running /\ ~waiting /\ waiting' = waiting /\ UNCHANGED vars
      BY <1>4, TestsAre DEF Report, Running, TestAt, TestTypeOK
    <2>2. test \in 1..6 /\ at > Len(Tests[test]) /\ at \in Nat
      BY <1>4, TestsAre DEF Report, TestTypeOK
    <2>3. Len(Tests[test]) \in 3..5
      BY <2>2, TestsShape
    <2>4. HasWritten
      <3>1. \A n \in 3..5 : at > n => at > 2
        BY <2>2
      <3>2. at > 2
        BY <2>2, <2>3, <3>1
      <3>3. test = 1 \/ test > 1
        BY <2>2
      <3> QED
        BY <3>2, <3>3 DEF HasWritten
    <2> QED
      BY <2>1, <2>4, StoredStays DEF StoredNow, vars, storage
  <1>5. CASE StartTests \/ ReportLast \/ Aborts \/ Killed
    <2>1. (test' = 0 \/ test' = 1) /\ at' = 1
      BY <1>5 DEF StartTests, ReportLast, Aborts, Killed, Off, TestAt
    <2> QED
      BY <2>1 DEF StoredNow, HasWritten
  <1>6. CASE UNCHANGED allVars
    <2>1. /\ UNCHANGED vars /\ test' = test /\ at' = at /\ waiting' = waiting /\ pc' = pc
      BY <1>6 DEF allVars, tvars, vars
    <2>2. HasWritten' = HasWritten /\ Op' = Op
      BY <2>1 DEF HasWritten, Op
    <2> QED
      BY <2>1, <2>2, StoredStays DEF StoredNow, vars, storage
  <1> QED
    BY <1>1, <1>2, <1>3, <1>4, <1>5, <1>6 DEF TestNext, Main

-----------------------------------------------------------------------------
(* Where the offset is *)

(* A call that has returned left it at the beginning, or where it was to.  *)
OffsetAt ==
  Running /\ waiting /\ pc = "idle" =>
    /\ Op \in {"open", "write"} => fte.offset = 0
    /\ Op = "seekPast" => fte.offset = SeekPast

LEMMA OffsetNext ==
  ASSUME Careful, RoomForKills, TestTypeOK, TestTypeOK', TestAt, ImageInv, AllNamed,
         Spared, Table, OffsetAt, [TestNext]_allVars
  PROVE  OffsetAt'
  <1>1. CASE MakeCall
    <2>1. /\ Running /\ ~waiting /\ pc = "idle" /\ Makes(Op) /\ Op' = Op /\ fd \in Int
          /\ Op \in {"open", "write", "read", "seekPast", "seekInto", "getTimeStamp", "close"}
      BY <1>1, AtCall DEF MakeCall, Op, TestAt, TestTypeOK
    <2>2. Op = "open" => pc' # "idle"
      <3> SUFFICES ASSUME Op = "open" PROVE pc' # "idle"
        OBVIOUS
      <3>1. OpenFile(testfile) /\ NoneHeld
        BY <2>1 DEF Makes, Table, HasFile
      <3>2. diskFd = NotMounted
        BY <2>1, <3>1 DEF NoneHeld
      <3> QED
        BY <3>1, <3>2 DEF OpenFile, Call
    <2>3. Op = "seekPast" => fte'.offset = SeekPast
      <3> SUFFICES ASSUME Op = "seekPast" PROVE fte'.offset = SeekPast
        OBVIOUS
      <3>1. FileHeld /\ at # 1
        BY <1>1, <2>1, AtCall DEF Table, HasFile
      <3>2. ~Rejected
        BY <2>1, <3>1 DEF Rejected, FileHeld, Mounted, NotMounted
      <3>3. Seek(fd, SeekPast)
        BY <2>1, <3>2 DEF Makes
      <3>4. SetOffset(SeekPast) /\ SeekPast \in Nat /\ LL # <<>> /\ LL \in Seq(FTE)
        BY <3>3, TestAssumption DEF Seek, Served, TestTypeOK, TypeOK
      <3> QED
        BY <3>4, OffsetMoved
    <2> QED
      BY <1>1, <2>1, <2>2, <2>3, StringBegun DEF OffsetAt
  <1>2. CASE LibraryRuns
    <2>1. /\ Running /\ waiting /\ Step /\ pc # "idle" /\ Op' = Op /\ TypeOK'
      BY <1>2, StepsInCall DEF LibraryRuns, TestAt, TestTypeOK, Op, ImageInv
    <2>2. CASE Op = "open"
      <3>1. UnderWay
        BY <2>1, <2>2 DEF Table, HasFile, NoneHeld, UnderWay
      <3>2. UnderWay' => pc' # "idle"
        BY DEF UnderWay, Mounting, Allocating
      <3>3. Got => fte'.offset = 0
        BY DEF Got
      <3> QED
        BY <2>1, <2>2, <3>1, <3>2, <3>3, OpeningSteps DEF OffsetAt
    <2>3. CASE Op = "write" /\ pc' = "idle"
      <3>1. FileHeld
        BY <2>1, <2>3 DEF Table, HasFile
      <3>2. Serving /\ pc \in Writing \cup Allocating
        BY <2>1, <2>3, <3>1 DEF FileHeld, Serving
      <3>3. fte'.offset = 0
        BY <2>1, <2>3, <3>2, StringWritten
      <3> QED
        BY <2>1, <2>3, <3>3 DEF OffsetAt
    <2>4. Op # "seekPast"
      <3>1. Op = "seekPast" => FileHeld
        BY <2>1 DEF Table, HasFile, NoneHeld
      <3> QED
        BY <2>1, <3>1 DEF FileHeld
    <2> QED
      BY <2>1, <2>2, <2>3, <2>4 DEF OffsetAt
  <1>3. CASE CallReturned \/ ByteRead \/ ReadEnds
    BY <1>3 DEF CallReturned, Counts, ByteRead, ReadEnds, OffsetAt
  <1>4. CASE StartTests \/ Report
    <2>1. ~waiting'
      BY <1>4, TestsAre DEF StartTests, Report, Running, TestAt, TestTypeOK
    <2> QED
      BY <2>1 DEF OffsetAt
  <1>5. CASE ReportLast \/ Aborts \/ Killed
    BY <1>5 DEF ReportLast, Aborts, Killed, Off, OffsetAt
  <1>6. CASE UNCHANGED allVars
    BY <1>6 DEF allVars, tvars, vars, OffsetAt, Running, Op, fte
  <1> QED
    BY <1>1, <1>2, <1>3, <1>4, <1>5, <1>6 DEF TestNext, Main

-----------------------------------------------------------------------------
(* What the loops read *)

(* Whether the test has moved behind the end of the file. *)
Behind == \E k \in 1..at : Tests[test][k] = "seekPast"

(* The loop has read the first bytes of the string, in order, and the      *)
(* offset is at the next; at the end, or behind it, it is given '\0'.      *)
Reading ==
  Running /\ Op = "read" =>
    IF Behind
      THEN /\ i = 0 /\ pc = "idle" /\ fte.offset = SeekPast
           /\ waiting => ret.byte = Nul
      ELSE /\ \A k \in 0..(i - 1) : result[k] = <<testString1, k>>
           /\ ~waiting \/ pc = "readWalk" => fte.offset = i
           /\ waiting /\ pc = "idle" =>
                \/ /\ ret = [code |-> 0, byte |-> <<testString1, i>>]
                   /\ i < Length[testString1] /\ fte.offset = i + 1
                \/ ret.byte = Nul /\ i = Length[testString1]

LEMMA StringBytes ==
  \A k \in 0..(Length[testString1] - 1) : <<testString1, k>> # Nul
  BY TestAssumption, ClientAssumption

(* The file that a test reads holds the string. *)
LEMMA StringThere ==
  ASSUME TestTypeOK, TestAt, ImageInv, AllNamed, Table, StoredNow, Running, Op = "read"
  PROVE  /\ FileHeld /\ fd >= 1
         /\ fte.inodeIdx \in Inodes /\ Holds(fte.inodeIdx, testString1)
         /\ FileSize(disk[fte.inodeIdx]) = Length[testString1]
  <1>1. test \in 1..6 /\ at \in 1..Len(Tests[test]) /\ Op = Tests[test][at] /\ at # 1
    BY AtCall
  <1>2. FileHeld /\ fd >= 1
    BY <1>1 DEF Table, HasFile, FileHeld
  <1>3. HasWritten
    <2>1. test = 1 => at # 2
      BY <1>1, TestsOrder
    <2>2. at \in Nat
      BY DEF TestTypeOK
    <2> QED
      BY <1>1, <2>1, <2>2 DEF HasWritten
  <1>4. PICK k \in Inodes : Holds(k, testString1)
    BY <1>3 DEF StoredNow
  <1>5. fte.inodeIdx \in Inodes /\ k = fte.inodeIdx
    BY <1>2, OneInode DEF FileHeld, ImageInv
  <1> QED
    BY <1>2, <1>4, <1>5 DEF Holds

LEMMA ReadingBegins ==
  ASSUME TestTypeOK, TestAt, NothingRead, OffsetAt, CallReturned, Running', Op' = "read"
  PROVE  Reading'
  <1>1. /\ Running /\ waiting /\ pc = "idle" /\ Op # "read"
        /\ test' = test /\ at' = at + 1 /\ waiting' = FALSE /\ pc' = "idle" /\ fte' = fte
    BY DEF CallReturned, Counts, vars, fte
  <1>2. /\ test \in 1..6 /\ at \in 1..Len(Tests[test]) /\ Op = Tests[test][at]
        /\ Len(Tests[test]) \in 3..5 /\ (Op = "open" <=> at = 1)
    BY <1>1, AtCall
  <1>3. at + 1 \in 1..Len(Tests[test]) /\ Tests[test][at + 1] = "read" /\ (at + 1) - 1 = at
    BY <1>1, <1>2 DEF Running, Op
  <1>4. /\ Op \in {"open", "write", "seekPast"}
        /\ (\E m \in 1..(at + 1) : Tests[test][m] = "seekPast") <=> Op = "seekPast"
    BY <1>2, <1>3, TestsOrder DEF Orderly
  <1>5. i' = 0
    <2>1. CASE Op = "open"
      BY <2>1 DEF CallReturned, Counts
    <2>2. CASE Op # "open"
      <3>1. i' = i /\ at \in 2..at /\ at + 1 \in 2..Len(Tests[test])
        BY <1>2, <1>3, <2>2 DEF CallReturned, Counts
      <3> QED
        BY <1>2, <1>3, <3>1 DEF NothingRead
    <2> QED
      BY <2>1, <2>2
  <1>6. Behind' <=> Op = "seekPast"
    BY <1>1, <1>4 DEF Behind
  <1>7. fte'.offset = IF Behind' THEN SeekPast ELSE 0
    BY <1>1, <1>4, <1>6 DEF OffsetAt
  <1>8. 0..(i' - 1) = {}
    BY <1>5
  <1> QED
    BY <1>1, <1>5, <1>7, <1>8 DEF Reading

LEMMA ReadingCalls ==
  ASSUME TestTypeOK, TestAt, ImageInv, AllNamed, Table, StoredNow, BytesRead, Reading,
         MakeCall, Op = "read"
  PROVE  Reading'
  <1>1. /\ Running /\ ~waiting /\ waiting' = TRUE /\ Makes(Op) /\ fd \in Int
        /\ Op' = Op /\ Behind' = Behind /\ i' = i /\ result' = result
    BY DEF MakeCall, Op, Behind, mlocals, TestTypeOK
  <1>2. /\ FileHeld /\ fd >= 1
        /\ FileSize(disk[fte.inodeIdx]) = Length[testString1]
    BY <1>1, StringThere
  <1>3. ~Rejected
    BY <1>1, <1>2 DEF Rejected, FileHeld, Mounted, NotMounted
  <1>4. ReadByte(fd) /\ fte' = fte
    BY <1>1, <1>3 DEF Makes, ReadByte, session, fte
  <1>5. Readable(fte.inodeIdx)
    BY <1>2, OnDiskReadable DEF FileHeld, Inodes, ImageInv
  <1>6. IF fte.offset >= Length[testString1]
          THEN pc' = "idle" /\ ret'.byte = Nul
          ELSE pc' = "readWalk"
    BY <1>2, <1>4, <1>5 DEF ReadByte, Return, ReturnByte, Call
  <1>7. CASE Behind
    <2>1. i = 0 /\ fte.offset = SeekPast /\ SeekPast >= Length[testString1]
      BY <1>1, <1>7, TestAssumption DEF Reading
    <2> QED
      BY <1>1, <1>4, <1>6, <1>7, <2>1 DEF Reading
  <1>8. CASE ~Behind
    <2>1. fte.offset = i /\ i \in 0..Length[testString1] /\ Length[testString1] \in Nat
      BY <1>1, <1>8, StringFits DEF Reading, BytesRead
    <2>2. pc' = "idle" => i = Length[testString1] /\ ret'.byte = Nul
      BY <1>6, <2>1
    <2> QED
      BY <1>1, <1>4, <1>8, <2>1, <2>2 DEF Reading
  <1> QED
    BY <1>7, <1>8

LEMMA ReadingRuns ==
  ASSUME TestTypeOK, TestTypeOK', TestAt, ImageInv, AllNamed, Table, Table', StoredNow,
         BytesRead, Reading, LibraryRuns, Running, Op = "read"
  PROVE  Reading'
  <1>1. /\ waiting /\ waiting' = TRUE /\ Running' /\ Op' = "read" /\ Behind' = Behind
        /\ i' = i /\ result' = result
        /\ Step /\ pc # "idle" /\ TypeOK /\ CallOK /\ ReadInv
    BY StepsInCall DEF LibraryRuns, Running, Op, Behind, mlocals, ImageInv
  <1>2. pc = "readWalk" /\ ~Behind /\ fte.offset = i
    BY <1>1 DEF BytesRead, Reading
  <1>3. ReadWalk \/ ReadWalkFails
    BY <1>1, <1>2, ReadsBy
  <1>4. /\ fte.inodeIdx \in Inodes /\ Holds(fte.inodeIdx, testString1)
        /\ FileSize(disk[fte.inodeIdx]) = Length[testString1]
    BY StringThere
  <1>5. i \in Nat /\ i < Length[testString1]
    <2>1. i \in Nat
      BY DEF TestTypeOK
    <2> QED
      BY <1>2, <1>4, <2>1 DEF Reading, ImageInv, ReadInv
  <1>6. CASE pc' = "readWalk"
    <2>1. fte' = fte
      BY <1>3, <1>6 DEF ReadWalk, ReadWalkFails, ReturnByte, Return, session, fte
    <2> QED
      BY <1>1, <1>2, <1>6, <2>1 DEF Reading
  <1>7. CASE pc' = "idle"
    <2>1. Len(LL') = 1 /\ LL' # <<>> /\ LL # <<>> /\ LL \in Seq(FTE)
      <3>1. Len(LL') = 1
        BY <1>1 DEF Table, HasFile, FileHeld
      <3>2. LL # <<>>
        BY <1>1, <1>2, WorkFile DEF Working
      <3>3. LL' # <<>>
        BY <3>1
      <3> QED
        BY <1>1, <3>1, <3>2, <3>3 DEF TypeOK
    <2>2. testString1 \in Buffers /\ [Next]_vars
      BY <1>1, TestAssumption DEF Next
    <2>3. ret' = [code |-> 0, byte |-> <<testString1, i>>]
      BY <1>1, <1>2, <1>4, <1>7, <2>1, <2>2, ReadGives
    <2>4. <<testString1, i>> # Nul
      BY <1>5, StringBytes, StringFits
    <2>5. SetOffset(i + 1)
      BY <1>2, <1>3, <1>7, <2>3, <2>4 DEF ReadWalk, ReadWalkFails, ReturnByte, Return, Goto
    <2>6. fte'.offset = i + 1
      BY <1>5, <2>1, <2>5, OffsetMoved
    <2> QED
      BY <1>1, <1>2, <1>5, <1>7, <2>3, <2>6 DEF Reading
  <1> QED
    BY <1>3, <1>6, <1>7 DEF ReadWalk, ReadWalkFails, ReturnByte, Return, Goto

(* A '\0' stored where the loop is ends it. *)
LEMMA NulEnds ==
  ASSUME TestTypeOK, BytesRead, Running, Op = "read", ret.byte = Nul
  PROVE  Stored[i] = Nul /\ Stored = result
  <1>1. i \in ResultIdx /\ result[i] = Nul
    <2>1. i \in 0..Length[testString1] /\ (\A k \in ResultIdx : k >= i => result[k] = Nul)
      BY DEF BytesRead
    <2>2. i \in ResultIdx /\ i >= i
      BY <2>1, StringFits
    <2> QED
      BY <2>1, <2>2
  <1>2. result \in [ResultIdx -> Bytes]
    BY DEF TestTypeOK
  <1>3. [result EXCEPT ![i] = Nul] = result
    BY <1>1, <1>2
  <1> QED
    BY <1>1, <1>3 DEF Stored

LEMMA ReadingGoesOn ==
  ASSUME TestTypeOK, BytesRead, Reading, ByteRead
  PROVE  Reading'
  <1>1. /\ Running /\ waiting /\ pc = "idle" /\ Op = "read"
        /\ Op' = "read" /\ Behind' = Behind /\ waiting' = FALSE /\ pc' = "idle"
        /\ i' = i + 1 /\ fte' = fte
        /\ result' = Stored /\ result'[i] # Nul
    BY DEF ByteRead, Op, Behind, vars, fte
  <1>2. ret.byte # Nul
    BY <1>1, NulEnds
  <1>3. /\ ~Behind /\ ret = [code |-> 0, byte |-> <<testString1, i>>]
        /\ fte.offset = i + 1
        /\ \A k \in 0..(i - 1) : result[k] = <<testString1, k>>
    BY <1>1, <1>2 DEF Reading
  <1>4. i \in ResultIdx /\ i \in Nat /\ i <= Length[testString1] /\ Length[testString1] < ResultSize
    BY <1>1, StringFits DEF BytesRead
  <1>5. result \in [ResultIdx -> Bytes]
    BY DEF TestTypeOK
  <1>6. result' = [result EXCEPT ![i] = <<testString1, i>>]
    BY <1>1, <1>3 DEF Stored
  <1>7. ASSUME NEW k \in 0..(i' - 1) PROVE result'[k] = <<testString1, k>>
    <2>1. k \in ResultIdx
      BY <1>1, <1>4, StringFits
    <2>2. k = i \/ k \in 0..(i - 1)
      BY <1>1, <1>4
    <2> QED
      BY <1>3, <1>5, <1>6, <2>1, <2>2
  <1> QED
    BY <1>1, <1>3, <1>7 DEF Reading

LEMMA ReadingNext ==
  ASSUME Careful, RoomForKills, TestTypeOK, TestTypeOK', TestAt, ImageInv, AllNamed,
         Table, Table', StoredNow, OffsetAt, NothingRead, BytesRead, Reading,
         [TestNext]_allVars
  PROVE  Reading'
  <1>1. CASE MakeCall
    <2>1. Op' = Op /\ Running' = Running
      BY <1>1 DEF MakeCall, Op, Running
    <2> QED
      BY <1>1, <2>1, ReadingCalls DEF Reading
  <1>2. CASE LibraryRuns
    <2>1. Op' = Op /\ Running' = Running
      BY <1>2 DEF LibraryRuns, Op, Running
    <2> QED
      BY <1>2, <2>1, ReadingRuns DEF Reading
  <1>3. CASE CallReturned
    BY <1>3, ReadingBegins DEF Reading
  <1>4. CASE ByteRead
    BY <1>4, ReadingGoesOn
  <1>5. CASE ReadEnds
    <2>1. Running /\ Op = "read" /\ test' = test /\ at' = at + 1
      BY <1>5 DEF ReadEnds
    <2>2. /\ test \in 1..6 /\ at \in 1..Len(Tests[test]) /\ Tests[test][at] = "read"
          /\ Len(Tests[test]) \in 3..5
      BY <2>1, AtCall
    <2>3. ASSUME Running', Op' = "read" PROVE FALSE
      <3>1. at + 1 \in 1..Len(Tests[test]) /\ Tests[test][at + 1] = "read"
        BY <2>1, <2>2, <2>3 DEF Running, Op
      <3>2. \A k \in 1..Len(Tests[test]), m \in 1..Len(Tests[test]) :
              Tests[test][k] = "read" /\ Tests[test][m] = "read" => k = m
        BY <2>2, TestsShape
      <3>3. at = at + 1
        BY ONLY <2>2, <3>1, <3>2
      <3>4. at \in Int
        BY ONLY <2>2
      <3> QED
        BY ONLY <3>3, <3>4
    <2> QED
      BY <2>3 DEF Reading
  <1>6. CASE StartTests \/ Report
    <2>1. test' \in 1..6 /\ at' = 1
      BY <1>6, TestsAre DEF StartTests, Report, TestAt, TestTypeOK
    <2>2. Op' = "open"
      BY <2>1, TestsShape DEF Op
    <2> QED
      BY <2>2 DEF Reading
  <1>7. CASE ReportLast \/ Aborts \/ Killed
    BY <1>7 DEF ReportLast, Aborts, Killed, Off, Reading, Running
  <1>8. CASE UNCHANGED allVars
    BY <1>8 DEF allVars, tvars, mlocals, vars, Reading, Running, Op, Behind, fte
  <1> QED
    BY <1>1, <1>2, <1>3, <1>4, <1>5, <1>6, <1>7, <1>8 DEF TestNext, Main

-----------------------------------------------------------------------------
(* What the tests count *)

Counted == failed = {} /\ countTest = at - 1

(* What a loop has read when it ends is what its test expects. *)
LEMMA ReadsExpected ==
  ASSUME TestTypeOK, BytesRead, Reading, ReadEnds
  PROVE  AsExpected(result')
  <1>1. /\ Running /\ waiting /\ pc = "idle" /\ Op = "read"
        /\ result' = Stored /\ result'[i] = Nul
    BY DEF ReadEnds
  <1>2. i \in ResultIdx /\ i \in Nat /\ i <= Length[testString1] /\ Length[testString1] \in Nat
    BY <1>1, StringFits DEF BytesRead
  <1>3. CASE Behind
    BY <1>1, <1>3 DEF Reading, AsExpected, Behind
  <1>4. CASE ~Behind
    <2>1. ret.byte = Nul /\ i = Length[testString1]
      <3> SUFFICES ASSUME ret = [code |-> 0, byte |-> <<testString1, i>>],
                          i < Length[testString1]
                   PROVE  FALSE
        BY <1>1, <1>4 DEF Reading
      <3>1. Stored = [result EXCEPT ![i] = <<testString1, i>>]
        BY DEF Stored
      <3>2. Stored[i] = <<testString1, i>>
        BY <1>2, <3>1 DEF TestTypeOK
      <3>3. <<testString1, i>> # Nul
        BY <1>2, StringBytes
      <3> QED
        BY <1>1, <3>2, <3>3
    <2>2. result' = result
      BY <1>1, <2>1, NulEnds
    <2>3. \A k \in 0..(i - 1) : result[k] = <<testString1, k>>
      BY <1>1, <1>4 DEF Reading
    <2>4. IsTestString(result')
      BY <1>1, <2>1, <2>2, <2>3 DEF IsTestString
    <2> QED
      BY <1>4, <2>4 DEF AsExpected, Behind
  <1> QED
    BY <1>3, <1>4

LEMMA CountedNext ==
  ASSUME TestTypeOK, TestAt, BytesRead, Reading, Counted, [TestNext]_allVars
  PROVE  Counted'
  <1>1. CASE CallReturned \/ ReadEnds
    <2>1. countTest' = countTest + 1 /\ at' = at + 1 /\ failed' = failed
      BY <1>1, ReadsExpected DEF CallReturned, Counts, ReadEnds
    <2>2. at \in Int /\ countTest \in Int
      BY DEF TestTypeOK
    <2> QED
      BY <2>1, <2>2 DEF Counted
  <1>2. CASE Report
    <2>1. test \in 1..6 /\ at > Len(Tests[test])
      BY <1>2, TestsAre DEF Report, TestTypeOK
    <2>2. Len(Tests[test]) \in 3..5 /\ at \in 1..(Len(Tests[test]) + 1)
      BY <2>1, TestsShape DEF TestAt
    <2>3. at - 1 = Len(Tests[test])
      BY <2>1, <2>2
    <2> QED
      BY <1>2, <2>3 DEF Report, Counted
  <1>3. CASE ReportLast \/ Aborts \/ Killed
    BY <1>3 DEF ReportLast, Aborts, Killed, Off, Counted
  <1>4. CASE MakeCall \/ LibraryRuns \/ ByteRead \/ StartTests \/ UNCHANGED allVars
    BY <1>4 DEF MakeCall, LibraryRuns, ByteRead, StartTests, allVars, tvars, mlocals, Counted
  <1> QED
    BY <1>1, <1>2, <1>3, <1>4 DEF TestNext, Main

-----------------------------------------------------------------------------
(* The theorems *)

TestInv == TestTypeOK /\ TestAt /\ ImageInv /\ pc \notin Deletes /\ NothingRead /\ BytesRead

LEMMA TestInvKept ==
  ASSUME Careful
  PROVE  TestSpec => []TestInv
  <1>1. TestInit => TestInv
    <2> SUFFICES ASSUME TestInit PROVE TestInv
      OBVIOUS
    <2>1. Init /\ test = 0
      BY DEF TestInit
    <2> QED
      BY <2>1, TestStarts, ImageStarts DEF TestInv, NothingRead, BytesRead, Running
  <1>2. TestInv /\ [TestNext]_allVars => TestInv'
    <2> SUFFICES ASSUME TestInv, [TestNext]_allVars PROVE TestInv'
      OBVIOUS
    <2>1. TestTypeOK' /\ TestAt'
      BY TestTypeNext, TestAtNext DEF TestInv, ImageInv
    <2>2. ImageInv' /\ pc' \notin Deletes
      BY ImageNext DEF TestInv
    <2>3. NothingRead' /\ BytesRead'
      BY NothingReadNext, BytesReadNext DEF TestInv
    <2> QED
      BY <2>1, <2>2, <2>3 DEF TestInv
  <1> QED
    BY <1>1, <1>2, PTL DEF TestSpec

(* The loops that read stop inside result, which is longer than the string *)
(* the program writes, though no return code stops them.                   *)
THEOREM ReadsFit ==
  ASSUME Careful
  PROVE  TestSpec => []ReadFits
  <1>1. TestInv => ReadFits
    BY StringFits DEF TestInv, BytesRead, ReadFits
  <1> QED
    BY <1>1, TestInvKept, PTL

(* However often the program is run and killed, the image holds at most    *)
(* one file of its name.                                                   *)
THEOREM OneFileKept ==
  ASSUME Careful
  PROVE  TestSpec => []OneTestFile
  <1>1. TestInv => OneTestFile
    BY OneFile DEF TestInv, ImageInv
  <1> QED
    BY <1>1, TestInvKept, PTL

(* What the runs rely on until the image is spoilt, which nothing undoes.  *)
Well ==
  ~spoilt => Spared /\ Table /\ StoredNow /\ OffsetAt /\ Reading /\ Counted

WellInv == TestInv /\ AllNamed /\ Well

LEMMA WellStarts ==
  ASSUME TestInit
  PROVE  AllNamed /\ Well
  <1>1. Init /\ TestTypeOK
    BY TestStarts DEF TestInit
  <1>2. /\ test = 0 /\ at = 1 /\ waiting = FALSE /\ countTest = 0 /\ failed = {} /\ kills = 0
    BY DEF TestInit
  <1>3. /\ LL = <<>> /\ diskFd = NotMounted /\ pc = "idle" /\ size = -1
    BY <1>1 DEF Init
  <1>4. Inodes = {} /\ AllNamed
    BY <1>3 DEF Inodes, OnDisk, AllNamed
  <1>5. Spared
    <2>1. OwnersBut({})
      BY <1>1, OwnersButInit
    <2>2. Cardinality({}) = 0
      BY FS_EmptySet
    <2>3. kills * Longest = 0
      BY <1>2, LongestIs
    <2>4. FewLost({})
      BY <2>2, <2>3 DEF FewLost
    <2>5. diskFd # Mounted
      BY <1>3 DEF Mounted, NotMounted
    <2> QED
      BY <1>3, <2>1, <2>4, <2>5 DEF Spared
  <1>6. ~Running /\ ~HasFile
    BY <1>2 DEF Running, HasFile
  <1>7. Table
    BY <1>3, <1>6 DEF Table, NoneHeld
  <1>8. StoredNow
    BY <1>2 DEF StoredNow, HasWritten
  <1>9. OffsetAt /\ Reading /\ Counted
    BY <1>2, <1>6 DEF OffsetAt, Reading, Counted
  <1> QED
    BY <1>4, <1>5, <1>7, <1>8, <1>9 DEF Well

(* Nothing restores a spoilt image. *)
LEMMA SpoiltForGood ==
  ASSUME TestTypeOK, [TestNext]_allVars, ~spoilt'
  PROVE  ~spoilt
  BY DEF TestNext, Main, StartTests, MakeCall, LibraryRuns, CallReturned, Counts, ByteRead,
         ReadEnds, Report, ReportLast, Aborts, Killed, allVars, tvars

LEMMA WellNext ==
  ASSUME Careful, RoomForKills, WellInv, TestInv', [TestNext]_allVars
  PROVE  AllNamed' /\ Well'
  <1>1. /\ TestTypeOK /\ TestTypeOK' /\ TestAt /\ ImageInv /\ ImageInv' /\ AllNamed
        /\ pc \notin Deletes /\ NothingRead /\ BytesRead /\ TypeOK'
    BY DEF WellInv, TestInv, ImageInv
  <1>2. AllNamed'
    BY <1>1, TestSteps, NamedNext
  <1>3. ASSUME ~spoilt' PROVE Well'
    <2>1. ~spoilt
      BY <1>1, <1>3, SpoiltForGood
    <2>2. Spared /\ Table /\ StoredNow /\ OffsetAt /\ Reading /\ Counted
      BY <2>1 DEF WellInv, Well
    <2>3. Spared'
      BY <1>1, <1>3, <2>2, SparedNext
    <2>4. Table'
      BY <1>1, <2>2, TestTableNext
    <2>5. StoredNow'
      BY <1>1, <2>2, StoredNext
    <2>6. OffsetAt'
      BY <1>1, <2>2, OffsetNext
    <2>7. Reading'
      BY <1>1, <2>2, <2>4, ReadingNext
    <2>8. Counted'
      BY <1>1, <2>2, CountedNext
    <2> QED
      BY <2>3, <2>4, <2>5, <2>6, <2>7, <2>8 DEF Well
  <1> QED
    BY <1>2, <1>3 DEF Well

LEMMA WellKept ==
  ASSUME Careful, RoomForKills
  PROVE  TestSpec => []WellInv
  <1>1. TestInit /\ TestInv => WellInv
    BY WellStarts DEF WellInv
  <1>2. WellInv /\ TestInv' /\ [TestNext]_allVars => WellInv'
    BY WellNext DEF WellInv
  <1> QED
    BY <1>1, <1>2, TestInvKept, PTL DEF TestSpec

(* On a disk with a block to spare for each kill and block of the string,  *)
(* the file holds the whole string from the first write of a run on,       *)
(* between any two calls, whatever earlier runs that were killed have left *)
(* of it, unless one was killed while it made the image.                   *)
THEOREM StringsStored ==
  ASSUME Careful, RoomForKills
  PROVE  TestSpec => []StringStored
  <1>1. ASSUME WellInv PROVE StringStored
    <2> SUFFICES ASSUME ~spoilt, test # 0, ~waiting, test > 1 \/ at > 2
                 PROVE  \E k \in TestFiles : Holds(k, testString1)
      BY DEF StringStored
    <2>1. test \in 0..6
      BY <1>1, TestsAre DEF WellInv, TestInv, TestTypeOK
    <2>2. HasWritten
      BY <2>1 DEF HasWritten
    <2>3. \E k \in Inodes : Holds(k, testString1)
      BY <1>1, <2>2 DEF WellInv, Well, StoredNow
    <2>4. Inodes = TestFiles
      BY <1>1, OneInode DEF WellInv, TestInv, ImageInv
    <2> QED
      BY <2>3, <2>4
  <1> QED
    BY <1>1, WellKept, PTL

(* There every test passes, in every run: no call fails, and each loop     *)
(* reads the string to its '\0', or '\0' at once behind the end.           *)
THEOREM TestsAllPass ==
  ASSUME Careful, RoomForKills
  PROVE  TestSpec => []TestsPass
  <1>1. ASSUME WellInv PROVE TestsPass
    <2> SUFFICES ASSUME ~spoilt
                 PROVE  /\ failed = {}
                        /\ test # 0 /\ at > Len(Tests[test]) => countTest = Len(Tests[test])
      BY DEF TestsPass
    <2>1. failed = {} /\ countTest = at - 1
      BY <1>1 DEF WellInv, Well, Counted
    <2>2. ASSUME test # 0, at > Len(Tests[test]) PROVE countTest = Len(Tests[test])
      <3>1. test \in 1..6
        BY <1>1, <2>2, TestsAre DEF WellInv, TestInv, TestTypeOK
      <3>2. Len(Tests[test]) \in 3..5 /\ at \in 1..(Len(Tests[test]) + 1)
        BY <1>1, <2>2, <3>1, TestsShape DEF WellInv, TestInv, TestAt
      <3> QED
        BY <2>1, <2>2, <3>2
    <2> QED
      BY <2>1, <2>2
  <1> QED
    BY <1>1, WellKept, PTL

=============================================================================
