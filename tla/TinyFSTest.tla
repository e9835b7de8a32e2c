----------------------------- MODULE TinyFSTest -----------------------------
(***************************************************************************)
(* The test program tinyFSTest.c over TinyFS: six tests of one file, each  *)
(* a few calls that count the ones that went well.  The program may be run *)
(* again over the image it left, and be killed between any two steps.      *)
(*                                                                         *)
(* It takes -1 for failure, which no call returns, so it never exits early *)
(* and goes on with whatever code tfs_openFile gave it for a descriptor.   *)
(*                                                                         *)
(* spoilt is a history variable, read by no action: whether a mount has    *)
(* failed, or made the image anew over one that was there, or a process    *)
(* was killed while it filled a new image or linked its free blocks.       *)
(***************************************************************************)
EXTENDS TinyFS

CONSTANTS
  testfile,    \* the name of the file
  testString1, \* the buffer it writes
  SeekPast,    \* 100, beyond the end of the string
  SeekInto,    \* 10, inside it
  ResultSize,  \* 100, the size of result1 and the others
  MaxKills     \* bound: kills of the program

ASSUME TestAssumption ==
  /\ Names = {testfile} /\ NewNames = {} /\ Buffers = {testString1}
  /\ ResultSize \in Nat /\ SeekPast \in Nat /\ MaxKills \in Nat
  /\ Length[testString1] \in 1..(ResultSize - 1)
  /\ SeekInto \in 1..(Length[testString1] - 1)
  /\ SeekPast >= Length[testString1]
  /\ {SeekInto, SeekPast} \subseteq Offsets
  /\ 0..MaxFD \subseteq Descriptors  \* what tfs_openFile returns
  /\ "idle" \in CrashPoints          \* main returns

VARIABLES
  test, at,      \* the test that runs, 0 when no process does; its call
  waiting,       \* whether the call is made and its result not yet seen
  fd, i, result, countTest,  \* locals of main
  failed,        \* the tests of this process that printed Failed
  kills,         \* kills so far
  spoilt         \* history

mlocals == <<fd, i, result, countTest>>
tvars == <<test, at, waiting, mlocals, failed, kills, spoilt>>
allVars == <<vars, tvars>>

(* The tests, call by call. *)
Test1 == <<"open", "write", "close">>
Test2 == <<"open", "write", "read", "close">>
Test3 == <<"open", "read", "close">>
Test4 == <<"open", "seekPast", "read", "close">>
Test5 == <<"open", "getTimeStamp", "close">>
Test6 == <<"open", "seekInto", "write", "read", "close">>

Tests == <<Test1, Test2, Test3, Test4, Test5, Test6>>

Op == Tests[test][at]

Running == test # 0 /\ at <= Len(Tests[test])

ResultIdx == 0..(ResultSize - 1)

NoResult == [k \in ResultIdx |-> Nul]

TestTypeOK ==
  /\ TypeOK
  /\ test \in 0..Len(Tests) /\ at \in 1..6
  /\ waiting \in BOOLEAN
  /\ fd \in Int /\ i \in Nat /\ countTest \in 0..5
  /\ result \in [ResultIdx -> Bytes]
  /\ failed \subseteq 1..Len(Tests)
  /\ kills \in 0..MaxKills
  /\ spoilt \in BOOLEAN

Off ==
  /\ test' = 0 /\ at' = 1 /\ waiting' = FALSE
  /\ fd' = -1 /\ i' = 0 /\ result' = NoResult /\ countTest' = 0
  /\ failed' = {}

TestInit ==
  /\ Init
  /\ test = 0 /\ at = 1 /\ waiting = FALSE
  /\ fd = -1 /\ i = 0 /\ result = NoResult /\ countTest = 0
  /\ failed = {} /\ kills = 0 /\ spoilt = FALSE

-----------------------------------------------------------------------------
(* main *)

StartTests ==
  /\ test = 0 /\ test' = 1
  /\ UNCHANGED <<vars, at, waiting, mlocals, failed, kills, spoilt>>

(* A call on a bad descriptor, or with the disk not mounted. *)
Rejected == (fd < 0 \/ diskFd = NotMounted) /\ Refused

(* The call of the library, up to its first block write. *)
Makes(op) ==
  \/ op = "open" /\ OpenFile(testfile)
  \/ op = "write" /\ (WriteFile(fd, testString1) \/ Rejected)
  \/ op = "read" /\ (ReadByte(fd) \/ Rejected)
  \/ op = "seekPast" /\ (Seek(fd, SeekPast) \/ Rejected)
  \/ op = "seekInto" /\ (Seek(fd, SeekInto) \/ Rejected)
  \/ op = "getTimeStamp" /\ (GetTimeStamp(fd) \/ Rejected)
  \/ op = "close" /\ (CloseFile(fd) \/ Rejected)

MakeCall ==
  /\ Running /\ ~waiting
  /\ Makes(Op)
  /\ waiting' = TRUE
  /\ UNCHANGED <<test, at, mlocals, failed, kills, spoilt>>

(* The mount fails, or creates the image over the one that is there.       *)
MountSpoils == MountFails \/ (pc = "mount" /\ pc' = "create" /\ size # -1)

LibraryRuns ==
  /\ waiting /\ Step
  /\ spoilt' = (spoilt \/ MountSpoils)
  /\ UNCHANGED <<test, at, waiting, mlocals, failed, kills>>

(* The call has returned something other than -1: the test counts it. *)
Counts ==
  /\ at' = at + 1 /\ waiting' = FALSE
  /\ countTest' = countTest + 1
  /\ fd' = IF Op = "open" THEN ret.code ELSE fd
  /\ IF Op = "open" THEN i' = 0 /\ result' = NoResult ELSE UNCHANGED <<i, result>>
  /\ UNCHANGED <<vars, test, failed, kills, spoilt>>

CallReturned ==
  /\ Running /\ waiting /\ pc = "idle"
  /\ Op # "read" /\ ret.code # -1
  /\ Counts

(* result[i] when the call has returned: the byte read, '\0' at the end of *)
(* the file; on another error it is what it was.                           *)
Stored ==
  IF ret.code \in {0, TFS_ERROR_BAD_ALLOC} THEN [result EXCEPT ![i] = ret.byte] ELSE result

(* Mutation: only -1 ends the loop. *)
ByteReadOn ==
  /\ Running /\ waiting /\ pc = "idle"
  /\ Op = "read" /\ ret.code # -1
  /\ result' = Stored
  /\ i' = i + 1 /\ waiting' = FALSE
  /\ UNCHANGED <<vars, test, at, fd, countTest, failed, kills, spoilt>>

(* The byte is kept and the next one asked for. *)
ByteRead ==
  /\ Running /\ waiting /\ pc = "idle"
  /\ Op = "read" /\ ret.code # -1
  /\ result' = Stored
  /\ result'[i] # Nul
  /\ i' = i + 1 /\ waiting' = FALSE
  /\ UNCHANGED <<vars, test, at, fd, countTest, failed, kills, spoilt>>

(* strcmp: the bytes before the first '\0' are those of testString1.       *)
IsTestString(r) ==
  LET n == Length[testString1]
  IN  /\ \A k \in 0..(n - 1) : r[k] = <<testString1, k>>
      /\ r[n] = Nul

(* What the test expects to have read: after the seek past the end, "".    *)
AsExpected(r) ==
  IF \E k \in 1..at : Tests[test][k] = "seekPast" THEN r[0] = Nul ELSE IsTestString(r)

(* A '\0', read, stored at the end of the file or left there, ends the     *)
(* loop.                                                                   *)
ReadEnds ==
  /\ Running /\ waiting /\ pc = "idle"
  /\ Op = "read"
  /\ result' = Stored
  /\ result'[i] = Nul
  /\ countTest' = IF AsExpected(result') THEN countTest + 1 ELSE countTest
  /\ at' = at + 1 /\ waiting' = FALSE
  /\ UNCHANGED <<vars, test, fd, i, failed, kills, spoilt>>

(* Mutation: countTest is not set back. *)
ReportKeepsCount ==
  /\ test # 0 /\ at > Len(Tests[test]) /\ test < Len(Tests)
  /\ failed' = IF countTest = Len(Tests[test]) THEN failed ELSE failed \cup {test}
  /\ test' = test + 1 /\ at' = 1
  /\ UNCHANGED <<vars, waiting, mlocals, kills, spoilt>>

(* Passed or Failed is printed; the next test begins. *)
Report ==
  /\ test # 0 /\ at > Len(Tests[test]) /\ test < Len(Tests)
  /\ failed' = IF countTest = Len(Tests[test]) THEN failed ELSE failed \cup {test}
  /\ test' = test + 1 /\ at' = 1 /\ countTest' = 0
  /\ UNCHANGED <<vars, waiting, fd, i, result, kills, spoilt>>

(* After the last report main returns, and the process ends. *)
ReportLast ==
  /\ test = Len(Tests) /\ at > Len(Tests[test])
  /\ Die
  /\ Off
  /\ UNCHANGED <<kills, spoilt>>

(* index(3) finds the descriptor among the bytes of the list's head        *)
(* pointer, which tfs_openFile has just set and which stays until the file *)
(* is closed.  So it finds it in the first call on the descriptor or not   *)
(* at all, and in all six tests that is a call that uses the entry get did *)
(* not find.  (The other outcomes of IndexHit take a tfs_closeFile or a    *)
(* tfs_deleteFile right after the open.)                                   *)
FirstCallHits == at = 2 /\ IndexHit(fd) /\ Die

(* A failed assertion of the library, or a bad pointer in it, ends the     *)
(* process too.                                                            *)
Aborts ==
  /\ Running /\ ~waiting
  /\ ListMissing \/ FirstCallHits
  /\ Off
  /\ UNCHANGED <<kills, spoilt>>

(* Where a kill leaves an image cut short, or one whose free list is.      *)
Making == {"create", "formatBlock"}

Killed ==
  /\ test # 0 /\ kills < MaxKills
  /\ Crash
  /\ Off
  /\ kills' = kills + 1
  /\ spoilt' = (spoilt \/ pc \in Making)

-----------------------------------------------------------------------------
(* The specification *)

Main ==
  \/ MakeCall \/ LibraryRuns \/ CallReturned \/ ByteRead \/ ReadEnds
  \/ Report \/ ReportLast \/ Aborts

TestNext == StartTests \/ Main \/ Killed

(* A program that runs goes on; nobody has to start it. *)
TestSpec == TestInit /\ [][TestNext]_allVars /\ WF_allVars(Main)

-----------------------------------------------------------------------------
(* Properties *)

TestFiles == {k \in Inodes : NameOf(disk[k]) = testfile}

(* Every test passes, in the first run and in every later one, also over   *)
(* the image of runs that were killed or died on a bad pointer, unless the *)
(* image is spoilt (see above): a kill costs the image the blocks of one   *)
(* string at most, and they are there to spare for each.                   *)
TestsPass ==
  ~spoilt =>
    /\ failed = {}
    /\ test # 0 /\ at > Len(Tests[test]) => countTest = Len(Tests[test])

(* The reading loops stop before the end of result, though no code of      *)
(* tfs_readByte stops them: the '\0' they find is the one it stores at the *)
(* end of the file, or on another error one that result was filled with.   *)
ReadFits == Running /\ Op = "read" => i < ResultSize

(* Once a test has written the string and as long as the process lives,    *)
(* the file holds it, whole, whenever no call runs.  On an image that was  *)
(* spoilt this fails, and "Test 1: Passed" is printed all the same.        *)
StringStored ==
  /\ ~spoilt
  /\ test # 0 /\ ~waiting
  /\ test > 1 \/ at > 2
  => \E k \in TestFiles : Holds(k, testString1)

(* No run makes a second file of the name. *)
OneTestFile == HasFS => Cardinality(TestFiles) <= 1

(* A run ends. *)
TestEnds == test # 0 ~> test = 0

=============================================================================
