\* A string of three bytes in blocks of five, a block to spare for each kill;
\* mounts that fail, images left half made, any descriptor found by index.
SPECIFICATION TestSpec
CONSTANTS
  NBlocks = 5
  DataSize = 5
  Names = {"testfile"}
  EmptyName = ""
  TextName = "text"
  NewNames = {}
  Buffers = {"test test"}
  Length <- MCLength
  Offsets = {1, 4}
  Descriptors = {0, 1, 2, 3, 4, 5, 6}
  MaxFD = 6
  AliasedOpens = FALSE
  Collisions = {1, 2, 3, 4, 5, 6}
  CrashPoints <- MCAnywhere
  MountMayFail = TRUE
  Nul = Nul
  TextByte = TextByte
  testfile = "testfile"
  testString1 = "test test"
  SeekPast = 4
  SeekInto = 1
  ResultSize = 4
  MaxKills = 2
INVARIANTS
  TestTypeOK
  TestsPass
  ReadFits
  StringStored
  OneTestFile
PROPERTIES
  TestEnds
