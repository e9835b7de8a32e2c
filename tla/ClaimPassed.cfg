\* Killed while the image is made: "Test 1: Passed" and nothing is stored.
SPECIFICATION TestSpec
CONSTANTS
  NBlocks = 5
  DataSize = 5
  Names = {"testfile"}
  EmptyName = ""
  TextName = "text"
  NewNames = {}
  Buffers = {"test test"}
  Length <- MCLength
  Offsets = {1, 4}
  Descriptors = {0, 1, 2, 3, 4, 5, 6}
  MaxFD = 6
  AliasedOpens = FALSE
  Collisions = {}
  CrashPoints <- MCAnywhere
  MountMayFail = FALSE
  Nul = Nul
  TextByte = TextByte
  testfile = "testfile"
  testString1 = "test test"
  SeekPast = 4
  SeekInto = 1
  ResultSize = 4
  MaxKills = 1
INVARIANTS
  PassedStores
