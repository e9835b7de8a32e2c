\* tinyFSTest.c:26, the test of what tfs_openFile returns.
SPECIFICATION Spec
CONSTANTS
  NBlocks = 5
  DataSize = 2
  Names = {"a", "b", "c"}
  EmptyName = ""
  TextName = "text"
  NewNames = {}
  Buffers = {"one", "two"}
  Length <- MCLength
  Offsets = {}
  Descriptors = {1}
  MaxFD = 3
  AliasedOpens = FALSE
  Collisions = {}
  CrashPoints <- NoCrash
  MountMayFail = FALSE
  Nul = Nul
  TextByte = TextByte
PROPERTIES
  OpenGivesFile
