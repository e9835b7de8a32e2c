\* libTinyFS.c:117, "create the disk and open it".
SPECIFICATION Spec
CONSTANTS
  NBlocks = 5
  DataSize = 2
  Names = {"a", "b"}
  EmptyName = ""
  TextName = "text"
  NewNames = {}
  Buffers = {"one", "two"}
  Length <- MCLength
  Offsets = {}
  Descriptors = {1}
  MaxFD = 2
  AliasedOpens = FALSE
  Collisions = {}
  CrashPoints <- NoCrash
  MountMayFail = TRUE
  Nul = Nul
  TextByte = TextByte
PROPERTIES
  MountKeepsFS
