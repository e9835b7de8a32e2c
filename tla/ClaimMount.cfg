\* libTinyFS.c:123, "check FS exists".
SPECIFICATION Spec
CONSTANTS
  NBlocks = 5
  DataSize = 2
  Names = {"a", "b"}
  EmptyName = ""
  TextName = "text"
  NewNames = {}
  Buffers = {"one", "two"}
  Length <- MCLength
  Offsets = {}
  Descriptors = {1}
  MaxFD = 2
  AliasedOpens = FALSE
  Collisions = {}
  CrashPoints = {"formatBlock"}
  MountMayFail = FALSE
  Nul = Nul
  TextByte = TextByte
PROPERTIES
  ExistingFSIsFormatted
