\* libTinyFS.c:170, "file open".
SPECIFICATION Spec
CONSTANTS
  NBlocks = 5
  DataSize = 2
  Names = {"a", "b"}
  EmptyName = ""
  TextName = "text"
  NewNames = {"b"}
  Buffers = {"one", "two"}
  Length <- MCLength
  Offsets = {}
  Descriptors = {1}
  MaxFD = 2
  AliasedOpens = TRUE
  Collisions = {}
  CrashPoints <- NoCrash
  MountMayFail = FALSE
  Nul = Nul
  TextByte = TextByte
INVARIANTS
  OpenFilesDistinct
