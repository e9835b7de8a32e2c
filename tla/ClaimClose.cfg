\* libTinyFS.c:216, "remove the fd and free data".
SPECIFICATION Spec
CONSTANTS
  NBlocks = 5
  DataSize = 2
  Names = {"a", "b"}
  EmptyName = ""
  TextName = "text"
  NewNames = {}
  Buffers = {"one", "two"}
  Length <- MCLength
  Offsets = {}
  Descriptors = {1, 2}
  MaxFD = 2
  AliasedOpens = FALSE
  Collisions = {}
  CrashPoints <- NoCrash
  MountMayFail = FALSE
  Nul = Nul
  TextByte = TextByte
PROPERTIES
  CloseRemovesItsFD
