\* libTinyFS.c:33, "check number of free blocks (must be >= numBlocks)".
SPECIFICATION Spec
CONSTANTS
  NBlocks = 5
  DataSize = 2
  Names = {"a", "b"}
  EmptyName = ""
  TextName = "text"
  NewNames = {}
  Buffers = {"empty", "one"}
  Length <- MCLength
  Offsets = {}
  Descriptors = {1}
  MaxFD = 2
  AliasedOpens = FALSE
  Collisions = {}
  CrashPoints <- NoCrash
  MountMayFail = FALSE
  Nul = Nul
  TextByte = TextByte
INVARIANTS
  FreeCountBacked
