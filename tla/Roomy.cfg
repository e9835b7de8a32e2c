\* Room for every file at its longest: no call fails, no block is lost.
SPECIFICATION Spec
CONSTANTS
  NBlocks = 10
  DataSize = 2
  Names = {"a", "b"}
  EmptyName = ""
  TextName = "text"
  NewNames = {"b"}
  Buffers = {"one", "two"}
  Length <- MCLength
  Offsets = {0, 2}
  Descriptors = {1}
  MaxFD = 3
  AliasedOpens = FALSE
  Collisions = {}
  CrashPoints <- NoCrash
  MountMayFail = FALSE
  Nul = Nul
  TextByte = TextByte
  MayFail = FALSE
  Blank = Blank
  Torn = Torn
  None = None
INVARIANTS
  NoLeak
  OwnersFound
PROPERTIES
  ReadReturns
  ImplementsStore
  CallsHaveEffect
  CallReturns
