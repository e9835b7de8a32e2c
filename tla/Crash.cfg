\* The process is killed between any two block writes, formatting apart; the
\* disk fills up.
SPECIFICATION Spec
CONSTANTS
  NBlocks = 4
  DataSize = 1
  Names = {"a", "b"}
  EmptyName = ""
  TextName = "text"
  NewNames = {}
  Buffers = {"one", "two"}
  Length <- MCLength
  Offsets = {}
  Descriptors = {1}
  MaxFD = 2
  AliasedOpens = FALSE
  Collisions = {}
  CrashPoints <- MCCrashPoints
  MountMayFail = FALSE
  Nul = Nul
  TextByte = TextByte
  MayFail = TRUE
  Blank = Blank
  Torn = Torn
  None = None
INVARIANTS
  FreeListSound
  FreeBlocksErased
  NoCrossLink
  OneBuffer
  StoreInv
PROPERTIES
  SuperblockKept
  OthersUntouched
  WriteStores
  ImplementsStore
