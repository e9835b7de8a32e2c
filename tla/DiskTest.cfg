\* Three disks of three blocks of two bytes.
SPECIFICATION Spec
CONSTANTS
  x = x
  y = y
  z = z
  Names = {x, y, z}
  TestDisks <- MCTestDisks
  NumBlocks = 3
  TestBlocks <- MCTestBlocks
  Dollar = Dollar
  FDs = {0, 1, 2}
  Descriptors = {}
  Sizes = {}
  Indices = {}
  Fills = {Dollar}
  Zero = Zero
  BlockSize = 2
  IntRange = 32
  WriteMayFail = TRUE
  NoFile = NoFile
  Closed = Closed
INVARIANTS
  TypeOK
  DisksWhole
  SuccessIsTrue
  FailureIsEarned
PROPERTIES
  FoundIsKept
  TestEnds
