\* Two disks of two blocks of two bytes and a byte more; block numbers
\* from one below the first to one past the last.
SPECIFICATION DiskSpec
CONSTANTS
  Names = {x, y}
  FDs = {0, 1}
  Descriptors = {0, 1}
  Sizes <- MCSizes
  Indices <- MCIndices
  Fills = {Dollar}
  Zero = Zero
  BlockSize = 2
  IntRange = 32
  WriteMayFail = TRUE
  NoFile = NoFile
  Closed = Closed
INVARIANTS
  DiskTypeOK
PROPERTIES
  ImplementsBlockDevice
  SizeKept
  OpenReturns
