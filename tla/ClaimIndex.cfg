\* One disk of a block of four bytes, ints from -8 to 7: block 4 begins at byte
\* 16, which is 0.
SPECIFICATION DiskSpec
CONSTANTS
  Names = {x}
  FDs = {0}
  Descriptors = {0}
  Sizes = {4}
  Indices = {0, 4}
  Fills = {Dollar}
  Zero = Zero
  BlockSize = 4
  IntRange = 16
  WriteMayFail = FALSE
  NoFile = NoFile
  Closed = Closed
INVARIANTS
  IndexChecked
