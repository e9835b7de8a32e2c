\* Two names, one of them also given by a rename and then opened, in a table of
\* two entries; mounts that fail or make the image anew, unmounts under open
\* files, disks killed in mid-format, a descriptor whose byte index may find.
SPECIFICATION Spec
CONSTANTS
  NBlocks = 4
  DataSize = 2
  Names = {"a", "b"}
  EmptyName = ""
  TextName = "text"
  NewNames = {"b"}
  Buffers = {"two"}
  Length <- MCLength
  Offsets = {0}
  Descriptors = {2}
  MaxFD = 2
  AliasedOpens = TRUE
  Collisions = {2}
  CrashPoints = {"formatBlock"}
  MountMayFail = TRUE
  Nul = Nul
  TextByte = TextByte
INVARIANTS
  TypeOK
  TableOK
  CallOK
CONSTRAINT
  Bounded
