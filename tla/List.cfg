\* Three nodes, positions from before the list to one past the fullest.
SPECIFICATION Spec
CONSTANTS
  Nodes = {n1, n2, n3}
  NULL = NULL
  Data = {"a", "b", "c"}
  Key <- MCKey
  Positions <- MCPositions
  Keys = {0, 7, 8}
INVARIANTS
  TypeOK
  ListSound
  NodesOwned
  WalkSound
PROPERTIES
  ImplementsList
  WalksEnd
