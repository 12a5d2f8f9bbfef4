SPECIFICATION StructuresSpec
CONSTANTS
  p1 = p1
  p2 = p2
  x = x
  NUL = NUL
  Byte = {x, NUL}
  TableStep = 2
  Id <- MCPools
  Sizes <- MCSizes
  Puts <- MCPuts
  MaxPools = 1
  MaxBytes <- MCBytes
  MaxChunks <- MCChunks
  a1 = a1
  a2 = a2
  b1 = b1
  b2 = b2
  t1 = t1
  t2 = t2
  None = None
  Node <- MCNode
  Kind <- MCKind
  Label <- MCLabel
  AnyOrder = FALSE
INVARIANTS LendingInv ContentsInv TreeInv
PROPERTIES PoolsKeepBytes ChildrenAsCalled ImplementsForest
SYMMETRY MCSymmetry
CHECK_DEADLOCK FALSE
