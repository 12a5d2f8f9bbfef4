SPECIFICATION Spec
CONSTANTS
  c1 = c1
  c2 = c2
  None = None
  Conn <- MCOne
  Fd <- MCFd1
  MaxU64 = 1000
  Scripts <- AllScripts
  RespUnits = 2
  SndBuf = 1
  Pipelining <- MCOne
  Closers <- MCOne
  Resetters <- MCOne
  TryBlock = 2
  ReadCap = 4
INVARIANTS ServerInv OneMessageAtOnce RequestsCutWhole
PROPERTIES RequestsInOrder
CHECK_DEADLOCK FALSE
