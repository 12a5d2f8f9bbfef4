SPECIFICATION Spec
CONSTANTS
  c1 = c1
  c2 = c2
  None = None
  Conn <- MCOne
  Fd <- MCFd1
  MaxU64 = 1000
  Scripts <- ClosingScripts
  RespUnits = 2
  SndBuf = 3
  Pipelining <- MCOne
  Closers <- MCOne
  Resetters <- MCNone
  TryBlock = 2
  ReadCap = 4
INVARIANTS NoUseAfterDelete
CHECK_DEADLOCK FALSE
