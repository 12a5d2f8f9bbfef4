SPECIFICATION Spec
CONSTANTS
  c1 = c1
  c2 = c2
  None = None
  Conn <- MCConn
  Fd <- MCFd1
  MaxU64 = 1000
  Scripts <- GetScripts
  RespUnits = 2
  SndBuf = 3
  Pipelining <- MCNone
  Closers <- MCConn
  Resetters <- MCNone
  TryBlock = 2
  ReadCap = 4
INVARIANTS RespondsToOwnClient
CHECK_DEADLOCK FALSE
