SPECIFICATION FairSpec
CONSTANTS
  c1 = c1
  c2 = c2
  None = None
  Conn <- MCConn
  Fd <- MCFd1
  MaxU64 = 1000
  Scripts <- ShortScripts
  RespUnits = 2
  SndBuf = 20
  Pipelining <- MCConn
  Closers <- MCConn
  Resetters <- MCConn
  TryBlock = 2
  ReadCap = 4
INVARIANTS NothingLeftBehind
PROPERTIES ContextsReclaimed
CHECK_DEADLOCK FALSE
