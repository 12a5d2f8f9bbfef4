SPECIFICATION Spec
CONSTANTS
  c1 = c1
  c2 = c2
  None = None
  Conn <- MCConn
  Fd <- MCFd1
  MaxU64 = 1000
  Scripts <- ReuseScripts
  RespUnits = 2
  SndBuf = 3
  Pipelining <- MCConn
  Closers <- MCOne
  Resetters <- MCOne
  TryBlock = 2
  ReadCap = 4
INVARIANTS ClientsMatchSockets ResponsesInOrder
PROPERTIES AnswersEveryRequest
CHECK_DEADLOCK FALSE
