SPECIFICATION Spec
CONSTANTS
  c1 = c1
  c2 = c2
  None = None
  Conn <- MCOne
  Fd <- MCFd1
  MaxU64 = 1000
  Scripts <- GetScripts
  RespUnits = 2
  SndBuf = 3
  Pipelining <- MCOne
  Closers <- MCNone
  Resetters <- MCNone
  TryBlock = 2
  ReadCap = 4
PROPERTIES GivesUpOnlyAtEof
CHECK_DEADLOCK FALSE
