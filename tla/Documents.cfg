SPECIFICATION DocumentsSpec
CONSTANTS
  top = top
  middle = middle
  leaf = leaf
  side = side
  NoNode = NoNode
  Element <- MCNamesElement
  Parent <- MCParentOf
  Prefix = {"", "p"}
  Uri = {"u", "v"}
  Name = {"m", "n"}
  MaxEntries = 2
  Documents <- MCDocuments
  Second <- MCSecond
  Encodings <- MCEncodings
  DamageKids = 1
  Values <- MCValues
  Broken = 12
  Locations <- MCLocations
  Bodies <- MCBodies
  ParameterValues <- MCFewValues
  Code <- MCCode
  Streams <- MCStreams
  TryBlock = 12
  MinPart = 3
  Before <- MCBefore
  Lower <- MCLower
  plain = plain
  nothing = nothing
  failing = failing
  own = own
  strange = strange
  late = late
  m1 = m1
  m2 = m2
  Nobody = Nobody
  WebRequest <- MCWebRequest
  BodyPool <- MCPool
  Body <- MCBody
  Service <- MCService
  Throwing <- MCThrowing
  Truncated <- MCTruncated
  Unreadable <- MCUnreadable
  Slow <- MCSlow
  MaxDispatches = 2
INVARIANTS   JsonInv ParametersInv  
PROPERTIES NamespaceReaches DocumentsEnd
CHECK_DEADLOCK FALSE
