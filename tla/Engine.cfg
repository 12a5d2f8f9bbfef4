SPECIFICATION EngineSpec
CONSTANTS
  w1 = w1
  w2 = w2
  once = once
  again = again
  relay = relay
  Main = Main
  NoTask = NoTask
  Worker <- MCWorkers
  Task <- MCTasks
  Follow <- MCFollow
  QueueBound = 2
  log = log
  auth = auth
  acl = acl
  audit = audit
  gzip = gzip
  first = first
  last = last
  Filter <- MCFilter
  FilterName <- MCFilterName
  Deps <- MCDeps
  Phase <- MCPhase
  Group <- MCGroup
  Parts <- MCParts
  calc = calc
  admin = admin
  stats = stats
  deep = deep
  bad = bad
  side = side
  extra = extra
  odd = odd
  twins = twins
  None = None
  Dangling = Dangling
  Wrapper <- DispatchedWrapper
  Name <- MCName
  Part <- MCPart
  Method <- MCMethod
  Descr <- DispatchedDescr
  Library <- ApartLibrary
  Services <- ApartServices
  Requests <- MCRequests
INVARIANTS QueueInv DispatcherInv RegisteredIsReachable ServesMostSpecific 
PROPERTIES RunsInOrderOfPosts PostsArrive ReturnsToSockets FiltersKept KeepsTable
CHECK_DEADLOCK FALSE
