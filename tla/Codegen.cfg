SPECIFICATION CodegenSpec
CONSTANTS
  Headers <- MCHeaders
  BeginsWith <- MCBegins
  OptionParam <- MCOptionParam
  Projects <- MCProjects
  Files <- MCFiles
  Lists <- MCTypeLists
  Project1 <- MCProject1
  Interfaces <- MCInterfaces
  Tree <- MCTree
  Jobs <- MCAllJobs
  Included <- MCIncluded
  Trees <- MCTrees
INVARIANTS  IncludesInv TypeNamesInv TreeSaysDeclared 
PROPERTIES ParsersEnd
CHECK_DEADLOCK FALSE
