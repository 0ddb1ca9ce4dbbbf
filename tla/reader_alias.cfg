SPECIFICATION Spec
CONSTANTS
  UsizeMax = 40
  NoLimit = NoLimit
  Overflow = Overflow
  NoName = NoName
  NoLink = NoLink
  NoVersion = NoVersion
  Root = "file"
  Groups <- MCGroups
  Datasets <- MCDatasets
  Names <- MCNames
  Rank <- MCRank
  Values <- MCValues
  MajorOf <- MCMajorOf
  FieldPlan <- MCPlan
  WordSize = 1
  PairSize = 1
  Reads <- SharedReads
  MaxGraphs = 3
INVARIANTS
  AliasesChargedOnce
CHECK_DEADLOCK FALSE
