SPECIFICATION Spec
CONSTANTS
  UsizeMax = 40
  NoLimit = NoLimit
  Overflow = Overflow
  NoName = NoName
  NoLink = NoLink
  NoVersion = NoVersion
  Root = "file"
  Groups <- MCGroups
  Datasets <- MCDatasets
  Names <- MCNames
  Rank <- MCRank
  Values <- MCValues
  MajorOf <- MCMajorOf
  FieldPlan <- MCPlan
  WordSize = 1
  PairSize = 1
  Reads <- MCReads
  MaxGraphs = 3
INVARIANTS
  GraphsDecodedOnce
  OnlyHardLinksFollowed
  VersionFirst
  GraphsCountedFirst
  LimitsRespected
  NodeLedgerExact
  AcceptsExactly
  ReturnsDescribed
PROPERTIES
  Terminates
CHECK_DEADLOCK FALSE
