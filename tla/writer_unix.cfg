CONSTANTS
  w1 = w1
  w2 = w2
  m600 = m600
  m644 = m644
  Writers <- MCWriters
  Modes <- MCModes
  Default <- MCDefault
  Windows = FALSE
  BaseLists <- MCBaseLists
  MaxFaults = 2
  MaxCrashes = 1
  MaxReshares = 1
SPECIFICATION Spec
INVARIANTS
  NothingLeftBehind
PROPERTIES
  ExistingModeKept
  ImplementsAtomicReplace
  FailedWritesKeepDestination
  WritersReturn
CHECK_DEADLOCK FALSE
