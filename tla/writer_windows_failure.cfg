CONSTANTS
  w1 = w1
  w2 = w2
  m600 = m600
  m644 = m644
  Writers <- OneWriter
  Modes <- MCModes
  Default <- MCDefault
  Windows = TRUE
  BaseLists <- MCBaseLists
  MaxFaults = 2
  MaxCrashes = 0
  MaxReshares = 0
SPECIFICATION Spec
PROPERTY
  FailedWritesKeepDestination
CHECK_DEADLOCK FALSE
