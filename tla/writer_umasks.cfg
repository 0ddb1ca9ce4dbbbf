CONSTANTS
  w1 = w1
  w2 = w2
  m600 = m600
  m644 = m644
  Writers <- MCWriters
  Modes <- MCModes
  Default <- MCDefault
  Windows = FALSE
  BaseLists <- MCBaseLists
  MaxFaults = 0
  MaxCrashes = 0
  MaxReshares = 0
SPECIFICATION Spec
PROPERTY
  ModeKept
CHECK_DEADLOCK FALSE
