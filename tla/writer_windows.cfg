CONSTANTS
  w1 = w1
  w2 = w2
  m600 = m600
  m644 = m644
  Writers <- MCWriters
  Modes <- MCModes
  Default <- MCDefault
  Windows = TRUE
  BaseLists <- MCBaseLists
  MaxFaults = 3
  MaxCrashes = 1
  MaxReshares = 0
SPECIFICATION Spec
INVARIANTS
  WholeOrOriginal
CHECK_DEADLOCK FALSE
