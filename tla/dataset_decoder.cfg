SPECIFICATION Spec
CONSTANTS
  UsizeMax = 127
  NoLimit = NoLimit
  Overflow = Overflow
  Anything = Anything
  IsizeMax = 63
  ElementSize <- MCElementSize
  HeaderSize = 3
  PairSize = 6
  FirstPairs = 4
  MinText = 2
  WordSize = 2
  FixedCaps <- MCCaps
  FileSize = 3
  Datasets <- MCDatasets
  Calls <- MCCalls
INVARIANTS
  PaidBeforeHeld
  BuffersFitObjects
  ChargesExactly
  RefusedOnlyOverBudget
  CountsMathematically
  DecodesAsDescribed
CHECK_DEADLOCK FALSE
