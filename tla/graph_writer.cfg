CONSTANTS
  None = None
  NulTexts <- MCNulTexts
  IllegalNames <- MCIllegalNames
  I64Max = 7
  MaxRank = 2
  Unlimited = 15
  DefaultVersion = "1.0.8"
  MaxGraphs = 3
  MaxRounds = 2
  Requests <- MCRequests
SPECIFICATION Spec
INVARIANTS
  TypeOK
  PreflightSuffices
  WrittenIsReadable
  ReadsBackAsDocumented
  ValidatedIsLossless
PROPERTIES
  RereadIsStable
CHECK_DEADLOCK FALSE
