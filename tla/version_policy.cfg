SPECIFICATION Spec
CONSTANTS
  DigitValue <- MCDigits
  Letters = {"a"}
  Others = {"?"}
  Absent = Absent
  Malformed = Malformed
  Anything = Anything
  U64Max = 10
  Texts <- MCTexts
  Lists <- MCLists
INVARIANTS
  ParsesGrammar
  EnforcedAsDocumented
  SamePolicyForSameMajors
CHECK_DEADLOCK FALSE
