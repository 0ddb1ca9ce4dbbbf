SPECIFICATION Spec
CONSTANTS
  Machines <- MCMachines
  Unset = Unset
INVARIANTS
  WalksAgree
  TakenAsDocumented
  
  ChosenAsInAtomicWrite
CHECK_DEADLOCK FALSE
