SPECIFICATION Spec
CONSTANTS
  Machines <- MCFreshMachines
  Unset = Unset
INVARIANT
  WholeBaseTrusted
CHECK_DEADLOCK FALSE
