SPECIFICATION Spec
CONSTANTS
  Grace = 2
  KillTimeout = 1
CHECK_DEADLOCK FALSE
INVARIANTS
  Escalates
