SPECIFICATION FairSpec
CONSTANTS
  Grace = 2
  KillTimeout = 1
CHECK_DEADLOCK FALSE
INVARIANTS
  TypeOK
  CleanupBounded
PROPERTIES
  IsAgentCall
  Ends
