CONSTANTS
  Size = 2
  Rate = 3
  Refill = 1
  MaxCmds = 2
  MaxSessions = 2
SPECIFICATION FairSpec
INVARIANTS
  StreamSound
  IdsWhereWanted
PROPERTIES
  ImplementsPipe
  Flushed
CHECK_DEADLOCK FALSE
