SPECIFICATION FairSpec
CONSTANTS
  MaxSessions = 3
INVARIANTS
  PingsArePresent
  DestroyAlone
  FreshUsers
PROPERTIES
  EndsClean
