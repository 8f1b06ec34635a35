SPECIFICATION Spec
CONSTANTS
  MaxSessions = 3
INVARIANT
  RetryConnects
