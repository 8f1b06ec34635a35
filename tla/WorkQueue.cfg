SPECIFICATION WorkerFairSpec
CONSTANTS
  i1 = i1
  i2 = i2
  i3 = i3
  i4 = i4
  Items = {i1, i2, i3, i4}
  Priority <- MCPriority
  Kept = {i1, i3}
  NULL = NULL
INVARIANTS
  WorkerTypeOK
  NoLostWakeUp
  NothingLeft
PROPERTIES
  ImplementsPool
  Served
  WaitReturns
\* When the owner has joined the worker, both are finished.
CHECK_DEADLOCK FALSE
