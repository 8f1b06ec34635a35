SPECIFICATION Spec
CONSTANTS
  Me = me
  Guests = {g1}
  Bots = {b1}
  Founder = me
  MaxPlayers = 2
  Trigger = 0
  AutoStart = TRUE
  AutoLock = TRUE
  LowRank = {b1}
  Banned = {}
  EchoCounts = {0, 1}
  UINT = 6
  Reports <- MCReports
  MySyncs = {1}
INVARIANTS
  TypeOK
  AutoStartReady
