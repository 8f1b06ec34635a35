SPECIFICATION FairSpec
CONSTANTS
  Me = me
  Guests = {g1}
  Bots = {}
  Founder = me
  MaxPlayers = 2
  Trigger = 2
  AutoStart = FALSE
  AutoLock = FALSE
  LowRank = {g1}
  Banned = {g1}
  EchoCounts = {0, 1}
  UINT = 6
  Reports <- MCReports
  MySyncs = {1}
INVARIANTS
  HostCountsOk
  GraceTimes
PROPERTIES
  AutoSpecAfterGrace
  AutoSpecWorks
