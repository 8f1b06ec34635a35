SPECIFICATION Spec
CONSTANTS
  Me = me
  Guests = {g1, g2}
  Bots = {}
  Founder = g1
  MaxPlayers = 2
  Trigger = 0
  AutoStart = TRUE
  AutoLock = TRUE
  LowRank = {}
  Banned = {}
  EchoCounts = {0, 1}
  UINT = 6
  Reports <- MCReportsReady
  MySyncs = {1, 2}
PROPERTIES
  StartsWithBattle
