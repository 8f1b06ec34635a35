CONSTANTS
  me = me
  g1 = g1
  b1 = b1
  red = red
  Me = me
  Bots = {b1}
  Order <- MCOrder
  ClanOrder <- MCClanOrder
  Clan <- MCClan
  Rank <- MCRank
  Boxes = {1, 2}
  Arrivals <- MCArrivals
  Reports <- MCReports
  Requests <- MCRequests
  IdRequests <- MCIdRequests
  Picks = {1}
  Slots = 3
  Positions = {2, 9}
  MaxChanges = 2
SPECIFICATION FairSpec
INVARIANTS
  HostRules
  StartIsFair
PROPERTIES
  Settles
  BalanceKeepsTogether
CHECK_DEADLOCK FALSE
