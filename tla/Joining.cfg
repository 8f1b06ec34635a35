CONSTANTS
  Battles = {n1, p1}
  NatBattles = {n1}
  RelayBots = {x1}
  udp_reply_timeout = 0
  m_keepalive = 1
  MaxCalls = 2
  MaxSessions = 2
SPECIFICATION FairSpec
INVARIANTS
  CallsSound
PROPERTIES
  NoEarlyTimeout
  JoinGoes
  RelayServed
