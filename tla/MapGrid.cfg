SPECIFICATION FairSpec
CONSTANTS
  a = a
  b = b
  c = c
  d = d
  Maps = {a, b, c, d}
  Missing = {d}
  Lists <- MCLists
  Texts <- MCTexts
  Cursor = {a}
  FollowMouse = TRUE
  MAX_MAPINFO_FETCHES = 2
  MAX_MINIMAP_FETCHES = 1
  Tiles = 2
  NULL = NULL
INVARIANTS
  ControlSound
  NothingLost
  MapsSound
  StaleBounded
PROPERTIES
  AllLoaded
