CONSTANTS
  me = me
  u1 = u1
  u2 = u2
  x1 = x1
  x2 = x2
  Me = me
  Others = {u1, u2}
  Bots = {x1, x2}
  Battles = {b1, b2}
  Rank <- MCRank
  MaxEvents = 3
SPECIFICATION Spec
INVARIANTS
  ObjectsSound
  KnowsTheWorld
  RoomIsMine
SYMMETRY Alike
CHECK_DEADLOCK FALSE
