CONSTANTS
  Maps = {m1, m2}
  Places = {p1, p2}
  LastAlly = 2
  MaxEdits = 4
SPECIFICATION Spec
INVARIANTS
  InfoAgrees
  BoxesAgree
  MarksSound
SYMMETRY Alike
CHECK_DEADLOCK FALSE
