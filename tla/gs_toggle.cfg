SPECIFICATION Spec
CONSTANTS
  p1 = p1
  p2 = p2
  p3 = p3
  Peers = {p1, p2, p3}
  Speeds = {3, 9}
  MaxChanges = 4
  MaxUnderWay = 3
SYMMETRY Symmetric
INVARIANTS
  PauseIsReversible
  SameSpeed
CHECK_DEADLOCK FALSE
