SPECIFICATION Spec
CONSTANTS
  p1 = p1
  p2 = p2
  None = None
  Player = {p1, p2}
  Wired = {p1, p2}
  Cap = 2
  Window = 2
  SampleMax = 2
  Lockout = 1
  Horizon = 3
  ArmBound = 1
  PressBound = 2
SYMMETRY PlayerSymmetry
INVARIANTS FastestThumbFirst RaceWasDecided PenHasDeadline
CHECK_DEADLOCK FALSE
