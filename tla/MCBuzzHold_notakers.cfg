SPECIFICATION Spec
CONSTANTS
  p1 = p1
  p2 = p2
  None = None
  Player = {p1, p2}
  Wired = {p1, p2}
  Cap = 1
  Window = 1
  SampleMax = 1
  Lockout = 2
  Horizon = 3
  ArmBound = 1
  PressBound = 3
SYMMETRY PlayerSymmetry
PROPERTIES NoTakersIsTrue
CHECK_DEADLOCK FALSE
