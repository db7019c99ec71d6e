SPECIFICATION FairSpec
CONSTANTS
  p1 = p1
  p2 = p2
  None = None
  Player = {p1, p2}
  Wired = {p1}
  Cap = 1
  Window = 1
  SampleMax = 1
  Lockout = 1
  Horizon = 2
  ArmBound = 2
  PressBound = 2
PROPERTIES HeldUntilFed KeepsTheRace EveryPressIsRuledOn
CHECK_DEADLOCK FALSE
