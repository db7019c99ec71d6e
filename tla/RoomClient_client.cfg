SPECIFICATION FairSpec
CONSTANTS
  DialBound = 3
  SeatBound = 2
  BatchBound = 2
  None = None
INVARIANTS
  CaughtUp
  NoFalseGaps
  SameSeat
PROPERTIES
  SeatIsKept
  ComesBack
CHECK_DEADLOCK FALSE
