SPECIFICATION FairSpec
CONSTANTS
  None = None
  UndoDepth = 1
  Lengths <- MCLengths
INVARIANTS
  TypeOK
  AlarmCoversBook
  PauseHoldsRunningTimers
  LifecycleKeepsUp
PROPERTIES
  EvictionForgetsOnlySilence
  ClocksLeaveByRinging
  EveryTimerRings
CHECK_DEADLOCK FALSE
