SPECIFICATION FairSpec
CONSTANTS
  IdleExpiry = 4
  Grace = 2
  Lag = 1
  SocketBound = 2
  None = None
INVARIANTS
  TypeOK
  AlarmCoversRoom
  GraceIsVacancy
  DeadRoomsDelist
  ClosedIsDelisted
PROPERTIES
  WipedAfterSilence
  VacantRoomsClose
  SilentRoomsGo
CHECK_DEADLOCK FALSE
