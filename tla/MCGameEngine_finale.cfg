SPECIFICATION Spec
CONSTANTS
  p1 = p1
  p2 = p2
  p3 = p3
  t1 = t1
  None = None
  Player = {p1, p2}
  Team = {}
  RoundCount = 1
  CellCount = 1
  CellValue <- MCCellValue
  TopRowValue <- MCTopRowValue
  WagerLayouts <- MaybeWagers
  Rules <- FinaleRules
  WagerInputs <- Amounts
  ScoreInputs <- Deltas
  Droppable = {}
  ScoreBound = 2
  CaptainCycle = 1
  IndividualCount = 1
  MinimumFieldToBatch = 2
SYMMETRY PlayerSymmetry
INVARIANTS FinalCanFinish
PROPERTIES CrownsTheTop ImplementsRace ImplementsPhases
