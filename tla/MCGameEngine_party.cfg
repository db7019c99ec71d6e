SPECIFICATION Spec
CONSTANTS
  p1 = p1
  p2 = p2
  p3 = p3
  t1 = t1
  None = None
  Player = {p1, p2, p3}
  Team = {t1}
  RoundCount = 1
  CellCount = 1
  CellValue <- MCCellValue
  TopRowValue <- MCTopRowValue
  WagerLayouts <- NoWagerCells
  Rules <- PartyRules
  WagerInputs <- NoInputs
  ScoreInputs <- NoInputs
  Droppable = {p1}
  ScoreBound = 1
  CaptainCycle = 6
  IndividualCount = 1
  MinimumFieldToBatch = 2
SYMMETRY OtherSymmetry
INVARIANTS FloorIsFair RosterIsConsistent CrowdCanFinish
CHECK_DEADLOCK FALSE
