SPECIFICATION Spec
CONSTANTS
  p1 = p1
  p2 = p2
  p3 = p3
  t1 = t1
  None = None
  Player = {p1, p2}
  Team = {}
  RoundCount = 2
  CellCount = 2
  CellValue <- MCCellValue
  TopRowValue <- MCTopRowValue
  WagerLayouts <- LastCellWagers
  Rules <- BoardRules
  WagerInputs <- Amounts
  ScoreInputs <- NoInputs
  Droppable = {}
  ScoreBound = 2
  CaptainCycle = 1
  IndividualCount = 1
  MinimumFieldToBatch = 2
SYMMETRY PlayerSymmetry
INVARIANTS ClueMatchesPhase SelectionIsPossible WagerIsSettled
PROPERTY ImplementsRace
CHECK_DEADLOCK FALSE
