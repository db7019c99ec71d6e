SPECIFICATION Spec
CONSTANTS
  None = None
  UndoDepth = 0
  Lengths <- MCLengths
INVARIANTS
  BreakExpiresNothing
CHECK_DEADLOCK FALSE
