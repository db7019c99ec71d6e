SPECIFICATION Spec
CONSTANTS
  MintBound = 3
  Team = {t1, t2}
  TeamCap = 2
  RosterCap = 3
  SocketBound = 2
  UndoDepth = 1
  None = None
  Solo = Solo
PROPERTY FirstJoinerLeads
CHECK_DEADLOCK FALSE
