CONSTANTS
  Agents = {a1, a2}
  User = user
  Paths <- Tree
  Workspaces <- Found
  Texts = {t1, t2}
  RecentLimit = 1
  MaxFiles = 2
  MaxSteps = 4
SPECIFICATION FunnelSpec
SYMMETRY Interchangeable
INVARIANTS FunnelTypeOK
PROPERTIES UndoTakesBackItsBatch AllOrNothing NoBlindEdit
CHECK_DEADLOCK FALSE
