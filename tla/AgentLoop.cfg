SPECIFICATION Spec
CONSTRAINT OneGrant
CONSTANTS
  MaxTurns = 1
  MaxTools = 1
  Slice = 1
  MaxContinues = 1
  ExtendBy = 1
  ExtendMax = 1
  CutoffCap = 1
  NudgeCap = 1
  Width = 2
  Runs = 1
  Restored = 1
  Shrinks = 1
INVARIANTS TypeOK HistoryKept BudgetHolds
CHECK_DEADLOCK FALSE
