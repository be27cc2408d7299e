SPECIFICATION Spec
CONSTANTS
  CodeFiles = {f1, f2}
  Width = 2
  Rounds = 2
  NudgeCap = 1
  Profile = "debugger"
  Required = {"diagnose", "other"}
INVARIANTS
  TypeOK
  ReportTrue
PROPERTY
  ChildEnds
CHECK_DEADLOCK FALSE
