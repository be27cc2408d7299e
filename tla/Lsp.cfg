SPECIFICATION Spec
CONSTANTS
  Threads = {t1, t2}
  MaxText = 2
  Pipe = 1
INVARIANTS
  TypeOK
  ServerInStep
PROPERTY
  OperationsEnd
CHECK_DEADLOCK FALSE
