CONSTANTS
  Tasks = {t1, t2}
  Closer = Closer
  None = None
SPECIFICATION ProcessesSpec
INVARIANTS ProcessesTypeOK ProcessesKept
PROPERTY CallsEnd
CHECK_DEADLOCK FALSE
