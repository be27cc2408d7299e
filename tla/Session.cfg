CONSTANTS
  Children = {c1}
  MaxMessages = 3
  MaxSessions = 2
SPECIFICATION Spec
INVARIANTS TypeOK PumpExact StatusTrue
PROPERTIES WaitingEnds
CHECK_DEADLOCK FALSE
