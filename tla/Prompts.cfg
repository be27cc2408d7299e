CONSTANTS
  Askers = {a1, a2, a3}
  MaxPrompts = 3
  MaxMessages = 1
SPECIFICATION Spec
INVARIANTS TypeOK BrokerExact
PROPERTIES EveryAskEnds
CHECK_DEADLOCK FALSE
