CONSTANTS
  Slots = 3
  Empty = Empty
  MaxMessages = 2
  MaxSessions = 2
  MaxBinding = 1
  MaxSnapshots = 2
  MaxAside = 1
SPECIFICATION ConnectionSpec
INVARIANTS ConnectionTypeOK HistoryTrue ShownIsStored
CHECK_DEADLOCK FALSE
