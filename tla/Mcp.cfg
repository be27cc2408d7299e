SPECIFICATION McpSpec
CONSTANTS
  Calls = {c1, c2}
  Commands = {d}
  Backoff = 2
  MaxConns = 2
INVARIANTS
  ConnectionsKept
PROPERTY
  CallsEnd
CHECK_DEADLOCK FALSE
