CONSTANTS
  Agents = {a1, a2, a3}
  None = None
  Budget = 3
  AskCap = 1
SYMMETRY AgentSymmetry
CONSTRAINT AsksApart
SPECIFICATION Spec
INVARIANTS TypeOK CodersApart EditsNeverForgotten QuietMeansAnnounced GateHeldByLive AsksBounded
CHECK_DEADLOCK FALSE
