CONSTANTS
  Agents = {a1, a2}
  Files = {f, g}
  Gone = Gone
  MaxVersion = 1
  FILE_NOTE_CAP = 1
  SECTION_CAP = 1
  INGEST_FILE_CAP = 1
  MaxDecisions = 2
SYMMETRY MemorySymmetry
CONSTRAINTS OneOfAKind OneFileRead DecisionsApart
SPECIFICATION MemorySpec
INVARIANTS
  MemoryTypeOK
  NewestDecisions
 
CHECK_DEADLOCK FALSE
