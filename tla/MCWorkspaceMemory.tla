------------------------- MODULE MCWorkspaceMemory -------------------------
(* Two agents at work on two files; both are only compared with each other.   *)
EXTENDS WorkspaceMemory, TLC

\* Children of one profile differ in nothing: a run has one of each kind at most.
OneOfAKind == \A a, b \in Agents : profile[a] = profile[b] => a = b

\* An agent reads one file, and may write about the other.
OneFileRead == \A a \in Agents : Cardinality({x \in Files : known[a][x] # Unknown}) <= 1

\* Decisions beside those of the reports are made, or seeded, while there are no
\* notes and nothing was read: a save treats the two apart.
DecisionsApart ==
  \/ Len(log) <= Cardinality({a \in Agents : at[a] = "done"})
  \/ notes = <<>> /\ \A a \in Agents : known[a] = NoFiles

MemorySymmetry == Permutations(Agents) \cup Permutations(Files)
=============================================================================
