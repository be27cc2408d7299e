--------------------------- MODULE MCOrchestrator ---------------------------
(* A coder with its reviewer and tester, two coders in a row, or three asks.  *)
(* Ids are only compared with each other: a safety run may treat them alike. *)
EXTENDS Orchestrator, TLC

AgentSymmetry == Permutations(Agents)

\* Asks are not mixed with the others: they share only the budget, which three
\* children cannot exceed here, the inbox and the turn.
AsksApart ==
  \A a, b \in Agents \ Fresh : profile[a] = "ask" <=> profile[b] = "ask"
=============================================================================
