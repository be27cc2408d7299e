---------------------------- MODULE MCAgentLoop ----------------------------
(* A loop that may ask for a continuation or be extended by the judge; the *)
(* two together only make the runs longer.                                 *)
EXTENDS AgentLoop, MCLlm

OneGrant == ~(asks /\ judged)
=============================================================================
