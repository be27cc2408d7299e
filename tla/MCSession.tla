----------------------------- MODULE MCSession -----------------------------
(* Two sessions, so that one can be left behind or closed under a turn.     *)
EXTENDS Session
=============================================================================
