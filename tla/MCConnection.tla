---------------------------- MODULE MCConnection ----------------------------
(* A queue of three events: a snapshot, the history of two messages and what *)
(* is said meanwhile do not fit, so that streaming events and then others    *)
(* are lost; two sessions, of which one may be loaded again.                 *)
EXTENDS Connection
=============================================================================
