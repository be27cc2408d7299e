---------------------------- MODULE MCSubscriber ----------------------------
(* A queue of three items and six bytes: small enough that both ceilings,   *)
(* eviction, collapse and recovery occur within six events.                *)
EXTENDS Subscriber
=============================================================================
