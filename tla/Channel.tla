------------------------------- MODULE Channel -------------------------------
(***************************************************************************)
(* What a client's event queue promises, whatever its ceilings in bytes,   *)
(* its counters and its order of eviction: a queue in which streaming      *)
(* events may disappear, and in which any other event disappears only when *)
(* every slot is taken by its like, and then leaves an overflow notice     *)
(* behind at the place of the loss.  Once something was lost, a warning    *)
(* may follow what is read.                                                *)
(***************************************************************************)
EXTENDS Removal, SequencesExt

CONSTANTS
  Slots,      \* most events the queue holds
  Empty       \* what the queue's own events say

VARIABLES
  queue,    \* what the client has yet to read, oldest first
  behind    \* something was lost since the last warning

channel == <<queue, behind>>

Entry(kind, body) == [kind |-> kind, body |-> body]
Notice  == Entry("notice", Empty)
Warning == Entry("warning", Empty)

Streaming(q) == {i \in DOMAIN q : q[i].kind = "delta"}

ChannelInit == queue = <<>> /\ behind = FALSE

\* A streaming event: it is kept, or dropped.
PutStreaming(b) ==
  \/ Len(queue) < Slots /\ queue' = Append(queue, Entry("delta", b)) /\ UNCHANGED behind
  \/ queue' = queue /\ behind' = TRUE

\* Any other event: streaming events make room for it; in a queue full of
\* others it and the last one give way to a notice.
Put(b) ==
  \/ \E S \in SUBSET Streaming(queue) :
       LET left == But(queue, S) IN
       /\ Len(left) < Slots
       /\ queue' = Append(left, Entry("full", b))
       /\ behind' = (behind \/ S # {})
  \/ /\ Len(queue) = Slots /\ Streaming(queue) = {}
     /\ queue' = Append(Front(queue), Notice)
     /\ behind' = TRUE

\* The client reads the oldest event.
Take ==
  /\ queue # <<>>
  /\ \/ queue' = Tail(queue) /\ UNCHANGED behind
     \/ behind /\ queue' = Append(Tail(queue), Warning) /\ behind' = FALSE
=============================================================================
