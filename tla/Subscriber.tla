----------------------------- MODULE Subscriber -----------------------------
(***************************************************************************)
(* The per-client event queue, runtime/subscriber.py.                      *)
(*                                                                         *)
(* EngineSession._emit puts every event on the queue of every connected    *)
(* client; the client's writer task takes them off with get().  The queue  *)
(* is bounded by a number of items and by a number of bytes.  Streaming    *)
(* events ("delta": ChatMessageDelta, CommandOutputChunk) may be dropped,  *)
(* every other event ("full") must reach the client or be replaced by an   *)
(* overflow notice that tells it to ask for a snapshot.                    *)
(***************************************************************************)
EXTENDS Integers, Removal, SequencesExt

CONSTANTS
  Capacity,      \* _capacity: most items the queue holds
  MaxBytes,      \* _max_bytes: soft ceiling on the estimated bytes
  RecoveryMark,  \* RECOVERY_MARK: queue length at which a recovery is noted
  Sizes,         \* the sizes approx_size may return for an event
  OwnSize,       \* the size of the queue's own notices and warnings
  MaxPuts        \* bound of the model: events emitted in a behaviour

ASSUME SubscriberAssumption ==
  /\ Capacity \in Nat \ {0}
  /\ MaxBytes \in Nat
  /\ RecoveryMark \in Nat
  /\ Sizes \subseteq Nat \ {0}
  /\ OwnSize \in Nat \ {0}
  /\ MaxPuts \in Nat

VARIABLES
  items,       \* _items: the deque, oldest first
  bytes,       \* _bytes: running total of the queued sizes
  dropped,     \* dropped: events counted as lost since the last warning
  overflowed,  \* _overflowed: an overflow notice was queued since then
  wakeup,      \* _wakeup: the asyncio.Event the reader waits on
  reader,      \* the client's writer task: running, or blocked in wait()
  puts,        \* events put so far; the n-th event has id n
  fulls,       \* history: ids of the full events put
  delivered,   \* history: ids of the full events the client received
  gap          \* history: a full event was lost, no notice delivered since

subscriber == <<items, bytes, dropped, overflowed, wakeup, reader>>
history == <<puts, fulls, delivered, gap>>
vars == <<subscriber, history>>

-----------------------------------------------------------------------------
Kinds == {"delta", "full", "notice", "warning"}

Droppable(e) == e.kind = "delta"

TotalSize(s) ==
  LET sum[i \in 0 .. Len(s)] == IF i = 0 THEN 0 ELSE sum[i - 1] + s[i].size
  IN  sum[Len(s)]

\* max(0, self._bytes - size)
Minus(b, size) == IF b > size THEN b - size ELSE 0

\* _over_ceiling, for a queue of n items and b bytes
OverCeiling(n, b, extra) == n >= Capacity \/ b + extra > MaxBytes

Deltas == {i \in 1..Len(items) : Droppable(items[i])}

NewestDeltas(k) == {i \in Deltas : Cardinality({j \in Deltas : j > i}) < k}

\* What is left when the k newest droppable events are taken out.
Without(k) == But(items, NewestDeltas(k))

\* Mutant of BytesWithout: evicted events stay on the byte counter.
BytesUntouched(k) == bytes

BytesWithout(k) == Minus(bytes, TotalSize(items) - TotalSize(Without(k)))

\* The full events that are neither queued nor delivered: they never will be.
Lost == fulls \ (delivered \cup {items[i].id : i \in 1..Len(items)})

\* Mutant of Evicted: put() goes straight to the collapse.
EvictNone(size) == 0

\* How many droppable events _evict_droppable takes out: it scans from the
\* newest to the oldest and stops as soon as the queue is under its ceilings.
Evicted(size) ==
  LET Enough(k) == ~OverCeiling(Len(Without(k)), BytesWithout(k), size)
      all       == Cardinality(Deltas)
  IN  IF \E k \in 0..all : Enough(k)
      THEN CHOOSE k \in 0..all : Enough(k) /\ \A j \in 0..(k-1) : ~Enough(j)
      ELSE all

-----------------------------------------------------------------------------
Init ==
  /\ items = <<>>
  /\ bytes = 0
  /\ dropped = 0
  /\ overflowed = FALSE
  /\ wakeup = FALSE
  /\ reader = "running"
  /\ puts = 0
  /\ fulls = {}
  /\ delivered = {}
  /\ gap = FALSE

Event(kind, id, size) == [kind |-> kind, id |-> id, size |-> size]

\* put() of a streaming event: kept when it fits, dropped otherwise.
PutDelta(size) ==
  /\ puts < MaxPuts
  /\ puts' = puts + 1
  /\ IF OverCeiling(Len(items), bytes, 0) \/ OverCeiling(Len(items), bytes, size)
     THEN /\ dropped' = dropped + 1
          /\ UNCHANGED <<items, bytes, wakeup>>
     ELSE /\ items' = Append(items, Event("delta", puts', size))
          /\ bytes' = bytes + size
          /\ wakeup' = TRUE
          /\ UNCHANGED dropped
  /\ UNCHANGED <<overflowed, reader, fulls, delivered, gap>>

\* put() of any other event.  Over a ceiling it first evicts streaming events;
\* only the item ceiling can then still keep the event out, the byte ceiling
\* cannot.  In a full queue the last event is replaced by a notice
\* (_collapse_overflow): it and the new event are gone, counted as one.
PutFull(size) ==
  LET evict == IF OverCeiling(Len(items), bytes, size) THEN Evicted(size) ELSE 0
      kept  == Without(evict)
      left  == BytesWithout(evict)
  IN
  /\ puts < MaxPuts
  /\ puts' = puts + 1
  /\ fulls' = fulls \cup {puts'}
  /\ wakeup' = TRUE
  /\ IF Len(kept) < Capacity
     THEN /\ items' = Append(kept, Event("full", puts', size))
          /\ bytes' = left + size
          /\ dropped' = dropped + evict
          /\ UNCHANGED overflowed
     ELSE /\ items' = [kept EXCEPT ![Len(kept)] = Event("notice", 0, OwnSize)]
          /\ bytes' = Minus(left, Last(kept).size) + OwnSize
          /\ dropped' = dropped + evict + 1
          /\ overflowed' = TRUE
  /\ UNCHANGED <<reader, delivered>>
  /\ gap' = (gap \/ Lost' # Lost)

\* get() finds an event.  Once the queue is short enough again the losses are
\* reported by a warning at its end (_maybe_note_recovery), whatever room is
\* left, and the counter starts from zero.
Get ==
  /\ items # <<>>
  /\ reader = "running" \/ wakeup
  /\ reader' = "running"
  /\ LET e    == Head(items)
         rest == Tail(items)
         left == Minus(bytes, e.size)
     IN
     /\ delivered' = IF e.kind = "full" THEN delivered \cup {e.id} ELSE delivered
     /\ gap' = (gap /\ e.kind # "notice")
     /\ IF dropped > 0 /\ Len(rest) <= RecoveryMark
        THEN /\ items' = Append(rest, Event("warning", 0, OwnSize))
             /\ bytes' = left + OwnSize
             /\ dropped' = 0
             /\ overflowed' = FALSE
        ELSE /\ items' = rest
             /\ bytes' = left
             /\ UNCHANGED <<dropped, overflowed>>
  /\ UNCHANGED <<wakeup, puts, fulls>>

\* Mutant of Block: get() clears the event and waits without a look at the queue.
BlockBlindly ==
  /\ reader = "running"
  /\ wakeup' = FALSE
  /\ reader' = "blocked"
  /\ UNCHANGED <<items, bytes, dropped, overflowed, history>>

\* get() finds the queue empty: it clears the event and waits.
Block ==
  /\ items = <<>>
  /\ reader = "running"
  /\ wakeup' = FALSE
  /\ reader' = "blocked"
  /\ UNCHANGED <<items, bytes, dropped, overflowed, history>>

Next ==
  \/ \E size \in Sizes : PutDelta(size)
  \/ \E size \in Sizes : PutFull(size)
  \/ Get
  \/ Block

\* The client keeps reading; nothing obliges the engine to emit.
Fairness == WF_vars(Get)

Spec == Init /\ [][Next]_vars /\ Fairness

-----------------------------------------------------------------------------
\* The variables range over what the class keeps; the queue never holds more
\* items than its capacity, the recovery warning included, which is appended
\* without looking at the room that is left.
TypeOK ==
  /\ items \in Seq([kind : Kinds, id : Nat, size : Nat])
  /\ Len(items) <= Capacity
  /\ bytes \in Nat
  /\ dropped \in Nat
  /\ overflowed \in BOOLEAN
  /\ wakeup \in BOOLEAN
  /\ reader \in {"running", "blocked"}
  /\ puts \in 0..MaxPuts
  /\ fulls \subseteq 1..puts
  /\ delivered \subseteq fulls
  /\ gap \in BOOLEAN

\* The byte counter, kept up to date by additions and subtractions all over
\* put, evict, collapse and get, is the size of what is queued: if it drifted
\* upwards, streaming would be shut out for good.
BytesExact == bytes = TotalSize(items)

\* No full event disappears silently: while a loss has not been announced to
\* the client, a notice sent after the loss is still on its way.
NoSilentLoss == gap => \E i \in 1..Len(items) : items[i].kind = "notice"

\* The reader is never left waiting in get() beside a queue that holds events.
NoLostWakeup == (reader = "blocked" /\ items # <<>>) => wakeup

\* What put() and get() keep true of the queue between two awaits.
QueueSound == TypeOK /\ BytesExact /\ NoSilentLoss /\ NoLostWakeup

\* Every full event is delivered, or the client is told that it was lost; all
\* it takes is a client that keeps reading.
EveryFullEventSettles ==
  \A n \in 1..MaxPuts :
    (n \in fulls) ~> (n \in delivered \/ (n \in Lost /\ ~gap))

-----------------------------------------------------------------------------
(* The queue implements Channel, which is all that Connection knows of it.   *)

Chan == INSTANCE Channel WITH
  Slots  <- Capacity,
  Empty  <- 0,
  queue  <- [i \in DOMAIN items |-> [kind |-> items[i].kind, body |-> items[i].id]],
  behind <- dropped > 0

\* Whatever the sizes of the events, the byte counter and the order of eviction
\* in put() and get(): the client reads what was put, in its order, without some
\* streaming events; any other event is given up only when no streaming event
\* is left to evict instead and every slot is taken, with a notice in its place.
ImplementsChannel ==
  /\ Chan!ChannelInit
  /\ [][\/ \E id \in 1 .. MaxPuts : Chan!PutStreaming(id) \/ Chan!Put(id)
        \/ Chan!Take]_(Chan!channel)
=============================================================================
