----------------------------- MODULE Connection -----------------------------
(***************************************************************************)
(* The chat of a session on its way to one client: runtime/session.py      *)
(* (messages, _persist, _emit_snapshot, _replay_history), runtime/store,   *)
(* runtime/server.py and the chat panel of clients/tui.py, over the        *)
(* client's queue (Channel, which Subscriber implements).                  *)
(*                                                                         *)
(* A client gets the messages of the session twice: as they are added, and *)
(* replayed from a copy, one per step of a background task, after every    *)
(* SnapshotReady that anybody asked for.  The session is in the database   *)
(* as it was at the last _persist; the engine may die between two steps,   *)
(* and StartSession takes up what was stored.  Steps of the event loop are *)
(* atomic: what one emits (out) is queued before anybody else runs.        *)
(***************************************************************************)
EXTENDS Channel, Functions

CONSTANTS
  MaxMessages,   \* bound of the model: messages made in a behaviour
  MaxSessions,   \* bound of the model: sessions begun in a behaviour
  MaxBinding,    \* bound of the model: commands StartSession that bind at a time
  MaxSnapshots,  \* bound of the model: snapshots emitted in a behaviour
  MaxAside       \* bound of the model: queued events that are not of the chat

ASSUME ConnectionAssumption ==
  /\ Slots \in Nat \ {0}
  /\ MaxMessages \in Nat
  /\ MaxSessions \in Nat
  /\ MaxBinding \in Nat
  /\ MaxSnapshots \in Nat
  /\ MaxAside \in Nat
  /\ Empty \notin [what : {"snapshot", "history", "added", "complete", "other", "delta"},
                    id : 0 .. MaxMessages + MaxSessions]

VARIABLES
  session,     \* _state.session_id, 0 for none
  messages,    \* _state.messages: ids, in order
  binding,     \* commands StartSession that wait in _bind_loop
  stored,      \* the database: the messages of every session that was saved
  made,        \* messages made so far; the n-th has id n
  ending,      \* a turn that close_session cancelled has yet to end
  atRisk,      \* history: messages that a failed _persist was to save, or that
               \* were added with no session open
  generation,  \* _history_generation
  replays,     \* the replay tasks that are alive
  out,         \* what the step of the event loop has yet to emit
  view         \* what the client has of the chat since the last replay began

chat == <<session, messages, binding, stored, made, ending, atRisk>>
replaying == <<generation, replays>>
connectionVars == <<channel, chat, replaying, out, view>>

-----------------------------------------------------------------------------
(* Events.                                                                    *)

Says(what, id) == [what |-> what, id |-> id]
Snapshot   == Says("snapshot", session)
History(m) == Says("history", m)
Added(m)   == Says("added", m)
Complete   == Says("complete", 0)
Other      == Says("other", 0)
Delta      == Says("delta", 0)

\* What the session has put on the queue and the client has yet to read; what
\* the queue itself says is Empty.
Queued == [i \in DOMAIN queue |-> queue[i].body]

\* The messages that a sequence of events adds.
WithAdded(ids, e) == IF e # Empty /\ e.what = "added" THEN Append(ids, e.id) ELSE ids
AddedBy(es) == FoldLeft(WithAdded, <<>>, es)

-----------------------------------------------------------------------------
NoView == [of |-> 0, hist |-> <<>>, live |-> <<>>,
           done |-> FALSE, lossy |-> FALSE]

ConnectionInit ==
  /\ ChannelInit
  /\ session = 0 /\ messages = <<>> /\ binding = 0
  /\ stored = <<>> /\ made = 0
  /\ ending = FALSE /\ atRisk = {}
  /\ generation = 0 /\ replays = {}
  /\ out = <<>> /\ view = NoView

(* The server and the client.                                                 *)

\* _emit, for this client: the next event of the step goes to its queue.
Emit ==
  /\ out # <<>>
  /\ IF Head(out).what = "delta" THEN PutStreaming(Head(out)) ELSE Put(Head(out))
  /\ out' = Tail(out)
  /\ UNCHANGED <<chat, replaying, view>>

\* What is left of a page when something was lost: the client has to ask for a
\* snapshot to have the chat again.
Torn == [NoView EXCEPT !.lossy = TRUE]

\* ChatPanel, of a client that begins a new page when a replay is announced.
Shown(page, e) ==
  IF e.what = "snapshot" THEN [NoView EXCEPT !.of = e.id]
  ELSE IF page.lossy THEN Torn
  ELSE CASE e.what = "history"  -> [page EXCEPT !.hist = Append(@, e.id)]
         [] e.what = "complete" -> [page EXCEPT !.done = TRUE]
         [] e.what = "added"    -> [page EXCEPT !.live = Append(@, e.id)]
         [] OTHER               -> page

\* The page after the client has read an event.
PageAfter(page, e) ==
  IF e.body # Empty THEN Shown(page, e.body)
  ELSE IF e = Notice THEN Torn ELSE page

\* _write_events: the client receives the oldest event.
Receive ==
  /\ out = <<>> /\ Take
  /\ view' = PageAfter(view, Head(queue))
  /\ UNCHANGED <<chat, replaying, out>>

\* Another queue for the client, which begins anew.
NewQueue == queue' = <<>> /\ behind' = FALSE /\ view' = Torn

\* _on_client unsubscribes the queue of a client that hung up; it comes back.
Reconnect ==
  /\ out = <<>> /\ queue # <<>> /\ NewQueue
  /\ UNCHANGED <<chat, replaying, out>>

-----------------------------------------------------------------------------
(* The session.                                                               *)

\* Mutant of Saved: somebody else will save it.
NotSaved(s, ms) == UNCHANGED stored

\* save(): one row for each session, written at once.
Saved(s, ms) ==
  stored' = [x \in DOMAIN stored \cup {s} |-> IF x = s THEN ms ELSE stored[x]]

\* _add_message and the _persist of the same step: a user message, a reply, a
\* report.  When _persist raises, an error follows.  The message may be the last
\* of a turn that the close of an earlier session cancelled.
AddMessage ==
  /\ out = <<>> /\ session # 0 /\ made < MaxMessages
  /\ made' = made + 1 /\ messages' = Append(messages, made')
  /\ \/ /\ Saved(session, messages') /\ out' = <<Added(made')>>
        /\ UNCHANGED atRisk
     \/ /\ out' = <<Added(made'), Other>> /\ UNCHANGED stored
        /\ atRisk' = atRisk \cup Range(messages')
  /\ ending' \in {ending, FALSE}
  /\ UNCHANGED <<channel, session, binding, replaying, view>>

\* The turn that close_session cancelled takes its CancelledError while no
\* session is open: "(aborted by the user)" goes to the state that has taken the
\* session's place, and _persist returns without saving.
AddUnsaved ==
  /\ out = <<>> /\ session = 0 /\ ending /\ made < MaxMessages
  /\ made' = made + 1 /\ messages' = Append(messages, made')
  /\ out' = <<Added(made')>>
  /\ ending' = FALSE /\ atRisk' = atRisk \cup {made'}
  /\ UNCHANGED <<channel, session, binding, stored, replaying, view>>

\* Any other event: of a stream, of a tool, of a child, of the files, the error
\* of a command that could do nothing.
Say(e) ==
  /\ out = <<>> /\ session # 0 /\ out' = <<e>>
  /\ Cardinality({i \in DOMAIN queue : queue[i].body \in {Other, Delta}}) < MaxAside
  /\ UNCHANGED <<channel, chat, replaying, view>>

\* Mutant of CancelReplay: a second snapshot leaves the replay of the first alone.
NotCancelled == UNCHANGED generation

\* _cancel_history_replay: the task is cancelled in its sleep(0), and would see
\* the new generation.
CancelReplay == generation' = generation + 1

StillAlive == {t \in replays : t.generation = generation'}

\* _emit_snapshot(replay=True): the history is copied.
EmitSnapshot ==
  /\ generation < MaxSnapshots /\ CancelReplay
  /\ IF messages = <<>>
     THEN out' = <<Snapshot, Complete>> /\ replays' = StillAlive
     ELSE /\ out' = <<Snapshot>>
          /\ replays' = StillAlive \cup
               {[generation |-> generation', history |-> messages, next |-> 1]}

\* RequestSnapshot, of this client or of another: everybody gets the events.
\* replay=False is one of the other events.
RequestSnapshot ==
  /\ out = <<>> /\ session # 0
  /\ EmitSnapshot
  /\ UNCHANGED <<channel, chat, view>>

\* Mutant of Replay: the messages are read as they are now.
ReplayLive(t) ==
  /\ out = <<>>
  /\ IF t.next > Len(messages)
     THEN out' = <<Complete>> /\ replays' = replays \ {t}
     ELSE /\ out' = <<History(messages[t.next])>>
          /\ replays' = (replays \ {t}) \cup {[t EXCEPT !.next = @ + 1]}
  /\ UNCHANGED <<channel, chat, generation, view>>

\* _replay_history, from one sleep(0) to the next.
Replay(t) ==
  /\ out = <<>>
  /\ IF t.next > Len(t.history)
     THEN out' = <<Complete>> /\ replays' = replays \ {t}
     ELSE /\ out' = <<History(t.history[t.next])>>
          /\ replays' = (replays \ {t}) \cup {[t EXCEPT !.next = @ + 1]}
  /\ UNCHANGED <<channel, chat, generation, view>>

Loaded(kept, s) == IF s \in DOMAIN kept THEN kept[s] ELSE <<>>
NewSession == 1 + Cardinality(DOMAIN stored \cup ({session} \ {0}))

\* StartSession: the open session is saved, then a stored one loaded or a new
\* one saved.  When a save fails the command does, the second time with the
\* state of the new session in place.
StartSession ==
  /\ out = <<>> /\ binding < MaxBinding
  /\ \E s \in (DOMAIN stored \cup {NewSession}) \cap 1 .. MaxSessions :
       LET kept == IF session = 0 THEN stored
                   ELSE [x \in DOMAIN stored \cup {session} |->
                           IF x = session THEN messages ELSE stored[x]]
           new  == s \notin DOMAIN kept
       IN
       /\ session' = s
       /\ messages' = Loaded(kept, s)
       /\ \/ /\ stored' = [x \in DOMAIN kept \cup {s} |->
                             IF x = s THEN messages' ELSE kept[x]]
             /\ binding' = binding + 1 /\ UNCHANGED out
          \/ new /\ stored' = kept /\ out' = <<Other>> /\ UNCHANGED binding
  /\ UNCHANGED <<channel, made, ending, atRisk, replaying, view>>

\* _bind_loop has returned: the snapshot, unless the session was closed.
Bound ==
  /\ out = <<>> /\ binding > 0 /\ binding' = binding - 1
  /\ \/ session # 0 /\ EmitSnapshot
     \/ /\ session = 0 /\ out' = <<Other>> /\ generation < MaxSnapshots
        /\ CancelReplay /\ replays' = StillAlive
  /\ UNCHANGED <<channel, session, messages, stored, made, ending, atRisk, view>>

\* close_session: it cancels the turn, if there is one, which ends later; when it
\* cannot save, the session stays.
CloseSession ==
  /\ out = <<>> /\ session # 0 /\ generation < MaxSnapshots
  /\ CancelReplay /\ replays' = StillAlive /\ out' = <<Other>>
  /\ \/ /\ Saved(session, messages) /\ session' = 0 /\ messages' = <<>>
        /\ UNCHANGED atRisk
     \/ /\ atRisk' = atRisk \cup Range(messages)
        /\ UNCHANGED <<session, messages, stored>>
  /\ ending' \in {ending, TRUE}
  /\ UNCHANGED <<channel, binding, made, view>>

\* The engine dies and is started again; the client finds it again.
Crash ==
  /\ session # 0
  /\ session' = 0 /\ messages' = <<>> /\ binding' = 0
  /\ replays' = {} /\ out' = <<>> /\ ending' = FALSE
  /\ NewQueue
  /\ UNCHANGED <<stored, made, atRisk, generation>>

ConnectionNext ==
  \/ Emit \/ Receive \/ Reconnect
  \/ AddMessage \/ AddUnsaved \/ RequestSnapshot
  \/ \E e \in {Other, Delta} : Say(e)
  \/ \E t \in replays : Replay(t)
  \/ StartSession \/ Bound \/ CloseSession \/ Crash

ConnectionSpec == ConnectionInit /\ [][ConnectionNext]_connectionVars

-----------------------------------------------------------------------------
\* Type invariant.
ConnectionTypeOK ==
  /\ Len(queue) <= Slots /\ behind \in BOOLEAN
  /\ session \in 0 .. MaxSessions /\ binding \in 0 .. MaxBinding /\ ending \in BOOLEAN
  /\ messages \in Seq(1 .. made) /\ atRisk \subseteq 1 .. made
  /\ DOMAIN stored \subseteq 1 .. MaxSessions
  /\ generation \in 0 .. MaxSnapshots /\ Cardinality(replays) <= 1

\* What docs/protocol.md:95-97 promises of a second RequestSnapshot, of any
\* client's StartSession and of close_session alike: no client reads the
\* entries of two histories mixed with each other.
OneHistory ==
  ~view.lossy => \A i, j \in DOMAIN view.hist : i < j => view.hist[i] < view.hist[j]

\* After ChatHistoryComplete the client has the chat as the session has it:
\* the replayed copy, then what was added since the snapshot, received or
\* still in the queue, every message once and in order; unless it was told of
\* a loss, or is about to be.
TranscriptTrue ==
  /\ view.done /\ ~view.lossy
  /\ session # 0 /\ view.of = session /\ binding = 0
  /\ Notice \notin Range(queue)
  /\ \A e \in (Range(Queued) \ {Empty}) \cup Range(out) : e.what # "snapshot"
  => view.hist \o view.live \o AddedBy(Queued) \o AddedBy(out) = messages

\* A client that was not told of a loss reads one history, the right one.
HistoryTrue == OneHistory /\ TranscriptTrue

\* No client ever shows a message that a crash could take back: what is on its
\* way to it is in the database, unless a save failed or the message came from
\* a turn that ended after its session was closed.
ShownIsStored ==
  \A m \in Range(view.hist) \cup Range(view.live) \cup
       {e.id : e \in {x \in Range(Queued) \ {Empty} : x.what \in {"history", "added"}}} :
    m \in atRisk \/ \E s \in DOMAIN stored : m \in Range(stored[s])
=============================================================================
