------------------------------ MODULE Session ------------------------------
(***************************************************************************)
(* Turns of an EngineSession, runtime/session.py and                       *)
(* runtime/commands/lifecycle.py.                                          *)
(*                                                                         *)
(* A user message starts a turn, an asyncio task that runs the             *)
(* orchestrator, or waits in _pending_user behind the turn that is         *)
(* running; reports of children wait in _inbox.  A turn that ends starts   *)
(* the next one.  Abort, StartSession and Shutdown may come at any time,   *)
(* from several clients: StartSession replaces the state at once and the   *)
(* orchestrator when the binding is done, Shutdown (aclose) waits for the  *)
(* turn and for the children and then drops everything.                    *)
(*                                                                         *)
(* A session is named by the number of the StartSession that made its      *)
(* state, an orchestrator by the StartSession that bound it.  A prompt on  *)
(* screen, which takes a message for its answer, is module Prompts.        *)
(***************************************************************************)
EXTENDS Integers, Sequences, SequencesExt

CONSTANTS
  Children,     \* the ids the orchestrators may give to children
  MaxMessages,  \* bound of the model: user messages submitted
  MaxSessions   \* bound of the model: sessions started

ASSUME SessionAssumption ==
  /\ MaxMessages \in Nat
  /\ MaxSessions \in Nat

VARIABLES
  sid,          \* the session of _state; 0 when session_id is None
  started,      \* sessions started so far
  loop,         \* _loop: the bound orchestrator, 0 for None
  binding,      \* the orchestrator a StartSession is binding, 0 for none
  closing,      \* how far aclose() has come
  turns,        \* every turn task begun so far, oldest first
  current,      \* _turn_task: its place in turns, 0 for None
  aborting,     \* _aborting
  shown,        \* the orchestrator's state in the last AgentStateChanged
  pendingUser,  \* _pending_user: messages that wait for their turn
  inbox,        \* _inbox: children whose report waits for a turn
  submitted,    \* user messages accepted by start_turn; the n-th has id n
  dropped,      \* history: messages dropped by close_session
  child,        \* the children's tasks
  childLoop,    \* the orchestrator a child belongs to
  abortedLoops  \* orchestrators with _aborting_all set

state    == <<sid, started, loop, binding, closing>>
turn     == <<turns, current, aborting, shown>>
queues   == <<pendingUser, inbox, submitted, dropped>>
children == <<child, childLoop, abortedLoops>>
vars     == <<state, turn, queues, children>>

-----------------------------------------------------------------------------
\* A turn answers a user message, or (user = 0) a set of children's reports.
\* "vanished": cancelled before its first step, so that nothing of it ran.
\* asked: an abort was requested (history).
Turns == [user : Nat, reports : SUBSET Children,
          phase : {"created", "running", "answered", "silent", "aborted",
                   "failed", "vanished"},
          cancelled : BOOLEAN, asked : BOOLEAN, loop : 0..MaxSessions]

LiveTurn(t) == t \in DOMAIN turns /\ turns[t].phase \in {"created", "running"}

\* Mutant of Busy: a turn that is being aborted no longer counts.
BusyUnlessAborting == LiveTurn(current) /\ ~aborting

\* _turn_task is not None and not done()
Busy == LiveTurn(current)

NewTurn(user, reports) ==
  [user |-> user, reports |-> reports, phase |-> "created",
   cancelled |-> FALSE, asked |-> FALSE, loop |-> 0]

\* Mutant of Begin: the flag of the turn before stays up.
BeginStillAborting(ts, user, reports) ==
  /\ turns' = Append(ts, NewTurn(user, reports))
  /\ current' = Len(ts) + 1
  /\ shown' = "thinking"
  /\ UNCHANGED aborting

\* _begin_turn, after the earlier turns ts.
Begin(ts, user, reports) ==
  /\ turns' = Append(ts, NewTurn(user, reports))
  /\ current' = Len(ts) + 1
  /\ aborting' = FALSE
  /\ shown' = "thinking"

-----------------------------------------------------------------------------
Init ==
  /\ sid = 0 /\ started = 0 /\ loop = 0 /\ binding = 0 /\ closing = "no"
  /\ turns = <<>> /\ current = 0 /\ aborting = FALSE /\ shown = "idle"
  /\ pendingUser = <<>> /\ inbox = {} /\ submitted = 0 /\ dropped = {}
  /\ child = [c \in Children |-> "unused"]
  /\ childLoop = [c \in Children |-> 0]
  /\ abortedLoops = {}

-----------------------------------------------------------------------------
(* StartSession, SubmitUserMessage, AbortAgent.                            *)

\* start_session up to its first await: nothing of the session that was open
\* is stopped, neither its turn, its children nor its queues.
StartSession ==
  /\ started < MaxSessions
  /\ binding = 0
  /\ started' = started + 1
  /\ sid' = started'
  /\ binding' = started'
  /\ UNCHANGED <<loop, closing, turn, queues, children>>

\* _bind_loop has started the MCP servers, perhaps after a prompt.
Bound ==
  /\ binding # 0
  /\ loop' = binding
  /\ binding' = 0
  /\ UNCHANGED <<sid, started, closing, turn, queues, children>>

\* start_turn
Submit ==
  /\ sid # 0
  /\ loop # 0
  /\ submitted < MaxMessages
  /\ submitted' = submitted + 1
  /\ IF Busy
     THEN pendingUser' = Append(pendingUser, submitted') /\ UNCHANGED turn
     ELSE Begin(turns, submitted', {}) /\ UNCHANGED pendingUser
  /\ UNCHANGED <<state, inbox, dropped, children>>

\* abort_turn
RequestAbort ==
  IF Busy
  THEN /\ aborting' = TRUE
       /\ shown' = "aborting"
       /\ turns' = [turns EXCEPT ![current].cancelled = TRUE,
                                 ![current].asked = TRUE]
       /\ UNCHANGED current
  ELSE UNCHANGED turn

\* AbortAgent without an id
AbortTurn ==
  /\ sid # 0
  /\ Busy
  /\ RequestAbort
  /\ UNCHANGED <<state, queues, children>>

-----------------------------------------------------------------------------
(* _run_turn.                                                              *)

\* The turn's first step takes whatever orchestrator is bound at that time.
TurnStarts(t) ==
  /\ LiveTurn(t)
  /\ turns[t].phase = "created"
  /\ ~turns[t].cancelled
  /\ turns' = [turns EXCEPT ![t].phase = "running", ![t].loop = loop]
  /\ UNCHANGED <<current, aborting, shown, state, queues, children>>

\* aclose() waits for the turn it has found: the end of that turn wakes it.
WakeClosing == closing' = IF closing = "turn" THEN "children" ELSE closing

\* A task cancelled before its first step is done without any step: not even
\* its finally clause runs, _turn_task still names it and nothing is pumped.
TurnVanishes(t) ==
  /\ LiveTurn(t)
  /\ turns[t].phase = "created"
  /\ turns[t].cancelled
  /\ turns' = [turns EXCEPT ![t].phase = "vanished"]
  /\ WakeClosing
  /\ UNCHANGED <<sid, started, loop, binding, current, aborting, shown>>
  /\ UNCHANGED <<queues, children>>

TakeMessage(ts) ==
  /\ Begin(ts, Head(pendingUser), {})
  /\ pendingUser' = Tail(pendingUser)

TakeReports(ts, reports) ==
  /\ Begin(ts, 0, reports)
  /\ inbox' = {}
  /\ UNCHANGED pendingUser

\* _maybe_pump with no turn under way: the next user message is begun, else all
\* reports together.
Pump(ts, reports) ==
  IF pendingUser # <<>> THEN TakeMessage(ts) /\ inbox' = reports
  ELSE TakeReports(ts, reports)

\* Mutant of Finally: nothing is pumped.
FinallyIdle(ts) ==
  /\ turns' = ts /\ current' = 0 /\ aborting' = FALSE /\ shown' = "idle"
  /\ UNCHANGED queues

\* The finally clause: what waits is pumped if a session is open.
Finally(ts) ==
  /\ IF sid # 0 /\ (pendingUser # <<>> \/ inbox # {})
     THEN Pump(ts, inbox)
     ELSE /\ turns' = ts
          /\ current' = 0
          /\ aborting' = FALSE
          /\ shown' = "idle"
          /\ UNCHANGED <<pendingUser, inbox>>
  /\ UNCHANGED <<submitted, dropped>>

\* apply_named_worktree waits for a task it has cancelled and suppresses every
\* CancelledError meanwhile, the turn's own too: the turn goes on.
SwallowAbort(t) ==
  /\ LiveTurn(t)
  /\ turns[t].phase = "running"
  /\ turns[t].cancelled
  /\ turns' = [turns EXCEPT ![t].cancelled = FALSE]
  /\ UNCHANGED <<current, aborting, shown, state, queues, children>>

\* The turn ends: by the cancellation; by an error; or with a reply, which is
\* added to the chat unless an abort was requested.
TurnEnds(t) ==
  /\ LiveTurn(t)
  /\ turns[t].phase = "running"
  /\ \E how \in {"answered", "silent", "aborted", "failed"} :
       /\ how = "aborted" <=> turns[t].cancelled
       /\ how = "answered" => ~aborting
       /\ how = "silent" => aborting
       /\ Finally([turns EXCEPT ![t].phase = how])
  /\ WakeClosing
  /\ UNCHANGED <<sid, started, loop, binding, children>>

-----------------------------------------------------------------------------
(* Children, as far as the session sees them; their life is module         *)
(* Orchestrator.                                                           *)

SpawnChild(t, c) ==
  /\ LiveTurn(t)
  /\ turns[t].phase = "running"
  /\ ~turns[t].cancelled
  /\ turns[t].loop # 0
  /\ child[c] = "unused"
  /\ child' = [child EXCEPT ![c] = "live"]
  /\ childLoop' = [childLoop EXCEPT ![c] = turns[t].loop]
  /\ UNCHANGED <<abortedLoops, state, turn, queues>>

\* _on_agent_result: the report goes to whatever session is open by then.
ChildReports(c) ==
  /\ child[c] = "live"
  /\ childLoop[c] \notin abortedLoops
  /\ sid # 0
  /\ child' = [child EXCEPT ![c] = "done"]
  /\ IF Busy
     THEN inbox' = inbox \cup {c} /\ UNCHANGED <<turn, pendingUser>>
     ELSE Pump(turns, inbox \cup {c})
  /\ UNCHANGED <<state, submitted, dropped, childLoop, abortedLoops>>

\* A child that was aborted with its orchestrator, or finds no session, ends
\* without a report.
ChildEnds(c) ==
  /\ \/ child[c] = "aborted"
     \/ child[c] = "live" /\ (childLoop[c] \in abortedLoops \/ sid = 0)
  /\ child' = [child EXCEPT ![c] = "done"]
  /\ UNCHANGED <<childLoop, abortedLoops, state, turn, queues>>

-----------------------------------------------------------------------------
(* Shutdown: aclose().                                                     *)

\* Its first step aborts the turn and waits for it.
ShutdownBegins ==
  /\ closing = "no"
  /\ RequestAbort
  /\ closing' = IF Busy THEN "turn" ELSE "children"
  /\ UNCHANGED <<sid, started, loop, binding, queues, children>>

\* Mutant of AbortAllChildren: no test for a session that was never bound.
AbortAllUnbound ==
  /\ abortedLoops' = abortedLoops \cup {loop}
  /\ child' = [c \in Children |->
                 IF child[c] = "live" /\ childLoop[c] = loop THEN "aborted" ELSE child[c]]
  /\ UNCHANGED childLoop

\* abort_all_children of the bound orchestrator
AbortAllChildren ==
  /\ abortedLoops' = IF loop = 0 THEN abortedLoops ELSE abortedLoops \cup {loop}
  /\ child' = [c \in Children |->
                 IF child[c] = "live" /\ loop # 0 /\ childLoop[c] = loop
                 THEN "aborted" ELSE child[c]]
  /\ UNCHANGED childLoop

ShutdownAbortsChildren ==
  /\ closing = "children"
  /\ AbortAllChildren
  /\ closing' = "end"
  /\ UNCHANGED <<sid, started, loop, binding, turn, queues>>

\* Its children have ended: close_session().  A turn that was pumped meanwhile
\* is cancelled but not waited for.
ShutdownEnds ==
  /\ closing = "end"
  /\ \A c \in Children : child[c] = "aborted" => childLoop[c] # loop
  /\ closing' = "no"
  /\ IF sid = 0
     THEN UNCHANGED <<sid, loop, turn, queues, children>>
     ELSE /\ RequestAbort
          /\ AbortAllChildren
          /\ sid' = 0
          /\ loop' = 0
          /\ dropped' = dropped \cup ToSet(pendingUser)
          /\ pendingUser' = <<>>
          /\ inbox' = {}
          /\ UNCHANGED submitted
  /\ UNCHANGED <<started, binding>>

-----------------------------------------------------------------------------
TurnStep == \E t \in DOMAIN turns : TurnStarts(t) \/ TurnVanishes(t) \/ TurnEnds(t)

ChildStep ==
  \E c \in Children :
    \/ \E t \in DOMAIN turns : SpawnChild(t, c)
    \/ ChildReports(c)
    \/ ChildEnds(c)

Next ==
  \/ StartSession
  \/ Bound
  \/ Submit
  \/ AbortTurn
  \/ TurnStep
  \/ \E t \in DOMAIN turns : SwallowAbort(t)
  \/ ChildStep
  \/ ShutdownBegins
  \/ ShutdownAbortsChildren
  \/ ShutdownEnds

\* The event loop runs the turn's task, and run() is bounded by its ceiling of
\* rounds.  Commands are up to the clients.
Fairness == WF_vars(TurnStep)

Spec == Init /\ [][Next]_vars /\ Fairness

-----------------------------------------------------------------------------
\* The variables range over the values of their Python counterparts.
TypeOK ==
  /\ sid \in 0..MaxSessions
  /\ started \in 0..MaxSessions
  /\ loop \in 0..MaxSessions
  /\ binding \in 0..MaxSessions
  /\ closing \in {"no", "turn", "children", "end"}
  /\ turns \in Seq(Turns)
  /\ current \in 0..Len(turns)
  /\ aborting \in BOOLEAN
  /\ shown \in {"idle", "thinking", "aborting"}
  /\ pendingUser \in Seq(1..MaxMessages)
  /\ inbox \subseteq Children
  /\ submitted \in 0..MaxMessages
  /\ dropped \subseteq 1..MaxMessages
  /\ child \in [Children -> {"unused", "live", "aborted", "done"}]
  /\ childLoop \in [Children -> 0..MaxSessions]
  /\ abortedLoops \subseteq 1..MaxSessions

Vanished == \E t \in DOMAIN turns : turns[t].phase = "vanished"

\* The orchestrator answers one turn at a time, the turns that sessions closed
\* or replaced left behind included, and _turn_task is the one.
OneTurnAtATime == \A t \in DOMAIN turns : LiveTurn(t) => t = current

\* Clients take the state "idle" for the end of the work (clients/headless.py):
\* it is shown only when no turn is under way.
IdleIsTrue == shown = "idle" => ~Busy

\* An abort silences the turn it was asked for, even if the cancellation is
\* swallowed below, and no other: _aborting is one flag for all turns.
AbortHitsItsTurn ==
  \A t \in DOMAIN turns :
    /\ turns[t].phase = "answered" => ~turns[t].asked
    /\ turns[t].phase = "silent" => turns[t].asked

\* What a client is shown, and whom an abort silences, agree with the turns.
StatusTrue == IdleIsTrue /\ AbortHitsItsTurn

\* Nothing is left waiting beside an idle orchestrator; but for a turn that was
\* aborted before its first step.
NothingStranded ==
  ~Busy /\ sid # 0 /\ ~Vanished => pendingUser = <<>> /\ inbox = {}

\* User messages are answered in the order they were submitted, each once; but
\* for a turn that was aborted before its first step.
InOrder ==
  ~Vanished =>
    \A s, t \in DOMAIN turns :
      s < t /\ turns[s].user # 0 /\ turns[t].user # 0 => turns[s].user < turns[t].user

\* A user message is answered by a turn, waits, or was dropped with the session.
NoMessageLost ==
  \A m \in 1..submitted :
    \/ \E t \in DOMAIN turns : turns[t].user = m
    \/ m \in ToSet(pendingUser)
    \/ m \in dropped

\* No child's report is put to the orchestrator twice.
ReportsOnce ==
  \A c \in Children :
    \A s, t \in DOMAIN turns :
      c \in turns[s].reports /\ c \in turns[t].reports => s = t /\ c \notin inbox

\* The pump hands out the work of the queue and of the inbox: one turn at a time,
\* nothing lost, nothing twice, nothing out of order, nothing left behind.
PumpExact ==
  OneTurnAtATime /\ NothingStranded /\ InOrder /\ NoMessageLost /\ ReportsOnce

\* A message that waits is begun or dropped with the session; but for a turn
\* that was aborted before its first step.
WaitingEnds ==
  \A m \in 1..MaxMessages :
    m \in ToSet(pendingUser) ~> (m \notin ToSet(pendingUser) \/ Vanished)
=============================================================================
