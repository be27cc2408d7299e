---------------------------- MODULE Orchestrator ----------------------------
(***************************************************************************)
(* The orchestrator's children, agents/orchestrator.py.                    *)
(*                                                                         *)
(* The orchestrator's own reply (a turn) may spawn children at any point;  *)
(* each child is an asyncio task of its own that runs, is compressed into  *)
(* a report, and posts the report to the session's inbox, which starts the *)
(* next turn.  One coder at a time works on the shared checkout; a tester  *)
(* may write beside it.  When a coder has finished with edits on its books *)
(* the engine itself starts a reviewer and a tester, and no coder may      *)
(* start until they have let go of the verification gate.                  *)
(* Everything runs on one event loop: a step is what happens between two   *)
(* awaits, so that spawn(), which never suspends, is one step, and its     *)
(* reservation of an id is over before anyone else can look.               *)
(*                                                                         *)
(* Left out: a refused spawn changes nothing (but the survey retry, kept); *)
(* researchers are counted as asks are, debuggers are not counted at all;  *)
(* _survey_closed, which ends the turn's tool loop after a burst of asks,  *)
(* since one burst may hold any number of them; what commands of the shell *)
(* and testers write, which is on no books; the settling of worktrees left *)
(* by older versions.                                                      *)
(***************************************************************************)
EXTENDS Integers, FiniteSets

CONSTANTS
  Agents,    \* the ids the engine may give to children; an id is used once
  None,      \* "no agent": an empty id
  Budget,    \* _spawn_budget: most children alive at once
  AskCap     \* _SURVEY_FIRST_CAPS: ask children per user message

ASSUME OrchestratorAssumption ==
  /\ IsFiniteSet(Agents)
  /\ None \notin Agents
  /\ Budget \in Nat
  /\ AskCap \in Nat \ {0}

VARIABLES
  phase,        \* how far the child's _run_child task has come
  profile,      \* its personality
  cancelled,    \* task.cancel() was called and has not been delivered yet
  status,       \* the status its report carries
  touched,      \* _files_touched is not empty: record_edit noted an edit of it
  verifying,    \* _verifying: coder run -> testers/reviewers holding its gate
  verifyOwner,  \* _verify_owner: the reverse map
  lastCoder,    \* _last_coder_id
  unverified,   \* _unverified_changes: coder runs whose edits are unverified
  merged,       \* runs whose edits are in the finishing coder's files_touched
  asks,         \* _user_survey_spawns["ask"]
  retry,        \* _survey_retry and _survey_retry_used, for ask
  turn,         \* the turn that is running, and what it answers
  waitingUser,  \* the session holds user messages for the next turn
  inbox,        \* the session's inbox: children whose report no turn has read
  closed,       \* _aborting_all: the session is being closed
  wrote,        \* history: an edit tool of it has written to the checkout
  covered,      \* history: runs whose edits a complete verification was started on
  announced,    \* history: unverified runs named by a verification notice
  cutShort      \* history: the last turn that went to the model was aborted or raised

children == <<phase, profile, cancelled, status, touched>>
gate     == <<verifying, verifyOwner, lastCoder>>
edits    == <<unverified, merged>>
survey   == <<asks, retry>>
session  == <<turn, waitingUser, inbox, closed>>
history  == <<wrote, covered, announced, cutShort>>
vars     == <<children, gate, edits, survey, session, history>>

-----------------------------------------------------------------------------
Profiles == {"coder", "tester", "reviewer", "ask"}

\* _VERIFIERS, and the profiles with is_writer
Verifiers == {"tester", "reviewer"}
Writers   == {"coder", "tester"}

\* A task is created, runs the agent loop, is compressed (finish), closes its
\* browser page and waits for the merge gate's judge.  It ends "done", taken
\* off the books; or "lost": cancelled at an await outside every try block.
LivePhases == {"created", "running", "finishing", "closing", "judging"}
Phases     == LivePhases \cup {"unused", "done", "lost"}

Fresh == {a \in Agents : phase[a] = "unused"}
Live  == {a \in Agents : phase[a] \in LivePhases}

LiveCoders == {a \in Live : profile[a] = "coder"}

\* _live_spawn_count and the budget test of spawn, before n more children
WithinBudget(n) == Cardinality(Live) + n <= Budget

\* Mutant of Gated: testers do not hold the gate.
GatedByReviewer ==
  \E owner \in Agents : \E v \in verifying[owner] : profile[v] = "reviewer"

\* _verifying is not empty
Gated == \E owner \in Agents : verifying[owner] # {}

\* The turn _maybe_pump starts when none is running: user messages go first.
NextTurn(users, reports) ==
  IF users THEN "user" ELSE IF reports # {} THEN "inbox" ELSE "idle"

-----------------------------------------------------------------------------
Init ==
  /\ phase = [a \in Agents |-> "unused"]
  /\ profile = [a \in Agents |-> "ask"]
  /\ cancelled = [a \in Agents |-> FALSE]
  /\ status = [a \in Agents |-> "ok"]
  /\ touched = [a \in Agents |-> FALSE]
  /\ verifying = [a \in Agents |-> {}]
  /\ verifyOwner = [a \in Agents |-> None]
  /\ lastCoder = None
  /\ unverified = {}
  /\ merged = {}
  /\ asks = 0
  /\ retry = "none"
  /\ turn = "idle"
  /\ waitingUser = FALSE
  /\ inbox = {}
  /\ closed = FALSE
  /\ wrote = [a \in Agents |-> FALSE]
  /\ covered = {}
  /\ announced = {}
  /\ cutShort = FALSE

-----------------------------------------------------------------------------
(* Turns.                                                                  *)

\* start_turn: the survey counters are reset even when the message only joins
\* the queue behind the turn that is running.
UserMessage ==
  /\ ~closed
  /\ asks' = 0
  /\ retry' = "none"
  /\ IF turn = "idle"
     THEN turn' = "user" /\ UNCHANGED waitingUser
     ELSE waitingUser' = TRUE /\ UNCHANGED turn
  /\ UNCHANGED <<children, gate, edits, inbox, closed, history>>

\* The session starts the next turn: one user message, or the whole inbox.
Pump(reports) ==
  /\ turn' = NextTurn(waitingUser, reports)
  /\ waitingUser' \in IF waitingUser THEN BOOLEAN ELSE {FALSE}
  /\ inbox' = IF turn' = "inbox" THEN {} ELSE reports

\* Mutant of EndTurn: only the answer to a user carries the notice.
EndTurnToUser ==
  /\ turn # "idle"
  /\ announced' = IF turn = "user" /\ LiveCoders = {} THEN unverified ELSE announced
  /\ cutShort' = FALSE
  /\ Pump(inbox)
  /\ UNCHANGED <<children, gate, edits, survey, closed, wrote, covered>>

\* run() returns: with unverified edits and no coder at work the reply carries
\* the verification notice.
EndTurn ==
  /\ turn # "idle"
  /\ announced' = IF LiveCoders = {} THEN unverified ELSE announced
  /\ cutShort' = FALSE
  /\ Pump(inbox)
  /\ UNCHANGED <<children, gate, edits, survey, closed, wrote, covered>>

\* _maybe_route_turn answers an exact command of the user (undo, what changed,
\* list edits) itself: run() is not called and the answer carries no notice.
AnswerDirectly ==
  /\ turn = "user"
  /\ Pump(inbox)
  /\ UNCHANGED <<children, gate, edits, survey, closed, history>>

\* run() is cancelled or raises, or its reply is dropped since an abort was
\* asked for meanwhile: no notice, and the session goes on.
BreakTurn ==
  /\ turn # "idle"
  /\ cutShort' = TRUE
  /\ Pump(inbox)
  /\ UNCHANGED <<children, gate, edits, survey, closed, wrote, covered, announced>>

-----------------------------------------------------------------------------
(* spawn().                                                                *)

\* The books of spawn() once it is past its guards.
Enlist(a, p, owner) ==
  /\ phase' = [phase EXCEPT ![a] = "created"]
  /\ profile' = [profile EXCEPT ![a] = p]
  /\ verifyOwner' = [verifyOwner EXCEPT ![a] = owner]
  /\ verifying' = IF owner = None THEN verifying
                  ELSE [verifying EXCEPT ![owner] = @ \cup {a}]
  /\ UNCHANGED <<cancelled, status, touched, edits, session, history>>

\* A coder starts only while the gate is open and no other coder is alive.  One
\* that continues an earlier run (continue_from) passes the same tests and more.
SpawnCoder(a) ==
  /\ turn # "idle"
  /\ a \in Fresh
  /\ ~Gated
  /\ LiveCoders = {}
  /\ WithinBudget(1)
  /\ Enlist(a, "coder", None)
  /\ lastCoder' = a
  /\ UNCHANGED survey

\* A tester or reviewer spawned by the model verifies the last coder run, which
\* may still be at work; a tester that continues a writer's run verifies none.
SpawnVerifier(a, p, from) ==
  /\ turn # "idle"
  /\ a \in Fresh
  /\ ~Gated
  /\ from # None => /\ p \in Writers
                    /\ phase[from] \notin LivePhases \cup {"unused"}
                    /\ profile[from] \in Writers
  /\ WithinBudget(1)
  /\ Enlist(a, p, IF from = None THEN lastCoder ELSE None)
  /\ UNCHANGED <<lastCoder, survey>>

\* Mutant of SpawnAsk: the retry is never used up.
SpawnAskAgain(a) ==
  /\ turn # "idle"
  /\ a \in Fresh
  /\ asks >= AskCap => retry = "granted"
  /\ WithinBudget(1)
  /\ Enlist(a, "ask", None)
  /\ asks' = asks + 1
  /\ UNCHANGED <<lastCoder, retry>>

\* Past its cap an ask is started only on the retry an incomplete one granted,
\* and the retry is spent even when the spawn is then refused or fails.
SpawnAsk(a) ==
  LET cap  == IF turn = "inbox" THEN 1 ELSE AskCap
      over == asks >= cap
  IN
  /\ turn # "idle"
  /\ a \in Fresh
  /\ over => retry = "granted"
  /\ retry' = IF over THEN "used" ELSE retry
  /\ \/ /\ WithinBudget(1)
        /\ Enlist(a, "ask", None)
        /\ asks' = asks + 1
        /\ UNCHANGED lastCoder
     \/ UNCHANGED <<children, gate, edits, session, history, asks>>

-----------------------------------------------------------------------------
(* _run_child.                                                             *)

Move(a, to) == phase' = [phase EXCEPT ![a] = to]

\* Mutant of Retire: the run's unverified edits are forgotten with the task.
RetireForgetting(a, to) ==
  /\ Move(a, to)
  /\ status' = [status EXCEPT ![a] = "ok"]
  /\ merged' = IF profile[a] = "coder" THEN {} ELSE merged
  /\ unverified' = unverified \ {a}
  /\ UNCHANGED <<profile, touched>>

\* The task ends and its locals with it: the report's status, and for a coder
\* the list of edited files that went into the report.
Retire(a, to) ==
  /\ Move(a, to)
  /\ status' = [status EXCEPT ![a] = "ok"]
  /\ merged' = IF profile[a] = "coder" THEN {} ELSE merged
  /\ UNCHANGED <<profile, touched, unverified>>

\* The task takes its first step.
Start(a) ==
  /\ phase[a] = "created"
  /\ ~cancelled[a]
  /\ Move(a, "running")
  /\ UNCHANGED <<profile, cancelled, status, touched>>
  /\ UNCHANGED <<gate, edits, survey, session, history>>

\* An edit tool of the coder writes to the checkout, and then waits for the
\* language server.
Write(a) ==
  /\ phase[a] = "running"
  /\ profile[a] = "coder"
  /\ wrote' = [wrote EXCEPT ![a] = TRUE]
  /\ UNCHANGED <<children, gate, edits, survey, session, covered, announced, cutShort>>

\* record_edit, after the wait: an edit aborted in it never comes here.
Record(a) ==
  /\ phase[a] = "running"
  /\ wrote[a]
  /\ touched' = [touched EXCEPT ![a] = TRUE]
  /\ UNCHANGED <<phase, profile, cancelled, status>>
  /\ UNCHANGED <<gate, edits, survey, session, history>>

\* child.run ends, at a ceiling ("unfinished") or "broken": failed or aborted, as
\* a pending cancellation always makes it.  Only that ends the wait of an edit early.
RunEnds(a) ==
  /\ phase[a] = "running"
  /\ \E s \in {"ok", "unfinished", "broken"} :
       /\ cancelled[a] => s = "broken"
       /\ wrote[a] # touched[a] => cancelled[a]
       /\ status' = [status EXCEPT ![a] = s]
  /\ cancelled' = [cancelled EXCEPT ![a] = FALSE]
  /\ Move(a, "finishing")
  /\ UNCHANGED <<profile, touched>>
  /\ UNCHANGED <<gate, edits, survey, session, history>>

\* Mutant of ReportStatus: an aborted child's report keeps the run's own word.
ReportStatusRaw(a) ==
  IF cancelled[a] THEN {"aborted"}
  ELSE {"incomplete", "unfinished", "broken", status[a]}

\* _apply_run_status: the report never says more than the run, may say less,
\* and breaks when the compression is cancelled or fails.
ReportStatus(a) ==
  IF cancelled[a] \/ status[a] = "broken" THEN {"broken"}
  ELSE {"incomplete", "unfinished", "broken", status[a]}

\* Mutant of Release: a verifier that failed or was aborted keeps the gate.
ReleaseUnlessBroken(a) ==
  IF status'[a] = "broken" THEN UNCHANGED <<verifying, verifyOwner>>
  ELSE /\ verifyOwner' = [verifyOwner EXCEPT ![a] = None]
       /\ verifying' = [o \in Agents |-> verifying[o] \ {a}]

\* _release_verifier: the gate opens when the last of its verifiers leaves.
Release(a) ==
  /\ verifyOwner' = [verifyOwner EXCEPT ![a] = None]
  /\ verifying' = IF verifyOwner[a] = None THEN verifying
                  ELSE [verifying EXCEPT ![verifyOwner[a]] = @ \ {a}]

\* child.finish returns and everything up to the next await is done: a coder's
\* edits, with those other runs left unverified, are noted before anything
\* else can happen to it, and a verifier leaves the gate.
Finish(a) ==
  /\ phase[a] = "finishing"
  /\ Move(a, "closing")
  /\ \E s \in ReportStatus(a) :
       /\ status' = [status EXCEPT ![a] = s]
       /\ retry' = IF s = "incomplete" /\ profile[a] = "ask" /\ retry # "used"
                   THEN "granted" ELSE retry
  /\ cancelled' = [cancelled EXCEPT ![a] = FALSE]
  /\ IF profile[a] = "coder"
     THEN /\ merged' = unverified \cup (IF touched[a] THEN {a} ELSE {})
          /\ unverified' = IF merged' # {} THEN unverified \cup {a} ELSE unverified
     ELSE UNCHANGED edits
  /\ Release(a)
  /\ UNCHANGED <<profile, touched, lastCoder, asks, session, history>>

MustVerify(a) ==
  /\ profile[a] = "coder"
  /\ status[a] = "ok"
  /\ merged # {}
  /\ ~closed

\* The browser page is closed.  Then, unless the session is being closed, the
\* report waits for the merge gate's judge.
Close(a) ==
  /\ phase[a] = "closing"
  /\ ~cancelled[a]
  /\ ~MustVerify(a)
  /\ \/ /\ closed
        /\ Retire(a, "done")
     \/ /\ ~closed
        /\ Move(a, "judging")
        /\ UNCHANGED <<profile, status, touched, edits>>
  /\ UNCHANGED <<cancelled, gate, survey, session, history>>

\* The same step of a coder that finished with edits: _start_verification asks
\* spawn() for a reviewer r and, unless only documentation changed, a tester t.
\* Each may be refused by the budget, in which the coder still counts, or
\* fail (None).  Only when all were started are the edits taken off the list.
CloseAndVerify(a, needTester, r, t) ==
  LET started == {r, t} \ {None}
      all     == r # None /\ (needTester => t # None)
  IN
  /\ phase[a] = "closing"
  /\ ~cancelled[a]
  /\ MustVerify(a)
  /\ started \subseteq Fresh
  /\ r = t => r = None
  /\ t # None => needTester
  /\ started # {} => WithinBudget(Cardinality(started))
  /\ phase' = [x \in Agents |-> IF x \in started THEN "created"
                                ELSE IF x = a THEN "judging" ELSE phase[x]]
  /\ profile' = [x \in Agents |-> IF x \notin started THEN profile[x]
                                  ELSE IF x = r THEN "reviewer" ELSE "tester"]
  /\ verifyOwner' = [x \in Agents |-> IF x \in started THEN a ELSE verifyOwner[x]]
  /\ verifying' = [verifying EXCEPT ![a] = @ \cup started]
  /\ unverified' = IF all THEN {} ELSE unverified \cup {a}
  /\ covered' = IF all THEN covered \cup merged \cup {a} ELSE covered
  /\ announced' = announced \cap unverified'
  /\ UNCHANGED <<cancelled, status, touched, lastCoder, merged>>
  /\ UNCHANGED <<survey, session, wrote, cutShort>>

\* The judge has answered: the child leaves the client's list, its report goes
\* to the inbox and starts a turn when none is running, the task is forgotten.
Report(a) ==
  /\ phase[a] = "judging"
  /\ ~cancelled[a]
  /\ Retire(a, "done")
  /\ IF turn = "idle" THEN Pump(inbox \cup {a})
     ELSE inbox' = inbox \cup {a} /\ UNCHANGED <<turn, waitingUser>>
  /\ UNCHANGED <<cancelled, gate, survey, closed, history>>

\* A cancellation delivered before the task's first step, or at an await after
\* the last try block, ends the task with none of the steps that follow.
Vanish(a) ==
  /\ phase[a] \in {"created", "closing", "judging"}
  /\ cancelled[a]
  /\ Retire(a, "lost")
  /\ cancelled' = [cancelled EXCEPT ![a] = FALSE]
  /\ UNCHANGED <<gate, survey, session, history>>

-----------------------------------------------------------------------------
(* Cancellation from outside.                                              *)

\* abort_child: a client learns the id from AgentStarted, sent after the task's
\* first step was scheduled, so that this step always comes first.
AbortChild(a) ==
  /\ a \in Live
  /\ phase[a] # "created"
  /\ cancelled' = [cancelled EXCEPT ![a] = TRUE]
  /\ UNCHANGED <<phase, profile, status, touched>>
  /\ UNCHANGED <<gate, edits, survey, session, history>>

\* close_session: the turn and every child are cancelled, the queues dropped.
CloseSession ==
  /\ ~closed
  /\ closed' = TRUE
  /\ cancelled' = [a \in Agents |-> cancelled[a] \/ a \in Live]
  /\ turn' = "idle"
  /\ waitingUser' = FALSE
  /\ inbox' = {}
  /\ UNCHANGED <<phase, profile, status, touched>>
  /\ UNCHANGED <<gate, edits, survey, history>>

-----------------------------------------------------------------------------
ChildStep(a) ==
  \/ Start(a)
  \/ RunEnds(a)
  \/ Finish(a)
  \/ Close(a)
  \/ \E needTester \in BOOLEAN, r, t \in Agents \cup {None} :
       CloseAndVerify(a, needTester, r, t)
  \/ Report(a)
  \/ Vanish(a)

Next ==
  \/ UserMessage
  \/ EndTurn
  \/ AnswerDirectly
  \/ BreakTurn
  \/ CloseSession
  \/ \E a \in Agents :
       \/ SpawnCoder(a)
       \/ SpawnAsk(a)
       \/ \E p \in Verifiers, from \in Agents \cup {None} : SpawnVerifier(a, p, from)
       \/ Write(a)
       \/ Record(a)
       \/ AbortChild(a)
       \/ ChildStep(a)

\* A child's task is driven by the event loop; its run is bounded by its turn
\* ceiling.  Turns, edits and aborts are up to the model and the user.
Fairness == \A a \in Agents : WF_vars(ChildStep(a))

Spec == Init /\ [][Next]_vars /\ Fairness

-----------------------------------------------------------------------------
\* Every variable ranges over the values its Python counterpart takes.
TypeOK ==
  /\ phase \in [Agents -> Phases]
  /\ profile \in [Agents -> Profiles]
  /\ cancelled \in [Agents -> BOOLEAN]
  /\ status \in [Agents -> {"ok", "incomplete", "unfinished", "broken"}]
  /\ touched \in [Agents -> BOOLEAN]
  /\ verifying \in [Agents -> SUBSET Agents]
  /\ verifyOwner \in [Agents -> Agents \cup {None}]
  /\ lastCoder \in Agents \cup {None}
  /\ unverified \subseteq Agents
  /\ merged \subseteq Agents
  /\ asks \in Nat
  /\ retry \in {"none", "granted", "used"}
  /\ turn \in {"idle", "user", "inbox"}
  /\ waitingUser \in BOOLEAN
  /\ inbox \subseteq Agents
  /\ closed \in BOOLEAN
  /\ wrote \in [Agents -> BOOLEAN]
  /\ covered \subseteq Agents
  /\ announced \subseteq Agents
  /\ cutShort \in BOOLEAN

\* At most one coder works on the shared checkout: it counts from its spawn until
\* its report is posted, so also while its verifiers are being started.
OneLiveCoder == \A a, b \in LiveCoders : a = b

\* Children spawned by the model and by the engine together stay in budget.
BudgetRespected == Cardinality(Live) <= Budget

\* While a coder is alive nothing but a verifier of that same run can hold the
\* gate: no coder works beside the verification of an earlier one.
GateOfCurrentCoder ==
  \A c \in LiveCoders, v \in Agents : verifyOwner[v] \in {None, c}

\* A second live coder is rejected, and another coder waits until the verification
\* of the one before has finished, whatever bursts, adoptions of the last coder,
\* compressions and aborts come in between.  It is about coders: a tester, which
\* writes too, may be spawned beside a coder, and spawn() lets it.
CodersApart == OneLiveCoder /\ GateOfCurrentCoder

\* Edits of a coder that record_edit noted are never dropped from the books before
\* a complete verification was started on them, whatever was aborted on the way.
EditsNeverForgotten ==
  \A a \in Agents :
    profile[a] = "coder" /\ touched[a] /\ phase[a] \notin {"running", "finishing"}
      => a \in unverified \cup covered

\* README.md:238: "If a coder leaves unfinished edits ... the runtime appends an
\* explicit incomplete/verification notice."  Whatever a coder has written to the
\* checkout by an edit is then on the books.  It is not: an edit that is aborted
\* while it waits for the language server was written and is never noted.
WritesAreOnTheBooks ==
  \A a \in Agents :
    profile[a] = "coder" /\ wrote[a] /\ phase[a] \notin {"running", "finishing"}
      => a \in unverified \cup covered

\* When nothing is left to happen, the user has been told of every edit on the
\* books that is still unverified, also when the last message was answered by the
\* session itself; unless the last turn that went to the model was cut short or a
\* report was lost.
QuietMeansAnnounced ==
  /\ turn = "idle" /\ inbox = {} /\ Live = {}
  /\ ~closed /\ ~cutShort /\ \A a \in Agents : phase[a] # "lost"
  => unverified \subseteq announced

\* No user message is answered with more asks than its cap and one retry, even
\* over the turns its children's reports start.
AsksBounded == asks <= AskCap + 1

\* Whoever holds the gate is a task that still runs: a verifier cannot end, by
\* failure or cancellation, without _release_verifier, or no coder would ever
\* start again.  Only closing the session, which discards the gate, is exempt.
GateHeldByLive == ~closed => \A v \in Agents : verifyOwner[v] # None => v \in Live
=============================================================================
