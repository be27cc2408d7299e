------------------------------ MODULE Prompts ------------------------------
(***************************************************************************)
(* Questions to the user, runtime/prompts.py, with the commands that       *)
(* answer them (runtime/commands/agent.py and lifecycle.py).               *)
(*                                                                         *)
(* Children, the orchestrator and the MCP start-up all ask through one     *)
(* PromptBroker.  Its lock lets one question at a time on the screen, and  *)
(* each waits at most its timeout for the answer.  A user message that     *)
(* arrives while a question is on the screen is taken for its answer.      *)
(* asyncio.wait_for of Python 3.12 lets an expired timeout beat an answer  *)
(* that came just before, that of 3.10 lets the answer win: a timeout may  *)
(* do either here.                                                         *)
(***************************************************************************)
EXTENDS Integers, Sequences, SequencesExt

CONSTANTS
  Askers,       \* the tasks that may ask, one question at a time each
  MaxPrompts,   \* bound of the model: questions put on the screen
  MaxMessages   \* bound of the model: user messages submitted

ASSUME PromptsAssumption ==
  /\ MaxPrompts \in Nat
  /\ MaxMessages \in Nat

VARIABLES
  asker,      \* the asking task: idle, queued on _ask_lock, or in _ask_one
  cancelled,  \* the task was cancelled and has not noticed yet
  promptOf,   \* the question an asking task waits for
  waiters,    \* the tasks queued on _ask_lock, first come first
  prompts,    \* every question so far: its asker and its future
  pending,    \* the keys of _pending
  current,    \* _current: the question on the screen, 0 for None
  submitted,  \* user messages submitted; the n-th has id n
  chat        \* messages that went to start_turn

tasks    == <<asker, cancelled, promptOf, waiters>>
broker   == <<prompts, pending, current>>
messages == <<submitted, chat>>
vars     == <<tasks, broker, messages>>

-----------------------------------------------------------------------------
\* by: the user message that answered, 0 for an AnswerPrompt.
\* expired: the timer of wait_for has fired, and the task has not resumed.
Prompt == [asker : Askers, future : {"pending", "answered", "cancelled"},
           by : Nat, expired : BOOLEAN]

\* Mutant of Locked: those that wait for the lock keep it closed.
LockedByWaiters == \E a \in Askers : asker[a] # "idle"

Locked == \E a \in Askers : asker[a] = "asking"

Init ==
  /\ asker = [a \in Askers |-> "idle"]
  /\ cancelled = [a \in Askers |-> FALSE]
  /\ promptOf = [a \in Askers |-> 0]
  /\ waiters = <<>>
  /\ prompts = <<>>
  /\ pending = {}
  /\ current = 0
  /\ submitted = 0
  /\ chat = {}

-----------------------------------------------------------------------------
\* Mutant of PutOnScreen: the counter of questions is read too late.
PutOnScreenLate(a) ==
  /\ Len(prompts) < MaxPrompts
  /\ prompts' = Append(prompts, [asker |-> a, future |-> "pending",
                                 by |-> 0, expired |-> FALSE])
  /\ asker' = [asker EXCEPT ![a] = "asking"]
  /\ promptOf' = [promptOf EXCEPT ![a] = Len(prompts') + 1]
  /\ pending' = pending \cup {Len(prompts') + 1}
  /\ current' = Len(prompts') + 1

\* _ask_one up to its await: the question is on the screen.
PutOnScreen(a) ==
  /\ Len(prompts) < MaxPrompts
  /\ prompts' = Append(prompts, [asker |-> a, future |-> "pending",
                                 by |-> 0, expired |-> FALSE])
  /\ asker' = [asker EXCEPT ![a] = "asking"]
  /\ promptOf' = [promptOf EXCEPT ![a] = Len(prompts')]
  /\ pending' = pending \cup {Len(prompts')}
  /\ current' = Len(prompts')

\* ask(): asyncio's lock is taken at once only when nobody waits for it, or none
\* but tasks that were cancelled; one cancelled after it was woken still counts.
Ask(a) ==
  /\ asker[a] = "idle"
  /\ ~cancelled[a]
  /\ \/ /\ ~Locked
        /\ \A i \in DOMAIN waiters : cancelled[waiters[i]]
        /\ PutOnScreen(a)
        /\ UNCHANGED waiters
     \/ /\ Locked \/ waiters # <<>>
        /\ asker' = [asker EXCEPT ![a] = "queued"]
        /\ waiters' = Append(waiters, a)
        /\ UNCHANGED <<promptOf, broker>>
  /\ UNCHANGED <<cancelled, messages>>

\* The lock was released: the first that waits takes it.
TakeLock(a) ==
  /\ ~Locked
  /\ waiters # <<>>
  /\ a = Head(waiters)
  /\ ~cancelled[a]
  /\ waiters' = Tail(waiters)
  /\ PutOnScreen(a)
  /\ UNCHANGED <<cancelled, messages>>

\* A task cancelled while it waits for the lock leaves the queue.
LeaveQueue(a) ==
  /\ asker[a] = "queued"
  /\ cancelled[a]
  /\ asker' = [asker EXCEPT ![a] = "idle"]
  /\ cancelled' = [cancelled EXCEPT ![a] = FALSE]
  /\ \E i \in DOMAIN waiters : waiters[i] = a /\ waiters' = RemoveAt(waiters, i)
  /\ UNCHANGED <<promptOf, broker, messages>>

-----------------------------------------------------------------------------
CanResolve(n) == n \in pending /\ prompts[n].future = "pending"

\* answer(): returns whether the answer was accepted.
Resolve(n, by) ==
  prompts' = [prompts EXCEPT ![n].future = "answered", ![n].by = by]

\* AnswerPrompt: an unknown or settled question is an error to the client.
AnswerPrompt(n) ==
  /\ CanResolve(n)
  /\ Resolve(n, 0)
  /\ UNCHANGED <<pending, current, tasks, messages>>

\* SubmitUserMessage
SubmitUserMessage ==
  /\ submitted < MaxMessages
  /\ submitted' = submitted + 1
  /\ IF current = 0
     THEN chat' = chat \cup {submitted'} /\ UNCHANGED prompts
     ELSE /\ IF CanResolve(current) THEN Resolve(current, submitted')
             ELSE UNCHANGED prompts
          /\ UNCHANGED chat
  /\ UNCHANGED <<pending, current, tasks>>

\* The timer fires: wait_for of 3.12 cancels the future on the spot, that of
\* 3.10 when the task resumes.
Expire(n) ==
  /\ ~prompts[n].expired
  /\ asker[prompts[n].asker] = "asking" /\ promptOf[prompts[n].asker] = n
  /\ \E f \in {prompts[n].future, "cancelled"} :
       /\ prompts[n].future # "pending" => f = prompts[n].future
       /\ prompts' = [prompts EXCEPT ![n].expired = TRUE, ![n].future = f]
  /\ UNCHANGED <<pending, current, tasks, messages>>

\* The asking task resumes, for whatever reason, and leaves _ask_one: the
\* question is taken off the screen, its timer stopped and the lock released.
Resume(a) ==
  LET n == promptOf[a]
  IN
  /\ asker[a] = "asking"
  /\ prompts[n].future # "pending" \/ prompts[n].expired \/ cancelled[a]
  /\ asker' = [asker EXCEPT ![a] = "idle"]
  /\ cancelled' = [cancelled EXCEPT ![a] = FALSE]
  /\ promptOf' = [promptOf EXCEPT ![a] = 0]
  /\ pending' = pending \ {n}
  /\ current' = IF current = n THEN 0 ELSE current
  /\ prompts' = [prompts EXCEPT ![n].expired = FALSE]
  /\ UNCHANGED <<waiters, messages>>

-----------------------------------------------------------------------------
CancelFutures(ns) ==
  prompts' = [n \in DOMAIN prompts |->
                IF n \in ns /\ prompts[n].future = "pending"
                THEN [prompts[n] EXCEPT !.future = "cancelled"] ELSE prompts[n]]

\* abort_child: cancel_agent for its question, then its task.
AbortChild(a) ==
  /\ asker[a] # "idle"
  /\ cancelled' = [cancelled EXCEPT ![a] = TRUE]
  /\ CancelFutures({n \in pending : n = current /\ prompts[n].asker = a})
  /\ UNCHANGED <<asker, promptOf, waiters, pending, current, messages>>

\* Mutant of CancelAll: the question stays on the screen.
CancelAllButScreen ==
  /\ CancelFutures(pending)
  /\ pending' = {}
  /\ UNCHANGED <<current, tasks, messages>>

\* cancel_all: those that wait for the lock are not cancelled.
CancelAll ==
  /\ CancelFutures(pending)
  /\ pending' = {}
  /\ current' = 0
  /\ UNCHANGED <<tasks, messages>>

-----------------------------------------------------------------------------
Next ==
  \/ \E a \in Askers : Ask(a) \/ TakeLock(a) \/ LeaveQueue(a) \/ Resume(a) \/ AbortChild(a)
  \/ \E n \in DOMAIN prompts : AnswerPrompt(n) \/ Expire(n)
  \/ SubmitUserMessage
  \/ CancelAll

\* The event loop runs the tasks, and every timer fires in the end.  Answers
\* are up to the user.
Fairness ==
  /\ \A a \in Askers : WF_vars(TakeLock(a) \/ LeaveQueue(a) \/ Resume(a))
  /\ \A n \in 1..MaxPrompts : WF_vars(n \in DOMAIN prompts /\ Expire(n))

Spec == Init /\ [][Next]_vars /\ Fairness

-----------------------------------------------------------------------------
\* The variables range over the values of their Python counterparts.
TypeOK ==
  /\ asker \in [Askers -> {"idle", "queued", "asking"}]
  /\ cancelled \in [Askers -> BOOLEAN]
  /\ promptOf \in [Askers -> 0..Len(prompts)]
  /\ waiters \in Seq(Askers)
  /\ prompts \in Seq(Prompt)
  /\ pending \subseteq DOMAIN prompts
  /\ current \in 0..Len(prompts)
  /\ submitted \in 0..MaxMessages
  /\ chat \subseteq 1..submitted

\* One question at a time: a task asks while no other does.
OneQuestion ==
  \A a, b \in Askers : asker[a] = "asking" /\ asker[b] = "asking" => a = b

\* The question on the screen is one that is still waited for, so that an
\* answer to it is never kept for a later question; and the only one there is.
ScreenIsCurrent ==
  /\ pending \subseteq {current}
  /\ current # 0 => /\ current \in pending
                    /\ asker[prompts[current].asker] = "asking"
                    /\ promptOf[prompts[current].asker] = current

\* The lock's queue holds exactly the tasks that wait for it, each once.
QueueIsExact ==
  /\ IsInjective(waiters)
  /\ ToSet(waiters) = {a \in Askers : asker[a] = "queued"}

\* The lock, the screen and the futures tell one story between two awaits.
BrokerExact == OneQuestion /\ ScreenIsCurrent /\ QueueIsExact

\* Every question on the screen comes to an end, answered or not, and those
\* behind it in the queue have their turn, as far as MaxPrompts lets them ask.
EveryAskEnds ==
  \A a \in Askers :
    /\ asker[a] = "asking" ~> asker[a] # "asking"
    /\ asker[a] = "queued" ~> (asker[a] # "queued" \/ Len(prompts) = MaxPrompts)
=============================================================================
