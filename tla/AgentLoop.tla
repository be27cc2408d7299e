----------------------------- MODULE AgentLoop -----------------------------
(***************************************************************************)
(* The loop of one agent, src/agents/agent_loop.py: its message history,   *)
(* its budget of rounds and tool calls, compaction between two rounds, and *)
(* what is left when a run is aborted or fails.  pc names the await at     *)
(* which the loop stands; an abort may strike at any of them.  What the    *)
(* model, the user, the judge and the tools answer is a choice.            *)
(***************************************************************************)
EXTENDS Compactor

CONSTANTS
  MaxTurns,     \* config.max_turns
  MaxTools,     \* config.max_tool_calls
  Slice,        \* config.turn_slice: rounds granted by one continuation
  MaxContinues, \* config.max_continues (WRITER_CONTINUES for a writer)
  ExtendBy,     \* LOOP_EXTEND_INCREMENT
  ExtendMax,    \* LOOP_EXTEND_MAX_TOTAL
  CutoffCap,    \* LENGTH_CONTINUE_CAP
  NudgeCap,     \* FINISH_NUDGE_CAP
  Width,        \* bound on the tool calls of one reply
  Restored,     \* bound on the exchanges a session was restored with
  Runs,         \* bound on the runs of the loop
  Shrinks       \* bound on the compactions of one run that change the history

ASSUME LoopAssumption ==
  /\ MaxTurns \in Nat \ {0} /\ MaxTools \in Nat \ {0} /\ Slice \in Nat \ {0}
  /\ {MaxContinues, ExtendBy, ExtendMax, CutoffCap, NudgeCap, Restored, Runs, Shrinks} \subseteq Nat
  /\ Width \in Nat \ {0}

VARIABLES
  asks,       \* a continuation is put to the user (turn_continue, ask_user)
  parallel,   \* concurrent_tools
  judged,     \* judge_mode_for("loop") is enforcing
  history,    \* _history
  pc,         \* where run() is suspended
  resume,     \* what follows the compaction or the question
  marker,     \* len(_history) when the run began
  turn, continues, cutoffs, nudges,
  closers,    \* closer_ceilings
  ceiling, budget,   \* config.max_turns and config.max_tool_calls, as raised
  used,       \* _tool_call_count
  extended,   \* _loop_extended_by
  overflowed, \* _overflow_retried
  run,        \* runs begun
  sent,       \* completions asked for in this run
  compacted,  \* times this run replaced its history
  tainted     \* a run that had replaced its history was cut short

modes == <<asks, judged, parallel>>
config == <<ceiling, budget>>
counters == <<turn, continues, cutoffs, nudges, closers>>
rest == <<modes, run, sent, compacted, tainted>>
vars == <<history, pc, resume, marker, counters, config, used, extended,
          overflowed, rest>>

User == Plain("user")
Text == Plain("text")
Built == <<Plain("system")>> \o history   \* _build_messages

(* hydrate: the chat of a restored session, without its tool calls. *)
Hydrated(n) == [i \in 1..2 * n |-> IF i % 2 = 1 THEN User ELSE Text]

Init ==
  /\ asks \in BOOLEAN /\ judged \in BOOLEAN /\ parallel \in BOOLEAN
  /\ history \in {Hydrated(n) : n \in 0..Restored}
  /\ pc = "idle" /\ resume = "request" /\ marker = 0
  /\ turn = 0 /\ continues = 0 /\ cutoffs = 0 /\ nudges = 0 /\ closers = {}
  /\ ceiling = MaxTurns /\ budget = MaxTools
  /\ used = 0 /\ extended = 0 /\ overflowed = FALSE
  /\ run = 0 /\ sent = 0 /\ compacted = 0 /\ tainted = FALSE

Start ==
  /\ pc = "idle" /\ run < Runs
  /\ marker' = Len(history)
  /\ history' = Append(history, User)
  /\ pc' = "compact" /\ run' = run + 1
  /\ UNCHANGED <<resume, counters, used, extended, sent, compacted, config,
                 overflowed, tainted, modes>>

(* The finally clause takes back what a grant raised.  The counters of the *)
(* run are cleared here; nothing reads them before the next run.           *)
Leave ==
  /\ pc' = "idle" /\ resume' = "request" /\ marker' = 0
  /\ turn' = 0 /\ continues' = 0 /\ cutoffs' = 0 /\ nudges' = 0 /\ closers' = {}
  /\ ceiling' = MaxTurns /\ budget' = MaxTools
  /\ used' = 0 /\ extended' = 0 /\ sent' = 0 /\ compacted' = 0
  /\ UNCHANGED <<overflowed, run, modes>>
Return == Leave /\ UNCHANGED tainted

(* del self._history[marker:] *)
Truncated == SubSeq(history, 1, Smallest({marker, Len(history)}))
Cut == Leave /\ tainted' = (tainted \/ compacted > 0)
Raise == history' = Truncated /\ Cut

Abort ==
  /\ pc # "idle"
  /\ history' = Truncated \o <<User, Text>>
  /\ Cut

(* _maybe_compact: below the trigger nothing happens; compact() refuses to *)
(* return a history whose calls and results do not pair.                   *)
Compact ==
  /\ pc = "compact"
  /\ \/ /\ pc' = resume
        /\ \/ UNCHANGED <<history, compacted>>
           \/ /\ compacted < Shrinks /\ compacted' = compacted + 1
              /\ \E m \in Compactions(Built) : Valid(m) /\ history' = Tail(m)
        /\ UNCHANGED <<resume, marker, counters, config, used, extended,
                       overflowed, run, sent, tainted, modes>>
     \/ (\E m \in Compactions(Built) : ~Valid(m)) /\ Raise

(* _maybe_inject_closer, then the request. *)
Request ==
  /\ pc = "request" /\ turn < ceiling
  /\ pc' = "waiting" /\ sent' = sent + 1
  /\ IF ceiling >= 3 /\ turn = ceiling - 2 /\ ceiling \notin closers
     THEN history' = Append(history, User) /\ closers' = closers \cup {ceiling}
     ELSE UNCHANGED <<history, closers>>
  /\ UNCHANGED <<resume, marker, turn, continues, cutoffs, nudges, config, used,
                 extended, overflowed, run, compacted, tainted, modes>>

(* _complete: a context overflow compacts and asks again, once per agent. *)
Overflow ==
  /\ pc = "waiting" /\ ~overflowed
  /\ overflowed' = TRUE /\ pc' = "compact" /\ resume' = "request"
  /\ UNCHANGED <<history, marker, counters, config, used, extended, rest>>

Fail == pc = "waiting" /\ Raise

(* A reply with tool calls: the group is opened before the calls run. *)
ReplyCalls ==
  /\ pc = "waiting" /\ pc' = "tools"
  /\ \E n \in 1..Width : history' = Append(history, Calls(n))
  /\ UNCHANGED <<resume, marker, counters, config, used, extended, overflowed, rest>>

Open == Largest({i \in DOMAIN history : history[i].role = "calls"})
Opened == Cardinality(history[Open].ids)
Answered == Len(history) - Open

(* One call has run, and was counted or refused; the results of calls that *)
(* run together are appended together.                                     *)
Execute ==
  /\ pc = "tools" /\ Answered < Opened
  /\ IF parallel
     THEN /\ history' = history \o Results(Opened)
          /\ \E n \in 0..Opened : used' = used + n
     ELSE /\ history' = Append(history, Result(Answered + 1))
          /\ used' \in {used, used + 1}
  /\ UNCHANGED <<pc, resume, marker, counters, config, extended, overflowed, rest>>

(* The end of _dispatch: a history whose calls do not pair is an error;    *)
(* _after_tools may end the run with a text of its own.                    *)
Dispatched ==
  /\ pc = "tools" /\ Answered = Opened
  /\ \/ ~Valid(history) /\ Raise
     \/ Valid(history) /\ history' = Append(history, Text) /\ Return
     \/ /\ Valid(history) /\ pc' = "compact" /\ resume' = "round"
        /\ UNCHANGED <<history, marker, counters, config, used, extended,
                       overflowed, rest>>

(* _grant_slice *)
Grant(n) == ceiling' = ceiling + n /\ budget' = budget + 2 * n

\* Mutant of Judged: the extensions are not counted.
JudgedUncounted(t) ==
  /\ judged /\ t >= ceiling - 2 /\ Grant(ExtendBy) /\ UNCHANGED <<history, extended>>

(* A round of tools is paid; the judge may extend the budget near its end  *)
(* or ask the user, whose answer joins the history.                        *)
Judged(t) ==
  \/ UNCHANGED <<history, config, extended>>
  \/ judged /\ history' = Append(history, User) /\ UNCHANGED <<config, extended>>
  \/ /\ judged /\ t >= ceiling - 2 /\ extended < ExtendMax
     /\ \E n \in {Smallest({ExtendBy, ExtendMax - extended})} :
          Grant(n) /\ extended' = extended + n
     /\ UNCHANGED history
Round ==
  /\ pc = "round"
  /\ turn' = turn + 1
  /\ Judged(turn + 1)
  /\ IF turn' >= ceiling' \/ used >= budget'
     THEN pc' = "question" /\ resume' = "request"
     ELSE pc' = "request" /\ UNCHANGED resume
  /\ UNCHANGED <<marker, continues, cutoffs, nudges, closers, used, overflowed, rest>>

(* A reply cut off at the token limit is continued without a round spent. *)
ReplyCutoff ==
  /\ pc = "waiting" /\ cutoffs < CutoffCap
  /\ history' = history \o <<Text, User>>
  /\ cutoffs' = cutoffs + 1 /\ pc' = "request"
  /\ UNCHANGED <<resume, marker, turn, continues, nudges, closers, config, used,
                 extended, overflowed, rest>>

(* A reply of text ends the run, unless _finish_nudge sends the agent back *)
(* to work, for which it may first need a continuation.                    *)
ReplyText ==
  /\ pc = "waiting"
  /\ \/ history' = Append(history, Text) /\ Return
     \/ /\ nudges < NudgeCap
        /\ turn' = turn + 1
        /\ IF turn + 1 < ceiling
           THEN /\ history' = history \o <<Text, User>> /\ nudges' = nudges + 1
                /\ pc' = "request" /\ UNCHANGED resume
           ELSE /\ history' = Append(history, Text) /\ UNCHANGED nudges
                /\ pc' = "question" /\ resume' = "nudge"
        /\ UNCHANGED <<marker, continues, cutoffs, closers, config, used, extended,
                       overflowed, rest>>

(* _try_continue: another slice, or the run ends. *)
Continue ==
  /\ pc = "question"
  /\ \/ /\ asks /\ continues < MaxContinues
        /\ continues' = continues + 1 /\ Grant(Slice) /\ pc' = "request"
        /\ IF resume = "nudge"
           THEN history' = history \o <<User, User>> /\ nudges' = nudges + 1
           ELSE history' = Append(history, User) /\ UNCHANGED nudges
        /\ resume' = "request"
        /\ UNCHANGED <<marker, turn, cutoffs, closers, used, extended, overflowed, rest>>
     \/ UNCHANGED history /\ Return

Next == \/ Start \/ Abort \/ Compact \/ Request \/ Overflow \/ Fail \/ ReplyCalls
        \/ Execute \/ Dispatched \/ Round \/ ReplyCutoff \/ ReplyText \/ Continue

Spec == Init /\ [][Next]_vars

-----------------------------------------------------------------------------
TypeOK ==
  /\ \A i \in DOMAIN history :
       /\ history[i].role \in {"user", "text", "calls", "tool", "summary"}
       /\ history[i].ids \subseteq 1..Width
  /\ pc \in {"idle", "compact", "request", "waiting", "tools", "round", "question"}
  /\ resume \in {"request", "round", "nudge"}
  /\ {marker, turn, continues, cutoffs, nudges, ceiling, budget, used, extended,
      run, sent, compacted} \subseteq Nat
  /\ {asks, judged, parallel, overflowed, tainted} \subseteq BOOLEAN

(* A request carries a history whose tool calls and results pair, and the  *)
(* turn that follows is not refused, as long as no run that had compacted  *)
(* its history was cut short (_dispatch, "history pairing broken").        *)
PairsUnlessCut ==
  ~tainted => (pc \in {"idle", "request", "waiting", "round", "question"} => Valid(history))

(* The budget holds: each completion is a round, a continued cutoff or the *)
(* one retry of an overflow, a grant is bounded by its caps, and what a    *)
(* run was granted is gone when it ends, however it ends.                  *)
BudgetHolds ==
  /\ sent <= MaxTurns + Slice * MaxContinues + ExtendMax + CutoffCap + 1
  /\ turn <= ceiling \/ pc = "idle"
  /\ pc = "idle" => ceiling = MaxTurns /\ budget = MaxTools

(* Compaction of a well-formed history yields a well-formed one that still *)
(* starts with the system prompt and ends with everything from the last    *)
(* user message on, unless that message is the first of the history, when  *)
(* it is folded into the summary.                                          *)
CompactionKeepsExchange ==
  pc = "compact" /\ Valid(history) =>
    \A m \in Compactions(Built) :
      LET last == SubSeq(Built, LastExchange(Built) + 1, Len(Built))
      IN /\ Valid(m) /\ m[1] = Built[1]
         /\ last[1] = User /\ LastExchange(Built) > 1 =>
              Len(m) > Len(last) /\ SubSeq(m, Len(m) - Len(last) + 1, Len(m)) = last

(* The provider never gets a history it refuses, nor one that has lost what *)
(* the user asked last.                                                    *)
HistoryKept == PairsUnlessCut /\ CompactionKeepsExchange
=============================================================================
