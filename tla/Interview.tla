------------------------------ MODULE Interview ------------------------------
(***************************************************************************)
(* The interview before a turn (src/agents/prompter.py): a short agent     *)
(* whose one tool asks the user, at most MAX_PROMPTER_QUESTIONS times, and *)
(* whose reply is searched for a brief.                                    *)
(*                                                                         *)
(* A run is the sequence of its calls of ask_user, each with what becomes  *)
(* of the question: an answer, an answer that ends the interview, the      *)
(* prompt broker's timeout, an error (no broker, no answer to be had); and *)
(* the reply, or how the run was stopped.                                  *)
(***************************************************************************)
EXTENDS Integers, Sequences, SequencesExt

MaxQuestions == 3      \* MAX_PROMPTER_QUESTIONS
MaxCalls     == 8      \* max_tool_calls; there is no continuation

Fates == {"answer", "enough", "timeout", "error"}

-----------------------------------------------------------------------------
(* The tool.                                                               *)

\* What ask_user tells the model, in its own words.
Told(fate) ==
  CASE fate = "answer"  -> "answer"
    [] fate = "enough"  -> "write the brief"
    [] fate = "timeout" -> "stop"
    [] fate = "error"   -> "error"

Silent == [asked |-> 0, timed_out |-> FALSE, told |-> <<>>]

\* One call: over the limit nobody is asked; a timeout is remembered, and does
\* not keep a later call from asking again.
AskUser(s, fate) ==
  IF s.asked >= MaxQuestions
    THEN [s EXCEPT !.told = Append(@, "limit reached")]
    ELSE [asked |-> s.asked + 1, timed_out |-> s.timed_out \/ fate = "timeout",
          told |-> Append(s.told, Told(fate))]

Asked(fates) == FoldLeft(AskUser, Silent, fates)

-----------------------------------------------------------------------------
(* The reply, line by line: "brief" is a line that says BRIEF, "done" one   *)
(* that says Done: and what, anything else is "text".                      *)

\* extract_brief: from the last BRIEF before the last Done: to that Done:.
HasBrief(reply) ==
  \E i, j \in DOMAIN reply :
    i < j /\ reply[i] = "brief" /\ reply[j] = "done"
          /\ \A k \in j + 1 .. Len(reply) : reply[k] # "done"

Brief(reply) ==
  LET done == CHOOSE j \in DOMAIN reply :
                reply[j] = "done" /\ \A k \in j + 1 .. Len(reply) : reply[k] # "done"
      first == CHOOSE i \in 1 .. done :
                 reply[i] = "brief" /\ \A k \in i + 1 .. done : reply[k] # "brief"
  IN  SubSeq(reply, first, done)

-----------------------------------------------------------------------------
(* run_prompter: what the card says at the end, and the brief, <<>> for the *)
(* user's own words.  A run that is aborted leaves "ok" on the card.       *)

Ends == {"replied", "timeout", "failed", "aborted"}

RunPrompter(fates, reply, end) ==
  CASE end = "aborted" -> [status |-> "ok", brief |-> <<>>]
    [] end = "failed"  -> [status |-> "failed", brief |-> <<>>]
    [] end = "timeout" \/ (end = "replied" /\ Asked(fates).timed_out)
                       -> [status |-> "timeout", brief |-> <<>>]
    [] OTHER           -> IF HasBrief(reply) THEN [status |-> "ok", brief |-> Brief(reply)]
                          ELSE [status |-> "incomplete", brief |-> <<>>]
=============================================================================
