----------------------------- MODULE MCPrompts -----------------------------
(* Three tasks, so that two can wait behind the question on the screen.     *)
(* The promises of an interview, which asks through the broker, are         *)
(* evaluated for every sequence of calls and every reply of a few lines.    *)
EXTENDS Prompts, Interview

Calls   == BoundedSeq(Fates, 5)
Replies == BoundedSeq({"brief", "done", "text"}, 4)

\* The user is asked three questions at most, however often the model calls the
\* tool, and every call beyond is told to write the brief.
ThreeQuestions ==
  \A fates \in Calls :
    LET s == Asked(fates)
    IN  /\ s.asked <= MaxQuestions /\ Len(s.told) = Len(fates)
        /\ \A k \in DOMAIN fates : k > MaxQuestions => s.told[k] = "limit reached"

\* A brief that was written although a question stayed without an answer is not
\* taken for what the user wants.
NoInventedBrief ==
  \A fates \in Calls, end \in Ends : \A reply \in Replies :
    LET result == RunPrompter(fates, reply, end)
    IN  result.brief # <<>> =>
          /\ result.status = "ok"
          /\ \A k \in 1 .. Len(fates) : k <= MaxQuestions => fates[k] # "timeout"

\* What is taken for the brief begins with one BRIEF and ends with the Done: that
\* closes the reply.
BriefIsTheLast ==
  \A reply \in Replies : HasBrief(reply) =>
    LET brief == Brief(reply)
    IN  /\ Head(brief) = "brief" /\ Last(brief) = "done"
        /\ \A k \in 2 .. Len(brief) : brief[k] # "brief"
        /\ \E n \in 0 .. Len(reply) - Len(brief) :
             /\ SubSeq(reply, n + 1, n + Len(brief)) = brief
             /\ \A k \in n + Len(brief) + 1 .. Len(reply) : reply[k] # "done"

ASSUME InterviewChecked == ThreeQuestions /\ NoInventedBrief /\ BriefIsTheLast
=============================================================================
