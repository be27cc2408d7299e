--------------------------- MODULE SessionProofs ---------------------------
(***************************************************************************)
(* Proofs about the turns of a session, for every set of children and      *)
(* every number of messages and sessions.  IInv is the inductive           *)
(* invariant; its parts say what the pump and the status rest on.  The     *)
(* last part is about what a workspace remembers from session to session.  *)
(***************************************************************************)
EXTENDS Session, WorkspaceMemory, ListLemmas

-----------------------------------------------------------------------------
\* While a turn is under way, _aborting says whether an abort was asked for it,
\* and nothing but such a request cancels its task.
AbortAgrees ==
  Busy => /\ aborting <=> turns[current].asked
          /\ turns[current].cancelled => turns[current].asked

\* close_session leaves nothing in the queues.
ClosedIsEmpty == sid = 0 => pendingUser = <<>> /\ inbox = {}

\* Messages that wait or were begun have been submitted.
NumbersKnown ==
  /\ \A t \in DOMAIN turns : turns[t].user <= submitted
  /\ \A i \in DOMAIN pendingUser : pendingUser[i] <= submitted

\* The queue is in the order of submission, behind every message begun.
WaitingInOrder ==
  ~Vanished =>
    /\ \A i, j \in DOMAIN pendingUser : i < j => pendingUser[i] < pendingUser[j]
    /\ \A t \in DOMAIN turns, i \in DOMAIN pendingUser : turns[t].user < pendingUser[i]

\* A report is that of a child which is done, and will not report again.
ReportersDone ==
  \A c \in Children :
    c \in inbox \/ (\E t \in DOMAIN turns : c \in turns[t].reports) => child[c] = "done"

StatusInv == OneTurnAtATime /\ StatusTrue /\ AbortAgrees

StrandedInv == NothingStranded /\ ClosedIsEmpty

MessagesInv == NumbersKnown /\ WaitingInOrder /\ InOrder /\ NoMessageLost

ReportsInv == ReportersDone /\ ReportsOnce

IInv == TypeOK /\ StatusInv /\ StrandedInv /\ MessagesInv /\ ReportsInv

-----------------------------------------------------------------------------
\* ts are the turns of before, of which some may have moved on.
SameTurns(ts) ==
  /\ ts \in Seq(Turns)
  /\ Len(ts) = Len(turns)
  /\ DOMAIN ts = DOMAIN turns
  /\ \A t \in DOMAIN turns :
       /\ ts[t].user = turns[t].user
       /\ ts[t].reports = turns[t].reports
       /\ turns[t].phase = "vanished" => ts[t].phase = "vanished"

\* One turn more, behind the turns ts.
OneMore(ts, user, reports) ==
  /\ turns' \in Seq(Turns)
  /\ Len(turns') = Len(ts) + 1
  /\ DOMAIN turns' = 1 .. Len(ts) + 1
  /\ \A t \in 1 .. Len(ts) : turns'[t] = ts[t]
  /\ turns'[Len(ts) + 1] = NewTurn(user, reports)
  /\ current' = Len(ts) + 1

\* What the inbox holds once a child that is under way may have reported.
Collected(reports) ==
  \/ reports = inbox
  \/ \E c \in Children :
       child[c] = "live" /\ child'[c] = "done" /\ reports = inbox \cup {c}

\* Every step does one of these with the work that is queued or begun: nothing;
\* a report joins the inbox; a message joins the queue, or is begun at once; the
\* pump begins the next message, or all reports; the session is closed.
Idles ==
  /\ SameTurns(turns') /\ current' \in {0, current}
  /\ UNCHANGED queues

ReportJoins ==
  /\ Collected(inbox')
  /\ UNCHANGED <<turns, current, pendingUser, submitted, dropped>>

MessageJoins ==
  /\ submitted < MaxMessages /\ submitted' = submitted + 1
  /\ pendingUser' = Append(pendingUser, submitted')
  /\ UNCHANGED <<turns, current, inbox, dropped>>

MessageBegun ==
  /\ sid # 0 /\ ~Busy
  /\ submitted < MaxMessages /\ submitted' = submitted + 1
  /\ OneMore(turns, submitted', {})
  /\ UNCHANGED <<pendingUser, inbox, dropped>>

MessagePumped(ts, reports) ==
  /\ SameTurns(ts) /\ Collected(reports)
  /\ pendingUser # <<>> /\ pendingUser' = Tail(pendingUser)
  /\ OneMore(ts, Head(pendingUser), {})
  /\ inbox' = reports
  /\ UNCHANGED <<submitted, dropped>>

ReportsPumped(ts, reports) ==
  /\ SameTurns(ts) /\ Collected(reports)
  /\ pendingUser = <<>> /\ UNCHANGED pendingUser
  /\ OneMore(ts, 0, reports)
  /\ inbox' = {}
  /\ UNCHANGED <<submitted, dropped>>

SessionDropped ==
  /\ SameTurns(turns') /\ current' = current
  /\ dropped' = dropped \cup ToSet(pendingUser)
  /\ pendingUser' = <<>> /\ inbox' = {}
  /\ UNCHANGED submitted

WorkStep ==
  /\ \A c \in Children : child[c] = "done" => child'[c] = "done"
  /\ \/ Idles \/ ReportJoins \/ MessageJoins \/ MessageBegun \/ SessionDropped
     \/ \E ts, reports : MessagePumped(ts, reports) \/ ReportsPumped(ts, reports)

LEMMA TurnsAre ==
  ASSUME TypeOK
  PROVE  /\ Len(turns) \in Nat
         /\ DOMAIN turns = 1 .. Len(turns)
         /\ \A t \in DOMAIN turns : turns[t] \in Turns
  BY LenProperties, ElementOfSeq DEF TypeOK

LEMMA NothingMoved == ASSUME TypeOK PROVE SameTurns(turns)
  BY DEF TypeOK, SameTurns

\* One turn moves on.
LEMMA OneMoved ==
  ASSUME TypeOK, NEW t \in DOMAIN turns, NEW r \in Turns,
         r.user = turns[t].user, r.reports = turns[t].reports,
         turns[t].phase # "vanished"
  PROVE  SameTurns([turns EXCEPT ![t] = r])
<1>1. /\ [turns EXCEPT ![t] = r] \in Seq(Turns)
      /\ Len([turns EXCEPT ![t] = r]) = Len(turns)
      /\ \A s \in DOMAIN turns :
           [turns EXCEPT ![t] = r][s] = IF s = t THEN r ELSE turns[s]
  BY TurnsAre, ExceptSeq DEF TypeOK
<1>. QED
  BY <1>1 DEF SameTurns

\* _begin_turn adds one.
LEMMA BeginAdds ==
  ASSUME NEW ts \in Seq(Turns), NEW user \in Nat, NEW reports \in SUBSET Children,
         Begin(ts, user, reports)
  PROVE  OneMore(ts, user, reports)
<1>1. NewTurn(user, reports) \in Turns
  BY SessionAssumption DEF NewTurn, Turns
<1>2. turns' = Append(ts, NewTurn(user, reports))
  BY DEF Begin
<1>. QED
  BY <1>1, <1>2, AppendProperties, LenProperties DEF OneMore, Begin

\* What requesting an abort does to the turns.
LEMMA AbortMoves ==
  ASSUME TypeOK, RequestAbort
  PROVE  /\ SameTurns(turns')
         /\ current' = current
         /\ ~Busy => UNCHANGED turn
         /\ Busy => /\ aborting' = TRUE /\ shown' = "aborting"
                    /\ turns' = [turns EXCEPT ![current] =
                         [turns[current] EXCEPT !.cancelled = TRUE, !.asked = TRUE]]
<1>1. CASE Busy
  <2>. DEFINE r == [turns[current] EXCEPT !.cancelled = TRUE, !.asked = TRUE]
  <2>1. current \in DOMAIN turns /\ turns[current].phase # "vanished"
    BY <1>1 DEF Busy, LiveTurn
  <2>2. r \in Turns /\ r.user = turns[current].user /\ r.reports = turns[current].reports
    BY <2>1, TurnsAre DEF Turns
  <2>3. turns' = [turns EXCEPT ![current] = r]
    BY <1>1, <2>1, TurnsAre DEF RequestAbort, Turns
  <2>4. SameTurns([turns EXCEPT ![current] = r])
    BY <2>1, <2>2, OneMoved
  <2>. QED
    BY <1>1, <2>3, <2>4 DEF RequestAbort
<1>2. CASE ~Busy
  BY <1>2, NothingMoved DEF RequestAbort, turn
<1>. QED
  BY <1>1, <1>2

\* The turns after a turn has ended.
LEMMA EndMoves ==
  ASSUME TypeOK, NEW t \in DOMAIN turns, LiveTurn(t),
         NEW how \in {"answered", "silent", "aborted", "failed", "vanished"}
  PROVE  /\ SameTurns([turns EXCEPT ![t].phase = how])
         /\ \A s \in DOMAIN turns :
              [turns EXCEPT ![t].phase = how][s] =
                IF s = t THEN [turns[t] EXCEPT !.phase = how] ELSE turns[s]
<1>. DEFINE r == [turns[t] EXCEPT !.phase = how]
<1>1. r \in Turns /\ r.user = turns[t].user /\ r.reports = turns[t].reports
  BY TurnsAre DEF Turns
<1>2. turns[t].phase # "vanished"
  BY DEF LiveTurn
<1>3. [turns EXCEPT ![t].phase = how] = [turns EXCEPT ![t] = r]
  OBVIOUS
<1>. QED
  BY <1>1, <1>2, <1>3, OneMoved, TurnsAre

\* A pump hands out one message, or all reports.
LEMMA PumpWorks ==
  ASSUME TypeOK, NEW ts, SameTurns(ts), NEW reports \in SUBSET Children,
         Collected(reports), Pump(ts, reports), UNCHANGED <<submitted, dropped>>
  PROVE  MessagePumped(ts, reports) \/ ReportsPumped(ts, reports)
<1>1. ts \in Seq(Turns)
  BY DEF SameTurns
<1>2. CASE pendingUser # <<>>
  <2>1. Head(pendingUser) \in Nat
    <3>1. Head(pendingUser) \in 1 .. MaxMessages
      BY <1>2, HeadTailProperties DEF TypeOK
    <3>. QED
      BY <3>1, SessionAssumption
  <2>2. OneMore(ts, Head(pendingUser), {})
    BY <1>1, <1>2, <2>1, BeginAdds DEF Pump, TakeMessage
  <2>. QED
    BY <1>2, <2>2 DEF MessagePumped, Pump, TakeMessage
<1>3. CASE pendingUser = <<>>
  <2>1. OneMore(ts, 0, reports)
    BY <1>1, <1>3, BeginAdds DEF Pump, TakeReports
  <2>. QED
    BY <1>3, <2>1 DEF ReportsPumped, Pump, TakeReports
<1>. QED
  BY <1>2, <1>3

LEMMA EveryStepWorks == TypeOK /\ [Next]_vars => WorkStep
<1> SUFFICES ASSUME TypeOK, [Next]_vars PROVE WorkStep
  OBVIOUS
<1> USE DEF state, turn, queues, children
<1>0. SameTurns(turns) /\ inbox \in SUBSET Children
  BY NothingMoved DEF TypeOK
<1>1. CASE StartSession
  BY <1>0, <1>1 DEF StartSession, WorkStep, Idles
<1>2. CASE Bound
  BY <1>0, <1>2 DEF Bound, WorkStep, Idles
<1>3. CASE Submit
  <2>1. CASE Busy
    BY <1>3, <2>1 DEF Submit, WorkStep, MessageJoins
  <2>2. CASE ~Busy
    <3>1. submitted' \in Nat
      BY <1>3 DEF Submit, TypeOK
    <3>2. OneMore(turns, submitted', {})
      BY <1>3, <2>2, <3>1, BeginAdds DEF Submit, TypeOK
    <3>. QED
      BY <1>3, <2>2, <3>2 DEF Submit, WorkStep, MessageBegun
  <2>. QED
    BY <2>1, <2>2
<1>4. CASE AbortTurn
  BY <1>4, AbortMoves DEF AbortTurn, WorkStep, Idles
<1>5. ASSUME NEW t \in DOMAIN turns, TurnStarts(t) PROVE WorkStep
  <2>. DEFINE r == [turns[t] EXCEPT !.phase = "running", !.loop = loop]
  <2>1. r \in Turns /\ r.user = turns[t].user /\ r.reports = turns[t].reports
    BY TurnsAre DEF Turns, TypeOK
  <2>2. turns' = [turns EXCEPT ![t] = r]
    BY <1>5, TurnsAre DEF TurnStarts, Turns
  <2>. HIDE DEF r
  <2>3. SameTurns(turns')
    BY ZenonT(40), <1>5, <2>1, <2>2, OneMoved DEF TurnStarts
  <2>. QED
    BY <1>5, <2>3 DEF TurnStarts, WorkStep, Idles
<1>6. ASSUME NEW t \in DOMAIN turns, TurnVanishes(t) PROVE WorkStep
  <2>1. SameTurns(turns')
    BY <1>6, EndMoves DEF TurnVanishes
  <2>. QED
    BY <1>6, <2>1 DEF TurnVanishes, WorkStep, Idles
<1>7. ASSUME NEW t \in DOMAIN turns, TurnEnds(t) PROVE WorkStep
  <2>1. PICK how \in {"answered", "silent", "aborted", "failed"} :
          Finally([turns EXCEPT ![t].phase = how])
    BY <1>7 DEF TurnEnds
  <2>. DEFINE ts == [turns EXCEPT ![t].phase = how]
  <2>2. SameTurns(ts)
    BY <1>7, EndMoves DEF TurnEnds
  <2>. HIDE DEF ts
  <2>3. \A c \in Children : child[c] = "done" => child'[c] = "done"
    BY <1>7 DEF TurnEnds
  <2>4. UNCHANGED <<submitted, dropped>> /\ Finally(ts)
    BY <2>1 DEF Finally, ts
  <2>5. CASE sid # 0 /\ (pendingUser # <<>> \/ inbox # {})
    <3>1. Pump(ts, inbox) /\ Collected(inbox)
      BY <2>4, <2>5 DEF Finally, Collected
    <3>. QED
      BY <1>0, <2>2, <2>3, <2>4, <3>1, PumpWorks DEF WorkStep
  <2>6. CASE ~(sid # 0 /\ (pendingUser # <<>> \/ inbox # {}))
    BY <2>2, <2>3, <2>4, <2>6 DEF Finally, WorkStep, Idles
  <2>. QED
    BY <2>5, <2>6
<1>8. ASSUME NEW t \in DOMAIN turns, SwallowAbort(t) PROVE WorkStep
  <2>. DEFINE r == [turns[t] EXCEPT !.cancelled = FALSE]
  <2>1. r \in Turns /\ r.user = turns[t].user /\ r.reports = turns[t].reports
    BY TurnsAre DEF Turns
  <2>2. turns' = [turns EXCEPT ![t] = r]
    BY <1>8, TurnsAre DEF SwallowAbort, Turns
  <2>3. SameTurns(turns')
    BY <1>8, <2>1, <2>2, OneMoved DEF SwallowAbort
  <2>. QED
    BY <1>8, <2>3 DEF SwallowAbort, WorkStep, Idles
<1>9. ASSUME NEW t \in DOMAIN turns, NEW c \in Children, SpawnChild(t, c)
      PROVE  WorkStep
  BY <1>0, <1>9 DEF SpawnChild, WorkStep, Idles, TypeOK
<1>10. ASSUME NEW c \in Children, ChildReports(c) PROVE WorkStep
  <2>1. /\ \A d \in Children : child[d] = "done" => child'[d] = "done"
        /\ Collected(inbox \cup {c}) /\ inbox \cup {c} \in SUBSET Children
    BY <1>0, <1>10 DEF ChildReports, Collected, TypeOK
  <2>2. CASE Busy
    BY <1>10, <2>1, <2>2 DEF ChildReports, WorkStep, ReportJoins
  <2>3. CASE ~Busy
    BY <1>0, <1>10, <2>1, <2>3, PumpWorks DEF ChildReports, WorkStep
  <2>. QED
    BY <2>2, <2>3
<1>11. ASSUME NEW c \in Children, ChildEnds(c) PROVE WorkStep
  BY <1>0, <1>11 DEF ChildEnds, WorkStep, Idles, TypeOK
<1>12. CASE ShutdownBegins
  BY <1>12, AbortMoves DEF ShutdownBegins, WorkStep, Idles
<1>13. CASE ShutdownAbortsChildren
  BY <1>0, <1>13 DEF ShutdownAbortsChildren, AbortAllChildren, WorkStep, Idles
<1>14. CASE ShutdownEnds
  <2>1. CASE sid = 0
    BY <1>0, <1>14, <2>1 DEF ShutdownEnds, WorkStep, Idles
  <2>2. CASE sid # 0
    BY <1>14, <2>2, AbortMoves
       DEF ShutdownEnds, AbortAllChildren, WorkStep, SessionDropped
  <2>. QED
    BY <2>1, <2>2
<1>15. CASE UNCHANGED vars
  BY <1>0, <1>15 DEF vars, WorkStep, Idles
<1>. QED
  BY <1>1, <1>2, <1>3, <1>4, <1>5, <1>6, <1>7, <1>8, <1>9, <1>10, <1>11, <1>12,
     <1>13, <1>14, <1>15 DEF Next, TurnStep, ChildStep

-----------------------------------------------------------------------------
\* Every step keeps the types: of the work that is queued or begun,
LEMMA WorkTypes ==
  ASSUME TypeOK, WorkStep
  PROVE  /\ turns' \in Seq(Turns)
         /\ current' \in 0 .. Len(turns')
         /\ pendingUser' \in Seq(1 .. MaxMessages)
         /\ inbox' \subseteq Children
         /\ submitted' \in 0 .. MaxMessages
         /\ dropped' \subseteq 1 .. MaxMessages
<1> USE SessionAssumption
<1>1. CASE Idles
  BY <1>1, TurnsAre DEF Idles, SameTurns, TypeOK, queues
<1>2. CASE ReportJoins
  BY <1>2 DEF ReportJoins, Collected, TypeOK
<1>3. CASE MessageJoins
  <2>1. submitted' \in 1 .. MaxMessages
    BY <1>3 DEF MessageJoins, TypeOK
  <2>2. pendingUser' \in Seq(1 .. MaxMessages)
    BY <1>3, <2>1, AppendProperties DEF MessageJoins, TypeOK
  <2>. QED
    BY <1>3, <2>1, <2>2 DEF MessageJoins, TypeOK
<1>4. CASE MessageBegun
  BY <1>4, TurnsAre DEF MessageBegun, OneMore, TypeOK
<1>5. CASE SessionDropped
  <2>1. ToSet(pendingUser) \subseteq 1 .. MaxMessages
    BY LenProperties DEF ToSet, TypeOK
  <2>. QED
    BY <1>5, <2>1, TurnsAre, EmptySeq DEF SessionDropped, SameTurns, TypeOK
<1>6. ASSUME NEW ts, NEW reports, MessagePumped(ts, reports)
      PROVE  /\ turns' \in Seq(Turns)
             /\ current' \in 0 .. Len(turns')
             /\ pendingUser' \in Seq(1 .. MaxMessages)
             /\ inbox' \subseteq Children
             /\ submitted' \in 0 .. MaxMessages
             /\ dropped' \subseteq 1 .. MaxMessages
  <2>1. pendingUser' \in Seq(1 .. MaxMessages)
    BY <1>6, HeadTailProperties DEF MessagePumped, TypeOK
  <2>. QED
    BY <1>6, <2>1, TurnsAre DEF MessagePumped, Collected, SameTurns, OneMore, TypeOK
<1>7. ASSUME NEW ts, NEW reports, ReportsPumped(ts, reports)
      PROVE  /\ turns' \in Seq(Turns)
             /\ current' \in 0 .. Len(turns')
             /\ pendingUser' \in Seq(1 .. MaxMessages)
             /\ inbox' \subseteq Children
             /\ submitted' \in 0 .. MaxMessages
             /\ dropped' \subseteq 1 .. MaxMessages
  BY <1>7, TurnsAre DEF ReportsPumped, SameTurns, OneMore, TypeOK
<1>. QED
  BY <1>1, <1>2, <1>3, <1>4, <1>5, <1>6, <1>7 DEF WorkStep

\* and of the rest.
LEMMA TypeStep == TypeOK /\ [Next]_vars => TypeOK'
<1> SUFFICES ASSUME TypeOK, [Next]_vars PROVE TypeOK'
  OBVIOUS
<1> DEFINE Rest == /\ sid \in 0..MaxSessions
                   /\ started \in 0..MaxSessions
                   /\ loop \in 0..MaxSessions
                   /\ binding \in 0..MaxSessions
                   /\ closing \in {"no", "turn", "children", "end"}
                   /\ aborting \in BOOLEAN
                   /\ shown \in {"idle", "thinking", "aborting"}
                   /\ child \in [Children -> {"unused", "live", "aborted", "done"}]
                   /\ childLoop \in [Children -> 0..MaxSessions]
                   /\ abortedLoops \subseteq 1..MaxSessions
<1>0. Rest
  BY DEF TypeOK
<1>a. /\ turns' \in Seq(Turns)
      /\ current' \in 0 .. Len(turns')
      /\ pendingUser' \in Seq(1 .. MaxMessages)
      /\ inbox' \subseteq Children
      /\ submitted' \in 0 .. MaxMessages
      /\ dropped' \subseteq 1 .. MaxMessages
  BY EveryStepWorks, WorkTypes
<1>b. Rest'
  <2> USE SessionAssumption DEF state, turn, queues, children, WakeClosing
  <2>1. CASE StartSession
    BY <1>0, <2>1 DEF StartSession
  <2>2. CASE Bound
    BY <1>0, <2>2 DEF Bound
  <2>3. CASE Submit
    BY <1>0, <2>3 DEF Submit, Begin
  <2>4. CASE AbortTurn
    BY <1>0, <2>4 DEF AbortTurn, RequestAbort
  <2>5. ASSUME NEW t \in DOMAIN turns, TurnStarts(t) PROVE Rest'
    BY <1>0, <2>5 DEF TurnStarts
  <2>6. ASSUME NEW t \in DOMAIN turns, TurnVanishes(t) PROVE Rest'
    BY <1>0, <2>6 DEF TurnVanishes
  <2>7. ASSUME NEW t \in DOMAIN turns, TurnEnds(t) PROVE Rest'
    BY <1>0, <2>7 DEF TurnEnds, Finally, Pump, TakeMessage, TakeReports, Begin
  <2>8. ASSUME NEW t \in DOMAIN turns, SwallowAbort(t) PROVE Rest'
    BY <1>0, <2>8 DEF SwallowAbort
  <2>9. ASSUME NEW t \in DOMAIN turns, NEW c \in Children, SpawnChild(t, c)
        PROVE  Rest'
    <3>1. turns[t].loop \in 0 .. MaxSessions
      BY TurnsAre DEF Turns
    <3>2. /\ childLoop' = [childLoop EXCEPT ![c] = turns[t].loop]
          /\ child' = [child EXCEPT ![c] = "live"]
          /\ UNCHANGED <<sid, started, loop, binding, closing, aborting, shown,
                         abortedLoops>>
      BY <2>9 DEF SpawnChild
    <3>. QED
      BY <1>0, <3>1, <3>2
  <2>10. ASSUME NEW c \in Children, ChildReports(c) PROVE Rest'
    BY <1>0, <2>10 DEF ChildReports, Pump, TakeMessage, TakeReports, Begin
  <2>11. ASSUME NEW c \in Children, ChildEnds(c) PROVE Rest'
    BY <1>0, <2>11 DEF ChildEnds
  <2>12. CASE ShutdownBegins
    BY <1>0, <2>12 DEF ShutdownBegins, RequestAbort
  <2>13. CASE ShutdownAbortsChildren
    BY <1>0, <2>13 DEF ShutdownAbortsChildren, AbortAllChildren
  <2>14. CASE ShutdownEnds
    <3>1. RequestAbort \/ UNCHANGED turn
      BY <2>14 DEF ShutdownEnds
    <3>2. AbortAllChildren \/ UNCHANGED children
      BY <2>14 DEF ShutdownEnds
    <3>3. /\ aborting' \in BOOLEAN
          /\ shown' \in {"idle", "thinking", "aborting"}
      BY <1>0, <3>1 DEF RequestAbort
    <3>4. /\ child' \in [Children -> {"unused", "live", "aborted", "done"}]
          /\ childLoop' \in [Children -> 0..MaxSessions]
          /\ abortedLoops' \subseteq 1..MaxSessions
      <4>1. CASE UNCHANGED children
        BY <1>0, <4>1
      <4>2. CASE AbortAllChildren
        <5>1. child' \in [Children -> {"unused", "live", "aborted", "done"}]
          BY <1>0, <4>2 DEF AbortAllChildren
        <5>2. loop # 0 => loop \in 1 .. MaxSessions
          BY <1>0
        <5>3. childLoop' = childLoop /\ abortedLoops' \subseteq abortedLoops \cup {loop}
              /\ (loop = 0 => abortedLoops' = abortedLoops)
          BY <4>2 DEF AbortAllChildren
        <5>. QED
          BY <1>0, <5>1, <5>2, <5>3
      <4>. QED
        BY <3>2, <4>1, <4>2
    <3>5. /\ sid' \in 0..MaxSessions
          /\ loop' \in 0..MaxSessions
          /\ closing' = "no"
          /\ UNCHANGED <<started, binding>>
      BY <1>0, <2>14 DEF ShutdownEnds
    <3>. QED
      BY <1>0, <3>3, <3>4, <3>5
  <2>15. CASE UNCHANGED vars
    BY <1>0, <2>15 DEF vars
  <2>. QED
    BY <2>1, <2>2, <2>3, <2>4, <2>5, <2>6, <2>7, <2>8, <2>9, <2>10, <2>11, <2>12,
       <2>13, <2>14, <2>15 DEF Next, TurnStep, ChildStep
<1>. QED
  BY <1>a, <1>b DEF TypeOK

-----------------------------------------------------------------------------
\* A turn that is begun when none is under way.
LEMMA BeginStatus ==
  ASSUME NEW ts, NEW user, NEW reports,
         Len(ts) \in Nat, DOMAIN ts = 1 .. Len(ts),
         \A t \in DOMAIN ts :
           /\ ts[t].phase \notin {"created", "running"}
           /\ ts[t].phase = "answered" => ~ts[t].asked
           /\ ts[t].phase = "silent" => ts[t].asked,
         OneMore(ts, user, reports), Begin(ts, user, reports)
  PROVE  StatusInv'
<1>. DEFINE n == Len(ts) + 1
<1>1. /\ DOMAIN turns' = 1 .. n /\ n \in Nat \ {0}
      /\ \A t \in 1 .. Len(ts) : turns'[t] = ts[t]
      /\ turns'[n] = NewTurn(user, reports)
      /\ current' = n /\ aborting' = FALSE /\ shown' = "thinking"
  BY DEF OneMore, Begin
<1>2. /\ turns'[n].phase = "created"
      /\ ~turns'[n].cancelled /\ ~turns'[n].asked
  BY <1>1 DEF NewTurn
<1>3. \A t \in 1 .. n : t = n \/ t \in 1 .. Len(ts)
  OBVIOUS
<1>. HIDE DEF n
<1>4. OneTurnAtATime'
  BY <1>1, <1>2, <1>3 DEF OneTurnAtATime, LiveTurn
<1>5. StatusTrue'
  BY <1>1, <1>2, <1>3 DEF StatusTrue, IdleIsTrue, AbortHitsItsTurn
<1>6. AbortAgrees'
  BY <1>1, <1>2 DEF AbortAgrees
<1>. QED
  BY <1>4, <1>5, <1>6 DEF StatusInv

LEMMA AbortStatus ==
  ASSUME TypeOK, StatusInv, RequestAbort
  PROVE  StatusInv'
<1>1. CASE ~Busy
  BY <1>1, AbortMoves
     DEF turn, StatusInv, StatusTrue, OneTurnAtATime, IdleIsTrue, AbortHitsItsTurn,
         AbortAgrees, Busy, LiveTurn
<1>2. CASE Busy
  <2>1. /\ current \in DOMAIN turns
        /\ current' = current /\ aborting' = TRUE /\ shown' = "aborting"
        /\ DOMAIN turns' = DOMAIN turns
        /\ \A t \in DOMAIN turns \ {current} : turns'[t] = turns[t]
        /\ turns'[current].phase = turns[current].phase
        /\ turns'[current].asked
    BY <1>2, AbortMoves, TurnsAre DEF Busy, LiveTurn, Turns
  <2>2. \A t \in DOMAIN turns' : LiveTurn(t)' <=> LiveTurn(t)
    BY <2>1 DEF LiveTurn
  <2>3. OneTurnAtATime'
    BY <2>1, <2>2 DEF StatusInv, OneTurnAtATime
  <2>4. StatusTrue'
    BY <1>2, <2>1 DEF StatusInv, StatusTrue, IdleIsTrue, AbortHitsItsTurn, Busy, LiveTurn
  <2>5. AbortAgrees'
    BY <2>1 DEF AbortAgrees
  <2>. QED
    BY <2>3, <2>4, <2>5 DEF StatusInv
<1>. QED
  BY <1>1, <1>2

\* Every step keeps the status true.
LEMMA StatusStep ==
  TypeOK /\ StatusInv /\ [Next]_vars => StatusInv'
<1> SUFFICES ASSUME TypeOK, StatusInv, [Next]_vars PROVE StatusInv'
  OBVIOUS
<1> USE DEF state, queues, children
<1>0. CASE UNCHANGED turn
  BY <1>0 DEF turn, StatusInv, StatusTrue, OneTurnAtATime, IdleIsTrue,
              AbortHitsItsTurn, AbortAgrees, Busy, LiveTurn
<1>1. CASE Submit
  <2>1. CASE ~Busy
    <3>1. Begin(turns, submitted', {}) /\ submitted' \in Nat
      BY <1>1, <2>1 DEF Submit, TypeOK
    <3>2. OneMore(turns, submitted', {})
      BY <3>1, BeginAdds DEF TypeOK
    <3>3. \A t \in DOMAIN turns :
            /\ turns[t].phase \notin {"created", "running"}
            /\ turns[t].phase = "answered" => ~turns[t].asked
            /\ turns[t].phase = "silent" => turns[t].asked
      BY <2>1 DEF StatusInv, OneTurnAtATime, Busy, LiveTurn, StatusTrue, AbortHitsItsTurn
    <3>. QED
      BY <3>1, <3>2, <3>3, BeginStatus, TurnsAre
  <2>. QED
    BY <1>0, <1>1, <2>1 DEF Submit
<1>2. ASSUME NEW t \in DOMAIN turns, TurnStarts(t) PROVE StatusInv'
  <2>1. /\ t = current /\ current' = current /\ UNCHANGED <<aborting, shown>>
        /\ DOMAIN turns' = DOMAIN turns
        /\ \A s \in DOMAIN turns \ {t} : turns'[s] = turns[s]
        /\ turns'[t].phase = "running"
        /\ turns'[t].asked = turns[t].asked
        /\ turns'[t].cancelled = turns[t].cancelled
    BY <1>2, TurnsAre DEF TurnStarts, StatusInv, OneTurnAtATime, Turns
  <2>2. LiveTurn(t)
    BY <1>2 DEF TurnStarts
  <2>3. OneTurnAtATime'
    BY <2>1 DEF StatusInv, OneTurnAtATime, LiveTurn
  <2>4. StatusTrue'
    BY <2>1, <2>2 DEF StatusInv, StatusTrue, IdleIsTrue, AbortHitsItsTurn, Busy
  <2>5. AbortAgrees'
    BY <2>1, <2>2 DEF StatusInv, AbortAgrees, Busy
  <2>. QED
    BY <2>3, <2>4, <2>5 DEF StatusInv
<1>3. ASSUME NEW t \in DOMAIN turns, TurnVanishes(t) PROVE StatusInv'
  <2>1. /\ t = current /\ current' = current /\ UNCHANGED <<aborting, shown>>
        /\ DOMAIN turns' = DOMAIN turns
        /\ \A s \in DOMAIN turns \ {t} : turns'[s] = turns[s]
        /\ turns'[t].phase = "vanished"
    BY <1>3, TurnsAre DEF TurnVanishes, StatusInv, OneTurnAtATime, Turns
  <2>2. ~Busy'
    BY <2>1 DEF Busy, LiveTurn
  <2>3. OneTurnAtATime'
    BY <2>1 DEF StatusInv, OneTurnAtATime, LiveTurn
  <2>4. StatusTrue'
    BY <2>1, <2>2 DEF StatusInv, StatusTrue, IdleIsTrue, AbortHitsItsTurn
  <2>. QED
    BY <2>2, <2>3, <2>4 DEF StatusInv, AbortAgrees
<1>4. ASSUME NEW t \in DOMAIN turns, TurnEnds(t) PROVE StatusInv'
  <2>1. PICK how \in {"answered", "silent", "aborted", "failed"} :
          /\ how = "answered" => ~aborting
          /\ how = "silent" => aborting
          /\ Finally([turns EXCEPT ![t].phase = how])
    BY <1>4 DEF TurnEnds
  <2>. DEFINE ts == [turns EXCEPT ![t].phase = how]
  <2>2. /\ SameTurns(ts)
        /\ \A s \in DOMAIN turns :
             ts[s] = IF s = t THEN [turns[t] EXCEPT !.phase = how] ELSE turns[s]
    BY <1>4, EndMoves DEF TurnEnds
  <2>3. ts[t].phase = how /\ ts[t].asked = turns[t].asked
    BY <2>2, TurnsAre DEF Turns
  <2>4. Finally(ts)
    BY <2>1
  <2>. HIDE DEF ts
  <2>5. /\ t = current /\ LiveTurn(t)
        /\ \A s \in DOMAIN turns : s # t => turns[s].phase \notin {"created", "running"}
    BY <1>4 DEF TurnEnds, StatusInv, OneTurnAtATime, LiveTurn
  <2>6. aborting <=> turns[t].asked
    BY <2>5 DEF StatusInv, AbortAgrees, Busy
  <2>7. \A s \in DOMAIN ts :
          /\ ts[s].phase \notin {"created", "running"}
          /\ ts[s].phase = "answered" => ~ts[s].asked
          /\ ts[s].phase = "silent" => ts[s].asked
    <3>. SUFFICES ASSUME NEW s \in DOMAIN turns
                  PROVE  /\ ts[s].phase \notin {"created", "running"}
                         /\ ts[s].phase = "answered" => ~ts[s].asked
                         /\ ts[s].phase = "silent" => ts[s].asked
      BY <2>2 DEF SameTurns
    <3>1. CASE s = t
      BY <2>1, <2>3, <2>6, <3>1
    <3>2. CASE s # t
      BY <2>2, <2>5, <3>2 DEF StatusInv, StatusTrue, AbortHitsItsTurn
    <3>. QED
      BY <3>1, <3>2
  <2>8. ts \in Seq(Turns) /\ Len(ts) \in Nat /\ DOMAIN ts = 1 .. Len(ts)
    BY <2>2, LenProperties DEF SameTurns
  <2>9. CASE sid # 0 /\ (pendingUser # <<>> \/ inbox # {})
    <3>1. Pump(ts, inbox)
      BY <2>4, <2>9 DEF Finally
    <3>2. CASE pendingUser # <<>>
      <4>1. Begin(ts, Head(pendingUser), {}) /\ Head(pendingUser) \in 1 .. MaxMessages
        BY <3>1, <3>2, HeadTailProperties DEF Pump, TakeMessage, TypeOK
      <4>2. OneMore(ts, Head(pendingUser), {})
        BY <2>8, <4>1, BeginAdds, SessionAssumption
      <4>. QED
        BY <2>7, <2>8, <4>1, <4>2, BeginStatus
    <3>3. CASE pendingUser = <<>>
      <4>1. Begin(ts, 0, inbox) /\ inbox \in SUBSET Children
        BY <3>1, <3>3 DEF Pump, TakeReports, TypeOK
      <4>2. OneMore(ts, 0, inbox)
        BY <2>8, <4>1, BeginAdds
      <4>. QED
        BY <2>7, <2>8, <4>1, <4>2, BeginStatus
    <3>. QED
      BY <3>2, <3>3
  <2>10. CASE ~(sid # 0 /\ (pendingUser # <<>> \/ inbox # {}))
    <3>1. turns' = ts /\ current' = 0 /\ aborting' = FALSE /\ shown' = "idle"
      BY <2>4, <2>10 DEF Finally
    <3>. QED
      BY <2>7, <2>8, <3>1 DEF StatusInv, OneTurnAtATime, StatusTrue, IdleIsTrue,
                              AbortHitsItsTurn, AbortAgrees, Busy, LiveTurn
  <2>. QED
    BY <2>9, <2>10
<1>5. ASSUME NEW t \in DOMAIN turns, SwallowAbort(t) PROVE StatusInv'
  <2>1. /\ t = current /\ current' = current /\ UNCHANGED <<aborting, shown>>
        /\ DOMAIN turns' = DOMAIN turns
        /\ \A s \in DOMAIN turns \ {t} : turns'[s] = turns[s]
        /\ turns'[t].phase = turns[t].phase
        /\ turns'[t].asked = turns[t].asked
        /\ turns'[t].cancelled = FALSE
    BY <1>5, TurnsAre DEF SwallowAbort, StatusInv, OneTurnAtATime, Turns
  <2>2. LiveTurn(t)
    BY <1>5 DEF SwallowAbort
  <2>3. OneTurnAtATime'
    BY <2>1 DEF StatusInv, OneTurnAtATime, LiveTurn
  <2>4. StatusTrue'
    BY <2>1, <2>2 DEF StatusInv, StatusTrue, IdleIsTrue, AbortHitsItsTurn, Busy
  <2>5. AbortAgrees'
    BY <2>1, <2>2 DEF StatusInv, AbortAgrees, Busy
  <2>. QED
    BY <2>3, <2>4, <2>5 DEF StatusInv
<1>6. ASSUME NEW c \in Children, ChildReports(c) PROVE StatusInv'
  <2>1. CASE ~Busy
    <3>1. /\ Pump(turns, inbox \cup {c}) /\ inbox \cup {c} \in SUBSET Children
      BY <1>6, <2>1 DEF ChildReports, TypeOK
    <3>2. \A t \in DOMAIN turns :
            /\ turns[t].phase \notin {"created", "running"}
            /\ turns[t].phase = "answered" => ~turns[t].asked
            /\ turns[t].phase = "silent" => turns[t].asked
      BY <2>1 DEF StatusInv, OneTurnAtATime, Busy, LiveTurn, StatusTrue, AbortHitsItsTurn
    <3>3. CASE pendingUser # <<>>
      <4>1. Begin(turns, Head(pendingUser), {}) /\ Head(pendingUser) \in 1 .. MaxMessages
        BY <3>1, <3>3, HeadTailProperties DEF Pump, TakeMessage, TypeOK
      <4>2. OneMore(turns, Head(pendingUser), {})
        BY <4>1, BeginAdds, SessionAssumption DEF TypeOK
      <4>. QED
        BY <3>2, <4>1, <4>2, BeginStatus, TurnsAre
    <3>4. CASE pendingUser = <<>>
      <4>1. Begin(turns, 0, inbox \cup {c})
        BY <3>1, <3>4 DEF Pump, TakeReports
      <4>2. OneMore(turns, 0, inbox \cup {c})
        BY <3>1, <4>1, BeginAdds DEF TypeOK
      <4>. QED
        BY <3>2, <4>1, <4>2, BeginStatus, TurnsAre
    <3>. QED
      BY <3>3, <3>4
  <2>. QED
    BY <1>0, <1>6, <2>1 DEF ChildReports
<1>7. CASE AbortTurn
  BY <1>7, AbortStatus DEF AbortTurn
<1>8. CASE ShutdownBegins
  BY <1>8, AbortStatus DEF ShutdownBegins
<1>9. CASE ShutdownEnds
  BY <1>0, <1>9, AbortStatus DEF ShutdownEnds
<1>10. CASE StartSession \/ Bound \/ ShutdownAbortsChildren \/ UNCHANGED vars
  BY <1>0, <1>10 DEF StartSession, Bound, ShutdownAbortsChildren, vars
<1>11. ASSUME NEW c \in Children, ChildEnds(c) \/ \E t \in DOMAIN turns : SpawnChild(t, c)
       PROVE  StatusInv'
  BY <1>0, <1>11 DEF ChildEnds, SpawnChild
<1>. QED
  BY <1>1, <1>2, <1>3, <1>4, <1>5, <1>6, <1>7, <1>8, <1>9, <1>10, <1>11
     DEF Next, TurnStep, ChildStep

-----------------------------------------------------------------------------
\* Turns are never taken back: what they were begun for stays, and so does one
\* that vanished.
LEMMA TurnsStay ==
  ASSUME TypeOK, NEW ts, SameTurns(ts), NEW user, NEW reports,
         OneMore(ts, user, reports)
  PROVE  /\ DOMAIN turns' = DOMAIN turns \cup {Len(turns) + 1}
         /\ \A t \in DOMAIN turns :
              /\ t < Len(turns) + 1
              /\ turns'[t].user = turns[t].user
              /\ turns'[t].reports = turns[t].reports
              /\ turns[t].phase = "vanished" => turns'[t].phase = "vanished"
         /\ turns'[Len(turns) + 1].user = user
         /\ turns'[Len(turns) + 1].reports = reports
         /\ Busy'
<1>1. /\ Len(turns) \in Nat /\ Len(ts) = Len(turns)
      /\ DOMAIN turns = 1 .. Len(turns)
      /\ DOMAIN turns' = 1 .. Len(turns) + 1
      /\ \A t \in DOMAIN turns : turns'[t] = ts[t]
      /\ turns'[Len(turns) + 1] = NewTurn(user, reports)
      /\ current' = Len(turns) + 1
  BY TurnsAre DEF SameTurns, OneMore
<1>2. Busy'
  BY <1>1 DEF Busy, LiveTurn, NewTurn
<1>. QED
  BY <1>1, <1>2 DEF SameTurns, NewTurn

LEMMA VanishedStays == TypeOK /\ WorkStep /\ Vanished => Vanished'
<1> SUFFICES ASSUME TypeOK, WorkStep, Vanished PROVE Vanished'
  OBVIOUS
<1>1. PICK t \in DOMAIN turns : turns[t].phase = "vanished"
  BY DEF Vanished
<1>2. t \in DOMAIN turns' /\ turns'[t].phase = "vanished"
  <2>1. CASE Idles \/ SessionDropped
    BY <1>1, <2>1 DEF Idles, SessionDropped, SameTurns
  <2>2. CASE ReportJoins \/ MessageJoins
    BY <1>1, <2>2 DEF ReportJoins, MessageJoins
  <2>3. CASE MessageBegun
    BY <1>1, <2>3, TurnsStay, NothingMoved DEF MessageBegun
  <2>4. ASSUME NEW ts, NEW reports,
               MessagePumped(ts, reports) \/ ReportsPumped(ts, reports)
        PROVE  t \in DOMAIN turns' /\ turns'[t].phase = "vanished"
    BY <1>1, <2>4, TurnsStay DEF MessagePumped, ReportsPumped
  <2>. QED
    BY <2>1, <2>2, <2>3, <2>4 DEF WorkStep
<1>. QED
  BY <1>2 DEF Vanished

\* Every step that leaves the orchestrator idle leaves nothing waiting.
LEMMA StrandedStep ==
  TypeOK /\ OneTurnAtATime /\ StrandedInv /\ [Next]_vars => StrandedInv'
<1> SUFFICES ASSUME TypeOK, OneTurnAtATime, StrandedInv, [Next]_vars
             PROVE  StrandedInv'
  OBVIOUS
<1> USE DEF state, turn, queues, children
<1>0. ~Vanished' => ~Vanished
  BY EveryStepWorks, VanishedStays
<1>1. CASE /\ UNCHANGED queues
           /\ Busy' <=> Busy
           /\ sid' # 0 \/ sid' = sid
  BY <1>0, <1>1 DEF StrandedInv, NothingStranded, ClosedIsEmpty
<1>2. CASE Busy' /\ sid # 0 /\ sid' = sid
  BY <1>2 DEF StrandedInv, NothingStranded, ClosedIsEmpty
<1>4. ASSUME UNCHANGED turn PROVE Busy' <=> Busy
  BY <1>4 DEF Busy, LiveTurn
<1>5. ASSUME RequestAbort PROVE Busy' <=> Busy
  <2>1. CASE Busy
    <3>1. current \in DOMAIN turns' /\ current' = current
          /\ turns'[current].phase = turns[current].phase
      BY <1>5, <2>1, AbortMoves, TurnsAre DEF Busy, LiveTurn, Turns
    <3>. QED
      BY <2>1, <3>1 DEF Busy, LiveTurn
  <2>. QED
    BY <1>4, <1>5, <2>1 DEF RequestAbort
<1>6. CASE StartSession
  BY <1>1, <1>4, <1>6 DEF StartSession, TypeOK
<1>7. CASE Bound \/ ShutdownAbortsChildren \/ UNCHANGED vars
  BY <1>1, <1>4, <1>7 DEF Bound, ShutdownAbortsChildren, vars
<1>8. CASE Submit
  <2>1. CASE Busy
    BY <1>2, <1>4, <1>8, <2>1 DEF Submit
  <2>2. CASE ~Busy
    <3>1. Begin(turns, submitted', {}) /\ submitted' \in Nat
      BY <1>8, <2>2 DEF Submit, TypeOK
    <3>2. OneMore(turns, submitted', {})
      BY <3>1, BeginAdds DEF TypeOK
    <3>. QED
      BY <1>2, <1>8, <3>2, NothingMoved, TurnsStay DEF Submit
  <2>. QED
    BY <2>1, <2>2
<1>9. CASE AbortTurn
  BY <1>1, <1>5, <1>9 DEF AbortTurn
<1>10. ASSUME NEW t \in DOMAIN turns, TurnStarts(t) PROVE StrandedInv'
  <2>1. Busy /\ Busy'
    BY <1>10, TurnsAre DEF TurnStarts, OneTurnAtATime, Busy, LiveTurn, Turns
  <2>. QED
    BY <1>1, <1>10, <2>1 DEF TurnStarts
<1>11. ASSUME NEW t \in DOMAIN turns, TurnVanishes(t) PROVE StrandedInv'
  <2>1. Vanished'
    BY <1>11, TurnsAre DEF TurnVanishes, Vanished, Turns
  <2>. QED
    BY <1>11, <2>1 DEF TurnVanishes, StrandedInv, NothingStranded, ClosedIsEmpty
<1>12. ASSUME NEW t \in DOMAIN turns, TurnEnds(t) PROVE StrandedInv'
  <2>1. PICK how \in {"answered", "silent", "aborted", "failed"} :
          Finally([turns EXCEPT ![t].phase = how])
    BY <1>12 DEF TurnEnds
  <2>. DEFINE ts == [turns EXCEPT ![t].phase = how]
  <2>2. SameTurns(ts)
    BY <1>12, EndMoves DEF TurnEnds
  <2>3. sid' = sid /\ Finally(ts)
    BY <1>12, <2>1 DEF TurnEnds
  <2>. HIDE DEF ts
  <2>4. CASE sid # 0 /\ (pendingUser # <<>> \/ inbox # {})
    <3>1. Pump(ts, inbox) /\ Collected(inbox) /\ inbox \in SUBSET Children
          /\ UNCHANGED <<submitted, dropped>>
      BY <2>3, <2>4 DEF Finally, Collected, TypeOK
    <3>2. MessagePumped(ts, inbox) \/ ReportsPumped(ts, inbox)
      BY <2>2, <3>1, PumpWorks
    <3>3. Busy'
      BY <2>2, <3>2, TurnsStay DEF MessagePumped, ReportsPumped
    <3>. QED
      BY <1>2, <2>3, <2>4, <3>3
  <2>5. CASE ~(sid # 0 /\ (pendingUser # <<>> \/ inbox # {}))
    BY <2>3, <2>5 DEF Finally, StrandedInv, NothingStranded, ClosedIsEmpty
  <2>. QED
    BY <2>4, <2>5
<1>13. ASSUME NEW t \in DOMAIN turns, SwallowAbort(t) PROVE StrandedInv'
  <2>1. Busy /\ Busy'
    BY <1>13, TurnsAre DEF SwallowAbort, OneTurnAtATime, Busy, LiveTurn, Turns
  <2>. QED
    BY <1>1, <1>13, <2>1 DEF SwallowAbort
<1>14. ASSUME NEW c \in Children, ChildReports(c) PROVE StrandedInv'
  <2>1. CASE Busy
    BY <1>2, <1>4, <1>14, <2>1 DEF ChildReports
  <2>2. CASE ~Busy
    <3>1. /\ Pump(turns, inbox \cup {c}) /\ inbox \cup {c} \in SUBSET Children
          /\ Collected(inbox \cup {c}) /\ UNCHANGED <<submitted, dropped>>
      BY <1>14, <2>2 DEF ChildReports, Collected, TypeOK
    <3>2. \/ MessagePumped(turns, inbox \cup {c})
          \/ ReportsPumped(turns, inbox \cup {c})
      BY <3>1, NothingMoved, PumpWorks
    <3>3. Busy'
      BY <3>2, TurnsStay DEF MessagePumped, ReportsPumped
    <3>. QED
      BY <1>2, <1>14, <3>3 DEF ChildReports
  <2>. QED
    BY <2>1, <2>2
<1>15. ASSUME NEW c \in Children, ChildEnds(c) \/ \E t \in DOMAIN turns : SpawnChild(t, c)
       PROVE  StrandedInv'
  BY <1>1, <1>4, <1>15 DEF ChildEnds, SpawnChild
<1>16. CASE ShutdownBegins
  BY <1>1, <1>5, <1>16 DEF ShutdownBegins
<1>17. CASE ShutdownEnds
  BY <1>1, <1>4, <1>17 DEF ShutdownEnds, StrandedInv, NothingStranded, ClosedIsEmpty
<1>. QED
  BY <1>6, <1>7, <1>8, <1>9, <1>10, <1>11, <1>12, <1>13, <1>14, <1>15, <1>16, <1>17
     DEF Next, TurnStep, ChildStep

-----------------------------------------------------------------------------
\* Every step loses no message and keeps their order.
LEMMA MessagesStep ==
  TypeOK /\ TypeOK' /\ StrandedInv /\ MessagesInv /\ WorkStep => MessagesInv'
<1> SUFFICES ASSUME TypeOK, TypeOK', StrandedInv, MessagesInv, WorkStep
             PROVE  MessagesInv'
  OBVIOUS
<1>0. /\ ~Vanished' => ~Vanished
      /\ submitted \in Nat
      /\ Len(pendingUser) \in Nat /\ DOMAIN pendingUser = 1 .. Len(pendingUser)
      /\ \A i \in DOMAIN pendingUser : pendingUser[i] \in Nat \ {0}
      /\ \A t \in DOMAIN turns : turns[t].user \in Nat
      /\ Len(turns) \in Nat /\ DOMAIN turns = 1 .. Len(turns)
  <2>1. \A i \in DOMAIN pendingUser : pendingUser[i] \in 1 .. MaxMessages
    BY LenProperties, ElementOfSeq DEF TypeOK
  <2>2. submitted \in Nat /\ pendingUser \in Seq(1 .. MaxMessages)
    BY DEF TypeOK
  <2>3. \A t \in DOMAIN turns : turns[t].user \in Nat
    BY TurnsAre DEF Turns
  <2>. QED
    BY <2>1, <2>2, <2>3, TurnsAre, VanishedStays, LenProperties
<1>1. CASE /\ SameTurns(turns')
           /\ UNCHANGED <<pendingUser, submitted, dropped>>
  <2>1. DOMAIN turns' = DOMAIN turns
        /\ \A t \in DOMAIN turns : turns'[t].user = turns[t].user
    BY <1>1 DEF SameTurns
  <2>2. NumbersKnown'
    BY <1>1, <2>1 DEF MessagesInv, NumbersKnown
  <2>3. WaitingInOrder'
    BY <1>0, <1>1, <2>1 DEF MessagesInv, WaitingInOrder
  <2>4. InOrder'
    BY <1>0, <1>1, <2>1 DEF MessagesInv, InOrder
  <2>5. NoMessageLost'
    BY <1>1, <2>1 DEF MessagesInv, NoMessageLost
  <2>. QED
    BY <2>2, <2>3, <2>4, <2>5 DEF MessagesInv
<1>2. CASE MessageJoins
  <2>. DEFINE n == Len(pendingUser) + 1
  <2>1. /\ submitted' = submitted + 1 /\ submitted' \in 1 .. MaxMessages
        /\ turns' = turns /\ dropped' = dropped
        /\ pendingUser' = Append(pendingUser, submitted')
    BY <1>2 DEF MessageJoins, TypeOK
  <2>2. /\ DOMAIN pendingUser' = DOMAIN pendingUser \cup {n}
        /\ \A i \in DOMAIN pendingUser : i < n /\ pendingUser'[i] = pendingUser[i]
        /\ pendingUser'[n] = submitted + 1
    <3>1. /\ Append(pendingUser, submitted') \in Seq(1 .. MaxMessages)
          /\ Len(pendingUser') = Len(pendingUser) + 1
          /\ \A i \in 1 .. Len(pendingUser) : pendingUser'[i] = pendingUser[i]
          /\ pendingUser'[Len(pendingUser) + 1] = submitted'
      BY SMTT(30), <2>1, AppendProperties DEF TypeOK
    <3>2. DOMAIN pendingUser' = 1 .. n
      BY <2>1, <3>1, LenProperties
    <3>. QED
      BY <1>0, <2>1, <3>1, <3>2
  <2>. HIDE DEF n
  <2>3. NumbersKnown'
    BY <1>0, <2>1, <2>2 DEF MessagesInv, NumbersKnown
  <2>4. WaitingInOrder'
    <3>. SUFFICES ASSUME ~Vanished'
                  PROVE  /\ \A i, j \in DOMAIN pendingUser' :
                              i < j => pendingUser'[i] < pendingUser'[j]
                         /\ \A t \in DOMAIN turns, i \in DOMAIN pendingUser' :
                              turns[t].user < pendingUser'[i]
      BY <2>1 DEF WaitingInOrder
    <3>1. \A i \in DOMAIN pendingUser : pendingUser'[i] < pendingUser'[n] /\ ~(n < i)
      BY <1>0, <2>2 DEF MessagesInv, NumbersKnown, n
    <3>2. \A i, j \in DOMAIN pendingUser :
            i < j => pendingUser'[i] < pendingUser'[j]
      BY <1>0, <2>2 DEF MessagesInv, WaitingInOrder
    <3>3. \A t \in DOMAIN turns : turns[t].user < pendingUser'[n]
      BY <1>0, <2>2 DEF MessagesInv, NumbersKnown
    <3>4. \A t \in DOMAIN turns, i \in DOMAIN pendingUser :
            turns[t].user < pendingUser'[i]
      BY <1>0, <2>2 DEF MessagesInv, WaitingInOrder
    <3>5. ~(n < n)
      BY <1>0 DEF n
    <3>. QED
      BY <2>2, <3>1, <3>2, <3>3, <3>4, <3>5
  <2>5. InOrder'
    BY <1>0, <2>1 DEF MessagesInv, InOrder
  <2>6. NoMessageLost'
    <3>1. ToSet(pendingUser') = ToSet(pendingUser) \cup {submitted + 1}
      BY <2>2 DEF ToSet
    <3>2. \A m \in 1 .. submitted' : m \in 1 .. submitted \/ m = submitted + 1
      BY <1>0, <2>1
    <3>. QED
      BY <2>1, <3>1, <3>2 DEF MessagesInv, NoMessageLost
  <2>. QED
    BY <2>3, <2>4, <2>5, <2>6 DEF MessagesInv
<1>3. CASE MessageBegun
  <2>. DEFINE n == Len(turns) + 1
  <2>1. /\ submitted' = submitted + 1 /\ UNCHANGED <<pendingUser, dropped>>
        /\ DOMAIN turns' = DOMAIN turns \cup {n}
        /\ \A t \in DOMAIN turns : t < n /\ turns'[t].user = turns[t].user
        /\ turns'[n].user = submitted + 1
    BY <1>3, NothingMoved, TurnsStay DEF MessageBegun
  <2>2. ~Vanished => pendingUser = <<>>
    BY <1>3 DEF MessageBegun, StrandedInv, NothingStranded
  <2>3. \A t \in DOMAIN turns : ~(n < t)
    BY <1>0
  <2>4. ~(n < n)
    BY <1>0
  <2>. HIDE DEF n
  <2>5. NumbersKnown'
    BY <1>0, <2>1 DEF MessagesInv, NumbersKnown
  <2>6. WaitingInOrder'
    <3>1. ~Vanished' => DOMAIN pendingUser' = {}
      BY <1>0, <2>1, <2>2, EmptySeq
    <3>. QED
      BY <3>1 DEF WaitingInOrder
  <2>7. InOrder'
    <3>1. \A t \in DOMAIN turns : turns'[t].user < turns'[n].user
      BY <1>0, <2>1 DEF MessagesInv, NumbersKnown
    <3>. QED
      BY <1>0, <2>1, <2>3, <2>4, <3>1 DEF MessagesInv, InOrder
  <2>8. NoMessageLost'
    <3>1. \A m \in 1 .. submitted' : m \in 1 .. submitted \/ m = submitted + 1
      BY <1>0, <2>1
    <3>. QED
      BY <2>1, <3>1 DEF MessagesInv, NoMessageLost
  <2>. QED
    BY <2>5, <2>6, <2>7, <2>8 DEF MessagesInv
<1>4. ASSUME NEW ts, NEW reports, MessagePumped(ts, reports) PROVE MessagesInv'
  <2>. DEFINE n == Len(turns) + 1
              h == pendingUser[1]
  <2>1. /\ UNCHANGED <<submitted, dropped>>
        /\ DOMAIN turns' = DOMAIN turns \cup {n}
        /\ \A t \in DOMAIN turns : t < n /\ turns'[t].user = turns[t].user
        /\ turns'[n].user = h
    <3>1. SameTurns(ts) /\ OneMore(ts, Head(pendingUser), {})
          /\ UNCHANGED <<submitted, dropped>>
      BY <1>4 DEF MessagePumped
    <3>2. Head(pendingUser) = h
      BY DEF TypeOK
    <3>. HIDE DEF h
    <3>3. turns'[n].user = Head(pendingUser)
          /\ DOMAIN turns' = DOMAIN turns \cup {n}
          /\ \A t \in DOMAIN turns : t < n /\ turns'[t].user = turns[t].user
      BY <3>1, TurnsStay
    <3>. QED
      BY <3>1, <3>2, <3>3
  <2>2. /\ Len(pendingUser) \in Nat \ {0} /\ 1 \in DOMAIN pendingUser
        /\ DOMAIN pendingUser' = 1 .. Len(pendingUser) - 1
        /\ \A i \in DOMAIN pendingUser' :
             /\ i + 1 \in DOMAIN pendingUser /\ 1 < i + 1
             /\ pendingUser'[i] = pendingUser[i + 1]
    <3>1. Len(pendingUser) \in Nat \ {0}
      BY <1>4, EmptySeq DEF MessagePumped, TypeOK
    <3>2. /\ pendingUser' \in Seq(1 .. MaxMessages)
          /\ Len(pendingUser') = Len(pendingUser) - 1
          /\ \A i \in 1 .. Len(pendingUser') : pendingUser'[i] = pendingUser[i + 1]
      BY <1>4, HeadTailProperties DEF MessagePumped, TypeOK
    <3>3. DOMAIN pendingUser' = 1 .. Len(pendingUser) - 1
      BY <3>2, LenProperties
    <3>. QED
      BY <1>0, <3>1, <3>2, <3>3
  <2>3. \A t \in DOMAIN turns : ~(n < t)
    BY <1>0
  <2>4. ~(n < n)
    BY <1>0
  <2>. HIDE DEF n
  <2>5. NumbersKnown'
    BY <1>0, <2>1, <2>2 DEF MessagesInv, NumbersKnown
  <2>6. WaitingInOrder'
    <3>. SUFFICES ASSUME ~Vanished
                  PROVE  /\ \A i, j \in DOMAIN pendingUser' :
                              i < j => pendingUser'[i] < pendingUser'[j]
                         /\ \A t \in DOMAIN turns', i \in DOMAIN pendingUser' :
                              turns'[t].user < pendingUser'[i]
      BY <1>0 DEF WaitingInOrder
    <3>1. \A i, j \in DOMAIN pendingUser' : i < j => i + 1 < j + 1
      BY <2>2
    <3>2. \A i, j \in DOMAIN pendingUser' : i < j => pendingUser'[i] < pendingUser'[j]
      BY <2>2, <3>1 DEF MessagesInv, WaitingInOrder
    <3>3. \A i \in DOMAIN pendingUser' : turns'[n].user < pendingUser'[i]
      BY <2>1, <2>2 DEF MessagesInv, WaitingInOrder
    <3>4. \A t \in DOMAIN turns, i \in DOMAIN pendingUser' :
            turns'[t].user < pendingUser'[i]
      BY <2>1, <2>2 DEF MessagesInv, WaitingInOrder
    <3>. QED
      BY <2>1, <3>2, <3>3, <3>4
  <2>7. InOrder'
    <3>1. ~Vanished => \A t \in DOMAIN turns : turns'[t].user < turns'[n].user
      BY <1>0, <2>1, <2>2 DEF MessagesInv, WaitingInOrder
    <3>. QED
      BY <1>0, <2>1, <2>3, <2>4, <3>1 DEF MessagesInv, InOrder
  <2>8. NoMessageLost'
    <3>1. ToSet(pendingUser) \subseteq ToSet(pendingUser') \cup {h}
      <4>. SUFFICES ASSUME NEW i \in DOMAIN pendingUser, i # 1
                    PROVE  pendingUser[i] \in ToSet(pendingUser')
        BY DEF ToSet
      <4>1. i - 1 \in DOMAIN pendingUser' /\ (i - 1) + 1 = i
        BY <1>0, <2>2
      <4>2. pendingUser'[i - 1] = pendingUser[i]
        BY <2>2, <4>1
      <4>. QED
        BY <4>1, <4>2 DEF ToSet
    <3>. QED
      BY <2>1, <3>1 DEF MessagesInv, NoMessageLost
  <2>. QED
    BY <2>5, <2>6, <2>7, <2>8 DEF MessagesInv
<1>5. ASSUME NEW ts, NEW reports, ReportsPumped(ts, reports) PROVE MessagesInv'
  <2>. DEFINE n == Len(turns) + 1
  <2>1. /\ UNCHANGED <<pendingUser, submitted, dropped>>
        /\ DOMAIN turns' = DOMAIN turns \cup {n}
        /\ \A t \in DOMAIN turns : turns'[t].user = turns[t].user
        /\ turns'[n].user = 0
        /\ DOMAIN pendingUser' = {}
    <3>1. SameTurns(ts) /\ OneMore(ts, 0, reports)
          /\ UNCHANGED <<pendingUser, submitted, dropped>> /\ pendingUser = <<>>
      BY <1>5 DEF ReportsPumped
    <3>2. DOMAIN pendingUser = {}
      BY <1>0, <3>1, EmptySeq
    <3>. QED
      BY <3>1, <3>2, TurnsStay
  <2>. HIDE DEF n
  <2>2. NumbersKnown'
    BY <1>0, <2>1 DEF MessagesInv, NumbersKnown
  <2>3. WaitingInOrder'
    BY <2>1 DEF WaitingInOrder
  <2>4. InOrder'
    BY <1>0, <2>1 DEF MessagesInv, InOrder
  <2>5. NoMessageLost'
    BY <2>1 DEF MessagesInv, NoMessageLost
  <2>. QED
    BY <2>2, <2>3, <2>4, <2>5 DEF MessagesInv
<1>6. CASE SessionDropped
  <2>1. /\ DOMAIN turns' = DOMAIN turns
        /\ \A t \in DOMAIN turns : turns'[t].user = turns[t].user
        /\ DOMAIN pendingUser' = {}
        /\ submitted' = submitted /\ dropped' = dropped \cup ToSet(pendingUser)
    BY <1>6, EmptySeq DEF SessionDropped, SameTurns
  <2>2. NumbersKnown'
    BY <2>1 DEF MessagesInv, NumbersKnown
  <2>3. WaitingInOrder'
    BY <2>1 DEF WaitingInOrder
  <2>4. InOrder'
    BY <1>0, <2>1 DEF MessagesInv, InOrder
  <2>5. NoMessageLost'
    BY <2>1 DEF MessagesInv, NoMessageLost
  <2>. QED
    BY <2>2, <2>3, <2>4, <2>5 DEF MessagesInv
<1>7. CASE Idles
  BY <1>1, <1>7 DEF Idles, queues
<1>8. CASE ReportJoins
  BY <1>1, <1>8, NothingMoved DEF ReportJoins
<1>. QED
  BY <1>2, <1>3, <1>4, <1>5, <1>6, <1>7, <1>8 DEF WorkStep

\* Every step puts no report to the orchestrator a second time.
LEMMA ReportsStep ==
  TypeOK /\ ReportsInv /\ WorkStep => ReportsInv'
<1> SUFFICES ASSUME TypeOK, ReportsInv, WorkStep PROVE ReportsInv'
  OBVIOUS
<1>0. \A c \in Children : child[c] = "done" => child'[c] = "done"
  BY DEF WorkStep
<1>1. CASE /\ DOMAIN turns' = DOMAIN turns
           /\ \A t \in DOMAIN turns : turns'[t].reports = turns[t].reports
           /\ inbox' \in {inbox, {}}
  <2>1. ReportersDone'
    BY <1>0, <1>1 DEF ReportsInv, ReportersDone
  <2>2. ReportsOnce'
    BY <1>1 DEF ReportsInv, ReportsOnce
  <2>. QED
    BY <2>1, <2>2 DEF ReportsInv
<1>2. ASSUME NEW reports, Collected(reports)
      PROVE  /\ \A c \in reports \cap Children : child'[c] = "done"
             /\ \A c \in reports \cap Children, t \in DOMAIN turns :
                  c \notin turns[t].reports
  BY <1>0, <1>2 DEF Collected, ReportsInv, ReportersDone, ReportsOnce
<1>3. ASSUME NEW u, NEW r, NEW ts, SameTurns(ts), OneMore(ts, u, r),
             NEW reports, Collected(reports),
             \/ r = {} /\ inbox' \in {inbox, reports}
             \/ r = reports /\ inbox' = {}
      PROVE  ReportsInv'
  <2>. DEFINE n == Len(turns) + 1
  <2>1. /\ DOMAIN turns' = DOMAIN turns \cup {n}
        /\ \A t \in DOMAIN turns : t # n /\ turns'[t].reports = turns[t].reports
        /\ turns'[n].reports = r
    <3>1. Len(turns) \in Nat /\ DOMAIN turns = 1 .. Len(turns)
      BY TurnsAre
    <3>2. n \notin DOMAIN turns
      BY <3>1
    <3>. QED
      BY <1>3, <3>2, TurnsStay
  <2>. HIDE DEF n
  <2>2. ReportersDone'
    BY <1>0, <1>2, <1>3, <2>1 DEF ReportsInv, ReportersDone
  <2>3. ReportsOnce'
    BY <1>2, <1>3, <2>1 DEF ReportsInv, ReportsOnce
  <2>. QED
    BY <2>2, <2>3 DEF ReportsInv
<1>4. CASE Idles \/ SessionDropped
  BY <1>1, <1>4 DEF Idles, SessionDropped, SameTurns, queues
<1>5. CASE ReportJoins
  <2>1. ReportersDone'
    BY <1>0, <1>2, <1>5 DEF ReportJoins, ReportsInv, ReportersDone
  <2>2. ReportsOnce'
    BY <1>2, <1>5 DEF ReportJoins, ReportsInv, ReportsOnce
  <2>. QED
    BY <2>1, <2>2 DEF ReportsInv
<1>6. CASE MessageJoins
  BY <1>1, <1>6 DEF MessageJoins
<1>7. CASE MessageBegun
  BY <1>3, <1>7, NothingMoved DEF MessageBegun, Collected
<1>8. ASSUME NEW ts, NEW reports, MessagePumped(ts, reports) PROVE ReportsInv'
  BY <1>3, <1>8 DEF MessagePumped
<1>9. ASSUME NEW ts, NEW reports, ReportsPumped(ts, reports) PROVE ReportsInv'
  BY <1>3, <1>9 DEF ReportsPumped
<1>. QED
  BY <1>4, <1>5, <1>6, <1>7, <1>8, <1>9 DEF WorkStep

LEMMA Initially == Init => IInv
<1> SUFFICES ASSUME Init PROVE IInv
  OBVIOUS
<1>0. DOMAIN turns = {} /\ DOMAIN pendingUser = {}
  BY EmptySeq, LenProperties DEF Init
<1>1. TypeOK
  <2>1. turns \in Seq(Turns) /\ Len(turns) = 0 /\ pendingUser \in Seq(1 .. MaxMessages)
    BY EmptySeq DEF Init
  <2>2. 0 \in 0 .. MaxSessions /\ 0 \in 0 .. MaxMessages
    BY SessionAssumption
  <2>3. current \in 0 .. Len(turns)
    BY <2>1 DEF Init
  <2>4. /\ child \in [Children -> {"unused", "live", "aborted", "done"}]
        /\ childLoop \in [Children -> 0..MaxSessions]
    BY <2>2 DEF Init
  <2>5. /\ sid = 0 /\ started = 0 /\ loop = 0 /\ binding = 0 /\ closing = "no"
        /\ aborting = FALSE /\ shown = "idle" /\ inbox = {} /\ submitted = 0
        /\ dropped = {} /\ abortedLoops = {}
    BY DEF Init
  <2>. QED
    BY <2>1, <2>2, <2>3, <2>4, <2>5 DEF TypeOK
<1>2. StatusInv
  BY <1>0 DEF Init, StatusInv, OneTurnAtATime, StatusTrue, IdleIsTrue,
              AbortHitsItsTurn, AbortAgrees, Busy, LiveTurn
<1>3. StrandedInv
  BY DEF Init, StrandedInv, NothingStranded, ClosedIsEmpty
<1>4. MessagesInv
  BY <1>0 DEF Init, MessagesInv, NumbersKnown, WaitingInOrder, InOrder, NoMessageLost
<1>5. ReportsInv
  BY <1>0 DEF Init, ReportsInv, ReportersDone, ReportsOnce
<1>. QED
  BY <1>1, <1>2, <1>3, <1>4, <1>5 DEF IInv

-----------------------------------------------------------------------------
\* The session of runtime/session.py always has its types, and the turns, the
\* queue, the inbox and the flag of the abort tell one story.
THEOREM Invariance == Spec => []IInv
<1>1. IInv /\ [Next]_vars => IInv'
  BY EveryStepWorks, TypeStep, StatusStep, StrandedStep, MessagesStep, ReportsStep
     DEF IInv, StatusInv
<1>. QED
  BY Initially, <1>1, PTL DEF Spec

\* The variables keep the ranges of their Python counterparts, whatever commands
\* the clients send and whenever a turn or a child ends.
THEOREM TypeCorrect == Spec => []TypeOK
<1>1. IInv => TypeOK
  BY DEF IInv
<1>. QED
  BY Invariance, <1>1, PTL

\* For every number of children, messages and sessions: one turn at a time; no
\* message lost, none out of order, no report twice, nothing stranded beside an
\* idle orchestrator; but for a turn that was aborted before its first step.
THEOREM PumpIsExact == Spec => []PumpExact
<1>1. IInv => PumpExact
  BY DEF IInv, StatusInv, StrandedInv, MessagesInv, ReportsInv, PumpExact
<1>. QED
  BY Invariance, <1>1, PTL

\* A client is shown "idle" only when no turn is under way, and an abort silences
\* the turn it was asked for and no other.
THEOREM StatusIsTrue == Spec => []StatusTrue
<1>1. IInv => StatusTrue
  BY DEF IInv, StatusInv
<1>. QED
  BY Invariance, <1>1, PTL
-----------------------------------------------------------------------------
(* The memory of the workspace: the decisions of a section are the newest   *)
(* of all that were made, whoever saved in between.                         *)

\* ds is what a section has kept of the decisions in lg: its end, all of it or
\* as many as the cap allows.
KeptOf(ds, lg) ==
  /\ Len(ds) <= Len(lg)
  /\ \A i \in 1 .. Len(ds) : ds[i] = lg[Len(lg) - Len(ds) + i]
  /\ Len(ds) = Len(lg) \/ Len(ds) >= SECTION_CAP

\* What memory.json holds of the decisions, however often it was pruned; above
\* the cap there is a seed that nothing was saved after.
MemoryInv ==
  /\ decisions \in Seq(Agents) /\ log \in Seq(Agents)
  /\ KeptOf(decisions, log)
  /\ (seeded /\ decisions = log) \/ Len(decisions) <= SECTION_CAP

\* What Newest keeps of a section.
LEMMA NewestProperties ==
  ASSUME NEW S, NEW s \in Seq(S), NEW n \in Nat
  PROVE  /\ Newest(s, n) \in Seq(S)
         /\ Len(s) <= n => Newest(s, n) = s
         /\ Len(s) > n => /\ Len(Newest(s, n)) = n
                          /\ \A i \in 1 .. n : Newest(s, n)[i] = s[Len(s) - n + i]
<1>1. Len(s) \in Nat /\ DOMAIN s = 1 .. Len(s)
  BY LenProperties
<1>2. CASE Len(s) <= n
  <2>0. ~ (Len(s) > n)
    BY <1>1, <1>2
  <2>1. Newest(s, n) = SubSeq(s, 1, Len(s))
    BY <2>0, Zenon DEF Newest
  <2>2. SubSeq(s, 1, Len(s)) = s
    BY SubSeqFull
  <2>3. Newest(s, n) = s
    BY <2>1, <2>2, Zenon
  <2>. QED
    BY <2>0, <2>3, Zenon
<1>3. CASE Len(s) > n
  <2> DEFINE m == Len(s) - n + 1
  <2>1. m \in 1 .. Len(s) + 1 /\ Len(s) \in 1 - 1 .. Len(s) /\ Len(s) - m + 1 = n /\ m <= Len(s) + 1
    BY <1>1, <1>3
  <2>2. Newest(s, n) = SubSeq(s, m, Len(s))
    BY <1>1, <1>3 DEF Newest
  <2>3. /\ SubSeq(s, m, Len(s)) \in Seq(S)
        /\ Len(SubSeq(s, m, Len(s))) = IF m <= Len(s) THEN Len(s) - m + 1 ELSE 0
        /\ \A i \in 1 .. Len(s) - m + 1 : SubSeq(s, m, Len(s))[i] = s[m + i - 1]
    BY <1>1, <2>1, SubSeqProperties
  <2>4. \A i \in 1 .. n : m + i - 1 = Len(s) - n + i
    BY <1>1
  <2>. QED
    BY <1>1, <1>3, <2>1, <2>2, <2>3, <2>4
<1>. QED
  BY <1>1, <1>2, <1>3

\* What a save leaves of a section is the end of the log still.
LEMMA PruningKeeps ==
  ASSUME NEW ds \in Seq(Agents), NEW lg \in Seq(Agents), KeptOf(ds, lg)
  PROVE  LET p == PrunedDecisions(ds)
         IN  p \in Seq(Agents) /\ KeptOf(p, lg) /\ Len(p) <= SECTION_CAP
<1> DEFINE p == PrunedDecisions(ds)
           n == SECTION_CAP
<1>1. n \in Nat /\ Len(ds) \in Nat /\ Len(lg) \in Nat
  BY CapsAreSizes, LenProperties
<1>2. p = Newest(ds, n)
  BY DEF PrunedDecisions
<1>3. p \in Seq(Agents)
  BY <1>1, <1>2, NewestProperties
<1>4. CASE Len(ds) <= n
  <2>1. p = ds
    BY <1>1, <1>2, <1>4, NewestProperties
  <2>. QED
    BY <1>3, <1>4, <2>1
<1>5. CASE Len(ds) > n
  <2>0. /\ Len(Newest(ds, n)) = n
        /\ \A i \in 1 .. n : Newest(ds, n)[i] = ds[Len(ds) - n + i]
    BY <1>1, <1>5, NewestProperties
  <2>1. Len(p) = n /\ \A i \in 1 .. n : p[i] = ds[Len(ds) - n + i]
    BY <1>2, <2>0
  <2>2. n <= Len(lg)
    BY <1>1, <1>5 DEF KeptOf
  <2>3. ASSUME NEW i \in 1 .. n PROVE p[i] = lg[Len(lg) - n + i]
    <3>1. /\ Len(ds) - n + i \in 1 .. Len(ds)
          /\ Len(lg) - Len(ds) + (Len(ds) - n + i) = Len(lg) - n + i
      BY <1>1, <1>5
    <3>2. ds[Len(ds) - n + i] = lg[Len(lg) - n + i]
      BY <3>1 DEF KeptOf
    <3>. QED
      BY <2>1, <3>2
  <2> HIDE DEF p
  <2>4. KeptOf(p, lg) /\ Len(p) <= n
    BY <1>1, <2>1, <2>2, <2>3 DEF KeptOf
  <2>. QED
    BY <1>3, <2>4 DEF p
<1>. QED
  BY <1>1, <1>4, <1>5

\* One more decision, to the section as to the log, or to neither.
LEMMA DecisionJoins ==
  ASSUME NEW ds \in Seq(Agents), NEW lg \in Seq(Agents), KeptOf(ds, lg), NEW a \in Agents
  PROVE  LET ap == Appended(ds, a)
             al == Appended(lg, a)
         IN  ap \in Seq(Agents) /\ al \in Seq(Agents) /\ KeptOf(ap, al)
<1> DEFINE ap == Appended(ds, a)
           al == Appended(lg, a)
           n  == SECTION_CAP
<1>1. n \in Nat /\ Len(ds) \in Nat /\ Len(lg) \in Nat
  BY CapsAreSizes, LenProperties
<1>2. /\ Append(ds, a) \in Seq(Agents) /\ Len(Append(ds, a)) = Len(ds) + 1
      /\ \A i \in 1 .. Len(ds) : Append(ds, a)[i] = ds[i]
      /\ Append(ds, a)[Len(ds) + 1] = a
  BY AppendProperties
<1>3. /\ Append(lg, a) \in Seq(Agents) /\ Len(Append(lg, a)) = Len(lg) + 1
      /\ \A i \in 1 .. Len(lg) : Append(lg, a)[i] = lg[i]
      /\ Append(lg, a)[Len(lg) + 1] = a
  BY AppendProperties
<1>4. ap \in Seq(Agents) /\ al \in Seq(Agents)
  BY <1>2, <1>3 DEF Appended
\* Their last decisions are the same.
<1>5. Len(ds) # 0 => Len(lg) # 0 /\ ds[Len(ds)] = lg[Len(lg)]
  <2> HAVE Len(ds) # 0
  <2>1. Len(ds) \in 1 .. Len(ds) /\ Len(lg) - Len(ds) + Len(ds) = Len(lg)
    BY <1>1
  <2>. QED
    BY <1>1, <2>1 DEF KeptOf
<1>6. (ds = <<>> <=> Len(ds) = 0) /\ (lg = <<>> <=> Len(lg) = 0)
  BY EmptySeq
<1>7. CASE lg # <<>> /\ Last(lg) = a
  <2>1. al = lg /\ Len(lg) # 0 /\ lg[Len(lg)] = a
    BY <1>6, <1>7 DEF Appended, Last
  <2>2. CASE ds # <<>>
    <3>1. ap = ds
      BY <1>5, <1>6, <2>1, <2>2 DEF Appended, Last
    <3>. QED
      BY <1>4, <2>1, <3>1
  <2>3. CASE ds = <<>>
    <3>1. ap = Append(ds, a) /\ Len(ds) = 0
      BY <1>6, <2>3 DEF Appended
    <3>2. Len(ap) = 1 /\ ap[1] = a
      BY <1>2, <3>1
    <3>3. n = 0 \/ Len(ds) = Len(lg)
      BY <1>1, <3>1 DEF KeptOf
    <3>4. n = 0
      BY <2>1, <3>1, <3>3
    <3> HIDE DEF ap, al
    <3>5. \A i \in 1 .. 1 : i = 1 /\ Len(lg) - 1 + i = Len(lg)
      BY <1>1
    <3>6. KeptOf(ap, al)
      BY <1>1, <2>1, <3>2, <3>4, <3>5 DEF KeptOf
    <3>. QED
      BY <1>4, <3>6 DEF ap, al
  <2>. QED
    BY <2>2, <2>3
<1>8. CASE ~(lg # <<>> /\ Last(lg) = a)
  <2>1. al = Append(lg, a)
    BY <1>8 DEF Appended
  <2>2. ap = Append(ds, a)
    BY <1>5, <1>6, <1>8 DEF Appended, Last
  <2> HIDE DEF ap, al
  <2>3. ASSUME NEW i \in 1 .. Len(ap) PROVE ap[i] = al[Len(al) - Len(ap) + i]
    <3>1. Len(ap) = Len(ds) + 1 /\ Len(al) = Len(lg) + 1 /\ Len(ds) <= Len(lg)
      BY <1>2, <1>3, <2>1, <2>2 DEF KeptOf
    <3>2. CASE i = Len(ds) + 1
      <4>1. Len(al) - Len(ap) + i = Len(lg) + 1
        BY <1>1, <3>1, <3>2
      <4>. QED
        BY <1>2, <1>3, <2>1, <2>2, <3>2, <4>1
    <3>3. CASE i # Len(ds) + 1
      <4>1. /\ i \in 1 .. Len(ds) /\ Len(al) - Len(ap) + i = Len(lg) - Len(ds) + i
            /\ Len(lg) - Len(ds) + i \in 1 .. Len(lg)
        BY <1>1, <3>1, <3>3
      <4>2. ds[i] = lg[Len(lg) - Len(ds) + i]
        BY <4>1 DEF KeptOf
      <4>. QED
        BY <1>2, <1>3, <2>1, <2>2, <4>1, <4>2
    <3>. QED
      BY <3>2, <3>3
  <2>4. Len(ap) = Len(ds) + 1 /\ Len(al) = Len(lg) + 1
    BY <1>2, <1>3, <2>1, <2>2
  <2>5. Len(ds) <= Len(lg) /\ (Len(ds) = Len(lg) \/ Len(ds) >= n)
    BY DEF KeptOf
  <2>6. Len(ap) <= Len(al) /\ (Len(ap) = Len(al) \/ Len(ap) >= n)
    BY <1>1, <2>4, <2>5
  <2>7. KeptOf(ap, al)
    BY <2>3, <2>6 DEF KeptOf
  <2>. QED
    BY <1>4, <2>7 DEF ap, al
<1>. QED
  BY <1>7, <1>8

\* A step leaves the section and the log alone, appends to both, prunes, or
\* begins anew, from nothing or from a seed.
DecisionsMove ==
  \/ UNCHANGED <<decisions, log, seeded>>
  \/ decisions' = PrunedDecisions(decisions) /\ UNCHANGED log
  \/ \E a \in Agents : decisions' = PrunedDecisions(Appended(decisions, a)) /\ log' = Appended(log, a)
  \/ decisions' = log' /\ log' \in Seq(Agents) /\ (seeded' \/ log' = <<>>)

\* No handler does anything else to them: a save prunes what it did not append to.
LEMMA MemoryMoves ==
  ASSUME MemoryNext \/ UNCHANGED memoryVars
  PROVE  DecisionsMove
<1>1. ASSUME NEW f, NEW v, Touch(f, v), UNCHANGED log PROVE DecisionsMove
  BY <1>1 DEF Touch, Save, DecisionsMove
<1>2. ASSUME NEW a \in Agents, Remembered(a) PROVE DecisionsMove
  <2>1. (\E ns : Save(ns, decisions)) /\ UNCHANGED log
    BY <1>2 DEF Remembered
  <2>. QED
    BY <2>1 DEF Save, DecisionsMove
<1>3. ASSUME NEW a \in Agents, Decide(a) PROVE DecisionsMove
  BY <1>3 DEF Decide, Save, DecisionsMove
<1>4. ASSUME NEW a \in Agents, Finish(a) PROVE DecisionsMove
  <2>1. \/ UNCHANGED <<decisions, log, seeded>>
        \/ /\ \E ns : Save(ns, Appended(decisions, a))
           /\ log' = Appended(log, a)
    BY <1>4 DEF Finish
  <2>. QED
    BY <2>1 DEF Save, DecisionsMove
<1>5. ASSUME NEW a \in Agents, NEW f \in Files, Read(a, f) \/ Edit(a, f) PROVE DecisionsMove
  BY <1>1, <1>5 DEF Read, Edit
<1>6. ASSUME NEW a \in Agents, NEW f \in Files, RememberFile(a, f) PROVE DecisionsMove
  BY <1>6 DEF RememberFile, DecisionsMove
<1>7. ASSUME NEW f \in Files, Outside(f) PROVE DecisionsMove
  BY <1>7 DEF Outside, DecisionsMove
<1>8. CASE Render
  BY <1>8 DEF Render, Save, DecisionsMove
<1>9. CASE Seed
  <2>1. SeedDecisions \subseteq Seq(Agents)
    BY SeqDef, CapsAreSizes DEF SeedDecisions
  <2>. QED
    BY <1>9, <2>1 DEF Seed, DecisionsMove
<1>10. CASE Crash
  BY <1>10, EmptySeq DEF Crash, DecisionsMove
<1>11. CASE UNCHANGED memoryVars
  BY <1>11 DEF memoryVars, DecisionsMove
<1>. QED
  BY <1>2, <1>3, <1>4, <1>5, <1>6, <1>7, <1>8, <1>9, <1>10, <1>11 DEF MemoryNext

\* A memory that is new: empty, or all that a seed has.
LEMMA AllIsKept ==
  ASSUME NEW lg \in Seq(Agents)
  PROVE  KeptOf(lg, lg)
<1>1. Len(lg) \in Nat /\ \A i \in 1 .. Len(lg) : Len(lg) - Len(lg) + i = i
  BY LenProperties
<1>. QED
  BY <1>1 DEF KeptOf

\* Every step keeps the decisions of the section the newest of the log.
LEMMA MemoryStep == MemoryInv /\ [MemoryNext]_memoryVars => MemoryInv'
<1> SUFFICES ASSUME MemoryInv, [MemoryNext]_memoryVars PROVE MemoryInv'
  OBVIOUS
<1>0. decisions \in Seq(Agents) /\ log \in Seq(Agents) /\ KeptOf(decisions, log)
  BY DEF MemoryInv
<1>1. CASE UNCHANGED <<decisions, log, seeded>>
  BY <1>1 DEF MemoryInv
<1>2. CASE decisions' = PrunedDecisions(decisions) /\ UNCHANGED log
  BY <1>0, <1>2, PruningKeeps DEF MemoryInv
<1>3. ASSUME NEW a \in Agents, decisions' = PrunedDecisions(Appended(decisions, a)),
             log' = Appended(log, a)
      PROVE  MemoryInv'
  <2>1. /\ Appended(decisions, a) \in Seq(Agents) /\ Appended(log, a) \in Seq(Agents)
        /\ KeptOf(Appended(decisions, a), Appended(log, a))
    BY <1>0, DecisionJoins
  <2>. QED
    BY <1>3, <2>1, PruningKeeps DEF MemoryInv
<1>4. CASE decisions' = log' /\ log' \in Seq(Agents) /\ (seeded' \/ log' = <<>>)
  <2>1. KeptOf(decisions', log')
    BY <1>4, AllIsKept
  <2>2. log' = <<>> => Len(decisions') <= SECTION_CAP
    BY <1>4, CapsAreSizes, EmptySeq
  <2>. QED
    BY <1>4, <2>1, <2>2 DEF MemoryInv
<1>. QED
  BY <1>1, <1>2, <1>3, <1>4, MemoryMoves DEF DecisionsMove

\* At first nothing is decided.
LEMMA MemoryStarts == MemoryInit => MemoryInv
<1> SUFFICES ASSUME MemoryInit PROVE MemoryInv
  OBVIOUS
<1>1. <<>> \in Seq(Agents) /\ Len(<<>>) = 0 /\ SECTION_CAP \in Nat
  BY CapsAreSizes, EmptySeq
<1>2. KeptOf(<<>>, <<>>)
  BY <1>1, AllIsKept
<1>3. decisions = <<>> /\ log = <<>>
  BY DEF MemoryInit
<1>. QED
  BY <1>1, <1>2, <1>3 DEF MemoryInv

\* Kept the newest, that is a suffix.
LEMMA KeptAreNewest ==
  ASSUME MemoryInv
  PROVE  NewestDecisions
<1> DEFINE n == Len(decisions)
           m == Len(log)
<1>1. /\ n \in Nat /\ m \in Nat /\ n <= m /\ decisions \in Seq(Agents) /\ log \in Seq(Agents)
      /\ DOMAIN decisions = 1 .. n /\ DOMAIN log = 1 .. m
  BY LenProperties DEF MemoryInv, KeptOf
<1>2. \A i \in 1 .. n : decisions[i] = log[m - n + i]
  BY DEF MemoryInv, KeptOf
<1>3. IsSuffix(decisions, log)
  <2> DEFINE r == Reverse(decisions)
             q == Reverse(log)
  <2>1. /\ r \in Seq(Agents) /\ Len(r) = n /\ \A i \in 1 .. n : r[i] = decisions[n - i + 1]
        /\ q \in Seq(Agents) /\ Len(q) = m /\ \A i \in 1 .. m : q[i] = log[m - i + 1]
    <3>1. \A i \in 1 .. n : n - i + 1 \in 1 .. n
      BY <1>1
    <3>2. \A i \in 1 .. m : m - i + 1 \in 1 .. m
      BY <1>1
    <3>3. \A i \in 1 .. n : decisions[i] \in Agents
      BY <1>1, ElementOfSeq
    <3>4. \A i \in 1 .. m : log[i] \in Agents
      BY <1>1, ElementOfSeq
    <3>5. r \in [1 .. n -> Agents] /\ q \in [1 .. m -> Agents]
      BY <3>1, <3>2, <3>3, <3>4 DEF Reverse
    <3>6. r \in Seq(Agents) /\ q \in Seq(Agents)
      BY <1>1, <3>5, SeqDef
    <3>7. Len(r) = n /\ Len(q) = m
      BY <1>1, <3>5
    <3>. QED
      BY <3>6, <3>7 DEF Reverse
  <2> HIDE DEF r, q
  <2>2. SubSeq(r, 1, n) = r
    BY <2>1, SubSeqFull
  <2>3. /\ SubSeq(q, 1, n) \in Seq(Agents) /\ Len(SubSeq(q, 1, n)) = n
        /\ \A i \in 1 .. n : SubSeq(q, 1, n)[i] = q[i]
    <3>1. 1 \in 1 .. Len(q) + 1 /\ n \in 1 - 1 .. Len(q) /\ n - 1 + 1 = n
      BY <1>1, <2>1
    <3>2. /\ SubSeq(q, 1, n) \in Seq(Agents)
          /\ Len(SubSeq(q, 1, n)) = IF 1 <= n THEN n - 1 + 1 ELSE 0
          /\ \A i \in 1 .. n - 1 + 1 : SubSeq(q, 1, n)[i] = q[1 + i - 1]
      BY <2>1, <3>1, SubSeqProperties
    <3>3. \A i \in 1 .. n : 1 + i - 1 = i
      BY <1>1
    <3>. QED
      BY <1>1, <3>1, <3>2, <3>3
  <2>4. ASSUME NEW i \in 1 .. n PROVE r[i] = SubSeq(q, 1, n)[i]
    <3>1. n - i + 1 \in 1 .. n /\ m - n + (n - i + 1) = m - i + 1 /\ i \in 1 .. m
      BY <1>1
    <3>2. r[i] = decisions[n - i + 1] /\ q[i] = log[m - i + 1]
      BY <2>1, <3>1
    <3>. QED
      BY <1>2, <2>3, <3>1, <3>2
  <2>5. r = SubSeq(q, 1, n)
    BY <2>1, <2>3, <2>4, SeqEqual
  <2>6. Len(r) <= Len(q) /\ SubSeq(r, 1, Len(r)) = SubSeq(q, 1, Len(r))
    BY <1>1, <2>1, <2>2, <2>5
  <2>7. IsPrefix(r, q)
    BY <2>6 DEF IsPrefix
  <2>. QED
    BY <2>7 DEF IsSuffix, r, q
<1>4. decisions = log \/ n = SECTION_CAP
  <2>1. CASE n = m
    <3>1. \A i \in 1 .. n : m - n + i = i
      BY <1>1, <2>1
    <3>2. \A i \in 1 .. n : decisions[i] = log[i]
      BY <1>2, <3>1
    <3>3. decisions = log
      BY <1>1, <2>1, <3>2, SeqEqual
    <3>. QED
      BY <3>3
  <2>2. CASE n # m
    <3>1. decisions # log
      BY <2>2
    <3>2. n <= SECTION_CAP
      BY <3>1 DEF MemoryInv
    <3>3. n >= SECTION_CAP
      BY <2>2 DEF MemoryInv, KeptOf
    <3>4. SECTION_CAP \in Nat
      BY CapsAreSizes
    <3>5. n \in Nat
      BY <1>1
    <3> HIDE DEF n
    <3>6. n = SECTION_CAP
      BY <3>2, <3>3, <3>4, <3>5
    <3>. QED
      BY <3>6
  <2>. QED
    BY <2>1, <2>2
<1>. QED
  BY <1>3, <1>4 DEF NewestDecisions

\* However many agents decide, remember, edit, are rendered, finish and are
\* ingested, and whatever they save in whatever order: the section holds the
\* newest decisions in the order in which they were made.
THEOREM NewestAreKept == MemorySpec => []NewestDecisions
<1>. QED
  BY MemoryStarts, MemoryStep, KeptAreNewest, PTL DEF MemorySpec

-----------------------------------------------------------------------------
(* The notes of the workspace.                                              *)

\* A note, under a hash or none, with words of any versions.
Notes == [path : Files, sha : Words, about : SUBSET Words, note : SUBSET Words]

\* Lists of notes, one for each file.
NoteLists ==
  {ns \in Seq(Notes) : \A i, j \in DOMAIN ns : ns[i].path = ns[j].path => i = j}

NotesInv ==
  /\ disk \in [Files -> Versions \cup {Gone}]
  /\ notes \in NoteLists
  /\ seeded \/ Len(notes) <= FILE_NOTE_CAP
  /\ at \in [Agents -> {"work", "remember", "done"}]
  /\ known \in [Agents -> [Files -> Words]]
  /\ hashed \in [Agents -> {<<>>} \cup (Files \X Versions)]
  /\ \A a \in Agents : at[a] = "remember" => hashed[a] \in Files \X Versions

\* The oldest, or all, of a list: what a list is cut to.
LEMMA CutProperties ==
  ASSUME NEW S, NEW s \in Seq(S), NEW n \in Nat
  PROVE  /\ Oldest(s, n) \in Seq(S) /\ Len(Oldest(s, n)) <= n
         /\ DOMAIN Oldest(s, n) \subseteq DOMAIN s
         /\ \A i \in DOMAIN Oldest(s, n) : Oldest(s, n)[i] = s[i]
<1> DEFINE m == IF Len(s) > n THEN n ELSE Len(s)
<1>1. Len(s) \in Nat /\ DOMAIN s = 1 .. Len(s)
  BY LenProperties
<1>2. m \in Nat /\ m <= n /\ m <= Len(s) /\ 1 \in 1 .. Len(s) + 1 /\ m \in 1 - 1 .. Len(s)
  BY <1>1
<1>3. Oldest(s, n) = SubSeq(s, 1, m)
  BY DEF Oldest
<1> HIDE DEF m
<1>4. /\ SubSeq(s, 1, m) \in Seq(S)
      /\ Len(SubSeq(s, 1, m)) = IF 1 <= m THEN m - 1 + 1 ELSE 0
      /\ \A i \in 1 .. m - 1 + 1 : SubSeq(s, 1, m)[i] = s[1 + i - 1]
  BY <1>2, SubSeqProperties
<1>5. (IF 1 <= m THEN m - 1 + 1 ELSE 0) = m /\ m - 1 + 1 = m /\ \A i \in 1 .. m : 1 + i - 1 = i
  BY <1>2
<1>6. /\ Len(SubSeq(s, 1, m)) = m
      /\ \A i \in 1 .. m : SubSeq(s, 1, m)[i] = s[i]
  BY <1>4, <1>5
<1>7. DOMAIN SubSeq(s, 1, m) = 1 .. m /\ 1 .. m \subseteq 1 .. Len(s)
  BY <1>2, <1>4, <1>6, LenProperties
<1>. QED
  BY <1>1, <1>2, <1>3, <1>4, <1>6, <1>7

\* What is left of a list of notes has one for each file still.
LEMMA ButIsTyped ==
  ASSUME NEW ns \in NoteLists, NEW S \in SUBSET DOMAIN ns
  PROVE  But(ns, S) \in NoteLists
<1>1. ns \in Seq(Notes)
  BY DEF NoteLists
<1>2. But(ns, S) \in Seq(Notes) /\ DOMAIN But(ns, S) \subseteq Nat
  <2>1. But(ns, S) \in Seq(Notes)
    BY <1>1, ButProperties
  <2>. QED
    BY <2>1, LenProperties
<1>3. PICK f \in [DOMAIN But(ns, S) -> DOMAIN ns \ S] :
        Increasing(f) /\ \A i \in DOMAIN But(ns, S) : But(ns, S)[i] = ns[f[i]]
  BY <1>1, ButPlaces
<1>4. ASSUME NEW i \in DOMAIN But(ns, S), NEW j \in DOMAIN But(ns, S),
             But(ns, S)[i].path = But(ns, S)[j].path
      PROVE  i = j
  <2>1. f[i] = f[j]
    BY <1>3, <1>4 DEF NoteLists
  <2>2. f[i] \in Nat
    BY <1>1, <1>3, LenProperties
  <2>3. ~(i < j) /\ ~(j < i)
    BY <1>3, <2>1, <2>2 DEF Increasing
  <2>. QED
    BY <1>2, <2>3
<1>. QED
  BY <1>2, <1>4 DEF NoteLists

\* A save keeps the first of the notes that have words, as they are.
LEMMA PrunedIsTyped ==
  ASSUME NEW ns \in NoteLists
  PROVE  /\ PrunedNotes(ns) \in NoteLists /\ Len(PrunedNotes(ns)) <= FILE_NOTE_CAP
         /\ \A i \in DOMAIN PrunedNotes(ns) : \E j \in DOMAIN ns : PrunedNotes(ns)[i] = ns[j]
<1> DEFINE S == {i \in DOMAIN ns : ns[i].about = {} /\ ns[i].note = {}}
           w == But(ns, S)
<1>1. FILE_NOTE_CAP \in Nat /\ ns \in Seq(Notes) /\ S \in SUBSET DOMAIN ns
  BY CapsAreSizes DEF NoteLists
<1>2. PrunedNotes(ns) = Oldest(w, FILE_NOTE_CAP)
  BY DEF PrunedNotes, Worded
<1> HIDE DEF S
<1>3. w \in NoteLists /\ w \in Seq(Notes)
  BY <1>1, ButIsTyped DEF NoteLists
<1>4. \A i \in DOMAIN w : \E j \in DOMAIN ns : w[i] = ns[j]
  BY <1>1, ButProperties
<1> HIDE DEF w
<1>5. /\ PrunedNotes(ns) \in Seq(Notes) /\ Len(PrunedNotes(ns)) <= FILE_NOTE_CAP
      /\ DOMAIN PrunedNotes(ns) \subseteq DOMAIN w
      /\ \A i \in DOMAIN PrunedNotes(ns) : PrunedNotes(ns)[i] = w[i]
  BY <1>1, <1>2, <1>3, CutProperties
<1>. QED
  BY <1>3, <1>4, <1>5 DEF NoteLists

\* A note in front, in place of the one its file had.
LEMMA WrittenProperties ==
  ASSUME NEW ns \in NoteLists, NEW n \in Notes
  PROVE  /\ Written(ns, n) \in NoteLists
         /\ \A i \in DOMAIN Written(ns, n) :
              \/ Written(ns, n)[i] = n
              \/ \E j \in DOMAIN ns : Written(ns, n)[i] = ns[j]
         /\ \A j \in DOMAIN ns : ns[j].path # n.path =>
              \E i \in DOMAIN Written(ns, n) : Written(ns, n)[i] = ns[j]
<1> DEFINE S == {i \in DOMAIN ns : ns[i].path = n.path}
           w == But(ns, S)
           k == Len(w)
           r == <<n>> \o w
<1>0. S \in SUBSET DOMAIN ns /\ ns \in Seq(Notes)
  BY DEF NoteLists
<1>1. w \in NoteLists /\ w \in Seq(Notes)
  BY <1>0, ButIsTyped DEF NoteLists
<1>2. /\ \A i \in DOMAIN w : \E j \in DOMAIN ns \ S : w[i] = ns[j]
      /\ \A j \in DOMAIN ns \ S : \E i \in DOMAIN w : w[i] = ns[j]
  <2> HIDE DEF S
  <2>. QED
    BY <1>0, ButProperties
<1>3. Written(ns, n) = r
  BY DEF Written, Without
<1> HIDE DEF w, S
<1>4. k \in Nat /\ DOMAIN w = 1 .. k
  BY <1>1, LenProperties
<1>5. <<n>> \in Seq(Notes) /\ Len(<<n>>) = 1 /\ <<n>>[1] = n
  OBVIOUS
<1>6. /\ r \in Seq(Notes) /\ Len(r) = 1 + k
      /\ \A i \in 1 .. 1 + k : r[i] = IF i <= 1 THEN <<n>>[i] ELSE w[i - 1]
  BY <1>1, <1>5, ConcatProperties
<1>7. DOMAIN r = 1 .. 1 + k
  BY <1>6, LenProperties
<1> HIDE DEF r
<1>8. r[1] = n /\ \A i \in 1 .. k : r[i + 1] = w[i]
  <2>1. 1 \in 1 .. 1 + k /\ 1 <= 1
    BY <1>4
  <2>2. \A i \in 1 .. k : i + 1 \in 1 .. 1 + k /\ ~(i + 1 <= 1) /\ i + 1 - 1 = i
    BY <1>4
  <2>. QED
    BY <1>5, <1>6, <2>1, <2>2
<1>9. \A i \in 1 .. 1 + k : i = 1 \/ (i - 1 \in 1 .. k /\ i = (i - 1) + 1)
  BY <1>4
<1> HIDE DEF k
<1>10. \A i \in 1 .. k : w[i].path # n.path
  BY <1>2, <1>4 DEF S
<1>11. ASSUME NEW i \in DOMAIN r, NEW j \in DOMAIN r, r[i].path = r[j].path PROVE i = j
  <2>1. CASE i = 1 \/ j = 1
    BY <1>7, <1>8, <1>9, <1>10, <1>11, <2>1
  <2>2. CASE i # 1 /\ j # 1
    <3>1. /\ i - 1 \in 1 .. k /\ i = (i - 1) + 1 /\ j - 1 \in 1 .. k /\ j = (j - 1) + 1
      BY <1>7, <1>9, <2>2
    <3>2. w[i - 1].path = w[j - 1].path
      BY <1>8, <1>11, <3>1
    <3>3. i - 1 = j - 1
      BY <1>1, <1>4, <3>1, <3>2 DEF NoteLists
    <3>. QED
      BY <3>1, <3>3
  <2>. QED
    BY <2>1, <2>2
<1>12. r \in NoteLists
  BY <1>6, <1>11 DEF NoteLists
<1>13. ASSUME NEW i \in DOMAIN r PROVE r[i] = n \/ \E j \in DOMAIN ns : r[i] = ns[j]
  <2>1. CASE i = 1
    BY <1>8, <2>1
  <2>2. CASE i # 1
    <3>1. i - 1 \in 1 .. k /\ i = (i - 1) + 1
      BY <1>7, <1>9, <2>2
    <3>2. r[i] = w[i - 1]
      BY <1>8, <3>1
    <3>3. \E j \in DOMAIN ns : w[i - 1] = ns[j]
      BY <1>2, <1>4, <3>1
    <3>. QED
      BY <3>2, <3>3
  <2>. QED
    BY <2>1, <2>2
<1>14. ASSUME NEW j \in DOMAIN ns, ns[j].path # n.path PROVE \E i \in DOMAIN r : r[i] = ns[j]
  <2>1. j \in DOMAIN ns \ S
    BY <1>14 DEF S
  <2>2. PICK i \in 1 .. k : w[i] = ns[j]
    BY <1>2, <1>4, <2>1
  <2>3. i + 1 \in DOMAIN r
    BY <1>4, <1>7
  <2>. QED
    BY <1>8, <2>2, <2>3
<1>. QED
  BY <1>3, <1>12, <1>13, <1>14

\* The note of a file is the one in the list.
LEMMA NoteOfIs ==
  ASSUME NEW ns \in NoteLists, NEW j \in DOMAIN ns
  PROVE  ns[j].path \in Paths(ns) /\ NoteOf(ns, ns[j].path) = ns[j]
<1> DEFINE f == ns[j].path
           k == CHOOSE i \in DOMAIN ns : ns[i].path = f
<1>1. k \in DOMAIN ns /\ ns[k].path = f
  OBVIOUS
<1>2. k = j
  BY <1>1 DEF NoteLists
<1>. QED
  BY <1>2 DEF Paths, NoteOf

\* A file with a note has it in the list.
LEMMA NoteOfIn ==
  ASSUME NEW ns \in NoteLists, NEW f \in Paths(ns)
  PROVE  /\ NoteOf(ns, f) \in Notes /\ NoteOf(ns, f).path = f
         /\ \E j \in DOMAIN ns : ns[j] = NoteOf(ns, f)
<1>1. PICK j \in DOMAIN ns : ns[j].path = f
  BY DEF Paths
<1>2. NoteOf(ns, f) = ns[j]
  BY <1>1, NoteOfIs
<1>3. ns[j] \in Notes
  BY LenProperties, ElementOfSeq DEF NoteLists
<1>. QED
  BY <1>1, <1>2, <1>3

\* What is said of a file in the memory.
LEMMA WordsTyped ==
  ASSUME NEW ns \in NoteLists, NEW f
  PROVE  About(ns, f) \subseteq Words /\ NoteText(ns, f) \subseteq Words
<1>1. CASE f \in Paths(ns)
  <2>1. NoteOf(ns, f) \in Notes
    BY <1>1, NoteOfIn
  <2>. QED
    BY <1>1, <2>1 DEF About, NoteText, Notes
<1>. QED
  BY <1>1 DEF About, NoteText

\* The note that a report writes of a path.
LEMMA IngestedIs ==
  ASSUME NotesInv, NEW a \in Agents, NEW f \in Files, NEW told, NEW ns \in NoteLists
  PROVE  \/ Ingested(ns, a, f, told) = ns
         \/ /\ ~FreshIn(ns, f, disk[f])
            /\ \E about \in SUBSET {known[a][f]} :
                 LET e == Entry(f, disk[f], about, NoteText(ns, f)) IN
                 e \in Notes /\ Ingested(ns, a, f, told) = Written(ns, e)
<1>1. CASE disk[f] = Gone \/ FreshIn(ns, f, disk[f])
  BY <1>1 DEF Ingested
<1>2. CASE ~(disk[f] = Gone \/ FreshIn(ns, f, disk[f]))
  <2> DEFINE about == IF f \in told THEN {known[a][f]} ELSE {}
  <2>1. about \in SUBSET {known[a][f]} /\ about \in SUBSET Words
    BY DEF NotesInv
  <2>2. Ingested(ns, a, f, told) = Written(ns, Entry(f, disk[f], about, NoteText(ns, f)))
    BY <1>2 DEF Ingested
  <2>3. disk[f] \in Words /\ NoteText(ns, f) \in SUBSET Words
    BY <1>2, WordsTyped DEF NotesInv, Words
  <2> HIDE DEF about
  <2>4. Entry(f, disk[f], about, NoteText(ns, f)) \in Notes
    BY <2>1, <2>3 DEF Entry, Notes
  <2>. QED
    BY <1>2, <2>1, <2>2, <2>4
<1>. QED
  BY <1>1, <1>2

\* What every single note of a report keeps, all of them keep.
LEMMA AllIngestedIn ==
  ASSUME NEW a, NEW ps \in Seq(Files), NEW told, NEW STATE V, notes \in V,
         \A x \in V, f \in Files : Ingested(x, a, f, told) \in V
  PROVE  AllIngested(a, ps, told) \in V
<1> DEFINE n == Len(ps)
           F == [j \in (1 .. n) \X V |-> Ingested(j[2], a, ps[j[1]], told)]
           Fold(h) == h = [S \in SUBSET (1 .. n) |->
                             IF S = {} THEN notes ELSE Ingested(h[S \ {Max(S)}], a, ps[Max(S)], told)]
<1>1. n \in Nat /\ DOMAIN ps = 1 .. n /\ notes \in V
  BY LenProperties
<1>2. \A i \in 1 .. n : ps[i] \in Files
  BY <1>1, ElementOfSeq
<1>3. \A x \in V, i \in 1 .. n : Ingested(x, a, ps[i], told) \in V
  BY <1>2
<1>4. AllIngested(a, ps, told) = (CHOOSE h : Fold(h))[1 .. n]
  BY <1>1 DEF AllIngested, FoldLeft, MapThenFoldSet
<1> HIDE DEF n
<1>5. F \in [(1 .. n) \X V -> V]
  BY <1>3
<1>6. PICK h : IsFold(h, F, notes, n) /\ \A S \in SUBSET (1 .. n) : h[S] \in V
  BY <1>1, <1>5, FoldTyped
<1>7. Fold(h)
  <2>1. ASSUME NEW S \in SUBSET (1 .. n), S # {}
        PROVE  F[Max(S), h[S \ {Max(S)}]] = Ingested(h[S \ {Max(S)}], a, ps[Max(S)], told)
    <3>1. Max(S) \in 1 .. n /\ S \ {Max(S)} \in SUBSET (1 .. n)
      BY <1>1, <2>1, LastIsPlace
    <3>2. <<Max(S), h[S \ {Max(S)}]>> \in (1 .. n) \X V
      BY <1>6, <3>1
    <3>. QED
      BY <3>2
  <2> HIDE DEF F
  <2>. QED
    BY <1>6, <2>1 DEF IsFold
<1> DEFINE g == CHOOSE h1 : Fold(h1)
<1>8. Fold(g)
  <2> HIDE DEF Fold
  <2>. QED
    BY <1>7
<1> HIDE DEF g
<1>9. ASSUME NEW S \in SUBSET (1 .. n), S # {} /\ g[S \ {Max(S)}] \in V PROVE g[S] \in V
  <2>1. Max(S) \in 1 .. n
    BY <1>1, <1>9, LastIsPlace
  <2>2. g[S] = Ingested(g[S \ {Max(S)}], a, ps[Max(S)], told)
    BY <1>8, <1>9
  <2>. QED
    BY <1>3, <1>9, <2>1, <2>2
<1>10. g[{}] \in V
  <2>1. {} \in SUBSET (1 .. n)
    OBVIOUS
  <2>. QED
    BY <1>1, <1>8, <2>1
<1>11. \A S \in SUBSET (1 .. n) : g[S] \in V
  BY <1>1, <1>9, <1>10, FoldKeeps
<1>. QED
  BY <1>4, <1>11 DEF g

\* The lists that have all notes of K.
Holding(K) == {ns \in NoteLists : \A n \in K : \E i \in DOMAIN ns : ns[i] = n}

\* A report does not replace a note that is fresh.
LEMMA IngestedHolds ==
  ASSUME NotesInv, NEW a \in Agents, NEW f \in Files, NEW told, NEW K \in SUBSET Notes,
         \A n \in K : n.sha = disk[n.path], NEW ns \in Holding(K)
  PROVE  Ingested(ns, a, f, told) \in Holding(K)
<1>0. ns \in NoteLists
  BY DEF Holding
<1>1. CASE Ingested(ns, a, f, told) = ns
  BY <1>1
<1>2. CASE ~(Ingested(ns, a, f, told) = ns)
  <2>1. PICK about \in SUBSET {known[a][f]} :
          /\ ~FreshIn(ns, f, disk[f])
          /\ Entry(f, disk[f], about, NoteText(ns, f)) \in Notes
          /\ Ingested(ns, a, f, told) = Written(ns, Entry(f, disk[f], about, NoteText(ns, f)))
    BY <1>0, <1>2, IngestedIs
  <2> DEFINE e == Entry(f, disk[f], about, NoteText(ns, f))
  <2>2. e \in Notes /\ e.path = f
    BY <2>1 DEF Entry
  <2> HIDE DEF e
  <2>3. ASSUME NEW n \in K PROVE \E i \in DOMAIN Written(ns, e) : Written(ns, e)[i] = n
    <3>1. PICK j \in DOMAIN ns : ns[j] = n
      BY DEF Holding
    <3>2. CASE n.path = f
      <4>1. f \in Paths(ns) /\ NoteOf(ns, f) = n
        BY <1>0, <3>1, <3>2, NoteOfIs
      <4>. QED
        BY <2>1, <3>2, <4>1 DEF FreshIn
    <3>3. CASE n.path # f
      BY <1>0, <2>2, <3>1, <3>3, WrittenProperties
    <3>. QED
      BY <3>2, <3>3
  <2>4. Written(ns, e) \in NoteLists
    BY <1>0, <2>2, WrittenProperties
  <2>. QED
    BY <2>1, <2>3, <2>4 DEF Holding, e
<1>. QED
  BY <1>1, <1>2

\* Nor do all the notes of it.
LEMMA AllIngestedHolds ==
  ASSUME NotesInv, NEW a \in Agents, NEW ps \in Seq(Files), NEW told, NEW K \in SUBSET Notes,
         \A n \in K : n.sha = disk[n.path], notes \in Holding(K)
  PROVE  AllIngested(a, ps, told) \in Holding(K)
<1>1. \A x \in Holding(K), f \in Files : Ingested(x, a, f, told) \in Holding(K)
  BY IngestedHolds
<1>. QED
  BY <1>1, AllIngestedIn

\* The paths that a report is about.
LEMMA IngestPathsTyped ==
  ASSUME NEW a, NEW ps \in IngestPaths(a)
  PROVE  ps \in Seq(Files)
<1>1. PICK s \in Listed(Files) : ps = Oldest(s, INGEST_FILE_CAP)
  BY DEF IngestPaths
<1>2. Cardinality(Files) \in Nat /\ INGEST_FILE_CAP \in Nat
  BY FilesAreFinite, FS_CardinalityType, CapsAreSizes
<1>3. s \in Seq(Files)
  <2>1. PICK m \in 0 .. Cardinality(Files) : s \in [1 .. m -> Files]
    BY DEF Listed
  <2>. QED
    BY <1>2, <2>1, SeqDef
<1>. QED
  BY <1>1, <1>2, <1>3, CutProperties

-----------------------------------------------------------------------------
\* A save leaves a list of notes within its cap.
LEMMA SaveIsTyped ==
  ASSUME NEW ns \in NoteLists, NEW ds, Save(ns, ds)
  PROVE  notes' \in NoteLists /\ Len(notes') <= FILE_NOTE_CAP
BY PrunedIsTyped DEF Save

\* Reading or editing a noted file puts its note in front.
LEMMA TouchIsTyped ==
  ASSUME NotesInv, NEW f, NEW v, Touch(f, v)
  PROVE  notes' \in NoteLists /\ (seeded' \/ Len(notes') <= FILE_NOTE_CAP)
<1>1. notes \in NoteLists
  BY DEF NotesInv
<1>2. Touched(notes, f, v) \in NoteLists
  <2>1. CASE f \in Paths(notes)
    <3>1. NoteOf(notes, f) \in Notes /\ NoteOf(notes, f).path = f
      BY <1>1, <2>1, NoteOfIn
    <3>2. Touched(notes, f, v) = Written(notes, NoteOf(notes, f))
      BY <2>1, <3>1 DEF Touched, Written
    <3>. QED
      BY <1>1, <3>1, <3>2, WrittenProperties
  <2>2. CASE f \notin Paths(notes)
    BY <1>1, <2>2 DEF Touched
  <2>. QED
    BY <2>1, <2>2
<1>3. CASE UNCHANGED <<notes, decisions, seeded>>
  BY <1>1, <1>3 DEF NotesInv
<1>4. CASE Save(Touched(notes, f, v), decisions)
  BY <1>2, <1>4, SaveIsTyped
<1>. QED
  BY <1>3, <1>4 DEF Touch

\* What a seed holds.
LEMMA SeedIsTyped == Sanitized \subseteq NoteLists
<1> SUFFICES ASSUME NEW ns \in Sanitized PROVE ns \in NoteLists
  OBVIOUS
<1>1. PICK m \in 0 .. Cardinality(Files) :
        /\ ns \in [1 .. m -> SeedNotes]
        /\ \A i, j \in 1 .. m : ns[i].path = ns[j].path => i = j
  BY DEF Sanitized
<1>2. m \in Nat
  BY FilesAreFinite, FS_CardinalityType
<1>3. SeedNotes \subseteq Notes
  <2>1. 0 \in Words /\ Unknown \in Words
    BY CapsAreSizes DEF Words, Versions
  <2>. QED
    BY <2>1 DEF SeedNotes, Notes
<1>4. ns \in Seq(Notes) /\ DOMAIN ns = 1 .. m
  BY <1>1, <1>2, <1>3, SeqDef
<1>. QED
  BY <1>1, <1>4 DEF NoteLists

LEMMA NotesStart == MemoryInit => NotesInv
<1> SUFFICES ASSUME MemoryInit PROVE NotesInv
  OBVIOUS
<1>1. 0 \in Versions /\ FILE_NOTE_CAP \in Nat
  BY CapsAreSizes DEF Versions
<1>2. notes \in NoteLists /\ Len(notes) = 0
  BY EmptySeq DEF MemoryInit, NoteLists
<1>. QED
  BY <1>1, <1>2 DEF MemoryInit, NotesInv, NoFiles, Words

LEMMA NotesStep == NotesInv /\ [MemoryNext]_memoryVars => NotesInv'
<1> SUFFICES ASSUME NotesInv, [MemoryNext]_memoryVars PROVE NotesInv'
  OBVIOUS
<1>0. /\ disk \in [Files -> Versions \cup {Gone}] /\ notes \in NoteLists
      /\ seeded \/ Len(notes) <= FILE_NOTE_CAP
      /\ at \in [Agents -> {"work", "remember", "done"}]
      /\ known \in [Agents -> [Files -> Words]]
      /\ hashed \in [Agents -> {<<>>} \cup (Files \X Versions)]
      /\ \A a \in Agents : at[a] = "remember" => hashed[a] \in Files \X Versions
  BY DEF NotesInv
<1>1. ASSUME NEW a \in Agents, NEW f \in Files, Read(a, f) PROVE NotesInv'
  <2>1. notes' \in NoteLists /\ (seeded' \/ Len(notes') <= FILE_NOTE_CAP)
    BY <1>1, TouchIsTyped DEF Read
  <2>2. known' \in [Agents -> [Files -> Words]]
    BY <1>0, <1>1 DEF Read, Words
  <2>. QED
    BY <1>0, <1>1, <2>1, <2>2 DEF Read, NotesInv
<1>2. ASSUME NEW a \in Agents, NEW f \in Files, Edit(a, f) PROVE NotesInv'
  <2>1. notes' \in NoteLists /\ (seeded' \/ Len(notes') <= FILE_NOTE_CAP)
    BY <1>2, TouchIsTyped DEF Edit
  <2>2. disk[f] + 1 \in Versions /\ disk[f] + 1 \in Words
    BY <1>0, <1>2, CapsAreSizes DEF Edit, Versions, Words
  <2>3. known' \in [Agents -> [Files -> Words]]
    BY <1>0, <1>2, <2>2 DEF Edit
  <2>4. disk' \in [Files -> Versions \cup {Gone}]
    BY <1>0, <1>2, <2>2 DEF Edit
  <2>. QED
    BY <1>0, <1>2, <2>1, <2>3, <2>4 DEF Edit, NotesInv
<1>3. ASSUME NEW f \in Files, Outside(f) PROVE NotesInv'
  <2>1. disk' \in [Files -> Versions \cup {Gone}]
    BY <1>0, <1>3 DEF Outside
  <2>. QED
    BY <1>0, <1>3, <2>1 DEF Outside, agents, NotesInv
<1>4. ASSUME NEW a \in Agents, NEW f \in Files, RememberFile(a, f) PROVE NotesInv'
  <2>1. <<f, disk[f]>> \in Files \X Versions
    BY <1>0, <1>4 DEF RememberFile
  <2>2. at' \in [Agents -> {"work", "remember", "done"}]
    BY <1>0, <1>4 DEF RememberFile
  <2>3. ASSUME NEW b \in Agents, at'[b] = "remember" PROVE hashed'[b] \in Files \X Versions
    <3>1. CASE b = a
      BY <1>0, <1>4, <2>1, <3>1 DEF RememberFile
    <3>2. CASE b # a
      <4>1. at[b] = "remember" /\ hashed'[b] = hashed[b]
        BY <1>0, <1>4, <2>3, <3>2 DEF RememberFile
      <4>. QED
        BY <1>0, <4>1
    <3>. QED
      BY <3>1, <3>2
  <2>4. hashed' \in [Agents -> {<<>>} \cup (Files \X Versions)]
    BY <1>0, <1>4, <2>1 DEF RememberFile
  <2>. QED
    BY <1>0, <1>4, <2>2, <2>3, <2>4 DEF RememberFile, NotesInv
<1>5. ASSUME NEW a \in Agents, Remembered(a) PROVE NotesInv'
  <2> DEFINE f == hashed[a][1]
             d == hashed[a][2]
  <2>1. f \in Files /\ d \in Words /\ known[a][f] \in Words
    BY <1>0, <1>5 DEF Remembered, Words
  <2>2. PICK kept \in SUBSET About(notes, f), note \in {NoteText(notes, f), {known[a][f]}} :
          Save(Written(notes, Entry(f, d, kept \cup {known[a][f]}, note)), decisions)
    BY <1>5 DEF Remembered
  <2> DEFINE e == Entry(f, d, kept \cup {known[a][f]}, note)
  <2>3. kept \in SUBSET Words /\ note \in SUBSET Words
    BY <1>0, <2>1, WordsTyped
  <2>4. e \in Notes
    BY <2>1, <2>3 DEF Entry, Notes
  <2>5. notes' \in NoteLists /\ Len(notes') <= FILE_NOTE_CAP
    BY <1>0, <2>2, <2>4, WrittenProperties, SaveIsTyped
  <2>6. at' \in [Agents -> {"work", "remember", "done"}]
    BY <1>0, <1>5 DEF Remembered
  <2>7. \A b \in Agents : at'[b] = "remember" => hashed'[b] \in Files \X Versions
    BY <1>0, <1>5 DEF Remembered
  <2>8. hashed' \in [Agents -> {<<>>} \cup (Files \X Versions)]
    BY <1>0, <1>5 DEF Remembered
  <2>. QED
    BY <1>0, <1>5, <2>5, <2>6, <2>7, <2>8 DEF Remembered, NotesInv
<1>6. ASSUME NEW a \in Agents, Decide(a) PROVE NotesInv'
  <2>1. notes' \in NoteLists /\ Len(notes') <= FILE_NOTE_CAP
    BY <1>0, <1>6, SaveIsTyped DEF Decide
  <2>. QED
    BY <1>0, <1>6, <2>1 DEF Decide, agents, NotesInv
<1>7. ASSUME NEW a \in Agents, Finish(a) PROVE NotesInv'
  <2>1. notes' \in NoteLists /\ (seeded' \/ Len(notes') <= FILE_NOTE_CAP)
    <3>1. CASE UNCHANGED <<notes, decisions, seeded, log>>
      BY <1>0, <3>1
    <3>2. ASSUME NEW ps \in IngestPaths(a), NEW told,
                 Save(AllIngested(a, ps, told), Appended(decisions, a))
          PROVE  notes' \in NoteLists /\ Len(notes') <= FILE_NOTE_CAP
      <4>1. notes \in Holding({}) /\ ps \in Seq(Files)
        BY <1>0, IngestPathsTyped DEF Holding
      <4>2. AllIngested(a, ps, told) \in Holding({})
        BY <4>1, AllIngestedHolds
      <4>3. AllIngested(a, ps, told) \in NoteLists
        BY <4>2 DEF Holding
      <4>. QED
        BY <3>2, <4>3, SaveIsTyped
    <3>. QED
      BY <1>7, <3>1, <3>2 DEF Finish
  <2>2. at' \in [Agents -> {"work", "remember", "done"}]
    BY <1>0, <1>7 DEF Finish
  <2>3. known' \in [Agents -> [Files -> Words]]
    BY <1>0, <1>7 DEF Finish, NoFiles, Words
  <2>4. \A b \in Agents : at'[b] = "remember" => hashed'[b] \in Files \X Versions
    BY <1>0, <1>7 DEF Finish
  <2>. QED
    BY <1>0, <1>7, <2>1, <2>2, <2>3, <2>4 DEF Finish, NotesInv
<1>8. CASE Render
  <2>1. DropMissing \in NoteLists
    BY <1>0, ButIsTyped DEF DropMissing
  <2>2. notes' \in NoteLists /\ Len(notes') <= FILE_NOTE_CAP
    BY <1>8, <2>1, SaveIsTyped DEF Render
  <2>. QED
    BY <1>0, <1>8, <2>2 DEF Render, agents, NotesInv
<1>9. CASE Seed
  <2>1. notes' \in NoteLists
    BY <1>9, SeedIsTyped DEF Seed
  <2>. QED
    BY <1>0, <1>9, <2>1 DEF Seed, agents, NotesInv
<1>10. CASE Crash
  <2>1. notes' \in NoteLists /\ Len(notes') = 0 /\ FILE_NOTE_CAP \in Nat
    BY <1>10, EmptySeq, CapsAreSizes DEF Crash, NoteLists
  <2>2. at' \in [Agents -> {"work", "remember", "done"}] /\ \A a \in Agents : at'[a] # "remember"
    BY <1>10 DEF Crash
  <2>3. /\ known' \in [Agents -> [Files -> Words]]
        /\ hashed' \in [Agents -> {<<>>} \cup (Files \X Versions)]
    BY <1>10 DEF Crash, NoFiles, Words
  <2>. QED
    BY <1>0, <1>10, <2>1, <2>2, <2>3 DEF Crash, NotesInv
<1>11. CASE UNCHANGED memoryVars
  BY <1>0, <1>11 DEF memoryVars, NotesInv
<1>. QED
  BY <1>1, <1>2, <1>3, <1>4, <1>5, <1>6, <1>7, <1>8, <1>9, <1>10, <1>11 DEF MemoryNext

\* However agents and the user read, edit, remember, finish, seed and crash:
\* one note per file, and no more notes or decisions than the caps but for a
\* seed that nothing was saved after.
THEOREM MemoryTypes == MemorySpec => []MemoryTypeOK
<1>1. NotesInv /\ MemoryInv => MemoryTypeOK
  <2> SUFFICES ASSUME NotesInv, MemoryInv PROVE MemoryTypeOK
    OBVIOUS
  <2>1. ASSUME NEW i \in DOMAIN notes
        PROVE  /\ notes[i].path \in Files /\ notes[i].sha \in Words
               /\ notes[i].about \cup notes[i].note \subseteq Words
    <3>1. notes[i] \in Notes
      BY LenProperties, ElementOfSeq DEF NotesInv, NoteLists
    <3>. QED
      BY <3>1 DEF Notes
  <2>2. seeded \/ Len(decisions) <= SECTION_CAP
    BY DEF MemoryInv
  <2>. QED
    BY <2>1, <2>2 DEF NotesInv, NoteLists, MemoryTypeOK
<1>. QED
  BY <1>1, MemoryStarts, MemoryStep, NotesStart, NotesStep, PTL DEF MemorySpec

\* A child's end leaves the fresh notes as they are, or takes them out.
LEMMA ReportsKeepFresh ==
  ASSUME NotesInv, NotesInv', [MemoryNext]_memoryVars
  PROVE  ReportKeepsFresh
<1> SUFFICES ASSUME NEW a \in Agents, NEW f \in Files, at[a] = "work", at'[a] = "done",
                    \E b \in Agents : at'[b] # "done",
                    FreshIn(notes, f, disk[f]), f \in Paths(notes')
             PROVE  NoteOf(notes', f) = NoteOf(notes, f)
  BY DEF ReportKeepsFresh, Reports
<1> DEFINE n == NoteOf(notes, f)
<1>1. notes \in NoteLists /\ notes' \in NoteLists /\ at \in [Agents -> {"work", "remember", "done"}]
  BY DEF NotesInv
<1>2. n \in Notes /\ n.path = f /\ n.sha = disk[f] /\ \E j \in DOMAIN notes : notes[j] = n
  BY <1>1, NoteOfIn DEF FreshIn
<1>3. Finish(a)
  <2>1. \A b \in Agents : Finish(b) => b = a
    BY <1>1 DEF Finish
  <2>2. at' # at
    OBVIOUS
  <2>3. ~Crash
    BY DEF Crash
  <2>4. \A b \in Agents : ~Remembered(b) /\ ~Decide(b)
    BY <1>1 DEF Remembered, Decide, agents
  <2>5. \A b \in Agents, x \in Files : ~Read(b, x) /\ ~Edit(b, x) /\ ~RememberFile(b, x)
    BY <1>1 DEF Read, Edit, RememberFile
  <2>6. \A x \in Files : ~Outside(x)
    BY <2>2 DEF Outside, agents
  <2>7. ~Render /\ ~Seed /\ ~ UNCHANGED memoryVars
    BY <2>2 DEF Render, Seed, agents, memoryVars
  <2>. QED
    BY <2>1, <2>3, <2>4, <2>5, <2>6, <2>7 DEF MemoryNext
<1>4. CASE notes' = notes
  BY <1>4
<1>5. ASSUME NEW ps \in IngestPaths(a), NEW told,
             Save(AllIngested(a, ps, told), Appended(decisions, a))
      PROVE  NoteOf(notes', f) = n
  <2> DEFINE all == AllIngested(a, ps, told)
  <2>1. notes \in Holding({n}) /\ ps \in Seq(Files) /\ {n} \in SUBSET Notes
    BY <1>1, <1>2, IngestPathsTyped DEF Holding
  <2>2. all \in Holding({n})
    BY <1>2, <2>1, AllIngestedHolds
  <2>3. all \in NoteLists /\ \E i \in DOMAIN all : all[i] = n
    BY <2>2 DEF Holding
  <2>4. notes' = PrunedNotes(all)
    BY <1>5 DEF Save
  <2> HIDE DEF all, n
  <2>5. PICK i \in DOMAIN notes' : notes'[i] = NoteOf(notes', f) /\ NoteOf(notes', f).path = f
    BY <1>1, NoteOfIn
  <2>6. PICK j \in DOMAIN all : notes'[i] = all[j]
    BY <2>3, <2>4, PrunedIsTyped
  <2>7. NoteOf(all, f) = all[j]
    BY <2>3, <2>5, <2>6, NoteOfIs
  <2>8. NoteOf(all, f) = n
    BY <1>2, <2>3, NoteOfIs
  <2>. QED
    BY <2>5, <2>6, <2>7, <2>8
<1>. QED
  BY <1>3, <1>4, <1>5 DEF Finish

\* a wrote the note n: beside what the memory had of the file, its words.
Spoken(a, n) ==
  /\ n.about \subseteq About(notes, n.path) \cup {known[a][n.path]}
  /\ n.note \subseteq NoteText(notes, n.path) \cup {known[a][n.path]}

\* What a report of a makes of the notes: those there were, and its own.
Drawn(a) ==
  {ns \in NoteLists : \A i \in DOMAIN ns :
     \/ \E j \in DOMAIN notes : ns[i] = notes[j]
     \/ ns[i].sha = disk[ns[i].path] /\ Spoken(a, ns[i])}

LEMMA IngestedDrawn ==
  ASSUME NotesInv, NEW a \in Agents, NEW f \in Files, NEW told, NEW ns \in Drawn(a)
  PROVE  Ingested(ns, a, f, told) \in Drawn(a)
<1>0. ns \in NoteLists /\ notes \in NoteLists
  BY DEF Drawn, NotesInv
<1>1. CASE Ingested(ns, a, f, told) = ns
  BY <1>1
<1>2. CASE ~(Ingested(ns, a, f, told) = ns)
  <2>1. PICK about \in SUBSET {known[a][f]} :
          /\ Entry(f, disk[f], about, NoteText(ns, f)) \in Notes
          /\ Ingested(ns, a, f, told) = Written(ns, Entry(f, disk[f], about, NoteText(ns, f)))
    BY <1>0, <1>2, IngestedIs
  <2> DEFINE e == Entry(f, disk[f], about, NoteText(ns, f))
  <2>2. /\ e \in Notes /\ e.path = f /\ e.sha = disk[f]
        /\ e.about \subseteq {known[a][f]} /\ e.note = NoteText(ns, f)
    BY <2>1 DEF Entry
  <2> HIDE DEF e
  <2>3. NoteText(ns, f) \subseteq NoteText(notes, f) \cup {known[a][f]}
    <3>1. CASE f \in Paths(ns)
      <4>1. PICK j \in DOMAIN ns : ns[j] = NoteOf(ns, f) /\ ns[j].path = f
        BY <1>0, <3>1, NoteOfIn
      <4>2. NoteText(ns, f) = ns[j].note
        BY <3>1, <4>1 DEF NoteText
      <4>3. ASSUME NEW k \in DOMAIN notes, ns[j] = notes[k]
            PROVE  NoteText(notes, f) = ns[j].note
        BY <1>0, <4>1, <4>3, NoteOfIs DEF NoteText
      <4>4. CASE Spoken(a, ns[j])
        BY <4>1, <4>2, <4>4 DEF Spoken
      <4>. QED
        BY <4>2, <4>3, <4>4 DEF Drawn
    <3>2. CASE f \notin Paths(ns)
      BY <3>2 DEF NoteText
    <3>. QED
      BY <3>1, <3>2
  <2>4. Spoken(a, e)
    BY <2>2, <2>3 DEF Spoken
  <2>5. /\ Written(ns, e) \in NoteLists
        /\ \A i \in DOMAIN Written(ns, e) :
             Written(ns, e)[i] = e \/ \E j \in DOMAIN ns : Written(ns, e)[i] = ns[j]
    BY <1>0, <2>2, WrittenProperties
  <2>6. Written(ns, e) \in Drawn(a)
    BY <2>2, <2>4, <2>5 DEF Drawn
  <2>. QED
    BY <2>1, <2>6 DEF e
<1>. QED
  BY <1>1, <1>2

\* A note of the old list is the old note of its file.
LEMMA OldNotesStay ==
  ASSUME notes \in NoteLists, notes' \in NoteLists, NEW f \in Paths(notes),
         NEW i \in DOMAIN notes', notes'[i] = NoteOf(notes', f), notes'[i].path = f,
         NEW j \in DOMAIN notes, notes'[i] = notes[j]
  PROVE  NoteOf(notes', f) = NoteOf(notes, f)
BY NoteOfIs

\* Whatever the step, a note that is not as it was is its author's.
LEMMA AuthorsChange ==
  ASSUME NotesInv, NotesInv', [MemoryNext]_memoryVars
  PROVE  OnlyAuthorsChange
<1> SUFFICES ASSUME NEW f \in Paths(notes), f \in Paths(notes')
             PROVE  LET old == NoteOf(notes, f)  new == NoteOf(notes', f) IN
                    \/ new = old
                    \/ seeded'
                    \/ \E a \in Agents :
                         /\ Writes(a, f, new.sha)
                         /\ new.about \subseteq old.about \cup {known[a][f]}
                         /\ new.note \subseteq old.note \cup {known[a][f]}
  BY DEF OnlyAuthorsChange
<1> DEFINE old == NoteOf(notes, f)
           new == NoteOf(notes', f)
<1>1. notes \in NoteLists /\ notes' \in NoteLists
  BY DEF NotesInv
<1>2. PICK i \in DOMAIN notes' : notes'[i] = new /\ notes'[i].path = f
  BY <1>1, NoteOfIn
<1>3. About(notes, f) = old.about /\ NoteText(notes, f) = old.note
  BY DEF About, NoteText
<1>4. ASSUME NEW j \in DOMAIN notes, notes'[i] = notes[j] PROVE new = old
  BY <1>1, <1>2, <1>4, OldNotesStay
<1> HIDE DEF old, new
\* A save of a list takes its notes from it.
<1>5. ASSUME NEW ns \in NoteLists, NEW ds, Save(ns, ds) PROVE \E j \in DOMAIN ns : notes'[i] = ns[j]
  BY <1>5, PrunedIsTyped DEF Save
<1>6. ASSUME UNCHANGED notes PROVE new = old
  BY <1>4, <1>6
<1>7. ASSUME NEW x, NEW v, Touch(x, v) PROVE new = old
  <2>1. CASE UNCHANGED <<notes, decisions, seeded>>
    BY <1>6, <2>1
  <2>2. CASE Save(Touched(notes, x, v), decisions) /\ x \in Paths(notes)
    <3>1. NoteOf(notes, x) \in Notes /\ NoteOf(notes, x).path = x
          /\ \E j \in DOMAIN notes : notes[j] = NoteOf(notes, x)
      BY <1>1, <2>2, NoteOfIn
    <3>2. Touched(notes, x, v) = Written(notes, NoteOf(notes, x))
      BY <2>2, <3>1 DEF Touched, Written
    <3>3. PICK j \in DOMAIN Written(notes, NoteOf(notes, x)) :
            notes'[i] = Written(notes, NoteOf(notes, x))[j]
      BY <1>1, <1>5, <2>2, <3>1, <3>2, WrittenProperties
    <3>4. \E k \in DOMAIN notes : notes'[i] = notes[k]
      BY <1>1, <3>1, <3>3, WrittenProperties
    <3>. QED
      BY <1>4, <3>4
  <2>3. CASE Save(Touched(notes, x, v), decisions) /\ x \notin Paths(notes)
    <3>1. Save(notes, decisions)
      BY <2>3 DEF Touched
    <3>. QED
      BY <1>1, <1>4, <1>5, <3>1
  <2>. QED
    BY <1>7, <2>1, <2>2, <2>3 DEF Touch
<1>8. ASSUME NEW a \in Agents, Remembered(a)
      PROVE  \/ new = old
             \/ /\ Writes(a, f, new.sha)
                /\ new.about \subseteq old.about \cup {known[a][f]}
                /\ new.note \subseteq old.note \cup {known[a][f]}
  <2> DEFINE x == hashed[a][1]
             d == hashed[a][2]
  <2>1. /\ at[a] = "remember" /\ at'[a] = "work" /\ hashed[a] = <<x, d>>
        /\ x \in Files /\ d \in Words /\ known[a][x] \in Words
    BY <1>8 DEF Remembered, NotesInv, Words
  <2>2. PICK kept \in SUBSET About(notes, x), note \in {NoteText(notes, x), {known[a][x]}} :
          Save(Written(notes, Entry(x, d, kept \cup {known[a][x]}, note)), decisions)
    BY <1>8 DEF Remembered
  <2> DEFINE e == Entry(x, d, kept \cup {known[a][x]}, note)
  <2>3. kept \in SUBSET Words /\ note \in SUBSET Words
    BY <1>1, <2>1, WordsTyped
  <2>4. /\ e \in Notes /\ e.path = x /\ e.sha = d
        /\ e.about \subseteq About(notes, x) \cup {known[a][x]}
        /\ e.note \subseteq NoteText(notes, x) \cup {known[a][x]}
    BY <2>1, <2>3 DEF Entry, Notes
  <2> HIDE DEF e
  <2>5. PICK j \in DOMAIN Written(notes, e) : notes'[i] = Written(notes, e)[j]
    <3>1. Written(notes, e) \in NoteLists
      BY <1>1, <2>4, WrittenProperties
    <3>2. Save(Written(notes, e), decisions)
      BY <2>2 DEF e
    <3>. QED
      BY <1>5, <3>1, <3>2
  <2>6. notes'[i] = e \/ \E k \in DOMAIN notes : notes'[i] = notes[k]
    BY <1>1, <2>4, <2>5, WrittenProperties
  <2>7. CASE notes'[i] = e
    <3>1. x = f /\ new = e
      BY <1>2, <2>4, <2>7
    <3>2. Writes(a, f, new.sha)
      BY <2>1, <2>4, <3>1 DEF Writes
    <3>. QED
      BY <1>3, <2>4, <3>1, <3>2
  <2>. QED
    BY <1>4, <2>6, <2>7
<1>9. ASSUME NEW a \in Agents, Finish(a)
      PROVE  \/ new = old
             \/ /\ Writes(a, f, new.sha)
                /\ new.about \subseteq old.about \cup {known[a][f]}
                /\ new.note \subseteq old.note \cup {known[a][f]}
  <2>1. CASE UNCHANGED notes
    BY <1>6, <2>1
  <2>2. ASSUME profile[a] \in INGEST_PROFILES, NEW ps \in IngestPaths(a), NEW told,
               Save(AllIngested(a, ps, told), Appended(decisions, a))
        PROVE  \/ new = old
               \/ /\ Writes(a, f, new.sha)
                  /\ new.about \subseteq old.about \cup {known[a][f]}
                  /\ new.note \subseteq old.note \cup {known[a][f]}
    <3> DEFINE all == AllIngested(a, ps, told)
    <3>1. notes \in Drawn(a) /\ ps \in Seq(Files)
      BY <1>1, IngestPathsTyped DEF Drawn
    <3>2. \A ns \in Drawn(a), x \in Files : Ingested(ns, a, x, told) \in Drawn(a)
      BY IngestedDrawn
    <3>3. all \in Drawn(a)
      BY <3>1, <3>2, AllIngestedIn
    <3> HIDE DEF all
    <3>4. all \in NoteLists /\ Save(all, Appended(decisions, a))
      BY <2>2, <3>3 DEF Drawn, all
    <3>5. PICK j \in DOMAIN all : notes'[i] = all[j]
      BY <1>5, <3>4
    <3>6. CASE new.sha = disk[f] /\ Spoken(a, new)
      <4>1. new.path = f
        BY <1>2
      <4>2. Writes(a, f, new.sha)
        BY <1>9, <2>2, <3>6 DEF Finish, Writes, NotesInv
      <4>. QED
        BY <1>3, <3>6, <4>1, <4>2 DEF Spoken
    <3>. QED
      BY <1>2, <1>4, <3>3, <3>5, <3>6 DEF Drawn
  <2>. QED
    BY <1>9, <2>1, <2>2 DEF Finish
<1>10. ASSUME NEW a \in Agents, Decide(a) PROVE new = old
  <2>1. \E j \in DOMAIN notes : notes'[i] = notes[j]
    BY <1>1, <1>5, <1>10 DEF Decide
  <2>. QED
    BY <1>4, <2>1
<1>11. ASSUME NEW a \in Agents, NEW x \in Files, Read(a, x) \/ Edit(a, x) PROVE new = old
  BY <1>7, <1>11 DEF Read, Edit
<1>12. ASSUME NEW a \in Agents, NEW x \in Files, RememberFile(a, x) PROVE new = old
  BY <1>6, <1>12 DEF RememberFile
<1>13. ASSUME NEW x \in Files, Outside(x) PROVE new = old
  BY <1>6, <1>13 DEF Outside
<1>14. CASE Render
  <2> DEFINE S == {k \in DOMAIN notes : disk[notes[k].path] = Gone}
  <2>1. DropMissing \in NoteLists /\ \A k \in DOMAIN DropMissing : \E j \in DOMAIN notes : DropMissing[k] = notes[j]
    <3>1. S \in SUBSET DOMAIN notes /\ notes \in Seq(Notes) /\ DropMissing = But(notes, S)
      BY <1>1 DEF NoteLists, DropMissing
    <3> HIDE DEF S
    <3>. QED
      BY <1>1, <3>1, ButIsTyped, ButProperties
  <2>2. Save(DropMissing, decisions)
    BY <1>14 DEF Render
  <2>3. \E j \in DOMAIN notes : notes'[i] = notes[j]
    BY <1>5, <2>1, <2>2
  <2>. QED
    BY <1>4, <2>3 DEF old, new
<1>15. CASE Seed
  BY <1>15 DEF Seed
<1>16. CASE Crash
  BY <1>2, <1>16 DEF Crash
<1>17. CASE UNCHANGED memoryVars
  BY <1>6, <1>17 DEF memoryVars, old, new
<1>. QED
  BY <1>8, <1>9, <1>10, <1>11, <1>12, <1>13, <1>14, <1>15, <1>16, <1>17 DEF MemoryNext, old, new

\* Whatever agents read, edit, remember and report: a note changes, and a STALE
\* one becomes fresh, only by one who writes about its file, with what he knew
\* and what was there; and no report takes the place of a note that is fresh.
THEOREM NotesAreHeld == MemorySpec => NotesHold
<1>1. NotesInv /\ [MemoryNext]_memoryVars => [OnlyAuthorsChange /\ ReportKeepsFresh]_memoryVars
  BY NotesStep, AuthorsChange, ReportsKeepFresh
<1>. QED
  BY <1>1, NotesStart, NotesStep, PTL DEF MemorySpec, NotesHold
=============================================================================
