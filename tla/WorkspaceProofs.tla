--------------------------- MODULE WorkspaceProofs ---------------------------
(***************************************************************************)
(* Proofs about what the agents do to a workspace: the rounds of a child   *)
(* agent and its report (Subagent), the processes it starts (Processes),   *)
(* and the funnel through which it writes files, with undo (WriteFunnel);  *)
(* for every value of their constants.                                     *)
(***************************************************************************)
EXTENDS Subagent, Processes, WriteFunnel, ListLemmas

-----------------------------------------------------------------------------
(* The rounds of a child agent.                                            *)

CallType ==
  [kind : Kinds, files : SUBSET CodeFiles, behind : BOOLEAN,
   stage : {"none", "verify", "run", "read", "settle", "screen"}]

\* Calls are under way only while the child is in a round with tools.
CallsInRounds == \A i \in Ids : call[i].stage # "none" => stage = "tools"

\* Files that a call has changed on the disk and has yet to record.
Pending == {f \in CodeFiles : \E i \in Ids : call[i].stage = "settle" /\ f \in call[i].files}

\* What is on the disk and not in the books is between the two, or of an undone
\* batch; unless the abort of the run has cut it off there.
UnrecordedIsPending == exit # "aborted" => written \subseteq touched \cup untold \cup Pending

\* A clean verdict of the books is of what is on the disk; or its file is about to
\* be recorded, was overtaken, or was undone without a word.
CleanIsFresh ==
  exit # "aborted" =>
    \A f \in CodeFiles : diag[f] = "clean" => f \in fresh \cup raced \cup untold \cup Pending

\* An abort is the end of a run; the report is written after it.
ReportIsLast ==
  /\ exit = "aborted" => stage \in {"closing", "done"}
  /\ report # "none" => stage = "done"

\* The part of TypeOK about the calls: the write lock is held by one at a time.
Settles(c) == c.kind = "edit" /\ c.stage = "settle"
CallsOK ==
  /\ call \in [Ids -> CallType]
  /\ \A i, j \in Ids : Settles(call[i]) /\ Settles(call[j]) => i = j

Books == UnrecordedIsPending /\ CleanIsFresh

IInv == TypeOK /\ CallsInRounds /\ Books /\ ReportIsLast /\ ReportTrue

LEMMA CallsAreTyped == TypeOK => CallsOK
  BY DEF TypeOK, CallsOK, CallType, Settles

LEMMA NoCallIs == NoCall \in CallType /\ NoCall.stage = "none" /\ NoCall.files = {}
  BY DEF NoCall, CallType, Kinds

LEMMA NewCallsAre == \A c \in NewCalls : c \in CallType /\ c.stage = "verify"
<1> TAKE c \in NewCalls
<1>1. c \in Calls
  BY Zenon DEF NewCalls
<1>2. PICK k \in Kinds, fs \in SUBSET CodeFiles :
        c = [kind |-> k, files |-> fs, stage |-> "verify", behind |-> FALSE]
  BY <1>1 DEF Calls
<1>. QED
  BY <1>2 DEF CallType

-----------------------------------------------------------------------------
\* The start of a child's run.
LEMMA Initially == Init => IInv
<1> SUFFICES ASSUME Init PROVE IInv
  OBVIOUS
<1>1. TypeOK
  BY SubagentAssumption DEF Init, TypeOK, NoCall, Kinds
<1>. QED
  BY <1>1 DEF Init, IInv, NoCall, CallsInRounds, Books, UnrecordedIsPending, CleanIsFresh,
              ReportIsLast, ReportTrue, OkMeansChecked, CardsClose

\* A call moves on.
LEMMA GoesOn ==
  ASSUME CallsOK, NEW i \in Ids,
         NEW to \in {"none", "verify", "run", "read", "screen"}, GoOn(i, to)
  PROVE  /\ call'[i].stage = to
         /\ \A j \in Ids : j # i => call'[j] = call[j]
         /\ CallsOK'
<1>1. /\ call'[i] = [call[i] EXCEPT !.stage = to]
      /\ \A j \in Ids : j # i => call'[j] = call[j]
      /\ call[i] \in CallType
      /\ call' \in [Ids -> CallType]
  BY DEF CallsOK, GoOn, CallType
<1>2. call'[i].stage = to
  BY <1>1 DEF CallType
<1>3. ~ Settles(call'[i])
  BY <1>2 DEF Settles
<1>4. \A j, k \in Ids : Settles(call'[j]) /\ Settles(call'[k]) => j = k
  BY <1>1, <1>3 DEF CallsOK
<1>. QED
  BY <1>1, <1>2, <1>4 DEF CallsOK

\* A call that was not about to record changes no book by moving on.
LEMMA PendingStays ==
  ASSUME CallsOK, NEW i \in Ids,
         NEW to \in {"none", "verify", "run", "read", "screen"}, GoOn(i, to),
         call[i].stage # "settle"
  PROVE  Pending' = Pending
<1>1. \A j \in Ids : call'[j].stage = "settle" <=> call[j].stage = "settle"
  BY GoesOn
<1>2. \A j \in Ids : call[j].stage = "settle" => call'[j] = call[j]
  BY GoesOn
<1>. QED
  BY <1>1, <1>2 DEF Pending

\* Files are changed on the disk.
LEMMA ChangedIs ==
  ASSUME CallsOK, NEW i \in Ids, call[i].stage = "run",
         NEW told \in SUBSET CodeFiles, NEW files \in SUBSET CodeFiles,
         Changed(i, told, files), call[i].kind = "edit" => ~Locked
  PROVE  /\ CallsOK'
         /\ \A j \in Ids : call'[j].stage = IF j = i THEN "settle" ELSE call[j].stage
         /\ Pending' = Pending \cup told
<1>1. /\ call' \in [Ids -> CallType]
      /\ call'[i].stage = "settle" /\ call'[i].files = told /\ call'[i].kind = call[i].kind
      /\ \A j \in Ids : j # i => /\ call'[j].stage = call[j].stage
                                 /\ call'[j].files = call[j].files
                                 /\ call'[j].kind = call[j].kind
  <2>1. \A j \in Ids : call[j] \in CallType
    BY DEF CallsOK
  <2>2. ASSUME NEW j \in Ids
        PROVE  call'[j] = IF j = i THEN Settling(call[j], told)
                          ELSE IF call[j].stage = "read" /\ call[j].files \cap files # {}
                          THEN [call[j] EXCEPT !.behind = TRUE] ELSE call[j]
    BY DEF Changed
  <2>3. call' = [j \in Ids |-> call'[j]]
    BY DEF Changed
  <2>4. ASSUME NEW j \in Ids
        PROVE  /\ call'[j] \in CallType
               /\ call'[j].kind = call[j].kind
               /\ j = i => call'[j].stage = "settle" /\ call'[j].files = told
               /\ j # i => call'[j].stage = call[j].stage /\ call'[j].files = call[j].files
    <3>1. CASE j = i
      <4>1. call'[j] = Settling(call[j], told) /\ call[j] \in CallType
        BY <2>1, <2>2, <3>1
      <4>. QED
        BY <3>1, <4>1 DEF CallType, Settling
    <3>2. CASE j # i
      <4>1. call'[j] \in {call[j], [call[j] EXCEPT !.behind = TRUE]}
        BY <2>2, <3>2
      <4>2. CASE call'[j] = call[j]
        BY <2>1, <3>2, <4>2
      <4>3. CASE call'[j] = [call[j] EXCEPT !.behind = TRUE]
        BY <2>1, <3>2, <4>3 DEF CallType
      <4>. QED
        BY <4>1, <4>2, <4>3
    <3>. QED
      BY <3>1, <3>2
  <2>. QED
    BY <2>3, <2>4
<1>2. ASSUME NEW j \in Ids, NEW k \in Ids, Settles(call'[j]), Settles(call'[k]) PROVE j = k
  <2>1. CASE Settles(call'[i])
    <3>1. \A l \in Ids : ~ Settles(call[l])
      BY <1>1, <2>1 DEF Settles, Locked
    <3>. QED
      BY <1>1, <1>2, <3>1 DEF Settles
  <2>2. CASE ~ Settles(call'[i])
    <3>1. Settles(call[j]) /\ Settles(call[k])
      BY <1>1, <1>2, <2>2 DEF Settles
    <3>. QED
      BY <3>1 DEF CallsOK
  <2>. QED
    BY <2>1, <2>2
<1>3. Pending' = Pending \cup told
  <2>1. ASSUME NEW f \in CodeFiles PROVE f \in Pending' <=> f \in Pending \cup told
    BY <1>1 DEF Pending
  <2>. QED
    BY <2>1 DEF Pending
<1>. QED
  BY <1>1, <1>2, <1>3 DEF CallsOK

\* One file of a call is recorded.
LEMMA RecordedIs ==
  ASSUME CallsOK, NEW i \in Ids, call[i].stage = "settle", NEW f \in call[i].files,
         call' = [call EXCEPT ![i] =
                   IF @.files = {f} THEN [@ EXCEPT !.stage = "screen"]
                   ELSE Settling(@, @.files \ {f})]
  PROVE  /\ CallsOK' /\ f \in CodeFiles
         /\ \A j \in Ids : call'[j].stage # "none" => call[j].stage # "none"
         /\ Pending \subseteq Pending' \cup {f}
<1>1. /\ call[i] \in CallType /\ f \in CodeFiles
      /\ call'[i].kind = call[i].kind
      /\ IF call[i].files = {f}
         THEN call'[i].stage = "screen"
         ELSE call'[i].files = call[i].files \ {f} /\ call'[i].stage = "settle"
      /\ call' \in [Ids -> CallType]
      /\ \A j \in Ids : j # i => call'[j] = call[j]
  <2>1. call[i] \in CallType /\ f \in CodeFiles /\ call \in [Ids -> CallType]
    BY DEF CallsOK, CallType
  <2>2. CASE call[i].files = {f}
    <3>1. call'[i] = [call[i] EXCEPT !.stage = "screen"] /\ \A j \in Ids : j # i => call'[j] = call[j]
      BY <2>1, <2>2
    <3>2. call'[i].kind = call[i].kind /\ call'[i].stage = "screen" /\ call'[i] \in CallType
      BY <2>1, <3>1 DEF CallType
    <3>. QED
      BY <2>1, <2>2, <3>1, <3>2
  <2>3. CASE call[i].files # {f}
    <3>1. call'[i] = Settling(call[i], call[i].files \ {f})
          /\ \A j \in Ids : j # i => call'[j] = call[j]
      BY <2>1, <2>3
    <3>2. /\ call'[i].kind = call[i].kind /\ call'[i].stage = "settle" /\ call'[i] \in CallType
          /\ call'[i].files = call[i].files \ {f}
      BY <2>1, <3>1 DEF CallType, Settling
    <3>. QED
      BY <2>1, <2>3, <3>1, <3>2
  <2>. QED
    BY <2>2, <2>3
<1>2. \A j, k \in Ids : Settles(call'[j]) /\ Settles(call'[k]) => j = k
  <2>1. \A j \in Ids : Settles(call'[j]) => Settles(call[j])
    BY <1>1 DEF Settles
  <2>. QED
    BY <2>1 DEF CallsOK
<1>3. ASSUME NEW g \in Pending, g # f PROVE g \in Pending'
  <2>1. PICK j \in Ids : call[j].stage = "settle" /\ g \in call[j].files
    BY DEF Pending
  <2>2. call'[j].stage = "settle" /\ g \in call'[j].files
    BY <1>1, <1>3, <2>1
  <2>. QED
    BY <2>2, <1>3 DEF Pending
<1>. QED
  BY <1>1, <1>2, <1>3 DEF CallsOK

\* Every step keeps the types, and the write lock.
LEMMA TypeStep == TypeOK /\ [Next]_vars => TypeOK'
<1> SUFFICES ASSUME TypeOK, [Next]_vars PROVE TypeOK'
  OBVIOUS
<1> USE SubagentAssumption DEF work, Quiet
<1>0. CallsOK
  BY CallsAreTyped
<1>1. CASE Reply
  <2>0. PICK n \in Ids : \E asked \in [1..n -> NewCalls] :
          call' = [i \in Ids |-> IF i <= n THEN asked[i] ELSE NoCall]
    BY <1>1 DEF Reply
  <2>1. PICK asked \in [1..n -> NewCalls] :
          call' = [i \in Ids |-> IF i <= n THEN asked[i] ELSE NoCall]
    BY <2>0
  <2>2. \A c \in NewCalls : c \in CallType /\ c.stage = "verify"
    BY NewCallsAre
  <2>3. \A i \in Ids : i <= n => asked[i] \in NewCalls
    BY DEF Ids
  <2>4. call' \in [Ids -> CallType] /\ \A i \in Ids : call'[i].stage # "settle"
    BY <2>1, <2>2, <2>3, NoCallIs
  <2>5. CallsOK'
    BY <2>4 DEF CallsOK, Settles
  <2>6. round' \in 0 .. Rounds
    BY <1>1 DEF Reply, TypeOK
  <2>. QED
    BY <1>1, <2>5, <2>6 DEF Reply, TypeOK, CallsOK, CallType, Settles
<1>2. ASSUME CallsOK', called' \subseteq Kinds, written' \subseteq CodeFiles,
             touched' \subseteq CodeFiles, {fresh', raced', untold'} \subseteq SUBSET CodeFiles,
             diag' \in [CodeFiles -> {"none", "clean", "errors", "failed"}], Quiet
      PROVE  TypeOK'
  BY <1>2 DEF TypeOK, CallsOK, CallType, Settles
<1>3. ASSUME NEW i \in Ids, Verify(i) PROVE TypeOK'
  <2>1. PICK to \in {"run", "none"} : GoOn(i, to) /\ unended' \in {unended, unended \cup {"verify"}}
    BY <1>3 DEF Verify
  <2>2. UNCHANGED <<stage, exit, report, round, nudges, work>>
    BY <1>3 DEF Verify
  <2>3. CallsOK'
    BY <1>0, <2>1, GoesOn
  <2>. QED
    BY <2>1, <2>2, <2>3 DEF TypeOK, CallsOK, CallType, Settles
<1>4. ASSUME NEW i \in Ids, call[i].stage = "run", call[i].kind \in Kinds,
             Refused(i), Quiet, UNCHANGED <<touched, diag, raced>>
      PROVE  TypeOK'
  <2>1. CallsOK'
    BY <1>0, <1>4, GoesOn DEF Refused
  <2>2. called' \subseteq Kinds
    BY <1>4 DEF Refused, TypeOK
  <2>. QED
    BY <1>2, <1>4, <2>1, <2>2 DEF Refused, TypeOK
<1>5. ASSUME NEW i \in Ids, Write(i) PROVE TypeOK'
  <2>1. call[i] \in CallType /\ call[i].files \in SUBSET CodeFiles
    BY <1>0 DEF CallsOK, CallType
  <2>2. ASSUME Changed(i, call[i].files, call[i].files), UNCHANGED <<called, untold>>
        PROVE  TypeOK'
    <3>1. CallsOK'
      BY <1>0, <1>5, <2>1, <2>2, ChangedIs DEF Write
    <3>2. written' \subseteq CodeFiles /\ fresh' \subseteq CodeFiles
      BY <2>1, <2>2 DEF Changed, TypeOK
    <3>. QED
      BY <1>2, <1>5, <2>2, <3>1, <3>2 DEF Write, TypeOK
  <2>3. CASE Refused(i)
    BY <1>4, <1>5, <2>1, <2>3 DEF Write, CallType
  <2>. QED
    BY <1>5, <2>2, <2>3 DEF Write
<1>6. ASSUME NEW i \in Ids, UndoLast(i) PROVE TypeOK'
  <2>1. call[i] \in CallType /\ call[i].files \in SUBSET CodeFiles
    BY <1>0 DEF CallsOK, CallType
  <2>2. ASSUME NEW last \in call[i].files, Changed(i, {last}, call[i].files),
               untold' = untold \cup (call[i].files \ {last}), UNCHANGED called
        PROVE  TypeOK'
    <3>1. CallsOK'
      BY <1>0, <1>6, <2>1, <2>2, ChangedIs DEF UndoLast
    <3>2. written' \subseteq CodeFiles /\ fresh' \subseteq CodeFiles /\ untold' \subseteq CodeFiles
      BY <2>1, <2>2 DEF Changed, TypeOK
    <3>. QED
      BY <1>2, <1>6, <2>2, <3>1, <3>2 DEF UndoLast, TypeOK
  <2>3. CASE Refused(i)
    BY <1>4, <1>6, <2>1, <2>3 DEF UndoLast, CallType
  <2>. QED
    BY <1>6, <2>2, <2>3 DEF UndoLast
<1>7. ASSUME NEW i \in Ids, Recorded(i) PROVE TypeOK'
  <2>1. PICK f \in call[i].files :
          /\ call' = [call EXCEPT ![i] =
                       IF @.files = {f} THEN [@ EXCEPT !.stage = "screen"]
                       ELSE Settling(@, @.files \ {f})]
          /\ touched' = touched \cup {f} /\ diag' = [diag EXCEPT ![f] = "none"]
          /\ raced' = raced \ {f} /\ untold' = untold \ {f}
          /\ called' = IF call[i].files = {f} THEN called \cup {call[i].kind} ELSE called
    BY <1>7 DEF Recorded
  <2>2. call[i].stage = "settle" /\ Quiet /\ UNCHANGED <<written, fresh>>
    BY <1>7 DEF Recorded
  <2>3. CallsOK' /\ f \in CodeFiles
    BY <1>0, <2>1, <2>2, RecordedIs
  <2>4. call[i].kind \in Kinds
    BY <1>0 DEF CallsOK, CallType
  <2>. QED
    BY <1>2, <2>1, <2>2, <2>3, <2>4 DEF TypeOK
<1>8. ASSUME NEW i \in Ids, Diagnosed(i) PROVE TypeOK'
  <2>1. CallsOK'
    BY <1>0, <1>8, GoesOn DEF Diagnosed
  <2>2. PICK f \in call[i].files :
          /\ \E verdict \in {"clean", "errors", "failed"} : diag' = [diag EXCEPT ![f] = verdict]
          /\ IF call[i].behind
             THEN raced' = raced \cup {f} /\ UNCHANGED fresh
             ELSE raced' = raced \ {f} /\ fresh' = fresh \cup {f}
    BY <1>8 DEF Diagnosed
  <2>3. f \in CodeFiles
    BY <1>0 DEF CallsOK, CallType
  <2>4. raced' \subseteq CodeFiles /\ fresh' \subseteq CodeFiles
    BY <2>2, <2>3 DEF TypeOK
  <2>5. diag' \in [CodeFiles -> {"none", "clean", "errors", "failed"}]
    BY <2>2, <2>3 DEF TypeOK
  <2>. QED
    BY <1>2, <1>8, <2>1, <2>4, <2>5 DEF Diagnosed, TypeOK, Kinds
<1>9. ASSUME NEW i \in Ids, Diagnose(i) \/ Ran(i) \/ Finished(i) PROVE TypeOK'
  <2>1. CallsOK'
    BY <1>0, <1>9, GoesOn DEF Diagnose, Ran, Finished
  <2>. QED
    BY <1>2, <1>9, <2>1 DEF Diagnose, Ran, Finished, TypeOK, Kinds
<1>10. CASE RoundOver
  BY <1>10 DEF RoundOver, TypeOK, NoCall, Kinds
<1>11. CASE ReplyText
  BY <1>11 DEF ReplyText, TypeOK
<1>12. CASE Finish
  BY <1>12 DEF Finish, Compressed, TypeOK
<1>13. CASE Fail
  BY <1>13 DEF Fail, TypeOK
<1>14. CASE Abort
  BY <1>14 DEF Abort, AbortedWhileVerifying, TypeOK, NoCall, Kinds
<1>15. CASE UNCHANGED vars
  BY <1>15 DEF vars, TypeOK
<1>. QED
  BY <1>1, <1>3, <1>5, <1>6, <1>7, <1>8, <1>9, <1>10, <1>11, <1>12, <1>13, <1>14, <1>15
     DEF Next, CallStep

\* Every step keeps the calls in their rounds, and the report for the end.
LEMMA RoundsStep ==
  TypeOK /\ CallsInRounds /\ ReportIsLast /\ [Next]_vars => CallsInRounds' /\ ReportIsLast'
<1> SUFFICES ASSUME TypeOK, CallsInRounds, ReportIsLast, [Next]_vars
             PROVE  CallsInRounds' /\ ReportIsLast'
  OBVIOUS
<1>0. CallsOK
  BY CallsAreTyped
<1>1. CASE Reply
  BY <1>1 DEF Reply, CallsInRounds, ReportIsLast
<1>2. ASSUME NEW i \in Ids, call[i].stage # "none", UNCHANGED <<stage, exit, report>>
      PROVE  CallsInRounds' /\ ReportIsLast'
  BY <1>2 DEF CallsInRounds, ReportIsLast
<1>3. ASSUME NEW i \in Ids, CallStep(i) PROVE CallsInRounds' /\ ReportIsLast'
  <2>1. call[i].stage # "none" /\ UNCHANGED <<stage, exit, report>>
    BY <1>3 DEF CallStep, Verify, Write, UndoLast, Recorded, Diagnose, Diagnosed, Ran, Finished,
                Quiet
  <2>. QED
    BY <1>2, <2>1
<1>4. CASE RoundOver
  BY <1>4 DEF RoundOver, NoCall, CallsInRounds, ReportIsLast
<1>5. CASE ReplyText \/ Finish \/ Fail
  BY <1>5 DEF ReplyText, Finish, Fail, CallsInRounds, ReportIsLast
<1>6. CASE Abort
  BY <1>6 DEF Abort, NoCall, CallsInRounds, ReportIsLast
<1>7. CASE UNCHANGED vars
  BY <1>7 DEF vars, CallsInRounds, ReportIsLast
<1>. QED
  BY <1>1, <1>3, <1>4, <1>5, <1>6, <1>7 DEF Next

\* Every step keeps the books of the edits.
LEMMA BooksStep ==
  TypeOK /\ CallsInRounds /\ Books /\ ReportIsLast /\ [Next]_vars => Books'
<1> SUFFICES ASSUME TypeOK, CallsInRounds, Books, ReportIsLast, [Next]_vars PROVE Books'
  OBVIOUS
<1> USE DEF work, Quiet
<1>0. CallsOK
  BY CallsAreTyped
<1>1. ASSUME UNCHANGED work, Pending' = Pending, exit' # "aborted" => exit # "aborted"
      PROVE  Books'
  BY <1>1 DEF Books, UnrecordedIsPending, CleanIsFresh
<1>2. ASSUME \A i \in Ids : call[i].stage = "none", \A i \in Ids : call'[i].stage # "settle"
      PROVE  Pending' = Pending
  BY <1>2 DEF Pending
<1>3. CASE Reply
  <2>1. \A i \in Ids : call[i].stage = "none"
    BY <1>3 DEF Reply, CallsInRounds
  <2>2. \A i \in Ids : call'[i].stage # "settle"
    <3>0. PICK n \in Ids : \E asked \in [1..n -> NewCalls] :
            call' = [i \in Ids |-> IF i <= n THEN asked[i] ELSE NoCall]
      BY <1>3 DEF Reply
    <3>1. PICK asked \in [1..n -> NewCalls] :
            call' = [i \in Ids |-> IF i <= n THEN asked[i] ELSE NoCall]
      BY <3>0
    <3>2. \A c \in NewCalls : c.stage = "verify"
      BY NewCallsAre
    <3>3. \A i \in Ids : i <= n => asked[i] \in NewCalls
      BY DEF Ids
    <3>. QED
      BY <3>1, <3>2, <3>3, NoCallIs
  <2>. QED
    BY <1>1, <1>2, <1>3, <2>1, <2>2 DEF Reply
<1>4. ASSUME NEW i \in Ids, NEW to \in {"none", "run", "read", "screen"}, GoOn(i, to),
             call[i].stage # "settle",
             UNCHANGED <<exit, touched, diag, written, fresh, raced, untold>>
      PROVE  Books'
  <2>1. Pending' = Pending
    BY <1>0, <1>4, PendingStays
  <2>. QED
    BY <1>4, <2>1 DEF Books, UnrecordedIsPending, CleanIsFresh
<1>5. ASSUME NEW i \in Ids, Verify(i) PROVE Books'
  <2>1. PICK to \in {"run", "none"} : GoOn(i, to)
    BY <1>5 DEF Verify
  <2>. QED
    BY <1>4, <1>5, <2>1 DEF Verify
<1>6. ASSUME NEW i \in Ids, Write(i) PROVE Books'
  <2>1. call[i].files \in SUBSET CodeFiles
    BY <1>0 DEF CallsOK, CallType
  <2>2. ASSUME Changed(i, call[i].files, call[i].files), UNCHANGED <<called, untold>>
        PROVE  Books'
    <3>1. Pending' = Pending \cup call[i].files
      BY <1>0, <1>6, <2>1, <2>2, ChangedIs DEF Write
    <3>2. UNCHANGED <<exit, touched, diag, raced>>
      BY <1>6 DEF Write
    <3>3. written' = written \cup call[i].files /\ fresh' = fresh \ call[i].files
      BY <2>2 DEF Changed
    <3>. QED
      BY <2>2, <3>1, <3>2, <3>3 DEF Books, UnrecordedIsPending, CleanIsFresh
  <2>3. CASE Refused(i)
    BY <1>4, <1>6, <2>3 DEF Write, Refused
  <2>. QED
    BY <1>6, <2>2, <2>3 DEF Write
<1>7. ASSUME NEW i \in Ids, UndoLast(i) PROVE Books'
  <2>1. call[i].files \in SUBSET CodeFiles
    BY <1>0 DEF CallsOK, CallType
  <2>2. ASSUME NEW last \in call[i].files, Changed(i, {last}, call[i].files),
               untold' = untold \cup (call[i].files \ {last}), UNCHANGED called
        PROVE  Books'
    <3>1. Pending' = Pending \cup {last}
      BY <1>0, <1>7, <2>1, <2>2, ChangedIs DEF UndoLast
    <3>2. UNCHANGED <<exit, touched, diag, raced>>
      BY <1>7 DEF UndoLast
    <3>3. written' = written \cup call[i].files /\ fresh' = fresh \ call[i].files
      BY <2>2 DEF Changed
    <3>. QED
      BY <2>2, <3>1, <3>2, <3>3 DEF Books, UnrecordedIsPending, CleanIsFresh
  <2>3. CASE Refused(i)
    BY <1>4, <1>7, <2>3 DEF UndoLast, Refused
  <2>. QED
    BY <1>7, <2>2, <2>3 DEF UndoLast
<1>8. ASSUME NEW i \in Ids, Recorded(i) PROVE Books'
  <2>1. PICK f \in call[i].files :
          /\ call' = [call EXCEPT ![i] =
                       IF @.files = {f} THEN [@ EXCEPT !.stage = "screen"]
                       ELSE Settling(@, @.files \ {f})]
          /\ touched' = touched \cup {f} /\ diag' = [diag EXCEPT ![f] = "none"]
          /\ raced' = raced \ {f} /\ untold' = untold \ {f}
    BY <1>8 DEF Recorded
  <2>2. call[i].stage = "settle" /\ UNCHANGED <<exit, written, fresh>>
    BY <1>8 DEF Recorded
  <2>3. f \in CodeFiles /\ Pending \subseteq Pending' \cup {f}
    BY <1>0, <2>1, <2>2, RecordedIs
  <2>4. UnrecordedIsPending'
    BY <2>1, <2>2, <2>3 DEF Books, UnrecordedIsPending
  <2>5. CleanIsFresh'
    <3>1. \A g \in CodeFiles : diag'[g] = IF g = f THEN "none" ELSE diag[g]
      BY <2>1 DEF TypeOK
    <3>. QED
      BY <2>1, <2>2, <2>3, <3>1 DEF Books, CleanIsFresh
  <2>. QED
    BY <2>4, <2>5 DEF Books
<1>9. ASSUME NEW i \in Ids, Diagnosed(i) PROVE Books'
  <2>1. Pending' = Pending
    BY <1>0, <1>9, PendingStays DEF Diagnosed
  <2>2. PICK f \in call[i].files :
          /\ \E verdict \in {"clean", "errors", "failed"} : diag' = [diag EXCEPT ![f] = verdict]
          /\ IF call[i].behind
             THEN raced' = raced \cup {f} /\ UNCHANGED fresh
             ELSE raced' = raced \ {f} /\ fresh' = fresh \cup {f}
    BY <1>9 DEF Diagnosed
  <2>3. UNCHANGED <<exit, touched, written, untold>>
    BY <1>9 DEF Diagnosed
  <2>4. \A g \in CodeFiles : g # f => diag'[g] = diag[g]
    BY <2>2 DEF TypeOK
  <2>. QED
    BY <2>1, <2>2, <2>3, <2>4 DEF Books, UnrecordedIsPending, CleanIsFresh
<1>10. ASSUME NEW i \in Ids, Diagnose(i) \/ Ran(i) \/ Finished(i) PROVE Books'
  BY <1>4, <1>10 DEF Diagnose, Ran, Finished
<1>11. CASE RoundOver
  <2>1. \A i \in Ids : call[i].stage = "none" /\ call'[i].stage = "none"
    BY <1>11, NoCallIs DEF RoundOver
  <2>2. UNCHANGED work /\ (exit' # "aborted" => exit # "aborted")
    BY <1>11 DEF RoundOver, ReportIsLast
  <2>. QED
    BY <1>1, <1>2, <2>1, <2>2
<1>12. CASE ReplyText \/ Finish \/ Fail
  <2>1. UNCHANGED <<work, call>> /\ (exit' # "aborted" => exit # "aborted")
    BY <1>12 DEF ReplyText, Finish, Fail, ReportIsLast
  <2>2. Pending' = Pending
    BY <2>1 DEF Pending
  <2>. QED
    BY <1>1, <2>1, <2>2
<1>13. CASE Abort
  BY <1>13 DEF Abort, Books, UnrecordedIsPending, CleanIsFresh
<1>14. CASE UNCHANGED vars
  <2>1. UNCHANGED <<work, call, exit>>
    BY <1>14 DEF vars
  <2>2. Pending' = Pending
    BY <2>1 DEF Pending
  <2>. QED
    BY <1>1, <2>1, <2>2
<1>. QED
  BY <1>3, <1>5, <1>6, <1>7, <1>8, <1>9, <1>10, <1>11, <1>12, <1>13, <1>14 DEF Next, CallStep

\* Every step leaves a report true, and the finish gate lets none through that
\* is not.
LEMMA ReportStep ==
  TypeOK /\ CallsInRounds /\ Books /\ ReportIsLast /\ ReportTrue /\ [Next]_vars => ReportTrue'
<1> SUFFICES ASSUME TypeOK, CallsInRounds, Books, ReportIsLast, ReportTrue, [Next]_vars
             PROVE  OkMeansChecked' /\ CardsClose'
  BY DEF ReportTrue
<1> USE DEF work, Quiet
<1>1. CASE Finish
  <2>1. stage = "closing" /\ report' \in Compressed \cup {"aborted"}
        /\ UNCHANGED <<exit, call, work, unended>>
    BY <1>1 DEF Finish
  <2>2. ASSUME report' = "ok"
        PROVE  exit = "ok" /\ Required \subseteq CalledForFinish
    BY <2>1, <2>2 DEF Compressed
  <2>3. Pending = {}
    BY <2>1 DEF CallsInRounds, Pending
  <2>4. ASSUME report' = "ok" PROVE written \subseteq touched \cup untold
    BY <2>2, <2>3, <2>4 DEF Books, UnrecordedIsPending
  <2>5. ASSUME report' = "ok", "diagnose" \in Required
        PROVE  \A f \in touched : diag[f] = "clean" /\ f \in fresh \cup raced \cup untold
    <3>1. Gaps = {}
      BY <2>2, <2>5 DEF CalledForFinish
    <3>2. \A f \in touched : diag[f] = "clean" /\ f \in CodeFiles
      BY <3>1 DEF Gaps, TypeOK
    <3>. QED
      BY <2>2, <2>3, <2>5, <3>2 DEF Books, CleanIsFresh
  <2>6. OkMeansChecked'
    BY <2>1, <2>2, <2>4, <2>5 DEF OkMeansChecked, CalledForFinish
  <2>. QED
    BY <2>1, <2>6 DEF ReportTrue, CardsClose
<1>2. ASSUME stage # "done", UNCHANGED report PROVE OkMeansChecked'
  BY <1>2 DEF ReportIsLast, OkMeansChecked
<1>3. CASE Reply \/ RoundOver \/ ReplyText \/ Fail
  BY <1>2, <1>3 DEF Reply, RoundOver, ReplyText, Fail, ReportTrue, CardsClose
<1>4. CASE Abort
  BY <1>2, <1>4 DEF Abort, AbortedWhileVerifying, ReportTrue, CardsClose
<1>5. ASSUME NEW i \in Ids, CallStep(i) PROVE OkMeansChecked' /\ CardsClose'
  <2>1. call[i].stage # "none" /\ report' = report
        /\ unended' \in {unended, unended \cup {"verify"}}
    BY <1>5 DEF CallStep, Verify, Write, UndoLast, Recorded, Diagnose, Diagnosed, Ran, Finished
  <2>2. stage # "done"
    BY <2>1 DEF CallsInRounds
  <2>. QED
    BY <1>2, <2>1, <2>2 DEF ReportTrue, CardsClose
<1>6. CASE UNCHANGED vars
  BY <1>6 DEF vars, ReportTrue, OkMeansChecked, CardsClose
<1>. QED
  BY <1>1, <1>3, <1>4, <1>5, <1>6 DEF Next

-----------------------------------------------------------------------------
\* The rounds of a child keep their types and their books.
THEOREM Invariance == Spec => []IInv
<1>1. IInv /\ [Next]_vars => IInv'
  BY TypeStep, RoundsStep, BooksStep, ReportStep DEF IInv
<1>. QED
  BY Initially, <1>1, PTL DEF Spec

\* The write lock lets one edit that takes it be between the disk and the books,
\* whatever calls a reply makes and whatever is undone beside it; and every
\* variable keeps its range.
THEOREM TypeCorrect == Spec => []TypeOK
<1>1. IInv => TypeOK
  BY DEF IInv
<1>. QED
  BY Invariance, <1>1, PTL

\* For every profile, set of required tools, number of parallel calls and of
\* rounds: a child that reports ok has called its tools and recorded what it has
\* changed, all files of an undone batch but the last excepted; and it has a clean
\* diagnosis of every recorded file, of its text after the last change, unless an
\* edit overtook the diagnosis before it was booked or an undo kept silent.
THEOREM ReportIsTrue == Spec => []ReportTrue
<1>1. IInv => ReportTrue
  BY DEF IInv
<1>. QED
  BY Invariance, <1>1, PTL

-----------------------------------------------------------------------------
(* The processes: who holds the lock of the managed server, and that no    *)
(* process escapes the session that started it.                            *)

\* Where a call can stand, by what it asked for: only a call about the server
\* takes the lock, and only a command reads pipes.
CloserStands == {"open", "lock", "sweep", "wait", "done"} \cup Stopping
Places ==
  /\ op \in [Tasks -> {"start", "stop", "command"}]
  /\ at[Closer] \in CloserStands
  /\ \A t \in Tasks : at[t] \in {"approve", "spawn"} => op[t] # "stop"
  /\ \A t \in Commands :
       at[t] \in {"approve", "spawn", "run", "exit", "term", "reap", "done"}
  /\ \A t \in Tasks \ Commands : at[t] \notin {"run", "exit"}

\* A caller that is stopping a server holds the one it took out of the books;
\* a command holds none, it kills its own group.
VictimsHeld ==
  /\ \A t \in Callers : victim[t] # None => at[t] \in Stopping
  /\ \A t \in Callers \ Commands : at[t] \in Stopping => victim[t] # None
  /\ \A t \in Commands : victim[t] = None

\* A process is there from its spawn on, and its call is past the spawn.
StartedThen ==
  /\ \A t \in Tasks :
       /\ at[t] \in {"approve", "lock", "spawn"} => lead[t] = "none"
       /\ at[t] \in {"ready", "relock", "run", "exit"} => lead[t] # "none"
  /\ \A t \in Commands : at[t] \in {"term", "reap"} => lead[t] # "none"
  /\ server # None => lead[server] # "none"
  /\ \A t \in Callers : victim[t] # None => lead[victim[t]] # "none"

\* While a caller holds the lock the books show no server: the old one is taken
\* out before the first await, the new one is entered when the lock is released.
BooksEmptied == \A t \in Callers : Holds(t) => server = None

\* A server that still runs is in the books or in the hands of the caller that
\* stops it, unless an abort interrupted that caller.
ServersKnown ==
  \A p \in Alive \ (Commands \cup cut) : p = server \/ \E t \in Callers : victim[t] = p

\* A caller that waits for the port has seen the leader dead.
PortAfterDeath == \A t \in Callers : at[t] = "port" => victim[t] \notin Alive

\* A command's group is killed only after SIGTERM.
KillAfterTerm == \A t \in Commands \cap Alive : at[t] \in {"term", "reap"} => t \in termed

\* A command that timed out is being killed, or has been.
TimedOutDies ==
  \A t \in timedOut : at[t] \in {"term", "reap"} \/ (at[t] = "done" /\ t \notin Alive)

\* Once the session is closing, no call starts a process any more: it has an
\* abort to come, or had one and is killing its command.
NoneStarts ==
  at[Closer] # "open" =>
    \A t \in Tasks \ (abort \cup Ended) : t \in Commands /\ at[t] \in {"term", "reap"}

\* From the sweep on, everything that runs has been told to terminate.
SweptIsSignalled == at[Closer] \in {"wait", "done"} => Alive \subseteq termed

BooksInv == Places /\ VictimsHeld /\ StartedThen /\ BooksEmptied

KillInv ==
  /\ PortAfterDeath
  /\ KillAfterTerm
  /\ TimedOutDies
  /\ NothingForgotten

CloseInv == NoneStarts /\ SweptIsSignalled

ProcessesInv == ProcessesTypeOK /\ BooksInv /\ ServersKnown /\ KillInv /\ CloseInv

-----------------------------------------------------------------------------
\* The values a variable takes, and the lock: `async with` gives it up at every
\* way out of its section, an abort included.
LEMMA ProcessTypeStep ==
  ProcessesTypeOK /\ BooksInv /\ [ProcessesNext]_processVars => ProcessesTypeOK'
<1> SUFFICES ASSUME ProcessesTypeOK, BooksInv, [ProcessesNext]_processVars PROVE ProcessesTypeOK'
  OBVIOUS
<1> USE NamesDiffer DEF ProcessesTypeOK, LockExact, Critical, Holds, BooksInv, Places, VictimsHeld,
    CloserStands, Callers, Stopping, Alive, Commands, Ended
<1>1. ASSUME NEW t \in Callers, Acquire(t) PROVE ProcessesTypeOK'
  BY <1>1 DEF Acquire, TakeOut, AfterStop, Goto
<1>2. ASSUME NEW t \in Callers, Drained(t) PROVE ProcessesTypeOK'
  BY <1>2 DEF Drained, Term, Goto
<1>3. ASSUME NEW t \in Callers, TermTimeout(t) PROVE ProcessesTypeOK'
  BY <1>3 DEF TermTimeout, Prey, Goto
<1>4. ASSUME NEW t \in Callers, GroupGone(t) PROVE ProcessesTypeOK'
  BY <1>4 DEF GroupGone, Prey, Goto
<1>5. ASSUME NEW t \in Callers, PortClosed(t) PROVE ProcessesTypeOK'
  BY <1>5 DEF PortClosed, AfterStop, Goto
<1>6. ASSUME NEW t \in Tasks, Approve(t) PROVE ProcessesTypeOK'
  BY <1>6 DEF Approve, Goto
<1>7. ASSUME NEW t \in Tasks, Spawn(t) PROVE ProcessesTypeOK'
  BY <1>7 DEF Spawn, Goto
<1>8. ASSUME NEW t \in Tasks, Ready(t) PROVE ProcessesTypeOK'
  BY <1>8 DEF Ready, Goto
<1>9. ASSUME NEW t \in Tasks, Relock(t) PROVE ProcessesTypeOK'
  BY <1>9 DEF Relock, TakeOut, Goto
<1>10. ASSUME NEW t \in Tasks, StreamsEnd(t) PROVE ProcessesTypeOK'
  BY <1>10 DEF StreamsEnd, Goto
<1>11. ASSUME NEW t \in Tasks, Exited(t) PROVE ProcessesTypeOK'
  BY <1>11 DEF Exited, Goto
<1>12. ASSUME NEW t \in Tasks, OutOfTime(t) PROVE ProcessesTypeOK'
  BY <1>12 DEF OutOfTime, Term, Goto
<1>13. ASSUME NEW t \in Tasks, AbortRunning(t) PROVE ProcessesTypeOK'
  BY <1>13 DEF AbortRunning, Term, Goto
<1>14. ASSUME NEW t \in Tasks, AbortElsewhere(t) PROVE ProcessesTypeOK'
  BY <1>14 DEF AbortElsewhere, Goto
<1>15. ASSUME NEW t \in Tasks, AbortCall(t) PROVE ProcessesTypeOK'
  BY <1>15 DEF AbortCall
<1>16. ASSUME NEW t \in Tasks, Fork(t) PROVE ProcessesTypeOK'
  BY <1>16 DEF Fork
<1>17. ASSUME NEW t \in Tasks, KinExit(t) PROVE ProcessesTypeOK'
  BY <1>17 DEF KinExit
<1>18. ASSUME NEW t \in Tasks, LeaderMoves(t) PROVE ProcessesTypeOK'
  BY <1>18 DEF LeaderMoves
<1>19. CASE Aclose
  BY <1>19 DEF Aclose, Goto
<1>20. CASE Sweep
  BY <1>20 DEF Sweep, Term, Goto
<1>21. CASE ChildrenEnded
  BY <1>21 DEF ChildrenEnded, Goto
<1>22. CASE CloseSession
  BY <1>22 DEF CloseSession, Term, Goto
<1>23. CASE UNCHANGED processVars
  BY <1>23 DEF processVars
<1>. QED
  BY <1>1, <1>2, <1>3, <1>4, <1>5, <1>6, <1>7, <1>8, <1>9, <1>10, <1>11,
      <1>12, <1>13, <1>14, <1>15, <1>16, <1>17, <1>18, <1>19, <1>20, <1>21,
      <1>22, <1>23 DEF ProcessesNext, Task, Caller, Closing, Process

\* Every step keeps a call where its kind can stand, and the books of servers.
LEMMA ServerBooksStep ==
  ProcessesTypeOK /\ BooksInv /\ [ProcessesNext]_processVars => BooksInv'
<1> SUFFICES ASSUME ProcessesTypeOK, BooksInv, [ProcessesNext]_processVars PROVE BooksInv'
  OBVIOUS
<1> USE NamesDiffer DEF ProcessesTypeOK, LockExact, Critical, Holds, BooksInv, Places, VictimsHeld,
    StartedThen, BooksEmptied, CloserStands, Callers, Stopping, Alive,
    Commands, Ended
<1>1. ASSUME NEW t \in Callers, Acquire(t) PROVE BooksInv'
  BY <1>1 DEF Acquire, TakeOut, AfterStop, Goto
<1>2. ASSUME NEW t \in Callers, Drained(t) PROVE BooksInv'
  BY <1>2 DEF Drained, Term, Goto
<1>3. ASSUME NEW t \in Callers, TermTimeout(t) PROVE BooksInv'
  BY <1>3 DEF TermTimeout, Prey, Goto
<1>4. ASSUME NEW t \in Callers, GroupGone(t) PROVE BooksInv'
  BY <1>4 DEF GroupGone, Prey, Goto
<1>5. ASSUME NEW t \in Callers, PortClosed(t) PROVE BooksInv'
  BY <1>5 DEF PortClosed, AfterStop, Goto
<1>6. ASSUME NEW t \in Tasks, Approve(t) PROVE BooksInv'
  BY <1>6 DEF Approve, Goto
<1>7. ASSUME NEW t \in Tasks, Spawn(t) PROVE BooksInv'
  BY <1>7 DEF Spawn, Goto
<1>8. ASSUME NEW t \in Tasks, Ready(t) PROVE BooksInv'
  BY <1>8 DEF Ready, Goto
<1>9. ASSUME NEW t \in Tasks, Relock(t) PROVE BooksInv'
  BY <1>9 DEF Relock, TakeOut, Goto
<1>10. ASSUME NEW t \in Tasks, StreamsEnd(t) PROVE BooksInv'
  BY <1>10 DEF StreamsEnd, Goto
<1>11. ASSUME NEW t \in Tasks, Exited(t) PROVE BooksInv'
  BY <1>11 DEF Exited, Goto
<1>12. ASSUME NEW t \in Tasks, OutOfTime(t) PROVE BooksInv'
  BY <1>12 DEF OutOfTime, Term, Goto
<1>13. ASSUME NEW t \in Tasks, AbortRunning(t) PROVE BooksInv'
  BY <1>13 DEF AbortRunning, Term, Goto
<1>14. ASSUME NEW t \in Tasks, AbortElsewhere(t) PROVE BooksInv'
  BY <1>14 DEF AbortElsewhere, Goto
<1>15. ASSUME NEW t \in Tasks, AbortCall(t) PROVE BooksInv'
  BY <1>15 DEF AbortCall
<1>16. ASSUME NEW t \in Tasks, Fork(t) PROVE BooksInv'
  BY <1>16 DEF Fork
<1>17. ASSUME NEW t \in Tasks, KinExit(t) PROVE BooksInv'
  BY <1>17 DEF KinExit
<1>18. ASSUME NEW t \in Tasks, LeaderMoves(t) PROVE BooksInv'
  BY <1>18 DEF LeaderMoves
<1>19. CASE Aclose
  BY <1>19 DEF Aclose, Goto
<1>20. CASE Sweep
  BY <1>20 DEF Sweep, Term, Goto
<1>21. CASE ChildrenEnded
  BY <1>21 DEF ChildrenEnded, Goto
<1>22. CASE CloseSession
  BY <1>22 DEF CloseSession, Term, Goto
<1>23. CASE UNCHANGED processVars
  BY <1>23 DEF processVars
<1>. QED
  BY <1>1, <1>2, <1>3, <1>4, <1>5, <1>6, <1>7, <1>8, <1>9, <1>10, <1>11,
      <1>12, <1>13, <1>14, <1>15, <1>16, <1>17, <1>18, <1>19, <1>20, <1>21,
      <1>22, <1>23 DEF ProcessesNext, Task, Caller, Closing, Process

\* No step loses sight of a server: only an abort in the middle of a stop does.
LEMMA KnownStep ==
  ProcessesTypeOK /\ BooksInv /\ PortAfterDeath /\ ServersKnown /\ [ProcessesNext]_processVars
    => ServersKnown'
<1> SUFFICES ASSUME ProcessesTypeOK, BooksInv, PortAfterDeath, ServersKnown,
                    [ProcessesNext]_processVars
             PROVE  ServersKnown'
  OBVIOUS
<1> USE NamesDiffer DEF ProcessesTypeOK, LockExact, Critical, Holds, ServersKnown, PortAfterDeath,
    BooksInv, Places, VictimsHeld, StartedThen, BooksEmptied,
    CloserStands, Callers, Stopping, Alive, Commands, Ended
<1>1. ASSUME NEW t \in Callers, Acquire(t) PROVE ServersKnown'
  BY <1>1 DEF Acquire, TakeOut, AfterStop, Goto
<1>2. ASSUME NEW t \in Callers, Drained(t) PROVE ServersKnown'
  BY <1>2 DEF Drained, Term, Goto
<1>3. ASSUME NEW t \in Callers, TermTimeout(t) PROVE ServersKnown'
  BY <1>3 DEF TermTimeout, Prey, Goto
<1>4. ASSUME NEW t \in Callers, GroupGone(t) PROVE ServersKnown'
  BY <1>4 DEF GroupGone, Prey, Goto
<1>5. ASSUME NEW t \in Callers, PortClosed(t) PROVE ServersKnown'
  BY <1>5 DEF PortClosed, AfterStop, Goto
<1>6. ASSUME NEW t \in Tasks, Approve(t) PROVE ServersKnown'
  BY <1>6 DEF Approve, Goto
<1>7. ASSUME NEW t \in Tasks, Spawn(t) PROVE ServersKnown'
  BY <1>7 DEF Spawn, Goto
<1>8. ASSUME NEW t \in Tasks, Ready(t) PROVE ServersKnown'
  BY <1>8 DEF Ready, Goto
<1>9. ASSUME NEW t \in Tasks, Relock(t) PROVE ServersKnown'
  BY <1>9 DEF Relock, TakeOut, Goto
<1>10. ASSUME NEW t \in Tasks, StreamsEnd(t) PROVE ServersKnown'
  BY <1>10 DEF StreamsEnd, Goto
<1>11. ASSUME NEW t \in Tasks, Exited(t) PROVE ServersKnown'
  BY <1>11 DEF Exited, Goto
<1>12. ASSUME NEW t \in Tasks, OutOfTime(t) PROVE ServersKnown'
  BY <1>12 DEF OutOfTime, Term, Goto
<1>13. ASSUME NEW t \in Tasks, AbortRunning(t) PROVE ServersKnown'
  BY <1>13 DEF AbortRunning, Term, Goto
<1>14. ASSUME NEW t \in Tasks, AbortElsewhere(t) PROVE ServersKnown'
  BY <1>14 DEF AbortElsewhere, Goto
<1>15. ASSUME NEW t \in Tasks, AbortCall(t) PROVE ServersKnown'
  BY <1>15 DEF AbortCall
<1>16. ASSUME NEW t \in Tasks, Fork(t) PROVE ServersKnown'
  BY <1>16 DEF Fork
<1>17. ASSUME NEW t \in Tasks, KinExit(t) PROVE ServersKnown'
  BY <1>17 DEF KinExit
<1>18. ASSUME NEW t \in Tasks, LeaderMoves(t) PROVE ServersKnown'
  BY <1>18 DEF LeaderMoves
<1>19. CASE Aclose
  BY <1>19 DEF Aclose, Goto
<1>20. CASE Sweep
  BY <1>20 DEF Sweep, Term, Goto
<1>21. CASE ChildrenEnded
  BY <1>21 DEF ChildrenEnded, Goto
<1>22. CASE CloseSession
  BY <1>22 DEF CloseSession, Term, Goto
<1>23. CASE UNCHANGED processVars
  BY <1>23 DEF processVars
<1>. QED
  BY <1>1, <1>2, <1>3, <1>4, <1>5, <1>6, <1>7, <1>8, <1>9, <1>10, <1>11,
      <1>12, <1>13, <1>14, <1>15, <1>16, <1>17, <1>18, <1>19, <1>20, <1>21,
      <1>22, <1>23 DEF ProcessesNext, Task, Caller, Closing, Process

\* A process leaves the list of the session only dead or told to terminate.
LEMMA KillStep ==
  ProcessesTypeOK /\ BooksInv /\ KillInv /\ [ProcessesNext]_processVars => KillInv'
<1> SUFFICES ASSUME ProcessesTypeOK, BooksInv, KillInv, [ProcessesNext]_processVars PROVE KillInv'
  OBVIOUS
<1> USE NamesDiffer DEF ProcessesTypeOK, LockExact, Critical, Holds, KillInv, PortAfterDeath,
    KillAfterTerm, TimedOutDies, NothingForgotten, BooksInv, Places,
    VictimsHeld, StartedThen, BooksEmptied, CloserStands, Callers,
    Stopping, Alive, Commands, Ended
<1>1. ASSUME NEW t \in Callers, Acquire(t) PROVE KillInv'
  BY <1>1 DEF Acquire, TakeOut, AfterStop, Goto
<1>2. ASSUME NEW t \in Callers, Drained(t) PROVE KillInv'
  BY <1>2 DEF Drained, Term, Goto
<1>3. ASSUME NEW t \in Callers, TermTimeout(t) PROVE KillInv'
  BY <1>3 DEF TermTimeout, Prey, Goto
<1>4. ASSUME NEW t \in Callers, GroupGone(t) PROVE KillInv'
  BY <1>4 DEF GroupGone, Prey, Goto
<1>5. ASSUME NEW t \in Callers, PortClosed(t) PROVE KillInv'
  BY <1>5 DEF PortClosed, AfterStop, Goto
<1>6. ASSUME NEW t \in Tasks, Approve(t) PROVE KillInv'
  BY <1>6 DEF Approve, Goto
<1>7. ASSUME NEW t \in Tasks, Spawn(t) PROVE KillInv'
  BY <1>7 DEF Spawn, Goto
<1>8. ASSUME NEW t \in Tasks, Ready(t) PROVE KillInv'
  BY <1>8 DEF Ready, Goto
<1>9. ASSUME NEW t \in Tasks, Relock(t) PROVE KillInv'
  BY <1>9 DEF Relock, TakeOut, Goto
<1>10. ASSUME NEW t \in Tasks, StreamsEnd(t) PROVE KillInv'
  BY <1>10 DEF StreamsEnd, Goto
<1>11. ASSUME NEW t \in Tasks, Exited(t) PROVE KillInv'
  BY <1>11 DEF Exited, Goto
<1>12. ASSUME NEW t \in Tasks, OutOfTime(t) PROVE KillInv'
  BY <1>12 DEF OutOfTime, Term, Goto
<1>13. ASSUME NEW t \in Tasks, AbortRunning(t) PROVE KillInv'
  BY <1>13 DEF AbortRunning, Term, Goto
<1>14. ASSUME NEW t \in Tasks, AbortElsewhere(t) PROVE KillInv'
  BY <1>14 DEF AbortElsewhere, Goto
<1>15. ASSUME NEW t \in Tasks, AbortCall(t) PROVE KillInv'
  BY <1>15 DEF AbortCall
<1>16. ASSUME NEW t \in Tasks, Fork(t) PROVE KillInv'
  BY <1>16 DEF Fork
<1>17. ASSUME NEW t \in Tasks, KinExit(t) PROVE KillInv'
  BY <1>17 DEF KinExit
<1>18. ASSUME NEW t \in Tasks, LeaderMoves(t) PROVE KillInv'
  BY <1>18 DEF LeaderMoves
<1>19. CASE Aclose
  BY <1>19 DEF Aclose, Goto
<1>20. CASE Sweep
  BY <1>20 DEF Sweep, Term, Goto
<1>21. CASE ChildrenEnded
  BY <1>21 DEF ChildrenEnded, Goto
<1>22. CASE CloseSession
  BY <1>22 DEF CloseSession, Term, Goto
<1>23. CASE UNCHANGED processVars
  BY <1>23 DEF processVars
<1>. QED
  BY <1>1, <1>2, <1>3, <1>4, <1>5, <1>6, <1>7, <1>8, <1>9, <1>10, <1>11,
      <1>12, <1>13, <1>14, <1>15, <1>16, <1>17, <1>18, <1>19, <1>20, <1>21,
      <1>22, <1>23 DEF ProcessesNext, Task, Caller, Closing, Process

\* Nothing is started behind the back of a session that closes.
LEMMA CloseStep ==
  ProcessesTypeOK /\ BooksInv /\ NothingForgotten /\ CloseInv /\ [ProcessesNext]_processVars
    => CloseInv'
<1> SUFFICES ASSUME ProcessesTypeOK, BooksInv, NothingForgotten, CloseInv,
                    [ProcessesNext]_processVars
             PROVE  CloseInv'
  OBVIOUS
<1> USE NamesDiffer DEF ProcessesTypeOK, LockExact, Critical, Holds, NothingForgotten, CloseInv,
    NoneStarts, SweptIsSignalled, BooksInv, Places, VictimsHeld,
    StartedThen, BooksEmptied, CloserStands, Callers, Stopping, Alive,
    Commands, Ended
<1>1. ASSUME NEW t \in Callers, Acquire(t) PROVE CloseInv'
  BY <1>1 DEF Acquire, TakeOut, AfterStop, Goto
<1>2. ASSUME NEW t \in Callers, Drained(t) PROVE CloseInv'
  BY <1>2 DEF Drained, Term, Goto
<1>3. ASSUME NEW t \in Callers, TermTimeout(t) PROVE CloseInv'
  BY <1>3 DEF TermTimeout, Prey, Goto
<1>4. ASSUME NEW t \in Callers, GroupGone(t) PROVE CloseInv'
  BY <1>4 DEF GroupGone, Prey, Goto
<1>5. ASSUME NEW t \in Callers, PortClosed(t) PROVE CloseInv'
  BY <1>5 DEF PortClosed, AfterStop, Goto
<1>6. ASSUME NEW t \in Tasks, Approve(t) PROVE CloseInv'
  BY <1>6 DEF Approve, Goto
<1>7. ASSUME NEW t \in Tasks, Spawn(t) PROVE CloseInv'
  BY <1>7 DEF Spawn, Goto
<1>8. ASSUME NEW t \in Tasks, Ready(t) PROVE CloseInv'
  BY <1>8 DEF Ready, Goto
<1>9. ASSUME NEW t \in Tasks, Relock(t) PROVE CloseInv'
  BY <1>9 DEF Relock, TakeOut, Goto
<1>10. ASSUME NEW t \in Tasks, StreamsEnd(t) PROVE CloseInv'
  BY <1>10 DEF StreamsEnd, Goto
<1>11. ASSUME NEW t \in Tasks, Exited(t) PROVE CloseInv'
  BY <1>11 DEF Exited, Goto
<1>12. ASSUME NEW t \in Tasks, OutOfTime(t) PROVE CloseInv'
  BY <1>12 DEF OutOfTime, Term, Goto
<1>13. ASSUME NEW t \in Tasks, AbortRunning(t) PROVE CloseInv'
  BY <1>13 DEF AbortRunning, Term, Goto
<1>14. ASSUME NEW t \in Tasks, AbortElsewhere(t) PROVE CloseInv'
  BY <1>14 DEF AbortElsewhere, Goto
<1>15. ASSUME NEW t \in Tasks, AbortCall(t) PROVE CloseInv'
  BY <1>15 DEF AbortCall
<1>16. ASSUME NEW t \in Tasks, Fork(t) PROVE CloseInv'
  BY <1>16 DEF Fork
<1>17. ASSUME NEW t \in Tasks, KinExit(t) PROVE CloseInv'
  BY <1>17 DEF KinExit
<1>18. ASSUME NEW t \in Tasks, LeaderMoves(t) PROVE CloseInv'
  BY <1>18 DEF LeaderMoves
<1>19. CASE Aclose
  BY <1>19 DEF Aclose, Goto
<1>20. CASE Sweep
  BY <1>20 DEF Sweep, Term, Goto
<1>21. CASE ChildrenEnded
  BY <1>21 DEF ChildrenEnded, Goto
<1>22. CASE CloseSession
  BY <1>22 DEF CloseSession, Term, Goto
<1>23. CASE UNCHANGED processVars
  BY <1>23 DEF processVars
<1>. QED
  BY <1>1, <1>2, <1>3, <1>4, <1>5, <1>6, <1>7, <1>8, <1>9, <1>10, <1>11,
      <1>12, <1>13, <1>14, <1>15, <1>16, <1>17, <1>18, <1>19, <1>20, <1>21,
      <1>22, <1>23 DEF ProcessesNext, Task, Caller, Closing, Process

-----------------------------------------------------------------------------
\* Before the first call there is no process, and nothing to keep.
LEMMA ProcessesStart == ProcessesInit => ProcessesInv
<1> SUFFICES ASSUME ProcessesInit PROVE ProcessesInv
  OBVIOUS
<1> USE NamesDiffer DEF ProcessesInit, Callers, Stopping, Alive, Commands, Ended
<1>1. ProcessesTypeOK
  BY DEF ProcessesTypeOK, LockExact, Critical, Holds
<1>2. BooksInv
  BY DEF BooksInv, Places, CloserStands, VictimsHeld, StartedThen, BooksEmptied, Holds
<1>3. ServersKnown
  BY DEF ServersKnown
<1>4. KillInv
  BY DEF KillInv, PortAfterDeath, KillAfterTerm, TimedOutDies, NothingForgotten
<1>5. CloseInv
  BY DEF CloseInv, NoneStarts, SweptIsSignalled
<1>. QED
  BY <1>1, <1>2, <1>3, <1>4, <1>5 DEF ProcessesInv

\* The inductive invariant holds in every reachable state.
THEOREM ProcessesInvariant == ProcessesSpec => []ProcessesInv
<1>1. ProcessesInv /\ [ProcessesNext]_processVars => ProcessesInv'
  BY ProcessTypeStep, ServerBooksStep, KnownStep, KillStep, CloseStep DEF ProcessesInv, KillInv
<1>. QED
  BY ProcessesStart, <1>1, PTL DEF ProcessesSpec

\* The variables keep to their values, and server.py's _lock belongs to the one
\* caller that stands in a section it guards, whatever was aborted where.
THEOREM ProcessTypes == ProcessesSpec => []ProcessesTypeOK
<1>1. ProcessesInv => ProcessesTypeOK
  BY DEF ProcessesInv
<1>. QED
  BY ProcessesInvariant, <1>1, PTL

\* server_start, server_stop, run_command, aborts and both ways to close a
\* session let no process escape: one managed server, none that the session
\* does not know, all told to terminate, and a timeout kills.
THEOREM NoneEscapes == ProcessesSpec => []ProcessesKept
<1>1. ProcessesInv => OneServer
  <2> SUFFICES ASSUME ProcessesInv, NEW p \in Alive \ (Commands \cup cut),
                      NEW q \in Alive \ (Commands \cup cut)
               PROVE  p = q
    BY DEF OneServer
  <2>1. ASSUME NEW t \in Callers, victim[t] # None
        PROVE  held = t /\ server = None
    BY <2>1 DEF ProcessesInv, BooksInv, BooksEmptied, ProcessesTypeOK, LockExact, Critical, Holds
  <2>. QED
    BY <2>1, NamesDiffer DEF ProcessesInv, ServersKnown, Alive
<1>2. ProcessesInv => NothingForgotten /\ TimedOutIsKilled
  BY DEF ProcessesInv, KillInv, TimedOutDies, TimedOutIsKilled
<1>3. ProcessesInv => EverySignalled
  BY DEF ProcessesInv, CloseInv, SweptIsSignalled, EverySignalled
<1>4. ProcessesInv => ProcessesKept
  BY <1>1, <1>2, <1>3 DEF ProcessesKept
<1>. QED
  BY ProcessesInvariant, <1>4, PTL

-----------------------------------------------------------------------------
(* The write funnel.  The invariant (FunnelInv, far below) says that the    *)
(* disk is a tree, that the newest batch took it from base to left, and     *)
(* that the trackers hold what was shown; undo goes back through the batch  *)
(* one record at a time, and every record is undone on a tree that still    *)
(* has what the check found at its path, since no path of a batch leads to  *)
(* another.                                                                 *)

(* Paths: an ancestor is a strict prefix, and prefixes are an order.        *)

\* A path is a list of names, and so is every part of it from the root.
LEMMA PathIs ==
  ASSUME NEW p \in Paths
  PROVE  /\ Len(p) \in Nat /\ Len(p) >= 1 /\ DOMAIN p = 1 .. Len(p)
         /\ \A i \in 1 .. Len(p) :
              LET q == SubSeq(p, 1, i)
              IN  q \in Paths /\ Len(q) = i /\ \A k \in 1 .. i : q[k] = p[k]
<1> DEFINE N == UNION {ToSet(q) : q \in Paths}
<1>1. p \in Seq(N) /\ p # <<>>
  BY WriteFunnelAssumption
<1> HIDE DEF N
<1>2. Len(p) \in Nat /\ DOMAIN p = 1 .. Len(p) /\ Len(p) >= 1
  BY <1>1, LenProperties, EmptySeq
<1>3. ASSUME NEW i \in 1 .. Len(p)
      PROVE  /\ SubSeq(p, 1, i) \in Paths
             /\ Len(SubSeq(p, 1, i)) = i
             /\ \A k \in 1 .. i : SubSeq(p, 1, i)[k] = p[k]
  <2>1. SubSeq(p, 1, i) \in Paths
    BY WriteFunnelAssumption
  <2>2. SubSeq(p, 1, i) = [k \in 1 .. i |-> p[k]]
    <3>1. i \in Nat /\ \A k \in 1 .. i : 1 + k - 1 = k
      BY <1>2
    <3>. QED
      BY <3>1
  <2>3. SubSeq(p, 1, i) \in Seq(N)
    BY <2>1, WriteFunnelAssumption DEF N
  <2>4. Len(SubSeq(p, 1, i)) = i
    <3>1. DOMAIN SubSeq(p, 1, i) = 1 .. i
      BY <2>2
    <3>2. Len(SubSeq(p, 1, i)) \in Nat /\ DOMAIN SubSeq(p, 1, i) = 1 .. Len(SubSeq(p, 1, i))
      BY <2>3, LenProperties
    <3>3. i \in Nat /\ i >= 1
      BY <1>2
    <3>. QED
      BY <3>1, <3>2, <3>3
  <2>. QED
    BY <2>1, <2>2, <2>4
<1>. QED
  BY <1>2, <1>3

\* One path leads to another if it is the first part of it.
LEMMA PrefixIs ==
  ASSUME NEW p \in Paths, NEW q \in Paths
  PROVE  /\ IsPrefix(p, q) <=> Len(p) <= Len(q) /\ \A k \in 1 .. Len(p) : p[k] = q[k]
         /\ IsPrefix(p, q) => p = SubSeq(q, 1, Len(p))
         /\ IsPrefix(p, q) /\ Len(p) = Len(q) => p = q
<1> DEFINE N == UNION {ToSet(x) : x \in Paths}
<1>0. p \in Seq(N) /\ q \in Seq(N)
  BY WriteFunnelAssumption
<1> HIDE DEF N
<1>1. Len(p) \in Nat /\ Len(p) >= 1 /\ Len(q) \in Nat /\ DOMAIN p = 1 .. Len(p) /\ DOMAIN q = 1 .. Len(q)
  BY PathIs
<1>2. ASSUME NEW x \in Seq(N), Len(x) \in Nat, DOMAIN x = 1 .. Len(x)
      PROVE  x = [k \in 1 .. Len(x) |-> x[k]]
  BY <1>2, SeqDef
<1>3. SubSeq(p, 1, Len(p)) = p
  <2>1. SubSeq(p, 1, Len(p)) = [k \in 1 .. Len(p) |-> p[k]]
    BY <1>1
  <2>. QED
    BY <1>0, <1>1, <1>2, <2>1
<1>4. SubSeq(q, 1, Len(q)) = q
  <2>1. SubSeq(q, 1, Len(q)) = [k \in 1 .. Len(q) |-> q[k]]
    BY <1>1
  <2>. QED
    BY <1>0, <1>1, <1>2, <2>1
<1>5. IsPrefix(p, q) <=> Len(p) <= Len(q) /\ p = SubSeq(q, 1, Len(p))
  BY <1>3 DEF IsPrefix
<1>6. SubSeq(q, 1, Len(p)) = [k \in 1 .. Len(p) |-> q[k]]
  BY <1>1
<1>7. p = [k \in 1 .. Len(p) |-> q[k]] <=> \A k \in 1 .. Len(p) : p[k] = q[k]
  <2>1. p = [k \in 1 .. Len(p) |-> p[k]]
    BY <1>0, <1>1, <1>2
  <2>2. (\A k \in 1 .. Len(p) : p[k] = q[k]) => [k \in 1 .. Len(p) |-> p[k]] = [k \in 1 .. Len(p) |-> q[k]]
    OBVIOUS
  <2>3. p = [k \in 1 .. Len(p) |-> q[k]] => \A k \in 1 .. Len(p) : p[k] = q[k]
    OBVIOUS
  <2>. QED
    BY <2>1, <2>2, <2>3
<1>8. IsPrefix(p, q) /\ Len(p) = Len(q) => p = q
  BY <1>4, <1>5
<1>. QED
  BY <1>5, <1>6, <1>7, <1>8

\* The order of prefixes; what leads to one path lies on one line.
LEMMA PrefixOrder ==
  /\ \A p \in Paths : IsPrefix(p, p)
  /\ \A p, q, r \in Paths : IsPrefix(p, q) /\ IsPrefix(q, r) => IsPrefix(p, r)
  /\ \A p, q \in Paths : IsPrefix(p, q) /\ IsPrefix(q, p) => p = q
  /\ \A p, q, r \in Paths : IsPrefix(p, r) /\ IsPrefix(q, r) => IsPrefix(p, q) \/ IsPrefix(q, p)
<1>1. ASSUME NEW p \in Paths PROVE IsPrefix(p, p)
  BY PathIs, PrefixIs
<1>2. ASSUME NEW p \in Paths, NEW q \in Paths, NEW r \in Paths, IsPrefix(p, q), IsPrefix(q, r)
      PROVE  IsPrefix(p, r)
  <2>1. Len(p) \in Nat /\ Len(q) \in Nat /\ Len(r) \in Nat
    BY PathIs
  <2>2. Len(p) <= Len(q) /\ \A k \in 1 .. Len(p) : p[k] = q[k]
    BY <1>2, PrefixIs
  <2>3. Len(q) <= Len(r) /\ \A k \in 1 .. Len(q) : q[k] = r[k]
    BY <1>2, PrefixIs
  <2>4. Len(p) <= Len(r) /\ \A k \in 1 .. Len(p) : p[k] = r[k]
    BY <2>1, <2>2, <2>3
  <2>. QED
    BY <2>4, PrefixIs
<1>3. ASSUME NEW p \in Paths, NEW q \in Paths, IsPrefix(p, q), IsPrefix(q, p) PROVE p = q
  <2>1. Len(p) \in Nat /\ Len(q) \in Nat /\ Len(p) <= Len(q) /\ Len(q) <= Len(p)
    BY <1>3, PathIs, PrefixIs
  <2>2. Len(p) = Len(q)
    BY <2>1
  <2>. QED
    BY <1>3, <2>2, PrefixIs
<1>4. ASSUME NEW p \in Paths, NEW q \in Paths, NEW r \in Paths, IsPrefix(p, r), IsPrefix(q, r)
      PROVE  IsPrefix(p, q) \/ IsPrefix(q, p)
  <2>1. Len(p) \in Nat /\ Len(q) \in Nat /\ Len(r) \in Nat
    BY PathIs
  <2>2. /\ Len(p) <= Len(r) /\ \A k \in 1 .. Len(p) : p[k] = r[k]
        /\ Len(q) <= Len(r) /\ \A k \in 1 .. Len(q) : q[k] = r[k]
    BY <1>4, PrefixIs
  <2>3. CASE Len(p) <= Len(q)
    <3>1. \A k \in 1 .. Len(p) : p[k] = q[k]
      BY <2>1, <2>2, <2>3
    <3>. QED
      BY <2>3, <3>1, PrefixIs
  <2>4. CASE Len(q) <= Len(p)
    <3>1. \A k \in 1 .. Len(q) : q[k] = p[k]
      BY <2>1, <2>2, <2>4
    <3>. QED
      BY <2>4, <3>1, PrefixIs
  <2>. QED
    BY <2>1, <2>3, <2>4
<1>. QED
  BY <1>1, <1>2, <1>3, <1>4

\* q is a directory that p lies in.
Above(q, p) == IsPrefix(q, p) /\ q # p

\* The ancestors of a path, the outermost first, are what lies above it.
LEMMA AncestorsAre ==
  ASSUME NEW p \in Paths
  PROVE  /\ Ancestors(p) \in Seq(Paths)
         /\ DOMAIN Ancestors(p) = 1 .. Len(p) - 1
         /\ \A i \in 1 .. Len(p) - 1 : Ancestors(p)[i] \in Paths /\ Len(Ancestors(p)[i]) = i
         /\ \A q \in Paths : q \in ToSet(Ancestors(p)) <=> Above(q, p)
         /\ ToSet(Ancestors(p)) \subseteq Paths
<1> DEFINE n == Len(p) - 1
<1>1. n \in Nat /\ Len(p) \in Nat
  BY PathIs
<1>2. \A i \in 1 .. n : /\ SubSeq(p, 1, i) \in Paths /\ Len(SubSeq(p, 1, i)) = i
                        /\ \A k \in 1 .. i : SubSeq(p, 1, i)[k] = p[k]
  <2>1. \A i \in 1 .. n : i \in 1 .. Len(p)
    BY <1>1
  <2>. QED
    BY <2>1, PathIs
<1>3. Ancestors(p) = [i \in 1 .. n |-> SubSeq(p, 1, i)]
  BY DEF Ancestors
<1> HIDE DEF n
<1>4. Ancestors(p) \in [1 .. n -> Paths] /\ DOMAIN Ancestors(p) = 1 .. n
  BY <1>2, <1>3
<1>5. Ancestors(p) \in Seq(Paths)
  BY <1>1, <1>4, SeqDef
<1>6. \A i \in 1 .. n : Ancestors(p)[i] \in Paths /\ Len(Ancestors(p)[i]) = i
  BY <1>2, <1>3
<1>7. ASSUME NEW q \in Paths, q \in ToSet(Ancestors(p)) PROVE Above(q, p)
  <2>1. PICK i \in 1 .. n : q = SubSeq(p, 1, i)
    BY <1>3, <1>7 DEF ToSet
  <2>2. Len(q) = i /\ \A k \in 1 .. i : q[k] = p[k]
    BY <1>2, <2>1
  <2>3. Len(q) <= Len(p) /\ Len(q) # Len(p)
    BY <1>1, <2>2 DEF n
  <2>4. IsPrefix(q, p)
    BY <2>2, <2>3, PrefixIs
  <2>. QED
    BY <2>3, <2>4 DEF Above
<1>8. ASSUME NEW q \in Paths, Above(q, p) PROVE q \in ToSet(Ancestors(p))
  <2>1. IsPrefix(q, p) /\ q # p
    BY <1>8 DEF Above
  <2>2. Len(q) <= Len(p) /\ Len(q) # Len(p) /\ q = SubSeq(p, 1, Len(q))
    BY <2>1, PrefixIs
  <2>3. Len(q) \in 1 .. n
    <3>1. Len(q) \in Nat /\ Len(q) >= 1
      BY PathIs
    <3>. QED
      BY <1>1, <2>2, <3>1 DEF n
  <2>4. Ancestors(p)[Len(q)] = q
    BY <1>3, <2>2, <2>3
  <2>. QED
    BY <1>4, <2>3, <2>4 DEF ToSet
<1>9. ToSet(Ancestors(p)) \subseteq Paths
  BY <1>4 DEF ToSet
<1>. QED
  BY <1>4, <1>5, <1>6, <1>7, <1>8, <1>9 DEF n

\* What may lie at the paths of the workspace.
Disks == [Paths -> Contents \cup {Absent, Dir}]

-----------------------------------------------------------------------------
(* Trees: what lies in a directory lies in a directory that is there.       *)

\* What is at a path is one of these.
LEMMA KindsDiffer == /\ Absent # Dir /\ Absent \notin Contents /\ Dir \notin Contents
                     /\ Empty \in Contents
BY WorkspacesAssumption DEF Contents, Absent, Dir, Empty

\* What lies above is a strict order.
LEMMA AboveOrder ==
  /\ \A p \in Paths : ~Above(p, p)
  /\ \A p, q, r \in Paths : Above(p, q) /\ Above(q, r) => Above(p, r)
  /\ \A p, q, r \in Paths : Above(p, q) /\ IsPrefix(q, r) => Above(p, r)
  /\ \A p, q, r \in Paths : IsPrefix(p, q) /\ Above(q, r) => Above(p, r)
<1>1. \A p, q \in Paths : Above(p, q) => IsPrefix(p, q) /\ p # q
  BY DEF Above
<1>2. \A p, q \in Paths : IsPrefix(p, q) /\ p # q => Above(p, q)
  BY DEF Above
<1>3. \A p \in Paths : ~Above(p, p)
  BY <1>1
<1>. QED
  BY <1>1, <1>2, <1>3, PrefixOrder

\* What lies below a path is what it lies above.
LEMMA BelowIs ==
  ASSUME NEW p \in Paths
  PROVE  \A q : q \in Below(p) <=> q \in Paths /\ Above(p, q)
BY DEF Below, Above, IsStrictPrefix

\* Trees in terms of what lies above what.
LEMMA TreesAre ==
  \A d : d \in Trees <=>
    d \in Disks /\ \A p, q \in Paths : d[p] # Absent /\ Above(q, p) => d[q] = Dir
<1>1. ASSUME NEW d
      PROVE  WellFormed(d) <=> \A p, q \in Paths : d[p] # Absent /\ Above(q, p) => d[q] = Dir
  <2>1. ASSUME NEW p \in Paths
        PROVE  (\A q \in ToSet(Ancestors(p)) : d[q] = Dir) <=> (\A q \in Paths : Above(q, p) => d[q] = Dir)
    BY AncestorsAre
  <2>. QED
    BY <2>1 DEF WellFormed
<1>. QED
  BY <1>1 DEF Trees, Disks

\* Below what is no directory there is nothing.
LEMMA NothingBelow ==
  ASSUME NEW d \in Trees, NEW p \in Paths, d[p] # Dir, NEW q \in Paths, IsPrefix(p, q), q # p
  PROVE  d[q] = Absent
BY TreesAre DEF Above

\* A path can be made when nothing above it is a file.
LEMMA ReachableIs ==
  ASSUME NEW d, NEW p \in Paths
  PROVE  Reachable(d, p) <=> \A q \in Paths : Above(q, p) => ~IsFile(d, q)
BY AncestorsAre DEF Reachable

\* What is written where it may lie, and does not bury anything, leaves a tree.
LEMMA WriteLeavesTree ==
  ASSUME NEW d \in Trees, NEW p \in Paths, NEW v \in Contents \cup {Absent, Dir},
         v # Absent => \A q \in Paths : Above(q, p) => d[q] = Dir,
         v # Dir => \A q \in Paths : Above(p, q) => d[q] = Absent
  PROVE  [d EXCEPT ![p] = v] \in Trees
<1> DEFINE e == [d EXCEPT ![p] = v]
<1>1. d \in Disks /\ \A x, y \in Paths : d[x] # Absent /\ Above(y, x) => d[y] = Dir
  BY TreesAre
<1>2. e \in Disks /\ e[p] = v /\ \A q \in Paths : q # p => e[q] = d[q]
  BY <1>1 DEF Disks
<1> HIDE DEF e
<1>3. ASSUME NEW x \in Paths, NEW y \in Paths, e[x] # Absent, Above(y, x) PROVE e[y] = Dir
  <2>1. x # y
    BY <1>3 DEF Above
  <2>2. CASE x = p
    BY <1>2, <1>3, <2>1, <2>2
  <2>3. CASE x # p /\ y = p
    BY <1>2, <1>3, <2>3
  <2>4. CASE x # p /\ y # p
    BY <1>1, <1>2, <1>3, <2>4
  <2>. QED
    BY <2>2, <2>3, <2>4
<1>4. e \in Trees
  BY <1>2, <1>3, TreesAre
<1>. QED
  BY <1>4 DEF e

\* Parents are made where they are missing, and leave a tree.
LEMMA ParentsLeaveTree ==
  ASSUME NEW d \in Trees, NEW p \in Paths, Reachable(d, p)
  PROVE  /\ EnsureParents(d, p) \in Trees
         /\ \A q \in Paths : Above(q, p) => EnsureParents(d, p)[q] = Dir
         /\ \A q \in Paths : ~Above(q, p) => EnsureParents(d, p)[q] = d[q]
         /\ Files(EnsureParents(d, p)) = Files(d)
<1> DEFINE e == EnsureParents(d, p)
<1>1. d \in Disks /\ \A x, y \in Paths : d[x] # Absent /\ Above(y, x) => d[y] = Dir
  BY TreesAre
<1>2. e \in Disks /\ \A q \in Paths : e[q] = IF Above(q, p) THEN Dir ELSE d[q]
  BY <1>1, AncestorsAre DEF EnsureParents, Disks
<1>3. \A q \in Paths : Above(q, p) => ~IsFile(d, q)
  BY ReachableIs
<1> HIDE DEF e
<1>4. ASSUME NEW x \in Paths, NEW y \in Paths, e[x] # Absent, Above(y, x) PROVE e[y] = Dir
  <2>1. CASE Above(x, p)
    BY <1>2, <1>4, <2>1, AboveOrder
  <2>2. CASE ~Above(x, p)
    BY <1>1, <1>2, <1>4, <2>2
  <2>. QED
    BY <2>1, <2>2
<1>5. e \in Trees
  BY <1>2, <1>4, TreesAre
<1>6. \A q \in Paths : Files(e)[q] = Files(d)[q]
  BY <1>2, <1>3, KindsDiffer DEF Files, IsFile
<1>7. Files(e) = Files(d)
  BY <1>6 DEF Files
<1>. QED
  BY <1>2, <1>5, <1>7 DEF e

\* A directory that is empty goes, no file does, and what is left is a tree.
LEMMA RmdirLeavesTree ==
  ASSUME NEW d \in Trees, NEW p \in Paths
  PROVE  /\ RmdirIfEmpty(d, p) \in Trees
         /\ Files(RmdirIfEmpty(d, p)) = Files(d)
         /\ \A q \in Paths : q # p => RmdirIfEmpty(d, p)[q] = d[q]
<1>1. CASE d[p] = Dir /\ \A q \in Below(p) : d[q] = Absent
  <2>1. \A q \in Paths : Above(p, q) => d[q] = Absent
    BY <1>1, BelowIs
  <2>2. RmdirIfEmpty(d, p) = [d EXCEPT ![p] = Absent]
    BY <1>1 DEF RmdirIfEmpty
  <2>3. RmdirIfEmpty(d, p) \in Trees
    <3>1. Absent \in Contents \cup {Absent, Dir}
      OBVIOUS
    <3>2. [d EXCEPT ![p] = Absent] \in Trees
      BY <2>1, <3>1, WriteLeavesTree, ZenonT(40)
    <3>. QED
      BY <2>2, <3>2
  <2>4. d \in Disks
    BY TreesAre
  <2>5. \A q \in Paths : q # p => RmdirIfEmpty(d, p)[q] = d[q]
    BY <2>2, <2>4 DEF Disks
  <2>6. RmdirIfEmpty(d, p)[p] = Absent
    BY <2>2, <2>4 DEF Disks
  <2>7. \A q \in Paths : Files(RmdirIfEmpty(d, p))[q] = Files(d)[q]
    BY <1>1, <2>5, <2>6, KindsDiffer DEF Files, IsFile
  <2>. QED
    BY <2>3, <2>5, <2>7 DEF Files
<1>2. CASE ~(d[p] = Dir /\ \A q \in Below(p) : d[q] = Absent)
  BY <1>2 DEF RmdirIfEmpty
<1>. QED
  BY <1>1, <1>2

\* What is made at a path that was free, with its parents.
Made(d, p, v) == [EnsureParents(d, p) EXCEPT ![p] = v]

\* The parents are there then, and nothing else has changed.
LEMMA MakingLeavesTree ==
  ASSUME NEW d \in Trees, NEW p \in Paths, d[p] = Absent, Reachable(d, p),
         NEW v \in Contents \cup {Dir}
  PROVE  /\ Made(d, p, v) \in Trees
         /\ Made(d, p, v)[p] = v
         /\ \A q \in Paths : Above(q, p) => Made(d, p, v)[q] = Dir
         /\ \A q \in Paths : q # p /\ ~Above(q, p) => Made(d, p, v)[q] = d[q]
<1> DEFINE e == EnsureParents(d, p)
<1>1. /\ e \in Trees
      /\ \A q \in Paths : Above(q, p) => e[q] = Dir
      /\ \A q \in Paths : ~Above(q, p) => e[q] = d[q]
  BY ParentsLeaveTree
<1> HIDE DEF e
<1>2. \A q \in Paths : Above(p, q) => ~Above(q, p)
  BY AboveOrder
<1>3. \A q \in Paths : Above(p, q) => d[q] = Absent
  BY NothingBelow, KindsDiffer DEF Above
<1>4. [e EXCEPT ![p] = v] \in Trees
  <2>1. \A q \in Paths : Above(p, q) => e[q] = Absent
    BY <1>1, <1>2, <1>3
  <2>. QED
    BY <1>1, <2>1, WriteLeavesTree
<1>5. Made(d, p, v) = [e EXCEPT ![p] = v]
  BY DEF Made, e
<1>6. e \in Disks
  BY <1>1, TreesAre
<1>7. Made(d, p, v)[p] = v /\ \A q \in Paths : q # p => Made(d, p, v)[q] = e[q]
  BY <1>5, <1>6 DEF Disks
<1>. QED
  BY <1>1, <1>4, <1>5, <1>7, AboveOrder

-----------------------------------------------------------------------------
(* A rename moves what lies below a path along with it.                     *)

\* Below src everything moves by as much, and keeps the rest of its name.
LEMMA MovedIs ==
  ASSUME NEW src \in Paths, NEW dest \in Paths, NEW p \in Paths, IsPrefix(src, p)
  PROVE  LET m == Moved(src, dest, p)
         IN  /\ Len(m) = Len(dest) + (Len(p) - Len(src))
             /\ \A k \in 1 .. Len(dest) : m[k] = dest[k]
             /\ \A k \in 1 .. Len(p) - Len(src) : m[Len(dest) + k] = p[Len(src) + k]
<1> DEFINE N == UNION {ToSet(x) : x \in Paths}
           a == Len(src)
           b == Len(p)
           t == SubSeq(p, a + 1, b)
<1>1. p \in Seq(N) /\ dest \in Seq(N)
  BY WriteFunnelAssumption
<1> HIDE DEF N
<1>2. a \in Nat /\ b \in Nat /\ a <= b /\ Len(dest) \in Nat /\ a >= 1
  BY PathIs, PrefixIs
<1>3. t \in Seq(N) /\ Len(t) = b - a /\ \A k \in 1 .. b - a : t[k] = p[a + k]
  <2> HIDE DEF a, b
  <2>1. /\ a + 1 \in 1 .. b + 1 /\ b \in (a + 1) - 1 .. b
        /\ (IF a + 1 <= b THEN b - (a + 1) + 1 ELSE 0) = b - a
        /\ b - (a + 1) + 1 = b - a
        /\ \A k \in 1 .. b - a : (a + 1) + k - 1 = a + k
    BY <1>2
  <2>2. b = Len(p)
    BY DEF b
  <2>3. /\ SubSeq(p, a + 1, b) \in Seq(N)
        /\ Len(SubSeq(p, a + 1, b)) = IF a + 1 <= b THEN b - (a + 1) + 1 ELSE 0
        /\ \A k \in 1 .. b - (a + 1) + 1 : SubSeq(p, a + 1, b)[k] = p[(a + 1) + k - 1]
    BY <1>1, <2>1, <2>2, SubSeqProperties
  <2>. QED
    BY <2>1, <2>3
<1>4. Moved(src, dest, p) = dest \o t
  BY DEF Moved
<1> HIDE DEF t
<1>5. /\ Len(dest \o t) = Len(dest) + Len(t)
      /\ \A i \in 1 .. Len(dest) + Len(t) :
           (dest \o t)[i] = IF i <= Len(dest) THEN dest[i] ELSE t[i - Len(dest)]
  BY <1>1, <1>3, ConcatProperties
<1>6. \A k \in 1 .. Len(dest) : (dest \o t)[k] = dest[k]
  BY <1>2, <1>3, <1>5
<1>7. ASSUME NEW k \in 1 .. b - a PROVE (dest \o t)[Len(dest) + k] = p[a + k]
  <2>1. Len(dest) + k \in 1 .. Len(dest) + Len(t) /\ ~(Len(dest) + k <= Len(dest))
        /\ (Len(dest) + k) - Len(dest) = k
    BY <1>2, <1>3
  <2>. QED
    BY <1>3, <1>5, <2>1
<1>. QED
  BY <1>3, <1>4, <1>5, <1>6, <1>7 DEF a, b

\* Two paths below src are not moved to the same place; src goes to dest.
LEMMA MovingIsApart ==
  ASSUME NEW src \in Paths, NEW dest \in Paths
  PROVE  /\ Moved(src, dest, src) = dest
         /\ \A p, q \in Paths :
              IsPrefix(src, p) /\ IsPrefix(src, q) /\ Moved(src, dest, p) = Moved(src, dest, q)
                => p = q
         /\ \A p \in Paths : IsPrefix(src, p) /\ Moved(src, dest, p) \in Paths
                               => IsPrefix(dest, Moved(src, dest, p))
<1> DEFINE N == UNION {ToSet(x) : x \in Paths}
<1>0. \A x \in Paths : x \in Seq(N) /\ Len(x) \in Nat /\ Len(x) >= 1
  BY WriteFunnelAssumption, PathIs
<1> HIDE DEF N
<1>1. Moved(src, dest, src) = dest
  <2>1. SubSeq(src, Len(src) + 1, Len(src)) = <<>>
    BY <1>0, SubSeqEmpty
  <2>2. dest \o <<>> = dest
    BY <1>0, ConcatEmptySeq
  <2>. QED
    BY <2>1, <2>2 DEF Moved
<1>2. ASSUME NEW p \in Paths, NEW q \in Paths, IsPrefix(src, p), IsPrefix(src, q),
             Moved(src, dest, p) = Moved(src, dest, q)
      PROVE  p = q
  <2> DEFINE m == Moved(src, dest, p)
  <2>1. /\ Len(m) = Len(dest) + (Len(p) - Len(src))
        /\ \A k \in 1 .. Len(p) - Len(src) : m[Len(dest) + k] = p[Len(src) + k]
    BY <1>2, MovedIs
  <2>2. /\ Len(m) = Len(dest) + (Len(q) - Len(src))
        /\ \A k \in 1 .. Len(q) - Len(src) : m[Len(dest) + k] = q[Len(src) + k]
    <3> DEFINE w == Moved(src, dest, q)
    <3>1. /\ Len(w) = Len(dest) + (Len(q) - Len(src))
          /\ \A k \in 1 .. Len(q) - Len(src) : w[Len(dest) + k] = q[Len(src) + k]
      BY <1>2, MovedIs
    <3>2. m = w
      BY <1>2
    <3> HIDE DEF m, w
    <3>. QED
      BY <3>1, <3>2
  <2> HIDE DEF m
  <2>3. Len(p) = Len(q)
    BY <1>0, <2>1, <2>2
  <2>4. Len(src) <= Len(p) /\ \A k \in 1 .. Len(src) : p[k] = src[k] /\ q[k] = src[k]
    <3>1. Len(src) <= Len(p) /\ \A k \in 1 .. Len(src) : src[k] = p[k]
      BY <1>2, PrefixIs
    <3>2. \A k \in 1 .. Len(src) : src[k] = q[k]
      BY <1>2, PrefixIs
    <3>. QED
      BY <3>1, <3>2
  <2>5. ASSUME NEW k \in 1 .. Len(p) PROVE p[k] = q[k]
    <3>0. Len(src) \in Nat /\ Len(p) \in Nat
      BY <1>0
    <3>1. CASE k <= Len(src)
      BY <2>4, <3>0, <3>1
    <3>2. CASE k > Len(src)
      <4>1. PICK j \in 1 .. Len(p) - Len(src) : k = Len(src) + j
        <5>1. k - Len(src) \in 1 .. Len(p) - Len(src) /\ k = Len(src) + (k - Len(src))
          BY <3>0, <3>2
        <5>. QED
          BY <5>1
      <4>. QED
        BY <2>1, <2>2, <2>3, <4>1
    <3>. QED
      BY <3>0, <3>1, <3>2
  <2>6. IsPrefix(p, q)
    BY <1>0, <2>3, <2>5, PrefixIs
  <2>. QED
    BY <2>3, <2>6, PrefixIs
<1>3. ASSUME NEW p \in Paths, IsPrefix(src, p), Moved(src, dest, p) \in Paths
      PROVE  IsPrefix(dest, Moved(src, dest, p))
  <2> DEFINE m == Moved(src, dest, p)
  <2>1. Len(m) = Len(dest) + (Len(p) - Len(src)) /\ \A k \in 1 .. Len(dest) : m[k] = dest[k]
    BY <1>3, MovedIs
  <2>2. Len(src) <= Len(p)
    BY <1>3, PrefixIs
  <2>3. m \in Paths
    BY <1>3
  <2> HIDE DEF m
  <2>4. Len(dest) <= Len(m)
    BY <1>0, <2>1, <2>2
  <2>5. IsPrefix(dest, m)
    BY <2>1, <2>3, <2>4, PrefixIs
  <2>. QED
    BY <2>5 DEF m
<1>. QED
  BY <1>1, <1>2, <1>3

\* What lies between dest and a path that was moved was moved, too.
LEMMA MovedAlong ==
  ASSUME NEW src \in Paths, NEW dest \in Paths, NEW p \in Paths, IsPrefix(src, p),
         Moved(src, dest, p) \in Paths, NEW q \in Paths,
         Above(q, Moved(src, dest, p)), IsPrefix(dest, q)
  PROVE  \E x \in Paths : IsPrefix(src, x) /\ Above(x, p) /\ q = Moved(src, dest, x)
<1> DEFINE m == Moved(src, dest, p)
           i == Len(src) + (Len(q) - Len(dest))
           x == SubSeq(p, 1, i)
<1>0. Len(src) \in Nat /\ Len(src) >= 1 /\ Len(dest) \in Nat /\ Len(p) \in Nat /\ Len(q) \in Nat
  BY PathIs
<1>1. /\ Len(m) = Len(dest) + (Len(p) - Len(src))
      /\ \A k \in 1 .. Len(dest) : m[k] = dest[k]
      /\ \A k \in 1 .. Len(p) - Len(src) : m[Len(dest) + k] = p[Len(src) + k]
  BY MovedIs
<1>2. /\ Len(dest) <= Len(q) /\ \A k \in 1 .. Len(dest) : dest[k] = q[k]
  BY PrefixIs
<1>3. IsPrefix(q, m) /\ q # m /\ m \in Paths
  BY DEF Above
<1> HIDE DEF m
<1>4. /\ Len(q) <= Len(m) /\ \A k \in 1 .. Len(q) : q[k] = m[k]
      /\ Len(q) # Len(m)
  BY <1>3, PrefixIs
<1>5. Len(src) <= Len(p) /\ \A k \in 1 .. Len(src) : src[k] = p[k]
  BY PrefixIs
<1>6. i \in 1 .. Len(p) /\ i # Len(p) /\ Len(src) <= i
  BY <1>0, <1>1, <1>2, <1>4
<1>7. x \in Paths /\ Len(x) = i /\ \A k \in 1 .. i : x[k] = p[k]
  BY <1>6, PathIs
<1> HIDE DEF x
<1>8. Above(x, p)
  <2>1. Len(x) <= Len(p) /\ Len(x) # Len(p) /\ \A k \in 1 .. Len(x) : x[k] = p[k]
    BY <1>0, <1>6, <1>7
  <2>2. IsPrefix(x, p)
    BY <1>7, <2>1, PrefixIs
  <2>. QED
    BY <2>1, <2>2 DEF Above
<1>9. IsPrefix(src, x)
  <2>1. \A k \in 1 .. Len(src) : src[k] = x[k]
    BY <1>0, <1>5, <1>6, <1>7
  <2>. QED
    BY <1>6, <1>7, <2>1, PrefixIs
<1> DEFINE y == Moved(src, dest, x)
<1>10. /\ Len(y) = Len(dest) + (i - Len(src))
       /\ \A k \in 1 .. Len(dest) : y[k] = dest[k]
       /\ \A k \in 1 .. i - Len(src) : y[Len(dest) + k] = x[Len(src) + k]
  <2>1. /\ Len(y) = Len(dest) + (Len(x) - Len(src))
        /\ \A k \in 1 .. Len(dest) : y[k] = dest[k]
        /\ \A k \in 1 .. Len(x) - Len(src) : y[Len(dest) + k] = x[Len(src) + k]
    <3>1. x \in Paths
      BY <1>7
    <3> HIDE DEF i
    <3>. QED
      BY <1>9, <3>1, MovedIs, ZenonT(60)
  <2> HIDE DEF y, i
  <2>. QED
    BY <1>7, <2>1
<1>11. Len(y) = Len(q)
  BY <1>0, <1>10
<1>12. \E N : y \in Seq(N) /\ q \in Seq(N)
  <2> DEFINE N == UNION {ToSet(w) : w \in Paths}
  <2>1. dest \in Seq(N) /\ x \in Seq(N) /\ q \in Seq(N)
    BY <1>7, WriteFunnelAssumption
  <2> HIDE DEF N
  <2>2. SubSeq(x, Len(src) + 1, Len(x)) \in Seq(N)
    <3>1. \A j \in Nat : j + 1 \in 1 .. Len(x) + 1 /\ Len(x) \in (j + 1) - 1 .. Len(x)
             => SubSeq(x, j + 1, Len(x)) \in Seq(N)
      BY <2>1, SubSeqProperties
    <3>2. Len(src) + 1 \in 1 .. Len(x) + 1 /\ Len(x) \in (Len(src) + 1) - 1 .. Len(x)
      BY <1>0, <1>6, <1>7
    <3>. QED
      BY <1>0, <3>1, <3>2
  <2>3. y \in Seq(N)
    BY <2>1, <2>2, ConcatProperties DEF Moved
  <2>. QED
    BY <2>1, <2>3
<1> HIDE DEF y
<1>13. ASSUME NEW k \in 1 .. Len(q) PROVE y[k] = q[k]
  <2>1. CASE k <= Len(dest)
    BY <1>0, <1>2, <1>10, <2>1
  <2>2. CASE k > Len(dest)
    <3>1. PICK j \in 1 .. Len(q) - Len(dest) : k = Len(dest) + j
      <4>1. k - Len(dest) \in 1 .. Len(q) - Len(dest) /\ k = Len(dest) + (k - Len(dest))
        BY <1>0, <2>2
      <4>. QED
        BY <4>1
    <3>2. j \in 1 .. i - Len(src) /\ Len(src) + j \in 1 .. i /\ j \in 1 .. Len(p) - Len(src)
      BY <1>0, <1>6
    <3>3. y[k] = x[Len(src) + j] /\ x[Len(src) + j] = p[Len(src) + j]
      BY <1>7, <1>10, <3>1, <3>2
    <3>4. m[k] = p[Len(src) + j] /\ q[k] = m[k]
      BY <1>1, <1>4, <3>1, <3>2
    <3>. QED
      BY <3>3, <3>4
  <2>. QED
    BY <1>0, <2>1, <2>2
<1>14. y = q
  <2>1. PICK N : y \in Seq(N) /\ q \in Seq(N)
    BY <1>12
  <2>. QED
    BY <1>11, <1>13, <2>1, SeqEqual
<1>. QED
  BY <1>7, <1>8, <1>9, <1>14 DEF y

-----------------------------------------------------------------------------
(* What a rename leaves at a path, and that it is a tree.                   *)

\* A rename may move src, with what lies in it, to dest.
MayMove(d, src, dest) ==
  /\ d[src] # Absent
  /\ d[dest] = Absent
  /\ Reachable(d, dest)
  /\ ~IsPrefix(src, dest)
  /\ \A p \in Below(src) : d[p] # Absent => Moved(src, dest, p) \in Paths

\* What a rename of src takes along.
Carried(d, src) == {p \in Paths : IsPrefix(src, p) /\ d[p] # Absent}

\* What a rename leaves at a path.
LEMMA MoveIs ==
  ASSUME NEW d \in Trees, NEW src \in Paths, NEW dest \in Paths, MayMove(d, src, dest)
  PROVE  /\ \A p \in Carried(d, src) : /\ Moved(src, dest, p) \in Paths
                                       /\ IsPrefix(dest, Moved(src, dest, p))
                                       /\ Move(d, src, dest)[Moved(src, dest, p)] = d[p]
         /\ \A q \in Carried(d, src) : Move(d, src, dest)[q] = Absent
         /\ \A q \in Paths : \/ q \in Carried(d, src)
                             \/ \E p \in Carried(d, src) : Moved(src, dest, p) = q
                             \/ Move(d, src, dest)[q] = EnsureParents(d, dest)[q]
         /\ Move(d, src, dest) \in Disks
<1> DEFINE C == Carried(d, src)
           M(p) == Moved(src, dest, p)
<1>1. {p \in Below(src) \cup {src} : d[p] # Absent} = C
  <2>1. IsPrefix(src, src)
    BY PrefixOrder
  <2>2. \A p \in Paths : p \in Below(src) \cup {src} <=> IsPrefix(src, p)
    BY <2>1, BelowIs DEF Above
  <2>3. Below(src) \cup {src} \subseteq Paths
    BY BelowIs
  <2>. QED
    BY <2>2, <2>3 DEF Carried
<1>2. \A p \in C : p \in Paths /\ IsPrefix(src, p) /\ d[p] # Absent
  BY DEF Carried
<1>3. \A p \in C : M(p) \in Paths /\ IsPrefix(dest, M(p))
  <2>1. M(src) = dest
    BY MovingIsApart
  <2>2. \A p \in C : p # src => p \in Below(src)
    BY <1>2, BelowIs DEF Above
  <2>3. \A p \in C : M(p) \in Paths
    BY <1>2, <2>1, <2>2 DEF MayMove
  <2>. QED
    BY <1>2, <2>3, MovingIsApart
<1>4. \A q \in Paths : IsPrefix(dest, q) => d[q] = Absent
  BY NothingBelow, KindsDiffer DEF MayMove
<1>5. \A p \in C : M(p) \notin C
  BY <1>2, <1>3, <1>4
<1>6. \A p, q \in C : M(p) = M(q) => p = q
  BY <1>2, MovingIsApart
<1>7. Move(d, src, dest) =
        [q \in Paths |-> IF q \in C THEN Absent
                         ELSE IF \E p \in C : M(p) = q THEN d[CHOOSE p \in C : M(p) = q]
                         ELSE EnsureParents(d, dest)[q]]
  BY <1>1 DEF Move
<1> HIDE DEF C, M
<1>8. \A p \in C : Move(d, src, dest)[M(p)] = d[p]
  <2> SUFFICES ASSUME NEW p \in C PROVE Move(d, src, dest)[M(p)] = d[p]
    OBVIOUS
  <2>1. (CHOOSE x \in C : M(x) = M(p)) = p
    BY <1>6
  <2>. QED
    BY <1>3, <1>5, <1>7, <2>1
<1>9. \A q \in C : Move(d, src, dest)[q] = Absent
  BY <1>2, <1>7
<1>10. \A q \in Paths : \/ q \in C
                        \/ \E p \in C : M(p) = q
                        \/ Move(d, src, dest)[q] = EnsureParents(d, dest)[q]
  BY <1>7
<1>11. Move(d, src, dest) \in Disks
  <2>1. EnsureParents(d, dest) \in Disks /\ d \in Disks
    BY ParentsLeaveTree, TreesAre DEF MayMove
  <2>2. \A q \in Paths : Move(d, src, dest)[q] \in Contents \cup {Absent, Dir}
    BY <1>2, <1>8, <1>9, <1>10, <2>1 DEF Disks
  <2>. QED
    BY <1>7, <2>2 DEF Disks
<1>. QED
  BY <1>3, <1>8, <1>9, <1>10, <1>11 DEF C, M

\* A rename leaves a tree.
LEMMA MoveLeavesTree ==
  ASSUME NEW d \in Trees, NEW src \in Paths, NEW dest \in Paths, MayMove(d, src, dest)
  PROVE  Move(d, src, dest) \in Trees
<1> DEFINE C == Carried(d, src)
           M(p) == Moved(src, dest, p)
           e == Move(d, src, dest)
           g == EnsureParents(d, dest)
<1>1. /\ \A p \in C : M(p) \in Paths /\ IsPrefix(dest, M(p)) /\ e[M(p)] = d[p]
      /\ \A q \in C : e[q] = Absent
      /\ \A q \in Paths : q \in C \/ (\E p \in C : M(p) = q) \/ e[q] = g[q]
      /\ e \in Disks
  BY MoveIs
<1>2. \A p \in Paths : p \in C <=> IsPrefix(src, p) /\ d[p] # Absent
  BY DEF Carried
<1>3. C \subseteq Paths
  BY DEF Carried
<1>4. /\ g \in Trees
      /\ \A q \in Paths : Above(q, dest) => g[q] = Dir
      /\ \A q \in Paths : ~Above(q, dest) => g[q] = d[q]
  BY ParentsLeaveTree DEF MayMove
<1>5. \A q \in Paths : IsPrefix(dest, q) => d[q] = Absent
  BY NothingBelow, KindsDiffer DEF MayMove
<1>6. /\ \A x, y \in Paths : d[x] # Absent /\ Above(y, x) => d[y] = Dir
      /\ \A x, y \in Paths : g[x] # Absent /\ Above(y, x) => g[y] = Dir
  BY <1>4, TreesAre
<1>7. ~IsPrefix(src, dest) /\ Absent # Dir
  BY KindsDiffer DEF MayMove
<1>8. ASSUME NEW p \in C, NEW y \in Paths, Above(y, M(p)), IsPrefix(dest, y)
      PROVE  \E z \in Paths : IsPrefix(src, z) /\ Above(z, p) /\ y = M(z)
  BY <1>1, <1>2, <1>3, <1>8, MovedAlong
<1> HIDE DEF C, M, e, g
<1>9. ASSUME NEW y \in Paths, ~IsPrefix(src, y), ~IsPrefix(dest, y) PROVE e[y] = g[y]
  BY <1>1, <1>2, <1>9
<1>10. ASSUME NEW x \in Paths, NEW y \in Paths, e[x] # Absent, Above(y, x) PROVE e[y] = Dir
  <2>1. CASE \E p \in C : M(p) = x
    <3>1. PICK p \in C : M(p) = x
      BY <2>1
    <3>2. e[x] = d[p] /\ IsPrefix(dest, x) /\ p \in Paths
      BY <1>1, <1>3, <3>1
    <3>3. CASE IsPrefix(dest, y)
      <4>1. PICK z \in Paths : IsPrefix(src, z) /\ Above(z, p) /\ y = M(z)
        BY <1>8, <1>10, <3>1, <3>3
      <4>2. d[z] = Dir
        BY <1>2, <1>6, <3>2, <4>1
      <4>3. z \in C
        BY <1>2, <1>7, <4>1, <4>2
      <4>. QED
        BY <1>1, <4>1, <4>2, <4>3
    <3>4. CASE ~IsPrefix(dest, y)
      <4>1. IsPrefix(y, dest) /\ y # dest
        BY <1>10, <3>2, <3>4, PrefixOrder DEF Above
      <4>2. ~IsPrefix(src, y)
        BY <1>7, <4>1, PrefixOrder
      <4>. QED
        BY <1>4, <1>9, <3>4, <4>1, <4>2 DEF Above
    <3>. QED
      BY <3>3, <3>4
  <2>2. CASE e[x] = g[x] /\ x \notin C
    <3>1. ~IsPrefix(dest, x)
      <4>1. IsPrefix(dest, x) => ~Above(x, dest)
        BY PrefixOrder DEF Above
      <4>. QED
        BY <1>4, <1>5, <1>10, <2>2, <4>1
    <3>2. ~IsPrefix(src, x)
      <4>1. IsPrefix(src, x) => ~Above(x, dest)
        BY <1>7, PrefixOrder DEF Above
      <4>. QED
        BY <1>2, <1>4, <1>10, <2>2, <4>1
    <3>3. ~IsPrefix(dest, y) /\ ~IsPrefix(src, y)
      BY <1>10, <3>1, <3>2, PrefixOrder DEF Above
    <3>. QED
      BY <1>6, <1>9, <1>10, <2>2, <3>3
  <2>. QED
    BY <1>1, <1>10, <2>1, <2>2
<1>11. e \in Trees
  BY <1>1, <1>10, TreesAre
<1>. QED
  BY <1>11 DEF e

\* A file is moved by itself.
LEMMA FileIsMoved ==
  ASSUME NEW d \in Trees, NEW src \in Paths, NEW dest \in Paths, MayMove(d, src, dest),
         d[src] # Dir
  PROVE  Move(d, src, dest) = [Made(d, dest, d[src]) EXCEPT ![src] = Absent]
<1> DEFINE e == Move(d, src, dest)
           m == Made(d, dest, d[src])
<1>1. Carried(d, src) = {src}
  <2>1. \A p \in Paths : IsPrefix(src, p) /\ d[p] # Absent => p = src
    BY NothingBelow
  <2>2. IsPrefix(src, src) /\ d[src] # Absent
    BY PrefixOrder DEF MayMove
  <2>. QED
    BY <2>1, <2>2 DEF Carried
<1>2. Moved(src, dest, src) = dest
  BY MovingIsApart
<1>3. /\ e[dest] = d[src] /\ e[src] = Absent /\ e \in Disks
      /\ \A q \in Paths : q # src /\ q # dest => e[q] = EnsureParents(d, dest)[q]
  BY <1>1, <1>2, MoveIs
<1>4. src # dest
  BY PrefixOrder DEF MayMove
<1>5. EnsureParents(d, dest) \in Disks
  BY ParentsLeaveTree, TreesAre DEF MayMove
<1>6. /\ m[dest] = d[src] /\ \A q \in Paths : q # dest => m[q] = EnsureParents(d, dest)[q]
      /\ DOMAIN m = Paths
  BY <1>5 DEF Made, Disks
<1> HIDE DEF e, m
<1>7. \A q \in Paths : e[q] = [m EXCEPT ![src] = Absent][q]
  BY <1>3, <1>4, <1>6
<1>8. e = [m EXCEPT ![src] = Absent]
  <2>1. DOMAIN e = Paths /\ DOMAIN [m EXCEPT ![src] = Absent] = Paths
    BY <1>3, <1>6 DEF Disks
  <2>2. e = [q \in Paths |-> e[q]]
    BY <1>3 DEF Disks
  <2>3. [m EXCEPT ![src] = Absent] = [q \in Paths |-> [m EXCEPT ![src] = Absent][q]]
    BY <1>6
  <2>. QED
    BY <1>7, <2>2, <2>3
<1>. QED
  BY <1>8 DEF e, m

-----------------------------------------------------------------------------
(* Undo, one record at a time: what it leaves alone whatever the disk is.    *)

\* The disks that leave what d has at the paths of K.
Keeping(d, K) == {x \in Disks : \A p \in K : x[p] = d[p]}

\* The disk and the journal are of their types.
DiskInv == disk \in Disks /\ batch \in Seq(Record)

\* A directory that is empty goes, whatever else stays.
LEMMA RmdirKeeps ==
  ASSUME NEW d \in Disks, NEW K \in SUBSET Paths, \A p \in K : IsFile(d, p),
         NEW x \in Keeping(d, K), NEW q \in Paths
  PROVE  RmdirIfEmpty(x, q) \in Keeping(d, K)
<1>1. x \in Disks /\ \A p \in K : x[p] = d[p]
  BY DEF Keeping
<1>2. CASE x[q] = Dir
  <2>1. Dir \notin Contents
    BY WorkspacesAssumption DEF Contents, Dir, Empty
  <2>2. q \notin K
    BY <1>1, <1>2, <2>1 DEF IsFile
  <2>3. [x EXCEPT ![q] = Absent] \in Disks
    BY <1>1 DEF Disks
  <2>4. \A p \in K : [x EXCEPT ![q] = Absent][p] = x[p]
    BY <1>1, <2>2 DEF Disks
  <2>. QED
    BY <1>1, <2>3, <2>4 DEF RmdirIfEmpty, Keeping
<1>3. CASE x[q] # Dir
  BY <1>3 DEF RmdirIfEmpty
<1>. QED
  BY <1>2, <1>3

\* What was created is removed first, unless it is a directory with entries.
Removed(d, p) == IF d[p] = Dir THEN RmdirIfEmpty(d, p) ELSE [d EXCEPT ![p] = Absent]

\* Taking back a creation removes what was created and directories, one at a time.
LEMMA UncreateStages ==
  ASSUME NEW d \in Disks, NEW K \in SUBSET Paths, NEW rec \in Record,
         \A p \in K : IsFile(d, p) /\ p # rec.path
  PROVE  /\ Len(rec.dirs) \in Nat /\ DOMAIN rec.dirs = 1 .. Len(rec.dirs)
         /\ \E g \in [0 .. Len(rec.dirs) -> Keeping(d, K)] :
              /\ g[0] = Removed(d, rec.path)
              /\ g[Len(rec.dirs)] = Uncreate(d, rec)
              /\ \A k \in 1 .. Len(rec.dirs) :
                   g[k] = RmdirIfEmpty(g[k - 1], rec.dirs[Len(rec.dirs) - k + 1])
<1> DEFINE V == Keeping(d, K)
           b == Removed(d, rec.path)
           s == Reverse(rec.dirs)
           n == Len(rec.dirs)
           F == [j \in (1 .. n) \X V |-> RmdirIfEmpty(j[2], s[j[1]])]
           Fold(h) == h = [S \in SUBSET (1 .. n) |->
                             IF S = {} THEN b ELSE RmdirIfEmpty(h[S \ {Max(S)}], s[Max(S)])]
<1>1. rec.path \in Paths /\ rec.dirs \in Seq(Paths)
  BY DEF Record
<1>2. n \in Nat /\ DOMAIN s = 1 .. n /\ \A i \in 1 .. n : s[i] \in Paths
  <2>1. n \in Nat
    BY <1>1, LenProperties
  <2>2. \A i \in 1 .. n : n - i + 1 \in 1 .. n
    BY <2>1
  <2>3. \A i \in 1 .. n : rec.dirs[i] \in Paths
    BY <1>1, ElementOfSeq
  <2>. QED
    BY <2>1, <2>2, <2>3 DEF Reverse
<1>3. b \in V
  <2>1. d \in V
    BY DEF Keeping
  <2>2. [d EXCEPT ![rec.path] = Absent] \in V
    BY <1>1 DEF Keeping, Disks
  <2>. QED
    BY <1>1, <2>1, <2>2, RmdirKeeps DEF Removed
<1>4. \A x \in V, i \in 1 .. n : RmdirIfEmpty(x, s[i]) \in V
  BY <1>2, RmdirKeeps
<1>5. Uncreate(d, rec) = (CHOOSE h : Fold(h))[1 .. n]
  BY <1>2 DEF Uncreate, Removed, FoldLeft, MapThenFoldSet
<1> HIDE DEF b, s, n, V
<1>6. F \in [(1 .. n) \X V -> V]
  BY <1>4
<1>7. PICK h : IsFold(h, F, b, n) /\ \A S \in SUBSET (1 .. n) : h[S] \in V
  BY <1>2, <1>3, <1>6, FoldTyped
<1>8. Fold(h)
  <2>1. ASSUME NEW S \in SUBSET (1 .. n), S # {}
        PROVE  F[Max(S), h[S \ {Max(S)}]] = RmdirIfEmpty(h[S \ {Max(S)}], s[Max(S)])
    <3>1. Max(S) \in 1 .. n /\ S \ {Max(S)} \in SUBSET (1 .. n)
      BY <1>2, <2>1, LastIsPlace
    <3>2. <<Max(S), h[S \ {Max(S)}]>> \in (1 .. n) \X V
      BY <1>7, <3>1
    <3>. QED
      BY <3>2
  <2> HIDE DEF F
  <2>. QED
    BY <1>7, <2>1 DEF IsFold
<1> DEFINE g == CHOOSE h1 : Fold(h1)
<1>9. Fold(g)
  <2> HIDE DEF Fold
  <2>. QED
    BY <1>8
<1> HIDE DEF g
<1>10. ASSUME NEW S \in SUBSET (1 .. n), S # {} /\ g[S \ {Max(S)}] \in V PROVE g[S] \in V
  <2>1. Max(S) \in 1 .. n
    BY <1>2, <1>10, LastIsPlace
  <2>2. g[S] = RmdirIfEmpty(g[S \ {Max(S)}], s[Max(S)])
    BY <1>9, <1>10
  <2>. QED
    BY <1>4, <1>10, <2>1, <2>2
<1>11. g[{}] \in V
  <2>1. {} \in SUBSET (1 .. n)
    OBVIOUS
  <2>. QED
    BY <1>3, <1>9, <2>1
<1>12. \A S \in SUBSET (1 .. n) : g[S] \in V
  BY <1>2, <1>10, <1>11, FoldKeeps
<1> DEFINE w == [k \in 0 .. n |-> g[1 .. k]]
<1>13. w \in [0 .. n -> V] /\ w[n] = Uncreate(d, rec) /\ w[0] = b
  <2>1. \A k \in 0 .. n : 1 .. k \in SUBSET (1 .. n)
    BY <1>2
  <2>2. w \in [0 .. n -> V]
    BY <1>12, <2>1
  <2>3. 1 .. 0 = {} /\ 0 \in 0 .. n /\ n \in 0 .. n
    BY <1>2
  <2>4. g[{}] = b
    <3>1. {} \in SUBSET (1 .. n)
      OBVIOUS
    <3>. QED
      BY <1>9, <3>1
  <2>5. w[n] = Uncreate(d, rec)
    BY <1>5, <2>3 DEF g
  <2>6. w[0] = g[{}]
    BY <2>3
  <2>. QED
    BY <2>2, <2>4, <2>5, <2>6
<1>14. ASSUME NEW k \in 1 .. n PROVE w[k] = RmdirIfEmpty(w[k - 1], s[k])
  <2>1. k \in 0 .. n /\ k - 1 \in 0 .. n
    BY <1>2
  <2>2. /\ 1 .. k \in SUBSET (1 .. n) /\ 1 .. k # {}
        /\ Max(1 .. k) = k /\ (1 .. k) \ {k} = 1 .. k - 1
    BY <1>2, FirstPlaces
  <2>3. g[1 .. k] = RmdirIfEmpty(g[1 .. k - 1], s[k])
    BY <1>9, <2>2
  <2>. QED
    BY <2>1, <2>3
<1>15. n = Len(rec.dirs) /\ \A k \in 1 .. n : s[k] = rec.dirs[n - k + 1]
  BY DEF n, s, Reverse
<1>16. DOMAIN rec.dirs = 1 .. n
  BY <1>1, <1>15, LenProperties
<1> HIDE DEF w
<1>17. \A k \in 1 .. n : w[k] = RmdirIfEmpty(w[k - 1], rec.dirs[n - k + 1])
  BY <1>14, <1>15
<1>18. b = Removed(d, rec.path)
  BY DEF b
<1>. QED
  BY <1>2, <1>13, <1>15, <1>16, <1>17, <1>18 DEF V

\* What an undone creation leaves alone.
LEMMA UncreateKeeps ==
  ASSUME NEW d \in Disks, NEW K \in SUBSET Paths, NEW rec \in Record,
         \A p \in K : IsFile(d, p) /\ p # rec.path
  PROVE  Uncreate(d, rec) \in Keeping(d, K)
<1>1. /\ Len(rec.dirs) \in Nat
      /\ \E g \in [0 .. Len(rec.dirs) -> Keeping(d, K)] : g[Len(rec.dirs)] = Uncreate(d, rec)
  BY UncreateStages
<1>. QED
  BY <1>1

\* Reverting a record that does not raise leaves the other files alone.
LEMMA RevertKeeps ==
  ASSUME NEW d \in Disks, NEW K \in SUBSET Paths, NEW rec \in Record,
         \A p \in K : IsFile(d, p) /\ p # rec.path, ~Raises(d, rec)
  PROVE  Revert(d, rec) \in Keeping(d, K)
<1>1. rec.path \in Paths /\ rec.before \in Contents \cup {Absent}
  BY DEF Record
<1>2. CASE rec.before = Absent
  BY <1>2, UncreateKeeps DEF Revert
<1>3. CASE rec.before # Absent /\ rec.after = Absent
  <2>1. \A q \in ToSet(Ancestors(rec.path)) : ~IsFile(d, q)
    BY <1>3 DEF Raises, Reachable
  <2>2. EnsureParents(d, rec.path) \in Keeping(d, K)
    BY <2>1 DEF EnsureParents, Keeping, Disks
  <2> DEFINE v == IF rec.tool \in {"delete_path", "rename_path"} /\ rec.before = Empty
                    THEN Dir ELSE rec.before
  <2>3. v \in Contents \cup {Dir}
    BY <1>1, <1>3
  <2>4. Undelete(d, rec) = [EnsureParents(d, rec.path) EXCEPT ![rec.path] = v]
    BY DEF Undelete
  <2> HIDE DEF v
  <2>5. \A x \in Keeping(d, K) : [x EXCEPT ![rec.path] = v] \in Keeping(d, K)
    BY <1>1, <2>3 DEF Keeping, Disks
  <2>6. Revert(d, rec) = Undelete(d, rec)
    BY <1>3 DEF Revert
  <2>. QED
    BY <2>2, <2>4, <2>5, <2>6
<1>4. CASE rec.before # Absent /\ rec.after # Absent
  BY <1>1, <1>4 DEF Revert, Keeping, Disks
<1>. QED
  BY <1>2, <1>3, <1>4

\* The marks an undo leaves in a tracker.
Marks == UNION {[P -> Contents \cup {Gone}] : P \in SUBSET Paths}

\* Where an undo stands that leaves the files of K alone.
Undoings(K) ==
  [disk : Keeping(disk, K), raised : BOOLEAN, records : Seq(Record), marks : Marks]

\* One record more undone leaves the files of K alone.
LEMMA RevertOneKeeps ==
  ASSUME DiskInv, NEW K \in SUBSET Paths, NEW s \in Undoings(K), NEW rec \in Record,
         \A p \in K : IsFile(disk, p) /\ p # rec.path
  PROVE  RevertOne(s, rec) \in Undoings(K)
<1>1. CASE s.raised \/ Raises(s.disk, rec)
  <2>1. RevertOne(s, rec) = [s EXCEPT !.raised = TRUE]
    BY <1>1 DEF RevertOne
  <2>. QED
    BY <2>1 DEF Undoings
<1>2. CASE ~(s.raised \/ Raises(s.disk, rec))
  <2>1. /\ s.disk \in Disks /\ \A p \in K : s.disk[p] = disk[p]
        /\ s.records \in Seq(Record) /\ s.marks \in Marks
    BY DEF Undoings, Keeping
  <2>2. Revert(s.disk, rec) \in Keeping(s.disk, K)
    BY <1>2, <2>1, RevertKeeps DEF IsFile
  <2>3. Revert(s.disk, rec) \in Keeping(disk, K)
    BY <2>1, <2>2 DEF Keeping
  <2>4. UndoRecord(s.disk, rec) \in Record
    <3>1. rec.path \in Paths /\ rec.before \in Contents \cup {Absent}
      BY DEF Record
    <3>2. Files(s.disk)[rec.path] \in Contents \cup {Absent}
      BY <3>1 DEF Files, IsFile
    <3>3. <<>> \in Seq(Paths)
      BY EmptySeq
    <3>. QED
      BY <3>1, <3>2, <3>3 DEF UndoRecord, Rec, Record
  <2>5. Append(s.records, UndoRecord(s.disk, rec)) \in Seq(Record)
    BY <2>1, <2>4, AppendProperties
  <2> DEFINE m == [q \in DOMAIN s.marks \cup {rec.path} |->
                     IF q = rec.path THEN UndoMark(rec) ELSE s.marks[q]]
  <2>6. m \in Marks
    <3>1. PICK P \in SUBSET Paths : s.marks \in [P -> Contents \cup {Gone}]
      BY <2>1 DEF Marks
    <3>2. UndoMark(rec) \in Contents \cup {Gone} /\ rec.path \in Paths
      BY DEF Record, UndoMark
    <3>3. m \in [P \cup {rec.path} -> Contents \cup {Gone}]
      BY <3>1, <3>2
    <3>. QED
      BY <3>2, <3>3 DEF Marks
  <2>7. RevertOne(s, rec) = [disk |-> Revert(s.disk, rec), raised |-> FALSE,
                             records |-> Append(s.records, UndoRecord(s.disk, rec)), marks |-> m]
    BY <1>2 DEF RevertOne
  <2> HIDE DEF m
  <2>. QED
    BY <2>3, <2>5, <2>6, <2>7 DEF Undoings
<1>. QED
  BY <1>1, <1>2

\* Undo goes back from the last record, one at a time.
LEMMA RevertedStages ==
  ASSUME DiskInv, NEW K \in SUBSET Paths, NEW n \in 0 .. Len(batch),
         \A p \in K : IsFile(disk, p) /\ \A i \in DOMAIN batch : batch[i].path # p
  PROVE  \E g \in [0 .. n -> Undoings(K)] :
           /\ g[0] = [disk |-> disk, raised |-> FALSE, records |-> <<>>, marks |-> <<>>]
           /\ g[n] = Reverted(n)
           /\ \A k \in 1 .. n : g[k] = RevertOne(g[k - 1], batch[Len(batch) - k + 1])
<1> DEFINE V == Undoings(K)
           b == [disk |-> disk, raised |-> FALSE, records |-> <<>>, marks |-> <<>>]
           s == SubSeq(Reverse(batch), 1, n)
           F == [j \in (1 .. n) \X V |-> RevertOne(j[2], s[j[1]])]
           Fold(h) == h = [S \in SUBSET (1 .. n) |->
                             IF S = {} THEN b ELSE RevertOne(h[S \ {Max(S)}], s[Max(S)])]
<1>1. batch \in Seq(Record) /\ disk \in Disks /\ Len(batch) \in Nat
      /\ DOMAIN batch = 1 .. Len(batch) /\ n \in Nat
  BY LenProperties DEF DiskInv
<1>2. DOMAIN s = 1 .. n /\ \A i \in 1 .. n : s[i] = batch[Len(batch) - i + 1] /\ Len(batch) - i + 1 \in DOMAIN batch
  <2> DEFINE r == Reverse(batch)
             m == Len(batch)
  <2>1. \A i \in 1 .. m : m - i + 1 \in 1 .. m
    BY <1>1
  <2>2. r = [i \in 1 .. m |-> batch[m - i + 1]]
    BY DEF Reverse
  <2>3. r \in [1 .. m -> Record]
    <3>1. \A i \in 1 .. m : batch[i] \in Record
      BY <1>1, ElementOfSeq
    <3> HIDE DEF r, m
    <3>. QED
      BY <2>1, <2>2, <3>1
  <2>4. r \in Seq(Record) /\ Len(r) = m
    <3> HIDE DEF r
    <3>. QED
      BY <1>1, <2>3, SeqDef
  <2>5. 1 \in 1 .. Len(r) + 1 /\ n \in 1 - 1 .. Len(r) /\ n - 1 + 1 = n
    BY <1>1, <2>4
  <2>6. /\ SubSeq(r, 1, n) \in Seq(Record)
        /\ Len(SubSeq(r, 1, n)) = IF 1 <= n THEN n - 1 + 1 ELSE 0
        /\ \A i \in 1 .. n - 1 + 1 : SubSeq(r, 1, n)[i] = r[1 + i - 1]
    <3> HIDE DEF r
    <3>. QED
      BY <2>4, <2>5, SubSeqProperties
  <2>7. s \in Seq(Record) /\ Len(s) = n /\ \A i \in 1 .. n : s[i] = r[i]
    <3>1. \A i \in 1 .. n : 1 + i - 1 = i
      BY <1>1
    <3>2. s = SubSeq(r, 1, n)
      OBVIOUS
    <3>3. (IF 1 <= n THEN n - 1 + 1 ELSE 0) = n
      BY <1>1
    <3> HIDE DEF r, s
    <3>. QED
      BY <2>5, <2>6, <3>1, <3>2, <3>3
  <2>8. DOMAIN s = 1 .. n
    BY <2>7, LenProperties
  <2>9. ASSUME NEW i \in 1 .. n PROVE s[i] = batch[m - i + 1] /\ m - i + 1 \in DOMAIN batch
    <3>1. i \in 1 .. m
      BY <1>1
    <3>. QED
      BY <1>1, <2>1, <2>2, <2>7, <3>1
  <2>. QED
    BY <2>8, <2>9
<1>3. \A i \in 1 .. n : s[i] \in Record /\ \A p \in K : p # s[i].path
  BY <1>1, <1>2, ElementOfSeq
<1>4. b \in V
  <2>1. disk \in Keeping(disk, K)
    BY <1>1 DEF Keeping
  <2>2. <<>> \in Seq(Record)
    BY EmptySeq
  <2>3. <<>> \in Marks
    <3>1. <<>> \in [{} -> Contents \cup {Gone}]
      OBVIOUS
    <3>2. {} \in SUBSET Paths
      OBVIOUS
    <3>. QED
      BY <3>1, <3>2 DEF Marks
  <2>. QED
    BY <2>1, <2>2, <2>3 DEF Undoings
<1>5. \A x \in V, i \in 1 .. n : RevertOne(x, s[i]) \in V
  BY <1>3, RevertOneKeeps
<1>6. Reverted(n) = (CHOOSE h : Fold(h))[1 .. n]
  BY <1>2 DEF Reverted, FoldLeft, MapThenFoldSet
<1> HIDE DEF b, s, V
<1>7. F \in [(1 .. n) \X V -> V]
  BY <1>5
<1>8. PICK h : IsFold(h, F, b, n) /\ \A S \in SUBSET (1 .. n) : h[S] \in V
  BY <1>1, <1>4, <1>7, FoldTyped
<1>9. Fold(h)
  <2>1. ASSUME NEW S \in SUBSET (1 .. n), S # {}
        PROVE  F[Max(S), h[S \ {Max(S)}]] = RevertOne(h[S \ {Max(S)}], s[Max(S)])
    <3>1. Max(S) \in 1 .. n /\ S \ {Max(S)} \in SUBSET (1 .. n)
      BY <1>1, <2>1, LastIsPlace
    <3>2. <<Max(S), h[S \ {Max(S)}]>> \in (1 .. n) \X V
      BY <1>8, <3>1
    <3>. QED
      BY <3>2
  <2> HIDE DEF F
  <2>. QED
    BY <1>8, <2>1 DEF IsFold
<1> DEFINE g == CHOOSE h1 : Fold(h1)
<1>10. Fold(g)
  <2> HIDE DEF Fold
  <2>. QED
    BY <1>9
<1> HIDE DEF g
<1>11. ASSUME NEW S \in SUBSET (1 .. n), S # {} /\ g[S \ {Max(S)}] \in V PROVE g[S] \in V
  <2>1. Max(S) \in 1 .. n
    BY <1>1, <1>11, LastIsPlace
  <2>2. g[S] = RevertOne(g[S \ {Max(S)}], s[Max(S)])
    BY <1>10, <1>11
  <2>. QED
    BY <1>5, <1>11, <2>1, <2>2
<1>12. g[{}] \in V
  <2>1. {} \in SUBSET (1 .. n)
    OBVIOUS
  <2>. QED
    BY <1>4, <1>10, <2>1
<1>13. \A S \in SUBSET (1 .. n) : g[S] \in V
  BY <1>1, <1>11, <1>12, FoldKeeps
<1> DEFINE w == [k \in 0 .. n |-> g[1 .. k]]
<1>14. w \in [0 .. n -> V] /\ w[n] = Reverted(n) /\ w[0] = b
  <2>1. \A k \in 0 .. n : 1 .. k \in SUBSET (1 .. n)
    BY <1>1
  <2>2. w \in [0 .. n -> V]
    BY <1>13, <2>1
  <2>3. 1 .. 0 = {} /\ 0 \in 0 .. n /\ n \in 0 .. n
    BY <1>1
  <2>4. g[{}] = b
    <3>1. {} \in SUBSET (1 .. n)
      OBVIOUS
    <3>. QED
      BY <1>10, <3>1
  <2>5. w[n] = Reverted(n)
    BY <1>6, <2>3 DEF g
  <2>6. w[0] = g[{}]
    BY <2>3
  <2>. QED
    BY <2>2, <2>4, <2>5, <2>6
<1>15. ASSUME NEW k \in 1 .. n PROVE w[k] = RevertOne(w[k - 1], s[k])
  <2>1. k \in 0 .. n /\ k - 1 \in 0 .. n
    BY <1>1
  <2>2. /\ 1 .. k \in SUBSET (1 .. n) /\ 1 .. k # {}
        /\ Max(1 .. k) = k /\ (1 .. k) \ {k} = 1 .. k - 1
    BY <1>1, FirstPlaces
  <2>3. g[1 .. k] = RevertOne(g[1 .. k - 1], s[k])
    BY <1>10, <2>2
  <2>. QED
    BY <2>1, <2>3
<1> HIDE DEF w
<1>16. \A k \in 1 .. n : w[k] = RevertOne(w[k - 1], batch[Len(batch) - k + 1])
  BY <1>2, <1>15
<1>17. b = [disk |-> disk, raised |-> FALSE, records |-> <<>>, marks |-> <<>>]
  BY DEF b
<1>. QED
  BY <1>14, <1>16, <1>17 DEF V

\* Undo of any number of records, of which none is of a file of K.
LEMMA RevertedKeeps ==
  ASSUME DiskInv, NEW K \in SUBSET Paths, NEW n \in 0 .. Len(batch),
         \A p \in K : IsFile(disk, p) /\ \A i \in DOMAIN batch : batch[i].path # p
  PROVE  Reverted(n) \in Undoings(K)
<1>1. \E g \in [0 .. n -> Undoings(K)] : g[n] = Reverted(n)
  BY RevertedStages
<1>2. n \in 0 .. n
  BY LenProperties DEF DiskInv
<1>. QED
  BY <1>1, <1>2

-----------------------------------------------------------------------------
(* One record undone.                                                       *)

\* A file goes, and a directory with nothing in it; a tree is left.
LEMMA RemovedLeavesTree ==
  ASSUME NEW d \in Trees, NEW p \in Paths
  PROVE  /\ Removed(d, p) \in Trees
         /\ \A q \in Paths : q # p => Removed(d, p)[q] = d[q]
         /\ ~IsFile(Removed(d, p), p)
<1>1. CASE d[p] = Dir
  <2>1. Removed(d, p) = RmdirIfEmpty(d, p)
    BY <1>1 DEF Removed
  <2>2. Files(Removed(d, p)) = Files(d) /\ ~IsFile(d, p)
    BY <1>1, <2>1, RmdirLeavesTree, KindsDiffer DEF IsFile
  <2>3. Files(Removed(d, p))[p] = Absent
    BY <2>2 DEF Files
  <2>4. ~IsFile(Removed(d, p), p)
    BY <2>3, KindsDiffer DEF Files, IsFile
  <2>. QED
    BY <2>1, <2>4, RmdirLeavesTree
<1>2. CASE d[p] # Dir
  <2>1. Removed(d, p) = [d EXCEPT ![p] = Absent]
    BY <1>2 DEF Removed
  <2>2. \A q \in Paths : Above(p, q) => d[q] = Absent
    BY <1>2, NothingBelow DEF Above
  <2>3. [d EXCEPT ![p] = Absent] \in Trees
    BY <2>2, WriteLeavesTree
  <2>4. d \in Disks
    BY TreesAre
  <2>. QED
    BY <2>1, <2>3, <2>4, KindsDiffer DEF Disks, IsFile
<1>. QED
  BY <1>1, <1>2

\* Taking back a creation leaves a tree without it, and all other files.
LEMMA UncreateLeavesTree ==
  ASSUME NEW d \in Trees, NEW rec \in Record
  PROVE  /\ Uncreate(d, rec) \in Trees
         /\ \A q \in Paths : q # rec.path /\ q \notin ToSet(rec.dirs) => Uncreate(d, rec)[q] = d[q]
         /\ \A q \in Paths : q # rec.path => Files(Uncreate(d, rec))[q] = Files(d)[q]
         /\ Files(Uncreate(d, rec))[rec.path] = Absent
<1> DEFINE n == Len(rec.dirs)
           b == Removed(d, rec.path)
<1>1. rec.path \in Paths /\ rec.dirs \in Seq(Paths)
  BY DEF Record
<1>2. /\ n \in Nat /\ DOMAIN rec.dirs = 1 .. n
      /\ \E g \in [0 .. n -> Keeping(d, {})] :
           /\ g[0] = b /\ g[n] = Uncreate(d, rec)
           /\ \A k \in 1 .. n : g[k] = RmdirIfEmpty(g[k - 1], rec.dirs[n - k + 1])
  <2>1. d \in Disks
    BY TreesAre
  <2>2. {} \in SUBSET Paths /\ \A p \in {} : IsFile(d, p) /\ p # rec.path
    OBVIOUS
  <2>3. /\ n \in Nat /\ DOMAIN rec.dirs = 1 .. n
        /\ \E g \in [0 .. Len(rec.dirs) -> Keeping(d, {})] :
             /\ g[0] = Removed(d, rec.path)
             /\ g[Len(rec.dirs)] = Uncreate(d, rec)
             /\ \A k \in 1 .. Len(rec.dirs) :
                  g[k] = RmdirIfEmpty(g[k - 1], rec.dirs[Len(rec.dirs) - k + 1])
    BY <2>1, <2>2, UncreateStages
  <2>. QED
    BY <2>3
<1> HIDE DEF n, b
<1>3. PICK g \in [0 .. n -> Keeping(d, {})] :
        /\ g[0] = b /\ g[n] = Uncreate(d, rec)
        /\ \A k \in 1 .. n : g[k] = RmdirIfEmpty(g[k - 1], rec.dirs[n - k + 1])
  BY <1>2
<1>4. /\ b \in Trees /\ \A q \in Paths : q # rec.path => b[q] = d[q]
      /\ ~IsFile(b, rec.path)
  BY <1>1, RemovedLeavesTree DEF b
<1> DEFINE S == {k \in 0 .. n : /\ g[k] \in Trees /\ Files(g[k]) = Files(b)
                                /\ \A q \in Paths : q \notin ToSet(rec.dirs) => g[k][q] = b[q]}
<1>5. 0 \in S
  BY <1>2, <1>3, <1>4
<1>6. ASSUME NEW k \in 1 .. n, k - 1 \in S PROVE k \in S
  <2> DEFINE x == g[k - 1]
             p == rec.dirs[n - k + 1]
  <2>1. n - k + 1 \in 1 .. n
    BY <1>2
  <2>2. p \in Paths /\ p \in ToSet(rec.dirs)
    <3>1. n - k + 1 \in DOMAIN rec.dirs
      BY <1>2, <2>1
    <3>2. rec.dirs[n - k + 1] \in Paths
      BY <1>1, <1>2, <2>1, ElementOfSeq
    <3>. QED
      BY <3>1, <3>2 DEF ToSet
  <2>3. x \in Trees /\ Files(x) = Files(b) /\ \A q \in Paths : q \notin ToSet(rec.dirs) => x[q] = b[q]
    BY <1>6
  <2>4. g[k] = RmdirIfEmpty(x, p)
    BY <1>3
  <2> HIDE DEF x, p
  <2>5. /\ g[k] \in Trees /\ Files(g[k]) = Files(x)
        /\ \A q \in Paths : q # p => g[k][q] = x[q]
    BY <2>2, <2>3, <2>4, RmdirLeavesTree
  <2>6. \A q \in Paths : q \notin ToSet(rec.dirs) => g[k][q] = b[q]
    BY <2>2, <2>3, <2>5
  <2>7. k \in 0 .. n
    BY <1>2
  <2>. QED
    BY <2>3, <2>5, <2>6, <2>7
<1> HIDE DEF S
<1>7. n \in S
  <2>1. n \in 0 .. n
    BY <1>2
  <2>. QED
    BY <1>2, <1>5, <1>6, <2>1, NumbersUpTo
<1>8. /\ Uncreate(d, rec) \in Trees /\ Files(Uncreate(d, rec)) = Files(b)
      /\ \A q \in Paths : q \notin ToSet(rec.dirs) => Uncreate(d, rec)[q] = b[q]
  BY <1>3, <1>7 DEF S
<1>9. \A q \in Paths : q # rec.path => Files(b)[q] = Files(d)[q]
  BY <1>4 DEF Files, IsFile
<1>10. Files(b)[rec.path] = Absent
  BY <1>1, <1>4 DEF Files
<1>. QED
  BY <1>1, <1>4, <1>8, <1>9, <1>10

\* Undo cannot tell what the record deleted, an empty file or a directory.
Ambiguous(rec) == rec.tool \in {"delete_path", "rename_path"} /\ rec.before = Empty

\* The record undone: a tree, in which only what leads to its path differs.
LEMMA RevertLeavesTree ==
  ASSUME NEW d \in Trees, NEW rec \in Record, ~Raises(d, rec),
         \A q \in ToSet(rec.dirs) : IsPrefix(q, rec.path),
         rec.before # Absent /\ rec.after = Absent => d[rec.path] = Absent,
         rec.before # Absent /\ rec.after # Absent => d[rec.path] # Absent
  PROVE  /\ Revert(d, rec) \in Trees
         /\ \A q \in Paths : ~IsPrefix(q, rec.path) => Revert(d, rec)[q] = d[q]
         /\ \A q \in Paths : q # rec.path => Files(Revert(d, rec))[q] = Files(d)[q]
         /\ ~Ambiguous(rec) => Files(Revert(d, rec))[rec.path] = rec.before
         /\ rec.before # Absent /\ rec.after # Absent =>
              \A q \in Paths : q # rec.path => Revert(d, rec)[q] = d[q]
<1> DEFINE p == rec.path
           r == Revert(d, rec)
<1>1. p \in Paths /\ rec.before \in Contents \cup {Absent} /\ IsPrefix(p, p)
  BY PrefixOrder DEF Record
<1>2. CASE rec.before = Absent
  <2>1. r = Uncreate(d, rec)
    BY <1>2 DEF Revert
  <2>2. \A q \in Paths : ~IsPrefix(q, p) => q # p /\ q \notin ToSet(rec.dirs)
    BY <1>1
  <2> HIDE DEF r, p
  <2>3. p = rec.path
    BY DEF p
  <2>. QED
    BY <1>2, <2>1, <2>2, <2>3, UncreateLeavesTree DEF r
<1>3. CASE rec.before # Absent /\ rec.after = Absent
  <2> DEFINE g == EnsureParents(d, p)
             v == IF rec.tool \in {"delete_path", "rename_path"} /\ rec.before = Empty
                    THEN Dir ELSE rec.before
  <2>1. r = [g EXCEPT ![p] = v]
    BY <1>3 DEF Revert, Undelete
  <2>2. Reachable(d, p) /\ d[p] = Absent
    BY <1>3 DEF Raises
  <2>3. v \in Contents \cup {Dir}
    BY <1>1, <1>3
  <2>4. ~Ambiguous(rec) => v = rec.before /\ v \in Contents
    BY <1>1, <1>3 DEF Ambiguous
  <2>5. r = Made(d, p, v)
    BY <2>1 DEF Made
  <2> HIDE DEF v, r, p, g
  <2>6. /\ r \in Trees /\ r[p] = v
        /\ \A q \in Paths : Above(q, p) => r[q] = Dir
        /\ \A q \in Paths : q # p /\ ~Above(q, p) => r[q] = d[q]
    BY <1>1, <2>2, <2>3, <2>5, MakingLeavesTree
  <2>7. \A q \in Paths : Above(q, p) => ~IsFile(d, q)
    BY <1>1, <2>2, ReachableIs
  <2>8. \A q \in Paths : ~IsPrefix(q, p) => r[q] = d[q]
    BY <1>1, <2>6 DEF Above
  <2>9. ASSUME NEW q \in Paths, q # p PROVE Files(r)[q] = Files(d)[q]
    <3>1. CASE Above(q, p)
      BY <2>6, <2>7, <3>1, KindsDiffer DEF Files, IsFile
    <3>2. CASE ~Above(q, p)
      BY <2>6, <2>9, <3>2 DEF Files, IsFile
    <3>. QED
      BY <3>1, <3>2
  <2>10. ~Ambiguous(rec) => Files(r)[p] = rec.before
    BY <1>1, <2>4, <2>6 DEF Files, IsFile
  <2>. QED
    BY <1>3, <2>6, <2>8, <2>9, <2>10 DEF r, p
<1>4. CASE rec.before # Absent /\ rec.after # Absent
  <2>1. r = [d EXCEPT ![p] = rec.before]
    BY <1>4 DEF Revert
  <2>2. d[p] # Dir /\ d[p] # Absent /\ rec.before \in Contents
    BY <1>1, <1>4 DEF Raises
  <2>3. \A q \in Paths : Above(p, q) => d[q] = Absent
    BY <1>1, <2>2, NothingBelow DEF Above
  <2>4. \A q \in Paths : Above(q, p) => d[q] = Dir
    BY <1>1, <2>2, TreesAre
  <2>5. r \in Trees
    <3>1. rec.before \in Contents \cup {Absent, Dir}
      BY <2>2
    <3>2. rec.before # Absent => \A q \in Paths : Above(q, p) => d[q] = Dir
      BY <2>4
    <3>3. rec.before # Dir => \A q \in Paths : Above(p, q) => d[q] = Absent
      BY <2>3
    <3>4. [d EXCEPT ![p] = rec.before] \in Trees
      BY <1>1, <3>1, <3>2, <3>3, WriteLeavesTree
    <3>. QED
      BY <2>1, <3>4
  <2>6. d \in Disks
    BY TreesAre
  <2>7. r[p] = rec.before /\ \A q \in Paths : q # p => r[q] = d[q]
    BY <1>1, <2>1, <2>6 DEF Disks
  <2> HIDE DEF r, p
  <2>8. \A q \in Paths : q # p => Files(r)[q] = Files(d)[q]
    BY <2>7 DEF Files, IsFile
  <2>9. Files(r)[p] = rec.before
    BY <1>1, <2>2, <2>7 DEF Files, IsFile
  <2>10. \A q \in Paths : ~IsPrefix(q, p) => r[q] = d[q]
    BY <1>1, <2>7
  <2>. QED
    BY <2>5, <2>7, <2>8, <2>9, <2>10 DEF r, p
<1>. QED
  BY <1>2, <1>3, <1>4

-----------------------------------------------------------------------------
(* The newest batch, and what undo makes of it.                             *)

\* No path of the batch leads to another.
Apart(rs) == \A i, j \in DOMAIN rs : IsPrefix(rs[i].path, rs[j].path) => i = j

\* The directories made for what was created lead to it.
DirsAbove(rs) == \A i \in DOMAIN rs : \A q \in ToSet(rs[i].dirs) : IsPrefix(q, rs[i].path)

\* What undo relies on.
BatchInv == DiskInv /\ disk \in Trees /\ Apart(batch) /\ DirsAbove(batch)

\* Nothing of the batch created or deleted anything.
Overwrites == \A i \in DOMAIN batch : batch[i].before # Absent /\ batch[i].after # Absent

\* The path is not one of the last k of the batch.
Untouched(p, k) == \A j \in Len(batch) - k + 1 .. Len(batch) : batch[j].path # p

\* What the undo of a record writes to the journal, in terms of the disk the
\* undo began with.
UndoneRecord(rec) == Rec("undo_edit", rec.path, Files(disk)[rec.path], rec.before, <<>>)

\* Where undo stands after the last k records.
Undone(k, s) ==
  /\ s.disk \in Trees
  /\ ~s.raised
  /\ \A j \in 1 .. Len(batch) - k : \A q \in Paths :
       IsPrefix(batch[j].path, q) => s.disk[q] = disk[q]
  /\ \A p \in Paths : Untouched(p, k) => Files(s.disk)[p] = Files(disk)[p]
  /\ \A j \in Len(batch) - k + 1 .. Len(batch) :
       ~Ambiguous(batch[j]) => Files(s.disk)[batch[j].path] = batch[j].before
  /\ Overwrites => \A p \in Paths : Untouched(p, k) => s.disk[p] = disk[p]
  /\ Len(s.records) = k
  /\ \A i \in 1 .. k : s.records[i] = UndoneRecord(batch[Len(batch) - i + 1])

\* The records of a journal, one by one.
LEMMA RecordsAre ==
  ASSUME NEW rs \in Seq(Record)
  PROVE  /\ Len(rs) \in Nat /\ DOMAIN rs = 1 .. Len(rs)
         /\ \A i \in 1 .. Len(rs) :
              /\ rs[i] \in Record /\ rs[i].path \in Paths
              /\ rs[i].before \in Contents \cup {Absent}
              /\ rs[i].after \in Contents \cup {Absent}
<1> DEFINE R == Record
<1>1. rs \in Seq(R) /\ R \in SUBSET Record
  OBVIOUS
<1> HIDE DEF R
<1>2. Len(rs) \in Nat /\ DOMAIN rs = 1 .. Len(rs) /\ \A i \in 1 .. Len(rs) : rs[i] \in R
  BY <1>1
<1>3. \A x \in R : /\ x.path \in Paths /\ x.before \in Contents \cup {Absent}
                  /\ x.after \in Contents \cup {Absent}
  BY <1>1 DEF Record
<1>. QED
  BY <1>1, <1>2, <1>3

\* Nothing is undone yet.
LEMMA UndoneAtFirst ==
  ASSUME BatchInv
  PROVE  Undone(0, [disk |-> disk, raised |-> FALSE, records |-> <<>>, marks |-> <<>>])
<1>1. disk \in Trees /\ Len(batch) \in Nat /\ Len(<<>>) = 0
  BY DEF BatchInv, DiskInv
<1>2. Len(batch) - 0 + 1 .. Len(batch) = {} /\ 1 .. 0 = {}
  BY <1>1
<1>. QED
  BY <1>1, <1>2 DEF Undone

\* One record more is undone: what the check found at its path is still there.
LEMMA OneMoreUndone ==
  ASSUME BatchInv, CanUndo, NEW k \in 1 .. Len(batch), NEW s \in Undoings({}),
         Undone(k - 1, s), ~RevertOne(s, batch[Len(batch) - k + 1]).raised
  PROVE  /\ Undone(k, RevertOne(s, batch[Len(batch) - k + 1]))
         /\ RevertOne(s, batch[Len(batch) - k + 1]).disk = Revert(s.disk, batch[Len(batch) - k + 1])
<1> DEFINE rec == batch[Len(batch) - k + 1]
           e == Revert(s.disk, rec)
           t == RevertOne(s, rec)
           m == Len(batch)
<1>1. /\ m \in Nat /\ DOMAIN batch = 1 .. m
      /\ m - k + 1 \in 1 .. m /\ m - (k - 1) = m - k + 1
      /\ m - (k - 1) + 1 = m - k + 2
  BY DEF BatchInv, DiskInv
<1>2. rec \in Record /\ rec.path \in Paths /\ rec.before \in Contents \cup {Absent}
  BY <1>1, RecordsAre DEF BatchInv, DiskInv
<1>3. ~s.raised /\ ~Raises(s.disk, rec)
  <2>1. s.raised \/ Raises(s.disk, rec) => t = [s EXCEPT !.raised = TRUE]
    BY DEF RevertOne
  <2>2. [s EXCEPT !.raised = TRUE].raised = TRUE
    BY DEF Undoings
  <2>. QED
    BY <2>1, <2>2
<1>4. /\ t.disk = e /\ ~t.raised
      /\ t.records = Append(s.records, UndoRecord(s.disk, rec))
  BY <1>3 DEF RevertOne
<1>5. /\ s.disk \in Trees
      /\ \A j \in 1 .. m - k + 1 : \A q \in Paths :
           IsPrefix(batch[j].path, q) => s.disk[q] = disk[q]
      /\ \A p \in Paths : Untouched(p, k - 1) => Files(s.disk)[p] = Files(disk)[p]
      /\ \A j \in m - k + 2 .. m :
           ~Ambiguous(batch[j]) => Files(s.disk)[batch[j].path] = batch[j].before
      /\ Overwrites => \A p \in Paths : Untouched(p, k - 1) => s.disk[p] = disk[p]
      /\ Len(s.records) = k - 1
      /\ \A i \in 1 .. k - 1 : s.records[i] = UndoneRecord(batch[m - i + 1])
  BY <1>1 DEF Undone
<1>6. s.disk[rec.path] = disk[rec.path] /\ Files(s.disk)[rec.path] = Files(disk)[rec.path]
  <2>1. m - k + 1 \in 1 .. m - k + 1
    BY <1>1
  <2>2. IsPrefix(rec.path, rec.path)
    BY <1>2, PrefixOrder
  <2>3. \A q \in Paths : IsPrefix(rec.path, q) => s.disk[q] = disk[q]
    BY <1>5, <2>1
  <2>4. s.disk[rec.path] = disk[rec.path]
    BY <1>2, <2>2, <2>3
  <2>. QED
    BY <1>2, <2>4 DEF Files, IsFile
<1>7. Verified(rec)
  BY <1>1 DEF CanUndo
<1>8. /\ rec.after = Absent => disk[rec.path] = Absent
      /\ rec.after # Absent => disk[rec.path] # Absent
  BY <1>7, KindsDiffer DEF Verified
<1>9. \A q \in ToSet(rec.dirs) : IsPrefix(q, rec.path)
  BY <1>1 DEF BatchInv, DirsAbove
<1>10. \A j \in 1 .. m : \A q \in Paths :
         j # m - k + 1 /\ IsPrefix(batch[j].path, q) => ~IsPrefix(q, rec.path)
  <2> SUFFICES ASSUME NEW j \in 1 .. m, NEW q \in Paths, IsPrefix(batch[j].path, q),
                      IsPrefix(q, rec.path)
               PROVE  j = m - k + 1
    OBVIOUS
  <2>1. batch[j].path \in Paths
    BY <1>1, RecordsAre DEF BatchInv, DiskInv
  <2>2. IsPrefix(batch[j].path, rec.path)
    BY <1>2, <2>1, PrefixOrder
  <2>. QED
    BY <1>1, <2>2 DEF BatchInv, Apart
<1> HIDE DEF rec, e, t, m
<1>11. /\ e \in Trees
       /\ \A q \in Paths : ~IsPrefix(q, rec.path) => e[q] = s.disk[q]
       /\ \A q \in Paths : q # rec.path => Files(e)[q] = Files(s.disk)[q]
       /\ ~Ambiguous(rec) => Files(e)[rec.path] = rec.before
       /\ rec.before # Absent /\ rec.after # Absent =>
              \A q \in Paths : q # rec.path => e[q] = s.disk[q]
  BY <1>2, <1>3, <1>5, <1>6, <1>8, <1>9, RevertLeavesTree DEF e
<1>12. ASSUME NEW j \in 1 .. m, j # m - k + 1 PROVE batch[j].path \in Paths /\ batch[j].path # rec.path
  <2>1. batch[j].path \in Paths
    BY <1>1, <1>12, RecordsAre DEF BatchInv, DiskInv
  <2>. QED
    BY <1>10, <1>12, <2>1, PrefixOrder
<1>13. batch[m - k + 1] = rec
  BY DEF rec, m
<1>14. \A p \in Paths : Untouched(p, k) => p # rec.path /\ Untouched(p, k - 1)
  <2> SUFFICES ASSUME NEW p \in Paths, Untouched(p, k) PROVE p # rec.path /\ Untouched(p, k - 1)
    OBVIOUS
  <2>1. \A j \in m - k + 1 .. m : batch[j].path # p
    BY DEF Untouched, m
  <2>2. m - k + 1 \in m - k + 1 .. m /\ \A j \in m - k + 2 .. m : j \in m - k + 1 .. m
    BY <1>1
  <2>3. \A j \in m - (k - 1) + 1 .. m : batch[j].path # p
    BY <1>1, <2>1, <2>2
  <2>. QED
    BY <1>13, <2>1, <2>2, <2>3 DEF Untouched, m
<1>15. \A j \in 1 .. m - k : \A q \in Paths : IsPrefix(batch[j].path, q) => e[q] = disk[q]
  <2>1. \A j \in 1 .. m - k : j \in 1 .. m - k + 1 /\ j \in 1 .. m /\ j # m - k + 1
    BY <1>1
  <2>. QED
    BY <1>5, <1>10, <1>11, <2>1
<1>16. \A p \in Paths : Untouched(p, k) => Files(e)[p] = Files(disk)[p]
  BY <1>5, <1>11, <1>14
<1>17. ASSUME NEW j \in m - k + 1 .. m, ~Ambiguous(batch[j])
       PROVE  Files(e)[batch[j].path] = batch[j].before
  <2>1. CASE j = m - k + 1
    BY <1>11, <1>13, <1>17, <2>1
  <2>2. CASE j # m - k + 1
    <3>1. j \in 1 .. m /\ j \in m - k + 2 .. m
      BY <1>1, <2>2
    <3>. QED
      BY <1>5, <1>11, <1>12, <1>17, <2>2, <3>1
  <2>. QED
    BY <2>1, <2>2
<1>18. Overwrites => \A p \in Paths : Untouched(p, k) => e[p] = disk[p]
  <2> SUFFICES ASSUME Overwrites, NEW p \in Paths, Untouched(p, k) PROVE e[p] = disk[p]
    OBVIOUS
  <2>1. rec.before # Absent /\ rec.after # Absent
    BY <1>1, <1>13 DEF Overwrites
  <2>. QED
    BY <1>5, <1>11, <1>14, <2>1
<1>19. UndoRecord(s.disk, rec) = UndoneRecord(rec)
  <2>1. rec.after = Absent => Files(disk)[rec.path] = Absent
    BY <1>2, <1>8, KindsDiffer DEF Files, IsFile
  <2>. QED
    BY <1>6, <2>1 DEF UndoRecord, UndoneRecord
<1>20. /\ Len(t.records) = k
       /\ \A i \in 1 .. k : t.records[i] = UndoneRecord(batch[m - i + 1])
  <2>1. s.records \in Seq(Record) /\ k \in Nat
    BY <1>1 DEF Undoings
  <2>2. t.records = Append(s.records, UndoneRecord(rec))
    BY <1>4, <1>19
  <2>3. /\ Len(t.records) = k /\ t.records[k] = UndoneRecord(rec)
        /\ \A i \in 1 .. k - 1 : t.records[i] = s.records[i]
    BY <1>5, <2>1, <2>2
  <2>4. \A i \in 1 .. k : i = k \/ i \in 1 .. k - 1
    BY <2>1
  <2>. QED
    BY <1>5, <1>13, <2>3, <2>4
<1>21. Undone(k, t)
  BY <1>4, <1>11, <1>15, <1>16, <1>17, <1>18, <1>20 DEF Undone, m
<1>. QED
  BY <1>4, <1>21 DEF t, e, rec, m

\* As many records as are undone at all are undone like this, one at a time.
LEMMA UndoneStages ==
  ASSUME BatchInv, CanUndo, NEW n \in 0 .. Len(batch), ~Reverted(n).raised
  PROVE  \E g \in [0 .. n -> Undoings({})] :
           /\ g[0].disk = disk
           /\ g[n] = Reverted(n)
           /\ \A k \in 0 .. n : Undone(k, g[k])
           /\ \A k \in 1 .. n : g[k].disk = Revert(g[k - 1].disk, batch[Len(batch) - k + 1])
<1> DEFINE b == [disk |-> disk, raised |-> FALSE, records |-> <<>>, marks |-> <<>>]
<1>1. {} \in SUBSET Paths /\ \A p \in {} : IsFile(disk, p) /\ \A i \in DOMAIN batch : batch[i].path # p
  OBVIOUS
<1>2. DiskInv /\ Len(batch) \in Nat /\ n \in Nat
  BY DEF BatchInv, DiskInv
<1>3. PICK g \in [0 .. n -> Undoings({})] :
        /\ g[0] = b /\ g[n] = Reverted(n)
        /\ \A k \in 1 .. n : g[k] = RevertOne(g[k - 1], batch[Len(batch) - k + 1])
  BY <1>1, <1>2, RevertedStages
<1> DEFINE T == {k \in 0 .. n : ~g[n - k].raised}
<1>4. \A k \in 0 .. n : k \in T
  <2>1. 0 \in T
    BY <1>2, <1>3
  <2>2. ASSUME NEW k \in 1 .. n, k - 1 \in T PROVE k \in T
    <3>1. /\ n - k + 1 \in 1 .. n /\ n - (k - 1) = n - k + 1 /\ (n - k + 1) - 1 = n - k
          /\ k \in 0 .. n /\ n - k \in 0 .. n
      BY <1>2
    <3>2. ~g[n - k + 1].raised
      BY <2>2, <3>1
    <3>3. \E rec : g[n - k + 1] = RevertOne(g[n - k], rec)
      BY <1>3, <3>1
    <3>4. g[n - k] \in Undoings({})
      BY <3>1
    <3>5. g[n - k].raised => g[n - k + 1].raised
      BY <3>3, <3>4 DEF RevertOne, Undoings
    <3>. QED
      BY <3>1, <3>2, <3>5
  <2> HIDE DEF T
  <2>. QED
    BY <1>2, <2>1, <2>2, NumbersUpTo
<1>5. \A k \in 0 .. n : ~g[k].raised
  <2>1. \A k \in 0 .. n : n - k \in 0 .. n /\ n - (n - k) = k
    BY <1>2
  <2>. QED
    BY <1>4, <2>1
<1> DEFINE S == {k \in 0 .. n : Undone(k, g[k])}
<1>6. 0 \in S
  <2>1. Undone(0, g[0])
    BY <1>3, UndoneAtFirst
  <2>. QED
    BY <1>2, <2>1
<1>7. \A k \in 1 .. n : k \in 1 .. Len(batch) /\ k \in 0 .. n /\ k - 1 \in 0 .. n
  BY <1>2
<1>8. ASSUME NEW k \in 1 .. n, Undone(k - 1, g[k - 1])
      PROVE  /\ Undone(k, g[k])
             /\ g[k].disk = Revert(g[k - 1].disk, batch[Len(batch) - k + 1])
  <2>1. g[k - 1] \in Undoings({}) /\ ~g[k].raised /\ k \in 1 .. Len(batch)
    BY <1>5, <1>7
  <2>2. g[k] = RevertOne(g[k - 1], batch[Len(batch) - k + 1])
    BY <1>3
  <2>. QED
    BY <1>8, <2>1, <2>2, OneMoreUndone
<1>9. \A k \in 0 .. n : k \in S
  <2>1. \A k \in 1 .. n : k - 1 \in S => k \in S
    BY <1>7, <1>8
  <2> HIDE DEF S
  <2>. QED
    BY <1>2, <1>6, <2>1, NumbersUpTo
<1>10. \A k \in 1 .. n : g[k].disk = Revert(g[k - 1].disk, batch[Len(batch) - k + 1])
  <2>1. \A k \in 1 .. n : Undone(k - 1, g[k - 1])
    BY <1>7, <1>9
  <2> HIDE DEF S
  <2>. QED
    BY <1>8, <2>1
<1>11. \A k \in 0 .. n : Undone(k, g[k])
  BY <1>9
<1>12. g[0].disk = disk /\ g[n] = Reverted(n)
  BY <1>3
<1> HIDE DEF S, b
<1>. QED
  BY <1>10, <1>11, <1>12

-----------------------------------------------------------------------------
(* What was created, with its parents, and taken back.                      *)

\* The paths dirs: all that is missing above p, the outermost first, and
\* perhaps p.
Lacks(d, p, dirs) ==
  /\ \A i \in DOMAIN dirs : IsPrefix(dirs[i], p) /\ d[dirs[i]] = Absent
  /\ \A q \in Paths : Above(q, p) /\ d[q] = Absent => \E i \in DOMAIN dirs : dirs[i] = q
  /\ \A i, j \in DOMAIN dirs : i < j => Above(dirs[i], dirs[j])

\* The parents that are missing are paths of the workspace.
LEMMA MissingAreTyped ==
  ASSUME NEW d, NEW p \in Paths
  PROVE  MissingParents(d, p) \in Seq(Paths) /\ Append(MissingParents(d, p), p) \in Seq(Paths)
<1> DEFINE a == Ancestors(p)
           S == {i \in DOMAIN a : d[a[i]] # Absent}
           P == Paths
<1>1. a \in Seq(P) /\ S \in SUBSET DOMAIN a
  BY AncestorsAre
<1>2. MissingParents(d, p) = But(a, S)
  BY DEF MissingParents
<1> HIDE DEF a, S, P
<1>3. MissingParents(d, p) \in Seq(P)
  BY <1>1, <1>2, ButProperties
<1>4. p \in P
  BY DEF P
<1>5. Append(MissingParents(d, p), p) \in Seq(P)
  BY <1>3, <1>4
<1>. QED
  BY <1>3, <1>5 DEF P

\* The directories a creation records are all that it lacked.
LEMMA MissingAre ==
  ASSUME NEW d, NEW p \in Paths, d[p] = Absent
  PROVE  /\ Lacks(d, p, MissingParents(d, p))
         /\ Lacks(d, p, Append(MissingParents(d, p), p))
<1> DEFINE a == Ancestors(p)
           S == {i \in DOMAIN a : d[a[i]] # Absent}
           P == Paths
           b == MissingParents(d, p)
           c == Append(b, p)
<1>1. a \in Seq(P) /\ S \in SUBSET DOMAIN a /\ Len(p) \in Nat /\ DOMAIN a = 1 .. Len(p) - 1
  BY AncestorsAre, PathIs
<1>2. b = But(a, S)
  BY DEF MissingParents
<1>3. \A i \in DOMAIN a : /\ a[i] \in Paths /\ Len(a[i]) = i /\ Above(a[i], p)
                          /\ IsPrefix(a[i], p) /\ a[i] # p
  <2>1. \A i \in DOMAIN a : a[i] \in Paths /\ Len(a[i]) = i /\ a[i] \in ToSet(a)
    BY AncestorsAre DEF ToSet
  <2>. QED
    BY <2>1, AncestorsAre DEF Above
<1>4. \A q \in Paths : Above(q, p) => \E i \in DOMAIN a : a[i] = q
  BY AncestorsAre DEF ToSet
<1>5. ASSUME NEW i \in DOMAIN a, NEW j \in DOMAIN a, i < j PROVE Above(a[i], a[j])
  <2>1. i \in Nat /\ j \in Nat
    BY <1>1
  <2>2. IsPrefix(a[j], a[i]) => Len(a[j]) <= Len(a[i])
    BY <1>3, PrefixIs
  <2>3. ~IsPrefix(a[j], a[i]) /\ a[i] # a[j]
    BY <1>3, <1>5, <2>1, <2>2
  <2>4. IsPrefix(a[i], a[j])
    BY <1>3, <2>3, PrefixOrder
  <2>. QED
    BY <2>3, <2>4 DEF Above
<1>6. \A i \in DOMAIN a : i \notin S <=> d[a[i]] = Absent
  OBVIOUS
<1> HIDE DEF a, S, P
<1>7. b \in Seq(P)
  BY <1>1, <1>2, ButProperties
<1> HIDE DEF b
<1>8. PICK f \in [DOMAIN b -> DOMAIN a \ S] :
        /\ Increasing(f)
        /\ \A i \in DOMAIN b : b[i] = a[f[i]]
        /\ \A j \in DOMAIN a \ S : \E i \in DOMAIN b : f[i] = j
  BY <1>1, <1>2, ButPlaces
<1>9. \A i \in DOMAIN b : /\ f[i] \in DOMAIN a /\ b[i] = a[f[i]] /\ b[i] \in Paths
                          /\ IsPrefix(b[i], p) /\ d[b[i]] = Absent /\ Above(b[i], p)
  BY <1>3, <1>6, <1>8
<1>10. \A q \in Paths : Above(q, p) /\ d[q] = Absent => \E i \in DOMAIN b : b[i] = q
  <2> SUFFICES ASSUME NEW q \in Paths, Above(q, p), d[q] = Absent PROVE \E i \in DOMAIN b : b[i] = q
    OBVIOUS
  <2>1. PICK j \in DOMAIN a : a[j] = q
    BY <1>4
  <2>2. PICK i \in DOMAIN b : f[i] = j
    BY <1>6, <1>8, <2>1
  <2>. QED
    BY <1>8, <2>1, <2>2
<1>11. \A i, j \in DOMAIN b : i < j => Above(b[i], b[j])
  <2>1. \A i, j \in DOMAIN b : i < j => f[i] < f[j]
    BY <1>8 DEF Increasing
  <2>. QED
    BY <1>5, <1>9, <2>1
<1>12. Lacks(d, p, b)
  BY <1>9, <1>10, <1>11 DEF Lacks
<1>13. p \in P /\ IsPrefix(p, p)
  BY PrefixOrder DEF P
<1>14. /\ Len(b) \in Nat /\ DOMAIN b = 1 .. Len(b) /\ DOMAIN c = 1 .. Len(b) + 1
       /\ c[Len(b) + 1] = p /\ \A i \in 1 .. Len(b) : c[i] = b[i]
  BY <1>7, <1>13
<1> HIDE DEF c
<1>15. \A i \in DOMAIN c : i \in DOMAIN b \/ i = Len(b) + 1
  BY <1>14
<1>16. \A i \in DOMAIN c : IsPrefix(c[i], p) /\ d[c[i]] = Absent
  BY <1>9, <1>13, <1>14, <1>15
<1>17. \A q \in Paths : Above(q, p) /\ d[q] = Absent => \E i \in DOMAIN c : c[i] = q
  <2>1. \A i \in DOMAIN b : i \in DOMAIN c /\ c[i] = b[i]
    BY <1>14
  <2>. QED
    BY <1>10, <2>1
<1>18. ASSUME NEW i \in DOMAIN c, NEW j \in DOMAIN c, i < j PROVE Above(c[i], c[j])
  <2>1. i \in DOMAIN b /\ c[i] = b[i]
    BY <1>14, <1>18
  <2>2. CASE j \in DOMAIN b
    BY <1>11, <1>14, <1>18, <2>1, <2>2
  <2>3. CASE j = Len(b) + 1
    BY <1>9, <1>14, <2>1, <2>3
  <2>. QED
    BY <1>15, <2>2, <2>3
<1>19. Lacks(d, p, c)
  BY <1>16, <1>17, <1>18 DEF Lacks
<1>. QED
  BY <1>12, <1>19 DEF b, c

\* A creation taken back: as if it had never been.
LEMMA UncreateIsExact ==
  ASSUME NEW d \in Trees, NEW rec \in Record, d[rec.path] = Absent, Reachable(d, rec.path),
         Lacks(d, rec.path, rec.dirs), NEW v \in Contents \cup {Dir}
  PROVE  Uncreate(Made(d, rec.path, v), rec) = d
<1> DEFINE p == rec.path
           B == rec.dirs
           n == Len(rec.dirs)
           e == Made(d, p, v)
<1>1. p \in Paths /\ B \in Seq(Paths)
  BY DEF Record
<1>2. /\ e \in Trees /\ e[p] = v
      /\ \A q \in Paths : Above(q, p) => e[q] = Dir
      /\ \A q \in Paths : q # p /\ ~Above(q, p) => e[q] = d[q]
  BY <1>1, MakingLeavesTree
<1>3. e \in Disks /\ d \in Disks
  BY <1>2, TreesAre
<1>4. /\ n \in Nat /\ DOMAIN B = 1 .. n
      /\ \E g \in [0 .. n -> Keeping(e, {})] :
           /\ g[0] = Removed(e, p)
           /\ g[n] = Uncreate(e, rec)
           /\ \A k \in 1 .. n : g[k] = RmdirIfEmpty(g[k - 1], B[n - k + 1])
  <2> HIDE DEF e
  <2>1. {} \in SUBSET Paths /\ \A q \in {} : IsFile(e, q) /\ q # rec.path
    OBVIOUS
  <2>. QED
    BY <1>3, <2>1, UncreateStages
<1>5. \A i \in 1 .. n : B[i] \in Paths
  BY <1>1, <1>4, ElementOfSeq
<1>6. /\ \A i \in 1 .. n : IsPrefix(B[i], p) /\ d[B[i]] = Absent
      /\ \A q \in Paths : Above(q, p) /\ d[q] = Absent => \E i \in 1 .. n : B[i] = q
      /\ \A i, j \in 1 .. n : i < j => Above(B[i], B[j])
  BY <1>4 DEF Lacks
<1>7. d[p] = Absent /\ \A q \in Paths : Above(q, p) => ~IsFile(d, q)
  BY <1>1, ReachableIs
<1>8. e = Made(d, p, v)
  OBVIOUS
<1> HIDE DEF p, B, n, e
<1>9. PICK g \in [0 .. n -> Keeping(e, {})] :
        /\ g[0] = Removed(e, p)
        /\ g[n] = Uncreate(e, rec)
        /\ \A k \in 1 .. n : g[k] = RmdirIfEmpty(g[k - 1], B[n - k + 1])
  BY <1>4
\* What is left once the last k of the missing parents are gone.
<1> DEFINE Taken(k, q) == \E i \in n - k + 1 .. n : B[i] = q
           Rest(k, x) == \A q \in Paths : x[q] = IF Above(q, p) /\ ~Taken(k, q) THEN Dir ELSE d[q]
           S == {k \in 0 .. n : Rest(k, g[k])}
<1>10. \A k \in 0 .. n : g[k] \in Disks
  BY <1>9 DEF Keeping
<1>11. 0 \in S
  <2>1. \A q \in Paths : Above(p, q) => e[q] = Absent
    <3> SUFFICES ASSUME NEW q \in Paths, Above(p, q) PROVE e[q] = Absent
      OBVIOUS
    <3>1. d[q] = Absent
      BY <1>1, <1>7, NothingBelow, KindsDiffer DEF Above
    <3>2. q # p /\ ~Above(q, p)
      BY <1>1, AboveOrder DEF Above
    <3>. QED
      BY <1>2, <3>1, <3>2
  <2>2. Removed(e, p) = [e EXCEPT ![p] = Absent]
    BY <1>1, <2>1, BelowIs DEF Removed, RmdirIfEmpty
  <2>3. \A q \in Paths : ~Taken(0, q)
    BY <1>4
  <2>4. ~Above(p, p)
    BY <1>1, AboveOrder
  <2>5. \A q \in Paths : g[0][q] = IF q = p THEN Absent ELSE e[q]
    BY <1>1, <1>3, <1>9, <2>2 DEF Disks
  <2>. QED
    BY <1>2, <1>4, <1>7, <2>3, <2>4, <2>5
<1>12. ASSUME NEW k \in 1 .. n, Rest(k - 1, g[k - 1]) PROVE Rest(k, g[k])
  <2> DEFINE c == B[n - k + 1]
             x == g[k - 1]
  <2>1. /\ n - k + 1 \in 1 .. n /\ k - 1 \in 0 .. n /\ n - (k - 1) + 1 = n - k + 2
        /\ \A i \in n - k + 2 .. n : i \in n - k + 1 .. n /\ i \in 1 .. n
        /\ \A i \in n - k + 1 .. n : i = n - k + 1 \/ i \in n - k + 2 .. n
        /\ \A i \in 1 .. n : i \notin n - k + 2 .. n => i = n - k + 1 \/ i < n - k + 1
    BY <1>4
  <2>2. c \in Paths /\ IsPrefix(c, p) /\ d[c] = Absent /\ x \in Disks
    BY <1>5, <1>6, <1>10, <2>1
  <2>3. g[k] = RmdirIfEmpty(x, c)
    BY <1>9
  <2>4. \A q \in Paths : Taken(k, q) <=> q = c \/ Taken(k - 1, q)
    BY <2>1
  <2>5. \A q \in Paths : x[q] = IF Above(q, p) /\ ~Taken(k - 1, q) THEN Dir ELSE d[q]
    BY <1>12
  <2>6. \A q \in Paths : Above(q, p) /\ d[q] = Absent /\ Above(c, q) => Taken(k - 1, q)
    <3> SUFFICES ASSUME NEW q \in Paths, Above(q, p), d[q] = Absent, Above(c, q)
                 PROVE  Taken(k - 1, q)
      OBVIOUS
    <3>1. PICK i \in 1 .. n : B[i] = q
      BY <1>6
    <3>2. i # n - k + 1
      BY <2>2, <3>1, AboveOrder
    <3>3. ~(i < n - k + 1)
      <4>1. i < n - k + 1 => Above(q, c)
        BY <1>6, <2>1, <3>1
      <4>2. ~(Above(q, c) /\ Above(c, q))
        BY <2>2, AboveOrder
      <4>. QED
        BY <4>1, <4>2
    <3>4. i \in n - (k - 1) + 1 .. n
      BY <2>1, <3>2, <3>3
    <3>. QED
      BY <3>1, <3>4
  <2> HIDE DEF c, x, Taken
  <2>7. \A q \in Below(c) : x[q] = Absent
    <3> SUFFICES ASSUME NEW q \in Paths, Above(c, q) PROVE x[q] = Absent
      BY <2>2, BelowIs
    <3>1. d[q] = Absent
      BY <2>2, NothingBelow, KindsDiffer DEF Above
    <3>. QED
      BY <2>5, <2>6, <3>1
  <2>8. \A q \in Paths : RmdirIfEmpty(x, c)[q] = IF q = c THEN Absent ELSE x[q]
    <3>1. x[c] \in {Dir, Absent}
      BY <2>2, <2>5
    <3>2. CASE x[c] = Dir
      BY <2>2, <2>7, <3>2 DEF RmdirIfEmpty, Disks
    <3>3. CASE x[c] = Absent
      BY <2>2, <3>3, KindsDiffer DEF RmdirIfEmpty
    <3>. QED
      BY <3>1, <3>2, <3>3
  <2>. QED
    BY <2>2, <2>3, <2>4, <2>5, <2>8
<1> HIDE DEF Rest
<1>13. n \in S
  <2>1. \A k \in 1 .. n : k - 1 \in S => k \in S
    <3>1. \A k \in 1 .. n : k \in 0 .. n
      BY <1>4
    <3>. QED
      BY <1>12, <3>1
  <2> HIDE DEF S
  <2>2. n \in 0 .. n
    BY <1>4
  <2>. QED
    BY <1>4, <1>11, <2>1, <2>2, NumbersUpTo
<1>14. \A q \in Paths : g[n][q] = d[q]
  <2>1. \A q \in Paths : g[n][q] = IF Above(q, p) /\ ~Taken(n, q) THEN Dir ELSE d[q]
    BY <1>13 DEF Rest
  <2>2. n - n + 1 = 1
    BY <1>4
  <2>3. \A q \in Paths : Above(q, p) /\ d[q] = Absent => Taken(n, q)
    BY <1>6, <2>2
  <2>4. \A q \in Paths : d[q] \in Contents \cup {Absent, Dir}
    BY <1>3 DEF Disks
  <2> HIDE DEF Taken
  <2>5. \A q \in Paths : Above(q, p) /\ d[q] # Absent => d[q] = Dir
    BY <1>7, <2>4 DEF IsFile
  <2>. QED
    BY <2>1, <2>3, <2>5
<1>15. g[n] = d
  <2>1. g[n] \in Disks
    BY <1>4, <1>10
  <2>. QED
    BY <1>3, <1>14, <2>1 DEF Disks
<1>. QED
  BY <1>9, <1>15 DEF e, p

-----------------------------------------------------------------------------
(* What the newest batch says of the disk before it and after it.           *)

\* Whatever lies elsewhere is the same on both disks.
Elsewhere(rs, p) == \A i \in DOMAIN rs : rs[i].path # p

\* No record deletes b"": undo knows files from directories.
Plain(rs) == \A i \in DOMAIN rs : ~Ambiguous(rs[i])

\* The bytes before, of the files of the batch and of all others.
FilesDiffer(rs, d, e) ==
  /\ \A p \in Paths : Elsewhere(rs, p) => Files(d)[p] = Files(e)[p]
  /\ \A i \in DOMAIN rs : Files(d)[rs[i].path] = rs[i].before

\* Files were overwritten.
OnlyEdits(rs, d, e) ==
  /\ \A i \in DOMAIN rs : /\ rs[i].before # Absent /\ rs[i].after # Absent
                          /\ d[rs[i].path] = rs[i].before
  /\ \A p \in Paths : Elsewhere(rs, p) => d[p] = e[p]

\* The record is of a creation on the disk d.
CreatedBy(rec, d) ==
  /\ rec.before = Absent /\ d[rec.path] = Absent
  /\ Reachable(d, rec.path) /\ Lacks(d, rec.path, rec.dirs)

\* A file or a directory was created, and the parents it lacked.
OneCreated(rs, d, e) ==
  /\ Len(rs) = 1 /\ CreatedBy(rs[1], d)
  /\ \E v \in Contents \cup {Dir} : e = Made(d, rs[1].path, v)

\* The record is of a deletion of bytes on the disk d.
DeletedBy(rec, d) ==
  rec.before \in Contents /\ rec.after = Absent /\ d[rec.path] = rec.before

\* A file was deleted.
OneDeleted(rs, d, e) ==
  /\ Len(rs) = 1 /\ DeletedBy(rs[1], d)
  /\ e = [d EXCEPT ![rs[1].path] = Absent]

\* A file was renamed: created at one path, deleted at the other.
OneRenamed(rs, d, e) ==
  /\ Len(rs) = 2 /\ CreatedBy(rs[1], d) /\ DeletedBy(rs[2], d)
  /\ e = [Made(d, rs[1].path, rs[2].before) EXCEPT ![rs[2].path] = Absent]

\* A batch that is no undo is one of these, directories included.
Exact(rs, d, e) ==
  (\A i \in DOMAIN rs : rs[i].tool # "undo_edit") =>
    \/ OnlyEdits(rs, d, e) \/ OneCreated(rs, d, e)
    \/ OneDeleted(rs, d, e) \/ OneRenamed(rs, d, e)

\* The batch rs took the disk from d to e.
Took(rs, d, e) ==
  /\ rs \in Seq(Record) /\ d \in Trees /\ e \in Trees
  /\ Apart(rs) /\ DirsAbove(rs)
  /\ Plain(rs) => FilesDiffer(rs, d, e) /\ Exact(rs, d, e)

\* No batch yet.
LEMMA NothingTook ==
  ASSUME NEW d \in Trees
  PROVE  Took(<<>>, d, d)
<1>1. <<>> \in Seq(Record) /\ DOMAIN <<>> = {}
  OBVIOUS
<1>. QED
  BY <1>1 DEF Took, Apart, DirsAbove, FilesDiffer, Exact, OnlyEdits

\* What files of a tree were overwritten with.
LEMMA EditsTook ==
  ASSUME NEW d \in Trees, NEW e \in Disks, NEW rs \in Seq(Record),
         \A i \in DOMAIN rs : /\ IsFile(d, rs[i].path) /\ IsFile(e, rs[i].path)
                              /\ rs[i].before = d[rs[i].path] /\ rs[i].after # Absent
                              /\ rs[i].dirs = <<>>,
         \A i, j \in DOMAIN rs : rs[i].path = rs[j].path => i = j,
         \A p \in Paths : Elsewhere(rs, p) => e[p] = d[p]
  PROVE  Took(rs, d, e)
<1>1. \A i \in DOMAIN rs : rs[i] \in Record /\ rs[i].path \in Paths
  BY RecordsAre
<1>2. d \in Disks /\ \A p, q \in Paths : d[p] # Absent /\ Above(q, p) => d[q] = Dir
  BY TreesAre
<1>3. e \in Trees
  <2>1. ASSUME NEW p \in Paths, NEW q \in Paths, e[p] # Absent, Above(q, p) PROVE e[q] = Dir
    <3>1. d[p] # Absent
      BY <2>1, KindsDiffer DEF Elsewhere, IsFile
    <3>2. d[q] = Dir
      BY <1>2, <2>1, <3>1
    <3>3. Elsewhere(rs, q)
      BY <3>2, KindsDiffer DEF Elsewhere, IsFile
    <3>. QED
      BY <3>2, <3>3
  <2>. QED
    BY <2>1, TreesAre
<1>4. Apart(rs)
  <2> SUFFICES ASSUME NEW i \in DOMAIN rs, NEW j \in DOMAIN rs, IsPrefix(rs[i].path, rs[j].path)
               PROVE  i = j
    BY DEF Apart
  <2>1. rs[i].path \in Paths /\ rs[j].path \in Paths /\ d[rs[j].path] # Absent /\ d[rs[i].path] # Dir
    BY <1>1, KindsDiffer DEF IsFile
  <2>2. ~Above(rs[i].path, rs[j].path)
    BY <1>2, <2>1
  <2>. QED
    BY <2>2 DEF Above
<1>5. DirsAbove(rs)
  <2>1. ToSet(<<>>) = {}
    BY DEF ToSet
  <2>. QED
    BY <2>1 DEF DirsAbove
<1>6. FilesDiffer(rs, d, e)
  <2>1. \A p \in Paths : Elsewhere(rs, p) => Files(d)[p] = Files(e)[p]
    BY DEF Files, IsFile
  <2>2. \A i \in DOMAIN rs : Files(d)[rs[i].path] = rs[i].before
    BY <1>1 DEF Files
  <2>. QED
    BY <2>1, <2>2 DEF FilesDiffer
<1>7. OnlyEdits(rs, d, e)
  BY KindsDiffer DEF OnlyEdits, IsFile
<1>. QED
  BY <1>3, <1>4, <1>5, <1>6, <1>7 DEF Took, Exact

\* Making what was missing leaves all other files.
LEMMA MakingKeepsFiles ==
  ASSUME NEW d \in Trees, NEW p \in Paths, d[p] = Absent, Reachable(d, p),
         NEW v \in Contents \cup {Dir}
  PROVE  \A q \in Paths : q # p => Files(Made(d, p, v))[q] = Files(d)[q]
<1>1. /\ \A q \in Paths : Above(q, p) => Made(d, p, v)[q] = Dir
      /\ \A q \in Paths : q # p /\ ~Above(q, p) => Made(d, p, v)[q] = d[q]
  BY MakingLeavesTree
<1>2. \A q \in Paths : Above(q, p) => ~IsFile(d, q)
  BY ReachableIs
<1>. QED
  BY <1>1, <1>2, KindsDiffer DEF Files, IsFile

\* Batches of one record and of two.
LEMMA OneOrTwo ==
  /\ \A r \in Record : /\ <<r>> \in Seq(Record) /\ Len(<<r>>) = 1
                       /\ DOMAIN <<r>> = {1} /\ <<r>>[1] = r
  /\ \A r, s \in Record : /\ <<r, s>> \in Seq(Record) /\ Len(<<r, s>>) = 2
                          /\ DOMAIN <<r, s>> = {1, 2} /\ <<r, s>>[1] = r /\ <<r, s>>[2] = s
<1> DEFINE R == Record
<1>1. \A r \in R : /\ <<r>> \in Seq(R) /\ Len(<<r>>) = 1
                   /\ DOMAIN <<r>> = {1} /\ <<r>>[1] = r
  <2> HIDE DEF R
  <2>. QED OBVIOUS
<1>2. \A r, s \in R : /\ <<r, s>> \in Seq(R) /\ Len(<<r, s>>) = 2
                      /\ DOMAIN <<r, s>> = {1, 2} /\ <<r, s>>[1] = r /\ <<r, s>>[2] = s
  <2> HIDE DEF R
  <2>. QED OBVIOUS
<1>. QED
  BY <1>1, <1>2

\* A missing parent leads to what was created, and so does that itself.
LEMMA MissingLeadTo ==
  ASSUME NEW d, NEW p \in Paths, d[p] = Absent,
         NEW dirs \in {MissingParents(d, p), Append(MissingParents(d, p), p)}
  PROVE  dirs \in Seq(Paths) /\ Lacks(d, p, dirs) /\ \A q \in ToSet(dirs) : IsPrefix(q, p)
<1>1. dirs \in Seq(Paths) /\ Lacks(d, p, dirs)
  BY MissingAre, MissingAreTyped
<1>. QED
  BY <1>1 DEF Lacks, ToSet

\* A file or a directory was created.
LEMMA CreationTook ==
  ASSUME NEW d \in Trees, NEW rec \in Record, rec.before = Absent, d[rec.path] = Absent,
         Reachable(d, rec.path), NEW v \in Contents \cup {Dir},
         rec.dirs \in {MissingParents(d, rec.path), Append(MissingParents(d, rec.path), rec.path)}
  PROVE  Took(<<rec>>, d, Made(d, rec.path, v))
<1> DEFINE p == rec.path
           e == Made(d, p, v)
           rs == <<rec>>
<1>1. p \in Paths /\ d[p] = Absent /\ Reachable(d, p)
  BY DEF Record
<1>2. rs \in Seq(Record) /\ Len(rs) = 1 /\ DOMAIN rs = {1} /\ rs[1] = rec
  BY OneOrTwo
<1>3. Lacks(d, p, rec.dirs) /\ \A q \in ToSet(rec.dirs) : IsPrefix(q, p)
  BY <1>1, MissingLeadTo
<1>4. e \in Trees /\ \A q \in Paths : q # p => Files(e)[q] = Files(d)[q]
  BY <1>1, MakingLeavesTree, MakingKeepsFiles
<1>5. Files(d)[p] = Absent
  BY <1>1 DEF Files
<1> HIDE DEF rs, e
<1>6. Apart(rs) /\ DirsAbove(rs)
  BY <1>2, <1>3 DEF Apart, DirsAbove
<1>7. FilesDiffer(rs, d, e)
  BY <1>2, <1>4, <1>5 DEF FilesDiffer, Elsewhere
<1>8. OneCreated(rs, d, e)
  BY <1>1, <1>2, <1>3 DEF OneCreated, CreatedBy, e
<1>9. Took(rs, d, e)
  BY <1>2, <1>4, <1>6, <1>7, <1>8 DEF Took, Exact
<1>. QED
  BY <1>9 DEF rs, e

\* A file, or a directory with nothing in it, was deleted.
LEMMA DeletionTook ==
  ASSUME NEW d \in Trees, NEW rec \in Record, d[rec.path] # Absent,
         \A q \in Below(rec.path) : d[q] = Absent,
         rec.tool = "delete_path", rec.after = Absent, rec.dirs = <<>>,
         rec.before = IF d[rec.path] = Dir THEN Empty ELSE d[rec.path]
  PROVE  Took(<<rec>>, d, [d EXCEPT ![rec.path] = Absent])
<1> DEFINE p == rec.path
           e == [d EXCEPT ![p] = Absent]
           rs == <<rec>>
<1>1. p \in Paths /\ d \in Disks
  BY TreesAre DEF Record
<1>2. rs \in Seq(Record) /\ Len(rs) = 1 /\ DOMAIN rs = {1} /\ rs[1] = rec
  BY OneOrTwo
<1>3. e \in Trees
  <2>1. \A q \in Paths : Above(p, q) => d[q] = Absent
    BY <1>1, BelowIs
  <2>. QED
    BY <1>1, <2>1, WriteLeavesTree
<1>4. \A q \in Paths : q # p => e[q] = d[q]
  BY <1>1 DEF Disks
<1>5. ToSet(<<>>) = {}
  BY DEF ToSet
<1> HIDE DEF rs, e
<1>6. Apart(rs) /\ DirsAbove(rs)
  BY <1>2, <1>5 DEF Apart, DirsAbove
<1>7. ASSUME Plain(rs) PROVE FilesDiffer(rs, d, e) /\ OneDeleted(rs, d, e)
  <2>1. d[p] # Dir
    BY <1>2, <1>7 DEF Plain, Ambiguous
  <2>2. d[p] \in Contents /\ rec.before = d[p]
    BY <1>1, <2>1 DEF Disks
  <2>3. FilesDiffer(rs, d, e)
    BY <1>1, <1>2, <1>4, <2>2 DEF FilesDiffer, Elsewhere, Files, IsFile
  <2>4. OneDeleted(rs, d, e)
    BY <1>2, <2>2 DEF OneDeleted, DeletedBy, e
  <2>. QED
    BY <2>3, <2>4
<1>8. Took(rs, d, e)
  BY <1>2, <1>3, <1>6, <1>7 DEF Took, Exact
<1>. QED
  BY <1>8 DEF rs, e

\* A file, or a directory with all that lies in it, was renamed.
LEMMA RenameTook ==
  ASSUME NEW d \in Trees, NEW r \in Record, NEW s \in Record, MayMove(d, s.path, r.path),
         r.before = Absent,
         r.dirs \in {MissingParents(d, r.path), Append(MissingParents(d, r.path), r.path)},
         s.tool = "rename_path", s.after = Absent, s.dirs = <<>>,
         s.before = IF d[s.path] = Dir THEN Empty ELSE d[s.path]
  PROVE  Took(<<r, s>>, d, Move(d, s.path, r.path))
<1> DEFINE src == s.path
           dest == r.path
           e == Move(d, src, dest)
           rs == <<r, s>>
<1>1. src \in Paths /\ dest \in Paths /\ d \in Disks
  BY TreesAre DEF Record
<1>2. d[src] # Absent /\ d[dest] = Absent /\ Reachable(d, dest) /\ ~IsPrefix(src, dest)
  BY DEF MayMove
<1>3. rs \in Seq(Record) /\ Len(rs) = 2 /\ DOMAIN rs = {1, 2} /\ rs[1] = r /\ rs[2] = s
  BY OneOrTwo
<1>4. Lacks(d, dest, r.dirs) /\ \A q \in ToSet(r.dirs) : IsPrefix(q, dest)
  BY <1>1, <1>2, MissingLeadTo
<1>5. e \in Trees
  BY <1>1, MoveLeavesTree
<1>6. ~IsPrefix(dest, src)
  <2>1. dest # src
    BY <1>2
  <2>2. ~Above(dest, src)
    BY <1>1, <1>2, TreesAre, KindsDiffer
  <2>. QED
    BY <2>1, <2>2 DEF Above
<1>7. ToSet(<<>>) = {}
  BY DEF ToSet
<1>8. e = Move(d, src, dest) /\ r.path = dest /\ s.path = src
  OBVIOUS
<1> HIDE DEF rs, e, src, dest
<1>9. Apart(rs) /\ DirsAbove(rs)
  BY <1>2, <1>3, <1>4, <1>6, <1>7, <1>8 DEF Apart, DirsAbove
<1>10. ASSUME Plain(rs) PROVE FilesDiffer(rs, d, e) /\ OneRenamed(rs, d, e)
  <2>1. d[src] # Dir
    BY <1>3, <1>8, <1>10 DEF Plain, Ambiguous
  <2>2. d[src] \in Contents /\ s.before = d[src]
    BY <1>1, <1>2, <1>8, <2>1 DEF Disks
  <2>3. e = [Made(d, dest, d[src]) EXCEPT ![src] = Absent]
    BY <1>1, <1>8, <2>1, FileIsMoved
  <2> DEFINE m == Made(d, dest, d[src])
  <2>4. m \in Disks
    BY <1>1, <1>2, <2>2, MakingLeavesTree, TreesAre
  <2>5. \A q \in Paths : q # dest => Files(m)[q] = Files(d)[q]
    BY <1>1, <1>2, <2>2, MakingKeepsFiles
  <2>6. e = [m EXCEPT ![src] = Absent]
    BY <2>3
  <2> HIDE DEF m
  <2>7. \A q \in Paths : q # src /\ q # dest => Files(e)[q] = Files(d)[q]
    BY <1>1, <2>4, <2>5, <2>6 DEF Disks, Files, IsFile
  <2>8. Files(d)[src] = s.before /\ Files(d)[dest] = r.before
    BY <1>1, <1>2, <2>2, KindsDiffer DEF Files, IsFile
  <2>9. FilesDiffer(rs, d, e)
    BY <1>3, <1>8, <2>7, <2>8 DEF FilesDiffer, Elsewhere
  <2>10. OneRenamed(rs, d, e)
    BY <1>2, <1>3, <1>4, <1>8, <2>2, <2>3 DEF OneRenamed, CreatedBy, DeletedBy
  <2>. QED
    BY <2>9, <2>10
<1>11. Took(rs, d, e)
  BY <1>3, <1>5, <1>9, <1>10 DEF Took, Exact
<1>. QED
  BY <1>11 DEF rs, e, src, dest

-----------------------------------------------------------------------------
(* What an undo leaves, and that it brings back the disk.                   *)

\* An undo is journalled as overwriting, from the bytes it found at each path.
LEMMA UndoTook ==
  ASSUME BatchInv, CanUndo, NEW n \in 1 .. Len(batch), ~Reverted(n).raised
  PROVE  Took(Reverted(n).records, disk, Reverted(n).disk)
<1> DEFINE m == Len(batch)
           rs == Reverted(n).records
           e == Reverted(n).disk
<1>1. /\ m \in Nat /\ DOMAIN batch = 1 .. m
      /\ \A i \in 1 .. m : batch[i] \in Record /\ batch[i].path \in Paths
  BY RecordsAre DEF BatchInv, DiskInv
<1>2. n \in 0 .. m /\ n \in Nat /\ n >= 1 /\ \A i \in 1 .. n : m - i + 1 \in 1 .. m
  BY <1>1
<1>3. PICK g \in [0 .. n -> Undoings({})] : g[n] = Reverted(n) /\ Undone(n, g[n])
  <2>1. n \in 0 .. n
    BY <1>2
  <2>. QED
    BY <1>2, <2>1, UndoneStages
<1>4. Undone(n, Reverted(n)) /\ rs \in Seq(Record)
  <2>1. n \in 0 .. n
    BY <1>2
  <2>. QED
    BY <1>3, <2>1 DEF Undoings
<1>5. Len(rs) = n /\ DOMAIN rs = 1 .. n
  BY <1>4, LenProperties DEF Undone
<1>6. ASSUME NEW i \in 1 .. n
      PROVE  /\ rs[i].path = batch[m - i + 1].path /\ rs[i].tool = "undo_edit"
             /\ rs[i].before = Files(disk)[rs[i].path] /\ rs[i].dirs = <<>>
  <2>1. rs[i] = UndoneRecord(batch[m - i + 1])
    BY <1>4 DEF Undone
  <2>. QED
    BY <2>1 DEF UndoneRecord, Rec
<1>7. e \in Trees /\ \A p \in Paths : Untouched(p, n) => Files(e)[p] = Files(disk)[p]
  BY <1>4 DEF Undone
<1>8. \A p \in Paths : Elsewhere(rs, p) => Untouched(p, n)
  <2> SUFFICES ASSUME NEW p \in Paths, Elsewhere(rs, p), NEW j \in m - n + 1 .. m
               PROVE  batch[j].path # p
    BY DEF Untouched
  <2>1. m - j + 1 \in 1 .. n /\ m - (m - j + 1) + 1 = j
    BY <1>1, <1>2
  <2>2. rs[m - j + 1].path = batch[j].path
    BY <1>6, <2>1
  <2>. QED
    BY <1>5, <2>1, <2>2 DEF Elsewhere
<1> HIDE DEF rs, e, m
<1>9. Apart(rs)
  <2> SUFFICES ASSUME NEW i \in 1 .. n, NEW j \in 1 .. n, IsPrefix(rs[i].path, rs[j].path)
               PROVE  i = j
    BY <1>5 DEF Apart
  <2>1. IsPrefix(batch[m - i + 1].path, batch[m - j + 1].path)
    BY <1>6
  <2>2. m - i + 1 = m - j + 1
    BY <1>1, <1>2, <2>1 DEF BatchInv, Apart
  <2>. QED
    BY <1>1, <2>2
<1>10. DirsAbove(rs)
  <2>1. ToSet(<<>>) = {}
    BY DEF ToSet
  <2>. QED
    BY <1>5, <1>6, <2>1 DEF DirsAbove
<1>11. FilesDiffer(rs, disk, e)
  BY <1>5, <1>6, <1>7, <1>8 DEF FilesDiffer
<1>12. Exact(rs, disk, e)
  <2>1. 1 \in DOMAIN rs /\ rs[1].tool = "undo_edit"
    BY <1>2, <1>5, <1>6
  <2>. QED
    BY <2>1 DEF Exact
<1>13. Took(rs, disk, e)
  BY <1>4, <1>7, <1>9, <1>10, <1>11, <1>12 DEF Took, BatchInv
<1>. QED
  BY <1>13 DEF rs, e

\* A deletion taken back.
LEMMA UndeleteIsExact ==
  ASSUME NEW d \in Trees, NEW rec \in Record, DeletedBy(rec, d), ~Ambiguous(rec),
         NEW x \in Disks, x[rec.path] = Absent
  PROVE  /\ Revert(x, rec)[rec.path] = d[rec.path]
         /\ \A q \in Paths : Above(q, rec.path) => Revert(x, rec)[q] = d[q]
         /\ \A q \in Paths : q # rec.path /\ ~Above(q, rec.path) => Revert(x, rec)[q] = x[q]
         /\ Revert(x, rec) \in Disks
<1> DEFINE p == rec.path
           r == Revert(x, rec)
<1>1. p \in Paths /\ rec.before \in Contents /\ rec.after = Absent /\ d[p] = rec.before
  BY DEF Record, DeletedBy
<1>2. rec.before # Absent /\ rec.before # Dir
  BY <1>1, KindsDiffer
<1>3. r = [EnsureParents(x, p) EXCEPT ![p] = rec.before]
  BY <1>1, <1>2 DEF Revert, Undelete, Ambiguous
<1>4. \A q \in Paths : Above(q, p) => d[q] = Dir
  BY <1>1, <1>2, TreesAre
<1>5. \A q \in Paths : EnsureParents(x, p)[q] = IF Above(q, p) THEN Dir ELSE x[q]
  BY <1>1, AncestorsAre DEF EnsureParents
<1>6. DOMAIN EnsureParents(x, p) = Paths
  BY DEF EnsureParents
<1>7. ~Above(p, p)
  BY <1>1, AboveOrder
<1> DEFINE y == EnsureParents(x, p)
<1>8. r = [y EXCEPT ![p] = rec.before]
  BY <1>3
<1> HIDE DEF r, p, y
<1>9. DOMAIN y = Paths /\ \A q \in Paths : y[q] = IF Above(q, p) THEN Dir ELSE x[q]
  BY <1>5, <1>6 DEF y
<1>10. r[p] = rec.before /\ DOMAIN r = Paths /\ \A q \in Paths : q # p => r[q] = y[q]
  BY <1>1, <1>8, <1>9
<1>11. r \in Disks
  BY <1>1, <1>8, <1>9 DEF Disks
<1>. QED
  BY <1>1, <1>4, <1>7, <1>9, <1>10, <1>11 DEF r, p

\* Undo of a batch that nothing came after.
LEMMA UndoBringsBack ==
  ASSUME BatchInv, CanUndo, Took(batch, base, disk), Plain(batch), ~Reverted(Len(batch)).raised
  PROVE  /\ Files(Reverted(Len(batch)).disk) = Files(base)
         /\ (\A i \in DOMAIN batch : batch[i].tool # "undo_edit") => Reverted(Len(batch)).disk = base
<1> DEFINE m == Len(batch)
           e == Reverted(m).disk
<1>1. /\ m \in Nat /\ DOMAIN batch = 1 .. m /\ m \in 0 .. m
      /\ \A i \in 1 .. m : batch[i] \in Record /\ batch[i].path \in Paths
  BY RecordsAre DEF BatchInv, DiskInv
<1>2. PICK g \in [0 .. m -> Undoings({})] :
        /\ g[0].disk = disk /\ g[m] = Reverted(m) /\ \A k \in 0 .. m : Undone(k, g[k])
        /\ \A k \in 1 .. m : g[k].disk = Revert(g[k - 1].disk, batch[m - k + 1])
  BY <1>1, UndoneStages
<1>3. Undone(m, Reverted(m))
  BY <1>1, <1>2
<1>4. m - m + 1 = 1
  BY <1>1
<1>5. \A p \in Paths : Elsewhere(batch, p) => Untouched(p, m)
  BY <1>1, <1>4 DEF Elsewhere, Untouched
<1>6. /\ e \in Trees
      /\ \A p \in Paths : Elsewhere(batch, p) => Files(e)[p] = Files(disk)[p]
      /\ \A j \in 1 .. m : Files(e)[batch[j].path] = batch[j].before
      /\ Overwrites => \A p \in Paths : Elsewhere(batch, p) => e[p] = disk[p]
  BY <1>1, <1>3, <1>4, <1>5 DEF Undone, Plain
<1>7. FilesDiffer(batch, base, disk) /\ Exact(batch, base, disk) /\ base \in Trees
  BY DEF Took
<1>8. e = Reverted(m).disk
  OBVIOUS
<1> HIDE DEF m, e
<1>9. Files(e) = Files(base)
  <2>1. ASSUME NEW p \in Paths PROVE Files(e)[p] = Files(base)[p]
    <3>1. CASE Elsewhere(batch, p)
      BY <1>6, <1>7, <3>1 DEF FilesDiffer
    <3>2. CASE ~Elsewhere(batch, p)
      BY <1>1, <1>6, <1>7, <3>2 DEF FilesDiffer, Elsewhere
    <3>. QED
      BY <3>1, <3>2
  <2>. QED
    BY <2>1 DEF Files
<1>10. e \in Disks /\ base \in Disks
  BY <1>6, <1>7, TreesAre
<1>11. CASE OnlyEdits(batch, base, disk)
  <2>1. Overwrites
    BY <1>11 DEF OnlyEdits, Overwrites
  <2>2. ASSUME NEW p \in Paths PROVE e[p] = base[p]
    <3>1. CASE Elsewhere(batch, p)
      BY <1>6, <1>11, <2>1, <3>1 DEF OnlyEdits
    <3>2. CASE ~Elsewhere(batch, p)
      <4>1. PICK j \in 1 .. m : batch[j].path = p
        BY <1>1, <3>2 DEF Elsewhere
      <4>2. batch[j].before # Absent /\ base[p] = batch[j].before /\ Files(e)[p] = batch[j].before
        BY <1>1, <1>6, <1>11, <4>1 DEF OnlyEdits
      <4>. QED
        BY <4>2 DEF Files
    <3>. QED
      BY <3>1, <3>2
  <2>3. e = base
    BY <1>10, <2>2 DEF Disks
  <2>. QED
    BY <1>8, <1>9, <2>3 DEF m
<1>12. CASE OneCreated(batch, base, disk)
  <2>1. m = 1 /\ CreatedBy(batch[1], base) /\ batch[1] \in Record
    BY <1>1, <1>12 DEF OneCreated, m
  <2>2. PICK v \in Contents \cup {Dir} : disk = Made(base, batch[1].path, v)
    BY <1>12 DEF OneCreated
  <2>3. 1 \in 1 .. m /\ 1 - 1 = 0 /\ m - 1 + 1 = 1
    BY <2>1
  <2>4. g[1].disk = Revert(g[1 - 1].disk, batch[m - 1 + 1])
    BY <1>2, <2>3
  <2>5. e = Revert(disk, batch[1])
    BY <1>2, <1>8, <2>1, <2>3, <2>4
  <2>6. e = Uncreate(disk, batch[1])
    BY <2>1, <2>5 DEF Revert, CreatedBy
  <2>7. Uncreate(Made(base, batch[1].path, v), batch[1]) = base
    BY <1>7, <2>1, UncreateIsExact DEF CreatedBy
  <2>8. e = base
    BY <2>2, <2>6, <2>7
  <2>. QED
    BY <1>8, <1>9, <2>8 DEF m
<1>13. CASE OneDeleted(batch, base, disk)
  <2> DEFINE p == batch[1].path
  <2>1. m = 1 /\ DeletedBy(batch[1], base) /\ batch[1] \in Record /\ p \in Paths
        /\ disk = [base EXCEPT ![p] = Absent] /\ ~Ambiguous(batch[1])
    <3>1. m = 1 /\ 1 \in 1 .. m
      BY <1>13 DEF OneDeleted, m
    <3>. QED
      BY <1>1, <1>13, <3>1 DEF OneDeleted, Plain
  <2>2. 1 \in 1 .. m /\ 1 - 1 = 0 /\ m - 1 + 1 = 1
    BY <2>1
  <2>3. g[1].disk = Revert(g[1 - 1].disk, batch[m - 1 + 1])
    BY <1>2, <2>2
  <2>4. e = Revert(disk, batch[1])
    BY <1>2, <1>8, <2>1, <2>2, <2>3
  <2>5. disk[p] = Absent /\ disk \in Disks /\ \A q \in Paths : q # p => disk[q] = base[q]
    BY <1>10, <2>1, KindsDiffer DEF Disks
  <2>6. /\ e[p] = base[p]
        /\ \A q \in Paths : Above(q, p) => e[q] = base[q]
        /\ \A q \in Paths : q # p /\ ~Above(q, p) => e[q] = disk[q]
    <3>1. /\ base \in Trees /\ batch[1] \in Record /\ DeletedBy(batch[1], base)
          /\ ~Ambiguous(batch[1]) /\ disk \in Disks /\ disk[batch[1].path] = Absent
      BY <1>7, <2>1, <2>5
    <3>2. /\ Revert(disk, batch[1])[p] = base[p]
          /\ \A q \in Paths : Above(q, p) => Revert(disk, batch[1])[q] = base[q]
          /\ \A q \in Paths : q # p /\ ~Above(q, p) => Revert(disk, batch[1])[q] = disk[q]
      BY <3>1, UndeleteIsExact
    <3>. QED
      BY <2>4, <3>2
  <2>7. e = base
    BY <1>10, <2>5, <2>6 DEF Disks
  <2>. QED
    BY <1>8, <1>9, <2>7 DEF m
<1>14. CASE OneRenamed(batch, base, disk)
  <2> DEFINE dest == batch[1].path
             src == batch[2].path
             made == Made(base, dest, batch[2].before)
             x == Revert(disk, batch[2])
  <2>1. m = 2 /\ CreatedBy(batch[1], base) /\ DeletedBy(batch[2], base)
        /\ disk = [made EXCEPT ![src] = Absent]
    BY <1>14 DEF OneRenamed, m
  <2>2. 1 \in 1 .. m /\ 2 \in 1 .. m /\ m - 1 + 1 = 2 /\ m - 2 + 1 = 1 /\ 1 - 1 = 0 /\ 2 - 1 = 1
    BY <2>1
  <2>3. batch[1] \in Record /\ batch[2] \in Record /\ dest \in Paths /\ src \in Paths
        /\ ~Ambiguous(batch[2])
    BY <1>1, <2>2 DEF Plain
  <2>4. ~IsPrefix(src, dest)
    BY <1>1, <2>2 DEF BatchInv, Apart
  <2>5. g[1].disk = x
    <3>1. g[1].disk = Revert(g[1 - 1].disk, batch[m - 1 + 1])
      BY <1>2, <2>2
    <3>. QED
      BY <1>2, <2>2, <3>1
  <2>6. e = Revert(x, batch[1])
    <3>1. g[2].disk = Revert(g[2 - 1].disk, batch[m - 2 + 1])
      BY <1>2, <2>2
    <3>2. g[2].disk = e
      BY <1>2, <1>8, <2>1
    <3>. QED
      BY <2>2, <2>5, <3>1, <3>2
  <2>7. e = Uncreate(x, batch[1])
    BY <2>1, <2>6 DEF Revert, CreatedBy
  <2>8. base[dest] = Absent /\ Reachable(base, dest) /\ batch[2].before \in Contents
        /\ base[src] = batch[2].before
    BY <2>1 DEF CreatedBy, DeletedBy
  <2>9. /\ made \in Disks /\ made[dest] = batch[2].before
        /\ \A q \in Paths : Above(q, dest) => made[q] = Dir
        /\ \A q \in Paths : q # dest /\ ~Above(q, dest) => made[q] = base[q]
    BY <1>7, <2>3, <2>8, MakingLeavesTree, TreesAre
  <2>10. Uncreate(made, batch[1]) = base
    BY <1>7, <2>1, <2>3, <2>8, UncreateIsExact DEF CreatedBy
  <2> HIDE DEF made, x, src, dest
  <2>11. disk[src] = Absent /\ disk \in Disks /\ \A q \in Paths : q # src => disk[q] = made[q]
    BY <2>1, <2>3, <2>9, KindsDiffer DEF Disks
  <2>12. /\ x[src] = base[src]
         /\ \A q \in Paths : Above(q, src) => x[q] = base[q]
         /\ \A q \in Paths : q # src /\ ~Above(q, src) => x[q] = disk[q]
         /\ x \in Disks
    <3>1. /\ base \in Trees /\ batch[2] \in Record /\ DeletedBy(batch[2], base)
          /\ ~Ambiguous(batch[2]) /\ disk \in Disks /\ disk[batch[2].path] = Absent
      BY <1>7, <2>1, <2>3, <2>11 DEF src
    <3> DEFINE y == Revert(disk, batch[2])
    <3>2. /\ y[batch[2].path] = base[batch[2].path]
          /\ \A q \in Paths : Above(q, batch[2].path) => y[q] = base[q]
          /\ \A q \in Paths : q # batch[2].path /\ ~Above(q, batch[2].path) => y[q] = disk[q]
          /\ y \in Disks
      BY <3>1, UndeleteIsExact, ZenonT(40)
    <3>3. x = y /\ src = batch[2].path
      BY DEF x, src
    <3> HIDE DEF y
    <3>. QED
      BY <3>2, <3>3
  <2>13. \A q \in Paths : Above(q, src) => base[q] = Dir
    BY <1>7, <2>3, <2>8, TreesAre, KindsDiffer
  <2>14. ASSUME NEW q \in Paths PROVE x[q] = made[q]
    <3>1. CASE q = src
      <4>1. ~Above(src, dest) /\ src # dest
        BY <2>3, <2>4, PrefixOrder DEF Above
      <4>. QED
        BY <2>3, <2>9, <2>12, <3>1, <4>1
    <3>2. CASE q # src /\ Above(q, src)
      <4>1. q # dest
        BY <2>8, <2>13, <3>2, KindsDiffer
      <4>. QED
        BY <2>9, <2>12, <2>13, <3>2, <4>1
    <3>3. CASE q # src /\ ~Above(q, src)
      BY <2>11, <2>12, <3>3
    <3>. QED
      BY <3>1, <3>2, <3>3
  <2>15. x = made
    BY <2>9, <2>12, <2>14 DEF Disks
  <2>16. e = base
    BY <2>7, <2>10, <2>15
  <2>. QED
    BY <1>8, <1>9, <2>16 DEF m
<1>15. (\A i \in DOMAIN batch : batch[i].tool # "undo_edit") => e = base
  BY <1>7, <1>8, <1>11, <1>12, <1>13, <1>14 DEF Exact, m
<1>. QED
  BY <1>8, <1>9, <1>15 DEF m

-----------------------------------------------------------------------------
(* The steps of the funnel.                                                 *)

\* What a tracker may hold.
Trackers == [Agents -> [Paths -> Contents \cup {Unread, Gone}]]

\* The inductive invariant: the disk is a tree, the newest batch took it from
\* base to left, and the tracker holds what each agent was shown or wrote.
FunnelInv ==
  /\ disk \in Trees
  /\ Took(batch, base, left)
  /\ tracker = seen
  /\ tracker \in Trackers

\* The invariant contains what the lemmas about undo rely on.
LEMMA FunnelInvGives ==
  ASSUME FunnelInv
  PROVE  DiskInv /\ BatchInv /\ disk \in Disks
BY TreesAre DEF FunnelInv, Took, DiskInv, BatchInv

\* The records of a list of edits, and what is written to each file.
LEMMA EditsAre ==
  ASSUME disk \in Disks, NEW s \in Edits
  PROVE  /\ Len(s) \in Nat /\ DOMAIN s = 1 .. Len(s)
         /\ \A i \in DOMAIN s : s[i][1] \in Paths /\ s[i][2] \in Contents /\ IsFile(disk, s[i][1])
         /\ \A i, j \in DOMAIN s : s[i][1] = s[j][1] => i = j
         /\ EditRecords(s) \in Seq(Record) /\ Len(EditRecords(s)) = Len(s)
         /\ DOMAIN EditRecords(s) = DOMAIN s
         /\ EditMarks(s) \in Marks
<1>1. DOMAIN s = 1 .. Len(s) /\ Len(s) \in Nat
      /\ \A i \in DOMAIN s : s[i][1] \in Paths /\ s[i][2] \in Contents /\ IsFile(disk, s[i][1])
  <2> DEFINE E == {p \in Paths : IsFile(disk, p)} \X Contents
  <2>1. PICK m \in 0 .. MaxFiles : s \in [1 .. m -> E]
    BY DEF Edits, BoundedSeq, SeqOf
  <2>2. m \in Nat
    BY <2>1, WriteFunnelAssumption
  <2>3. s \in Seq(E)
    BY <2>1, <2>2, SeqDef
  <2>4. DOMAIN s = 1 .. Len(s) /\ Len(s) \in Nat
    BY <2>3, LenProperties
  <2>5. \A i \in DOMAIN s : s[i] \in E
    BY <2>1
  <2>6. \A e \in E : e[1] \in Paths /\ e[2] \in Contents /\ IsFile(disk, e[1])
    OBVIOUS
  <2> HIDE DEF E
  <2>. QED
    BY <2>4, <2>5, <2>6
<1>2. \A i, j \in DOMAIN s : s[i][1] = s[j][1] => i = j
  BY DEF Edits
<1>3. EditRecords(s) \in Seq(Record)
  <2>1. <<>> \in Seq(Paths)
    BY EmptySeq
  <2>2. \A i \in DOMAIN s : Rec("edit", s[i][1], disk[s[i][1]], s[i][2], <<>>) \in Record
    BY <1>1, <2>1 DEF Rec, Record, IsFile
  <2>3. EditRecords(s) \in [1 .. Len(s) -> Record]
    BY <1>1, <2>2 DEF EditRecords
  <2>. QED
    BY <1>1, <2>3, SeqDef
<1>4. DOMAIN EditRecords(s) = DOMAIN s
  BY DEF EditRecords
<1>5. Len(EditRecords(s)) = Len(s)
  BY <1>1, <1>3, <1>4, LenProperties
<1>6. EditMarks(s) \in Marks
  <2> DEFINE P == {s[i][1] : i \in DOMAIN s}
  <2>1. P \in SUBSET Paths
    BY <1>1
  <2>2. ASSUME NEW p \in P PROVE Written(s)[p] \in Contents
    <3>1. PICK i \in DOMAIN s : s[i][1] = p
      OBVIOUS
    <3>2. (CHOOSE j \in DOMAIN s : s[j][1] = p) \in DOMAIN s
      BY <3>1
    <3>. QED
      BY <1>1, <2>1, <3>1, <3>2 DEF Written
  <2>3. EditMarks(s) \in [P -> Contents \cup {Gone}]
    BY <2>2 DEF EditMarks
  <2>. QED
    BY <2>1, <2>3 DEF Marks
<1>. QED
  BY <1>1, <1>2, <1>3, <1>4, <1>5, <1>6

\* A workspace edit that ends, fails or dies: files of a tree are overwritten.
LEMMA WorkspaceTook ==
  ASSUME disk \in Trees, NEW s \in Edits
  PROVE  /\ Took(EditRecords(s), disk, Written(s))
         /\ \A kept : Took(EditRecords(s), disk, RolledBack(s, kept))
<1> DEFINE rs == EditRecords(s)
<1>1. disk \in Disks
  BY TreesAre
<1>2. /\ \A i \in DOMAIN s : s[i][1] \in Paths /\ s[i][2] \in Contents /\ IsFile(disk, s[i][1])
      /\ \A i, j \in DOMAIN s : s[i][1] = s[j][1] => i = j
      /\ rs \in Seq(Record) /\ DOMAIN rs = DOMAIN s
  BY <1>1, EditsAre
<1>3. \A i \in DOMAIN s : rs[i] = Rec("edit", s[i][1], disk[s[i][1]], s[i][2], <<>>)
  BY DEF EditRecords
<1>4. \A i \in DOMAIN s : /\ rs[i].path = s[i][1] /\ rs[i].before = disk[s[i][1]]
                          /\ rs[i].after = s[i][2] /\ rs[i].dirs = <<>>
  <2> SUFFICES ASSUME NEW i \in DOMAIN s
               PROVE  /\ rs[i].path = s[i][1] /\ rs[i].before = disk[s[i][1]]
                      /\ rs[i].after = s[i][2] /\ rs[i].dirs = <<>>
    OBVIOUS
  <2>1. rs[i] = Rec("edit", s[i][1], disk[s[i][1]], s[i][2], <<>>)
    BY <1>3
  <2> HIDE DEF rs
  <2>. QED
    BY <2>1 DEF Rec
<1>5. ASSUME NEW p \in Paths
      PROVE  /\ Elsewhere(rs, p) => Written(s)[p] = disk[p]
             /\ ~Elsewhere(rs, p) => Written(s)[p] \in Contents
  <2>1. Elsewhere(rs, p) <=> ~\E i \in DOMAIN s : s[i][1] = p
    BY <1>2, <1>4 DEF Elsewhere
  <2>2. CASE Elsewhere(rs, p)
    BY <2>1, <2>2 DEF Written
  <2>3. CASE ~Elsewhere(rs, p)
    <3>1. PICK j \in DOMAIN s : s[j][1] = p
      BY <2>1, <2>3
    <3> DEFINE k == CHOOSE i \in DOMAIN s : s[i][1] = p
    <3>2. k \in DOMAIN s
      BY <3>1
    <3>3. Written(s)[p] = s[k][2]
      BY <3>1 DEF Written
    <3> HIDE DEF k
    <3>. QED
      BY <1>2, <2>3, <3>2, <3>3
  <2>. QED
    BY <2>2, <2>3
<1>6. ASSUME NEW p \in Paths, NEW kept
      PROVE  /\ Elsewhere(rs, p) => RolledBack(s, kept)[p] = disk[p]
             /\ ~Elsewhere(rs, p) => RolledBack(s, kept)[p] \in Contents
  <2>1. RolledBack(s, kept)[p] \in {disk[p], Written(s)[p]}
    BY DEF RolledBack
  <2>2. ~Elsewhere(rs, p) => disk[p] \in Contents
    BY <1>2, <1>4 DEF Elsewhere, IsFile
  <2>. QED
    BY <1>5, <2>1, <2>2
<1> HIDE DEF rs
<1>7. ASSUME NEW e, e = [p \in Paths |-> e[p]],
             \A p \in Paths : /\ Elsewhere(rs, p) => e[p] = disk[p]
                              /\ ~Elsewhere(rs, p) => e[p] \in Contents
      PROVE  Took(rs, disk, e)
  <2>1. e \in Disks
    <3>1. \A p \in Paths : e[p] \in Contents \cup {Absent, Dir}
      BY <1>1, <1>7 DEF Disks
    <3>. QED
      BY <1>7, <3>1 DEF Disks
  <2>2. \A i \in DOMAIN rs : /\ IsFile(disk, rs[i].path) /\ IsFile(e, rs[i].path)
                             /\ rs[i].before = disk[rs[i].path] /\ rs[i].after # Absent
                             /\ rs[i].dirs = <<>>
    BY <1>2, <1>4, <1>7, KindsDiffer DEF IsFile, Elsewhere
  <2>3. \A i, j \in DOMAIN rs : rs[i].path = rs[j].path => i = j
    BY <1>2, <1>4
  <2>4. \A p \in Paths : Elsewhere(rs, p) => e[p] = disk[p]
    BY <1>7
  <2>. QED
    BY <1>2, <2>1, <2>2, <2>3, <2>4, EditsTook
<1>8. Took(rs, disk, Written(s))
  <2>1. Written(s) = [p \in Paths |-> Written(s)[p]]
    BY DEF Written
  <2>. QED
    BY <1>5, <1>7, <2>1
<1>9. ASSUME NEW kept PROVE Took(rs, disk, RolledBack(s, kept))
  <2>1. RolledBack(s, kept) = [p \in Paths |-> RolledBack(s, kept)[p]]
    BY DEF RolledBack
  <2>. QED
    BY <1>6, <1>7, <2>1
<1>. QED
  BY <1>8, <1>9 DEF rs

\* A rollback leaves changed only what it kept, or what was committed too early
\* for it to find.
LEMMA RollbackRestores ==
  ASSUME disk \in Disks, NEW s \in Edits, NEW kept, NEW p \in Paths,
         RolledBack(s, kept)[p] # disk[p], p \notin kept
  PROVE  \E i \in 1 .. (Len(s) - RecentLimit) : EditRecords(s)[i].path = p
<1>1. Len(s) \in Nat /\ DOMAIN s = 1 .. Len(s) /\ RecentLimit \in Nat
  BY EditsAre, WriteFunnelAssumption
<1>2. p \notin Targets(s) /\ Written(s)[p] # disk[p]
  BY DEF RolledBack
<1>3. PICK i \in DOMAIN s : s[i][1] = p
  BY <1>2 DEF Written
<1>4. i \in 1 .. (Len(s) - RecentLimit)
  <2>1. i \notin Restored(s)
    BY <1>2, <1>3 DEF Targets
  <2>2. ~(i > Len(s) - RecentLimit)
    BY <2>1 DEF Restored
  <2>. QED
    BY <1>1, <2>2
<1>5. EditRecords(s)[i] = Rec("edit", s[i][1], disk[s[i][1]], s[i][2], <<>>)
  BY DEF EditRecords
<1>6. EditRecords(s)[i].path = p
  BY <1>3, <1>5 DEF Rec
<1>. QED
  BY <1>4, <1>6

\* The mark of one path.
LEMMA SingleMark ==
  ASSUME NEW p \in Paths, NEW v \in Contents
  PROVE  Single(p, v) \in Marks
<1>1. {p} \in SUBSET Paths /\ Single(p, v) \in [{p} -> Contents \cup {Gone}]
  BY DEF Single
<1>. QED
  BY <1>1 DEF Marks

\* What a step may do to the disk and the journal, and to the trackers.
DiskMoves ==
  /\ disk' \in Trees
  /\ \/ UNCHANGED <<batch, base, left>>
     \/ base' = disk /\ Took(batch', disk, left')

\* A step leaves the trackers alone, marks what was read or written, or has
\* agents start with new ones.
TrackerMoves ==
  \/ UNCHANGED <<tracker, seen>>
  \/ \E who : \E marks \in Marks : Contact(who, marks)
  \/ \E S : Forget(S)

\* A batch that took the disk where the step leaves it.
LEMMA JournalledMoves ==
  ASSUME NEW d, NEW rs, Took(rs, disk, d), Journalled(d, rs)
  PROVE  DiskMoves
BY DEF Took, Journalled, DiskMoves

\* One file overwritten by an agent.
LEMMA EditTextTook ==
  ASSUME FunnelInv, NEW p \in Paths, NEW text \in Contents, IsFile(disk, p)
  PROVE  Took(<<Rec("edit", p, disk[p], text, <<>>)>>, disk, [disk EXCEPT ![p] = text])
<1> DEFINE rec == Rec("edit", p, disk[p], text, <<>>)
           rs == <<rec>>
           e == [disk EXCEPT ![p] = text]
<1>1. disk \in Trees /\ disk \in Disks
  BY FunnelInvGives DEF FunnelInv
<1>2. rec \in Record
  BY EmptySeq DEF Rec, Record, IsFile
<1>3. rs \in Seq(Record) /\ DOMAIN rs = {1} /\ rs[1] = rec
  BY <1>2, OneOrTwo
<1>4. rec.path = p /\ rec.before = disk[p] /\ rec.after = text /\ rec.dirs = <<>>
  BY DEF Rec
<1>5. e \in Disks /\ e[p] = text /\ \A q \in Paths : q # p => e[q] = disk[q]
  BY <1>1 DEF Disks
<1> HIDE DEF rec, rs, e
<1>6. \A i \in DOMAIN rs : /\ IsFile(disk, rs[i].path) /\ IsFile(e, rs[i].path)
                           /\ rs[i].before = disk[rs[i].path] /\ rs[i].after # Absent
                           /\ rs[i].dirs = <<>>
  BY <1>3, <1>4, <1>5, KindsDiffer DEF IsFile
<1>7. \A i, j \in DOMAIN rs : rs[i].path = rs[j].path => i = j
  BY <1>3
<1>8. \A q \in Paths : Elsewhere(rs, q) => e[q] = disk[q]
  BY <1>3, <1>4, <1>5 DEF Elsewhere
<1>9. Took(rs, disk, e)
  BY <1>1, <1>3, <1>5, <1>6, <1>7, <1>8, EditsTook
<1>. QED
  BY <1>9 DEF rs, rec, e

\* apply_edit of one agent.
LEMMA EditTextMoves ==
  ASSUME FunnelInv, NEW a \in Agents, NEW p \in Paths, NEW text \in Contents, EditText(a, p, text)
  PROVE  DiskMoves /\ TrackerMoves
<1>1. IsFile(disk, p)
  BY DEF EditText
<1>2. DiskMoves
  BY <1>1, EditTextTook, JournalledMoves DEF EditText
<1>3. TrackerMoves
  BY SingleMark DEF EditText, TrackerMoves
<1>. QED
  BY <1>2, <1>3

\* A file is created, with the parents it lacks.
LEMMA CreateMoves ==
  ASSUME FunnelInv, NEW who, NEW p \in Paths, NEW text \in Contents, Create(who, p, text)
  PROVE  DiskMoves /\ TrackerMoves
<1> DEFINE rec == Rec("edit", p, Absent, text, MissingParents(disk, p))
<1>1. rec \in Record
  BY MissingAreTyped DEF Rec, Record
<1>2. rec.path = p /\ rec.before = Absent /\ rec.dirs = MissingParents(disk, p)
  BY DEF Rec
<1>3. /\ disk \in Trees /\ disk[p] = Absent /\ Reachable(disk, p)
      /\ Journalled(Made(disk, p, text), <<rec>>) /\ Contact(who, Single(p, text))
  BY DEF FunnelInv, Create, Made
<1> HIDE DEF rec
<1>4. Took(<<rec>>, disk, Made(disk, rec.path, text))
  BY <1>1, <1>2, <1>3, CreationTook
<1>5. DiskMoves
  BY <1>2, <1>3, <1>4, JournalledMoves
<1>6. TrackerMoves
  BY <1>3, SingleMark DEF TrackerMoves
<1>. QED
  BY <1>5, <1>6

\* A workspace edit, however it ends.
LEMMA WorkspaceMoves ==
  ASSUME FunnelInv, NEW s \in Edits, NEW a,
         WorkspaceEdit(a, s) \/ (\E kept : WorkspaceFails(a, s, kept)) \/ WorkspaceDies(s)
  PROVE  DiskMoves /\ TrackerMoves
<1>1. /\ Took(EditRecords(s), disk, Written(s))
      /\ \A kept : Took(EditRecords(s), disk, RolledBack(s, kept))
  BY WorkspaceTook DEF FunnelInv
<1>2. EditMarks(s) \in Marks
  BY EditsAre, FunnelInvGives
<1>3. DiskMoves
  BY <1>1, JournalledMoves DEF WorkspaceEdit, WorkspaceFails, WorkspaceDies
<1>4. TrackerMoves
  BY <1>2 DEF WorkspaceEdit, WorkspaceFails, WorkspaceDies, TrackerMoves
<1>. QED
  BY <1>3, <1>4

\* A workspace edit that the journal stops: one file more has been overwritten.
LEMMA HaltMoves ==
  ASSUME FunnelInv, NEW s \in Edits, NEW a, NEW p \in Paths, NEW text \in Contents,
         WorkspaceHalts(a, s, p, text)
  PROVE  DiskMoves /\ TrackerMoves
<1> DEFINE d == Written(s)
<1>1. Took(EditRecords(s), disk, d) /\ disk \in Trees /\ disk \in Disks /\ d \in Trees
  BY WorkspaceTook, FunnelInvGives DEF FunnelInv, Took
<1>2. /\ IsFile(disk, p) /\ d[p] = disk[p]
      /\ disk' = [d EXCEPT ![p] = text] /\ base' = disk /\ left' = d
      /\ batch' = EditRecords(s) /\ Contact(a, EditMarks(s))
  BY DEF WorkspaceHalts, Written
<1> HIDE DEF d
<1>3. d[p] # Dir /\ d[p] # Absent
  BY <1>2, KindsDiffer DEF IsFile
<1>4. \A q \in Paths : Above(q, p) => d[q] = Dir
  BY <1>1, <1>3, TreesAre
<1>5. \A q \in Paths : Above(p, q) => d[q] = Absent
  BY <1>1, <1>3, TreesAre
<1>6. disk' \in Trees
  BY <1>1, <1>2, <1>4, <1>5, WriteLeavesTree
<1>7. EditMarks(s) \in Marks
  BY EditsAre, FunnelInvGives
<1>. QED
  BY <1>1, <1>2, <1>6, <1>7 DEF DiskMoves, TrackerMoves

\* A directory is created, with the parents it lacks.
LEMMA MkdirMoves ==
  ASSUME FunnelInv, NEW p \in Paths, MkdirPath(p)
  PROVE  DiskMoves /\ TrackerMoves
<1> DEFINE rec == Rec("mkdir", p, Absent, Empty, Append(MissingParents(disk, p), p))
<1>1. rec \in Record
  BY MissingAreTyped DEF Rec, Record, Contents
<1>2. rec.path = p /\ rec.before = Absent /\ rec.dirs = Append(MissingParents(disk, p), p)
  BY DEF Rec
<1>3. /\ disk \in Trees /\ disk[p] = Absent /\ Reachable(disk, p)
      /\ Journalled(Made(disk, p, Dir), <<rec>>) /\ UNCHANGED <<tracker, seen>>
  BY DEF FunnelInv, MkdirPath, Made
<1> HIDE DEF rec
<1>4. Took(<<rec>>, disk, Made(disk, rec.path, Dir))
  BY <1>1, <1>2, <1>3, CreationTook
<1>5. DiskMoves
  BY <1>2, <1>3, <1>4, JournalledMoves
<1>. QED
  BY <1>3, <1>5 DEF TrackerMoves

\* A file or an empty directory is deleted.
LEMMA DeleteMoves ==
  ASSUME FunnelInv, NEW p \in Paths, DeletePath(p)
  PROVE  DiskMoves /\ TrackerMoves
<1> DEFINE bytes == IF disk[p] = Dir THEN Empty ELSE disk[p]
           rec == Rec("delete_path", p, bytes, Absent, <<>>)
<1>1. disk \in Trees /\ disk \in Disks
  BY FunnelInvGives DEF FunnelInv
<1>2. rec \in Record
  <2>1. bytes \in Contents \cup {Absent}
    BY <1>1, KindsDiffer DEF Disks
  <2>. QED
    BY <2>1, EmptySeq DEF Rec, Record
<1>3. /\ rec.path = p /\ rec.tool = "delete_path" /\ rec.before = bytes /\ rec.after = Absent
      /\ rec.dirs = <<>>
  BY DEF Rec
<1>4. /\ disk[p] # Absent /\ \A q \in Below(p) : disk[q] = Absent
      /\ Journalled([disk EXCEPT ![p] = Absent], <<rec>>) /\ UNCHANGED <<tracker, seen>>
  BY DEF DeletePath
<1>5. rec.before = IF disk[rec.path] = Dir THEN Empty ELSE disk[rec.path]
  BY <1>3
<1> HIDE DEF rec, bytes
<1>6. Took(<<rec>>, disk, [disk EXCEPT ![rec.path] = Absent])
  BY <1>1, <1>2, <1>3, <1>4, <1>5, DeletionTook
<1>7. DiskMoves
  BY <1>3, <1>4, <1>6, JournalledMoves
<1>. QED
  BY <1>4, <1>7 DEF TrackerMoves

\* A file or a directory is renamed.
LEMMA RenameMoves ==
  ASSUME FunnelInv, NEW src \in Paths, NEW dest \in Paths, RenamePath(src, dest)
  PROVE  DiskMoves /\ TrackerMoves
<1> DEFINE bytes == IF disk[src] = Dir THEN Empty ELSE disk[src]
           made  == MissingParents(disk, dest)
           dirs == IF disk[src] = Dir THEN Append(made, dest) ELSE made
           r == Rec("rename_path", dest, Absent, bytes, dirs)
           s == Rec("rename_path", src, bytes, Absent, <<>>)
<1>1. disk \in Trees /\ disk \in Disks
  BY FunnelInvGives DEF FunnelInv
<1>2. MayMove(disk, src, dest)
  BY DEF RenamePath, MayMove
<1>3. bytes \in Contents \cup {Absent} /\ dirs \in {made, Append(made, dest)} /\ dirs \in Seq(Paths)
  BY <1>1, KindsDiffer, MissingAreTyped DEF Disks
<1>4. Journalled(Move(disk, src, dest), <<r, s>>) /\ UNCHANGED <<tracker, seen>>
  BY DEF RenamePath
<1>5. bytes = IF disk[src] = Dir THEN Empty ELSE disk[src]
  OBVIOUS
<1>6. made = MissingParents(disk, dest)
  OBVIOUS
<1> HIDE DEF bytes, dirs, made
<1>7. r \in Record /\ s \in Record
  BY <1>3, EmptySeq DEF Rec, Record
<1>8. /\ r.path = dest /\ r.before = Absent /\ r.dirs = dirs
      /\ s.path = src /\ s.tool = "rename_path" /\ s.before = bytes /\ s.after = Absent
      /\ s.dirs = <<>>
  BY DEF Rec
<1> HIDE DEF r, s
<1>9. /\ r.dirs \in {MissingParents(disk, r.path), Append(MissingParents(disk, r.path), r.path)}
      /\ s.before = IF disk[s.path] = Dir THEN Empty ELSE disk[s.path]
      /\ MayMove(disk, s.path, r.path)
  BY <1>2, <1>3, <1>5, <1>6, <1>8
<1>10. Took(<<r, s>>, disk, Move(disk, s.path, r.path))
  BY <1>1, <1>7, <1>8, <1>9, RenameTook
<1>11. DiskMoves
  BY <1>4, <1>8, <1>10, JournalledMoves
<1>. QED
  BY <1>4, <1>11 DEF TrackerMoves

\* A write outside the engine changes no batch.
LEMMA OutsideMoves ==
  ASSUME FunnelInv, NEW p \in Paths, NEW v \in Contents \cup {Absent, Dir}, Outside(p, v)
  PROVE  DiskMoves /\ TrackerMoves
<1>1. disk \in Trees
  BY DEF FunnelInv
<1>2. /\ \A q \in ToSet(Ancestors(p)) : disk[q] = Dir
      /\ \A q \in Below(p) : disk[q] = Absent
      /\ disk' = [disk EXCEPT ![p] = v] /\ UNCHANGED <<batch, tracker, seen, base, left>>
  BY DEF Outside
<1>3. \A q \in Paths : Above(q, p) => disk[q] = Dir
  BY <1>2, AncestorsAre
<1>4. \A q \in Paths : Above(p, q) => disk[q] = Absent
  BY <1>2, BelowIs
<1>5. [disk EXCEPT ![p] = v] \in Trees
  BY <1>1, <1>3, <1>4, WriteLeavesTree
<1>. QED
  BY <1>2, <1>5 DEF DiskMoves, TrackerMoves

\* An undo, or as much of it as there is.
LEMMA UndoMoves ==
  ASSUME FunnelInv, CanUndo, NEW n \in 1 .. Len(batch), ~Reverted(n).raised,
         Journalled(Reverted(n).disk, Reverted(n).records),
         NEW who, Contact(who, Reverted(n).marks) \/ \E S : Forget(S)
  PROVE  DiskMoves /\ TrackerMoves
<1>1. BatchInv /\ DiskInv /\ Len(batch) \in Nat
  BY FunnelInvGives DEF DiskInv
<1>2. Took(Reverted(n).records, disk, Reverted(n).disk)
  BY <1>1, UndoTook
<1>3. DiskMoves
  BY <1>2, JournalledMoves
<1>4. Reverted(n).marks \in Marks
  <2>1. n \in 0 .. Len(batch)
    BY <1>1
  <2>2. {} \in SUBSET Paths /\ \A p \in {} : IsFile(disk, p) /\ \A i \in DOMAIN batch : batch[i].path # p
    OBVIOUS
  <2>3. Reverted(n) \in Undoings({})
    BY <1>1, <2>1, <2>2, RevertedKeeps
  <2>. QED
    BY <2>3 DEF Undoings
<1>5. TrackerMoves
  BY <1>4 DEF TrackerMoves
<1>. QED
  BY <1>3, <1>5

\* Every step of the funnel, one action at a time.
LEMMA FunnelMove ==
  ASSUME FunnelInv, FunnelNext
  PROVE  DiskMoves /\ TrackerMoves
<1>1. disk \in Trees /\ Len(batch) \in Nat /\ (batch # <<>> => Len(batch) \in 1 .. Len(batch))
  <2>1. disk \in Trees /\ batch \in Seq(Record)
    BY DEF FunnelInv, Took
  <2>2. Len(batch) \in Nat /\ (batch # <<>> => Len(batch) # 0)
    BY <2>1, EmptySeq
  <2>. QED
    BY <2>1, <2>2
<1>2. ASSUME NEW a \in Agents, NEW p \in Paths, Read(a, p) PROVE DiskMoves /\ TrackerMoves
  <2>1. disk[p] \in Contents /\ Contact(a, Single(p, disk[p])) /\ UNCHANGED <<disk, batch, base, left>>
    BY <1>2 DEF Read, IsFile
  <2>. QED
    BY <1>1, <2>1, SingleMark DEF DiskMoves, TrackerMoves
<1>3. ASSUME NEW a \in Agents, NewAgent(a) PROVE DiskMoves /\ TrackerMoves
  BY <1>1, <1>3 DEF NewAgent, DiskMoves, TrackerMoves
<1>4. ASSUME NEW who \in Writers, Undo(who) PROVE DiskMoves /\ TrackerMoves
  <2>1. Len(batch) \in 1 .. Len(batch)
    BY <1>1, <1>4 DEF Undo, CanUndo
  <2>. QED
    BY <1>4, <2>1, UndoMoves DEF Undo
<1>5. ASSUME NEW who \in Writers, NEW n \in 1 .. (Len(batch) - 1), NEW died \in BOOLEAN,
             UndoStops(who, n, died)
      PROVE  DiskMoves /\ TrackerMoves
  <2>1. n \in 1 .. Len(batch)
    BY <1>1
  <2>. QED
    BY <1>5, <2>1, UndoMoves DEF UndoStops
<1>. QED
  BY <1>2, <1>3, <1>4, <1>5, EditTextMoves, CreateMoves, WorkspaceMoves, HaltMoves, MkdirMoves, DeleteMoves,
     RenameMoves, OutsideMoves DEF FunnelNext

\* What is marked, and what is forgotten, leaves trackers.
LEMMA TrackersStay ==
  ASSUME tracker = seen, tracker \in Trackers, TrackerMoves
  PROVE  tracker' = seen' /\ tracker' \in Trackers
<1> DEFINE T == [Paths -> Contents \cup {Unread, Gone}]
<1>1. \A old \in T : \A marks \in Marks : Over(old, marks) \in T
  <2> SUFFICES ASSUME NEW old \in T, NEW marks \in Marks PROVE Over(old, marks) \in T
    OBVIOUS
  <2>1. PICK P \in SUBSET Paths : marks \in [P -> Contents \cup {Gone}]
    BY DEF Marks
  <2>. QED
    BY <2>1 DEF Over
<1>2. Unknown \in T
  BY DEF Unknown
<1>3. Trackers = [Agents -> T]
  BY DEF Trackers
<1> HIDE DEF T
<1>4. CASE UNCHANGED <<tracker, seen>>
  BY <1>4
<1>5. ASSUME NEW who, NEW marks \in Marks, Contact(who, marks)
      PROVE  tracker' = seen' /\ tracker' \in Trackers
  BY <1>1, <1>3, <1>5 DEF Contact, Mark
<1>6. ASSUME NEW S, Forget(S) PROVE tracker' = seen' /\ tracker' \in Trackers
  BY <1>2, <1>3, <1>6 DEF Forget
<1>. QED
  BY <1>4, <1>5, <1>6 DEF TrackerMoves

\* Every step keeps the invariant.
LEMMA FunnelStep == FunnelInv /\ [FunnelNext]_funnelVars => FunnelInv'
<1> SUFFICES ASSUME FunnelInv, [FunnelNext]_funnelVars PROVE FunnelInv'
  OBVIOUS
<1>1. CASE FunnelNext
  <2>1. DiskMoves /\ TrackerMoves
    BY <1>1, FunnelMove
  <2>2. tracker' = seen' /\ tracker' \in Trackers
    BY <2>1, TrackersStay DEF FunnelInv
  <2>3. disk' \in Trees /\ Took(batch', base', left')
    BY <2>1 DEF DiskMoves, FunnelInv
  <2>. QED
    BY <2>2, <2>3 DEF FunnelInv
<1>2. CASE UNCHANGED funnelVars
  BY <1>2 DEF funnelVars, FunnelInv
<1>. QED
  BY <1>1, <1>2

\* The engine starts with a tree and an empty journal.
LEMMA FunnelStart == FunnelInit => FunnelInv
<1> SUFFICES ASSUME FunnelInit PROVE FunnelInv
  OBVIOUS
<1>1. disk \in Trees /\ base = disk /\ left = disk /\ batch = <<>>
  BY WorkspacesAssumption DEF FunnelInit
<1>2. Took(<<>>, disk, disk)
  BY <1>1, NothingTook
<1>3. tracker = seen /\ tracker \in Trackers
  BY DEF FunnelInit, Unknown, Trackers
<1>. QED
  BY <1>1, <1>2, <1>3 DEF FunnelInv

-----------------------------------------------------------------------------
(* What the funnel guarantees.                                              *)

\* Only apply_edit is a text edit; the tracker it consulted knew the bytes.
LEMMA EditsAreSeen ==
  ASSUME FunnelInv, [FunnelNext]_funnelVars, latest' = "edit_text",
         NEW p \in Paths, disk'[p] # disk[p]
  PROVE  \E a \in Agents : seen[a][p] = disk[p] /\ seen'[a][p] = disk'[p]
<1>1. PICK a \in Agents, q \in Paths, text \in Contents : EditText(a, q, text)
  <2>1. ~ UNCHANGED funnelVars
    BY DEF funnelVars
  <2>. QED
    BY <2>1 DEF FunnelNext, Step, StepLeaving, Read, EditText, Create, WorkspaceEdit, WorkspaceFails,
      WorkspaceHalts, WorkspaceDies, NewAgent, MkdirPath, DeletePath, RenamePath, Outside, Undo, UndoStops
<1>2. /\ disk' = [disk EXCEPT ![q] = text] /\ tracker[a][q] = disk[q]
      /\ Contact(a, Single(q, text)) /\ tracker = seen /\ disk \in Disks
  BY <1>1, FunnelInvGives DEF EditText, Journalled, TrackerCheck, FunnelInv
<1>3. p = q /\ disk'[q] = text
  BY <1>2 DEF Disks
<1>4. seen'[a][q] = text
  BY <1>2 DEF Contact, Over, Single
<1>. QED
  BY <1>2, <1>3, <1>4

\* Whoever writes in between, agents, the user, the shell, an undo: a text
\* edit overwrites only bytes its agent was shown or wrote.
THEOREM EditsAreNotBlind == FunnelSpec => NoBlindEdit
<1> DEFINE Seen == latest' = "edit_text" =>
             \A p \in Paths : disk'[p] # disk[p] =>
               \E a \in Agents : seen[a][p] = disk[p] /\ seen'[a][p] = disk'[p]
<1>1. FunnelInv /\ [FunnelNext]_funnelVars => Seen
  BY EditsAreSeen
<1>2. FunnelInv /\ [FunnelNext]_funnelVars => [Seen]_funnelVars
  BY <1>1
<1>. QED
  BY <1>2, FunnelStart, FunnelStep, PTL DEF FunnelSpec, NoBlindEdit

\* A workspace edit that fails with OSError leaves changed only the files whose
\* restore failed too, and those it had committed before the newest RecentLimit.
THEOREM FailuresAreUndone == FunnelSpec => AllOrNothing
<1> DEFINE Same == latest' = "edit_failed" =>
                 \A p \in Paths : disk'[p] # disk[p] =>
                   \/ p \in stuck'
                   \/ \E i \in 1 .. (Len(batch') - RecentLimit) : batch'[i].path = p
<1>1. FunnelInv /\ [FunnelNext]_funnelVars => [Same]_funnelVars
  <2> SUFFICES ASSUME FunnelInv, FunnelNext, latest' = "edit_failed",
                      NEW p \in Paths, disk'[p] # disk[p], p \notin stuck'
               PROVE  \E i \in 1 .. (Len(batch') - RecentLimit) : batch'[i].path = p
    BY DEF funnelVars
  <2>1. \E a \in Agents, s \in Edits : \E kept \in SUBSET Targets(s) : WorkspaceFails(a, s, kept)
    BY DEF FunnelNext, Step, StepLeaving, Read, EditText, Create, WorkspaceEdit, WorkspaceFails,
      WorkspaceHalts, WorkspaceDies, NewAgent, MkdirPath, DeletePath, RenamePath, Outside, Undo, UndoStops
  <2>2. PICK s \in Edits : disk' = RolledBack(s, stuck') /\ batch' = EditRecords(s)
    BY <2>1 DEF WorkspaceFails, Journalled, StepLeaving
  <2>3. Len(EditRecords(s)) = Len(s) /\ disk \in Disks
    BY EditsAre, FunnelInvGives
  <2>. QED
    BY <2>2, <2>3, RollbackRestores
<1>. QED
  BY <1>1, FunnelStart, FunnelStep, PTL DEF FunnelSpec, AllOrNothing

\* The types are kept, and the disk stays a tree: no step of the engine, of
\* the user or of an undo leaves anything in a directory that is not there.
THEOREM FunnelTypes == FunnelSpec => []FunnelTypeOK
<1> DEFINE Counted == latest \in Ops /\ stuck \subseteq Paths /\ steps \in 0 .. MaxSteps
<1>1. FunnelInit => Counted
  BY WriteFunnelAssumption DEF FunnelInit, Ops
<1>2. FunnelInv /\ Counted /\ [FunnelNext]_funnelVars => Counted'
  <2> SUFFICES ASSUME FunnelInv, Counted, FunnelNext PROVE Counted'
    BY DEF funnelVars
  <2>1. \A s \in Edits : Targets(s) \subseteq Paths
    BY EditsAre, FunnelInvGives DEF Targets, Restored
  <2>2. CASE \E a \in Agents, s \in Edits : \E kept \in SUBSET Targets(s) : WorkspaceFails(a, s, kept)
    <3>1. \E kept \in SUBSET Paths : StepLeaving("edit_failed", kept)
      BY <2>1, <2>2 DEF WorkspaceFails
    <3>. QED
      BY <3>1, WriteFunnelAssumption DEF StepLeaving, Ops
  <2>3. CASE ~ \E a \in Agents, s \in Edits :
                 \E kept \in SUBSET Targets(s) : WorkspaceFails(a, s, kept)
    <3>1. \E name \in Ops : Step(name)
      BY <2>3 DEF FunnelNext, Read, EditText, Create, WorkspaceEdit, WorkspaceHalts, WorkspaceDies,
        NewAgent, MkdirPath, DeletePath, RenamePath, Outside, Undo, UndoStops, Ops
    <3>. QED
      BY <3>1, WriteFunnelAssumption DEF Step, StepLeaving
  <2>. QED
    BY <2>2, <2>3
<1>3. FunnelInv /\ Counted => FunnelTypeOK
  BY DEF FunnelInv, Took, Trackers, FunnelTypeOK
<1> HIDE DEF Counted
<1>. QED
  BY <1>1, <1>2, <1>3, FunnelStart, FunnelStep, PTL DEF FunnelSpec

\* Undo of the newest batch when nothing came after it: all files are as they
\* were before the batch, and the directories too, unless it was an undo.
LEMMA UndoIsExact ==
  ASSUME FunnelInv, FunnelNext, latest' = "undo", disk = left, Unambiguous
  PROVE  /\ Files(disk') = Files(base)
         /\ (\A i \in DOMAIN batch : batch[i].tool # "undo_edit") => disk' = base
<1>1. PICK who \in Writers : Undo(who)
  BY DEF FunnelNext, Step, StepLeaving, Read, EditText, Create, WorkspaceEdit, WorkspaceFails,
    WorkspaceHalts, WorkspaceDies, NewAgent, MkdirPath, DeletePath, RenamePath, Outside, Undo, UndoStops
<1>2. CanUndo /\ ~Reverted(Len(batch)).raised /\ disk' = Reverted(Len(batch)).disk
  BY <1>1 DEF Undo, Journalled
<1>3. BatchInv /\ Took(batch, base, disk) /\ Plain(batch)
  BY FunnelInvGives DEF FunnelInv, Unambiguous, Plain, Ambiguous
<1>. QED
  BY <1>2, <1>3, UndoBringsBack

\* Undo is exact at every step: with nothing changed since the newest batch,
\* undo_last_sync brings back all files, and the directories too unless that
\* batch was an undo.
THEOREM UndoRestoresAll == FunnelSpec => UndoRestores
<1> DEFINE Restores ==
      latest' = "undo" /\ disk = left /\ Unambiguous
        => /\ Files(disk') = Files(base)
           /\ (\A i \in DOMAIN batch : batch[i].tool # "undo_edit") => disk' = base
<1>1. FunnelInv /\ [FunnelNext]_funnelVars => [Restores]_funnelVars
  BY UndoIsExact
<1>. QED
  BY <1>1, FunnelStart, FunnelStep, PTL DEF FunnelSpec, UndoRestores

\* Undo, or an undo that stops after any number of its records, leaves every
\* file alone whose bytes are not those the newest batch left at its path.
THEOREM ForeignWorkStays == FunnelSpec => UndoKeepsForeignWork
<1> DEFINE Foreign(p) == /\ IsFile(disk, p)
                         /\ \A i \in DOMAIN batch : batch[i].path = p => batch[i].after # disk[p]
           Kept == latest' \in {"undo", "undo_stopped"} =>
                     \A p \in Paths : Foreign(p) => disk'[p] = disk[p]
<1>1. ASSUME FunnelInv, FunnelNext, latest' \in {"undo", "undo_stopped"},
             NEW p \in Paths, Foreign(p)
      PROVE  disk'[p] = disk[p]
  <2>1. Len(batch) \in Nat /\ DiskInv
    BY <1>1, FunnelInvGives DEF DiskInv
  <2>2. PICK n \in 0 .. Len(batch) : CanUndo /\ disk' = Reverted(n).disk
    <3>1. CASE \E who \in Writers : Undo(who)
      <4>1. Len(batch) \in 0 .. Len(batch)
        BY <2>1
      <4>. QED
        BY <3>1, <4>1 DEF Undo, Journalled
    <3>2. CASE \E who \in Writers, n \in 1 .. (Len(batch) - 1), died \in BOOLEAN : UndoStops(who, n, died)
      <4>1. \A n \in 1 .. (Len(batch) - 1) : n \in 0 .. Len(batch)
        BY <2>1
      <4>. QED
        BY <3>2, <4>1 DEF UndoStops, Journalled
    <3>. QED
      BY <1>1, <3>1, <3>2 DEF FunnelNext, Step, StepLeaving, Read, EditText, Create, WorkspaceEdit,
        WorkspaceFails, WorkspaceHalts, WorkspaceDies, NewAgent, MkdirPath, DeletePath, RenamePath, Outside
  \* What CanUndo found at the path of a record is what the record left there.
  <2>3. \A i \in DOMAIN batch : batch[i].path # p
    <3> SUFFICES ASSUME NEW i \in DOMAIN batch, batch[i].path = p PROVE FALSE
      OBVIOUS
    <3>1. Verified(batch[i]) /\ batch[i].after # disk[p] /\ disk[p] \in Contents
      BY <1>1, <2>2 DEF CanUndo, IsFile
    <3>2. Dir \notin Contents /\ Absent \notin Contents
      BY WorkspacesAssumption DEF Contents, Dir, Empty, Absent
    <3>. QED
      BY <3>1, <3>2 DEF Verified
  <2>4. Reverted(n) \in Undoings({p})
    BY <1>1, <2>1, <2>3, RevertedKeeps
  <2>. QED
    BY <2>2, <2>4 DEF Undoings, Keeping
<1>2. FunnelInv /\ [FunnelNext]_funnelVars => [Kept]_funnelVars
  BY <1>1
<1>. QED
  BY <1>2, FunnelStart, FunnelStep, PTL DEF FunnelSpec, UndoKeepsForeignWork

\* What undo_last_sync promises of the newest batch, both ways: what the batch
\* did is gone, and nothing else is.
THEOREM UndoTakesBack == FunnelSpec => UndoTakesBackItsBatch
BY UndoRestoresAll, ForeignWorkStays DEF UndoTakesBackItsBatch
=============================================================================
