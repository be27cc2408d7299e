------------------------- MODULE OrchestratorProofs -------------------------
(***************************************************************************)
(* Proofs about the children of the orchestrator, for every set of agents, *)
(* budget and survey cap.  IInv is the inductive invariant; its parts say  *)
(* what the safety properties of Orchestrator.tla rest on.                 *)
(***************************************************************************)
EXTENDS Orchestrator, FiniteSetTheorems, TLAPS

-----------------------------------------------------------------------------
\* _verify_owner is the inverse of _verifying.
MapsAgree == \A o, v \in Agents : v \in verifying[o] <=> verifyOwner[v] = o

\* A live coder is the last coder that was spawned.
LiveCoderIsLast == \A c \in LiveCoders : lastCoder = c

\* Only a tester or reviewer that has not been through finish() holds the gate;
\* after the session was closed, also one that was cancelled before it began.
HoldersAreVerifiers ==
  \A v \in Agents :
    verifyOwner[v] # None =>
      /\ profile[v] \in Verifiers
      /\ \/ phase[v] \in {"created", "running", "finishing"}
         \/ closed /\ phase[v] = "lost"

\* Only closing the session cancels a task before its first step.
CancelledEarly ==
  \A a \in Agents :
    phase[a] \in {"unused", "created"} /\ cancelled[a] => closed

\* Only coders that have begun to run have edited the checkout, and an edit was
\* written before it is noted.
EditorsAreCoders ==
  \A a \in Agents :
    /\ touched[a] => wrote[a]
    /\ wrote[a] => profile[a] = "coder" /\ phase[a] \notin {"unused", "created"}

\* A coder whose verification may still be started reports every unverified
\* edit of the checkout, those of the coders before it included.
ReportIsComplete ==
  \A a \in Agents :
    profile[a] = "coder" /\ phase[a] = "closing" => unverified \subseteq merged \cup {a}

\* The ask beyond the cap is the one the retry was spent on.
RetryPaysForAsk == asks <= AskCap + (IF retry = "used" THEN 1 ELSE 0)

\* Between turns, and while a message of the user is answered, who may get an answer
\* without the notice: nothing untold is left but what a report in the inbox, a turn
\* about one, or a child is still to tell.
UntoldIsOnItsWay ==
  /\ turn # "inbox" /\ inbox = {} /\ Live = {}
  /\ ~closed /\ ~cutShort /\ \A a \in Agents : phase[a] # "lost"
  => unverified \subseteq announced

\* The parts about the gate support each other, as do those about the edits.
GateInv ==
  /\ MapsAgree
  /\ LiveCoderIsLast
  /\ GateOfCurrentCoder
  /\ HoldersAreVerifiers
  /\ CancelledEarly

EditsInv ==
  /\ EditorsAreCoders
  /\ ReportIsComplete
  /\ EditsNeverForgotten

IInv ==
  /\ TypeOK
  /\ GateInv
  /\ EditsInv
  /\ RetryPaysForAsk
  /\ BudgetRespected
  /\ UntoldIsOnItsWay

-----------------------------------------------------------------------------
\* Every step keeps the types.
LEMMA TypeStep == TypeOK /\ [Next]_vars => TypeOK'
<1> SUFFICES ASSUME TypeOK, [Next]_vars PROVE TypeOK'
  OBVIOUS
<1> USE OrchestratorAssumption DEF TypeOK, Phases, LivePhases, Profiles,
    Verifiers, Writers, children, gate, edits, survey, session, history
<1>1. CASE UserMessage
  BY <1>1 DEF UserMessage
<1>2. CASE EndTurn
  BY <1>2 DEF EndTurn, Pump, NextTurn
<1>18. CASE AnswerDirectly
  BY <1>18 DEF AnswerDirectly, Pump, NextTurn
<1>3. CASE BreakTurn
  BY <1>3 DEF BreakTurn, Pump, NextTurn
<1>4. CASE CloseSession
  BY <1>4 DEF CloseSession
<1>5. ASSUME NEW a \in Agents, SpawnCoder(a) PROVE TypeOK'
  BY <1>5 DEF SpawnCoder, Enlist
<1>6. ASSUME NEW a \in Agents, SpawnAsk(a) PROVE TypeOK'
  BY <1>6 DEF SpawnAsk, Enlist
<1>7. ASSUME NEW a \in Agents, NEW p \in Verifiers,
                  NEW from \in Agents \cup {None},
                  SpawnVerifier(a, p, from)
           PROVE  TypeOK'
  BY <1>7 DEF SpawnVerifier, Enlist
<1>8. ASSUME NEW a \in Agents, Write(a) PROVE TypeOK'
  BY <1>8 DEF Write
<1>19. ASSUME NEW a \in Agents, Record(a) PROVE TypeOK'
  BY <1>19 DEF Record
<1>9. ASSUME NEW a \in Agents, AbortChild(a) PROVE TypeOK'
  BY <1>9 DEF AbortChild
<1>10. ASSUME NEW a \in Agents, Start(a) PROVE TypeOK'
  BY <1>10 DEF Start, Move
<1>11. ASSUME NEW a \in Agents, RunEnds(a) PROVE TypeOK'
  BY <1>11 DEF RunEnds, Move
<1>12. ASSUME NEW a \in Agents, Finish(a) PROVE TypeOK'
  BY <1>12 DEF Finish, Move, Release, ReportStatus
<1>13. ASSUME NEW a \in Agents, Close(a) PROVE TypeOK'
  BY <1>13 DEF Close, Move, Retire
<1>14. ASSUME NEW a \in Agents, NEW needTester \in BOOLEAN,
                  NEW r \in Agents \cup {None}, NEW t \in Agents \cup {None},
                  CloseAndVerify(a, needTester, r, t)
           PROVE  TypeOK'
  BY <1>14 DEF CloseAndVerify
<1>15. ASSUME NEW a \in Agents, Report(a) PROVE TypeOK'
  BY <1>15 DEF Report, Move, Retire, Pump, NextTurn
<1>16. ASSUME NEW a \in Agents, Vanish(a) PROVE TypeOK'
  BY <1>16 DEF Vanish, Move, Retire
<1>17. CASE UNCHANGED vars
  BY <1>17 DEF vars
<1>. QED
  BY <1>1, <1>2, <1>3, <1>4, <1>5, <1>6, <1>7, <1>8, <1>9, <1>10, <1>11,
      <1>12, <1>13, <1>14, <1>15, <1>16, <1>17, <1>18, <1>19 DEF Next, ChildStep

\* Every step keeps the books of the gate.
LEMMA GateStep ==
  TypeOK /\ TypeOK' /\ GateInv /\ [Next]_vars => GateInv'
<1> SUFFICES ASSUME TypeOK, TypeOK', GateInv, [Next]_vars
             PROVE  GateInv'
  OBVIOUS
<1> USE OrchestratorAssumption DEF TypeOK, Phases, LivePhases, Profiles,
    Verifiers, children, gate, edits, survey, session, history, GateInv,
        MapsAgree, LiveCoderIsLast, GateOfCurrentCoder, HoldersAreVerifiers,
            CancelledEarly, LiveCoders, Live, Fresh, Gated
<1>1. CASE UserMessage
  BY <1>1 DEF UserMessage
<1>2. CASE EndTurn
  BY <1>2 DEF EndTurn, Pump, NextTurn
<1>18. CASE AnswerDirectly
  BY <1>18 DEF AnswerDirectly, Pump, NextTurn
<1>3. CASE BreakTurn
  BY <1>3 DEF BreakTurn, Pump, NextTurn
<1>4. CASE CloseSession
  BY <1>4 DEF CloseSession
<1>5. ASSUME NEW a \in Agents, SpawnCoder(a) PROVE GateInv'
  <2>1. MapsAgree'
    BY <1>5 DEF SpawnCoder, Enlist
  <2>2. LiveCoderIsLast'
    BY <1>5 DEF SpawnCoder, Enlist
  <2>3. GateOfCurrentCoder'
    BY <1>5 DEF SpawnCoder, Enlist
  <2>4. HoldersAreVerifiers'
    BY <1>5 DEF SpawnCoder, Enlist
  <2>5. CancelledEarly'
    BY <1>5 DEF SpawnCoder, Enlist
  <2>. QED
    BY <2>1, <2>2, <2>3, <2>4, <2>5
<1>6. ASSUME NEW a \in Agents, SpawnAsk(a) PROVE GateInv'
  <2>1. MapsAgree'
    BY <1>6 DEF SpawnAsk, Enlist
  <2>2. LiveCoderIsLast'
    BY <1>6 DEF SpawnAsk, Enlist
  <2>3. GateOfCurrentCoder'
    BY <1>6 DEF SpawnAsk, Enlist
  <2>4. HoldersAreVerifiers'
    BY <1>6 DEF SpawnAsk, Enlist
  <2>5. CancelledEarly'
    BY <1>6 DEF SpawnAsk, Enlist
  <2>. QED
    BY <2>1, <2>2, <2>3, <2>4, <2>5
<1>7. ASSUME NEW a \in Agents, NEW p \in Verifiers,
                  NEW from \in Agents \cup {None},
                  SpawnVerifier(a, p, from)
           PROVE  GateInv'
  <2>1. MapsAgree'
    BY <1>7 DEF SpawnVerifier, Enlist
  <2>2. LiveCoderIsLast'
    BY <1>7 DEF SpawnVerifier, Enlist
  <2>3. GateOfCurrentCoder'
    BY <1>7 DEF SpawnVerifier, Enlist
  <2>4. HoldersAreVerifiers'
    BY <1>7 DEF SpawnVerifier, Enlist
  <2>5. CancelledEarly'
    BY <1>7 DEF SpawnVerifier, Enlist
  <2>. QED
    BY <2>1, <2>2, <2>3, <2>4, <2>5
<1>8. ASSUME NEW a \in Agents, Write(a) PROVE GateInv'
  BY <1>8 DEF Write
<1>19. ASSUME NEW a \in Agents, Record(a) PROVE GateInv'
  BY <1>19 DEF Record
<1>9. ASSUME NEW a \in Agents, AbortChild(a) PROVE GateInv'
  BY <1>9 DEF AbortChild
<1>10. ASSUME NEW a \in Agents, Start(a) PROVE GateInv'
  BY <1>10 DEF Start, Move
<1>11. ASSUME NEW a \in Agents, RunEnds(a) PROVE GateInv'
  BY <1>11 DEF RunEnds, Move
<1>12. ASSUME NEW a \in Agents, Finish(a) PROVE GateInv'
  BY <1>12 DEF Finish, Move, Release, ReportStatus
<1>13. ASSUME NEW a \in Agents, Close(a) PROVE GateInv'
  BY <1>13 DEF Close, Move, Retire
<1>14. ASSUME NEW a \in Agents, NEW needTester \in BOOLEAN,
                  NEW r \in Agents \cup {None}, NEW t \in Agents \cup {None},
                  CloseAndVerify(a, needTester, r, t)
           PROVE  GateInv'
  <2>1. MapsAgree'
    BY <1>14 DEF CloseAndVerify
  <2>2. LiveCoderIsLast'
    BY <1>14 DEF CloseAndVerify
  <2>3. GateOfCurrentCoder'
    <3>1. a \in LiveCoders
      BY <1>14 DEF CloseAndVerify, MustVerify
    <3>2. LiveCoders' \subseteq LiveCoders
      BY <1>14 DEF CloseAndVerify
    <3>3. ASSUME NEW v \in Agents PROVE verifyOwner'[v] \in {None, a}
      BY <1>14, <3>1 DEF CloseAndVerify
    <3>. QED
      BY <3>1, <3>2, <3>3
  <2>4. HoldersAreVerifiers'
    BY <1>14 DEF CloseAndVerify
  <2>5. CancelledEarly'
    BY <1>14 DEF CloseAndVerify
  <2>. QED
    BY <2>1, <2>2, <2>3, <2>4, <2>5
<1>15. ASSUME NEW a \in Agents, Report(a) PROVE GateInv'
  BY <1>15 DEF Report, Move, Retire, Pump, NextTurn
<1>16. ASSUME NEW a \in Agents, Vanish(a) PROVE GateInv'
  BY <1>16 DEF Vanish, Move, Retire
<1>17. CASE UNCHANGED vars
  BY <1>17 DEF vars
<1>. QED
  BY <1>1, <1>2, <1>3, <1>4, <1>5, <1>6, <1>7, <1>8, <1>9, <1>10, <1>11,
      <1>12, <1>13, <1>14, <1>15, <1>16, <1>17, <1>18, <1>19 DEF Next, ChildStep

\* Every step keeps the books of the edits.
LEMMA EditsStep ==
  TypeOK /\ LiveCoderIsLast /\ EditsInv /\ [Next]_vars => EditsInv'
<1> SUFFICES ASSUME TypeOK, LiveCoderIsLast, EditsInv, [Next]_vars
             PROVE  EditsInv'
  OBVIOUS
<1> USE OrchestratorAssumption DEF TypeOK, Phases, LivePhases, Profiles,
    Verifiers, children, gate, edits, survey, session, history, EditsInv,
    EditorsAreCoders, ReportIsComplete, EditsNeverForgotten,
    LiveCoderIsLast, LiveCoders, Live, Fresh, MustVerify
<1>1. CASE UserMessage
  BY <1>1 DEF UserMessage
<1>2. CASE EndTurn
  BY <1>2 DEF EndTurn, Pump, NextTurn
<1>18. CASE AnswerDirectly
  BY <1>18 DEF AnswerDirectly, Pump, NextTurn
<1>3. CASE BreakTurn
  BY <1>3 DEF BreakTurn, Pump, NextTurn
<1>4. CASE CloseSession
  BY <1>4 DEF CloseSession
<1>5. ASSUME NEW a \in Agents, SpawnCoder(a) PROVE EditsInv'
  BY <1>5 DEF SpawnCoder, Enlist
<1>6. ASSUME NEW a \in Agents, SpawnAsk(a) PROVE EditsInv'
  BY <1>6 DEF SpawnAsk, Enlist
<1>7. ASSUME NEW a \in Agents, NEW p \in Verifiers,
                  NEW from \in Agents \cup {None},
                  SpawnVerifier(a, p, from)
           PROVE  EditsInv'
  BY <1>7 DEF SpawnVerifier, Enlist
<1>8. ASSUME NEW a \in Agents, Write(a) PROVE EditsInv'
  BY <1>8 DEF Write
<1>19. ASSUME NEW a \in Agents, Record(a) PROVE EditsInv'
  BY <1>19 DEF Record
<1>9. ASSUME NEW a \in Agents, AbortChild(a) PROVE EditsInv'
  BY <1>9 DEF AbortChild
<1>10. ASSUME NEW a \in Agents, Start(a) PROVE EditsInv'
  BY <1>10 DEF Start, Move
<1>11. ASSUME NEW a \in Agents, RunEnds(a) PROVE EditsInv'
  BY <1>11 DEF RunEnds, Move
<1>12. ASSUME NEW a \in Agents, Finish(a) PROVE EditsInv'
  BY <1>12 DEF Finish, Move, Release, ReportStatus
<1>13. ASSUME NEW a \in Agents, Close(a) PROVE EditsInv'
  BY <1>13 DEF Close, Move, Retire
<1>14. ASSUME NEW a \in Agents, NEW needTester \in BOOLEAN,
                  NEW r \in Agents \cup {None}, NEW t \in Agents \cup {None},
                  CloseAndVerify(a, needTester, r, t)
           PROVE  EditsInv'
  BY <1>14 DEF CloseAndVerify
<1>15. ASSUME NEW a \in Agents, Report(a) PROVE EditsInv'
  BY <1>15 DEF Report, Move, Retire, Pump, NextTurn
<1>16. ASSUME NEW a \in Agents, Vanish(a) PROVE EditsInv'
  BY <1>16 DEF Vanish, Move, Retire
<1>17. CASE UNCHANGED vars
  BY <1>17 DEF vars
<1>. QED
  BY <1>1, <1>2, <1>3, <1>4, <1>5, <1>6, <1>7, <1>8, <1>9, <1>10, <1>11,
      <1>12, <1>13, <1>14, <1>15, <1>16, <1>17, <1>18, <1>19 DEF Next, ChildStep

\* Every step keeps the count of asks.
LEMMA RetryStep ==
  TypeOK /\ RetryPaysForAsk /\ [Next]_vars => RetryPaysForAsk'
<1> SUFFICES ASSUME TypeOK, RetryPaysForAsk, [Next]_vars
             PROVE  RetryPaysForAsk'
  OBVIOUS
<1> USE OrchestratorAssumption DEF TypeOK, Phases, LivePhases, Profiles,
    Verifiers, children, gate, edits, survey, session, history, RetryPaysForAsk
<1>1. CASE UserMessage
  BY <1>1 DEF UserMessage
<1>2. CASE EndTurn
  BY <1>2 DEF EndTurn, Pump, NextTurn
<1>18. CASE AnswerDirectly
  BY <1>18 DEF AnswerDirectly, Pump, NextTurn
<1>3. CASE BreakTurn
  BY <1>3 DEF BreakTurn, Pump, NextTurn
<1>4. CASE CloseSession
  BY <1>4 DEF CloseSession
<1>5. ASSUME NEW a \in Agents, SpawnCoder(a) PROVE RetryPaysForAsk'
  BY <1>5 DEF SpawnCoder, Enlist
<1>6. ASSUME NEW a \in Agents, SpawnAsk(a) PROVE RetryPaysForAsk'
  BY <1>6 DEF SpawnAsk, Enlist
<1>7. ASSUME NEW a \in Agents, NEW p \in Verifiers,
                  NEW from \in Agents \cup {None},
                  SpawnVerifier(a, p, from)
           PROVE  RetryPaysForAsk'
  BY <1>7 DEF SpawnVerifier, Enlist
<1>8. ASSUME NEW a \in Agents, Write(a) PROVE RetryPaysForAsk'
  BY <1>8 DEF Write
<1>19. ASSUME NEW a \in Agents, Record(a) PROVE RetryPaysForAsk'
  BY <1>19 DEF Record
<1>9. ASSUME NEW a \in Agents, AbortChild(a) PROVE RetryPaysForAsk'
  BY <1>9 DEF AbortChild
<1>10. ASSUME NEW a \in Agents, Start(a) PROVE RetryPaysForAsk'
  BY <1>10 DEF Start, Move
<1>11. ASSUME NEW a \in Agents, RunEnds(a) PROVE RetryPaysForAsk'
  BY <1>11 DEF RunEnds, Move
<1>12. ASSUME NEW a \in Agents, Finish(a) PROVE RetryPaysForAsk'
  BY <1>12 DEF Finish, Move, Release, ReportStatus
<1>13. ASSUME NEW a \in Agents, Close(a) PROVE RetryPaysForAsk'
  BY <1>13 DEF Close, Move, Retire
<1>14. ASSUME NEW a \in Agents, NEW needTester \in BOOLEAN,
                  NEW r \in Agents \cup {None}, NEW t \in Agents \cup {None},
                  CloseAndVerify(a, needTester, r, t)
           PROVE  RetryPaysForAsk'
  BY <1>14 DEF CloseAndVerify
<1>15. ASSUME NEW a \in Agents, Report(a) PROVE RetryPaysForAsk'
  BY <1>15 DEF Report, Move, Retire, Pump, NextTurn
<1>16. ASSUME NEW a \in Agents, Vanish(a) PROVE RetryPaysForAsk'
  BY <1>16 DEF Vanish, Move, Retire
<1>17. CASE UNCHANGED vars
  BY <1>17 DEF vars
<1>. QED
  BY <1>1, <1>2, <1>3, <1>4, <1>5, <1>6, <1>7, <1>8, <1>9, <1>10, <1>11,
      <1>12, <1>13, <1>14, <1>15, <1>16, <1>17, <1>18, <1>19 DEF Next, ChildStep

-----------------------------------------------------------------------------

\* A step after which nobody lives who did not live before keeps the budget.
LEMMA NoNewLives ==
  ASSUME BudgetRespected, Live' \subseteq Live
  PROVE  BudgetRespected'
<1>1. IsFiniteSet(Live)
  BY OrchestratorAssumption, FS_Subset DEF Live
<1>2. Cardinality(Live') <= Cardinality(Live)
  BY <1>1, FS_Subset
<1>3. Cardinality(Live) \in Nat /\ Cardinality(Live') \in Nat
  BY <1>1, FS_Subset, FS_CardinalityType
<1>. QED
  BY <1>2, <1>3, OrchestratorAssumption DEF BudgetRespected

\* spawn() and _start_verification keep the budget: they tested it first.
LEMMA NewLives ==
  ASSUME BudgetRespected,
         NEW started, IsFiniteSet(started), WithinBudget(Cardinality(started)),
         Live' \subseteq Live \cup started
  PROVE  BudgetRespected'
<1>1. IsFiniteSet(Live)
  BY OrchestratorAssumption, FS_Subset DEF Live
<1>2. /\ IsFiniteSet(Live \cup started)
      /\ Cardinality(Live \cup started) =
           Cardinality(Live) + Cardinality(started) - Cardinality(Live \cap started)
  BY <1>1, FS_Union
<1>3. IsFiniteSet(Live \cap started)
  BY <1>1, FS_Intersection
<1>4. IsFiniteSet(Live') /\ Cardinality(Live') <= Cardinality(Live \cup started)
  BY <1>2, FS_Subset
<1>5. /\ Cardinality(Live) \in Nat
      /\ Cardinality(started) \in Nat
      /\ Cardinality(Live \cap started) \in Nat
      /\ Cardinality(Live \cup started) \in Nat
      /\ Cardinality(Live') \in Nat
  BY <1>1, <1>2, <1>3, <1>4, FS_CardinalityType
<1>. QED
  BY <1>2, <1>4, <1>5, OrchestratorAssumption DEF BudgetRespected, WithinBudget

\* Every step keeps the budget, those that start children included.
LEMMA BudgetStep == TypeOK /\ BudgetRespected /\ [Next]_vars => BudgetRespected'
<1> SUFFICES ASSUME TypeOK, BudgetRespected, [Next]_vars PROVE BudgetRespected'
  OBVIOUS
<1> USE DEF TypeOK
<1>1. CASE UserMessage
  BY <1>1, NoNewLives DEF UserMessage, Live, LivePhases, children
<1>2. CASE EndTurn
  BY <1>2, NoNewLives DEF EndTurn, Pump, NextTurn, Live, LivePhases, children
<1>18. CASE AnswerDirectly
  BY <1>18, NoNewLives DEF AnswerDirectly, Pump, NextTurn, Live, LivePhases, children
<1>3. CASE BreakTurn
  BY <1>3, NoNewLives DEF BreakTurn, Pump, NextTurn, Live, LivePhases, children
<1>4. CASE CloseSession
  BY <1>4, NoNewLives DEF CloseSession, Live, LivePhases, children
<1>5. ASSUME NEW a \in Agents, SpawnCoder(a) PROVE BudgetRespected'
  <2>1. WithinBudget(Cardinality({a})) /\ IsFiniteSet({a})
    BY <1>5, FS_Singleton DEF SpawnCoder
  <2>2. Live' \subseteq Live \cup {a}
    BY <1>5 DEF SpawnCoder, Enlist, Live
  <2>. QED
    BY <2>1, <2>2, NewLives
<1>6. ASSUME NEW a \in Agents, SpawnAsk(a) PROVE BudgetRespected'
  <2>1. CASE UNCHANGED children
    BY <2>1, NoNewLives DEF children, Live
  <2>2. CASE WithinBudget(1) /\ Enlist(a, "ask", None)
    <3>1. WithinBudget(Cardinality({a})) /\ IsFiniteSet({a})
      BY <2>2, FS_Singleton
    <3>2. Live' \subseteq Live \cup {a}
      BY <2>2 DEF Enlist, Live
    <3>. QED
      BY <3>1, <3>2, NewLives
  <2>. QED
    BY <1>6, <2>1, <2>2 DEF SpawnAsk
<1>7. ASSUME NEW a \in Agents, NEW p \in Verifiers,
                  NEW from \in Agents \cup {None},
                  SpawnVerifier(a, p, from)
           PROVE  BudgetRespected'
  <2>1. WithinBudget(Cardinality({a})) /\ IsFiniteSet({a})
    BY <1>7, FS_Singleton DEF SpawnVerifier
  <2>2. Live' \subseteq Live \cup {a}
    BY <1>7 DEF SpawnVerifier, Enlist, Live
  <2>. QED
    BY <2>1, <2>2, NewLives
<1>8. ASSUME NEW a \in Agents, Write(a) PROVE BudgetRespected'
  BY <1>8, NoNewLives DEF Write, Live, LivePhases, children
<1>19. ASSUME NEW a \in Agents, Record(a) PROVE BudgetRespected'
  BY <1>19, NoNewLives DEF Record, Live, LivePhases, children
<1>9. ASSUME NEW a \in Agents, AbortChild(a) PROVE BudgetRespected'
  BY <1>9, NoNewLives DEF AbortChild, Live, LivePhases, children
<1>10. ASSUME NEW a \in Agents, Start(a) PROVE BudgetRespected'
  BY <1>10, NoNewLives DEF Start, Move, Live, LivePhases, children
<1>11. ASSUME NEW a \in Agents, RunEnds(a) PROVE BudgetRespected'
  BY <1>11, NoNewLives DEF RunEnds, Move, Live, LivePhases, children
<1>12. ASSUME NEW a \in Agents, Finish(a) PROVE BudgetRespected'
  BY <1>12, NoNewLives DEF Finish, Move, Release, ReportStatus, Live,
      LivePhases, children
<1>13. ASSUME NEW a \in Agents, Close(a) PROVE BudgetRespected'
  BY <1>13, NoNewLives DEF Close, Move, Retire, Live, LivePhases, children
<1>14. ASSUME NEW a \in Agents, NEW needTester \in BOOLEAN,
                  NEW r \in Agents \cup {None}, NEW t \in Agents \cup {None},
                  CloseAndVerify(a, needTester, r, t)
           PROVE  BudgetRespected'
  <2> DEFINE started == {r, t} \ {None}
  <2>1. Live' \subseteq Live \cup started
    BY <1>14 DEF CloseAndVerify, Live, LivePhases
  <2>2. CASE started = {}
    BY <2>1, <2>2, NoNewLives
  <2>3. CASE started # {}
    <3>1. WithinBudget(Cardinality(started))
      BY <1>14, <2>3 DEF CloseAndVerify
    <3>2. IsFiniteSet({r}) /\ IsFiniteSet({t})
      BY FS_Singleton
    <3>3. IsFiniteSet({r} \cup {t}) /\ started \in SUBSET ({r} \cup {t})
      BY <3>2, FS_Union
    <3>4. IsFiniteSet(started)
      BY <3>3, FS_Subset
    <3>. HIDE DEF started
    <3>. QED
      BY <2>1, <3>1, <3>4, NewLives
  <2>. QED
    BY <2>2, <2>3
<1>15. ASSUME NEW a \in Agents, Report(a) PROVE BudgetRespected'
  BY <1>15, NoNewLives DEF Report, Move, Retire, Pump, NextTurn, Live,
      LivePhases, children
<1>16. ASSUME NEW a \in Agents, Vanish(a) PROVE BudgetRespected'
  BY <1>16, NoNewLives DEF Vanish, Move, Retire, Live, LivePhases, children
<1>17. CASE UNCHANGED vars
  BY <1>17, NoNewLives DEF vars, children, Live
<1>. QED
  BY <1>1, <1>2, <1>3, <1>4, <1>5, <1>6, <1>7, <1>8, <1>9, <1>10, <1>11,
      <1>12, <1>13, <1>14, <1>15, <1>16, <1>17, <1>18, <1>19 DEF Next, ChildStep

-----------------------------------------------------------------------------

\* Whatever ends a turn or a child leaves something behind that will tell the
\* user of unverified edits, or leaves none: a turn, a report, another child.
LEMMA QuietStep ==
  TypeOK /\ UntoldIsOnItsWay /\ [Next]_vars => UntoldIsOnItsWay'
<1> SUFFICES ASSUME TypeOK, UntoldIsOnItsWay, [Next]_vars
             PROVE  UntoldIsOnItsWay'
  OBVIOUS
<1> USE OrchestratorAssumption DEF TypeOK, children, gate, edits, survey, session,
    history, UntoldIsOnItsWay, Live, LivePhases
<1>1. CASE UserMessage
  BY <1>1 DEF UserMessage
<1>2. CASE EndTurn
  <2>1. CASE LiveCoders = {}
    BY <1>2, <2>1 DEF EndTurn, Pump, NextTurn
  <2>2. CASE LiveCoders # {}
    <3>1. Live' # {}
      BY <1>2, <2>2 DEF EndTurn, LiveCoders
    <3>. QED
      BY <3>1
  <2>. QED
    BY <2>1, <2>2
<1>18. CASE AnswerDirectly
  BY <1>18 DEF AnswerDirectly, Pump, NextTurn
<1>3. CASE BreakTurn
  BY <1>3 DEF BreakTurn
<1>4. CASE CloseSession
  BY <1>4 DEF CloseSession
<1>5. ASSUME NEW a \in Agents, SpawnCoder(a) PROVE UntoldIsOnItsWay'
  BY <1>5 DEF SpawnCoder, Enlist
<1>6. ASSUME NEW a \in Agents, SpawnAsk(a) PROVE UntoldIsOnItsWay'
  BY <1>6 DEF SpawnAsk, Enlist
<1>7. ASSUME NEW a \in Agents, NEW p \in Verifiers,
                  NEW from \in Agents \cup {None},
                  SpawnVerifier(a, p, from)
           PROVE  UntoldIsOnItsWay'
  BY <1>7 DEF SpawnVerifier, Enlist
<1>8. ASSUME NEW a \in Agents, Write(a) PROVE UntoldIsOnItsWay'
  BY <1>8 DEF Write
<1>19. ASSUME NEW a \in Agents, Record(a) PROVE UntoldIsOnItsWay'
  BY <1>19 DEF Record
<1>9. ASSUME NEW a \in Agents, AbortChild(a) PROVE UntoldIsOnItsWay'
  BY <1>9 DEF AbortChild
<1>10. ASSUME NEW a \in Agents, Start(a) PROVE UntoldIsOnItsWay'
  BY <1>10 DEF Start, Move
<1>11. ASSUME NEW a \in Agents, RunEnds(a) PROVE UntoldIsOnItsWay'
  BY <1>11 DEF RunEnds, Move
<1>12. ASSUME NEW a \in Agents, Finish(a) PROVE UntoldIsOnItsWay'
  <2>1. a \in Live'
    BY <1>12 DEF Finish, Move
  <2>. QED
    BY <2>1
<1>13. ASSUME NEW a \in Agents, Close(a) PROVE UntoldIsOnItsWay'
  <2>1. closed' \/ a \in Live'
    BY <1>13 DEF Close, Move
  <2>. QED
    BY <2>1
<1>14. ASSUME NEW a \in Agents, NEW needTester \in BOOLEAN,
                  NEW r \in Agents \cup {None}, NEW t \in Agents \cup {None},
                  CloseAndVerify(a, needTester, r, t)
           PROVE  UntoldIsOnItsWay'
  <2>1. a \in Live'
    BY <1>14 DEF CloseAndVerify
  <2>. QED
    BY <2>1
<1>15. ASSUME NEW a \in Agents, Report(a) PROVE UntoldIsOnItsWay'
  <2>1. turn' = "inbox" \/ inbox' # {}
    BY <1>15 DEF Report, Pump, NextTurn
  <2>. QED
    BY <2>1
<1>16. ASSUME NEW a \in Agents, Vanish(a) PROVE UntoldIsOnItsWay'
  <2>1. phase'[a] = "lost"
    BY <1>16 DEF Vanish, Retire, Move
  <2>. QED
    BY <2>1
<1>17. CASE UNCHANGED vars
  BY <1>17 DEF vars
<1>20. ASSUME NEW a \in Agents, ChildStep(a) PROVE UntoldIsOnItsWay'
  <2>. HIDE DEF UntoldIsOnItsWay
  <2>. QED
    BY <1>20, <1>10, <1>11, <1>12, <1>13, <1>14, <1>15, <1>16 DEF ChildStep
<1>. HIDE DEF UntoldIsOnItsWay
<1>. QED
  BY ZenonT(40), <1>1, <1>2, <1>3, <1>4, <1>5, <1>6, <1>7, <1>8, <1>9, <1>17,
      <1>18, <1>19, <1>20 DEF Next

-----------------------------------------------------------------------------

\* A session starts with the inductive invariant.
LEMMA Initially == Init => IInv
<1> SUFFICES ASSUME Init PROVE IInv
  OBVIOUS
<1> USE OrchestratorAssumption DEF Init
<1>1. TypeOK
  BY DEF TypeOK, Phases, LivePhases, Profiles
<1>2. Live = {}
  BY DEF Live, LivePhases
<1>3. GateInv
  BY <1>2 DEF GateInv, MapsAgree, LiveCoderIsLast, GateOfCurrentCoder,
              HoldersAreVerifiers, CancelledEarly, LiveCoders
<1>4. EditsInv
  BY DEF EditsInv, EditorsAreCoders, ReportIsComplete, EditsNeverForgotten
<1>5. RetryPaysForAsk
  BY DEF RetryPaysForAsk
<1>6. BudgetRespected
  BY <1>2, FS_EmptySet DEF BudgetRespected
<1>7. UntoldIsOnItsWay
  BY DEF UntoldIsOnItsWay
<1>. QED
  BY <1>1, <1>3, <1>4, <1>5, <1>6, <1>7 DEF IInv

\* The inductive invariant holds in every reachable state.
THEOREM Invariance == Spec => []IInv
<1>1. IInv /\ [Next]_vars => IInv'
  BY TypeStep, GateStep, EditsStep, RetryStep, BudgetStep, QuietStep
     DEF IInv, GateInv
<1>. QED
  BY Initially, <1>1, PTL DEF Spec

\* Every variable keeps to the values its Python counterpart can take.
THEOREM TypeCorrect == Spec => []TypeOK
<1>1. IInv => TypeOK
  BY DEF IInv
<1>. QED
  BY Invariance, <1>1, PTL

\* At most one coder works on the shared checkout, for any number of children.
THEOREM OneCoder == Spec => []OneLiveCoder
<1>1. IInv => OneLiveCoder
  BY DEF IInv, GateInv, LiveCoderIsLast, OneLiveCoder
<1>. QED
  BY Invariance, <1>1, PTL

\* No coder works beside the verification of an earlier coder's edits.
THEOREM GateIsOfCurrentCoder == Spec => []GateOfCurrentCoder
<1>1. IInv => GateOfCurrentCoder
  BY DEF IInv, GateInv
<1>. QED
  BY Invariance, <1>1, PTL

\* A second coder is rejected while one lives, and while another's edits are being
\* verified; of testers nothing is said.
THEOREM CodersWorkApart == Spec => []CodersApart
<1>1. OneLiveCoder /\ GateOfCurrentCoder => CodersApart
  BY DEF CodersApart
<1>. QED
  BY OneCoder, GateIsOfCurrentCoder, <1>1, PTL

\* No verifier ends without releasing the gate while the session is open.
THEOREM NoOrphanHoldsGate == Spec => []GateHeldByLive
<1>1. IInv => GateHeldByLive
  BY DEF IInv, GateInv, HoldersAreVerifiers, GateHeldByLive, Live, LivePhases
<1>. QED
  BY Invariance, <1>1, PTL

\* Edits that record_edit noted stay on the books until a complete verification was
\* started on them.
THEOREM NoEditForgotten == Spec => []EditsNeverForgotten
<1>1. IInv => EditsNeverForgotten
  BY DEF IInv, EditsInv
<1>. QED
  BY Invariance, <1>1, PTL

\* Children started by the model and by the engine never exceed the budget.
THEOREM BudgetKept == Spec => []BudgetRespected
<1>1. IInv => BudgetRespected
  BY DEF IInv
<1>. QED
  BY Invariance, <1>1, PTL

\* A session that has come to rest has told the user of every edit on the books
\* that no verification was started on, whoever answered the last message.
THEOREM UserIsTold == Spec => []QuietMeansAnnounced
<1>1. IInv => QuietMeansAnnounced
  BY DEF IInv, UntoldIsOnItsWay, QuietMeansAnnounced
<1>. QED
  BY Invariance, <1>1, PTL

\* A user message is answered with no more asks than its cap and one retry.
THEOREM AsksKept == Spec => []AsksBounded
<1>1. IInv => AsksBounded
  BY OrchestratorAssumption DEF IInv, TypeOK, RetryPaysForAsk, AsksBounded
<1>. QED
  BY Invariance, <1>1, PTL
=============================================================================
