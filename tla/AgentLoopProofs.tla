---------------------------- MODULE AgentLoopProofs ----------------------------
(***************************************************************************)
(* Proofs about the loop of an agent and about the judge that steers it:   *)
(* for every limit of the configuration a run asks for no more completions *)
(* than its limits add up to; the history it sends pairs every call with   *)
(* its results, and compaction keeps what the user asked last; and         *)
(* whatever the judge answers, its answers push in one direction, nothing  *)
(* that a judge held back goes uncounted, and no ranking loses a line.     *)
(***************************************************************************)
EXTENDS AgentLoop, Judge, FiniteSetTheorems, SequenceTheorems, TLAPS

-----------------------------------------------------------------------------
(* The budget of a run.                                                    *)

\* A round has begun: its completion was asked for, and its turn is not
\* counted yet.
InRound == pc \in {"waiting", "tools", "round"} \/ (pc = "compact" /\ resume = "round")

Stages == {"idle", "compact", "request", "waiting", "tools", "round", "question"}

\* Where the loop can stand, and what it counts there.
WithinLimits ==
  /\ pc \in Stages
  /\ resume \in {"request", "round", "nudge"}
  /\ resume = "nudge" => pc = "question"
  /\ turn \in Nat /\ sent \in Nat
  /\ continues \in Nat /\ continues <= MaxContinues
  /\ cutoffs \in Nat /\ cutoffs <= CutoffCap
  /\ extended \in Nat /\ extended <= ExtendMax

\* The ceiling is the limit of the configuration and what was granted on top.
CeilingIsGranted == ceiling = MaxTurns + Slice * continues + extended

\* Between two runs nothing is left of the last one.
IdleIsReset ==
  pc = "idle" => /\ resume = "request"
                 /\ turn = 0 /\ sent = 0 /\ cutoffs = 0 /\ continues = 0 /\ extended = 0
                 /\ budget = MaxTools

\* A completion is only asked for below the ceiling; the question whether to
\* go on is put at the ceiling at the latest.
BelowCeiling == turn <= ceiling /\ (turn = ceiling => pc = "question")

\* Each completion is a turn, a continued cutoff, the one retry of an overflow
\* or the round that is under way.
SentIsAccounted ==
  sent <= turn + cutoffs + (IF overflowed THEN 1 ELSE 0) + (IF InRound THEN 1 ELSE 0)

BudgetInv == WithinLimits /\ CeilingIsGranted /\ IdleIsReset /\ BelowCeiling /\ SentIsAccounted

\* Of two numbers the smaller one is found.
LEMMA SmallestOfTwo ==
  ASSUME NEW a \in Int, NEW b \in Int
  PROVE  Smallest({a, b}) \in {a, b} /\ Smallest({a, b}) <= a /\ Smallest({a, b}) <= b
<1>1. \E x \in {a, b} : \A y \in {a, b} : x <= y
  OBVIOUS
<1>. QED
  BY <1>1 DEF Smallest

\* The limits of the configuration are numbers.
LEMMA Limits ==
  /\ MaxTurns \in Nat \ {0} /\ MaxTools \in Nat \ {0} /\ Slice \in Nat \ {0}
  /\ MaxContinues \in Nat /\ ExtendBy \in Nat /\ ExtendMax \in Nat /\ CutoffCap \in Nat
BY LoopAssumption

\* A continuation adds its slice to what the continuations granted.
LEMMA OneSliceMore ==
  ASSUME NEW n \in Nat
  PROVE  Slice * n \in Nat /\ Slice * (n + 1) = Slice * n + Slice
BY Limits

\* A run that ends, in whatever way, leaves nothing behind.
LEMMA LeaveResets ==
  ASSUME BudgetInv, Leave
  PROVE  BudgetInv'
<1>1. Slice * 0 = 0
  BY Limits
<1>. QED
  BY <1>1, Limits
     DEF Leave, BudgetInv, WithinLimits, CeilingIsGranted, IdleIsReset, BelowCeiling,
         SentIsAccounted, InRound, Stages, modes

\* What a judge makes of a round only raises the ceiling, within its cap.
LEMMA JudgedGrants ==
  ASSUME BudgetInv, NEW t \in Nat, Judged(t)
  PROVE  \E n \in Nat : /\ ceiling' = ceiling + n /\ extended' = extended + n
                        /\ extended' <= ExtendMax
<1>1. extended \in Nat /\ extended <= ExtendMax /\ ceiling \in Nat
  BY Limits, OneSliceMore DEF BudgetInv, WithinLimits, CeilingIsGranted
<1>2. CASE UNCHANGED <<ceiling, extended>>
  BY <1>1, <1>2
<1>3. CASE /\ extended < ExtendMax
           /\ \E n \in {Smallest({ExtendBy, ExtendMax - extended})} :
                ceiling' = ceiling + n /\ extended' = extended + n
  <2> DEFINE n == Smallest({ExtendBy, ExtendMax - extended})
  <2>1. n \in {ExtendBy, ExtendMax - extended} /\ n <= ExtendMax - extended
    BY <1>1, Limits, SmallestOfTwo
  <2>2. ceiling' = ceiling + n /\ extended' = extended + n
    BY <1>3
  <2> HIDE DEF n
  <2>3. n \in Nat /\ extended + n <= ExtendMax
    BY <1>1, <1>3, <2>1, Limits
  <2>. QED
    BY <2>2, <2>3
<1>. QED
  BY <1>2, <1>3 DEF Judged, Grant, config

\* Every step keeps the account.
LEMMA BudgetStep == BudgetInv /\ [Next]_vars => BudgetInv'
<1> SUFFICES ASSUME BudgetInv, [Next]_vars PROVE BudgetInv'
  OBVIOUS
<1>1. Slice * continues \in Nat /\ Slice * (continues + 1) = Slice * continues + Slice
  BY OneSliceMore DEF BudgetInv, WithinLimits
<1>2. ceiling \in Nat
  BY <1>1, Limits DEF BudgetInv, WithinLimits, CeilingIsGranted
<1> USE Limits DEF BudgetInv, WithinLimits, CeilingIsGranted, IdleIsReset, BelowCeiling,
                   SentIsAccounted, InRound, Stages,
                   modes, config, counters, rest
<1>3. CASE Leave
  BY <1>3, LeaveResets
<1>4. CASE Start
  BY <1>1, <1>2, <1>4 DEF Start
<1>5. CASE Compact
  <2>1. \/ Leave
        \/ /\ pc = "compact" /\ pc' = resume
           /\ UNCHANGED <<resume, marker, counters, config, used, extended, overflowed, sent>>
    BY <1>5 DEF Compact, Raise, Cut
  <2>. QED
    BY <1>1, <1>2, <1>3, <2>1
<1>6. CASE Request
  BY <1>1, <1>2, <1>6 DEF Request
<1>7. CASE Overflow
  BY <1>1, <1>2, <1>7 DEF Overflow
<1>8. CASE ReplyCalls \/ Execute
  <2>1. /\ \/ pc = "waiting" /\ pc' = "tools"
           \/ UNCHANGED pc
        /\ UNCHANGED <<resume, counters, config, extended, overflowed, sent>>
    BY <1>8 DEF ReplyCalls, Execute
  <2>. QED
    BY <1>1, <1>2, <1>8, <2>1
<1>9. CASE Dispatched
  <2>1. \/ Leave
        \/ /\ pc = "tools" /\ pc' = "compact" /\ resume' = "round"
           /\ UNCHANGED <<counters, config, extended, overflowed, sent>>
    BY <1>9 DEF Dispatched, Raise, Cut, Return
  <2>. QED
    BY <1>1, <1>2, <1>3, <2>1
<1>10. CASE Round
  <2>1. PICK n \in Nat : ceiling' = ceiling + n /\ extended' = extended + n /\ extended' <= ExtendMax
    <3>1. turn + 1 \in Nat /\ Judged(turn + 1)
      BY <1>10 DEF Round
    <3>2. BudgetInv
      OBVIOUS
    <3> HIDE DEF BudgetInv
    <3>. QED
      BY <3>1, <3>2, JudgedGrants
  <2>. QED
    BY <1>1, <1>2, <1>10, <2>1 DEF Round
<1>11. CASE ReplyCutoff
  BY <1>1, <1>2, <1>11 DEF ReplyCutoff
<1>12. CASE ReplyText
  <2>1. \/ Leave
        \/ /\ pc = "waiting" /\ turn' = turn + 1
           /\ \/ turn + 1 < ceiling /\ pc' = "request" /\ UNCHANGED resume
              \/ ~ (turn + 1 < ceiling) /\ pc' = "question" /\ resume' = "nudge"
           /\ UNCHANGED <<continues, cutoffs, config, extended, overflowed, sent>>
    BY <1>12 DEF ReplyText, Return
  <2>. QED
    BY <1>1, <1>2, <1>3, <2>1
<1>13. CASE Continue
  <2>1. \/ Leave
        \/ /\ pc = "question" /\ continues < MaxContinues /\ continues' = continues + 1
           /\ ceiling' = ceiling + Slice /\ pc' = "request" /\ resume' = "request"
           /\ UNCHANGED <<turn, cutoffs, extended, overflowed, sent>>
    BY <1>13 DEF Continue, Return, Grant
  <2>. QED
    BY <1>1, <1>2, <1>3, <2>1
<1>14. CASE UNCHANGED vars
  BY <1>1, <1>2, <1>14 DEF vars
<1>15. Abort \/ Fail => Leave
  BY DEF Abort, Fail, Raise, Cut
<1>. QED
  BY <1>3, <1>4, <1>5, <1>6, <1>7, <1>8, <1>9, <1>10, <1>11, <1>12, <1>13, <1>14, <1>15
     DEF Next

\* A loop that has not run has used nothing.
LEMMA BudgetStart == Init => BudgetInv
<1>1. Slice * 0 = 0
  BY Limits
<1>. QED
  BY <1>1, Limits
     DEF Init, BudgetInv, WithinLimits, CeilingIsGranted, IdleIsReset, BelowCeiling,
         SentIsAccounted, InRound, Stages

\* For every configuration: a run asks for no more completions than its turns,
\* its continuations, the judge's extensions, its cutoffs and one retry add up
\* to, counts no turn beyond its ceiling, and leaves its limits as they were,
\* whether it returns, fails or is aborted.
THEOREM BudgetIsKept == Spec => []BudgetHolds
<1>1. Init => BudgetInv
  BY BudgetStart
<1>2. BudgetInv => BudgetHolds
  <2> SUFFICES ASSUME BudgetInv PROVE BudgetHolds
    OBVIOUS
  <2>1. Slice * continues \in Nat /\ Slice * continues <= Slice * MaxContinues
        /\ Slice * MaxContinues \in Nat
    BY Limits DEF BudgetInv, WithinLimits
  <2>2. pc = "idle" => ceiling = MaxTurns /\ budget = MaxTools
    BY Limits DEF BudgetInv, CeilingIsGranted, IdleIsReset
  <2>. QED
    BY <2>1, <2>2, Limits
       DEF BudgetHolds, BudgetInv, WithinLimits, CeilingIsGranted, BelowCeiling,
           SentIsAccounted, InRound
<1>. QED
  BY <1>1, <1>2, BudgetStep, PTL DEF Spec

-----------------------------------------------------------------------------
(* Which histories are well formed, wherever they are cut or continued.     *)

\* What a history is made of, and what opens it when it is sent.
Messages ==
  {m \in [role : {"user", "text", "calls", "tool", "summary"}, ids : SUBSET (1 .. Width)] :
     m.role = "calls" => m.ids # {}}
System == Plain("system")
Sendable == Messages \cup {System}
Paired == {"calls", "tool"}

\* A history is sent behind the system prompt, which is in no other place.
Prompted ==
  {m \in Seq(Sendable) : Len(m) > 0 /\ m[1] = System /\ \A i \in 2 .. Len(m) : m[i] \in Messages}

\* A message opens a number of calls, and at least one if it opens any.
LEMMA CallsOfMessage ==
  ASSUME NEW e \in Sendable
  PROVE  /\ IsFiniteSet(e.ids) /\ Cardinality(e.ids) \in Nat
         /\ e.role = "calls" => Cardinality(e.ids) > 0
         /\ Cardinality(e.ids) <= Width
<1>1. e.ids \in SUBSET (1 .. Width) /\ (e.role = "calls" => e.ids # {})
  BY DEF Sendable, Messages, System, Plain
<1>2. Width \in Nat
  BY LoopAssumption
<1>3. IsFiniteSet(1 .. Width) /\ Cardinality(1 .. Width) = Width
  BY <1>2, FS_Interval
<1>4. IsFiniteSet(e.ids) /\ Cardinality(e.ids) <= Cardinality(1 .. Width)
  BY <1>1, <1>3, FS_Subset
<1>5. Cardinality(e.ids) \in Nat /\ (Cardinality(e.ids) = 0 <=> e.ids = {})
  BY <1>4, FS_CardinalityType, FS_EmptySet
<1>. QED
  BY <1>1, <1>3, <1>4, <1>5

\* A group of calls and results is closed wherever it stands.
LEMMA ClosedElsewhere ==
  ASSUME NEW m \in Seq(Sendable), NEW h \in Seq(Sendable),
         NEW i \in 1 .. Len(m), NEW k \in 1 .. Len(h), Closed(m, i),
         k + Cardinality(m[i].ids) <= Len(h),
         \A x \in 0 .. Cardinality(m[i].ids) : h[k + x] = m[i + x]
  PROVE  Closed(h, k)
<1> DEFINE n == Cardinality(m[i].ids)
<1>1. n \in Nat /\ i \in Nat /\ k \in Nat
  BY CallsOfMessage, ElementOfSeq, LenProperties
<1>2. h[k] = m[i]
  BY <1>1
<1>3. /\ i + n <= Len(m)
      /\ \A j \in i + 1 .. i + n : m[j].role = "tool"
      /\ UNION {m[j].ids : j \in i + 1 .. i + n} = m[i].ids
  BY DEF Closed
<1> HIDE DEF n
<1>4. \A x \in 1 .. n : h[k + x] = m[i + x]
  BY <1>1 DEF n
<1>5. ASSUME NEW j \in k + 1 .. k + n PROVE h[j].role = "tool" /\ h[j] = m[i + (j - k)]
  <2>1. j - k \in 1 .. n /\ k + (j - k) = j /\ i + (j - k) \in i + 1 .. i + n
    BY <1>1
  <2>. QED
    BY <1>3, <1>4, <2>1
<1>6. {h[j].ids : j \in k + 1 .. k + n} = {m[j].ids : j \in i + 1 .. i + n}
  <2>1. ASSUME NEW j \in k + 1 .. k + n PROVE h[j].ids \in {m[l].ids : l \in i + 1 .. i + n}
    <3>1. i + (j - k) \in i + 1 .. i + n
      BY <1>1
    <3>. QED
      BY <1>5, <3>1
  <2>2. ASSUME NEW j \in i + 1 .. i + n PROVE m[j].ids \in {h[l].ids : l \in k + 1 .. k + n}
    <3>1. k + (j - i) \in k + 1 .. k + n /\ i + ((k + (j - i)) - k) = j
      BY <1>1
    <3>2. h[k + (j - i)] = m[j]
      BY <1>5, <3>1
    <3>. QED
      BY <3>1, <3>2
  <2>. QED
    BY <2>1, <2>2
<1>7. n = Cardinality(h[k].ids)
  BY <1>2 DEF n
<1>. QED
  BY <1>2, <1>3, <1>5, <1>6, <1>7 DEF Closed, n

\* A history that is cut between two groups stays well formed behind the cut.
LEMMA ValidBehindCut ==
  ASSUME NEW m \in Seq(Sendable), NEW h \in Seq(Sendable), NEW d \in 0 .. Len(m),
         Len(h) = Len(m) - d, \A i \in 1 .. Len(h) : h[i] = m[i + d],
         Valid(m), d = Len(m) \/ ~Splits(m, d)
  PROVE  Valid(h)
<1>1. Len(m) \in Nat /\ Len(h) \in Nat /\ d \in Nat /\ DOMAIN m = 1 .. Len(m) /\ DOMAIN h = 1 .. Len(h)
  BY LenProperties
<1> SUFFICES ASSUME NEW k \in 1 .. Len(h)
             PROVE  (Has(h, k, "calls") => Closed(h, k)) /\ (Has(h, k, "tool") => Owned(h, k))
  BY <1>1 DEF Valid
<1>2. k + d \in 1 .. Len(m) /\ h[k] = m[k + d] /\ k \in Nat
  BY <1>1
<1>3. /\ m[k + d].role = "calls" => Closed(m, k + d)
      /\ m[k + d].role = "tool" => Owned(m, k + d)
  BY <1>1, <1>2 DEF Valid, Has
<1>4. Has(h, k, "calls") => Closed(h, k)
  <2> SUFFICES ASSUME Has(h, k, "calls") PROVE Closed(h, k)
    OBVIOUS
  <2>1. Closed(m, k + d)
    BY <1>2, <1>3 DEF Has
  <2>2. Cardinality(m[k + d].ids) \in Nat /\ k + d + Cardinality(m[k + d].ids) <= Len(m)
    BY <1>2, <2>1, CallsOfMessage, ElementOfSeq DEF Closed
  <2>3. ASSUME NEW x \in 0 .. Cardinality(m[k + d].ids) PROVE h[k + x] = m[(k + d) + x]
    <3>1. k + x \in 1 .. Len(h) /\ (k + x) + d = (k + d) + x
      BY <1>1, <1>2, <2>2
    <3>. QED
      BY <3>1
  <2>4. k + Cardinality(m[k + d].ids) <= Len(h)
    BY <1>1, <1>2, <2>2
  <2>. QED
    BY <1>2, <2>1, <2>3, <2>4, ClosedElsewhere
<1>5. Has(h, k, "tool") => Owned(h, k)
  <2> SUFFICES ASSUME Has(h, k, "tool") PROVE Owned(h, k)
    OBVIOUS
  <2>1. PICK j \in 1 .. (k + d) - 1 :
          Has(m, j, "calls") /\ k + d <= j + Cardinality(m[j].ids)
    BY <1>2, <1>3 DEF Has, Owned
  <2>2. /\ j \in 1 .. Len(m) /\ m[j].role = "calls"
        /\ Cardinality(m[j].ids) \in Nat /\ j + Cardinality(m[j].ids) <= Len(m)
        /\ \A l \in j + 1 .. j + Cardinality(m[j].ids) : m[l].role = "tool"
    <3>1. j \in 1 .. Len(m) /\ m[j].role = "calls"
      BY <1>1, <1>2, <2>1 DEF Has
    <3>2. Closed(m, j)
      BY <1>1, <2>1, <3>1 DEF Valid
    <3>. QED
      BY <3>1, <3>2, CallsOfMessage, ElementOfSeq DEF Closed
  <2>3. d < j
    <3> SUFFICES ASSUME j <= d PROVE FALSE
      BY <1>1, <2>2
    <3>1. d \in 1 .. Len(m) /\ d + 1 \in 1 .. Len(m) /\ d # Len(m)
      BY <1>1, <1>2, <2>1
    <3>2. d + 1 \in j + 1 .. j + Cardinality(m[j].ids)
      BY <1>1, <1>2, <2>1, <2>2
    <3>3. m[d + 1].role = "tool"
      BY <2>2, <3>2
    <3>4. d = j \/ d \in j + 1 .. j + Cardinality(m[j].ids)
      BY <1>1, <1>2, <2>1, <2>2
    <3>5. m[d].role \in Paired
      BY <2>2, <3>4 DEF Paired
    <3>6. Splits(m, d)
      BY <1>1, <3>1, <3>3, <3>5 DEF Splits, Has, Paired
    <3>. QED
      BY <3>1, <3>6
  <2>4. j - d \in 1 .. k - 1 /\ (j - d) + d = j /\ j - d \in 1 .. Len(h)
    BY <1>1, <1>2, <2>1, <2>2, <2>3
  <2>5. h[j - d] = m[j]
    BY <2>4
  <2>6. Has(h, j - d, "calls")
    BY <1>1, <2>2, <2>4, <2>5 DEF Has
  <2>7. k <= (j - d) + Cardinality(h[j - d].ids)
    BY <1>1, <1>2, <2>1, <2>2, <2>5
  <2>. QED
    BY <2>4, <2>6, <2>7 DEF Owned
<1>. QED
  BY <1>4, <1>5

\* A well-formed history stays so behind messages that neither open nor answer
\* calls.
LEMMA ValidBehindPlain ==
  ASSUME NEW m \in Seq(Sendable), NEW h \in Seq(Sendable), NEW d \in 0 .. Len(m),
         Len(h) = Len(m) - d, \A i \in 1 .. Len(h) : h[i] = m[i + d],
         Valid(h), \A i \in 1 .. d : m[i].role \notin Paired
  PROVE  Valid(m)
<1>1. Len(m) \in Nat /\ Len(h) \in Nat /\ d \in Nat /\ DOMAIN m = 1 .. Len(m) /\ DOMAIN h = 1 .. Len(h)
  BY LenProperties
<1> SUFFICES ASSUME NEW i \in 1 .. Len(m), m[i].role \in Paired
             PROVE  (Has(m, i, "calls") => Closed(m, i)) /\ (Has(m, i, "tool") => Owned(m, i))
  BY <1>1 DEF Valid, Has, Paired
<1>2. i - d \in 1 .. Len(h) /\ (i - d) + d = i /\ i \in Nat
  BY <1>1
<1>3. h[i - d] = m[i]
  BY <1>2
<1>4. /\ m[i].role = "calls" => Closed(h, i - d)
      /\ m[i].role = "tool" => Owned(h, i - d)
  BY <1>1, <1>2, <1>3 DEF Valid, Has
<1>5. Has(m, i, "calls") => Closed(m, i)
  <2> SUFFICES ASSUME Has(m, i, "calls") PROVE Closed(m, i)
    OBVIOUS
  <2> DEFINE n == Cardinality(h[i - d].ids)
  <2>1. Closed(h, i - d)
    BY <1>4 DEF Has
  <2>2. n \in Nat /\ (i - d) + n <= Len(h)
    BY <1>2, <2>1, CallsOfMessage, ElementOfSeq DEF Closed
  <2>3. ASSUME NEW x \in 0 .. n PROVE m[i + x] = h[(i - d) + x]
    <3>1. (i - d) + x \in 1 .. Len(h) /\ ((i - d) + x) + d = i + x
      BY <1>1, <1>2, <2>2
    <3>. QED
      BY <3>1
  <2>4. i + n <= Len(m)
    BY <1>1, <1>2, <2>2
  <2>. QED
    BY <1>2, <2>1, <2>3, <2>4, ClosedElsewhere
<1>6. Has(m, i, "tool") => Owned(m, i)
  <2> SUFFICES ASSUME Has(m, i, "tool") PROVE Owned(m, i)
    OBVIOUS
  <2>1. PICK j \in 1 .. (i - d) - 1 :
          Has(h, j, "calls") /\ i - d <= j + Cardinality(h[j].ids)
    BY <1>4 DEF Has, Owned
  <2>2. j \in 1 .. Len(h) /\ j + d \in 1 .. i - 1 /\ j + d \in 1 .. Len(m)
    BY <1>1, <1>2, <2>1
  <2>3. m[j + d] = h[j] /\ Cardinality(h[j].ids) \in Nat
    BY <2>2, CallsOfMessage, ElementOfSeq
  <2>4. Has(m, j + d, "calls")
    BY <1>1, <2>1, <2>2, <2>3 DEF Has
  <2>5. i <= (j + d) + Cardinality(m[j + d].ids)
    BY <1>1, <1>2, <2>1, <2>2, <2>3
  <2>. QED
    BY <2>2, <2>4, <2>5 DEF Owned
<1>. QED
  BY <1>5, <1>6

\* And before such messages.
LEMMA ValidBeforePlain ==
  ASSUME NEW m \in Seq(Sendable), NEW h \in Seq(Sendable), Len(m) <= Len(h),
         \A i \in 1 .. Len(m) : h[i] = m[i],
         Valid(m), \A i \in Len(m) + 1 .. Len(h) : h[i].role \notin Paired
  PROVE  Valid(h)
<1>1. Len(m) \in Nat /\ Len(h) \in Nat /\ DOMAIN m = 1 .. Len(m) /\ DOMAIN h = 1 .. Len(h)
  BY LenProperties
<1> SUFFICES ASSUME NEW i \in 1 .. Len(h), h[i].role \in Paired
             PROVE  (Has(h, i, "calls") => Closed(h, i)) /\ (Has(h, i, "tool") => Owned(h, i))
  BY <1>1 DEF Valid, Has, Paired
<1>2. i \in 1 .. Len(m) /\ h[i] = m[i]
  BY <1>1
<1>3. /\ h[i].role = "calls" => Closed(m, i)
      /\ h[i].role = "tool" => Owned(m, i)
  BY <1>1, <1>2 DEF Valid, Has
<1>4. Has(h, i, "calls") => Closed(h, i)
  <2> SUFFICES ASSUME Has(h, i, "calls") PROVE Closed(h, i)
    OBVIOUS
  <2> DEFINE n == Cardinality(m[i].ids)
  <2>1. Closed(m, i)
    BY <1>3 DEF Has
  <2>2. n \in Nat /\ i + n <= Len(m)
    BY <1>2, <2>1, CallsOfMessage, ElementOfSeq DEF Closed
  <2>3. ASSUME NEW x \in 0 .. n PROVE h[i + x] = m[i + x]
    <3>1. i + x \in 1 .. Len(m)
      BY <1>1, <1>2, <2>2
    <3>. QED
      BY <3>1
  <2>4. i + n <= Len(h)
    BY <1>1, <1>2, <2>2
  <2>. QED
    BY <1>2, <2>1, <2>3, <2>4, ClosedElsewhere
<1>5. Has(h, i, "tool") => Owned(h, i)
  <2> SUFFICES ASSUME Has(h, i, "tool") PROVE Owned(h, i)
    OBVIOUS
  <2>1. PICK j \in 1 .. i - 1 : Has(m, j, "calls") /\ i <= j + Cardinality(m[j].ids)
    BY <1>3 DEF Has, Owned
  <2>2. h[j] = m[j] /\ Has(h, j, "calls")
    BY <1>1, <1>2, <2>1 DEF Has
  <2>. QED
    BY <2>1, <2>2 DEF Owned
<1>. QED
  BY <1>4, <1>5

-----------------------------------------------------------------------------
(* What compaction keeps.                                                  *)

\* A set of numbers that is not empty has a smallest one.
LEMMA SmallestIsLeast ==
  ASSUME NEW T \in SUBSET Nat, T # {}
  PROVE  Smallest(T) \in T /\ \A k \in T : Smallest(T) <= k
<1> DEFINE R == OpToRel(<, Nat)
<1>1. IsWellFoundedOn(R, Nat)
  BY NatLessThanWellFounded
<1>2. \A x, y \in Nat : <<y, x>> \in R <=> y < x
  BY DEF OpToRel
<1> HIDE DEF R
<1>3. PICK x \in T : \A y \in T : ~ (<<y, x>> \in R)
  BY <1>1, WFMin
<1>4. ASSUME NEW y \in T PROVE x <= y
  <2>1. x \in Nat /\ y \in Nat
    OBVIOUS
  <2>2. ~ (<<y, x>> \in R)
    BY <1>3
  <2>3. ~ (y < x)
    BY <1>2, <2>1, <2>2, Zenon
  <2>. QED
    BY <2>1, <2>3
<1>. QED
  BY <1>4 DEF Smallest

\* And a largest one, if it is bounded.
LEMMA LargestIsGreatest ==
  ASSUME NEW n \in Nat, NEW T \in SUBSET (0 .. n), T # {}
  PROVE  Largest(T) \in T /\ \A k \in T : k <= Largest(T)
<1> DEFINE Z == {z \in Nat : z <= n /\ n - z \in T}
           s == Smallest(Z)
<1>1. Z \in SUBSET Nat
  OBVIOUS
<1>2. Z # {}
  <2>1. PICK x \in T : TRUE
    OBVIOUS
  <2>2. n - x \in Nat /\ n - x <= n /\ n - (n - x) = x
    OBVIOUS
  <2>3. n - x \in Z
    BY <2>2
  <2>. QED
    BY <2>3
<1>3. s \in Z /\ \A k \in Z : s <= k
  <2> HIDE DEF Z
  <2>. QED
    BY <1>1, <1>2, SmallestIsLeast
<1>4. s \in Nat /\ n - s \in T
  BY <1>3
<1> HIDE DEF s
<1>5. ASSUME NEW k \in T PROVE k <= n - s
  <2>1. n - k \in Nat /\ n - k <= n /\ n - (n - k) = k
    OBVIOUS
  <2>2. n - k \in Z
    BY <2>1
  <2>3. s <= n - k
    BY <1>3, <2>2
  <2>. QED
    BY <1>4, <2>3
<1>6. \E x \in T : \A y \in T : y <= x
  BY <1>4, <1>5
<1> HIDE DEF Z
<1>. QED
  BY <1>6 DEF Largest

\* The place that a message which is kept takes among those kept.
Place(kept, i) == Cardinality({j \in kept : j <= i})

\* What is kept of a history are its messages, each at its place.
LEMMA KeptProperties ==
  ASSUME NEW T, NEW m \in Seq(T), NEW K \in SUBSET (1 .. Len(m))
  PROVE  /\ Kept(m, K) \in Seq(T)
         /\ Cardinality(K) \in Nat
         /\ Len(Kept(m, K)) = Cardinality(K)
         /\ \A i \in K : Place(K, i) \in 1 .. Cardinality(K) /\ Kept(m, K)[Place(K, i)] = m[i]
         /\ \A k \in 1 .. Cardinality(K) : \E i \in K : Place(K, i) = k
         /\ \A i, j \in K : Place(K, i) = Place(K, j) => i = j
<1> DEFINE c == Cardinality(K)
           place == [i \in K |-> Cardinality({j \in K : j <= i})]
<1>1. Len(m) \in Nat
  BY LenProperties
<1>2. IsFiniteSet(K) /\ c \in Nat
  <2>1. IsFiniteSet(1 .. Len(m))
    BY <1>1, FS_Interval
  <2>. QED
    BY <2>1, FS_Subset, FS_CardinalityType
<1>3. ASSUME NEW i \in K PROVE /\ place[i] = Place(K, i) /\ place[i] \in 1 .. c
                               /\ IsFiniteSet({j \in K : j <= i})
  <2> DEFINE below == {j \in K : j <= i}
  <2>1. below \in SUBSET K /\ i \in below
    BY <1>1
  <2>2. IsFiniteSet(below) /\ Cardinality(below) <= c
    BY <1>2, <2>1, FS_Subset
  <2>3. Cardinality(below) \in Nat /\ Cardinality(below) # 0
    BY <2>1, <2>2, FS_CardinalityType, FS_EmptySet
  <2>4. place[i] = Cardinality(below)
    OBVIOUS
  <2> HIDE DEF below, c, place
  <2>5. place[i] \in 1 .. c
    BY <1>2, <2>2, <2>3, <2>4
  <2>. QED
    BY <2>2, <2>4, <2>5 DEF Place, below
<1>4. ASSUME NEW i \in K, NEW j \in K, i < j PROVE place[i] < place[j]
  <2> DEFINE A == {l \in K : l <= i}
             B == {l \in K : l <= j}
  <2>1. A \in SUBSET B /\ j \in B /\ j \notin A
    <3>1. \A l \in K : l \in Int
      BY <1>1
    <3>2. \A l \in K : l <= i => l <= j
      BY <1>4, <3>1
    <3>3. j <= j /\ ~ (j <= i)
      BY <1>4, <3>1
    <3>. QED
      BY <3>2, <3>3
  <2>2. place[i] = Cardinality(A) /\ place[j] = Cardinality(B)
    OBVIOUS
  <2>3. IsFiniteSet(B)
    BY <1>3
  <2>4. place[i] \in Nat /\ place[j] \in Nat
    BY <1>2, <1>3
  <2> HIDE DEF A, B, place, c
  <2>5. Cardinality(A) <= Cardinality(B) /\ Cardinality(A) # Cardinality(B)
    BY <2>1, <2>3, FS_Subset
  <2>. QED
    BY <2>2, <2>4, <2>5
<1>5. ASSUME NEW i \in K, NEW j \in K, place[i] = place[j] PROVE i = j
  <2>1. i \in Int /\ j \in Int /\ place[i] \in Int
    BY <1>1, <1>2, <1>3
  <2> HIDE DEF place
  <2>. QED
    BY <1>4, <1>5, <2>1
<1>6. place \in [K -> 1 .. c]
  <2> HIDE DEF c
  <2>. QED
    BY <1>3
<1>7. place \in Injection(K, 1 .. c)
  <2> HIDE DEF place, c
  <2>. QED
    BY <1>5, <1>6 DEF Injection, IsInjective
<1>8. place \in Surjection(K, 1 .. c)
  <2>1. IsFiniteSet(1 .. c) /\ Cardinality(1 .. c) = c
    <3> HIDE DEF c
    <3>. QED
      BY <1>2, FS_Interval
  <2>2. Cardinality(K) = Cardinality(1 .. c)
    BY <2>1
  <2> HIDE DEF place, c
  <2>. QED
    BY <1>7, <2>1, <2>2, FS_Injection
<1>9. \A k \in 1 .. c : \E i \in K : place[i] = k
  <2> HIDE DEF place, c
  <2>. QED
    BY <1>8 DEF Surjection
<1> DEFINE r == [k \in 1 .. c |-> m[CHOOSE i \in K : place[i] = k]]
<1>10. Kept(m, K) = r
  BY DEF Kept
<1> HIDE DEF place, c
<1>11. ASSUME NEW k \in 1 .. c PROVE r[k] \in T
  <2>1. (CHOOSE i \in K : place[i] = k) \in K
    BY <1>9
  <2>2. m[CHOOSE i \in K : place[i] = k] \in T
    BY <2>1, ElementOfSeq
  <2>. QED
    BY <2>2
<1>12. ASSUME NEW i \in K PROVE r[place[i]] = m[i]
  <2>1. place[i] \in 1 .. c
    BY <1>3
  <2>2. (CHOOSE j \in K : place[j] = place[i]) = i
    BY <1>5
  <2>. QED
    BY <2>1, <2>2
<1>13. r \in Seq(T) /\ Len(r) = c
  <2>1. r = [k \in 1 .. c |-> r[k]] /\ r \in [1 .. c -> T]
    BY <1>11
  <2> HIDE DEF r
  <2>2. r \in Seq(T)
    BY <1>2, <2>1, SeqDef
  <2>3. DOMAIN r = 1 .. c
    BY <2>1
  <2>4. DOMAIN r = 1 .. Len(r) /\ Len(r) \in Nat
    BY <2>2, LenProperties
  <2>. QED
    BY <1>2, <2>2, <2>3, <2>4
<1> HIDE DEF r
<1>14. \A i \in K : Place(K, i) = place[i]
  BY <1>3
<1>15. \A i \in K : Place(K, i) \in 1 .. c /\ r[Place(K, i)] = m[i]
  BY <1>3, <1>12, <1>14
<1>16. \A k \in 1 .. c : \E i \in K : Place(K, i) = k
  BY <1>9, <1>14
<1>17. \A i, j \in K : Place(K, i) = Place(K, j) => i = j
  BY <1>5, <1>14
<1>. QED
  BY <1>2, <1>10, <1>13, <1>15, <1>16, <1>17 DEF c

\* The first message is first when it is kept.
LEMMA PlaceOfFirst ==
  ASSUME NEW n \in Nat, NEW K \in SUBSET (1 .. n), 1 \in K
  PROVE  Place(K, 1) = 1
<1>1. {j \in K : j <= 1} = {1}
  <2>1. \A j \in K : j <= 1 => j = 1
    <3>1. \A j \in K : j \in 1 .. n
      OBVIOUS
    <3>. QED
      BY <3>1
  <2>2. 1 <= 1
    OBVIOUS
  <2>. QED
    BY <2>1, <2>2, Zenon
<1>. QED
  BY <1>1, FS_Singleton DEF Place

\* A message that is kept with all that follow it keeps its distance from the end.
LEMMA PlaceFromEnd ==
  ASSUME NEW n \in Nat, NEW K \in SUBSET (1 .. n), NEW i \in K, i .. n \subseteq K
  PROVE  Place(K, i) = Cardinality(K) - (n - i)
<1> DEFINE A == {j \in K : j <= i}
<1>1. IsFiniteSet(K)
  <2>1. IsFiniteSet(1 .. n)
    BY FS_Interval
  <2>. QED
    BY <2>1, FS_Subset
<1>2. \A j \in K : j \in 1 .. n
  OBVIOUS
<1>3. i \in 1 .. n
  OBVIOUS
<1>4. K \ A = (i + 1) .. n
  <2>1. ASSUME NEW j \in K \ A PROVE j \in (i + 1) .. n
    <3>1. j \in 1 .. n /\ ~ (j <= i)
      BY <1>2
    <3>. QED
      BY <1>3, <3>1
  <2>2. ASSUME NEW j \in (i + 1) .. n PROVE j \in K \ A
    <3>1. j \in i .. n /\ ~ (j <= i)
      BY <1>3
    <3>. QED
      BY <3>1
  <2> HIDE DEF A
  <2>. QED
    BY <2>1, <2>2
<1>5. K \cap A = A /\ A \in SUBSET K
  OBVIOUS
<1>6. Place(K, i) = Cardinality(A)
  BY DEF Place
<1> HIDE DEF A
<1>7. IsFiniteSet(A) /\ Cardinality(A) \in Nat /\ Cardinality(K) \in Nat
  BY <1>1, <1>5, FS_Subset, FS_CardinalityType
<1>8. Cardinality(K \ A) = Cardinality(K) - Cardinality(A)
  BY <1>1, <1>5, FS_Difference
<1>9. Cardinality((i + 1) .. n) = n - i
  <2>1. i + 1 \in Int /\ n \in Int
    BY <1>3
  <2>2. Cardinality((i + 1) .. n) = IF i + 1 > n THEN 0 ELSE n - (i + 1) + 1
    BY <2>1, FS_Interval
  <2>. QED
    BY <1>3, <2>2
<1>10. Cardinality(K) - Cardinality(A) = n - i
  BY <1>4, <1>8, <1>9
<1>. QED
  BY <1>3, <1>6, <1>7, <1>10

\* Where the last exchange begins: behind the system prompt, and at the last
\* message of the user if there is one.
LEMMA LastExchangeFound ==
  ASSUME NEW m \in Prompted
  PROVE  /\ LastExchange(m) \in 1 .. Len(m)
         /\ Len(m) >= 2 => LastExchange(m) < Len(m)
         /\ (\E i \in 1 .. Len(m) : m[i].role = "user") =>
              /\ Has(m, LastExchange(m) + 1, "user")
              /\ \A i \in LastExchange(m) + 2 .. Len(m) : m[i].role # "user"
<1> DEFINE users == {i \in DOMAIN m : m[i].role = "user"}
<1>1. /\ m \in Seq(Sendable) /\ Len(m) \in Nat /\ DOMAIN m = 1 .. Len(m)
      /\ Len(m) > 0 /\ m[1] = System
  BY LenProperties DEF Prompted
<1>2. CASE users # {}
  <2>1. users \in SUBSET (0 .. Len(m))
    BY <1>1
  <2>2. LastExchange(m) = Largest(users) - 1
    BY <1>2 DEF LastExchange
  <2>3. Largest(users) \in users /\ \A k \in users : k <= Largest(users)
    <3> HIDE DEF users
    <3>. QED
      BY <1>1, <1>2, <2>1, LargestIsGreatest
  <2>4. PICK u \in users : u = Largest(users)
    BY <2>3
  <2>5. u \in 1 .. Len(m) /\ m[u].role = "user"
    BY <1>1
  <2>6. u # 1
    BY <1>1, <2>5 DEF System, Plain
  <2>7. LastExchange(m) = u - 1 /\ (u - 1) + 1 = u /\ (u - 1) + 2 = u + 1
    BY <2>2, <2>4, <2>5
  <2>8. \A i \in u + 1 .. Len(m) : m[i].role # "user"
    <3> SUFFICES ASSUME NEW i \in u + 1 .. Len(m), m[i].role = "user" PROVE FALSE
      OBVIOUS
    <3>1. i \in 1 .. Len(m) /\ i > u
      BY <1>1, <2>5
    <3>2. i \in users
      BY <1>1, <3>1
    <3>3. i <= u
      BY <2>3, <2>4, <3>2
    <3>. QED
      BY <2>5, <3>1, <3>3
  <2>9. Has(m, u, "user")
    BY <1>1, <2>5 DEF Has
  <2>. QED
    BY <1>1, <2>5, <2>6, <2>7, <2>8, <2>9
<1>3. CASE users = {}
  <2>1. LastExchange(m) = Largest({1, Len(m) - 1})
    BY <1>3 DEF LastExchange
  <2>2. {1, Len(m) - 1} \in SUBSET (0 .. Len(m)) /\ {1, Len(m) - 1} # {}
    BY <1>1
  <2>3. Largest({1, Len(m) - 1}) \in {1, Len(m) - 1}
        /\ \A k \in {1, Len(m) - 1} : k <= Largest({1, Len(m) - 1})
    BY <1>1, <2>2, LargestIsGreatest
  <2>4. ~ \E i \in 1 .. Len(m) : m[i].role = "user"
    BY <1>1, <1>3
  <2>5. LastExchange(m) \in {1, Len(m) - 1} /\ 1 <= LastExchange(m)
    BY <2>1, <2>3
  <2>6. LastExchange(m) \in 1 .. Len(m) /\ (Len(m) >= 2 => LastExchange(m) < Len(m))
    BY <1>1, <2>5
  <2>. QED
    BY <2>4, <2>6
<1>. QED
  BY <1>2, <1>3

\* And only there.
LEMMA LastUserIsLast ==
  ASSUME NEW m \in Prompted, NEW u \in 1 .. Len(m), m[u].role = "user",
         \A i \in u + 1 .. Len(m) : m[i].role # "user"
  PROVE  LastExchange(m) = u - 1
<1>1. Len(m) \in Nat /\ DOMAIN m = 1 .. Len(m)
  BY LenProperties DEF Prompted
<1> DEFINE l == LastExchange(m)
<1>2. /\ l \in 1 .. Len(m) /\ Has(m, l + 1, "user")
      /\ \A i \in l + 2 .. Len(m) : m[i].role # "user"
  BY LastExchangeFound
<1> HIDE DEF l
<1>3. l \in Nat /\ u \in Nat /\ l + 1 \in 1 .. Len(m) /\ m[l + 1].role = "user"
  BY <1>1, <1>2 DEF Has
<1>4. ~ (l + 1 > u)
  <2>1. l + 1 > u => l + 1 \in u + 1 .. Len(m)
    BY <1>1, <1>3
  <2>. QED
    BY <1>3, <2>1
<1>5. ~ (l + 1 < u)
  <2>1. l + 1 < u => u \in l + 2 .. Len(m)
    BY <1>1, <1>3
  <2>. QED
    BY <1>2, <2>1
<1>6. l = u - 1
  BY <1>3, <1>4, <1>5
<1>. QED
  BY <1>6 DEF l

-----------------------------------------------------------------------------
\* k ends with what m ends with, from the message on that follows u, and has
\* something before it.
EndsWith(k, m, u) ==
  /\ Len(k) > Len(m) - u
  /\ \A j \in 1 .. Len(m) - u : k[Len(k) - (Len(m) - u) + j] = m[u + j]

\* Eviction drops neither the system prompt nor any of the last exchange, and
\* nothing that would tear a call from its results.
LEMMA EvictionKeeps ==
  ASSUME NEW m \in Prompted, NEW k \in Evicted(m)
  PROVE  /\ k \in Prompted
         /\ EndsWith(k, m, LastExchange(m))
         /\ Valid(m) => Valid(k)
<1> DEFINE u == LastExchange(m)
           n == Len(m)
<1>1. /\ m \in Seq(Sendable) /\ n \in Nat /\ DOMAIN m = 1 .. n
      /\ n > 0 /\ m[1] = System /\ \A i \in 2 .. n : m[i] \in Messages
  BY LenProperties DEF Prompted
<1>2. u \in 1 .. n /\ (n >= 2 => u < n)
  BY LastExchangeFound
<1>3. CASE k = m
  <2>1. EndsWith(m, m, u)
    <3> HIDE DEF u
    <3>1. \A j \in 1 .. n - u : n - (n - u) + j = u + j
      BY <1>1, <1>2
    <3>. QED
      BY <1>1, <1>2, <3>1 DEF EndsWith
  <2>. QED
    BY <1>3, <2>1
<1>4. CASE k # m
  <2>1. /\ n >= 2 /\ u > 1
        /\ \E S \in SUBSET (Cuts(m) \ {u}) : k = Without(m, Groups(m), S)
        /\ Valid(k)
    <3>1. n >= 2 /\ u > 1
      BY <1>1, <1>2, <1>4 DEF Evicted
    <3>. QED
      BY <1>1, <1>2, <1>4, <3>1 DEF Evicted
  <2>2. PICK S \in SUBSET (Cuts(m) \ {u}) : k = Without(m, Groups(m), S)
    BY <2>1
  <2> DEFINE K == {i \in DOMAIN m : Groups(m)[i] \notin S}
             c == Cardinality(K)
  <2>3. K \in SUBSET (1 .. n) /\ k = Kept(m, K)
    BY <1>1, <2>2 DEF Without
  <2>4. 0 \notin S
    <3>1. 0 \notin Cuts(m)
      BY <1>1, <1>2 DEF Cuts
    <3>. QED
      BY <3>1
  <2>5. 1 \in K
    <3>1. Groups(m)[1] = 0 /\ 1 \in DOMAIN m
      BY <1>1 DEF Groups
    <3>. QED
      BY <2>4, <3>1
  <2>6. ASSUME NEW i \in u + 1 .. n PROVE i \in K
    <3>1. i \in DOMAIN m /\ i > u
      BY <1>1, <1>2
    <3>2. Groups(m)[i] = 0
      BY <3>1 DEF Groups
    <3>. QED
      BY <2>4, <3>1, <3>2
  <2> HIDE DEF K, u
  <2>7. /\ k \in Seq(Sendable) /\ c \in Nat /\ Len(k) = c
        /\ \A i \in K : Place(K, i) \in 1 .. c /\ k[Place(K, i)] = m[i]
        /\ \A p \in 1 .. c : \E i \in K : Place(K, i) = p
        /\ \A i, j \in K : Place(K, i) = Place(K, j) => i = j
    BY <1>1, <2>3, KeptProperties
  <2>8. Place(K, 1) = 1
    BY <1>1, <2>3, <2>5, PlaceOfFirst
  <2>9. c > 0 /\ k[1] = System
    <3>1. 1 \in 1 .. c /\ k[1] = m[1]
      BY <2>5, <2>7, <2>8
    <3>. QED
      BY <1>1, <2>7, <3>1
  <2>10. ASSUME NEW p \in 2 .. c PROVE k[p] \in Messages
    <3>1. p \in 1 .. c /\ p # 1
      BY <2>7
    <3>2. PICK i \in K : Place(K, i) = p
      BY <2>7, <3>1
    <3>3. i # 1
      BY <2>8, <3>1, <3>2
    <3>4. i \in 2 .. n
      BY <1>1, <2>3, <3>3
    <3>. QED
      BY <1>1, <2>7, <3>2, <3>4
  <2>11. k \in Prompted
    BY <2>7, <2>9, <2>10 DEF Prompted
  <2>12. ASSUME NEW i \in u + 1 .. n PROVE Place(K, i) = c - (n - i) /\ i \in K
    <3>1. i .. n \subseteq K
      <4>1. \A l \in i .. n : l \in u + 1 .. n
        BY <1>2
      <4>. QED
        BY <2>6, <4>1
    <3>. QED
      BY <1>1, <2>3, <2>6, <3>1, PlaceFromEnd
  <2>13. ASSUME NEW j \in 1 .. n - u PROVE k[c - (n - u) + j] = m[u + j]
    <3>1. u + j \in u + 1 .. n /\ n - (u + j) = (n - u) - j
      BY <1>1, <1>2
    <3>2. Place(K, u + j) = c - (n - (u + j)) /\ u + j \in K
      BY <2>12, <3>1
    <3>3. Place(K, u + j) = c - (n - u) + j
      BY <1>1, <1>2, <2>7, <3>1, <3>2
    <3>. QED
      BY <2>7, <3>2, <3>3
  <2>14. c > n - u
    <3>1. u + 1 \in u + 1 .. n /\ u + 1 # 1
      BY <1>1, <1>2, <2>1
    <3>2. Place(K, u + 1) = c - (n - (u + 1)) /\ u + 1 \in K
      BY <2>12, <3>1
    <3>3. Place(K, u + 1) # 1 /\ Place(K, u + 1) \in 1 .. c
      BY <2>5, <2>7, <2>8, <3>1, <3>2
    <3>. QED
      BY <1>1, <1>2, <2>7, <3>2, <3>3
  <2>15. EndsWith(k, m, u)
    BY <2>7, <2>13, <2>14 DEF EndsWith
  <2>. QED
    BY <2>1, <2>11, <2>15 DEF u
<1>. QED
  BY <1>3, <1>4

\* No group of a well-formed history reaches into the last exchange.
LEMMA ExchangeIsApart ==
  ASSUME NEW m \in Prompted, Valid(m), NEW u \in 1 .. Len(m), Has(m, u + 1, "user")
  PROVE  ~ Splits(m, u)
<1>1. /\ m \in Seq(Sendable) /\ Len(m) \in Nat /\ DOMAIN m = 1 .. Len(m)
      /\ u + 1 \in 1 .. Len(m) /\ m[u + 1].role = "user"
  BY LenProperties DEF Prompted, Has
<1>2. ~ Has(m, u + 1, "tool")
  BY <1>1 DEF Has
<1>3. ~ Has(m, u, "calls")
  <2> SUFFICES ASSUME Has(m, u, "calls") PROVE FALSE
    OBVIOUS
  <2>1. Closed(m, u) /\ m[u].role = "calls" /\ m[u] \in Sendable
    BY <1>1, ElementOfSeq DEF Valid, Has
  <2>2. Cardinality(m[u].ids) \in Nat /\ Cardinality(m[u].ids) > 0
    BY <2>1, CallsOfMessage
  <2>3. u + 1 \in u + 1 .. u + Cardinality(m[u].ids)
    BY <2>2
  <2>4. m[u + 1].role = "tool"
    BY <2>1, <2>3 DEF Closed
  <2>. QED
    BY <1>1, <2>4
<1>. QED
  BY <1>2, <1>3 DEF Splits

\* The summary replaces whole groups, and no more than what lies before the
\* last exchange.
LEMMA CutOfSummary ==
  ASSUME NEW m \in Prompted, Len(m) >= 4
  PROVE  /\ SummaryCut(m) \in 2 .. Len(m)
         /\ SummaryCut(m) = Len(m) \/ ~ Splits(m, SummaryCut(m))
         /\ LastExchange(m) > 1 /\ ~ Splits(m, LastExchange(m)) => SummaryCut(m) <= LastExchange(m)
<1> DEFINE u == LastExchange(m)
           n == Len(m)
           c == Largest({2, u - 2})
           ends == {k \in c .. n : k = n \/ ~ Splits(m, k)}
<1>1. n \in Nat /\ n >= 4
  BY LenProperties DEF Prompted
<1>2. u \in 1 .. n /\ u < n
  BY <1>1, LastExchangeFound
<1>3. c \in {2, u - 2} /\ 2 <= c
  <2> HIDE DEF u, n
  <2>1. CASE u >= 2
    <3>1. {2, u - 2} \in SUBSET (0 .. n) /\ {2, u - 2} # {}
      BY <1>1, <1>2, <2>1
    <3>2. c \in {2, u - 2} /\ \A k \in {2, u - 2} : k <= c
      BY <1>1, <3>1, LargestIsGreatest
    <3>. QED
      BY <3>2
  <2>2. CASE u = 1
    <3>1. c = 2
      <4>1. \A k \in {2, u - 2} : k <= 2
        BY <2>2
      <4>2. \A x \in {2, u - 2} : (\A k \in {2, u - 2} : k <= x) => x = 2
        BY <2>2
      <4>. QED
        BY <4>1, <4>2 DEF Largest
    <3>. QED
      BY <3>1
  <2>. QED
    BY <1>2, <2>1, <2>2
<1> HIDE DEF u, c, n
<1>4. c \in 2 .. n - 1 /\ (u > 1 => c <= u)
  BY <1>1, <1>2, <1>3
<1>5. SummaryCut(m) = Smallest(ends)
  <2>1. SummaryCut(m) = GroupBoundary(m, c)
    BY DEF SummaryCut, c, u
  <2>2. GroupBoundary(m, c) = IF c <= 1 \/ c >= n THEN c ELSE Smallest(ends)
    BY DEF GroupBoundary, n
  <2>3. ~ (c <= 1) /\ ~ (c >= n)
    BY <1>1, <1>4
  <2>. QED
    BY <2>1, <2>2, <2>3
<1>6. ends \in SUBSET Nat /\ n \in ends
  BY <1>1, <1>4
<1>7. Smallest(ends) \in ends /\ \A k \in ends : Smallest(ends) <= k
  <2> HIDE DEF ends
  <2>1. ends # {}
    BY <1>6
  <2>. QED
    BY <1>6, <2>1, SmallestIsLeast
<1>8. Smallest(ends) \in 2 .. n /\ (Smallest(ends) = n \/ ~ Splits(m, Smallest(ends)))
  BY <1>1, <1>4, <1>7
<1>9. u > 1 /\ ~ Splits(m, u) => Smallest(ends) <= u
  <2> SUFFICES ASSUME u > 1, ~ Splits(m, u) PROVE Smallest(ends) <= u
    OBVIOUS
  <2>1. u \in ends
    BY <1>1, <1>2, <1>4
  <2>. QED
    BY <1>7, <2>1
<1>. QED
  BY <1>5, <1>8, <1>9 DEF n, u

\* A summary takes the place of older messages: the system prompt stays, the
\* last exchange stays, and calls keep their results.
LEMMA SummaryKeeps ==
  ASSUME NEW m \in Prompted
  PROVE  /\ Summarized(m) \in Prompted
         /\ Valid(m) => Valid(Summarized(m))
         /\ Valid(m) /\ LastExchange(m) > 1 /\ Has(m, LastExchange(m) + 1, "user") =>
              /\ EndsWith(Summarized(m), m, LastExchange(m))
              /\ LastExchange(Summarized(m)) > 1
              /\ Has(Summarized(m), LastExchange(Summarized(m)) + 1, "user")
              /\ Len(Summarized(m)) - LastExchange(Summarized(m)) = Len(m) - LastExchange(m)
<1> DEFINE u == LastExchange(m)
           n == Len(m)
           s == Summarized(m)
           c == SummaryCut(m)
<1>1. /\ m \in Seq(Sendable) /\ n \in Nat /\ DOMAIN m = 1 .. n
      /\ n > 0 /\ m[1] = System /\ \A i \in 2 .. n : m[i] \in Messages
  BY LenProperties DEF Prompted
<1>2. u \in 1 .. n /\ (n >= 2 => u < n)
  BY LastExchangeFound
<1>3. CASE n < 4
  <2>1. s = m
    BY <1>3 DEF Summarized
  <2>2. EndsWith(m, m, u)
    <3> HIDE DEF u
    <3>1. \A j \in 1 .. n - u : n - (n - u) + j = u + j
      BY <1>1, <1>2
    <3>. QED
      BY <1>1, <1>2, <3>1 DEF EndsWith
  <2>. QED
    BY <2>1, <2>2
<1>4. CASE n >= 4
  <2> DEFINE tail == SubSeq(m, c + 1, n)
             head == <<m[1], Plain("summary")>>
  <2>1. /\ c \in 2 .. n
        /\ c = n \/ ~ Splits(m, c)
        /\ u > 1 /\ ~ Splits(m, u) => c <= u
    BY <1>4, CutOfSummary
  <2>2. s = head \o tail
    <3>1. s = IF n < 4 THEN m ELSE head \o tail
      BY Zenon DEF Summarized
    <3>2. ~ (n < 4)
      BY <1>1, <1>4
    <3>. QED
      BY <3>1, <3>2, Zenon
  <2> HIDE DEF c, u, s
  <2>0. n \in Nat /\ n >= 4 /\ c \in Nat /\ c >= 2 /\ c <= n /\ u \in Nat /\ u >= 1 /\ u < n
    <3>1. n \in Nat
      BY <1>1
    <3>2. c \in 2 .. n
      BY <2>1
    <3>3. u \in 1 .. n /\ (n >= 2 => u < n)
      BY <1>2
    <3> HIDE DEF n
    <3>. QED
      BY <1>4, <3>1, <3>2, <3>3
  <2>3. /\ tail \in Seq(Sendable) /\ Len(tail) = n - c
        /\ \A i \in 1 .. n - c : tail[i] = m[i + c]
    <3>1. \A i \in c + 1 .. n : m[i] \in Sendable
      <4>1. \A i \in c + 1 .. n : i \in 1 .. n
        BY <2>0
      <4>. QED
        BY <1>1, <4>1, ElementOfSeq
    <3>2. c + 1 \in Int /\ n \in Int
      BY <2>0
    <3>3. /\ tail \in Seq(Sendable)
          /\ Len(tail) = IF c + 1 <= n THEN n - (c + 1) + 1 ELSE 0
          /\ \A i \in 1 .. n - (c + 1) + 1 : tail[i] = m[c + 1 + i - 1]
      BY <3>1, <3>2, SubSeqProperties
    <3> HIDE DEF tail
    <3>4. Len(tail) = n - c
      BY <2>0, <3>3
    <3>5. ASSUME NEW i \in 1 .. n - c PROVE tail[i] = m[i + c]
      <4>1. i \in 1 .. n - (c + 1) + 1 /\ c + 1 + i - 1 = i + c
        BY <2>0
      <4>. QED
        BY <3>3, <4>1
    <3>. QED
      BY <3>3, <3>4, <3>5
  <2>4. Plain("summary") \in Messages /\ Plain("summary").role = "summary"
    BY DEF Messages, Plain
  <2>5. head \in Seq(Sendable) /\ Len(head) = 2 /\ head[1] = System /\ head[2] = Plain("summary")
    <3>1. m[1] \in Sendable /\ Plain("summary") \in Sendable
      BY <1>1, <2>4, ElementOfSeq DEF Sendable
    <3>. QED
      BY <1>1, <3>1
  <2> HIDE DEF tail, head
  <2>6. /\ s \in Seq(Sendable) /\ Len(s) = 2 + (n - c)
        /\ \A i \in 1 .. 2 + (n - c) : s[i] = IF i <= 2 THEN head[i] ELSE tail[i - 2]
    <3>1. /\ head \o tail \in Seq(Sendable)
          /\ Len(head \o tail) = Len(head) + Len(tail)
          /\ \A i \in 1 .. Len(head) + Len(tail) :
               (head \o tail)[i] = IF i <= Len(head) THEN head[i] ELSE tail[i - Len(head)]
      BY <2>3, <2>5, ConcatProperties
    <3>2. Len(head) = 2 /\ Len(tail) = n - c
      BY <2>3, <2>5
    <3>. QED
      BY <2>2, <3>1, <3>2, Zenon
  <2>7. s[1] = System /\ s[2] = Plain("summary")
    <3>1. 1 \in 1 .. 2 + (n - c) /\ 2 \in 1 .. 2 + (n - c)
      BY <2>0
    <3>. QED
      BY <2>5, <2>6, <3>1
  <2>8. ASSUME NEW i \in 1 .. n - c PROVE s[i + 2] = m[i + c] /\ s[i + 2] = tail[i]
    <3>1. i + 2 \in 1 .. 2 + (n - c) /\ ~ (i + 2 <= 2) /\ (i + 2) - 2 = i
      BY <2>0
    <3>. QED
      BY <2>3, <2>6, <3>1
  <2>9. s \in Prompted
    <3>1. ASSUME NEW i \in 2 .. Len(s) PROVE s[i] \in Messages
      <4>1. CASE i = 2
        BY <2>4, <2>7, <4>1
      <4>2. CASE i # 2
        <5>1. i - 2 \in 1 .. n - c /\ (i - 2) + 2 = i /\ (i - 2) + c \in 2 .. n
          BY <2>0, <2>6, <4>2
        <5>2. s[i] = m[(i - 2) + c]
          BY <2>8, <5>1
        <5>. QED
          BY <1>1, <5>1, <5>2
      <4>. QED
        BY <4>1, <4>2
    <3>2. Len(s) > 0
      BY <2>0, <2>6
    <3>. QED
      BY <2>6, <2>7, <3>1, <3>2 DEF Prompted
  <2>10. ASSUME Valid(m) PROVE Valid(s)
    <3>1. Valid(tail)
      <4>1. c \in 0 .. n /\ (c = n \/ ~ Splits(m, c))
        BY <2>0, <2>1
      <4>2. Len(tail) = n - c /\ \A i \in 1 .. Len(tail) : tail[i] = m[i + c]
        BY <2>3
      <4>. QED
        BY <1>1, <2>3, <2>10, <4>1, <4>2, ValidBehindCut
    <3>2. Len(tail) = Len(s) - 2 /\ 2 \in 0 .. Len(s)
      BY <2>0, <2>3, <2>6
    <3>3. \A i \in 1 .. Len(tail) : tail[i] = s[i + 2]
      BY <2>3, <2>8
    <3>4. \A i \in 1 .. 2 : s[i].role \notin Paired
      BY <2>7 DEF Paired, System, Plain
    <3>. QED
      BY <2>3, <2>6, <3>1, <3>2, <3>3, <3>4, ValidBehindPlain
  <2>11. ASSUME Valid(m), u > 1, Has(m, u + 1, "user")
         PROVE  /\ EndsWith(s, m, u) /\ LastExchange(s) > 1
                /\ Has(s, LastExchange(s) + 1, "user")
                /\ Len(s) - LastExchange(s) = n - u
    <3>1. c <= u /\ u < n
      BY <1>2, <1>4, <2>1, <2>11, ExchangeIsApart
    <3> DEFINE v == u - c + 2
    <3>2. v \in Nat /\ v > 1 /\ Len(s) - v = n - u /\ v + 1 \in 1 .. Len(s) /\ c \in Nat /\ u \in Nat
      BY <2>0, <2>6, <3>1
    <3>3. ASSUME NEW j \in 1 .. n - u PROVE s[v + j] = m[u + j]
      <4>1. (u - c) + j \in 1 .. n - c /\ ((u - c) + j) + 2 = v + j /\ ((u - c) + j) + c = u + j
        BY <2>0, <3>1
      <4>. QED
        BY <2>8, <4>1
    <3>4. EndsWith(s, m, u)
      <4>1. Len(s) > n - u
        BY <2>0, <3>2
      <4>2. Len(s) - (n - u) = v
        BY <2>0, <3>2
      <4>. QED
        BY <3>3, <4>1, <4>2 DEF EndsWith
    <3>5. \A i \in u + 2 .. n : m[i].role # "user"
      <4>1. u + 1 \in 1 .. n /\ m[u + 1].role = "user"
        BY <1>1, <2>11 DEF Has
      <4>. QED
        BY <4>1, LastExchangeFound DEF u
    <3>6. s[v + 1].role = "user"
      <4>1. 1 \in 1 .. n - u /\ m[u + 1].role = "user"
        BY <1>1, <1>2, <2>11, <3>1 DEF Has
      <4>. QED
        BY <3>3, <4>1
    <3>7. ASSUME NEW i \in (v + 1) + 1 .. Len(s) PROVE s[i].role # "user"
      <4>1. i - v \in 1 .. n - u /\ v + (i - v) = i /\ u + (i - v) \in u + 2 .. n
        BY <1>1, <1>2, <2>6, <3>2
      <4>. QED
        BY <3>3, <3>5, <4>1
    <3> HIDE DEF v
    <3>8. LastExchange(s) = (v + 1) - 1
      BY <2>9, <3>2, <3>6, <3>7, LastUserIsLast
    <3>9. LastExchange(s) = v
      BY <3>2, <3>8
    <3>10. Has(s, v + 1, "user")
      BY <2>6, <3>2, <3>6, LenProperties DEF Has
    <3>. QED
      BY <3>2, <3>4, <3>9, <3>10
  <2>. QED
    BY <2>9, <2>10, <2>11 DEF u, s
<1>. QED
  BY <1>1, <1>3, <1>4

\* Compaction keeps the system prompt, the calls with their results, and what
\* the user asked last.
LEMMA CompactionKeeps ==
  ASSUME NEW m \in Prompted, NEW k \in Compactions(m)
  PROVE  /\ k \in Prompted
         /\ Valid(m) => Valid(k)
         /\ Valid(m) /\ LastExchange(m) > 1 /\ Has(m, LastExchange(m) + 1, "user") =>
              EndsWith(k, m, LastExchange(m))
<1>1. CASE k \in Evicted(m)
  BY <1>1, EvictionKeeps
<1>2. CASE k \in Evicted(Summarized(m))
  <2> DEFINE s == Summarized(m)
             u == LastExchange(m)
             v == LastExchange(s)
  <2>1. /\ s \in Prompted
        /\ Valid(m) => Valid(s)
        /\ Valid(m) /\ u > 1 /\ Has(m, u + 1, "user") =>
             EndsWith(s, m, u) /\ Len(s) - v = Len(m) - u
    BY SummaryKeeps
  <2>2. v \in 1 .. Len(s) /\ u \in 1 .. Len(m)
    BY <2>1, LastExchangeFound
  <2>3. Len(s) \in Nat /\ Len(m) \in Nat
    BY <2>1, LenProperties DEF Prompted
  <2> HIDE DEF s, u, v
  <2>4. k \in Prompted /\ EndsWith(k, s, v) /\ (Valid(s) => Valid(k))
    BY <1>2, <2>1, EvictionKeeps DEF s, v
  <2>5. ASSUME Valid(m), u > 1, Has(m, u + 1, "user") PROVE EndsWith(k, m, u)
    <3>1. EndsWith(s, m, u) /\ Len(s) - v = Len(m) - u
      BY <2>1, <2>5
    <3>2. Len(k) > Len(m) - u
      BY <2>4, <3>1 DEF EndsWith
    <3>3. ASSUME NEW j \in 1 .. Len(m) - u PROVE k[Len(k) - (Len(m) - u) + j] = m[u + j]
      <4>1. k[Len(k) - (Len(m) - u) + j] = s[v + j]
        BY <2>4, <3>1 DEF EndsWith
      <4>2. s[Len(s) - (Len(m) - u) + j] = m[u + j]
        BY <3>1 DEF EndsWith
      <4>3. Len(s) - (Len(m) - u) = v
        BY <2>2, <2>3, <3>1
      <4>. QED
        BY <4>1, <4>2, <4>3
    <3>. QED
      BY <3>2, <3>3 DEF EndsWith
  <2>. QED
    BY <2>1, <2>4, <2>5 DEF u
<1>. QED
  BY <1>1, <1>2 DEF Compactions

\* The history as it is sent, and what is left of it without the prompt.
LEMMA BuiltIsPrompted ==
  ASSUME history \in Seq(Messages)
  PROVE  /\ Built \in Prompted
         /\ Valid(history) => Valid(Built)
<1>1. /\ history \in Seq(Sendable) /\ Len(history) \in Nat
      /\ \A i \in 1 .. Len(history) : history[i] \in Messages
  <2>1. Messages \subseteq Sendable
    BY DEF Sendable
  <2>. QED
    BY <2>1, SeqMonotonic, LenProperties, ElementOfSeq
<1>2. /\ <<System>> \in Seq(Sendable) /\ Len(<<System>>) = 1 /\ <<System>>[1] = System
  BY DEF Sendable
<1>3. Built = <<System>> \o history
  BY Zenon DEF Built, System
<1>4. /\ Built \in Seq(Sendable) /\ Len(Built) = 1 + Len(history)
      /\ \A i \in 1 .. 1 + Len(history) : Built[i] = IF i <= 1 THEN <<System>>[i] ELSE history[i - 1]
  <2> DEFINE one == <<System>>
  <2>1. one \in Seq(Sendable) /\ Len(one) = 1
    BY <1>2
  <2> HIDE DEF one
  <2>2. /\ one \o history \in Seq(Sendable)
        /\ Len(one \o history) = Len(one) + Len(history)
        /\ \A i \in 1 .. Len(one) + Len(history) :
             (one \o history)[i] = IF i <= Len(one) THEN one[i] ELSE history[i - Len(one)]
    BY <1>1, <2>1, ConcatProperties
  <2>3. Built = one \o history
    BY <1>3, Zenon DEF one
  <2>. QED
    BY <2>1, <2>2, <2>3, Zenon DEF one
<1>5. Built[1] = System
  BY <1>1, <1>2, <1>4
<1>6. ASSUME NEW i \in 1 .. Len(history) PROVE history[i] = Built[i + 1]
  <2>1. i + 1 \in 1 .. 1 + Len(history) /\ ~ (i + 1 <= 1) /\ (i + 1) - 1 = i
    BY <1>1
  <2>. QED
    BY <1>4, <2>1
<1>7. ASSUME NEW i \in 2 .. Len(Built) PROVE Built[i] \in Messages
  <2>1. i - 1 \in 1 .. Len(history) /\ (i - 1) + 1 = i
    BY <1>1, <1>4
  <2>. QED
    BY <1>1, <1>6, <2>1
<1>8. Built \in Prompted
  <2>1. Len(Built) > 0
    BY <1>1, <1>4
  <2>. QED
    BY <1>4, <1>5, <1>7, <2>1 DEF Prompted
<1>9. ASSUME Valid(history) PROVE Valid(Built)
  <2>1. 1 \in 0 .. Len(Built) /\ Len(history) = Len(Built) - 1
    BY <1>1, <1>4
  <2>2. \A i \in 1 .. 1 : Built[i].role \notin Paired
    BY <1>5 DEF Paired, System, Plain
  <2>. QED
    BY <1>1, <1>4, <1>6, <1>9, <2>1, <2>2, ValidBehindPlain
<1>. QED
  BY <1>8, <1>9

\* What is left of it when the prompt is taken off again.
LEMMA WithoutPrompt ==
  ASSUME NEW m \in Prompted
  PROVE  /\ Tail(m) \in Seq(Messages)
         /\ Valid(m) => Valid(Tail(m))
<1>1. /\ m \in Seq(Sendable) /\ Len(m) \in Nat /\ Len(m) > 0 /\ m[1] = System
      /\ \A i \in 2 .. Len(m) : m[i] \in Messages
  BY LenProperties DEF Prompted
<1>2. m # <<>>
  BY <1>1, EmptySeq
<1>3. /\ Tail(m) \in Seq(Sendable) /\ Len(Tail(m)) = Len(m) - 1
      /\ \A i \in 1 .. Len(Tail(m)) : Tail(m)[i] = m[i + 1]
  BY <1>1, <1>2, HeadTailProperties
<1>4. Tail(m) \in Seq(Messages)
  <2> DEFINE r == Tail(m)
  <2>1. r \in [1 .. Len(r) -> Sendable] /\ Len(r) \in Nat
    BY <1>3, LenProperties
  <2>2. ASSUME NEW i \in 1 .. Len(r) PROVE r[i] \in Messages
    <3>1. i + 1 \in 2 .. Len(m) /\ r[i] = m[i + 1]
      BY <1>1, <1>3
    <3>. QED
      BY <1>1, <3>1
  <2> HIDE DEF r
  <2>3. r \in [1 .. Len(r) -> Messages]
    BY <2>1, <2>2
  <2>4. r \in Seq(Messages)
    BY <2>1, <2>3, SeqDef
  <2>. QED
    BY <2>4 DEF r
<1>5. ASSUME Valid(m) PROVE Valid(Tail(m))
  <2>1. 1 \in 0 .. Len(m) /\ ~ Splits(m, 1)
    BY <1>1 DEF Splits, Has, System, Plain
  <2>. QED
    BY <1>1, <1>3, <1>5, <2>1, ValidBehindCut
<1>. QED
  BY <1>4, <1>5

\* Whatever compaction makes of a well-formed history, it is well formed, opens
\* with the system prompt and ends with what the user asked last.
LEMMA ExchangeKept ==
  ASSUME history \in Seq(Messages)
  PROVE  CompactionKeepsExchange
<1> SUFFICES ASSUME Valid(history), NEW k \in Compactions(Built)
             PROVE  LET last == SubSeq(Built, LastExchange(Built) + 1, Len(Built))
                    IN  /\ Valid(k) /\ k[1] = Built[1]
                        /\ last[1] = User /\ LastExchange(Built) > 1 =>
                             Len(k) > Len(last)
                             /\ SubSeq(k, Len(k) - Len(last) + 1, Len(k)) = last
  BY DEF CompactionKeepsExchange
<1> DEFINE m == Built
           u == LastExchange(m)
           n == Len(m)
           last == SubSeq(m, u + 1, n)
<1>1. m \in Prompted /\ Valid(m)
  BY BuiltIsPrompted
<1> HIDE DEF m, u, n, last
<1>2. k \in Compactions(m)
  BY DEF m
<1>3. /\ k \in Prompted /\ Valid(k)
      /\ u > 1 /\ Has(m, u + 1, "user") => EndsWith(k, m, u)
  BY <1>1, <1>2, CompactionKeeps DEF u
<1>4. k[1] = m[1]
  BY <1>1, <1>3 DEF Prompted
<1>5. /\ n \in Nat /\ n > 0 /\ DOMAIN m = 1 .. n /\ m \in Seq(Sendable)
      /\ Len(k) \in Nat /\ k \in Seq(Sendable)
  BY <1>1, <1>3, LenProperties DEF Prompted, n
<1>6. u \in 1 .. n /\ (n >= 2 => u < n)
  BY <1>1, LastExchangeFound DEF u, n
<1>7. /\ last \in Seq(Sendable) /\ Len(last) = n - u
      /\ \A i \in 1 .. n - u : last[i] = m[u + i]
  <2>1. \A i \in u + 1 .. n : m[i] \in Sendable
    <3>1. \A i \in u + 1 .. n : i \in 1 .. n
      BY <1>5, <1>6
    <3>. QED
      BY <1>5, <3>1, ElementOfSeq DEF n
  <2>2. u + 1 \in Int /\ n \in Int
    BY <1>5, <1>6
  <2>3. /\ SubSeq(m, u + 1, n) \in Seq(Sendable)
        /\ Len(SubSeq(m, u + 1, n)) = IF u + 1 <= n THEN n - (u + 1) + 1 ELSE 0
        /\ \A i \in 1 .. n - (u + 1) + 1 : SubSeq(m, u + 1, n)[i] = m[u + 1 + i - 1]
    BY <2>1, <2>2, SubSeqProperties
  <2>4. Len(last) = n - u
    BY <1>5, <1>6, <2>3 DEF last
  <2>5. ASSUME NEW i \in 1 .. n - u PROVE last[i] = m[u + i]
    <3>1. i \in 1 .. n - (u + 1) + 1 /\ u + 1 + i - 1 = u + i
      BY <1>5, <1>6
    <3>. QED
      BY <2>3, <3>1 DEF last
  <2>. QED
    BY <2>3, <2>4, <2>5 DEF last
<1>8. ASSUME last[1] = User, u > 1
      PROVE  Len(k) > Len(last) /\ SubSeq(k, Len(k) - Len(last) + 1, Len(k)) = last
  <2>1. u < n
    BY <1>5, <1>6, <1>8
  <2>2. Has(m, u + 1, "user")
    <3>1. 1 \in 1 .. n - u /\ u + 1 \in 1 .. n
      BY <1>5, <1>6, <2>1
    <3>2. m[u + 1] = User
      BY <1>7, <1>8, <3>1
    <3>. QED
      BY <1>5, <3>1, <3>2 DEF Has, User, Plain
  <2>3. EndsWith(k, m, u)
    BY <1>3, <1>8, <2>2
  <2> DEFINE d == Len(last)
             from == Len(k) - d + 1
             r == SubSeq(k, from, Len(k))
  <2>4. d = n - u /\ d \in Nat /\ d > 0
    BY <1>5, <1>6, <1>7, <2>1
  <2>5. /\ Len(k) > d
        /\ \A j \in 1 .. d : k[Len(k) - d + j] = m[u + j]
    BY <2>3, <2>4 DEF EndsWith, n
  <2> HIDE DEF d
  <2>6. from \in Int /\ from \in 1 .. Len(k) /\ Len(k) - from + 1 = d
    BY <1>5, <2>4, <2>5
  <2>7. \A i \in from .. Len(k) : k[i] \in Sendable
    <3>1. \A i \in from .. Len(k) : i \in 1 .. Len(k)
      BY <1>5, <2>6
    <3>. QED
      BY <1>5, <3>1, ElementOfSeq
  <2> HIDE DEF from
  <2>8. /\ r \in Seq(Sendable)
        /\ Len(r) = IF from <= Len(k) THEN Len(k) - from + 1 ELSE 0
        /\ \A i \in 1 .. Len(k) - from + 1 : r[i] = k[from + i - 1]
    BY <1>5, <2>6, <2>7, SubSeqProperties
  <2> HIDE DEF r
  <2>9. Len(r) = d
    BY <1>5, <2>4, <2>6, <2>8
  <2>10. ASSUME NEW i \in 1 .. d PROVE r[i] = last[i]
    <3>1. from + i - 1 = Len(k) - d + i
      BY <1>5, <2>4 DEF from
    <3>2. r[i] = k[Len(k) - d + i]
      BY <2>6, <2>8, <3>1
    <3>. QED
      BY <1>7, <2>4, <2>5, <3>2
  <2>11. r = last
    <3>1. Len(r) = Len(last)
      BY <2>9 DEF d
    <3>. QED
      BY <1>7, <2>8, <2>9, <2>10, <3>1, SeqEqual
  <2>. QED
    BY <2>5, <2>11 DEF d, from, r
<1>. QED
  BY <1>3, <1>4, <1>8 DEF m, u, n, last

-----------------------------------------------------------------------------
(* The history of a run.                                                   *)

\* What a step adds to the history; plain: no calls and no results among it.
Grows(plain) ==
  \E t \in Seq(Messages) :
    /\ history' = history \o t
    /\ plain => \A i \in 1 .. Len(t) : t[i].role \notin Paired

\* What the user and the model say in words opens and answers no calls.
LEMMA PlainMessages ==
  /\ User \in Messages /\ User.role \notin Paired
  /\ Text \in Messages /\ Text.role \notin Paired
BY DEF User, Text, Plain, Messages, Paired

\* A history that is left alone grows by nothing.
LEMMA GrowsByNothing ==
  ASSUME history \in Seq(Messages), UNCHANGED history
  PROVE  Grows(TRUE)
<1>1. <<>> \in Seq(Messages) /\ Len(<<>>) = 0
  BY EmptySeq
<1>2. history' = history \o <<>>
  BY ConcatEmptySeq
<1>3. \A i \in 1 .. 0 : FALSE
  OBVIOUS
<1>. QED
  BY <1>1, <1>2, <1>3 DEF Grows

\* One message more.
LEMMA GrowsByOne ==
  ASSUME history \in Seq(Messages), NEW e \in Messages, history' = Append(history, e)
  PROVE  /\ Grows(FALSE)
         /\ e.role \notin Paired => Grows(TRUE)
<1>1. <<e>> \in Seq(Messages) /\ Len(<<e>>) = 1 /\ <<e>>[1] = e
  OBVIOUS
<1>2. history' = history \o <<e>>
  BY AppendIsConcat
<1>3. \A i \in 1 .. 1 : i = 1
  OBVIOUS
<1>. QED
  BY <1>1, <1>2, <1>3 DEF Grows

\* Two messages more, of words.
LEMMA GrowsByTwo ==
  ASSUME NEW a \in {User, Text}, NEW b \in {User, Text}, history' = history \o <<a, b>>
  PROVE  Grows(TRUE)
<1> DEFINE t == <<a, b>>
<1>1. t \in Seq(Messages) /\ Len(t) = 2 /\ t[1] = a /\ t[2] = b
  BY PlainMessages
<1>2. \A i \in 1 .. 2 : i = 1 \/ i = 2
  OBVIOUS
<1>3. history' = history \o t
  OBVIOUS
<1> HIDE DEF t
<1>4. \A i \in 1 .. Len(t) : t[i].role \notin Paired
  BY <1>1, <1>2, PlainMessages
<1>. QED
  BY <1>1, <1>3, <1>4 DEF Grows

\* What a history begins with is not touched when it grows.
LEMMA GrowthKeeps ==
  ASSUME history \in Seq(Messages), NEW plain \in BOOLEAN, Grows(plain)
  PROVE  /\ history' \in Seq(Messages) /\ Len(history') >= Len(history)
         /\ \A i \in 1 .. Len(history) : history'[i] = history[i]
         /\ \A k \in 0 .. Len(history) : SubSeq(history', 1, k) = SubSeq(history, 1, k)
         /\ plain /\ Valid(history) => Valid(history')
<1>1. PICK t \in Seq(Messages) :
        /\ history' = history \o t
        /\ plain => \A i \in 1 .. Len(t) : t[i].role \notin Paired
  BY DEF Grows
<1> DEFINE h == history
           g == h \o t
<1>2. history' = g
  BY <1>1
<1>3. h \in Seq(Messages) /\ Len(h) \in Nat /\ Len(t) \in Nat
  BY LenProperties
<1> HIDE DEF h
<1>4. /\ g \in Seq(Messages) /\ Len(g) = Len(h) + Len(t)
      /\ \A i \in 1 .. Len(h) + Len(t) : g[i] = IF i <= Len(h) THEN h[i] ELSE t[i - Len(h)]
  BY <1>3, ConcatProperties
<1> HIDE DEF g
<1>5. Len(g) >= Len(h) /\ \A i \in 1 .. Len(h) : g[i] = h[i]
  <2>1. \A i \in 1 .. Len(h) : i \in 1 .. Len(h) + Len(t) /\ i <= Len(h)
    BY <1>3
  <2>. QED
    BY <1>3, <1>4, <2>1
<1>6. ASSUME NEW k \in 0 .. Len(h) PROVE SubSeq(g, 1, k) = SubSeq(h, 1, k)
  <2>1. k \in Int /\ k \in Nat /\ 1 \in Int /\ (k - 1) + 1 = k /\ (1 <= k \/ k = 0)
    BY <1>3
  <2>2. \A i \in 1 .. k : i \in 1 .. Len(h) /\ 1 + i - 1 = i
    BY <1>3
  <2>3. \A i \in 1 .. k : g[i] = h[i] /\ h[i] \in Messages /\ g[i] \in Messages
    BY <1>3, <1>5, <2>2, ElementOfSeq
  <2> DEFINE a == SubSeq(g, 1, k)
             b == SubSeq(h, 1, k)
  <2>4. /\ a \in Seq(Messages) /\ Len(a) = IF 1 <= k THEN k - 1 + 1 ELSE 0
        /\ \A i \in 1 .. k - 1 + 1 : a[i] = g[1 + i - 1]
    BY <2>1, <2>3, SubSeqProperties
  <2>5. /\ b \in Seq(Messages) /\ Len(b) = IF 1 <= k THEN k - 1 + 1 ELSE 0
        /\ \A i \in 1 .. k - 1 + 1 : b[i] = h[1 + i - 1]
    BY <2>1, <2>3, SubSeqProperties
  <2> HIDE DEF a, b
  <2>6. Len(a) = k /\ Len(b) = k
    BY <2>1, <2>4, <2>5
  <2>7. \A i \in 1 .. k : a[i] = b[i]
    BY <2>1, <2>2, <2>3, <2>4, <2>5
  <2>8. a = b
    BY <2>4, <2>5, <2>6, <2>7, SeqEqual
  <2>. QED
    BY <2>8 DEF a, b
<1>7. ASSUME plain, Valid(h) PROVE Valid(g)
  <2>1. Messages \subseteq Sendable
    BY DEF Sendable
  <2>2. h \in Seq(Sendable) /\ g \in Seq(Sendable)
    BY <1>3, <1>4, <2>1, SeqMonotonic
  <2>3. ASSUME NEW i \in Len(h) + 1 .. Len(g) PROVE g[i].role \notin Paired
    <3>1. i \in 1 .. Len(h) + Len(t) /\ ~ (i <= Len(h)) /\ i - Len(h) \in 1 .. Len(t)
      BY <1>3, <1>4
    <3>. QED
      BY <1>1, <1>4, <1>7, <3>1
  <2>4. Len(h) <= Len(g)
    BY <1>3, <1>4
  <2>. QED
    BY <1>5, <1>7, <2>2, <2>3, <2>4, ValidBeforePlain
<1>. QED
  BY <1>2, <1>4, <1>5, <1>6, <1>7 DEF h

\* What is left when a run is cut short: what was there before it, unless the
\* history has become shorter than that.
LEMMA CutBack ==
  ASSUME history \in Seq(Messages), marker \in Nat
  PROVE  /\ Truncated \in Seq(Messages)
         /\ marker <= Len(history) => Truncated = SubSeq(history, 1, marker)
<1> DEFINE n == Len(history)
           s == Smallest({marker, n})
<1>1. n \in Nat
  BY LenProperties
<1>2. s \in {marker, n} /\ s <= marker /\ s <= n
  <2>1. marker \in Int /\ n \in Int
    BY <1>1
  <2> HIDE DEF n
  <2>. QED
    BY <2>1, SmallestOfTwo
<1>3. Truncated = SubSeq(history, 1, s)
  BY DEF Truncated
<1> HIDE DEF s, n
<1>4. s \in Nat /\ s <= n /\ (marker <= n => s = marker)
  BY <1>1, <1>2
<1>5. \A i \in 1 .. s : history[i] \in Messages
  <2>1. \A i \in 1 .. s : i \in 1 .. n
    BY <1>1, <1>4
  <2>. QED
    BY <2>1, ElementOfSeq DEF n
<1>6. SubSeq(history, 1, s) \in Seq(Messages)
  BY <1>4, <1>5, SubSeqProperties
<1>. QED
  BY <1>3, <1>4, <1>6 DEF n

\* What the loop counts beside its budget.
Counts ==
  /\ marker \in Nat /\ nudges \in Nat /\ budget \in Nat /\ used \in Nat
  /\ run \in Nat /\ compacted \in Nat
  /\ asks \in BOOLEAN /\ judged \in BOOLEAN /\ parallel \in BOOLEAN
  /\ overflowed \in BOOLEAN /\ tainted \in BOOLEAN

\* While calls run there is a message that opened them.
CallsAreOpen == pc = "tools" => \E i \in 1 .. Len(history) : history[i].role = "calls"

\* As long as no run that had compacted its history was cut short, the history
\* is well formed whenever no calls are running, and so is the part of it that
\* an abort of this run would leave.
Undamaged ==
  ~ tainted =>
    /\ pc # "tools" => Valid(history)
    /\ pc # "idle" /\ compacted = 0 =>
         marker <= Len(history) /\ Valid(SubSeq(history, 1, marker))

HistoryInv == history \in Seq(Messages) /\ Counts /\ CallsAreOpen /\ Undamaged

\* The calls that a message opened can be counted.
LEMMA OpenedCounts ==
  ASSUME history \in Seq(Messages), CallsAreOpen, pc = "tools"
  PROVE  /\ Open \in 1 .. Len(history) /\ history[Open].role = "calls"
         /\ Opened \in Nat /\ Opened <= Width
         /\ Answered \in Nat
<1> DEFINE opening == {i \in DOMAIN history : history[i].role = "calls"}
<1>1. Len(history) \in Nat /\ DOMAIN history = 1 .. Len(history)
  BY LenProperties
<1>2. opening \in SUBSET (0 .. Len(history)) /\ opening # {}
  BY <1>1 DEF CallsAreOpen
<1>3. Open = Largest(opening)
  BY DEF Open
<1>4. Open \in opening
  <2> HIDE DEF opening
  <2>. QED
    BY <1>1, <1>2, <1>3, LargestIsGreatest
<1>5. Open \in 1 .. Len(history) /\ history[Open].role = "calls"
  BY <1>1, <1>4
<1>6. history[Open] \in Sendable
  BY <1>5, ElementOfSeq DEF Sendable
<1>7. Opened \in Nat /\ Opened <= Width
  BY <1>6, CallsOfMessage DEF Opened
<1>8. Answered \in Nat
  BY <1>1, <1>5 DEF Answered
<1>. QED
  BY <1>5, <1>7, <1>8

\* How a step may change the history.
Returns == /\ pc' = "idle" /\ Grows(TRUE) /\ (pc = "tools" => Valid(history))
           /\ tainted' = tainted
CutsShort == /\ pc # "idle" /\ pc' = "idle"
             /\ history' = Truncated \/ history' = Truncated \o <<User, Text>>
             /\ tainted' = (tainted \/ compacted > 0)
GoesOn == /\ pc # "idle" /\ pc' # "idle" /\ pc' # "tools"
          /\ Grows(TRUE) /\ (pc = "tools" => Valid(history))
          /\ UNCHANGED <<marker, compacted, tainted>>
RunsCalls == /\ pc # "idle" /\ pc' = "tools"
             /\ Grows(FALSE) /\ (\E i \in 1 .. Len(history') : history'[i].role = "calls")
             /\ UNCHANGED <<marker, compacted, tainted>>
Begins == /\ pc = "idle" /\ pc' = "compact" /\ marker' = Len(history)
          /\ Grows(TRUE) /\ UNCHANGED <<compacted, tainted>>
Shortens == /\ pc = "compact" /\ pc' # "tools" /\ compacted' = compacted + 1
            /\ \E m \in Compactions(Built) : Valid(m) /\ history' = Tail(m)
            /\ UNCHANGED <<marker, tainted>>
Stays == UNCHANGED <<history, pc, marker, compacted, tainted>>

\* A run that raises or is aborted cuts the history back.
LEMMA RaiseCuts ==
  ASSUME Cut, pc # "idle",
         history' = Truncated \/ history' = Truncated \o <<User, Text>>
  PROVE  CutsShort
BY DEF Cut, Leave, CutsShort

\* A run that returns leaves it as it grew.
LEMMA ReturnReturns ==
  ASSUME Return, Grows(TRUE), pc = "tools" => Valid(history)
  PROVE  Returns
BY DEF Return, Leave, Returns

\* Every step changes the history in one of these ways.
LEMMA HistoryMoves ==
  ASSUME HistoryInv, BudgetInv, [Next]_vars
  PROVE  Returns \/ CutsShort \/ GoesOn \/ RunsCalls \/ Begins \/ Shortens \/ Stays
<1>1. history \in Seq(Messages) /\ CallsAreOpen
  BY DEF HistoryInv
<1>2. UNCHANGED history => Grows(TRUE)
  BY <1>1, GrowsByNothing
<1>3. /\ history' = Append(history, User) => Grows(TRUE)
      /\ history' = Append(history, Text) => Grows(TRUE)
  BY <1>1, GrowsByOne, PlainMessages
<1>4. /\ history' = history \o <<Text, User>> => Grows(TRUE)
      /\ history' = history \o <<User, User>> => Grows(TRUE)
  BY GrowsByTwo
<1>5. CASE Start
  <2>1. Grows(TRUE)
    BY <1>3, <1>5 DEF Start
  <2>. QED
    BY <1>5, <2>1 DEF Start, Begins
<1>6. CASE Abort
  BY <1>6, RaiseCuts DEF Abort
<1>7. CASE Fail
  BY <1>7, RaiseCuts DEF Fail, Raise
<1>8. CASE Compact
  <2>1. CASE Raise
    BY <1>8, <2>1, RaiseCuts DEF Compact, Raise
  <2>2. CASE ~ Raise
    <3>1. /\ pc = "compact" /\ pc' = resume
          /\ \/ UNCHANGED <<history, compacted>>
             \/ /\ compacted' = compacted + 1
                /\ \E m \in Compactions(Built) : Valid(m) /\ history' = Tail(m)
          /\ UNCHANGED <<marker, tainted>>
      BY <1>8, <2>2 DEF Compact
    <3>2. pc' # "idle" /\ pc' # "tools"
      BY <3>1 DEF BudgetInv, WithinLimits
    <3>3. CASE UNCHANGED <<history, compacted>>
      BY <1>2, <3>1, <3>2, <3>3 DEF GoesOn
    <3>4. CASE /\ compacted' = compacted + 1
               /\ \E m \in Compactions(Built) : Valid(m) /\ history' = Tail(m)
      BY <3>1, <3>2, <3>4 DEF Shortens
    <3>. QED
      BY <3>1, <3>3, <3>4
  <2>. QED
    BY <2>1, <2>2
<1>9. CASE Request
  <2>1. Grows(TRUE)
    BY <1>2, <1>3, <1>9 DEF Request
  <2>. QED
    BY <1>9, <2>1 DEF Request, GoesOn
<1>10. CASE Overflow
  BY <1>2, <1>10 DEF Overflow, GoesOn, rest
<1>11. CASE ReplyCalls
  <2>1. PICK n \in 1 .. Width : history' = Append(history, Calls(n))
    BY <1>11 DEF ReplyCalls
  <2>2. Calls(n) \in Messages
    <3>1. 1 .. n \in SUBSET (1 .. Width) /\ 1 \in 1 .. n
      BY LoopAssumption
    <3>. QED
      BY <3>1 DEF Calls, Messages
  <2>3. Grows(FALSE)
    BY <1>1, <2>1, <2>2, GrowsByOne
  <2>4. /\ Len(history') = Len(history) + 1 /\ history'[Len(history) + 1] = Calls(n)
        /\ Len(history) \in Nat
    BY <1>1, <2>1, <2>2, AppendProperties, LenProperties
  <2>5. \E i \in 1 .. Len(history') : history'[i].role = "calls"
    <3>1. Len(history) + 1 \in 1 .. Len(history')
      BY <2>4
    <3>2. history'[Len(history) + 1].role = "calls"
      BY <2>4 DEF Calls
    <3>. QED
      BY <3>1, <3>2
  <2>. QED
    BY <1>11, <2>3, <2>5 DEF ReplyCalls, RunsCalls, rest
<1>12. CASE Execute
  <2>1. pc = "tools" /\ pc' = "tools" /\ UNCHANGED <<marker, compacted, tainted>>
    BY <1>12 DEF Execute, rest
  <2>2. /\ Open \in 1 .. Len(history) /\ history[Open].role = "calls"
        /\ Opened \in Nat /\ Opened <= Width /\ Answered \in Nat
    BY <1>1, <2>1, OpenedCounts
  <2>3. ASSUME NEW i \in 1 .. Width PROVE Result(i) \in Messages
    BY DEF Result, Messages
  <2>4. Grows(FALSE)
    <3>1. CASE history' = history \o Results(Opened)
      <4>1. Results(Opened) \in Seq(Messages)
        <5> DEFINE r == Results(Opened)
        <5>1. r = [i \in 1 .. Opened |-> Result(i)]
          BY DEF Results
        <5>2. \A i \in 1 .. Opened : i \in 1 .. Width
          BY <2>2, LoopAssumption
        <5>3. \A i \in 1 .. Opened : Result(i) \in Messages
          BY <2>3, <5>2
        <5> HIDE DEF r
        <5>4. r \in [1 .. Opened -> Messages]
          BY <5>1, <5>3
        <5>5. r \in Seq(Messages)
          BY <2>2, <5>4, SeqDef
        <5>. QED
          BY <5>5 DEF r
      <4>. QED
        BY <3>1, <4>1 DEF Grows
    <3>2. CASE history' = Append(history, Result(Answered + 1))
      <4>1. Answered + 1 \in 1 .. Width
        BY <1>12, <2>2, LoopAssumption DEF Execute
      <4>2. Result(Answered + 1) \in Messages
        BY <2>3, <4>1
      <4>. QED
        BY <1>1, <3>2, <4>2, GrowsByOne
    <3>. QED
      BY <1>12, <3>1, <3>2 DEF Execute
  <2>5. \E i \in 1 .. Len(history') : history'[i].role = "calls"
    <3>1. /\ Len(history') >= Len(history) /\ history' \in Seq(Messages)
          /\ \A i \in 1 .. Len(history) : history'[i] = history[i]
      BY <1>1, <2>4, GrowthKeeps
    <3>2. Len(history) \in Nat /\ Len(history') \in Nat
      BY <1>1, <3>1, LenProperties
    <3>3. Open \in 1 .. Len(history') /\ history'[Open].role = "calls"
      BY <2>2, <3>1, <3>2
    <3>. QED
      BY <3>3
  <2>. QED
    BY <2>1, <2>4, <2>5 DEF RunsCalls
<1>13. CASE Dispatched
  <2>1. CASE ~ Valid(history) /\ Raise
    BY <1>13, <2>1, RaiseCuts DEF Dispatched, Raise
  <2>2. CASE Valid(history) /\ history' = Append(history, Text) /\ Return
    BY <1>3, <2>2, ReturnReturns
  <2>3. CASE /\ Valid(history) /\ pc' = "compact" /\ resume' = "round"
             /\ UNCHANGED <<history, marker, counters, config, used, extended, overflowed, rest>>
    <3>1. Grows(TRUE)
      BY <1>2, <2>3
    <3>2. pc # "idle"
      BY <1>13 DEF Dispatched
    <3>. QED
      BY <2>3, <3>1, <3>2 DEF GoesOn, rest
  <2>. QED
    BY <1>13, <2>1, <2>2, <2>3 DEF Dispatched
<1>14. CASE Round
  <2>1. Grows(TRUE)
    BY <1>2, <1>3, <1>14 DEF Round, Judged
  <2>. QED
    BY <1>14, <2>1 DEF Round, GoesOn, rest
<1>15. CASE ReplyCutoff
  <2>1. Grows(TRUE)
    BY <1>4, <1>15 DEF ReplyCutoff
  <2>. QED
    BY <1>15, <2>1 DEF ReplyCutoff, GoesOn, rest
<1>16. CASE ReplyText
  <2>1. pc = "waiting" /\ Grows(TRUE)
    BY <1>3, <1>4, <1>16 DEF ReplyText
  <2>2. CASE Return
    BY <2>1, <2>2, ReturnReturns
  <2>3. CASE ~ Return
    <3>1. pc' \in {"request", "question"} /\ UNCHANGED <<marker, rest>>
      BY <1>16, <2>3 DEF ReplyText
    <3>. QED
      BY <2>1, <3>1 DEF GoesOn, rest
  <2>. QED
    BY <2>2, <2>3
<1>17. CASE Continue
  <2>1. pc = "question" /\ Grows(TRUE)
    BY <1>2, <1>3, <1>4, <1>17 DEF Continue
  <2>2. CASE Return
    BY <2>1, <2>2, ReturnReturns
  <2>3. CASE ~ Return
    <3>1. pc' = "request" /\ UNCHANGED <<marker, rest>>
      BY <1>17, <2>3 DEF Continue
    <3>. QED
      BY <2>1, <3>1 DEF GoesOn, rest
  <2>. QED
    BY <2>2, <2>3
<1>18. CASE UNCHANGED vars
  BY <1>18 DEF vars, rest, Stays
<1>. QED
  BY <1>5, <1>6, <1>7, <1>8, <1>9, <1>10, <1>11, <1>12, <1>13, <1>14, <1>15, <1>16, <1>17, <1>18
     DEF Next

\* However the history changes, it stays what it is.
LEMMA HistoryStays ==
  ASSUME HistoryInv,
         Returns \/ CutsShort \/ GoesOn \/ RunsCalls \/ Begins \/ Shortens \/ Stays
  PROVE  history' \in Seq(Messages) /\ CallsAreOpen' /\ Undamaged'
<1>1. /\ history \in Seq(Messages) /\ CallsAreOpen /\ Undamaged
      /\ marker \in Nat /\ compacted \in Nat /\ tainted \in BOOLEAN
  BY DEF HistoryInv, Counts
<1>2. Len(history) \in Nat
  BY <1>1, LenProperties
<1>3. CASE Returns
  <2>1. history' \in Seq(Messages) /\ (Valid(history) => Valid(history'))
    BY <1>1, <1>3, GrowthKeeps DEF Returns
  <2>2. pc' = "idle" /\ tainted' = tainted /\ (~ tainted => Valid(history))
    BY <1>1, <1>3 DEF Returns, Undamaged
  <2>. QED
    BY <2>1, <2>2 DEF CallsAreOpen, Undamaged
<1>4. CASE CutsShort
  <2> DEFINE kept == Truncated
             more == <<User, Text>>
  <2>1. kept \in Seq(Messages) /\ (marker <= Len(history) => kept = SubSeq(history, 1, marker))
    BY <1>1, CutBack
  <2>2. more \in Seq(Messages) /\ Len(more) = 2 /\ more[1] = User /\ more[2] = Text
    BY PlainMessages
  <2>3. history' = kept \/ history' = kept \o more
    BY <1>4 DEF CutsShort
  <2> HIDE DEF kept, more
  <2>4. kept \in Seq(Sendable) /\ more \in Seq(Sendable)
    <3>1. Messages \subseteq Sendable
      BY DEF Sendable
    <3>. QED
      BY <2>1, <2>2, <3>1, SeqMonotonic
  <2>5. /\ kept \o more \in Seq(Messages) /\ kept \o more \in Seq(Sendable)
        /\ Len(kept \o more) = Len(kept) + 2 /\ Len(kept) \in Nat
        /\ \A i \in 1 .. Len(kept) + 2 :
             (kept \o more)[i] = IF i <= Len(kept) THEN kept[i] ELSE more[i - Len(kept)]
    <3>1. kept \o more \in Seq(Sendable)
      BY <2>4, ConcatProperties
    <3>2. /\ kept \o more \in Seq(Messages)
          /\ Len(kept \o more) = Len(kept) + Len(more)
          /\ \A i \in 1 .. Len(kept) + Len(more) :
               (kept \o more)[i] = IF i <= Len(kept) THEN kept[i] ELSE more[i - Len(kept)]
      BY <2>1, <2>2, ConcatProperties
    <3>3. Len(more) = 2 /\ Len(kept) \in Nat
      BY <2>1, <2>2, LenProperties
    <3>. QED
      BY <3>1, <3>2, <3>3, Zenon
  <2>6. ASSUME Valid(kept) PROVE Valid(kept \o more)
    <3> DEFINE whole == kept \o more
    <3>1. whole \in Seq(Sendable) /\ Len(whole) = Len(kept) + 2
      BY <2>5
    <3>2. ASSUME NEW i \in 1 .. Len(kept) PROVE whole[i] = kept[i]
      <4>1. i \in 1 .. Len(kept) + 2 /\ i <= Len(kept)
        BY <2>5
      <4>. QED
        BY <2>5, <4>1
    <3>3. ASSUME NEW i \in Len(kept) + 1 .. Len(whole) PROVE whole[i].role \notin Paired
      <4>1. /\ i \in 1 .. Len(kept) + 2 /\ ~ (i <= Len(kept))
            /\ (i - Len(kept) = 1 \/ i - Len(kept) = 2)
        BY <2>5, <3>1
      <4>2. whole[i] = more[i - Len(kept)]
        BY <2>5, <4>1
      <4>. QED
        BY <2>2, <4>1, <4>2, PlainMessages
    <3> HIDE DEF whole
    <3>4. Len(kept) <= Len(whole)
      BY <2>5, <3>1
    <3>5. Valid(whole)
      BY <2>4, <2>6, <3>1, <3>2, <3>3, <3>4, ValidBeforePlain
    <3>. QED
      BY <3>5 DEF whole
  <2>7. history' \in Seq(Messages) /\ (Valid(kept) => Valid(history'))
    BY <2>1, <2>3, <2>5, <2>6
  <2>8. ~ tainted' => Valid(kept)
    <3> SUFFICES ASSUME ~ tainted' PROVE Valid(kept)
      OBVIOUS
    <3>1. ~ tainted /\ ~ (compacted > 0) /\ pc # "idle"
      BY <1>4 DEF CutsShort
    <3>2. compacted = 0
      BY <1>1, <3>1
    <3>3. marker <= Len(history) /\ Valid(SubSeq(history, 1, marker))
      BY <1>1, <3>1, <3>2 DEF Undamaged
    <3>. QED
      BY <2>1, <3>3
  <2>9. pc' = "idle"
    BY <1>4 DEF CutsShort
  <2>. QED
    BY <2>7, <2>8, <2>9 DEF CallsAreOpen, Undamaged
<1>5. CASE GoesOn \/ RunsCalls
  <2>1. pc # "idle" /\ pc' # "idle" /\ UNCHANGED <<marker, compacted, tainted>>
    BY <1>5 DEF GoesOn, RunsCalls
  <2>2. /\ history' \in Seq(Messages) /\ Len(history') >= Len(history)
        /\ \A k \in 0 .. Len(history) : SubSeq(history', 1, k) = SubSeq(history, 1, k)
    BY <1>1, <1>5, GrowthKeeps DEF GoesOn, RunsCalls
  <2>3. Len(history') \in Nat
    BY <2>2, LenProperties
  <2>4. pc' # "tools" /\ ~ tainted' => Valid(history')
    <3> SUFFICES ASSUME pc' # "tools", ~ tainted' PROVE Valid(history')
      OBVIOUS
    <3>1. GoesOn /\ Valid(history)
      BY <1>1, <1>5, <2>1 DEF GoesOn, RunsCalls, Undamaged
    <3>. QED
      BY <1>1, <3>1, GrowthKeeps DEF GoesOn
  <2>5. ASSUME ~ tainted', compacted' = 0
        PROVE  marker' <= Len(history') /\ Valid(SubSeq(history', 1, marker'))
    <3>1. marker <= Len(history) /\ Valid(SubSeq(history, 1, marker))
      BY <1>1, <2>1, <2>5 DEF Undamaged
    <3>2. marker \in 0 .. Len(history) /\ marker <= Len(history')
      BY <1>1, <1>2, <2>2, <2>3, <3>1
    <3>. QED
      BY <2>1, <2>2, <3>1, <3>2
  <2>6. CallsAreOpen'
    BY <1>5 DEF GoesOn, RunsCalls, CallsAreOpen
  <2>. QED
    BY <2>2, <2>4, <2>5, <2>6 DEF Undamaged
<1>6. CASE Begins
  <2>1. /\ history' \in Seq(Messages) /\ Len(history') >= Len(history)
        /\ (Valid(history) => Valid(history'))
        /\ \A k \in 0 .. Len(history) : SubSeq(history', 1, k) = SubSeq(history, 1, k)
    BY <1>1, <1>6, GrowthKeeps DEF Begins
  <2>2. Len(history) \in 0 .. Len(history)
    BY <1>2
  <2>3. SubSeq(history', 1, Len(history)) = history
    BY <1>1, <2>1, <2>2, SubSeqFull
  <2>4. ~ tainted => Valid(history)
    BY <1>1, <1>6 DEF Undamaged, Begins
  <2>. QED
    BY <1>6, <2>1, <2>3, <2>4 DEF Begins, CallsAreOpen, Undamaged
<1>7. CASE Shortens
  <2>1. PICK m \in Compactions(Built) : Valid(m) /\ history' = Tail(m)
    BY <1>7 DEF Shortens
  <2>2. m \in Prompted
    BY <1>1, BuiltIsPrompted, CompactionKeeps
  <2>3. history' \in Seq(Messages) /\ Valid(history')
    BY <2>1, <2>2, WithoutPrompt
  <2>4. pc' # "tools" /\ compacted' # 0
    BY <1>1, <1>7 DEF Shortens
  <2>. QED
    BY <2>3, <2>4 DEF CallsAreOpen, Undamaged
<1>8. CASE Stays
  BY <1>1, <1>8 DEF Stays, CallsAreOpen, Undamaged
<1>. QED
  BY <1>3, <1>4, <1>5, <1>6, <1>7, <1>8

\* A grant keeps the budget a number.
LEMMA GrantCounts ==
  ASSUME BudgetInv, Counts, NEW t \in Nat, Judged(t)
  PROVE  budget' \in Nat
<1>1. extended \in Nat /\ extended <= ExtendMax /\ budget \in Nat
  BY DEF BudgetInv, WithinLimits, Counts
<1>2. CASE UNCHANGED budget
  BY <1>1, <1>2
<1>3. CASE \E n \in {Smallest({ExtendBy, ExtendMax - extended})} : budget' = budget + 2 * n
  <2> DEFINE n == Smallest({ExtendBy, ExtendMax - extended})
  <2>1. n \in {ExtendBy, ExtendMax - extended}
    BY <1>1, Limits, SmallestOfTwo
  <2>2. budget' = budget + 2 * n
    BY <1>3
  <2> HIDE DEF n
  <2>3. n \in Nat
    BY <1>1, <2>1, Limits
  <2>. QED
    BY <1>1, <2>2, <2>3
<1>. QED
  BY <1>2, <1>3 DEF Judged, Grant, config

\* The other counters stay what they are.
LEMMA CountsStay ==
  ASSUME HistoryInv, BudgetInv, [Next]_vars
  PROVE  Counts'
<1>1. /\ marker \in Nat /\ nudges \in Nat /\ budget \in Nat /\ used \in Nat
      /\ run \in Nat /\ compacted \in Nat
      /\ asks \in BOOLEAN /\ judged \in BOOLEAN /\ parallel \in BOOLEAN
      /\ overflowed \in BOOLEAN /\ tainted \in BOOLEAN
      /\ turn \in Nat /\ Len(history) \in Nat
  BY LenProperties DEF HistoryInv, Counts, BudgetInv, WithinLimits
<1>2. pc = "tools" => Opened \in Nat
  BY OpenedCounts DEF HistoryInv
<1>3. MaxTurns \in Nat /\ MaxTools \in Nat /\ Slice \in Nat
  BY Limits
<1> USE DEF modes, config, counters, rest
<1>4. CASE Leave /\ tainted' \in BOOLEAN
  BY <1>1, <1>3, <1>4 DEF Leave, Counts
<1>5. CASE Start
  BY <1>1, <1>5 DEF Start, Counts
<1>6. Abort \/ Fail \/ Raise \/ Return => Leave /\ tainted' \in BOOLEAN
  BY <1>1 DEF Abort, Fail, Raise, Cut, Return
<1>7. CASE Compact
  <2>1. \/ Raise
        \/ /\ UNCHANGED <<marker, nudges, budget, used, run, tainted, modes, overflowed>>
           /\ compacted' = compacted \/ compacted' = compacted + 1
    BY <1>7 DEF Compact
  <2>. QED
    BY <1>1, <1>4, <1>6, <2>1 DEF Counts
<1>8. CASE Request \/ Overflow \/ ReplyCalls \/ ReplyCutoff
  <2>1. /\ UNCHANGED <<marker, nudges, budget, used, run, compacted, tainted, modes>>
        /\ overflowed' \in {overflowed, TRUE}
    BY <1>8 DEF Request, Overflow, ReplyCalls, ReplyCutoff
  <2>. QED
    BY <1>1, <2>1 DEF Counts
<1>9. CASE Execute
  <2>1. /\ UNCHANGED <<marker, nudges, budget, run, compacted, tainted, modes, overflowed>>
        /\ used' \in Nat
    <3>1. CASE parallel
      <4>1. PICK n \in 0 .. Opened : used' = used + n
        BY <1>9, <3>1 DEF Execute
      <4>2. n \in Nat
        BY <1>2, <1>9 DEF Execute
      <4>. QED
        BY <1>1, <1>9, <4>1, <4>2 DEF Execute
    <3>2. CASE ~ parallel
      BY <1>1, <1>9, <3>2 DEF Execute
    <3>. QED
      BY <3>1, <3>2
  <2>. QED
    BY <1>1, <2>1 DEF Counts
<1>10. CASE Dispatched
  <2>1. \/ Raise \/ Return
        \/ UNCHANGED <<marker, nudges, budget, used, run, compacted, tainted, modes, overflowed>>
    BY <1>10 DEF Dispatched
  <2>. QED
    BY <1>1, <1>4, <1>6, <2>1 DEF Counts
<1>11. CASE Round
  <2>1. UNCHANGED <<marker, nudges, used, run, compacted, tainted, modes, overflowed>>
    BY <1>11 DEF Round
  <2>2. budget' \in Nat
    <3>1. turn + 1 \in Nat /\ Judged(turn + 1) /\ Counts
      BY <1>1, <1>11 DEF Round, HistoryInv
    <3>. QED
      BY <3>1, GrantCounts
  <2>. QED
    BY <1>1, <2>1, <2>2 DEF Counts
<1>12. CASE ReplyText
  <2>1. \/ Return
        \/ /\ UNCHANGED <<marker, budget, used, run, compacted, tainted, modes, overflowed>>
           /\ nudges' = nudges \/ nudges' = nudges + 1
    BY <1>12 DEF ReplyText
  <2>. QED
    BY <1>1, <1>4, <1>6, <2>1 DEF Counts
<1>13. CASE Continue
  <2>1. \/ Return
        \/ /\ UNCHANGED <<marker, used, run, compacted, tainted, modes, overflowed>>
           /\ budget' = budget + 2 * Slice
           /\ nudges' = nudges \/ nudges' = nudges + 1
    BY <1>13 DEF Continue, Grant
  <2>. QED
    BY <1>1, <1>3, <1>4, <1>6, <2>1 DEF Counts
<1>14. CASE UNCHANGED vars
  BY <1>1, <1>14 DEF vars, Counts
<1>. QED
  BY <1>4, <1>5, <1>6, <1>7, <1>8, <1>9, <1>10, <1>11, <1>12, <1>13, <1>14 DEF Next

\* So every step keeps the history.
LEMMA HistoryStep == HistoryInv /\ BudgetInv /\ [Next]_vars => HistoryInv'
<1> SUFFICES ASSUME HistoryInv, BudgetInv, [Next]_vars PROVE HistoryInv'
  OBVIOUS
<1>1. history' \in Seq(Messages) /\ CallsAreOpen' /\ Undamaged'
  BY HistoryMoves, HistoryStays
<1>2. Counts'
  BY CountsStay
<1>. QED
  BY <1>1, <1>2 DEF HistoryInv

\* A loop starts with nothing, or with the chat of a restored session.
LEMMA HistoryInit == Init => HistoryInv
<1> SUFFICES ASSUME Init PROVE HistoryInv
  OBVIOUS
<1>1. PICK n \in 0 .. Restored : history = Hydrated(n)
  BY DEF Init
<1>2. n \in Nat /\ Restored \in Nat /\ 2 * n \in Nat
  BY LoopAssumption
<1>3. \A i \in 1 .. 2 * n : history[i] \in {User, Text}
  BY <1>1 DEF Hydrated
<1>4. history \in [1 .. 2 * n -> Messages]
  BY <1>1, <1>3, PlainMessages DEF Hydrated
<1>5. history \in Seq(Messages)
  BY <1>2, <1>4, SeqDef
<1>6. Valid(history)
  <2>1. DOMAIN history = 1 .. 2 * n
    BY <1>4
  <2>2. \A i \in 1 .. 2 * n : ~ Has(history, i, "calls") /\ ~ Has(history, i, "tool")
    BY <1>3, PlainMessages DEF Has, Paired
  <2>. QED
    BY <2>1, <2>2 DEF Valid
<1>7. Counts
  <2>1. MaxTools \in Nat
    BY Limits
  <2>. QED
    BY <2>1 DEF Init, Counts
<1>. QED
  BY <1>5, <1>6, <1>7 DEF Init, HistoryInv, CallsAreOpen, Undamaged

\* For every limit, every number of parallel calls and every outcome of the
\* compaction: the history that is sent pairs each call with its results, and
\* the calls of a turn are not refused for it, as long as no run that had
\* compacted its history was aborted or failed; and compaction, whatever it
\* summarizes and drops, keeps the system prompt, the pairing and all of what
\* followed the last message of the user.
THEOREM HistoryIsKept == Spec => []HistoryKept
<1>1. HistoryInv => HistoryKept
  <2> SUFFICES ASSUME HistoryInv PROVE HistoryKept
    OBVIOUS
  <2>1. PairsUnlessCut
    BY DEF HistoryInv, Undamaged, PairsUnlessCut
  <2>2. CompactionKeepsExchange
    BY ExchangeKept DEF HistoryInv
  <2>. QED
    BY <2>1, <2>2 DEF HistoryKept
<1>. QED
  BY <1>1, BudgetStart, BudgetStep, HistoryInit, HistoryStep, PTL DEF Spec

\* The loop, its counters and every message of its history stay of their types.
THEOREM LoopTypes == Spec => []TypeOK
<1>1. HistoryInv /\ BudgetInv => TypeOK
  <2> SUFFICES ASSUME HistoryInv, BudgetInv PROVE TypeOK
    OBVIOUS
  <2>1. ASSUME NEW i \in DOMAIN history
        PROVE  /\ history[i].role \in {"user", "text", "calls", "tool", "summary"}
               /\ history[i].ids \subseteq 1 .. Width
    <3>1. history[i] \in Messages
      BY <2>1, LenProperties, ElementOfSeq DEF HistoryInv
    <3>. QED
      BY <3>1 DEF Messages
  <2>2. /\ pc \in {"idle", "compact", "request", "waiting", "tools", "round", "question"}
        /\ resume \in {"request", "round", "nudge"}
    BY DEF BudgetInv, WithinLimits, Stages
  <2>3. /\ marker \in Nat /\ nudges \in Nat /\ budget \in Nat /\ used \in Nat
        /\ run \in Nat /\ compacted \in Nat
        /\ asks \in BOOLEAN /\ judged \in BOOLEAN /\ parallel \in BOOLEAN
        /\ overflowed \in BOOLEAN /\ tainted \in BOOLEAN
    BY DEF HistoryInv, Counts
  <2>4. /\ turn \in Nat /\ continues \in Nat /\ cutoffs \in Nat /\ extended \in Nat
        /\ sent \in Nat /\ ceiling \in Nat
    BY Limits, OneSliceMore DEF BudgetInv, WithinLimits, CeilingIsGranted
  <2>. QED
    BY <2>1, <2>2, <2>3, <2>4, Zenon DEF TypeOK
<1>. QED
  BY <1>1, BudgetStart, BudgetStep, HistoryInit, HistoryStep, PTL DEF Spec

-----------------------------------------------------------------------------
(* The decisions of the judge.                                             *)


\* w sees at least the dangers that v sees, and no more that speaks for the
\* command.
MoreSuspicious(w, v) ==
  /\ \A s \in ExecHazards : w.nouls[s] >= v.nouls[s]
  /\ \A s \in ExecAssurances : w.nouls[s] <= v.nouls[s]
  /\ w.blast_radius >= v.blast_radius

\* classify_exec: a verdict that is worse in any of its answers never gets a
\* command through that the better one stopped, nor asks where that one refused.
THEOREM SuspicionNeverLoosens ==
  ASSUME NEW v \in ExecVerdicts, NEW w \in ExecVerdicts, MoreSuspicious(w, v)
  PROVE  Strictness(JudgedExec(w)) >= Strictness(JudgedExec(v))
<1>1. /\ \A s \in ExecHazards \cup ExecAssurances :
           v.nouls[s] \in Int /\ w.nouls[s] \in Int
      /\ v.blast_radius \in Int /\ w.blast_radius \in Int
  BY DEF ExecVerdicts, Percent, Level
<1>2. Blocked(v) => Blocked(w)
  BY <1>1 DEF Blocked, MoreSuspicious, ExecHazards, ExecAssurances
<1>3. Allowed(w) => Allowed(v)
  BY <1>1 DEF Allowed, MoreSuspicious, ExecHazards, ExecAssurances
<1> QED
  BY <1>2, <1>3 DEF JudgedExec, Strictness

\* The comment on EXEC_TOUCHES_NETWORK_ALLOW: a command that talks to the
\* network runs unasked only when the user asked for it and it only reads; and
\* neither a verdict nor the mode lifts the denylist (_hard_deny).
THEOREM NetworkIsAskedFor ==
  ASSUME NEW v \in ExecVerdicts, NEW listed \in BOOLEAN, NEW acts \in BOOLEAN,
         v.nouls["touches_network"] > 50
  PROVE  /\ JudgedExec(v) = "allow" =>
              v.nouls["matches_user_request"] > 70 /\ v.nouls["is_read_only"] > 50
         /\ ExecDecision(TRUE, acts, v, listed) = "block"
<1>1. /\ v.nouls["touches_network"] \in Int /\ v.nouls["is_read_only"] \in Int
      /\ v.nouls["matches_user_request"] \in Int
  BY DEF ExecVerdicts, ExecHazards, ExecAssurances, Percent
<1> QED
  BY <1>1 DEF JudgedExec, Allowed, ExecDecision

-----------------------------------------------------------------------------
\* classify_screen_multi: a result is flagged, and redacted, when one of its
\* slices would be if it stood alone; the other slices cannot excuse it.
THEOREM OneSliceIsEnough ==
  ASSUME NEW vs \in [Slices -> ScreenVerdicts], NEW slice \in Slices
  PROVE  /\ Flagged(vs[slice]) => Flagged(Across(vs))
         /\ Redacted(vs[slice]) => Redacted(Across(vs))
<1> DEFINE whole == Across(vs)
<1>1. \A x \in Slices, s \in ScreenSignals : vs[x][s] \in Int
  BY DEF ScreenVerdicts, Percent
<1>2. \A s \in ScreenSignals : vs["head"][s] \in Int /\ vs["mid"][s] \in Int /\ vs["tail"][s] \in Int
  BY <1>1 DEF Slices
<1>3. /\ whole["attempts_override"] \in Int
      /\ whole["requests_secret_disclosure"] \in Int
      /\ whole["is_ordinary_source_code"] \in Int
  BY <1>2 DEF Across, ScreenSignals, Smaller, Larger
<1>4. \A x \in Slices : /\ whole["attempts_override"] >= vs[x]["attempts_override"]
                        /\ whole["requests_secret_disclosure"] >= vs[x]["requests_secret_disclosure"]
  BY <1>2 DEF Across, ScreenSignals, Slices, Larger
<1>5. \A x \in Slices : whole["is_ordinary_source_code"] <= vs[x]["is_ordinary_source_code"]
  BY <1>2 DEF Across, ScreenSignals, Slices, Smaller
<1> HIDE DEF whole
<1>6. /\ vs[slice]["attempts_override"] \in Int
      /\ vs[slice]["requests_secret_disclosure"] \in Int
      /\ vs[slice]["is_ordinary_source_code"] \in Int
  BY <1>1 DEF ScreenSignals
<1>7. Flagged(vs[slice]) => Flagged(whole)
  BY <1>3, <1>4, <1>5, <1>6 DEF Flagged, Larger
<1>8. Redacted(vs[slice]) => Redacted(whole)
  BY <1>3, <1>4, <1>6, <1>7 DEF Redacted
<1> QED
  BY <1>7, <1>8 DEF whole

\* screen_content_windows: what the judge is shown is part of the result, and
\* its first and its last character are always among it.
THEOREM EndsAreShown ==
  ASSUME NEW n \in Nat \ {0}
  PROVE  Shown(n) \subseteq 1 .. n /\ 1 \in Shown(n) /\ n \in Shown(n)
<1>1. CASE n <= 4000
  BY <1>1 DEF Shown
<1>2. CASE n > 4000 /\ n <= 12000
  BY <1>2 DEF Shown
<1>3. CASE n > 12000
  <2> DEFINE mid == (n - 1333) \div 2
  <2>1. mid \in Nat /\ mid + 1333 <= n
    BY <1>3
  <2> HIDE DEF mid
  <2>2. Shown(n) = 1 .. 1333 \cup (mid + 1) .. (mid + 1333) \cup (n - 1332) .. n
    BY <1>3 DEF Shown, mid
  <2> QED
    BY <1>3, <2>1, <2>2
<1> QED
  BY <1>1, <1>2, <1>3

-----------------------------------------------------------------------------
\* _maybe_judge_loop_progress: however often it is asked, the judge grants a run
\* no more than LOOP_EXTEND_MAX_TOTAL rounds, and none to a tester.
THEOREM ExtensionsBounded ==
  ASSUME NEW acts \in BOOLEAN, NEW v \in LoopVerdicts, NEW t \in Nat, NEW limit \in Nat,
         NEW before \in 0 .. LoopExtendMaxTotal, NEW profile
  PROVE  /\ before + Granted(acts, v, t, limit, before, profile)
              \in before .. LoopExtendMaxTotal
         /\ profile = "tester" => Granted(acts, v, t, limit, before, profile) = 0
  BY DEF Granted, LoopExtendMaxTotal, LoopExtendIncrement, Smaller

\* classify_merge: a report that contradicts another one reaches the parent
\* whole, and a report that is worth more reaches it with no less.
THEOREM WorthIsAdmitted ==
  ASSUME NEW v \in MergeVerdicts, NEW w \in MergeVerdicts
  PROVE  /\ v.contradicts_siblings > 50 => Admitted(v) = "full"
         /\ w.worth_parent_context >= v.worth_parent_context
              /\ w.contradicts_siblings >= v.contradicts_siblings
            => Amount(Admitted(w)) >= Amount(Admitted(v))
<1>1. /\ v.contradicts_siblings \in Int /\ w.contradicts_siblings \in Int
      /\ v.worth_parent_context \in Int /\ w.worth_parent_context \in Int
  BY DEF MergeVerdicts, Percent, Level
<1> QED
  BY <1>1 DEF Admitted, Amount

\* _screen_diagnostics "never silently drops a count": what is shown and what is
\* said to be suppressed add up, and a diagnostic the edit caused is shown.
THEOREM EveryDiagnosticCounts ==
  ASSUME NEW acts \in BOOLEAN, NEW ds, IsFiniteSet(ds), NEW vs \in [ds -> DiagnosticVerdicts]
  PROVE  /\ Cardinality(DiagnosticsShown(acts, ds, vs)) + Suppressed(acts, ds, vs)
              = Cardinality(ds)
         /\ \A d \in ds : vs[d].caused_by_this_edit >= 50 => d \in DiagnosticsShown(acts, ds, vs)
<1> DEFINE shown  == DiagnosticsShown(acts, ds, vs)
           hidden == {d \in ds : acts /\ ~Surfaces(vs[d])}
<1>1. hidden = ds \ shown /\ shown \subseteq ds
  BY DEF DiagnosticsShown
<1>2. \A d \in ds : vs[d].caused_by_this_edit >= 50 => d \in shown
  BY DEF DiagnosticsShown, Surfaces
<1> HIDE DEF shown, hidden
<1>3. Cardinality(hidden) = Cardinality(ds) - Cardinality(ds \cap shown)
  BY <1>1, FS_Difference
<1>4. ds \cap shown = shown /\ Cardinality(ds) \in Nat /\ Cardinality(shown) \in Nat
  BY <1>1, FS_Subset, FS_CardinalityType
<1>5. Suppressed(acts, ds, vs) = Cardinality(hidden)
  BY DEF Suppressed, hidden
<1>6. Cardinality(hidden) = Cardinality(ds) - Cardinality(shown)
  BY <1>3, <1>4, Zenon
<1>7. Cardinality(shown) + Cardinality(hidden) = Cardinality(ds)
  BY <1>4, <1>6
<1> QED
  BY <1>2, <1>5, <1>7 DEF shown

-----------------------------------------------------------------------------
LEMMA BeforeIsLinear ==
  ASSUME NEW n \in Nat, NEW score \in [1 .. n -> Percent],
         NEW i \in 1 .. n, NEW j \in 1 .. n, NEW k \in 1 .. n
  PROVE  /\ ~Before(score, i, i)
         /\ i # j => Before(score, i, j) \/ Before(score, j, i)
         /\ Before(score, k, i) /\ Before(score, i, j) => Before(score, k, j)
<1>1. /\ score[i] \in Percent /\ score[j] \in Percent /\ score[k] \in Percent
      /\ i \in Int /\ j \in Int /\ k \in Int
  OBVIOUS
<1>2. score[i] \in Int /\ score[j] \in Int /\ score[k] \in Int
  <2>1. Percent \subseteq Int
    BY DEF Percent
  <2> QED
    BY <1>1, <2>1
<1>3. ~Before(score, i, i)
  BY <1>1, <1>2 DEF Before
<1>4. i # j => Before(score, i, j) \/ Before(score, j, i)
  BY <1>1, <1>2 DEF Before
<1>5. Before(score, k, i) /\ Before(score, i, j) => Before(score, k, j)
  BY <1>1, <1>2 DEF Before
<1> QED
  BY <1>3, <1>4, <1>5

LEMMA RankGrows ==
  ASSUME NEW n \in Nat, NEW score \in [1 .. n -> Percent],
         NEW i \in 1 .. n, NEW j \in 1 .. n, Before(score, i, j)
  PROVE  Rank(score, n, i) < Rank(score, n, j)
<1> DEFINE above(x) == {k \in 1 .. n : Before(score, k, x)}
<1>1. above(i) \subseteq above(j)
  BY BeforeIsLinear
<1>2. i \in above(j) /\ i \notin above(i)
  BY BeforeIsLinear
<1>3. IsFiniteSet(above(j))
  <2>1. IsFiniteSet(1 .. n) /\ above(j) \in SUBSET (1 .. n)
    BY FS_Interval
  <2> QED
    BY <2>1, FS_Subset
<1>4. Cardinality(above(i)) <= Cardinality(above(j)) /\ Cardinality(above(i)) # Cardinality(above(j))
  BY <1>1, <1>2, <1>3, FS_Subset
<1>5. Cardinality(above(i)) \in Nat /\ Cardinality(above(j)) \in Nat
  BY <1>1, <1>3, FS_Subset, FS_CardinalityType
<1> QED
  BY <1>4, <1>5 DEF Rank

\* rerank_order gives every line that was found a place of its own: none is lost
\* and none shown twice, whatever probabilities the judge gives.
THEOREM RankingLosesNothing ==
  ASSUME NEW n \in Nat, NEW score \in [1 .. n -> Percent]
  PROVE  /\ \A i \in 1 .. n : Rank(score, n, i) \in 1 .. n
         /\ \A i, j \in 1 .. n : Rank(score, n, i) = Rank(score, n, j) => i = j
<1>1. ASSUME NEW i \in 1 .. n PROVE Rank(score, n, i) \in 1 .. n
  <2> DEFINE above == {k \in 1 .. n : Before(score, k, i)}
  <2>1. above \subseteq (1 .. n) \ {i}
    BY BeforeIsLinear
  <2>2. IsFiniteSet(1 .. n) /\ Cardinality(1 .. n) = n
    BY FS_Interval
  <2>3. IsFiniteSet((1 .. n) \ {i}) /\ Cardinality((1 .. n) \ {i}) = n - 1
    BY <2>2, FS_RemoveElement
  <2>4. Cardinality(above) \in Nat /\ Cardinality(above) <= n - 1
    BY <2>1, <2>3, FS_Subset, FS_CardinalityType
  <2> QED
    BY <2>4 DEF Rank
<1>2. ASSUME NEW i \in 1 .. n, NEW j \in 1 .. n, i # j
      PROVE  Rank(score, n, i) # Rank(score, n, j)
  <2>1. Rank(score, n, i) \in Int /\ Rank(score, n, j) \in Int
    BY <1>1
  <2>2. CASE Before(score, i, j)
    BY <2>1, <2>2, RankGrows
  <2>3. CASE Before(score, j, i)
    BY <2>1, <2>3, RankGrows
  <2> QED
    BY <1>2, <2>2, <2>3, BeforeIsLinear
<1> QED
  BY <1>1, <1>2
=============================================================================
