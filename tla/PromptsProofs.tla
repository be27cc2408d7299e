--------------------------- MODULE PromptsProofs ---------------------------
(***************************************************************************)
(* Proofs about the questions to the user, for every set of tasks that ask *)
(* and every number of questions and messages; and about the manager of    *)
(* MCP servers, which asks through the same broker, for every set of calls *)
(* and commands and any limits.                                            *)
(***************************************************************************)
EXTENDS Prompts, Mcp, SequenceTheorems, TLAPS

-----------------------------------------------------------------------------
\* A task waits for a question of its own while it is in _ask_one, and for none
\* otherwise.  BrokerExact speaks of the question on the screen only; this is
\* what the other tasks know, and what is left once cancel_all took it away.
AsksOwn ==
  \A a \in Askers :
    IF asker[a] = "asking"
    THEN promptOf[a] \in DOMAIN prompts /\ prompts[promptOf[a]].asker = a
    ELSE promptOf[a] = 0

IInv == TypeOK /\ BrokerExact /\ AsksOwn

-----------------------------------------------------------------------------
\* What is left of a sequence when one place is taken out.
LEMMA RemoveAtProperties ==
  ASSUME NEW S, NEW s \in Seq(S), NEW i \in 1 .. Len(s)
  PROVE  /\ RemoveAt(s, i) \in Seq(S)
         /\ Len(RemoveAt(s, i)) = Len(s) - 1
         /\ \A j \in 1 .. Len(s) - 1 :
              RemoveAt(s, i)[j] = IF j < i THEN s[j] ELSE s[j + 1]
<1> DEFINE before == SubSeq(s, 1, i - 1)
           after  == SubSeq(s, i + 1, Len(s))
<1>1. /\ Len(s) \in Nat
      /\ \A j \in 1 .. Len(s) : s[j] \in S
  BY LenProperties, ElementOfSeq
<1>2. /\ before \in Seq(S)
      /\ Len(before) = i - 1
      /\ \A j \in 1 .. i - 1 : before[j] = s[j]
  <2>1. \A j \in 1 .. i - 1 : s[j] \in S
    BY <1>1
  <2>2. /\ before \in Seq(S)
        /\ Len(before) = IF 1 <= i - 1 THEN i - 1 - 1 + 1 ELSE 0
        /\ \A j \in 1 .. i - 1 - 1 + 1 : before[j] = s[1 + j - 1]
    BY <1>1, <2>1, SubSeqProperties
  <2>. QED
    BY <1>1, <2>2
<1>3. /\ after \in Seq(S)
      /\ Len(after) = Len(s) - i
      /\ \A j \in 1 .. Len(s) - i : after[j] = s[i + j]
  <2>1. \A j \in i + 1 .. Len(s) : s[j] \in S
    BY <1>1
  <2>2. /\ after \in Seq(S)
        /\ Len(after) = IF i + 1 <= Len(s) THEN Len(s) - (i + 1) + 1 ELSE 0
        /\ \A j \in 1 .. Len(s) - (i + 1) + 1 : after[j] = s[i + 1 + j - 1]
    BY <1>1, <2>1, SubSeqProperties
  <2>. QED
    BY <1>1, <2>2
<1>4. /\ before \o after \in Seq(S)
      /\ Len(before \o after) = Len(s) - 1
      /\ \A j \in 1 .. Len(s) - 1 :
           (before \o after)[j] = IF j <= i - 1 THEN before[j] ELSE after[j - (i - 1)]
  <2>. HIDE DEF before, after
  <2>1. /\ before \o after \in Seq(S)
        /\ Len(before \o after) = Len(before) + Len(after)
        /\ \A j \in 1 .. Len(before) + Len(after) :
             (before \o after)[j] = IF j <= Len(before) THEN before[j]
                                   ELSE after[j - Len(before)]
    BY <1>2, <1>3, ConcatProperties
  <2>2. Len(before) = i - 1 /\ Len(before) + Len(after) = Len(s) - 1
    BY <1>1, <1>2, <1>3
  <2>. QED
    BY <2>1, <2>2
<1>5. \A j \in 1 .. Len(s) - 1 :
        (before \o after)[j] = IF j < i THEN s[j] ELSE s[j + 1]
  <2>. HIDE DEF before, after
  <2>. SUFFICES ASSUME NEW j \in 1 .. Len(s) - 1
                PROVE  (before \o after)[j] = IF j < i THEN s[j] ELSE s[j + 1]
    OBVIOUS
  <2>1. (before \o after)[j] = IF j <= i - 1 THEN before[j] ELSE after[j - (i - 1)]
    BY <1>4
  <2>2. CASE j < i
    <3>1. j \in 1 .. i - 1 /\ j <= i - 1
      BY <1>1, <2>2
    <3>. QED
      BY <1>2, <2>1, <2>2, <3>1
  <2>3. CASE ~(j < i)
    <3>1. /\ j - (i - 1) \in 1 .. Len(s) - i
          /\ i + (j - (i - 1)) = j + 1
          /\ ~(j <= i - 1)
      BY <1>1, <2>3
    <3>2. after[j - (i - 1)] = s[i + (j - (i - 1))]
      BY <1>3, <3>1
    <3>. QED
      BY <2>1, <2>3, <3>1, <3>2
  <2>. QED
    BY <2>2, <2>3
<1>. QED
  BY <1>4, <1>5 DEF RemoveAt

\* A queue without repetition keeps that when a task leaves it, from the middle or
\* from the front, and when one joins that is not in it.
LEMMA LeaveInjective ==
  ASSUME NEW S, NEW s \in Seq(S), IsInjective(s), NEW i \in 1 .. Len(s)
  PROVE  /\ IsInjective(RemoveAt(s, i))
         /\ ToSet(RemoveAt(s, i)) = ToSet(s) \ {s[i]}
<1>1. /\ Len(s) \in Nat
      /\ DOMAIN s = 1 .. Len(s)
  BY LenProperties
<1>2. /\ RemoveAt(s, i) \in Seq(S)
      /\ Len(RemoveAt(s, i)) = Len(s) - 1
      /\ \A j \in 1 .. Len(s) - 1 :
           RemoveAt(s, i)[j] = IF j < i THEN s[j] ELSE s[j + 1]
  BY RemoveAtProperties
<1>3. DOMAIN RemoveAt(s, i) = 1 .. Len(s) - 1
  BY <1>2, LenProperties
<1>4. IsInjective(RemoveAt(s, i))
  <2>. DEFINE place(j) == IF j < i THEN j ELSE j + 1
  <2>. SUFFICES ASSUME NEW j \in 1 .. Len(s) - 1, NEW k \in 1 .. Len(s) - 1,
                       RemoveAt(s, i)[j] = RemoveAt(s, i)[k]
                PROVE  j = k
    BY <1>3 DEF IsInjective
  <2>1. /\ place(j) \in 1 .. Len(s) /\ RemoveAt(s, i)[j] = s[place(j)]
        /\ place(k) \in 1 .. Len(s) /\ RemoveAt(s, i)[k] = s[place(k)]
    <3>1. /\ RemoveAt(s, i)[j] = IF j < i THEN s[j] ELSE s[j + 1]
          /\ RemoveAt(s, i)[k] = IF k < i THEN s[k] ELSE s[k + 1]
      BY <1>2
    <3>2. place(j) \in 1 .. Len(s) /\ place(k) \in 1 .. Len(s)
      BY <1>1
    <3>. QED
      BY <3>1, <3>2
  <2>2. place(j) = place(k)
    BY <1>1, <2>1 DEF IsInjective
  <2>. QED
    BY <1>1, <2>2
<1>5. ToSet(RemoveAt(s, i)) \subseteq ToSet(s) \ {s[i]}
  BY <1>1, <1>2, <1>3 DEF IsInjective, ToSet
<1>6. ASSUME NEW k \in 1 .. Len(s), k # i
      PROVE  s[k] \in ToSet(RemoveAt(s, i))
  <2>1. CASE k < i
    <3>1. k \in 1 .. Len(s) - 1 /\ RemoveAt(s, i)[k] = s[k]
      BY <1>1, <1>2, <2>1
    <3>. QED
      BY <1>3, <3>1 DEF ToSet
  <2>2. CASE k > i
    <3>1. k - 1 \in 1 .. Len(s) - 1 /\ ~(k - 1 < i) /\ (k - 1) + 1 = k
      BY <1>1, <2>2
    <3>2. RemoveAt(s, i)[k - 1] = s[k]
      BY <1>2, <3>1
    <3>. QED
      BY <1>3, <3>1, <3>2 DEF ToSet
  <2>. QED
    BY <1>1, <1>6, <2>1, <2>2
<1>. QED
  BY <1>1, <1>4, <1>5, <1>6 DEF ToSet

LEMMA TailInjective ==
  ASSUME NEW S, NEW s \in Seq(S), IsInjective(s), s # <<>>
  PROVE  /\ Head(s) \in ToSet(s)
         /\ IsInjective(Tail(s))
         /\ ToSet(Tail(s)) = ToSet(s) \ {Head(s)}
<1>1. /\ Len(s) \in Nat \ {0}
      /\ DOMAIN s = 1 .. Len(s)
      /\ Head(s) = s[1]
  BY LenProperties, EmptySeq
<1>2. /\ Tail(s) \in Seq(S)
      /\ Len(Tail(s)) = Len(s) - 1
      /\ \A j \in 1 .. Len(s) - 1 : Tail(s)[j] = s[j + 1]
  BY HeadTailProperties
<1>3. DOMAIN Tail(s) = 1 .. Len(s) - 1
  BY <1>2, LenProperties
<1>4. IsInjective(Tail(s))
  BY <1>1, <1>2, <1>3 DEF IsInjective
<1>5. ToSet(Tail(s)) \subseteq ToSet(s) \ {Head(s)}
  BY <1>1, <1>2, <1>3 DEF IsInjective, ToSet
<1>6. ASSUME NEW k \in 2 .. Len(s)
      PROVE  s[k] \in ToSet(Tail(s))
  <2>1. k - 1 \in 1 .. Len(s) - 1 /\ (k - 1) + 1 = k
    BY <1>1
  <2>. QED
    BY <1>2, <1>3, <2>1 DEF ToSet
<1>7. ToSet(s) \ {Head(s)} \subseteq ToSet(Tail(s))
  <2>. SUFFICES ASSUME NEW k \in 1 .. Len(s), s[k] # Head(s)
                PROVE  s[k] \in ToSet(Tail(s))
    BY <1>1 DEF ToSet
  <2>1. k \in 2 .. Len(s)
    BY <1>1
  <2>. QED
    BY <1>6, <2>1
<1>8. Head(s) \in ToSet(s)
  BY <1>1 DEF ToSet
<1>. QED
  BY <1>4, <1>5, <1>7, <1>8

LEMMA AppendInjectivity ==
  ASSUME NEW S, NEW s \in Seq(S), IsInjective(s), NEW e \in S, e \notin ToSet(s)
  PROVE  /\ IsInjective(Append(s, e))
         /\ ToSet(Append(s, e)) = ToSet(s) \cup {e}
<1>1. /\ Len(s) \in Nat
      /\ DOMAIN s = 1 .. Len(s)
  BY LenProperties
<1>2. /\ DOMAIN Append(s, e) = 1 .. Len(s) + 1
      /\ \A j \in 1 .. Len(s) : Append(s, e)[j] = s[j]
      /\ Append(s, e)[Len(s) + 1] = e
  BY AppendProperties, LenProperties
<1>3. IsInjective(Append(s, e))
  BY <1>1, <1>2 DEF IsInjective, ToSet
<1>4. ToSet(Append(s, e)) = ToSet(s) \cup {e}
  BY <1>1, <1>2 DEF ToSet
<1>. QED
  BY <1>3, <1>4

\* A function on 1 .. n is a sequence of length n.
LEMMA FunctionIsSeq ==
  ASSUME NEW S, NEW n \in Nat, NEW f \in [1 .. n -> S]
  PROVE  f \in Seq(S) /\ Len(f) = n /\ DOMAIN f = 1 .. n
<1>1. f \in Seq(S)
  BY SeqDef
<1>2. DOMAIN f = 1 .. n /\ DOMAIN f = 1 .. Len(f) /\ Len(f) \in Nat
  BY <1>1, LenProperties
<1>. QED
  BY <1>1, <1>2

-----------------------------------------------------------------------------
\* Every step keeps the types.
LEMMA TypeStep == TypeOK /\ AsksOwn /\ [Next]_vars => TypeOK'
<1> SUFFICES ASSUME TypeOK, AsksOwn, [Next]_vars PROVE TypeOK'
  OBVIOUS
<1> USE PromptsAssumption DEF TypeOK, tasks, broker, messages
<1>0. /\ Len(prompts) \in Nat
      /\ DOMAIN prompts = 1 .. Len(prompts)
      /\ \A n \in 1 .. Len(prompts) : prompts[n] \in Prompt
  BY LenProperties, ElementOfSeq
<1>1. ASSUME NEW a \in Askers, PutOnScreen(a)
      PROVE  /\ asker' \in [Askers -> {"idle", "queued", "asking"}]
             /\ promptOf' \in [Askers -> 0..Len(prompts')]
             /\ prompts' \in Seq(Prompt)
             /\ pending' \subseteq DOMAIN prompts'
             /\ current' \in 0..Len(prompts')
  <2>. DEFINE p == [asker |-> a, future |-> "pending", by |-> 0, expired |-> FALSE]
  <2>1. p \in Prompt
    BY DEF Prompt
  <2>2. prompts' = Append(prompts, p)
    BY <1>1 DEF PutOnScreen
  <2>3. /\ prompts' \in Seq(Prompt)
        /\ Len(prompts') = Len(prompts) + 1
        /\ DOMAIN prompts' = 1 .. Len(prompts')
    BY <2>1, <2>2, AppendProperties, LenProperties
  <2>. QED
    BY <1>0, <1>1, <2>3 DEF PutOnScreen
<1>2. ASSUME NEW n \in DOMAIN prompts, NEW p \in Prompt,
             prompts' = [prompts EXCEPT ![n] = p]
      PROVE  /\ prompts' \in Seq(Prompt)
             /\ Len(prompts') = Len(prompts)
             /\ DOMAIN prompts' = DOMAIN prompts
  BY <1>0, <1>2, ExceptSeq, LenProperties
<1>3. ASSUME NEW ns, CancelFutures(ns)
      PROVE  /\ prompts' \in Seq(Prompt)
             /\ Len(prompts') = Len(prompts)
             /\ DOMAIN prompts' = DOMAIN prompts
  <2>1. \A n \in 1 .. Len(prompts) :
          [prompts[n] EXCEPT !.future = "cancelled"] \in Prompt
    BY <1>0 DEF Prompt
  <2>2. /\ DOMAIN prompts' = 1 .. Len(prompts)
        /\ \A n \in 1 .. Len(prompts) : prompts'[n] \in Prompt
        /\ prompts' = [n \in 1 .. Len(prompts) |-> prompts'[n]]
    BY <1>0, <1>3, <2>1 DEF CancelFutures
  <2>3. prompts' \in [1 .. Len(prompts) -> Prompt]
    BY <2>2
  <2>. QED
    BY <1>0, <2>3, FunctionIsSeq
<1>4. ASSUME NEW a \in Askers, Ask(a) PROVE TypeOK'
  <2>1. CASE PutOnScreen(a) /\ UNCHANGED waiters
    BY <1>1, <1>4, <2>1 DEF Ask
  <2>2. CASE ~(PutOnScreen(a) /\ UNCHANGED waiters)
    <3>0. waiters' = Append(waiters, a)
      BY <1>4, <2>2 DEF Ask
    <3>1. waiters' \in Seq(Askers)
      BY <3>0, AppendProperties
    <3>. QED
      BY <1>0, <1>4, <2>2, <3>1 DEF Ask
  <2>. QED
    BY <2>1, <2>2
<1>5. ASSUME NEW a \in Askers, TakeLock(a) PROVE TypeOK'
  <2>1. waiters' \in Seq(Askers)
    BY <1>5, HeadTailProperties DEF TakeLock
  <2>. QED
    BY <1>1, <1>5, <2>1 DEF TakeLock
<1>6. ASSUME NEW a \in Askers, LeaveQueue(a) PROVE TypeOK'
  <2>1. waiters' \in Seq(Askers)
    BY <1>6, RemoveAtProperties, LenProperties DEF LeaveQueue
  <2>. QED
    BY <1>0, <1>6, <2>1 DEF LeaveQueue
<1>7. ASSUME NEW a \in Askers, Resume(a) PROVE TypeOK'
  <2>. DEFINE n == promptOf[a]
              p == [prompts[n] EXCEPT !.expired = FALSE]
  <2>0. n \in DOMAIN prompts
    BY <1>7 DEF Resume, AsksOwn
  <2>1. p \in Prompt
    BY <1>0, <2>0 DEF Prompt
  <2>2. prompts' = [prompts EXCEPT ![n] = p]
    BY <1>7 DEF Resume
  <2>3. /\ prompts' \in Seq(Prompt)
        /\ Len(prompts') = Len(prompts)
        /\ DOMAIN prompts' = DOMAIN prompts
    BY <1>2, <2>0, <2>1, <2>2
  <2>. QED
    BY <1>0, <1>7, <2>3 DEF Resume
<1>8. ASSUME NEW a \in Askers, AbortChild(a) PROVE TypeOK'
  BY <1>3, <1>8 DEF AbortChild
<1>9. ASSUME NEW n \in DOMAIN prompts, NEW by \in Nat, Resolve(n, by)
      PROVE  /\ prompts' \in Seq(Prompt)
             /\ Len(prompts') = Len(prompts)
             /\ DOMAIN prompts' = DOMAIN prompts
  <2>. DEFINE p == [[prompts[n] EXCEPT !.future = "answered"] EXCEPT !.by = by]
  <2>1. p \in Prompt
    BY <1>0 DEF Prompt
  <2>2. prompts' = [prompts EXCEPT ![n] = p]
    BY <1>0, <1>9 DEF Resolve
  <2>. QED
    BY <1>2, <2>1, <2>2
<1>10. ASSUME NEW n \in DOMAIN prompts, AnswerPrompt(n) PROVE TypeOK'
  BY <1>9, <1>10 DEF AnswerPrompt
<1>11. ASSUME NEW n \in DOMAIN prompts, Expire(n) PROVE TypeOK'
  <2>1. PICK f \in {prompts[n].future, "cancelled"} :
          prompts' = [prompts EXCEPT ![n].expired = TRUE, ![n].future = f]
    BY <1>11 DEF Expire
  <2>. DEFINE p == [[prompts[n] EXCEPT !.expired = TRUE] EXCEPT !.future = f]
  <2>2. p \in Prompt
    BY <1>0 DEF Prompt
  <2>3. prompts' = [prompts EXCEPT ![n] = p]
    BY <1>0, <2>1
  <2>. QED
    BY <1>2, <1>11, <2>2, <2>3 DEF Expire
<1>12. CASE SubmitUserMessage
  <2>1. /\ prompts' \in Seq(Prompt)
        /\ Len(prompts') = Len(prompts)
        /\ DOMAIN prompts' = DOMAIN prompts
    <3>1. submitted' \in Nat
      BY <1>12 DEF SubmitUserMessage
    <3>. QED
      BY <1>9, <1>12, <3>1 DEF SubmitUserMessage, CanResolve
  <2>2. submitted' \in 0 .. MaxMessages /\ chat' \subseteq 1 .. submitted'
    <3>1. /\ submitted' \in 0 .. MaxMessages /\ submitted' = submitted + 1
          /\ chat' \in {chat, chat \cup {submitted'}}
      BY <1>12 DEF SubmitUserMessage
    <3>2. 1 .. submitted \subseteq 1 .. submitted' /\ submitted' \in 1 .. submitted'
      BY <3>1
    <3>. QED
      BY <3>1, <3>2
  <2>. QED
    BY <1>12, <2>1, <2>2 DEF SubmitUserMessage
<1>13. CASE CancelAll
  BY <1>3, <1>13 DEF CancelAll
<1>14. CASE UNCHANGED vars
  BY <1>14 DEF vars
<1>. QED
  BY <1>4, <1>5, <1>6, <1>7, <1>8, <1>10, <1>11, <1>12, <1>13, <1>14 DEF Next

\* What cancelling and settling do to the questions: their askers stay.
LEMMA AskersStay ==
  ASSUME TypeOK, AsksOwn,
         \/ \E a \in Askers : AbortChild(a) \/ Resume(a)
         \/ \E n \in DOMAIN prompts : AnswerPrompt(n) \/ Expire(n)
         \/ SubmitUserMessage
         \/ CancelAll
  PROVE  /\ DOMAIN prompts' = DOMAIN prompts
         /\ \A n \in DOMAIN prompts : prompts'[n].asker = prompts[n].asker
<1>0. \A n \in DOMAIN prompts : prompts[n] \in Prompt
  BY LenProperties, ElementOfSeq DEF TypeOK
<1>1. ASSUME NEW n \in DOMAIN prompts, NEW by, Resolve(n, by)
      PROVE  /\ DOMAIN prompts' = DOMAIN prompts
             /\ \A m \in DOMAIN prompts : prompts'[m].asker = prompts[m].asker
  BY <1>0, <1>1 DEF Resolve, Prompt
<1>2. ASSUME NEW ns, CancelFutures(ns)
      PROVE  /\ DOMAIN prompts' = DOMAIN prompts
             /\ \A m \in DOMAIN prompts : prompts'[m].asker = prompts[m].asker
  BY <1>0, <1>2 DEF CancelFutures, Prompt
<1>3. ASSUME NEW a \in Askers, AbortChild(a)
      PROVE  /\ DOMAIN prompts' = DOMAIN prompts
             /\ \A m \in DOMAIN prompts : prompts'[m].asker = prompts[m].asker
  BY <1>2, <1>3 DEF AbortChild
<1>4. ASSUME NEW a \in Askers, Resume(a)
      PROVE  /\ DOMAIN prompts' = DOMAIN prompts
             /\ \A m \in DOMAIN prompts : prompts'[m].asker = prompts[m].asker
  BY <1>0, <1>4 DEF Resume, Prompt, AsksOwn
<1>5. ASSUME NEW n \in DOMAIN prompts, AnswerPrompt(n)
      PROVE  /\ DOMAIN prompts' = DOMAIN prompts
             /\ \A m \in DOMAIN prompts : prompts'[m].asker = prompts[m].asker
  BY <1>1, <1>5 DEF AnswerPrompt
<1>6. ASSUME NEW n \in DOMAIN prompts, Expire(n)
      PROVE  /\ DOMAIN prompts' = DOMAIN prompts
             /\ \A m \in DOMAIN prompts : prompts'[m].asker = prompts[m].asker
  <2>1. PICK f : prompts' = [prompts EXCEPT ![n].expired = TRUE, ![n].future = f]
    BY <1>6 DEF Expire
  <2>. QED
    BY <1>0, <2>1 DEF Prompt
<1>7. CASE SubmitUserMessage
  <2>1. CASE current # 0 /\ CanResolve(current)
    BY <1>1, <1>7, <2>1 DEF SubmitUserMessage, CanResolve, TypeOK
  <2>2. CASE ~(current # 0 /\ CanResolve(current))
    BY <1>7, <2>2 DEF SubmitUserMessage
  <2>. QED
    BY <2>1, <2>2
<1>8. CASE CancelAll
  BY <1>2, <1>8 DEF CancelAll
<1>. QED
  BY <1>3, <1>4, <1>5, <1>6, <1>7, <1>8

\* Every step keeps the books of the lock and of the screen.
LEMMA BrokerStep ==
  TypeOK /\ TypeOK' /\ BrokerExact /\ AsksOwn /\ [Next]_vars
    => BrokerExact' /\ AsksOwn'
<1> SUFFICES ASSUME TypeOK, TypeOK', BrokerExact, AsksOwn, [Next]_vars
             PROVE  BrokerExact' /\ AsksOwn'
  OBVIOUS
<1> USE PromptsAssumption DEF tasks, broker, messages
<1>0. /\ Len(prompts) \in Nat
      /\ DOMAIN prompts = 1 .. Len(prompts)
      /\ \A n \in DOMAIN prompts : prompts[n] \in Prompt /\ prompts[n].asker \in Askers
  <2>1. /\ Len(prompts) \in Nat
        /\ DOMAIN prompts = 1 .. Len(prompts)
        /\ \A n \in DOMAIN prompts : prompts[n] \in Prompt
    BY LenProperties, ElementOfSeq DEF TypeOK
  <2>. QED
    BY <2>1 DEF Prompt
<1>1. ASSUME NEW a \in Askers, PutOnScreen(a), ~Locked
      PROVE  OneQuestion' /\ ScreenIsCurrent' /\ AsksOwn'
  <2>. DEFINE p == [asker |-> a, future |-> "pending", by |-> 0, expired |-> FALSE]
              n == Len(prompts) + 1
  <2>1. \A b \in Askers : asker[b] # "asking"
    BY <1>1 DEF Locked
  <2>2. current = 0 /\ pending = {}
    BY <1>0, <2>1 DEF BrokerExact, ScreenIsCurrent, TypeOK
  <2>3. /\ DOMAIN prompts' = 1 .. n
        /\ Len(prompts') = n
        /\ \A m \in DOMAIN prompts : prompts'[m] = prompts[m]
        /\ prompts'[n] = p
    <3>1. p \in Prompt /\ prompts' = Append(prompts, p)
      BY <1>1 DEF PutOnScreen, Prompt
    <3>. QED
      BY <1>0, <3>1, AppendProperties, LenProperties DEF TypeOK
  <2>4. /\ asker' = [asker EXCEPT ![a] = "asking"]
        /\ promptOf' = [promptOf EXCEPT ![a] = n]
        /\ pending' = {n} /\ current' = n
    BY <1>1, <2>2, <2>3 DEF PutOnScreen
  <2>. HIDE DEF n
  <2>5. n \in DOMAIN prompts' /\ prompts'[n].asker = a
    BY <1>0, <2>3 DEF n
  <2>6. OneQuestion'
    BY <2>1, <2>4 DEF OneQuestion, TypeOK
  <2>7. ScreenIsCurrent'
    BY <2>4, <2>5 DEF ScreenIsCurrent, TypeOK
  <2>8. AsksOwn'
    BY <2>1, <2>4, <2>5 DEF AsksOwn, TypeOK
  <2>. QED
    BY <2>6, <2>7, <2>8
<1>2. ASSUME NEW a \in Askers, Ask(a) PROVE BrokerExact' /\ AsksOwn'
  <2>1. a \notin ToSet(waiters)
    BY <1>2 DEF Ask, BrokerExact, QueueIsExact
  <2>2. CASE ~Locked /\ PutOnScreen(a) /\ UNCHANGED waiters
    <3>1. QueueIsExact'
      BY <1>2, <2>2 DEF PutOnScreen, Ask, QueueIsExact, BrokerExact, TypeOK
    <3>. QED
      BY <1>1, <2>2, <3>1 DEF BrokerExact
  <2>3. CASE /\ asker' = [asker EXCEPT ![a] = "queued"]
             /\ waiters' = Append(waiters, a)
             /\ UNCHANGED <<promptOf, broker>>
    <3>1. IsInjective(waiters') /\ ToSet(waiters') = ToSet(waiters) \cup {a}
      BY <2>1, <2>3, AppendInjectivity DEF BrokerExact, QueueIsExact, TypeOK
    <3>2. QueueIsExact'
      BY <2>3, <3>1 DEF BrokerExact, QueueIsExact, TypeOK
    <3>3. OneQuestion'
      BY <2>3 DEF OneQuestion, BrokerExact, TypeOK
    <3>4. ScreenIsCurrent'
      BY <1>0, <1>2, <2>3 DEF Ask, ScreenIsCurrent, BrokerExact, TypeOK
    <3>5. AsksOwn'
      BY <1>2, <2>3 DEF Ask, AsksOwn, TypeOK
    <3>. QED
      BY <3>2, <3>3, <3>4, <3>5 DEF BrokerExact
  <2>. QED
    BY <1>2, <2>2, <2>3 DEF Ask
<1>3. ASSUME NEW a \in Askers, TakeLock(a) PROVE BrokerExact' /\ AsksOwn'
  <2>1. /\ a \in ToSet(waiters) /\ IsInjective(waiters')
        /\ ToSet(waiters') = ToSet(waiters) \ {a}
    BY <1>3, TailInjective DEF TakeLock, BrokerExact, QueueIsExact, TypeOK
  <2>2. QueueIsExact'
    BY <1>3, <2>1 DEF TakeLock, PutOnScreen, BrokerExact, QueueIsExact, TypeOK
  <2>. QED
    BY <1>1, <1>3, <2>2 DEF TakeLock, BrokerExact
<1>4. ASSUME NEW a \in Askers, LeaveQueue(a) PROVE BrokerExact' /\ AsksOwn'
  <2>1. /\ IsInjective(waiters')
        /\ ToSet(waiters') = ToSet(waiters) \ {a}
    <3>1. PICK i \in DOMAIN waiters :
            waiters[i] = a /\ waiters' = RemoveAt(waiters, i)
      BY <1>4 DEF LeaveQueue
    <3>2. i \in 1 .. Len(waiters)
      BY LenProperties DEF TypeOK
    <3>. QED
      BY <3>1, <3>2, LeaveInjective DEF BrokerExact, QueueIsExact, TypeOK
  <2>2. QueueIsExact'
    BY <1>4, <2>1 DEF LeaveQueue, BrokerExact, QueueIsExact, TypeOK
  <2>3. OneQuestion'
    BY <1>4 DEF LeaveQueue, OneQuestion, BrokerExact, TypeOK
  <2>4. ScreenIsCurrent'
    BY <1>0, <1>4 DEF LeaveQueue, ScreenIsCurrent, BrokerExact, TypeOK
  <2>5. AsksOwn'
    BY <1>4 DEF LeaveQueue, AsksOwn, TypeOK
  <2>. QED
    BY <2>2, <2>3, <2>4, <2>5 DEF BrokerExact
<1>5. ASSUME NEW a \in Askers, Resume(a) PROVE BrokerExact' /\ AsksOwn'
  <2>1. /\ DOMAIN prompts' = DOMAIN prompts
        /\ \A n \in DOMAIN prompts : prompts'[n].asker = prompts[n].asker
    BY <1>5, AskersStay
  <2>2. \A b \in Askers : asker'[b] # "asking"
    BY <1>5 DEF Resume, OneQuestion, BrokerExact, TypeOK
  <2>3. QueueIsExact'
    BY <1>5 DEF Resume, QueueIsExact, BrokerExact, TypeOK
  <2>4. current' = 0 /\ pending' = {}
    BY <1>0, <1>5 DEF Resume, ScreenIsCurrent, OneQuestion, BrokerExact, TypeOK
  <2>5. AsksOwn'
    BY <1>5, <2>1, <2>2 DEF Resume, AsksOwn, OneQuestion, BrokerExact, TypeOK
  <2>. QED
    BY <2>2, <2>3, <2>4, <2>5 DEF BrokerExact, OneQuestion, ScreenIsCurrent
<1>6. CASE /\ UNCHANGED <<asker, promptOf, waiters>>
           /\ \/ UNCHANGED <<pending, current>>
              \/ pending' = {} /\ current' = 0
           /\ DOMAIN prompts' = DOMAIN prompts
           /\ \A n \in DOMAIN prompts : prompts'[n].asker = prompts[n].asker
  <2>1. OneQuestion'
    BY <1>6 DEF OneQuestion, BrokerExact
  <2>2. ScreenIsCurrent'
    BY <1>0, <1>6 DEF ScreenIsCurrent, BrokerExact, TypeOK
  <2>3. QueueIsExact'
    BY <1>6 DEF QueueIsExact, BrokerExact
  <2>4. AsksOwn'
    BY <1>6 DEF AsksOwn, TypeOK
  <2>. QED
    BY <2>1, <2>2, <2>3, <2>4 DEF BrokerExact
<1>7. ASSUME NEW a \in Askers, AbortChild(a) PROVE BrokerExact' /\ AsksOwn'
  BY <1>6, <1>7, AskersStay DEF AbortChild
<1>8. ASSUME NEW n \in DOMAIN prompts, AnswerPrompt(n) PROVE BrokerExact' /\ AsksOwn'
  BY <1>6, <1>8, AskersStay DEF AnswerPrompt
<1>9. ASSUME NEW n \in DOMAIN prompts, Expire(n) PROVE BrokerExact' /\ AsksOwn'
  BY <1>6, <1>9, AskersStay DEF Expire
<1>10. CASE SubmitUserMessage
  BY <1>6, <1>10, AskersStay DEF SubmitUserMessage
<1>11. CASE CancelAll
  BY <1>6, <1>11, AskersStay DEF CancelAll
<1>12. CASE UNCHANGED vars
  BY <1>6, <1>12 DEF vars
<1>. QED
  BY <1>2, <1>3, <1>4, <1>5, <1>7, <1>8, <1>9, <1>10, <1>11, <1>12 DEF Next

LEMMA Initially == Init => IInv
<1> SUFFICES ASSUME Init PROVE IInv
  OBVIOUS
<1>1. TypeOK
  BY PromptsAssumption, EmptySeq DEF Init, TypeOK
<1>2. OneQuestion /\ ScreenIsCurrent /\ AsksOwn
  BY DEF Init, OneQuestion, ScreenIsCurrent, AsksOwn
<1>3. QueueIsExact
  <2>1. DOMAIN waiters = {}
    BY EmptySeq, LenProperties DEF Init
  <2>. QED
    BY <2>1 DEF Init, QueueIsExact, IsInjective, ToSet
<1>. QED
  BY <1>1, <1>2, <1>3 DEF IInv, BrokerExact

-----------------------------------------------------------------------------
\* The broker of prompts.py always has its types, its books agree, and a task in
\* _ask_one has a question of its own.
THEOREM Invariance == Spec => []IInv
<1>1. IInv /\ [Next]_vars => IInv'
  BY TypeStep, BrokerStep DEF IInv
<1>. QED
  BY Initially, <1>1, PTL DEF Spec

\* The variables of the broker keep the ranges of their Python counterparts,
\* whatever order the tasks, the timers and the user act in.
THEOREM TypeCorrect == Spec => []TypeOK
<1>1. IInv => TypeOK
  BY DEF IInv
<1>. QED
  BY Invariance, <1>1, PTL

\* However many tasks ask: one question is on the screen at a time, it is one that
\* is still waited for, and _ask_lock queues exactly those that wait for it.
THEOREM BrokerIsExact == Spec => []BrokerExact
<1>1. IInv => BrokerExact
  BY DEF IInv
<1>. QED
  BY Invariance, <1>1, PTL

-----------------------------------------------------------------------------
(* The connections of the MCP manager: none is left open that nobody will  *)
(* close.  ServerInv is the inductive invariant.                           *)

\* What a task is, when so many connections have been opened.
Places == {"idle", "approve", "read", "connect", "initialize", "sleep", "invoke", "close",
           "begin", "cleared", "ended"}
TaskRecord(n) ==
  [pc : Places, m : Managers, conn : 0 .. n, tries : 0 .. Backoff, second : BOOLEAN,
   then : {"idle", "connect", "ended", "begin", "cleared"}, auth : BOOLEAN]

ServerTypes ==
  /\ cur \in Managers /\ known \subseteq Managers
  /\ status \in [Managers -> {"error", "ready", "needs_auth"}]
  /\ session \in [Managers -> {None} \cup conns]
  /\ cooling \in [Managers -> BOOLEAN]
  /\ opened \in Nat
  /\ task \in [Tasks -> TaskRecord(opened)]
  /\ conns \subseteq 1 .. opened /\ lost \subseteq 1 .. opened

\* Two managers never hold the same connection.
OneOwner == \A m, n \in Managers : session[m] = session[n] => m = n \/ session[m] = None

\* Who closes a connection has taken it out of the state before.
ClosedByOne ==
  \A t \in Tasks : task[t].pc = "close" =>
    task[t].conn # None /\ \A m \in Managers : session[m] # task[t].conn

\* Every open connection is held by the manager that will close it, is being
\* closed, or is one of those that the manager lost track of.
Accounted ==
  \A c \in conns :
    \/ c \in lost
    \/ stop # "done" /\ \E m \in known : session[m] = c
    \/ \E t \in Tasks : task[t].pc = "close" /\ task[t].conn = c

ServerInv == ServerTypes /\ OneOwner /\ ClosedByOne /\ Accounted

\* A task goes on, and no connection changes hands.
Moves(t, r) ==
  /\ task' = [task EXCEPT ![t] = r] /\ r \in TaskRecord(opened) /\ r.pc # "close"
  /\ task[t].pc # "close"
  /\ UNCHANGED <<session, opened, conns, lost>>

\* It gives up the session it found in the state.
Drops(t, r) ==
  /\ task' = [task EXCEPT ![t] = r] /\ r \in TaskRecord(opened) /\ r.pc # "close"
  /\ task[t].pc # "close"
  /\ \E m \in Managers :
       /\ session' = [session EXCEPT ![m] = None]
       /\ lost' = lost \cup ({session[m]} \ {None})
  /\ UNCHANGED <<opened, conns>>

\* It begins to close it, or has nothing to close.
ClosesThen(t, r) ==
  /\ r \in TaskRecord(opened) /\ r.then \in {"connect", "ended", "begin", "cleared"}
  /\ task[t].pc # "close" /\ CloseThen(t, r)
  /\ UNCHANGED <<opened, conns, lost>>

Others == /\ cur \in Managers => cur' \in Managers
          /\ status \in [Managers -> {"error", "ready", "needs_auth"}] =>
               status' \in [Managers -> {"error", "ready", "needs_auth"}]
          /\ cooling \in [Managers -> BOOLEAN] => cooling' \in [Managers -> BOOLEAN]

\* Neither keeps anything from being accounted for.
LEMMA MovesKeep ==
  ASSUME ServerInv, NEW t \in Tasks, NEW r, Moves(t, r), Others, UNCHANGED <<cur, known>>,
         stop' = "done" => stop = "done"
  PROVE  ServerInv'
<1>1. /\ task \in [Tasks -> TaskRecord(opened)] /\ task' \in [Tasks -> TaskRecord(opened)]
      /\ task'[t] = r /\ \A u \in Tasks \ {t} : task'[u] = task[u]
  BY DEF ServerInv, ServerTypes, Moves
<1>2. ServerTypes'
  BY <1>1 DEF ServerInv, ServerTypes, Moves, Others
<1>3. OneOwner'
  BY DEF ServerInv, OneOwner, Moves
<1>4. ClosedByOne'
  BY <1>1 DEF ServerInv, ClosedByOne, Moves
<1>5. Accounted'
  BY <1>1 DEF ServerInv, Accounted, Moves
<1>. QED
  BY <1>2, <1>3, <1>4, <1>5 DEF ServerInv

LEMMA DropsKeep ==
  ASSUME ServerInv, NEW t \in Tasks, NEW r, Drops(t, r), Others, UNCHANGED <<cur, known>>,
         stop' = "done" => stop = "done"
  PROVE  ServerInv'
<1>1. /\ task \in [Tasks -> TaskRecord(opened)] /\ task' \in [Tasks -> TaskRecord(opened)]
      /\ task'[t] = r /\ \A u \in Tasks \ {t} : task'[u] = task[u]
  BY DEF ServerInv, ServerTypes, Drops
<1>2. PICK m \in Managers : /\ session' = [session EXCEPT ![m] = None]
                            /\ lost' = lost \cup ({session[m]} \ {None})
  BY DEF Drops
<1>3. /\ session \in [Managers -> {None} \cup conns] /\ conns \subseteq 1 .. opened
      /\ session'[m] = None /\ \A n \in Managers \ {m} : session'[n] = session[n]
  BY <1>2 DEF ServerInv, ServerTypes
<1>4. ServerTypes'
  <2>1. session' \in [Managers -> {None} \cup conns]
    BY <1>2, <1>3
  <2>2. lost' \subseteq 1 .. opened
    BY <1>2, <1>3 DEF ServerInv, ServerTypes
  <2>. QED
    BY <1>1, <2>1, <2>2 DEF ServerInv, ServerTypes, Drops, Others
<1>5. OneOwner'
  BY <1>3 DEF ServerInv, OneOwner
<1>6. ClosedByOne'
  BY <1>1, <1>3 DEF ServerInv, ClosedByOne, Drops
<1>7. Accounted'
  <2> SUFFICES ASSUME NEW c \in conns'
               PROVE  \/ c \in lost'
                      \/ stop' # "done" /\ \E n \in known' : session'[n] = c
                      \/ \E u \in Tasks : task'[u].pc = "close" /\ task'[u].conn = c
    BY DEF Accounted
  <2>1. c \in conns /\ c # None /\ lost \subseteq lost'
    BY <1>2, <1>3 DEF Drops, None
  <2>2. CASE c \in lost
    BY <2>1, <2>2
  <2>3. CASE stop # "done" /\ \E n \in known : session[n] = c
    <3>1. PICK n \in known : session[n] = c
      BY <2>3
    <3>2. n \in Managers
      BY DEF ServerInv, ServerTypes
    <3>3. CASE n = m
      BY <1>2, <2>1, <3>1, <3>3
    <3>4. CASE n # m
      BY <1>3, <2>3, <3>1, <3>2, <3>4
    <3>. QED
      BY <3>3, <3>4
  <2>4. CASE \E u \in Tasks : task[u].pc = "close" /\ task[u].conn = c
    BY <1>1, <2>4 DEF Drops
  <2>. QED
    BY <2>1, <2>2, <2>3, <2>4 DEF ServerInv, Accounted
<1>. QED
  BY <1>4, <1>5, <1>6, <1>7 DEF ServerInv

\* Whoever takes a session out of the state is its only closer.
LEMMA ClosesKeep ==
  ASSUME ServerInv, NEW t \in Tasks, NEW r, ClosesThen(t, r), Others, UNCHANGED <<cur, known>>,
         stop' = "done" => stop = "done"
  PROVE  ServerInv'
<1> DEFINE m == r.m
           g == GoOn(r)
           k == [r EXCEPT !.pc = "close", !.conn = session[m]]
<1>1. /\ r \in TaskRecord(opened) /\ m \in Managers /\ task[t].pc # "close"
      /\ session' = [session EXCEPT ![m] = None]
      /\ task' = [task EXCEPT ![t] = IF session[m] = None THEN g ELSE k]
      /\ UNCHANGED <<opened, conns, lost>>
  BY DEF ClosesThen, CloseThen, Set, TaskRecord
<1>2. /\ session \in [Managers -> {None} \cup conns] /\ conns \subseteq 1 .. opened
      /\ opened \in Nat /\ task \in [Tasks -> TaskRecord(opened)]
      /\ cur \in Managers
  BY DEF ServerInv, ServerTypes
<1>3. /\ session' \in [Managers -> {None} \cup conns]
      /\ session'[m] = None /\ \A n \in Managers \ {m} : session'[n] = session[n]
  BY <1>1, <1>2
<1>4. session[m] \in 0 .. opened
  <2>0. 0 \in 0 .. opened
    BY <1>2
  <2>1. session[m] \in {None} \cup conns
    BY <1>1, <1>2
  <2>2. \A c \in conns : c \in 0 .. opened
    BY <1>2
  <2>. QED
    BY <2>0, <2>1, <2>2 DEF None
<1>5. CASE session[m] = None
  <2>1. g \in TaskRecord(opened) /\ g.pc # "close"
    <3>1. 0 \in 0 .. opened /\ 0 \in 0 .. Backoff /\ 1 \in Managers
      BY <1>2, McpAssumption DEF Managers
    <3>2. r.then \in {"connect", "ended", "begin", "cleared"}
      BY DEF ClosesThen
    <3>. QED
      BY <1>1, <3>1, <3>2 DEF GoOn, Idle, None, TaskRecord, Places
  <2> HIDE DEF g, k
  <2>2. session' = session
    BY <1>1, <1>2, <1>5
  <2>3. Moves(t, g)
    BY <1>1, <1>5, <2>1, <2>2 DEF Moves
  <2>. QED
    BY <2>3, MovesKeep
<1>6. CASE session[m] # None
  <2>1. k \in TaskRecord(opened) /\ k.pc = "close" /\ k.conn = session[m]
    BY <1>1, <1>4 DEF TaskRecord, Places
  <2> HIDE DEF g, k
  <2>2. /\ task' \in [Tasks -> TaskRecord(opened)]
        /\ task'[t] = k /\ \A u \in Tasks \ {t} : task'[u] = task[u]
    BY <1>1, <1>2, <1>6, <2>1
  <2>3. ServerTypes'
    BY <1>1, <1>3, <2>2 DEF ServerInv, ServerTypes, Others
  <2>4. OneOwner'
    BY <1>3 DEF ServerInv, OneOwner
  <2>5. ClosedByOne'
    <3> SUFFICES ASSUME NEW u \in Tasks, task'[u].pc = "close"
                 PROVE  task'[u].conn # None /\ \A n \in Managers : session'[n] # task'[u].conn
      BY DEF ClosedByOne
    <3>1. CASE u = t
      <4>1. task'[u].conn = session[m] /\ session[m] # None
        BY <1>6, <2>1, <2>2, <3>1
      <4>2. \A n \in Managers : session'[n] # session[m]
        BY <1>1, <1>3, <1>6 DEF ServerInv, OneOwner
      <4>. QED
        BY <4>1, <4>2
    <3>2. CASE u # t
      <4>1. task'[u] = task[u]
        BY <2>2, <3>2
      <4>2. task[u].conn # None /\ \A n \in Managers : session[n] # task[u].conn
        BY <4>1 DEF ServerInv, ClosedByOne
      <4>. QED
        BY <1>3, <4>1, <4>2
    <3>. QED
      BY <3>1, <3>2
  <2>6. Accounted'
    <3> SUFFICES ASSUME NEW c \in conns'
                 PROVE  \/ c \in lost'
                        \/ stop' # "done" /\ \E n \in known' : session'[n] = c
                        \/ \E u \in Tasks : task'[u].pc = "close" /\ task'[u].conn = c
      BY DEF Accounted
    <3>1. c \in conns
      BY <1>1
    <3>2. CASE c \in lost
      BY <1>1, <3>2
    <3>3. CASE stop # "done" /\ \E n \in known : session[n] = c
      <4>1. PICK n \in known : session[n] = c
        BY <3>3
      <4>2. n \in Managers
        BY DEF ServerInv, ServerTypes
      <4>3. CASE n = m
        BY <2>1, <2>2, <4>1, <4>3
      <4>4. CASE n # m
        BY <1>3, <3>3, <4>1, <4>2, <4>4
      <4>. QED
        BY <4>3, <4>4
    <3>4. CASE \E u \in Tasks : task[u].pc = "close" /\ task[u].conn = c
      BY <1>1, <2>2, <3>4
    <3>. QED
      BY <3>1, <3>2, <3>3, <3>4 DEF ServerInv, Accounted
  <2>. QED
    BY <2>3, <2>4, <2>5, <2>6 DEF ServerInv
<1>. QED
  BY <1>5, <1>6

\* What there was stays within the bound when one more is opened.
LEMMA RecordsGrow ==
  ASSUME NEW n \in Nat
  PROVE  TaskRecord(n) \subseteq TaskRecord(n + 1)
<1>1. 0 .. n \subseteq 0 .. n + 1
  OBVIOUS
<1>. QED
  BY <1>1 DEF TaskRecord

\* A new connection is in no other hands; the one it displaces is lost.
LEMMA OpenKeeps ==
  ASSUME ServerInv, NEW t \in Tasks, task[t].pc # "close", Open(t), UNCHANGED <<cur, known, stop>>,
         UNCHANGED <<status, cooling>>
  PROVE  ServerInv'
<1> DEFINE c == opened + 1
           m == M(t)
           r == [task[t] EXCEPT !.pc = "initialize", !.conn = c]
<1>1. /\ opened' = c /\ conns' = conns \cup {c} /\ session' = [session EXCEPT ![m] = c]
      /\ lost' = lost \cup (IF session[m] = None THEN {} ELSE {session[m]})
                      \cup (IF m \in known /\ m = cur /\ stop # "done" THEN {} ELSE {c})
      /\ task' = [task EXCEPT ![t] = r]
  BY DEF Open, Set
<1>2. /\ session \in [Managers -> {None} \cup conns] /\ conns \subseteq 1 .. opened
      /\ lost \subseteq 1 .. opened /\ opened \in Nat /\ task \in [Tasks -> TaskRecord(opened)]
  BY DEF ServerInv, ServerTypes
<1>3. c \in Nat /\ c # None /\ c \notin conns /\ c \in 1 .. c /\ c \notin 0 .. opened
  BY <1>2 DEF None
<1>4. 1 .. opened \subseteq 1 .. c
  BY <1>2
<1>5. task[t] \in TaskRecord(opened) /\ m \in Managers
  BY <1>2 DEF TaskRecord, M
<1>6. r \in TaskRecord(c) /\ r.pc = "initialize"
  <2>1. task[t] \in TaskRecord(c) /\ c \in 0 .. c
    BY <1>2, <1>3, <1>5, RecordsGrow
  <2> HIDE DEF c
  <2>. QED
    BY <2>1 DEF TaskRecord, Places
<1>7. task \in [Tasks -> TaskRecord(c)]
  BY <1>2, RecordsGrow
<1> HIDE DEF c, r
<1>8. /\ task' \in [Tasks -> TaskRecord(c)]
      /\ task'[t] = r /\ \A u \in Tasks \ {t} : task'[u] = task[u]
  BY <1>1, <1>6, <1>7
<1>9. /\ session' \in [Managers -> {None} \cup conns']
      /\ session'[m] = c /\ \A n \in Managers \ {m} : session'[n] = session[n]
  BY <1>1, <1>2, <1>5
<1>10. ServerTypes'
  <2>1. conns' \subseteq 1 .. c
    BY <1>1, <1>2, <1>3, <1>4
  <2>2. session[m] = None \/ session[m] \in 1 .. c
    BY <1>2, <1>4, <1>5
  <2>3. lost' \subseteq 1 .. c
    BY <1>1, <1>2, <1>3, <1>4, <2>2
  <2>. QED
    BY <1>1, <1>3, <1>8, <1>9, <2>1, <2>3 DEF ServerInv, ServerTypes
<1>11. OneOwner'
  <2>1. \A n \in Managers : session[n] # c
    BY <1>2, <1>3
  <2>. QED
    BY <1>9, <2>1 DEF ServerInv, OneOwner
<1>12. ClosedByOne'
  <2> SUFFICES ASSUME NEW u \in Tasks, task'[u].pc = "close"
               PROVE  task'[u].conn # None /\ \A n \in Managers : session'[n] # task'[u].conn
    BY DEF ClosedByOne
  <2>1. u # t /\ task'[u] = task[u]
    BY <1>6, <1>8
  <2>2. task[u].conn \in 0 .. opened
    BY <1>2 DEF TaskRecord
  <2>3. task[u].conn # None /\ \A n \in Managers : session[n] # task[u].conn
    BY <2>1 DEF ServerInv, ClosedByOne
  <2>. QED
    BY <1>3, <1>9, <2>1, <2>2, <2>3
<1>13. Accounted'
  <2> SUFFICES ASSUME NEW d \in conns'
               PROVE  \/ d \in lost'
                      \/ stop' # "done" /\ \E n \in known' : session'[n] = d
                      \/ \E u \in Tasks : task'[u].pc = "close" /\ task'[u].conn = d
    BY DEF Accounted
  <2>1. CASE d = c
    BY <1>1, <1>9, <2>1
  <2>2. CASE d \in conns
    <3>1. d # None
      BY <1>2, <2>2 DEF None
    <3>2. CASE d \in lost
      BY <1>1, <3>2
    <3>3. CASE stop # "done" /\ \E n \in known : session[n] = d
      <4>1. PICK n \in known : session[n] = d
        BY <3>3
      <4>2. n \in Managers
        BY DEF ServerInv, ServerTypes
      <4>3. CASE n = m
        BY <1>1, <3>1, <4>1, <4>3
      <4>4. CASE n # m
        BY <1>9, <3>3, <4>1, <4>2, <4>4
      <4>. QED
        BY <4>3, <4>4
    <3>4. CASE \E u \in Tasks : task[u].pc = "close" /\ task[u].conn = d
      BY <1>8, <3>4
    <3>. QED
      BY <2>2, <3>2, <3>3, <3>4 DEF ServerInv, Accounted
  <2>. QED
    BY <1>1, <2>1, <2>2
<1>. QED
  BY <1>10, <1>11, <1>12, <1>13 DEF ServerInv

\* After a close, and at the end of a call.
LEMMA GoOnGoes ==
  ASSUME NEW n \in Nat, NEW r \in TaskRecord(n)
  PROVE  GoOn(r) \in TaskRecord(n) /\ GoOn(r).pc # "close"
<1>1. 0 \in 0 .. n /\ 0 \in 0 .. Backoff /\ 1 \in Managers
  BY McpAssumption DEF Managers
<1>2. r.then \in {"idle", "connect", "ended", "begin", "cleared"}
  BY DEF TaskRecord
<1>. QED
  BY <1>1, <1>2 DEF GoOn, Idle, None, TaskRecord, Places

LEMMA EndIsRecord ==
  ASSUME NEW n \in Nat
  PROVE  [Idle EXCEPT !.pc = "ended"] \in TaskRecord(n)
<1>1. 0 \in 0 .. n /\ 0 \in 0 .. Backoff /\ 1 \in Managers
  BY McpAssumption DEF Managers
<1>. QED
  BY <1>1 DEF Idle, None, TaskRecord, Places

\* The connection that a task has closed is in no state.
LEMMA ClosedKeeps ==
  ASSUME ServerInv, NEW t \in Tasks, Closed(t)
  PROVE  ServerInv'
<1> DEFINE r == GoOn(task[t])
           d == task[t].conn
<1>1. /\ task[t].pc = "close" /\ task' = [task EXCEPT ![t] = r] /\ conns' = conns \ {d}
      /\ UNCHANGED <<cur, known, stop, status, session, cooling, opened, lost>>
  BY DEF Closed, At, Set, Quiet, state
<1>2. /\ session \in [Managers -> {None} \cup conns] /\ conns \subseteq 1 .. opened
      /\ opened \in Nat /\ task \in [Tasks -> TaskRecord(opened)]
  BY DEF ServerInv, ServerTypes
<1>3. r \in TaskRecord(opened) /\ r.pc # "close"
  BY <1>2, GoOnGoes
<1>4. d # None /\ \A m \in Managers : session[m] # d
  BY <1>1 DEF ServerInv, ClosedByOne
<1> HIDE DEF r, d
<1>5. /\ task' \in [Tasks -> TaskRecord(opened)]
      /\ task'[t] = r /\ \A u \in Tasks \ {t} : task'[u] = task[u]
  BY <1>1, <1>2, <1>3
<1>6. ServerTypes'
  <2>1. session' \in [Managers -> {None} \cup conns']
    BY <1>1, <1>2, <1>4
  <2>. QED
    BY <1>1, <1>5, <2>1 DEF ServerInv, ServerTypes
<1>7. OneOwner'
  BY <1>1 DEF ServerInv, OneOwner
<1>8. ClosedByOne'
  BY <1>1, <1>3, <1>5 DEF ServerInv, ClosedByOne
<1>9. Accounted'
  <2> SUFFICES ASSUME NEW c \in conns'
               PROVE  \/ c \in lost
                      \/ stop # "done" /\ \E n \in known : session[n] = c
                      \/ \E u \in Tasks : task'[u].pc = "close" /\ task'[u].conn = c
    BY <1>1 DEF Accounted
  <2>1. c \in conns /\ c # d
    BY <1>1
  <2>2. CASE \E u \in Tasks : task[u].pc = "close" /\ task[u].conn = c
    BY <1>5, <2>1, <2>2 DEF d
  <2>. QED
    BY <2>1, <2>2 DEF ServerInv, Accounted
<1>. QED
  BY <1>6, <1>7, <1>8, <1>9 DEF ServerInv

\* An abort that cuts off a close loses the connection.
LEMMA CancelKeeps ==
  ASSUME ServerInv, NEW t \in Tasks, Cancel(t)
  PROVE  ServerInv'
<1> DEFINE r == [Idle EXCEPT !.pc = "ended"]
<1>1. /\ task' = [task EXCEPT ![t] = r]
      /\ lost' = IF task[t].pc = "close" THEN lost \cup {task[t].conn} ELSE lost
      /\ UNCHANGED <<cur, known, stop, status, session, cooling, opened, conns>>
  BY DEF Cancel, End, At, Set, Quiet, state
<1>2. /\ lost \subseteq 1 .. opened
      /\ opened \in Nat /\ task \in [Tasks -> TaskRecord(opened)]
  BY DEF ServerInv, ServerTypes
<1>3. r \in TaskRecord(opened) /\ r.pc # "close"
  BY <1>2, EndIsRecord DEF Idle
<1>4. task[t].pc = "close" => task[t].conn \in 1 .. opened
  <2>1. task[t].conn \in 0 .. opened
    BY <1>2 DEF TaskRecord
  <2>2. task[t].pc = "close" => task[t].conn # 0
    BY DEF ServerInv, ClosedByOne, None
  <2>. QED
    BY <1>2, <2>1, <2>2
<1> HIDE DEF r
<1>5. /\ task' \in [Tasks -> TaskRecord(opened)]
      /\ task'[t] = r /\ \A u \in Tasks \ {t} : task'[u] = task[u]
  BY <1>1, <1>2, <1>3
<1>6. ServerTypes'
  <2>1. lost' \subseteq 1 .. opened
    BY <1>1, <1>2, <1>4
  <2>. QED
    BY <1>1, <1>5, <2>1 DEF ServerInv, ServerTypes
<1>7. OneOwner'
  BY <1>1 DEF ServerInv, OneOwner
<1>8. ClosedByOne'
  BY <1>1, <1>3, <1>5 DEF ServerInv, ClosedByOne
<1>9. Accounted'
  <2> SUFFICES ASSUME NEW c \in conns
               PROVE  \/ c \in lost'
                      \/ stop # "done" /\ \E n \in known : session[n] = c
                      \/ \E u \in Tasks : task'[u].pc = "close" /\ task'[u].conn = c
    BY <1>1 DEF Accounted
  <2>1. CASE c \in lost
    BY <1>1, <2>1
  <2>2. CASE \E u \in Tasks : task[u].pc = "close" /\ task[u].conn = c
    <3>1. PICK u \in Tasks : task[u].pc = "close" /\ task[u].conn = c
      BY <2>2
    <3>. QED
      BY <1>1, <1>5, <3>1
  <2>. QED
    BY <2>1, <2>2 DEF ServerInv, Accounted
<1>. QED
  BY <1>6, <1>7, <1>8, <1>9 DEF ServerInv

\* What the old manager still holds when it is replaced is lost.
LEMMA ReplaceKeeps ==
  ASSUME ServerInv, NEW t \in Tasks, Replace(t)
  PROVE  ServerInv'
<1> DEFINE r == [Idle EXCEPT !.pc = "connect", !.m = 2]
<1>1. /\ task[t].pc = "cleared" /\ task' = [task EXCEPT ![t] = r] /\ cur' = 2 /\ known' = {2}
      /\ lost' = IF session[1] = None THEN lost ELSE lost \cup {session[1]}
      /\ stop # "done"
      /\ UNCHANGED <<stop, status, session, cooling, opened, conns>>
  BY DEF Replace, At, Set, state
<1>2. /\ session \in [Managers -> {None} \cup conns] /\ conns \subseteq 1 .. opened
      /\ lost \subseteq 1 .. opened /\ opened \in Nat /\ task \in [Tasks -> TaskRecord(opened)]
      /\ known \subseteq Managers
  BY DEF ServerInv, ServerTypes
<1>3. 1 \in Managers /\ 2 \in Managers /\ \A m \in Managers : m = 1 \/ m = 2
  BY DEF Managers
<1>4. r \in TaskRecord(opened) /\ r.pc # "close"
  <2>1. 0 \in 0 .. opened /\ 0 \in 0 .. Backoff
    BY <1>2, McpAssumption
  <2>. QED
    BY <1>3, <2>1 DEF Idle, None, TaskRecord, Places
<1> HIDE DEF r
<1>5. /\ task' \in [Tasks -> TaskRecord(opened)]
      /\ task'[t] = r /\ \A u \in Tasks \ {t} : task'[u] = task[u]
  BY <1>1, <1>2, <1>4
<1>6. ServerTypes'
  <2>1. session[1] = None \/ session[1] \in 1 .. opened
    BY <1>2, <1>3
  <2>2. lost' \subseteq 1 .. opened
    BY <1>1, <1>2, <2>1
  <2>. QED
    BY <1>1, <1>3, <1>5, <2>2 DEF ServerInv, ServerTypes
<1>7. OneOwner'
  BY <1>1 DEF ServerInv, OneOwner
<1>8. ClosedByOne'
  BY <1>1, <1>4, <1>5 DEF ServerInv, ClosedByOne
<1>9. Accounted'
  <2> SUFFICES ASSUME NEW c \in conns
               PROVE  \/ c \in lost'
                      \/ stop # "done" /\ \E n \in {2} : session[n] = c
                      \/ \E u \in Tasks : task'[u].pc = "close" /\ task'[u].conn = c
    BY <1>1 DEF Accounted
  <2>1. c # None
    BY <1>2 DEF None
  <2>2. CASE c \in lost
    BY <1>1, <2>2
  <2>3. CASE \E n \in known : session[n] = c
    BY <1>1, <1>2, <1>3, <2>1, <2>3
  <2>4. CASE \E u \in Tasks : task[u].pc = "close" /\ task[u].conn = c
    BY <1>1, <1>5, <2>4
  <2>. QED
    BY <2>2, <2>3, <2>4 DEF ServerInv, Accounted
<1>. QED
  BY <1>6, <1>7, <1>8, <1>9 DEF ServerInv

\* aclose takes out and closes what the known servers hold, and no other
\* server holds any of these.
LEMMA AcloseKeeps ==
  ASSUME ServerInv, Aclose
  PROVE  ServerInv'
<1>1. /\ conns' = conns \ {session[m] : m \in known} /\ stop' = "done"
      /\ session' = [m \in Managers |-> IF m \in known THEN None ELSE session[m]]
      /\ UNCHANGED <<cur, known, status, cooling, task, opened, lost>>
  BY DEF Aclose, ClosedAll
<1>2. /\ session \in [Managers -> {None} \cup conns] /\ conns \subseteq 1 .. opened
      /\ known \subseteq Managers
  BY DEF ServerInv, ServerTypes
<1>3. \A m \in Managers : session'[m] = IF m \in known THEN None ELSE session[m]
  BY <1>1
<1>4. session' \in [Managers -> {None} \cup conns']
  <2>1. ASSUME NEW m \in Managers
        PROVE  (IF m \in known THEN None ELSE session[m]) \in {None} \cup conns'
    <3>1. CASE m \in known
      BY <3>1
    <3>2. CASE m \notin known /\ session[m] # None
      <4>1. \A n \in known : session[n] # session[m]
        BY <1>2, <3>2 DEF ServerInv, OneOwner
      <4>. QED
        BY <1>1, <1>2, <3>2, <4>1
    <3>. QED
      BY <3>1, <3>2
  <2>. QED
    BY <1>1, <2>1
<1>5. ServerTypes'
  BY <1>1, <1>4 DEF ServerInv, ServerTypes
<1>6. OneOwner'
  BY <1>3 DEF ServerInv, OneOwner
<1>7. ClosedByOne'
  BY <1>1, <1>3 DEF ServerInv, ClosedByOne
<1>8. Accounted'
  BY <1>1 DEF ServerInv, Accounted
<1>. QED
  BY <1>5, <1>6, <1>7, <1>8 DEF ServerInv

\* Nothing moves but what no part of the invariant speaks of.
LEMMA RestKeeps ==
  ASSUME ServerInv, Others, UNCHANGED <<cur, known, session, task, opened, conns, lost>>,
         stop' = "done" => stop = "done"
  PROVE  ServerInv'
<1>1. ServerTypes'
  BY DEF ServerInv, ServerTypes, Others
<1>2. OneOwner' /\ ClosedByOne'
  BY DEF ServerInv, OneOwner, ClosedByOne
<1>3. Accounted'
  BY DEF ServerInv, Accounted
<1>. QED
  BY <1>1, <1>2, <1>3 DEF ServerInv

\* What a step of a task does with the session of a state.
McpKinds(t) ==
  /\ UNCHANGED <<cur, known, stop>> /\ Others
  /\ \E r : Moves(t, r) \/ Drops(t, r) \/ ClosesThen(t, r)

LEMMA KindsKeep ==
  ASSUME ServerInv, NEW t \in Tasks, McpKinds(t)
  PROVE  ServerInv'
BY MovesKeep, DropsKeep, ClosesKeep DEF McpKinds

\* The facts about a task that each of its steps needs.
Stands(t) ==
  /\ task[t] \in TaskRecord(opened) /\ M(t) \in Managers /\ opened \in Nat
  /\ \A m \in Managers : session[m] \in 0 .. opened
  /\ 0 \in 0 .. opened /\ 0 \in 0 .. Backoff /\ 1 \in 0 .. Backoff /\ 1 \in Managers
  /\ cur \in Managers

LEMMA TasksStand ==
  ASSUME ServerInv, NEW t \in Tasks
  PROVE  Stands(t)
<1>1. /\ session \in [Managers -> {None} \cup conns] /\ conns \subseteq 1 .. opened
      /\ opened \in Nat /\ task \in [Tasks -> TaskRecord(opened)] /\ cur \in Managers
  BY DEF ServerInv, ServerTypes
<1>2. 0 \in 0 .. opened /\ 0 \in 0 .. Backoff /\ 1 \in 0 .. Backoff /\ 1 \in Managers
  BY <1>1, McpAssumption DEF Managers
<1>3. \A c \in conns : c \in 0 .. opened
  BY <1>1
<1>4. \A m \in Managers : session[m] \in 0 .. opened
  BY <1>1, <1>2, <1>3 DEF None
<1>5. task[t] \in TaskRecord(opened) /\ M(t) \in Managers
  BY <1>1 DEF M, TaskRecord
<1>. QED
  BY <1>1, <1>2, <1>4, <1>5 DEF Stands

\* The ways in which a step ends, and what each of them is.
LEMMA EndMoves ==
  ASSUME NEW t \in Tasks, Stands(t), task[t].pc # "close", End(t),
         UNCHANGED <<session, opened, conns, lost>>
  PROVE  \E r : Moves(t, r)
<1> DEFINE r == [Idle EXCEPT !.pc = "ended"]
<1>1. r \in TaskRecord(opened)
  BY EndIsRecord DEF Stands
<1>2. r.pc # "close"
  BY DEF Idle
<1>. QED
  BY <1>1, <1>2 DEF Moves, End, Set

LEMMA AttemptCloses ==
  ASSUME NEW t \in Tasks, Stands(t), task[t].pc # "close", NEW n \in 0 .. Backoff,
         NEW again \in BOOLEAN, Attempt(t, n, again), UNCHANGED <<opened, conns, lost>>
  PROVE  \E r : ClosesThen(t, r)
<1> DEFINE r == [task[t] EXCEPT !.tries = n, !.second = again, !.then = "connect"]
<1>1. r \in TaskRecord(opened) /\ r.then = "connect"
  BY DEF Stands, TaskRecord
<1>. QED
  BY <1>1 DEF ClosesThen, Attempt

LEMMA AuthCloses ==
  ASSUME NEW t \in Tasks, Stands(t), task[t].pc # "close",
         CloseThen(t, [task[t] EXCEPT !.then = "ended"]), UNCHANGED <<opened, conns, lost>>
  PROVE  \E r : ClosesThen(t, r)
<1> DEFINE r == [task[t] EXCEPT !.then = "ended"]
<1>1. r \in TaskRecord(opened) /\ r.then = "ended"
  BY DEF Stands, TaskRecord
<1>. QED
  BY <1>1 DEF ClosesThen

LEMMA InvokeMoves ==
  ASSUME NEW t \in Tasks, Stands(t), task[t].pc # "close", Invoke(t, task[t]),
         UNCHANGED <<session, opened, conns, lost>>
  PROVE  \E r : Moves(t, r)
<1> DEFINE r == [task[t] EXCEPT !.pc = "invoke", !.conn = session[M(t)], !.tries = 0]
<1>1. r \in TaskRecord(opened) /\ r.pc # "close"
  BY DEF Stands, TaskRecord, Places
<1>. QED
  BY <1>1 DEF Moves, Invoke, Set, M

\* Those states of the server that SetStatus writes.
LEMMA StatusKeeps ==
  ASSUME NEW t \in Tasks, Stands(t),
         \/ UNCHANGED status
         \/ \E s \in {"error", "ready", "needs_auth"} : SetStatus(t, s),
         \/ UNCHANGED cooling
         \/ \E m \in Managers, b \in BOOLEAN : cooling' = [cooling EXCEPT ![m] = b],
         UNCHANGED cur
  PROVE  Others
BY DEF Others, SetStatus, Stands

\* Step by step of a task that is under way.
LEMMA StepsKeep ==
  ASSUME ServerInv, NEW t \in Tasks, Served(t) \/ Timed(t)
  PROVE  ServerInv'
<1>1. Stands(t)
  BY TasksStand
<1>2. CASE Listed(t)
  <2>1. task[t].pc # "close" /\ End(t) /\ UNCHANGED <<cur, known, stop, session, opened, conns, lost>>
    BY <1>2 DEF Listed, At, Quiet, state, Wire
  <2>2. Others
    BY <1>2 DEF Listed, Others, Quiet, state
  <2>. QED
    BY <1>1, <2>1, <2>2, EndMoves, KindsKeep DEF McpKinds
<1>3. CASE Closed(t)
  BY <1>3, ClosedKeeps
<1>4. CASE Approved(t)
  <2>1. /\ task[t].pc # "close"
        /\ UNCHANGED <<cur, known, stop, status, cooling, opened, conns, lost>>
    BY <1>4 DEF Approved, At, Quiet, Wire
  <2>2. Others
    BY <2>1 DEF Others
  <2>3. \/ End(t) /\ UNCHANGED session
        \/ Attempt(t, 1, FALSE)
        \/ Invoke(t, task[t]) /\ UNCHANGED session
    BY <1>4 DEF Approved
  <2>4. \E r : Moves(t, r) \/ ClosesThen(t, r)
    <3>1. CASE End(t) /\ UNCHANGED session
      BY <1>1, <2>1, <3>1, EndMoves
    <3>2. CASE Attempt(t, 1, FALSE)
      BY <1>1, <2>1, <3>2, AttemptCloses DEF Stands
    <3>3. CASE Invoke(t, task[t]) /\ UNCHANGED session
      BY <1>1, <2>1, <3>3, InvokeMoves
    <3>. QED
      BY <2>3, <3>1, <3>2, <3>3
  <2>. QED
    BY <2>1, <2>2, <2>4, KindsKeep DEF McpKinds
<1>5. CASE Connect(t)
  <2>1. task[t].pc = "connect" /\ UNCHANGED <<cur, known, stop>>
    BY <1>5 DEF Connect, At, Quiet
  <2>2. CASE Open(t) /\ UNCHANGED <<status, cooling>>
    BY <2>1, <2>2, OpenKeeps
  <2>3. CASE Set(t, [task[t] EXCEPT !.pc = "sleep", !.conn = None]) /\ UNCHANGED <<state, Wire>>
    <3> DEFINE r == [task[t] EXCEPT !.pc = "sleep", !.conn = None]
    <3>1. r \in TaskRecord(opened) /\ r.pc # "close"
      BY <1>1 DEF Stands, TaskRecord, Places, None
    <3>2. Moves(t, r) /\ Others
      BY <2>1, <2>3, <3>1 DEF Moves, Set, state, Wire, Others
    <3>. QED
      BY <2>1, <3>2, KindsKeep DEF McpKinds
  <2>4. CASE NeedsAuth(t) /\ UNCHANGED Wire
    <3>1. Others
      BY <1>1, <2>1, <2>4, StatusKeeps DEF NeedsAuth
    <3>2. \E r : ClosesThen(t, r)
      BY <1>1, <2>1, <2>4, AuthCloses DEF NeedsAuth, Wire
    <3>. QED
      BY <2>1, <3>1, <3>2, KindsKeep DEF McpKinds
  <2>. QED
    BY <1>5, <2>2, <2>3, <2>4 DEF Connect
<1>6. CASE Initialize(t)
  <2>1. /\ task[t].pc = "initialize"
        /\ UNCHANGED <<cur, known, stop, opened, conns, lost>>
    BY <1>6 DEF Initialize, At, Quiet, Wire
  <2>2. CASE SetStatus(t, "ready") /\ Invoke(t, task[t]) /\ UNCHANGED <<session, cooling>>
    <3>1. Others
      BY <1>1, <2>1, <2>2, StatusKeeps
    <3>2. \E r : Moves(t, r)
      BY <1>1, <2>1, <2>2, InvokeMoves
    <3>. QED
      BY <2>1, <3>1, <3>2, KindsKeep DEF McpKinds
  <2>3. CASE Set(t, [task[t] EXCEPT !.pc = "sleep", !.conn = None]) /\ UNCHANGED state
    <3> DEFINE r == [task[t] EXCEPT !.pc = "sleep", !.conn = None]
    <3>1. r \in TaskRecord(opened) /\ r.pc # "close"
      BY <1>1 DEF Stands, TaskRecord, Places, None
    <3>2. Moves(t, r) /\ Others
      BY <2>1, <2>3, <3>1 DEF Moves, Set, state, Others
    <3>. QED
      BY <2>1, <3>2, KindsKeep DEF McpKinds
  <2>4. CASE NeedsAuth(t)
    <3>1. Others
      BY <1>1, <2>1, <2>4, StatusKeeps DEF NeedsAuth
    <3>2. \E r : ClosesThen(t, r)
      BY <1>1, <2>1, <2>4, AuthCloses DEF NeedsAuth
    <3>. QED
      BY <2>1, <3>1, <3>2, KindsKeep DEF McpKinds
  <2>. QED
    BY <1>6, <2>2, <2>3, <2>4 DEF Initialize
<1>7. CASE Slept(t)
  <2>1. /\ task[t].pc = "sleep"
        /\ UNCHANGED <<cur, known, stop, status, cooling, opened, conns, lost>>
    BY <1>7 DEF Slept, At, Quiet, Wire
  <2>2. Others
    BY <2>1 DEF Others
  <2>3. CASE task[t].tries < Backoff /\ Attempt(t, task[t].tries + 1, task[t].second)
    <3>1. task[t].tries \in 0 .. Backoff /\ task[t].second \in BOOLEAN
      BY <1>1 DEF Stands, TaskRecord
    <3>2. task[t].tries + 1 \in 0 .. Backoff
      BY <2>3, <3>1, McpAssumption
    <3>3. \E r : ClosesThen(t, r)
      BY <1>1, <2>1, <2>3, <3>1, <3>2, AttemptCloses
    <3>. QED
      BY <2>1, <2>2, <3>3, KindsKeep DEF McpKinds
  <2>4. CASE End(t) /\ UNCHANGED session
    BY <1>1, <2>1, <2>2, <2>4, EndMoves, KindsKeep DEF McpKinds
  <2>. QED
    BY <1>7, <2>3, <2>4 DEF Slept
<1>8. CASE Answer(t)
  <2>1. /\ task[t].pc = "invoke"
        /\ UNCHANGED <<cur, known, stop, opened, conns, lost>>
    BY <1>8 DEF Answer, At, Quiet, Wire
  <2>2. CASE End(t) /\ UNCHANGED state
    <3>1. Others /\ UNCHANGED session
      BY <2>1, <2>2 DEF Others, state
    <3>. QED
      BY <1>1, <2>1, <2>2, <3>1, EndMoves, KindsKeep DEF McpKinds
  <2>3. CASE Attempt(t, 1, TRUE) /\ UNCHANGED <<status, cooling>>
    <3>1. Others
      BY <2>1, <2>3 DEF Others
    <3>2. \E r : ClosesThen(t, r)
      BY <1>1, <2>1, <2>3, AttemptCloses DEF Stands
    <3>. QED
      BY <2>1, <3>1, <3>2, KindsKeep DEF McpKinds
  <2>4. CASE /\ SetStatus(t, "error") /\ cooling' = [cooling EXCEPT ![M(t)] = TRUE]
             /\ CloseThen(t, [task[t] EXCEPT !.then = "ended"])
    <3>1. Others
      BY <1>1, <2>1, <2>4, StatusKeeps DEF Stands
    <3>2. \E r : ClosesThen(t, r)
      BY <1>1, <2>1, <2>4, AuthCloses
    <3>. QED
      BY <2>1, <3>1, <3>2, KindsKeep DEF McpKinds
  <2>5. CASE NeedsAuth(t)
    <3>1. Others
      BY <1>1, <2>1, <2>5, StatusKeeps DEF NeedsAuth
    <3>2. \E r : ClosesThen(t, r)
      BY <1>1, <2>1, <2>5, AuthCloses DEF NeedsAuth
    <3>. QED
      BY <2>1, <3>1, <3>2, KindsKeep DEF McpKinds
  <2>. QED
    BY <1>8, <2>2, <2>3, <2>4, <2>5 DEF Answer
<1>9. CASE Begin(t)
  <2> DEFINE r == [task[t] EXCEPT !.pc = "connect"]
  <2>1. r \in TaskRecord(opened) /\ r.pc # "close"
    BY <1>1 DEF Stands, TaskRecord, Places
  <2>2. Moves(t, r) /\ UNCHANGED <<cur, known, stop>>
    BY <1>9, <2>1 DEF Begin, Moves, At, Set, Quiet, Wire
  <2>3. Others
    BY <1>1, <1>9, <2>2, StatusKeeps DEF Begin, Stands
  <2>. QED
    BY <2>2, <2>3, KindsKeep DEF McpKinds
<1>10. CASE Replace(t)
  BY <1>10, ReplaceKeeps
<1>11. CASE ReplaceNone(t)
  <2>1. /\ task[t].pc # "close" /\ End(t)
        /\ UNCHANGED <<cur, known, stop, session, opened, conns, lost>> /\ Others
    BY <1>11 DEF ReplaceNone, At, Quiet, state, Wire, Others
  <2>. QED
    BY <1>1, <2>1, EndMoves, KindsKeep DEF McpKinds
<1>12. CASE StartOne(t)
  <2>1. task[t].pc = "connect" /\ UNCHANGED <<cur, known, stop>>
    BY <1>12 DEF StartOne, At, Quiet
  <2>2. CASE Open(t) /\ UNCHANGED <<status, cooling>>
    BY <2>1, <2>2, OpenKeeps
  <2>3. CASE /\ SetStatus(t, "error") /\ session' = [session EXCEPT ![M(t)] = None]
             /\ End(t)
             /\ lost' = IF session[M(t)] = None THEN lost ELSE lost \cup {session[M(t)]}
             /\ UNCHANGED <<cooling, opened, conns>>
    <3>1. Others
      BY <1>1, <2>1, <2>3, StatusKeeps
    <3>2. lost' = lost \cup ({session[M(t)]} \ {None})
      BY <2>3
    <3> DEFINE r == [Idle EXCEPT !.pc = "ended"]
    <3>3. r \in TaskRecord(opened) /\ r.pc # "close"
      BY <1>1, EndIsRecord DEF Stands, Idle
    <3>4. Drops(t, r)
      BY <1>1, <2>1, <2>3, <3>2, <3>3 DEF Drops, End, Set, Stands
    <3>. QED
      BY <2>1, <3>1, <3>4, KindsKeep DEF McpKinds
  <2>4. CASE NeedsAuth(t) /\ UNCHANGED Wire
    <3>1. Others
      BY <1>1, <2>1, <2>4, StatusKeeps DEF NeedsAuth
    <3>2. \E r : ClosesThen(t, r)
      BY <1>1, <2>1, <2>4, AuthCloses DEF NeedsAuth, Wire
    <3>. QED
      BY <2>1, <3>1, <3>2, KindsKeep DEF McpKinds
  <2>. QED
    BY <1>12, <2>2, <2>3, <2>4 DEF StartOne
<1>13. CASE Started(t)
  <2>1. /\ task[t].pc = "initialize" /\ UNCHANGED <<cur, known, stop, opened, conns>>
    BY <1>13 DEF Started, At, Quiet
  <2>2. CASE /\ SetStatus(t, "ready") /\ cooling' = [cooling EXCEPT ![M(t)] = FALSE]
             /\ End(t) /\ UNCHANGED <<session, lost>>
    <3>1. Others
      BY <1>1, <2>1, <2>2, StatusKeeps DEF Stands
    <3>. QED
      BY <1>1, <2>1, <2>2, <3>1, EndMoves, KindsKeep DEF McpKinds
  <2>3. CASE /\ SetStatus(t, "error") /\ session' = [session EXCEPT ![M(t)] = None]
             /\ End(t) /\ lost' = lost \cup ({session[M(t)]} \ {None}) /\ UNCHANGED cooling
    <3>1. Others
      BY <1>1, <2>1, <2>3, StatusKeeps
    <3> DEFINE r == [Idle EXCEPT !.pc = "ended"]
    <3>3. r \in TaskRecord(opened) /\ r.pc # "close"
      BY <1>1, EndIsRecord DEF Stands, Idle
    <3>4. Drops(t, r)
      BY <1>1, <2>1, <2>3, <3>3 DEF Drops, End, Set, Stands
    <3>. QED
      BY <2>1, <3>1, <3>4, KindsKeep DEF McpKinds
  <2>4. CASE NeedsAuth(t) /\ UNCHANGED lost
    <3>1. Others
      BY <1>1, <2>1, <2>4, StatusKeeps DEF NeedsAuth
    <3>2. \E r : ClosesThen(t, r)
      BY <1>1, <2>1, <2>4, AuthCloses DEF NeedsAuth
    <3>. QED
      BY <2>1, <3>1, <3>2, KindsKeep DEF McpKinds
  <2>. QED
    BY <1>13, <2>2, <2>3, <2>4 DEF Started
<1>. QED
  BY <1>2, <1>3, <1>4, <1>5, <1>6, <1>7, <1>8, <1>9, <1>10, <1>11, <1>12, <1>13 DEF Served, Timed

\* And of those that begin, are aborted, or concern all.
LEMMA ServersNext ==
  ASSUME ServerInv, [McpNext]_mcpVars
  PROVE  ServerInv'
<1>1. CASE UNCHANGED mcpVars
  BY <1>1, RestKeeps DEF mcpVars, state, Others
<1>2. ASSUME NEW t \in Tasks, Call(t)
      PROVE  ServerInv'
  <2>1. Stands(t)
    BY TasksStand
  <2>2. /\ task[t].pc # "close" /\ Others
        /\ UNCHANGED <<cur, known, stop, session, opened, conns, lost>>
    BY <1>2 DEF Call, At, Quiet, state, Wire, Others
  <2>3. End(t) \/ \E m \in Managers : Set(t, [Idle EXCEPT !.pc = "approve", !.m = m])
    <3>1. 1 .. cur \subseteq Managers
      BY <2>1 DEF Stands, Managers
    <3>. QED
      BY <1>2, <3>1 DEF Call
  <2>4. ASSUME NEW m \in Managers, Set(t, [Idle EXCEPT !.pc = "approve", !.m = m])
        PROVE  \E r : Moves(t, r)
    <3> DEFINE r == [Idle EXCEPT !.pc = "approve", !.m = m]
    <3>1. r \in TaskRecord(opened) /\ r.pc # "close"
      BY <2>1 DEF Stands, Idle, None, TaskRecord, Places
    <3>. QED
      BY <2>2, <2>4, <3>1 DEF Moves, Set
  <2>5. \E r : Moves(t, r)
    BY <2>1, <2>2, <2>3, <2>4, EndMoves
  <2>. QED
    BY <2>2, <2>5, KindsKeep DEF McpKinds
<1>3. ASSUME NEW t \in Tasks, Resources(t)
      PROVE  ServerInv'
  <2>1. Stands(t)
    BY TasksStand
  <2>2. /\ task[t].pc # "close" /\ Others
        /\ UNCHANGED <<cur, known, stop, session, opened, conns, lost>>
    BY <1>3 DEF Resources, At, Quiet, state, Wire, Others
  <2>3. \/ End(t)
        \/ \E m \in Managers : Set(t, [Idle EXCEPT !.pc = "read", !.m = m, !.conn = session[m]])
    <3>1. 1 .. cur \subseteq Managers
      BY <2>1 DEF Stands, Managers
    <3>. QED
      BY <1>3, <3>1 DEF Resources
  <2>4. ASSUME NEW m \in Managers,
               Set(t, [Idle EXCEPT !.pc = "read", !.m = m, !.conn = session[m]])
        PROVE  \E r : Moves(t, r)
    <3> DEFINE r == [Idle EXCEPT !.pc = "read", !.m = m, !.conn = session[m]]
    <3>1. r \in TaskRecord(opened) /\ r.pc # "close"
      BY <2>1 DEF Stands, Idle, None, TaskRecord, Places
    <3>. QED
      BY <2>2, <2>4, <3>1 DEF Moves, Set
  <2>5. \E r : Moves(t, r)
    BY <2>1, <2>2, <2>3, <2>4, EndMoves
  <2>. QED
    BY <2>2, <2>5, KindsKeep DEF McpKinds
<1>4. ASSUME NEW t \in Tasks, Restart(t)
      PROVE  ServerInv'
  <2>1. Stands(t)
    BY TasksStand
  <2>0. PICK auth \in BOOLEAN :
          CloseThen(t, [Idle EXCEPT !.m = cur, !.then = "begin", !.auth = auth])
    BY <1>4 DEF Restart
  <2> DEFINE r == [Idle EXCEPT !.m = cur, !.then = "begin", !.auth = auth]
  <2>2. r \in TaskRecord(opened) /\ r.then = "begin"
    BY <2>1 DEF Stands, Idle, None, TaskRecord, Places
  <2>3. ClosesThen(t, r) /\ Others /\ UNCHANGED <<cur, known, stop>>
    BY <1>4, <2>0, <2>2 DEF Restart, ClosesThen, At, Quiet, Wire, Others
  <2>. QED
    BY <2>3, KindsKeep DEF McpKinds
<1>5. ASSUME NEW t \in Tasks, Reload(t)
      PROVE  ServerInv'
  <2>1. Stands(t)
    BY TasksStand
  <2> DEFINE r == [Idle EXCEPT !.m = cur, !.then = "cleared"]
  <2>2. r \in TaskRecord(opened) /\ r.then = "cleared"
    BY <2>1 DEF Stands, Idle, None, TaskRecord, Places
  <2>3. ClosesThen(t, r) /\ UNCHANGED <<cur, known, stop, status>>
    BY <1>5, <2>2 DEF Reload, ClosesThen, At, Quiet, Wire
  <2>4. Others
    BY <1>5, <2>1, <2>3, StatusKeeps DEF Reload, Stands
  <2>. QED
    BY <2>3, <2>4, KindsKeep DEF McpKinds
<1>6. ASSUME NEW m \in Managers, Cooled(m)
      PROVE  ServerInv'
  <2>1. UNCHANGED <<cur, known, stop, status, session, task, opened, conns, lost>>
    BY <1>6 DEF Cooled, Quiet, Wire
  <2>2. Others
    BY <1>6, <2>1 DEF Cooled, Others
  <2>. QED
    BY <2>1, <2>2, RestKeeps
<1>7. CASE Shutdown
  BY <1>7, RestKeeps DEF Shutdown, state, Wire, Others
<1>. QED
  BY <1>1, <1>2, <1>3, <1>4, <1>5, <1>6, <1>7, StepsKeep, CancelKeeps, AcloseKeeps DEF McpNext

LEMMA ServersStart ==
  ASSUME McpInit
  PROVE  ServerInv
<1>1. opened \in {0, 1} /\ conns = 1 .. opened
  BY DEF McpInit
<1>2. ServerTypes
  <2>1. opened \in Nat /\ (opened = 0 => conns = {}) /\ (opened = 1 => opened \in conns)
    BY <1>1
  <2>2. Idle \in TaskRecord(opened)
    <3>1. 0 \in 0 .. opened /\ 0 \in 0 .. Backoff /\ 1 \in Managers
      BY <2>1, McpAssumption DEF Managers
    <3>. QED
      BY <3>1 DEF Idle, None, TaskRecord, Places
  <2>3. session \in [Managers -> {None} \cup conns]
    BY <1>1, <2>1 DEF McpInit, None
  <2>4. status \in [Managers -> {"error", "ready", "needs_auth"}]
    BY DEF McpInit
  <2>5. cur \in Managers /\ known \subseteq Managers /\ cooling \in [Managers -> BOOLEAN]
    BY DEF McpInit, Managers
  <2>6. task \in [Tasks -> TaskRecord(opened)]
    BY <2>2 DEF McpInit
  <2>. QED
    BY <1>1, <2>1, <2>3, <2>4, <2>5, <2>6 DEF ServerTypes, McpInit
<1>3. OneOwner
  BY DEF McpInit, OneOwner, Managers
<1>4. ClosedByOne
  BY DEF McpInit, ClosedByOne, Idle
<1>5. Accounted
  <2>1. ASSUME NEW c \in conns
        PROVE  stop # "done" /\ \E m \in known : session[m] = c
    <3>1. opened = 1 /\ c = 1
      BY <1>1
    <3>2. 1 \in known /\ 1 \in Managers
      BY DEF McpInit, Managers
    <3>3. session[1] = opened
      BY <3>2 DEF McpInit
    <3>. QED
      BY <3>1, <3>2, <3>3 DEF McpInit
  <2>. QED
    BY <2>1 DEF Accounted
<1>. QED
  BY <1>2, <1>3, <1>4, <1>5 DEF ServerInv

LEMMA ServersShow ==
  ASSUME ServerInv
  PROVE  ConnectionsKept
<1>1. McpTypeOK
  BY DEF ServerInv, ServerTypes, McpTypeOK, TaskRecord
<1>2. ClosedAtStop
  BY DEF ServerInv, Accounted, ClosedAtStop
<1>. QED
  BY <1>1, <1>2 DEF ConnectionsKept

\* The inductive invariant holds, whatever calls, reconnects, restarts, a
\* reload, aborts and the shutdown do to the session of a server in between.
THEOREM ServersInvariance == McpSpec => []ServerInv
<1>1. McpInit => ServerInv
  BY ServersStart
<1>2. ServerInv /\ [McpNext]_mcpVars => ServerInv'
  BY ServersNext
<1>. QED
  BY <1>1, <1>2, PTL DEF McpSpec

\* A session in a state is open, and once shutdown's aclose is through every
\* connection left is one the manager lost track of or is being closed.
THEOREM ConnectionsAreKept == McpSpec => []ConnectionsKept
BY ServersInvariance, ServersShow, PTL
=============================================================================
