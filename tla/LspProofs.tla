------------------------------- MODULE LspProofs -------------------------------
(***************************************************************************)
(* Proofs about the language server and about the edits of texts: whatever *)
(* the threads, the disk and the shutdown do, the server sees the document *)
(* opened once and changed without a gap, the engine's books say what it   *)
(* will have read, and no server is left behind; and why patches and the   *)
(* edits of a rename are applied from the bottom up: what is replaced below *)
(* a place moves nothing above it.                                         *)
(***************************************************************************)
EXTENDS Lsp, TextEdits, FiniteSetTheorems, SequenceTheorems, TLAPS

-----------------------------------------------------------------------------
(* Edits of texts.                                                         *)


\* r is s with the n elements after at replaced by u, and nothing else.
Replaces(r, s, at, n, u) ==
  /\ Len(r) = Len(s) - n + Len(u)
  /\ \A i \in 1 .. at : r[i] = s[i]
  /\ \A i \in 1 .. Len(u) : r[at + i] = u[i]
  /\ \A i \in at + n + 1 .. Len(s) : r[i - n + Len(u)] = s[i]

\* A splice replaces its range and keeps what is before and after it.
LEMMA SpliceReplaces ==
  ASSUME NEW S, NEW s \in Seq(S), NEW u \in Seq(S), NEW at \in Nat, NEW n \in Nat,
         at + n <= Len(s)
  PROVE  /\ Splice(s, at, n, u) \in Seq(S)
         /\ Replaces(Splice(s, at, n, u), s, at, n, u)
<1> DEFINE head == SubSeq(s, 1, at)
           tail == SubSeq(s, at + n + 1, Len(s))
<1>1. head \in Seq(S) /\ Len(head) = at /\ \A i \in 1 .. at : head[i] = s[i]
  OBVIOUS
<1>2. /\ tail \in Seq(S) /\ Len(tail) = Len(s) - at - n
      /\ \A i \in 1 .. Len(s) - at - n : tail[i] = s[at + n + i]
  OBVIOUS
<1> HIDE DEF head, tail
<1>3. ASSUME NEW h \in Seq(S), NEW t \in Seq(S)
      PROVE  /\ (h \o u) \o t \in Seq(S)
             /\ Len((h \o u) \o t) = Len(h) + Len(u) + Len(t)
             /\ \A i \in 1 .. Len(h) : ((h \o u) \o t)[i] = h[i]
             /\ \A i \in 1 .. Len(u) : ((h \o u) \o t)[Len(h) + i] = u[i]
             /\ \A i \in 1 .. Len(t) : ((h \o u) \o t)[Len(h) + Len(u) + i] = t[i]
  <2>1. /\ h \o u \in Seq(S) /\ Len(h \o u) = Len(h) + Len(u)
        /\ \A i \in 1 .. Len(h) : (h \o u)[i] = h[i]
        /\ \A i \in 1 .. Len(u) : (h \o u)[Len(h) + i] = u[i]
    OBVIOUS
  <2>2. ASSUME NEW w \in Seq(S)
        PROVE  /\ w \o t \in Seq(S) /\ Len(w \o t) = Len(w) + Len(t)
               /\ \A i \in 1 .. Len(w) : (w \o t)[i] = w[i]
               /\ \A i \in 1 .. Len(t) : (w \o t)[Len(w) + i] = t[i]
    OBVIOUS
  <2>3. /\ (h \o u) \o t \in Seq(S) /\ Len((h \o u) \o t) = Len(h \o u) + Len(t)
        /\ \A i \in 1 .. Len(h \o u) : ((h \o u) \o t)[i] = (h \o u)[i]
        /\ \A i \in 1 .. Len(t) : ((h \o u) \o t)[Len(h \o u) + i] = t[i]
    BY <2>1, <2>2
  <2>4. \A i \in 1 .. Len(u) : Len(h) + i \in 1 .. Len(h \o u)
    BY <2>1
  <2> QED
    BY <2>1, <2>3, <2>4
<1> DEFINE all == (head \o u) \o tail
<1>4. head \in Seq(S) /\ tail \in Seq(S)
  BY <1>1, <1>2
<1>5. /\ all \in Seq(S)
      /\ Len(all) = Len(head) + Len(u) + Len(tail)
      /\ \A i \in 1 .. Len(head) : all[i] = head[i]
      /\ \A i \in 1 .. Len(u) : all[Len(head) + i] = u[i]
      /\ \A i \in 1 .. Len(tail) : all[Len(head) + Len(u) + i] = tail[i]
  BY <1>3, <1>4, Zenon
<1> HIDE DEF all
<1>6. /\ all \in Seq(S) /\ Len(all) = Len(s) - n + Len(u)
      /\ \A i \in 1 .. at : all[i] = s[i]
      /\ \A i \in 1 .. Len(u) : all[at + i] = u[i]
      /\ \A i \in 1 .. Len(s) - at - n : all[at + Len(u) + i] = tail[i]
  BY <1>1, <1>2, <1>5
<1>7. Splice(s, at, n, u) = all
  BY DEF Splice, head, tail, all
<1>8. ASSUME NEW i \in at + n + 1 .. Len(s)
      PROVE  all[i - n + Len(u)] = s[i]
  <2>1. i - at - n \in 1 .. Len(s) - at - n
    OBVIOUS
  <2>2. i - n + Len(u) = at + Len(u) + (i - at - n) /\ i = at + n + (i - at - n)
    OBVIOUS
  <2> QED
    BY ZenonT(40), <1>2, <1>6, <2>1, <2>2
<1> QED
  BY <1>6, <1>7, <1>8 DEF Replaces

\* Two hunks whose ranges do not overlap, located on the original and applied
\* the lower first, replace exactly the lines they were located at: what is
\* before, between and after them stays, and both new texts are in their places
\* (hunks_to_text, apply_text_edits).
THEOREM BottomUpIsExact ==
  ASSUME NEW S, NEW s \in Seq(S), NEW u \in Seq(S), NEW v \in Seq(S),
         NEW a \in Nat, NEW n \in Nat, NEW b \in Nat, NEW m \in Nat,
         a + n <= b, b + m <= Len(s)
  PROVE  LET after == Splice(Splice(s, b, m, v), a, n, u)
         IN  /\ Len(after) = Len(s) - n - m + Len(u) + Len(v)
             /\ \A i \in 1 .. a : after[i] = s[i]
             /\ \A i \in 1 .. Len(u) : after[a + i] = u[i]
             /\ \A i \in a + n + 1 .. b : after[i - n + Len(u)] = s[i]
             /\ \A i \in 1 .. Len(v) : after[b + i - n + Len(u)] = v[i]
             /\ \A i \in b + m + 1 .. Len(s) :
                  after[i - n - m + Len(u) + Len(v)] = s[i]
<1> DEFINE low == Splice(s, b, m, v)
           after == Splice(low, a, n, u)
<1>1. low \in Seq(S) /\ Replaces(low, s, b, m, v)
  BY SpliceReplaces
<1> HIDE DEF low
<1>2. Len(low) = Len(s) - m + Len(v) /\ a + n <= Len(low)
  BY <1>1 DEF Replaces
<1>3. Replaces(after, low, a, n, u)
  BY <1>1, <1>2, SpliceReplaces
<1> HIDE DEF after
<1>4. ASSUME NEW i \in a + n + 1 .. b
      PROVE  after[i - n + Len(u)] = s[i]
  <2>1. i \in a + n + 1 .. Len(low) /\ i \in 1 .. b
    BY <1>2
  <2> QED
    BY <1>1, <1>3, <2>1 DEF Replaces
<1>5. ASSUME NEW i \in 1 .. Len(v)
      PROVE  after[b + i - n + Len(u)] = v[i]
  <2> DEFINE j == b + i
  <2>1. j \in a + n + 1 .. Len(low) /\ low[j] = v[i]
    BY <1>1, <1>2 DEF Replaces
  <2> HIDE DEF j
  <2>2. after[j - n + Len(u)] = low[j]
    BY <1>3, <2>1 DEF Replaces
  <2> QED
    BY <2>1, <2>2 DEF j
<1>6. ASSUME NEW i \in b + m + 1 .. Len(s)
      PROVE  after[i - n - m + Len(u) + Len(v)] = s[i]
  <2> DEFINE j == i - m + Len(v)
  <2>1. j \in a + n + 1 .. Len(low) /\ low[j] = s[i]
    BY <1>1, <1>2 DEF Replaces
  <2>2. j - n + Len(u) = i - n - m + Len(u) + Len(v)
    OBVIOUS
  <2> HIDE DEF j
  <2>3. after[j - n + Len(u)] = low[j]
    BY <1>3, <2>1 DEF Replaces
  <2> QED
    BY <2>1, <2>2, <2>3
<1>7. /\ Len(after) = Len(s) - n - m + Len(u) + Len(v)
      /\ \A i \in 1 .. Len(u) : after[a + i] = u[i]
  BY <1>2, <1>3 DEF Replaces
<1>8. ASSUME NEW i \in 1 .. a
      PROVE  after[i] = s[i]
  <2>1. i \in 1 .. b
    OBVIOUS
  <2> QED
    BY <1>1, <1>3, <2>1 DEF Replaces
<1> QED
  BY <1>4, <1>5, <1>6, <1>7, <1>8 DEF low, after

-----------------------------------------------------------------------------
(* The inductive invariant.                                                *)

Contents == None .. MaxText
Ops == {"none", "warm", "diagnose", "ask", "edit"}
Sends == {"send open", "send change"}
Booking == {"book open", "book change"}
Pcs == Holding \cup {"idle", "open", "check", "cached", "change", "sync", "opened",
                     "wait", "request", "answer", "ended"}
Locals == [op : Ops, pc : Pcs, then : Sends \cup {"number", "idle"}, text : Contents]
Messages == [what : {"open", "change", "ask"}, version : Nat, text : Contents, by : Threads]
Documents == [version : Nat, text : Contents, sane : BOOLEAN]

\* What TypeOK leaves out: the messages, the locals, who may hold a lock.
Typed ==
  /\ TypeOK
  /\ thread \in [Threads -> Locals]
  /\ inbox \in Seq(Messages) /\ reports \in Seq(Contents) /\ doc \in Documents
  /\ docLock \in Threads \cup {Free} /\ startLock \in Threads \cup {Free}
  /\ shutdown \in {"no", "closing", "stopping", "done"}

\* What the thread that has the document lock is about to do.
Stage == IF docLock = Free THEN "free" ELSE thread[docLock].pc

\* A server is started once, before anything was sent, and none is started
\* after shutdown_all has begun.
LifeKept ==
  /\ closed <=> shutdown # "no"
  /\ startLock # Free <=> server = "starting"
  /\ server = "starting" => ~known
  /\ shutdown = "stopping" => server # "starting"
  /\ server = "up" => known \/ shutdown = "stopping"
  /\ shutdown \in {"stopping", "done"} => ~known
  /\ ~known /\ ~closed => /\ version = 0 /\ doc.version = 0 /\ inbox = <<>>
                          /\ server \in {"off", "starting", "stopped"}

\* What the thread that has the lock found in the books is still there, but
\* for what shutdown_all takes out.
BooksKept ==
  /\ IF opened THEN version >= 1 ELSE version = 0 \/ closed
  /\ Stage \in {"client", "initialize"} =>
       \/ thread[docLock].then \in Sends /\ (version = 0 \/ closed)
       \/ thread[docLock].then = "number" /\ version >= 1
  /\ Stage \in Sends \cup Booking => version = 0
  /\ Stage = "number" => version >= 1
  /\ Stage = "notify" => version >= 2 /\ (opened => sent = thread[docLock].text)
  /\ Stage \in Sends \cup Booking \cup {"number", "notify"} => known \/ closed

TextsOf(q) == {i \in DOMAIN q : q[i].what # "ask"}

\* The messages on the way number the texts from the one the server holds on.
Chain(q, d) ==
  /\ \A i \in TextsOf(q) :
       /\ q[i].what = "open" <=> q[i].version = 1
       /\ (\A j \in TextsOf(q) : i <= j) => q[i].version = d.version + 1
  /\ \A i, j \in TextsOf(q) :
       i < j /\ (\A k \in TextsOf(q) : k <= i \/ j <= k) => q[j].version = q[i].version + 1

\* The last of them, or the document if there is none, has number v and text x.
Ends(q, d, v, x) ==
  IF TextsOf(q) = {} THEN d.version = v /\ d.text = x
  ELSE \E i \in TextsOf(q) : /\ \A j \in TextsOf(q) : j <= i
                             /\ q[i].version = v /\ q[i].text = x

\* What the messages end with, as the thread that has the lock has it.
Due(x) ==
  IF Stage \in Booking THEN Ends(inbox, doc, 1, x) /\ thread[docLock].text = x
  ELSE IF Stage = "notify" THEN Ends(inbox, doc, version - 1, x)
  ELSE Ends(inbox, doc, version, x) /\ (opened => sent = x)

\* The number and the text that the server will have come to.
WireKept ==
  /\ doc.sane
  /\ server = "up" => Chain(inbox, doc) /\ \E x \in Contents : Due(x)

IInv == Typed /\ LifeKept /\ BooksKept /\ WireKept

-----------------------------------------------------------------------------
(* The messages on the way to the server.                                  *)

\* r is the n messages of q and m behind them.
Appended(q, m, r, n) ==
  /\ r = Append(q, m)
  /\ DOMAIN q = 1 .. n /\ DOMAIN r = 1 .. n + 1
  /\ r[n + 1] = m /\ \A i \in 1 .. n : r[i] = q[i] /\ r[i] \in Messages

\* The messages of a queue with one more at its end.
LEMMA AppendedMessages ==
  \A q \in Seq(Messages), m \in Messages :
    \E r \in Seq(Messages), n \in Nat : Appended(q, m, r, n)
<1> TAKE q \in Seq(Messages), m \in Messages
<1> DEFINE s == Append(q, m)
<1>1. /\ s \in Seq(Messages) /\ Len(s) = Len(q) + 1
      /\ \A i \in 1 .. Len(q) : s[i] = q[i]
      /\ s[Len(q) + 1] = m
  BY AppendProperties
<1>2. Len(q) \in Nat /\ DOMAIN q = 1 .. Len(q)
  BY LenProperties
<1>3. \A i \in 1 .. Len(q) : q[i] \in Messages
  BY ElementOfSeq
<1>4. s = Append(q, m)
  OBVIOUS
<1> HIDE DEF s
<1>5. DOMAIN s = 1 .. Len(q) + 1
  BY <1>1, LenProperties
<1>6. Appended(q, m, s, Len(q))
  BY <1>1, <1>2, <1>3, <1>4, <1>5 DEF Appended
<1>. QED
  BY <1>1, <1>2, <1>6

\* A message that carries the next number goes on with the chain.
LEMMA ChainGrows ==
  ASSUME NEW q \in Seq(Messages), NEW d \in Documents, NEW m \in Messages,
         NEW v \in Nat, NEW x, Chain(q, d), Ends(q, d, v, x),
         m.what # "ask", m.version = v + 1, m.what = "open" <=> m.version = 1
  PROVE  Chain(Append(q, m), d) /\ Ends(Append(q, m), d, m.version, m.text)
<1>0. PICK r \in Seq(Messages), n \in Nat : Appended(q, m, r, n)
  BY AppendedMessages
<1>1. /\ r = Append(q, m)
      /\ DOMAIN q = 1 .. n /\ DOMAIN r = 1 .. n + 1
      /\ r[n + 1] = m /\ \A i \in 1 .. n : r[i] = q[i] /\ r[i] \in Messages
  BY <1>0 DEF Appended
<1> DEFINE T == TextsOf(q)
<1>2. T \subseteq 1 .. n
  BY <1>1 DEF TextsOf
<1>3. TextsOf(r) = T \cup {n + 1}
  BY <1>1 DEF TextsOf
<1>4. \A i \in T : r[i] = q[i] /\ i \in Nat /\ i < n + 1 /\ r[i].version \in Nat
  BY <1>1, <1>2 DEF Messages
<1>5. /\ \A i \in T : q[i].what = "open" <=> q[i].version = 1
      /\ \A i \in T : (\A j \in T : i <= j) => q[i].version = d.version + 1
      /\ \A i, j \in T :
           i < j /\ (\A k \in T : k <= i \/ j <= k) => q[j].version = q[i].version + 1
  BY DEF Chain
<1>6. \/ T = {} /\ d.version = v
      \/ \E i \in T : (\A j \in T : j <= i) /\ q[i].version = v
  BY DEF Ends
<1> HIDE DEF T
<1>7. Ends(r, d, m.version, m.text)
  <2>1. n + 1 \in TextsOf(r) /\ \A j \in TextsOf(r) : j <= n + 1
    BY <1>3, <1>4
  <2>. QED
    BY <1>1, <2>1 DEF Ends
<1>8. \A i \in TextsOf(r) : r[i].what = "open" <=> r[i].version = 1
  BY <1>1, <1>3, <1>4, <1>5
<1>9. ASSUME NEW i \in TextsOf(r), \A j \in TextsOf(r) : i <= j
      PROVE  r[i].version = d.version + 1
  <2>1. CASE i = n + 1
    <3>1. T = {}
      BY <1>3, <1>4, <1>9, <2>1
    <3>. QED
      BY <1>1, <1>6, <2>1, <3>1
  <2>2. CASE i \in T
    BY <1>3, <1>4, <1>5, <1>9, <2>2
  <2>. QED
    BY <1>3, <2>1, <2>2
<1>10. ASSUME NEW i \in TextsOf(r), NEW j \in TextsOf(r),
              i < j, \A k \in TextsOf(r) : k <= i \/ j <= k
       PROVE  r[j].version = r[i].version + 1
  <2>1. i \in T
    BY <1>3, <1>4, <1>10
  <2>2. CASE j \in T
    BY <1>3, <1>4, <1>5, <1>10, <2>1, <2>2
  <2>3. CASE j = n + 1
    <3>1. \A k \in T : k <= i
      BY <1>3, <1>4, <1>10, <2>3
    <3>2. PICK l \in T : (\A k \in T : k <= l) /\ q[l].version = v
      BY <1>6, <2>1
    <3>3. l = i
      BY <1>4, <2>1, <3>1, <3>2
    <3>. QED
      BY <1>1, <1>4, <2>1, <2>3, <3>2, <3>3
  <2>. QED
    BY <1>3, <2>2, <2>3
<1>11. Chain(r, d)
  BY <1>8, <1>9, <1>10 DEF Chain
<1>. QED
  BY <1>1, <1>7, <1>11

\* A question is no part of the chain.
LEMMA QuestionsPass ==
  ASSUME NEW q \in Seq(Messages), NEW d \in Documents, NEW m \in Messages,
         Chain(q, d), m.what = "ask"
  PROVE  /\ Chain(Append(q, m), d)
         /\ \A v, x : Ends(q, d, v, x) => Ends(Append(q, m), d, v, x)
<1>0. PICK r \in Seq(Messages), n \in Nat : Appended(q, m, r, n)
  BY AppendedMessages
<1>1. /\ r = Append(q, m)
      /\ DOMAIN q = 1 .. n /\ DOMAIN r = 1 .. n + 1
      /\ r[n + 1] = m /\ \A i \in 1 .. n : r[i] = q[i] /\ r[i] \in Messages
  BY <1>0 DEF Appended
<1>2. TextsOf(r) = TextsOf(q) /\ \A i \in TextsOf(q) : r[i] = q[i]
  BY <1>1 DEF TextsOf
<1>3. Chain(r, d)
  BY <1>2 DEF Chain
<1>4. \A v, x : Ends(q, d, v, x) => Ends(r, d, v, x)
  BY <1>2 DEF Ends
<1>. QED
  BY <1>1, <1>3, <1>4


\* q is m and the n messages of r behind it.
Shifted(q, m, r, n) ==
  /\ m = Head(q) /\ r = Tail(q)
  /\ DOMAIN q = 1 .. n + 1 /\ DOMAIN r = 1 .. n
  /\ q[1] = m /\ m \in Messages
  /\ \A i \in 1 .. n : r[i] = q[i + 1] /\ r[i] \in Messages

\* The messages of a queue without the first.
LEMMA ShiftedMessages ==
  \A q \in Seq(Messages) : q # <<>> =>
    \E m \in Messages, r \in Seq(Messages), n \in Nat : Shifted(q, m, r, n)
<1> TAKE q \in Seq(Messages)
<1> HAVE q # <<>>
<1> DEFINE m == Head(q)
           r == Tail(q)
<1>1. /\ m \in Messages /\ r \in Seq(Messages) /\ Len(r) = Len(q) - 1
      /\ \A i \in 1 .. Len(r) : r[i] = q[i + 1]
  BY HeadTailProperties
<1>2. /\ Len(q) \in Nat /\ DOMAIN q = 1 .. Len(q)
      /\ Len(r) \in Nat /\ DOMAIN r = 1 .. Len(r)
  BY <1>1, LenProperties
<1>3. m = q[1]
  OBVIOUS
<1>4. \A i \in 1 .. Len(r) : r[i] \in Messages
  BY <1>1, ElementOfSeq
<1>5. Shifted(q, m, r, Len(r))
  BY <1>1, <1>2, <1>3, <1>4 DEF Shifted
<1>. QED
  BY <1>1, <1>2, <1>5

\* A question that is read leaves the chain and its end as they were.
LEMMA ReadQuestion ==
  ASSUME NEW q \in Seq(Messages), NEW d \in Documents,
         q # <<>>, Head(q).what = "ask", Chain(q, d)
  PROVE  /\ Chain(Tail(q), d)
         /\ \A v, x : Ends(q, d, v, x) => Ends(Tail(q), d, v, x)
<1>0. PICK m \in Messages, r \in Seq(Messages), n \in Nat : Shifted(q, m, r, n)
  BY ShiftedMessages
<1>1. /\ m = Head(q) /\ r = Tail(q)
      /\ DOMAIN q = 1 .. n + 1 /\ DOMAIN r = 1 .. n
      /\ q[1] = m /\ \A i \in 1 .. n : r[i] = q[i + 1]
  BY <1>0 DEF Shifted
<1> DEFINE T == TextsOf(q)
           U == TextsOf(r)
<1>2. /\ \A i \in T : i \in Nat /\ i - 1 \in U /\ r[i - 1] = q[i]
      /\ \A i \in U : i \in Nat /\ i + 1 \in T /\ q[i + 1] = r[i]
  BY <1>1 DEF TextsOf
<1>3. /\ \A i \in T : q[i].what = "open" <=> q[i].version = 1
      /\ \A i \in T : (\A j \in T : i <= j) => q[i].version = d.version + 1
      /\ \A i, j \in T :
           i < j /\ (\A k \in T : k <= i \/ j <= k) => q[j].version = q[i].version + 1
  BY DEF Chain
<1> HIDE DEF T, U
<1>4. \A i \in U : r[i].what = "open" <=> r[i].version = 1
  BY <1>2, <1>3
<1>5. ASSUME NEW i \in U, \A j \in U : i <= j
      PROVE  r[i].version = d.version + 1
  <2>1. \A j \in T : i + 1 <= j
    BY <1>2, <1>5
  <2>. QED
    BY <1>2, <1>3, <2>1
<1>6. ASSUME NEW i \in U, NEW j \in U, i < j, \A k \in U : k <= i \/ j <= k
      PROVE  r[j].version = r[i].version + 1
  <2>1. ASSUME NEW k \in T
        PROVE  k <= i + 1 \/ j + 1 <= k
    <3>1. k \in Nat /\ i \in Nat /\ j \in Nat /\ (k - 1 <= i \/ j <= k - 1)
      BY <1>2, <1>6
    <3>. QED
      BY <3>1
  <2>2. i + 1 \in T /\ j + 1 \in T /\ i + 1 < j + 1
    BY <1>2, <1>6
  <2>3. q[j + 1].version = q[i + 1].version + 1
    BY <1>3, <2>1, <2>2
  <2>. QED
    BY <1>2, <2>3
<1>7. Chain(r, d)
  BY <1>4, <1>5, <1>6 DEF Chain, U
<1>8. ASSUME NEW v, NEW x, Ends(q, d, v, x)
      PROVE  Ends(r, d, v, x)
  <2>1. CASE T = {}
    <3>1. U = {}
      BY <1>2, <2>1
    <3>. QED
      BY <1>8, <2>1, <3>1 DEF Ends, T, U
  <2>2. CASE T # {}
    <3>1. PICK i \in T : (\A j \in T : j <= i) /\ q[i].version = v /\ q[i].text = x
      BY <1>8, <2>2 DEF Ends, T
    <3>2. i - 1 \in U /\ \A j \in U : j <= i - 1
      BY <1>2, <3>1
    <3>3. r[i - 1].version = v /\ r[i - 1].text = x
      BY <1>2, <3>1
    <3>. QED
      BY <3>2, <3>3 DEF Ends, U
  <2>. QED
    BY <2>1, <2>2
<1>. QED
  BY <1>1, <1>7, <1>8

\* A text that is read is the next of the chain, which goes on from it.
LEMMA ReadText ==
  ASSUME NEW q \in Seq(Messages), NEW d \in Documents, NEW e \in Documents,
         q # <<>>, Head(q).what # "ask", Chain(q, d),
         e.version = Head(q).version, e.text = Head(q).text
  PROVE  /\ Head(q).version = d.version + 1
         /\ Head(q).what = "open" <=> Head(q).version = 1
         /\ Chain(Tail(q), e)
         /\ \A v, x : Ends(q, d, v, x) => Ends(Tail(q), e, v, x)
<1>0. PICK m \in Messages, r \in Seq(Messages), n \in Nat : Shifted(q, m, r, n)
  BY ShiftedMessages
<1>1. /\ m = Head(q) /\ r = Tail(q)
      /\ DOMAIN q = 1 .. n + 1 /\ DOMAIN r = 1 .. n
      /\ q[1] = m /\ \A i \in 1 .. n : r[i] = q[i + 1]
  BY <1>0 DEF Shifted
<1> DEFINE T == TextsOf(q)
           U == TextsOf(r)
<1>2. /\ 1 \in T
      /\ \A i \in T : i \in Nat /\ 1 <= i /\ (i = 1 \/ (i - 1 \in U /\ r[i - 1] = q[i]))
      /\ \A i \in U : i \in Nat /\ 1 <= i /\ i + 1 \in T /\ q[i + 1] = r[i]
  BY <1>1 DEF TextsOf
<1>3. /\ \A i \in T : q[i].what = "open" <=> q[i].version = 1
      /\ \A i \in T : (\A j \in T : i <= j) => q[i].version = d.version + 1
      /\ \A i, j \in T :
           i < j /\ (\A k \in T : k <= i \/ j <= k) => q[j].version = q[i].version + 1
  BY DEF Chain
<1> HIDE DEF T, U
<1>4. /\ m.version = d.version + 1
      /\ m.what = "open" <=> m.version = 1
      /\ e.version = q[1].version /\ e.text = q[1].text
  BY <1>1, <1>2, <1>3
<1>5. \A i \in U : r[i].what = "open" <=> r[i].version = 1
  BY <1>2, <1>3
<1>6. ASSUME NEW i \in U, NEW j \in U, i < j, \A k \in U : k <= i \/ j <= k
      PROVE  r[j].version = r[i].version + 1
  <2>1. ASSUME NEW k \in T
        PROVE  k <= i + 1 \/ j + 1 <= k
    <3>1. k \in Nat /\ i \in Nat /\ j \in Nat /\ (k = 1 \/ k - 1 <= i \/ j <= k - 1)
      BY <1>2, <1>6
    <3>2. 1 <= i
      BY <1>2
    <3>. QED
      BY <3>1, <3>2
  <2>2. i + 1 \in T /\ j + 1 \in T /\ i + 1 < j + 1
    BY <1>2, <1>6
  <2>3. q[j + 1].version = q[i + 1].version + 1
    BY <1>3, <2>1, <2>2
  <2>. QED
    BY <1>2, <2>3
<1>7. ASSUME NEW i \in U, \A j \in U : i <= j
      PROVE  r[i].version = e.version + 1
  <2>1. ASSUME NEW k \in T
        PROVE  k <= 1 \/ i + 1 <= k
    <3>1. k \in Nat /\ i \in Nat /\ (k = 1 \/ i <= k - 1)
      BY <1>2, <1>7
    <3>. QED
      BY <3>1
  <2>2. i + 1 \in T /\ 1 < i + 1
    BY <1>2
  <2>3. q[i + 1].version = q[1].version + 1
    BY <1>2, <1>3, <2>1, <2>2
  <2>. QED
    BY <1>2, <1>4, <2>3
<1>8. Chain(r, e)
  BY <1>5, <1>6, <1>7 DEF Chain, U
<1>9. ASSUME NEW v, NEW x, Ends(q, d, v, x)
      PROVE  Ends(r, e, v, x)
  <2>1. PICK i \in T : (\A j \in T : j <= i) /\ q[i].version = v /\ q[i].text = x
    BY <1>2, <1>9 DEF Ends, T
  <2>2. CASE U = {}
    <3>1. i = 1
      BY <1>2, <2>2
    <3>. QED
      BY <1>4, <2>1, <2>2, <3>1 DEF Ends, U
  <2>3. CASE U # {}
    <3>1. PICK j \in U : TRUE
      BY <2>3
    <3>2. i # 1
      BY <1>2, <2>1, <3>1
    <3>3. i - 1 \in U /\ \A k \in U : k <= i - 1
      BY <1>2, <2>1, <3>2
    <3>4. r[i - 1].version = v /\ r[i - 1].text = x
      BY <1>2, <2>1, <3>2
    <3>. QED
      BY <3>3, <3>4 DEF Ends, U
  <2>. QED
    BY <2>2, <2>3
<1>. QED
  BY <1>1, <1>4, <1>8, <1>9

\* The text a queue ends with is the one the server will have read.
LEMMA EndIsFinal ==
  ASSUME NEW v, NEW x, inbox \in Seq(Messages), Ends(inbox, doc, v, x)
  PROVE  Final = x
<1>1. Texts = TextsOf(inbox) /\ Texts \subseteq Nat
  <2>1. DOMAIN inbox = 1 .. Len(inbox) /\ Len(inbox) \in Nat
    BY LenProperties
  <2>. QED
    BY <2>1 DEF Texts, TextsOf
<1>2. CASE Texts = {}
  BY <1>1, <1>2 DEF Ends, Final
<1>3. CASE Texts # {}
  <2>1. PICK i \in Texts : (\A j \in Texts : j <= i) /\ inbox[i].text = x
    BY <1>1, <1>3 DEF Ends
  <2> DEFINE l == CHOOSE k \in Texts : \A j \in Texts : j <= k
  <2>2. l \in Texts /\ \A j \in Texts : j <= l
    BY <2>1
  <2> HIDE DEF l
  <2>3. l = i
    BY <1>1, <2>1, <2>2
  <2>4. Final = inbox[l].text
    BY <1>3 DEF Final, l
  <2>. QED
    BY <2>1, <2>3, <2>4
<1>. QED
  BY <1>2, <1>3

-----------------------------------------------------------------------------
(* The types.                                                              *)

\* What a step writes into the locals of one thread stays with that thread.
LEMMA OneThread ==
  ASSUME NEW t \in Threads, NEW r \in Locals, thread \in [Threads -> Locals],
         thread' = [thread EXCEPT ![t] = r]
  PROVE  /\ thread' \in [Threads -> Locals] /\ thread'[t] = r
         /\ \A u \in Threads : u # t => thread'[u] = thread[u]
  OBVIOUS

\* The messages at first.
LEMMA InboxAtFirst == Init => inbox \in Seq(Messages)
<1> SUFFICES ASSUME Init PROVE inbox \in Seq(Messages)
  OBVIOUS
<1>1. WarmOpen \in Messages
  BY LspAssumption DEF WarmOpen, Messages, Contents, None
<1>2. inbox = <<>> \/ inbox = <<WarmOpen>>
  BY DEF Init
<1>3. CASE inbox = <<>>
  BY <1>3
<1>4. CASE inbox = <<WarmOpen>>
  BY <1>1, <1>4
<1>. QED
  BY <1>2, <1>3, <1>4

\* The first states are typed.
LEMMA TypedAtFirst == Init => Typed
<1> SUFFICES ASSUME Init PROVE Typed
  OBVIOUS
<1> USE LspAssumption DEF Init
<1>1. /\ disk \in 0..MaxText /\ sent \in None..MaxText /\ diag \in None..MaxText
      /\ server \in {"off", "starting", "up", "dead", "stopped"}
  BY DEF None
<1>2. known \in BOOLEAN /\ closed \in BOOLEAN /\ opened \in BOOLEAN
  OBVIOUS
<1>3. version \in Nat
  OBVIOUS
<1>4. Idle \in Locals
  BY DEF Idle, Locals, Ops, Pcs, Contents, None
<1>5. thread \in [Threads -> Locals] /\ \A t \in Threads : thread[t].pc = "idle"
  BY <1>4 DEF Idle
<1>6. \A t \in Threads : docLock = t <=> thread[t].pc \in Holding
  BY <1>5 DEF Holding
<1>7. \A t \in Threads : startLock = t <=> At(t, "initialize")
  BY <1>5 DEF At
<1>8. \A t \in Threads : thread[t].text \in None..MaxText
  BY <1>5 DEF Locals, Contents
<1>9. inbox \in Seq(Messages) /\ reports \in Seq(Contents)
  BY InboxAtFirst
<1>10. doc \in Documents
  BY <1>1, <1>3 DEF Documents, Contents, None
<1>. QED
  BY <1>1, <1>2, <1>3, <1>5, <1>6, <1>7, <1>8, <1>9, <1>10 DEF Typed, TypeOK

\* The thread that looks for the server does so to open or to number a change.
LEMMA ThenIsHeld ==
  ASSUME IInv, NEW t \in Threads, thread[t].pc \in {"client", "initialize"}
  PROVE  docLock = t /\ thread[t].then \in Sends \cup {"number"}
<1>1. docLock = t
  BY DEF IInv, Typed, TypeOK, Holding
<1>2. Stage = thread[t].pc
  BY <1>1, LspAssumption DEF Stage
<1>. QED
  BY <1>1, <1>2 DEF IInv, BooksKept

\* The locks and the locals that fit them.
HeldRight ==
  /\ thread \in [Threads -> Locals]
  /\ docLock \in Threads \cup {Free} /\ startLock \in Threads \cup {Free}
  /\ \A t \in Threads : docLock = t <=> thread[t].pc \in Holding
  /\ \A t \in Threads : startLock = t <=> thread[t].pc = "initialize"

\* Thread t goes on, and takes and releases the locks as its locals say.
Moves(t) ==
  /\ thread'[t] \in Locals /\ thread' = [thread EXCEPT ![t] = thread'[t]]
  /\ docLock' = IF thread'[t].pc \in Holding THEN t
                ELSE IF docLock = t THEN Free ELSE docLock
  /\ thread'[t].pc \in Holding => docLock \in {t, Free}
  /\ startLock' = IF thread'[t].pc = "initialize" THEN t
                  ELSE IF startLock = t THEN Free ELSE startLock
  /\ thread'[t].pc = "initialize" => startLock \in {t, Free}

\* What the invariant says of the locks and the texts a thread may take.
LEMMA HeldRightNow ==
  IInv => /\ HeldRight /\ disk \in 0..MaxText
          /\ \A t \in Threads : thread[t] \in Locals
  BY DEF IInv, Typed, TypeOK, HeldRight, At

\* Every operation takes and releases the locks as its locals say.
LEMMA ThreadMoves ==
  ASSUME IInv, NEW t \in Threads,
         Warm(t) \/ Diagnose(t) \/ Ask(t) \/ Edit(t) \/ Work(t)
  PROVE  Moves(t)
<1>1. /\ HeldRight /\ disk \in 0..MaxText /\ thread[t] \in Locals
      /\ thread[t].pc \in {"client", "initialize"} =>
           thread[t].then \in Sends \cup {"number"}
  BY HeldRightNow, ThenIsHeld
<1>2. /\ Free # t
      /\ docLock = t <=> thread[t].pc \in Holding
      /\ startLock = t <=> thread[t].pc = "initialize"
  BY <1>1, LspAssumption DEF HeldRight
<1> DEFINE Locked(pc) ==
      /\ docLock' = IF pc \in Holding THEN t ELSE IF docLock = t THEN Free ELSE docLock
      /\ pc \in Holding => docLock \in {t, Free}
      /\ startLock' = IF pc = "initialize" THEN t
                      ELSE IF startLock = t THEN Free ELSE startLock
      /\ pc = "initialize" => startLock \in {t, Free}
<1>3. ASSUME NEW r \in Locals, thread' = [thread EXCEPT ![t] = r], Locked(r.pc)
      PROVE  Moves(t)
  <2>1. thread'[t] = r
    BY <1>1, <1>3 DEF HeldRight
  <2>. QED
    BY <1>3, <2>1 DEF Moves
<1>4. ASSUME NEW r \in Locals, NEW pc \in Pcs, r.pc = pc, NEW then, then = r.then,
             thread' = [thread EXCEPT ![t] = r], Locked(pc)
      PROVE  Moves(t)
  BY <1>3, <1>4
<1>5. ASSUME NEW pc \in Pcs, Goto(t, pc), Locked(pc)
      PROVE  Moves(t)
  <2> DEFINE r == [thread[t] EXCEPT !.pc = pc]
  <2>1. r \in Locals /\ r.pc = pc
    BY <1>1 DEF Locals
  <2>2. thread' = [thread EXCEPT ![t] = r]
    BY <1>5 DEF Goto
  <2> HIDE DEF r
  <2>. QED
    BY <1>3, <1>5, <2>1, <2>2
<1>6. ASSUME End(t), Locked("ended")
      PROVE  Moves(t)
  <2> DEFINE r == [Idle EXCEPT !.pc = "ended"]
  <2>1. r \in Locals /\ r.pc = "ended"
    BY LspAssumption DEF Locals, Idle, Ops, Pcs, Contents, None
  <2>2. thread' = [thread EXCEPT ![t] = r]
    BY <1>6 DEF End
  <2> HIDE DEF r
  <2>. QED
    BY <1>3, <1>6, <2>1, <2>2
<1>7. ASSUME Fails(t)
      PROVE  Moves(t)
  <2>1. Locked("ended")
    BY <1>7 DEF Fails, Holding
  <2>. QED
    BY <1>6, <1>7, <2>1 DEF Fails
<1>8. ASSUME NEW pc \in Pcs, pc \notin Holding, thread[t].pc \notin Holding,
             Goto(t, pc), UNCHANGED locks
      PROVE  Moves(t)
  <2>1. Locked(pc)
    BY <1>2, <1>8 DEF locks, Holding
  <2>. QED
    BY <1>5, <1>8, <2>1
<1>9. ASSUME thread[t].pc \notin Holding, End(t), UNCHANGED locks
      PROVE  Moves(t)
  <2>1. Locked("ended")
    BY <1>2, <1>9 DEF locks, Holding
  <2>. QED
    BY <1>6, <1>9, <2>1
<1>10. ASSUME NEW r \in Locals, NEW pc, r.pc = pc, pc \notin Holding,
              thread[t].pc \notin Holding,
              thread' = [thread EXCEPT ![t] = r], UNCHANGED locks
       PROVE  Moves(t)
  <2>1. Locked(pc)
    BY <1>2, <1>10 DEF locks, Holding
  <2>. QED
    BY <1>3, <1>10, <2>1
<1>34. ASSUME NEW op \in Ops, NEW pc \in Pcs
       PROVE  /\ [Idle EXCEPT !.op = op, !.pc = pc] \in Locals
              /\ [Idle EXCEPT !.op = op, !.pc = pc].pc = pc
  <2>1. Idle \in Locals
    BY LspAssumption DEF Locals, Idle, Ops, Pcs, Contents, None
  <2>. QED
    BY <2>1 DEF Locals
<1>11. CASE Warm(t)
  <2> DEFINE r == [Idle EXCEPT !.op = "warm", !.pc = "open"]
  <2>1. r \in Locals /\ r.pc = "open"
    BY <1>34 DEF Ops, Pcs
  <2>2. thread' = [thread EXCEPT ![t] = r] /\ UNCHANGED locks /\ thread[t].pc = "idle"
    BY <1>11 DEF Warm, Begin, At
  <2> HIDE DEF r
  <2>. QED
    BY <1>10, <2>1, <2>2 DEF Holding
<1>12. CASE Diagnose(t)
  <2> DEFINE r == [Idle EXCEPT !.op = "diagnose", !.pc = IF opened THEN "check" ELSE "open"]
  <2>1. r \in Locals /\ r.pc \in {"check", "open"}
    BY <1>34 DEF Ops, Pcs
  <2>2. thread' = [thread EXCEPT ![t] = r] /\ UNCHANGED locks /\ thread[t].pc = "idle"
    BY <1>12 DEF Diagnose, Begin, At
  <2> HIDE DEF r
  <2>. QED
    BY <1>10, <2>1, <2>2 DEF Holding
<1>13. CASE Ask(t)
  <2> DEFINE r == [Idle EXCEPT !.op = "ask", !.pc = IF opened THEN "sync" ELSE "open"]
  <2>1. r \in Locals /\ r.pc \in {"sync", "open"}
    BY <1>34 DEF Ops, Pcs
  <2>2. thread' = [thread EXCEPT ![t] = r] /\ UNCHANGED locks /\ thread[t].pc = "idle"
    BY <1>13 DEF Ask, Begin, At
  <2> HIDE DEF r
  <2>. QED
    BY <1>10, <2>1, <2>2 DEF Holding
<1>14. CASE Edit(t)
  <2> DEFINE r == [Idle EXCEPT !.op = "edit", !.text = disk + 1, !.pc = "change"]
  <2>1. disk + 1 \in Contents
    BY <1>1, <1>14, LspAssumption DEF Edit, Contents, None
  <2>2. r \in Locals /\ r.pc = "change"
    BY <2>1 DEF Locals, Idle, Ops, Pcs
  <2>3. thread' = [thread EXCEPT ![t] = r] /\ UNCHANGED locks /\ thread[t].pc = "idle"
    BY <1>14 DEF Edit, Begin, At
  <2> HIDE DEF r
  <2>. QED
    BY <1>10, <2>2, <2>3 DEF Holding
<1>15. disk \in Contents
  BY <1>1, LspAssumption DEF Contents, None
<1>16. ASSUME NEW pc \in Pcs, NEW then \in Sends \cup {"number", "idle"}, NEW text \in Contents
       PROVE  /\ [thread[t] EXCEPT !.text = text, !.pc = pc] \in Locals
              /\ [thread[t] EXCEPT !.then = then, !.pc = pc] \in Locals
              /\ [thread[t] EXCEPT !.pc = pc, !.then = then] \in Locals
              /\ [thread[t] EXCEPT !.text = text, !.pc = pc, !.then = then] \in Locals
              /\ [thread[t] EXCEPT !.text = text, !.pc = pc].pc = pc
              /\ [thread[t] EXCEPT !.then = then, !.pc = pc].pc = pc
              /\ [thread[t] EXCEPT !.pc = pc, !.then = then].pc = pc
              /\ [thread[t] EXCEPT !.text = text, !.pc = pc, !.then = then].pc = pc
  BY <1>1 DEF Locals
<1>17. CASE Check(t)
  <2>1. CASE opened /\ sent # disk
    <3> DEFINE r == [thread[t] EXCEPT !.text = disk, !.pc = "change"]
    <3>1. r \in Locals /\ r.pc = "change"
      BY <1>15, <1>16 DEF Pcs, Sends
    <3>2. thread' = [thread EXCEPT ![t] = r] /\ UNCHANGED locks /\ thread[t].pc = "check"
      BY <1>17, <2>1 DEF Check, At
    <3> HIDE DEF r
    <3>. QED
      BY <1>10, <3>1, <3>2 DEF Holding
  <2>2. CASE ~(opened /\ sent # disk)
    BY <1>8, <1>17, <2>2 DEF Check, At, Pcs, Holding
  <2>. QED
    BY <2>1, <2>2
<1>18. CASE Cached(t)
  BY <1>9, <1>18 DEF Cached, At, Holding
<1>19. CASE Lock(t)
  <2>0. /\ docLock = Free /\ UNCHANGED startLock /\ (startLock # t \/ At(t, "initialize"))
        /\ \A pc \in Holding \ {"initialize"} :
             docLock' = t /\ thread[t].pc \notin Holding => Locked(pc)
    BY <1>2, <1>19 DEF Lock, Holding, At
  <2>1. CASE At(t, "open")
    <3>1. CASE opened
      <4>1. Goto(t, "opened") /\ UNCHANGED locks
        BY <1>19, <2>1, <3>1 DEF Lock, At, locks
      <4>. QED
        BY <1>8, <2>1, <4>1 DEF At, Pcs, Holding
    <3>2. CASE ~opened
      <4> DEFINE r == [thread[t] EXCEPT !.then = "send open", !.pc = "client"]
      <4>1. r \in Locals /\ r.pc = "client"
        BY <1>15, <1>16 DEF Pcs, Sends, Holding
      <4>2. thread' = [thread EXCEPT ![t] = r] /\ docLock' = t
        BY <1>19, <2>1, <3>2 DEF Lock, At
      <4> HIDE DEF r
      <4>3. Locked("client")
        BY ZenonT(40), <2>0, <2>1, <4>2 DEF At, Holding
      <4>. QED
        BY <1>3, <4>1, <4>2, <4>3
    <3>. QED
      BY <3>1, <3>2
  <2>2. CASE At(t, "change")
    <3> DEFINE r == [thread[t] EXCEPT !.pc = "client",
                       !.then = IF opened THEN "number" ELSE "send change"]
    <3>1. r \in Locals /\ r.pc = "client"
      <4>1. (IF opened THEN "number" ELSE "send change") \in Sends \cup {"number", "idle"}
        BY DEF Sends
      <4>2. "client" \in Pcs
        BY DEF Pcs, Holding
      <4>. QED
        BY ZenonT(40), <1>15, <1>16, <4>1, <4>2
    <3>2. thread' = [thread EXCEPT ![t] = r] /\ docLock' = t
      BY <1>19, <2>2 DEF Lock, At
    <3> HIDE DEF r
    <3>3. Locked("client")
      BY <2>0, <2>2, <3>2 DEF At, Holding
    <3>. QED
      BY <1>3, <3>1, <3>2, <3>3
  <2>3. CASE At(t, "sync")
    <3>1. CASE opened /\ sent # disk
      <4> DEFINE r == [thread[t] EXCEPT !.text = disk, !.pc = "client", !.then = "number"]
      <4>1. r \in Locals /\ r.pc = "client"
        BY <1>15, <1>16 DEF Pcs, Sends, Holding
      <4>2. thread' = [thread EXCEPT ![t] = r] /\ docLock' = t
        BY <1>19, <2>3, <3>1 DEF Lock, At
      <4> HIDE DEF r
      <4>3. Locked("client")
        BY <2>0, <2>3, <4>2 DEF At, Holding
      <4>. QED
        BY <1>3, <4>1, <4>2, <4>3
    <3>2. CASE ~(opened /\ sent # disk)
      <4>1. Goto(t, "request") /\ UNCHANGED locks
        BY <1>19, <2>3, <3>2 DEF Lock, At, locks
      <4>. QED
        BY <1>8, <2>3, <4>1 DEF At, Pcs, Holding
    <3>. QED
      BY <3>1, <3>2
  <2>. QED
    BY <1>19, <2>1, <2>2, <2>3 DEF Lock
<1>20. ASSUME NEW pc \in Holding \ {"initialize"}, thread[t].pc \in Holding,
              Goto(t, pc), UNCHANGED docLock,
              startLock' = IF startLock = t THEN Free ELSE startLock
       PROVE  Moves(t)
  <2>1. Locked(pc) /\ pc \in Pcs
    BY <1>2, <1>20 DEF Pcs
  <2>. QED
    BY <1>5, <1>20, <2>1
<1>21. ASSUME NEW pc \in Pcs, pc \notin Holding, thread[t].pc \in Holding,
              thread[t].pc # "initialize", Goto(t, pc), Unlock, UNCHANGED startLock
       PROVE  Moves(t)
  <2>1. Locked(pc)
    BY <1>2, <1>21 DEF Unlock, Holding
  <2>. QED
    BY <1>5, <1>21, <2>1
<1>22. CASE Client(t)
  <2>1. CASE Fails(t)
    BY <1>7, <2>1
  <2>2. CASE Goto(t, thread[t].then) /\ UNCHANGED locks
    <3>1. thread[t].then \in Holding \ {"initialize"} /\ thread[t].pc = "client"
      BY <1>1, <1>22 DEF Client, At, Sends, Holding
    <3>2. startLock # t
      BY <1>2, <3>1
    <3>. QED
      BY <1>20, <2>2, <3>1, <3>2 DEF locks, Holding
  <2>3. CASE startLock' = t /\ Goto(t, "initialize") /\ UNCHANGED docLock
    <3>1. Locked("initialize") /\ "initialize" \in Pcs
      BY <1>2, <1>22, <2>3 DEF Client, At, Holding, Pcs
    <3>. QED
      BY <1>5, <2>3, <3>1
  <2>. QED
    BY <1>22, <2>1, <2>2, <2>3 DEF Client
<1>23. CASE Initialized(t)
  <2>1. CASE Fails(t)
    BY <1>7, <2>1
  <2>2. CASE startLock' = Free /\ Goto(t, thread[t].then) /\ UNCHANGED docLock
    <3>1. thread[t].then \in Holding \ {"initialize"} /\ thread[t].pc = "initialize"
      BY <1>1, <1>23 DEF Initialized, At, Sends, Holding
    <3>2. startLock = t
      BY <1>2, <3>1
    <3>. QED
      BY <1>20, <2>2, <3>1, <3>2 DEF Holding
  <2>. QED
    BY <1>23, <2>1, <2>2 DEF Initialized
<1>24. CASE SendOpen(t)
  <2>1. CASE Fails(t)
    BY <1>7, <2>1
  <2>2. CASE ~Fails(t)
    <3> DEFINE r == [thread[t] EXCEPT !.text = disk, !.pc = "book open"]
    <3>1. r \in Locals /\ r.pc = "book open"
      BY <1>15, <1>16 DEF Pcs, Sends, Holding
    <3>2. thread' = [thread EXCEPT ![t] = r] /\ UNCHANGED locks /\ thread[t].pc = "send open"
      BY <1>24, <2>2 DEF SendOpen, At, Broken
    <3> HIDE DEF r
    <3>3. Locked("book open")
      BY <1>2, <3>2 DEF Holding, locks
    <3>. QED
      BY <1>3, <3>1, <3>2, <3>3
  <2>. QED
    BY <2>1, <2>2
<1>25. CASE BookOpen(t)
  BY <1>21, <1>25 DEF BookOpen, At, Pcs, Holding
<1>26. CASE SendChange(t)
  <2>1. CASE Fails(t)
    BY <1>7, <2>1
  <2>2. CASE ~Fails(t)
    <3>1. /\ Goto(t, "book change") /\ UNCHANGED locks /\ thread[t].pc = "send change"
          /\ startLock # t
      BY <1>2, <1>26, <2>2 DEF SendChange, At, Broken
    <3>. QED
      BY <1>20, <3>1 DEF Holding, locks
  <2>. QED
    BY <2>1, <2>2
<1>27. CASE BookChange(t)
  BY <1>21, <1>27 DEF BookChange, At, Pcs, Holding
<1>28. CASE Number(t)
  <2>1. /\ Goto(t, "notify") /\ UNCHANGED locks /\ thread[t].pc = "number"
        /\ startLock # t
    BY <1>2, <1>28 DEF Number, At
  <2>. QED
    BY <1>20, <2>1 DEF Holding, locks
<1>29. CASE Notify(t)
  <2>1. CASE Fails(t)
    BY <1>7, <2>1
  <2>2. CASE ~Fails(t)
    <3> DEFINE next == IF thread[t].op = "ask" THEN "request" ELSE "wait"
    <3>1. next \in Pcs /\ next \notin Holding
      BY DEF Pcs, Holding
    <3>2. /\ Goto(t, next) /\ Unlock /\ UNCHANGED startLock /\ thread[t].pc = "notify"
      BY <1>29, <2>2 DEF Notify, At, Broken
    <3> HIDE DEF next
    <3>. QED
      BY <1>21, <3>1, <3>2 DEF Holding
  <2>. QED
    BY <2>1, <2>2
<1>30. CASE Wait(t)
  BY <1>9, <1>30 DEF Wait, At, Holding
<1>31. CASE Opened(t)
  <2>1. CASE End(t)
    BY <1>9, <1>31, <2>1 DEF Opened, At, Holding
  <2>2. CASE Goto(t, "request")
    BY <1>8, <1>31, <2>2 DEF Opened, At, Pcs, Holding
  <2>. QED
    BY <1>31, <2>1, <2>2 DEF Opened
<1>32. CASE Request(t)
  <2>1. CASE Fails(t)
    BY <1>7, <2>1
  <2>2. CASE ~Fails(t)
    <3>1. Goto(t, "answer") /\ UNCHANGED locks /\ thread[t].pc = "request"
      BY <1>32, <2>2 DEF Request, At, Broken
    <3>. QED
      BY <1>8, <3>1 DEF Pcs, Holding
  <2>. QED
    BY <2>1, <2>2
<1>33. CASE TimedOut(t)
  BY <1>9, <1>33 DEF TimedOut, At, Holding
<1>. QED
  BY <1>11, <1>12, <1>13, <1>14, <1>17, <1>18, <1>19, <1>22, <1>23, <1>24, <1>25,
     <1>26, <1>27, <1>28, <1>29, <1>30, <1>31, <1>32, <1>33 DEF Work

\* Locks and locals fit after every step.
LEMMA HeldRightStep == IInv /\ [Next]_vars => HeldRight'
<1> SUFFICES ASSUME IInv, [Next]_vars PROVE HeldRight'
  OBVIOUS
<1>1. HeldRight
  BY HeldRightNow
<1>2. ASSUME UNCHANGED <<thread, docLock, startLock>> PROVE HeldRight'
  BY <1>1, <1>2 DEF HeldRight
<1>3. ASSUME NEW t \in Threads, Moves(t)
      PROVE  HeldRight'
  <2> USE LspAssumption DEF HeldRight
  <2>0. Moves(t)
    BY <1>3
  <2>1. /\ thread' \in [Threads -> Locals]
        /\ \A u \in Threads : u # t => thread'[u] = thread[u]
    BY <1>1, <2>0 DEF Moves
  <2>2. docLock' \in Threads \cup {Free} /\ startLock' \in Threads \cup {Free}
    BY <1>1, <2>0 DEF Moves
  <2>3. \A u \in Threads : docLock' = u <=> thread'[u].pc \in Holding
    BY <1>1, <2>0, <2>1 DEF Moves
  <2>4. \A u \in Threads : startLock' = u <=> thread'[u].pc = "initialize"
    BY <1>1, <2>0, <2>1 DEF Moves
  <2>. QED
    BY <2>1, <2>2, <2>3, <2>4
<1>4. CASE Touch \/ ServerReports \/ Listen \/ ServerDies \/ Close \/ TakeClients
           \/ StopClients \/ UNCHANGED vars
  BY <1>2, <1>4 DEF Touch, ServerReports, Listen, ServerDies, Close, TakeClients,
                    StopClients, vars, locks
<1>5. CASE ServerReads
  <2>1. CASE UNCHANGED thread
    BY <1>2, <1>5, <2>1 DEF ServerReads, locks
  <2>2. CASE Head(inbox).what = "ask"
    <3> DEFINE u == Head(inbox).by
    <3>1. u \in Threads
      <4>1. inbox \in Seq(Messages) /\ inbox # <<>>
        BY <1>5 DEF ServerReads, IInv, Typed
      <4>2. Head(inbox) \in Messages
        BY <4>1, HeadTailProperties
      <4>. QED
        BY <4>2 DEF Messages
    <3>2. /\ thread' = [thread EXCEPT ![u] = IF thread[u].pc = "answer"
                                             THEN [Idle EXCEPT !.pc = "ended"]
                                             ELSE thread[u]]
          /\ UNCHANGED <<docLock, startLock>>
      BY <1>5, <2>2 DEF ServerReads, locks
    <3> HIDE DEF u
    <3>3. CASE thread[u].pc = "answer"
      <4> DEFINE r == [Idle EXCEPT !.pc = "ended"]
      <4>2. r \in Locals /\ r.pc = "ended"
        BY LspAssumption DEF Locals, Idle, Ops, Pcs, Contents, None
      <4>3. thread' = [thread EXCEPT ![u] = r]
        BY <3>2, <3>3
      <4> HIDE DEF r
      <4>4. thread'[u] = r
        BY <1>1, <3>1, <4>3 DEF HeldRight
      <4>5. docLock # u /\ startLock # u
        BY <1>1, <3>1, <3>3 DEF HeldRight, Holding
      <4>6. Moves(u)
        BY <3>2, <4>2, <4>3, <4>4, <4>5 DEF Moves, Holding
      <4>. QED
        BY <1>3, <3>1, <4>6
    <3>4. CASE thread[u].pc # "answer"
      <4>1. UNCHANGED thread
        BY <1>1, <3>1, <3>2, <3>4 DEF HeldRight
      <4>. QED
        BY <1>2, <3>2, <4>1
    <3>. QED
      BY <3>3, <3>4
  <2>. QED
    BY <1>5, <2>1, <2>2 DEF ServerReads
<1>6. ASSUME NEW t \in Threads, Warm(t) \/ Diagnose(t) \/ Ask(t) \/ Edit(t) \/ Work(t)
      PROVE  HeldRight'
  BY <1>3, <1>6, ThreadMoves
<1>. QED
  BY <1>4, <1>5, <1>6 DEF Next

\* A message a thread sends is typed, and so is the queue it is put on.
LEMMA SentTyped ==
  ASSUME inbox \in Seq(Messages), NEW m \in Messages, Sent(m)
  PROVE  inbox' \in Seq(Messages)
  BY AppendProperties DEF Sent

\* The types are kept by every step.
LEMMA TypedStep == IInv /\ [Next]_vars => Typed'
<1> SUFFICES ASSUME IInv, [Next]_vars PROVE Typed'
  OBVIOUS
<1>0. HeldRight'
  BY HeldRightStep, LspAssumption
<1>1. /\ disk \in 0..MaxText /\ disk \in Contents /\ disk # None
      /\ sent \in Contents /\ diag \in Contents /\ None \in Contents
      /\ \A t \in Threads : thread[t].text \in Contents
      /\ inbox \in Seq(Messages) /\ reports \in Seq(Contents) /\ doc \in Documents
  BY <1>0, LspAssumption DEF IInv, Typed, TypeOK, Contents, None
<1>2. /\ server \in {"off", "starting", "up", "dead", "stopped"}
      /\ shutdown \in {"no", "closing", "stopping", "done"}
      /\ version \in Nat
  BY DEF IInv, Typed, TypeOK
<1>3. known \in BOOLEAN /\ closed \in BOOLEAN /\ opened \in BOOLEAN
  BY DEF IInv, Typed, TypeOK
<1>15. <<>> \in Seq(Contents) /\ <<>> \in Seq(Messages)
  BY SMTT(30)
<1>4. /\ UNCHANGED disk \/ (disk < MaxText /\ disk' = disk + 1)
      /\ sent' \in {sent, None} \cup {thread[t].text : t \in Threads}
      /\ Listen \/ diag' \in {diag, None}
      /\ server' \in {server, "up", "starting", "dead", "stopped"}
      /\ shutdown' \in {shutdown, "closing", "stopping", "done"}
      /\ known' \in {known, TRUE, FALSE} /\ closed' \in {closed, TRUE}
      /\ opened' \in {opened, TRUE, FALSE} /\ version' \in {version, 1, version + 1}
      /\ Listen \/ ServerReports \/ reports' \in {reports, <<>>}
      /\ ServerReads \/ UNCHANGED doc
      /\ \/ ServerReads \/ inbox' \in {inbox, <<>>}
         \/ \E t \in Threads : SendOpen(t) \/ SendChange(t) \/ Notify(t) \/ Request(t)
  <2> USE DEF Next, vars, books, wire, life, locks, Touch, ServerReports, ServerDies,
              Close, TakeClients, StopClients, Warm, Diagnose, Ask, Edit, Begin, Work,
              Check, Cached, Lock, Client, Initialized, BookOpen, BookChange, Number,
              Wait, Opened, TimedOut
  <2>1. ServerReads \/ UNCHANGED doc
    BY DEF Listen, SendOpen, SendChange, Notify, Request
  <2>2. \/ ServerReads \/ inbox' \in {inbox, <<>>}
        \/ \E t \in Threads : SendOpen(t) \/ SendChange(t) \/ Notify(t) \/ Request(t)
    BY DEF Listen
  <2>3. (Listen \/ diag' \in {diag, None})
        /\ (Listen \/ ServerReports \/ reports' \in {reports, <<>>})
    BY DEF ServerReads, SendOpen, SendChange, Notify, Request
  <2> USE DEF ServerReads, Listen, SendOpen, SendChange, Notify, Request
  <2>4. UNCHANGED disk \/ (disk < MaxText /\ disk' = disk + 1)
    OBVIOUS
  <2>5. /\ sent' \in {sent, None} \cup {thread[t].text : t \in Threads}
        /\ opened' \in {opened, TRUE, FALSE} /\ version' \in {version, 1, version + 1}
    OBVIOUS
  <2>6. /\ server' \in {server, "up", "starting", "dead", "stopped"}
        /\ shutdown' \in {shutdown, "closing", "stopping", "done"}
        /\ known' \in {known, TRUE, FALSE} /\ closed' \in {closed, TRUE}
    OBVIOUS
  <2>. QED
    BY <2>1, <2>2, <2>3, <2>4, <2>5, <2>6
<1>5. disk' \in 0..MaxText
  BY <1>1, <1>4, LspAssumption
<1>6. diag' \in Contents
  <2>1. CASE Listen
    BY <1>1, <2>1, HeadTailProperties DEF Listen
  <2>. QED
    BY <1>1, <1>4, <2>1
<1>7. /\ sent' \in Contents
      /\ server' \in {"off", "starting", "up", "dead", "stopped"}
      /\ shutdown' \in {"no", "closing", "stopping", "done"}
      /\ version' \in Nat
  BY <1>1, <1>2, <1>4
<1>8. known' \in BOOLEAN /\ closed' \in BOOLEAN /\ opened' \in BOOLEAN
  BY <1>3, <1>4
<1>9. reports' \in Seq(Contents)
  <2>1. CASE Listen
    BY <1>1, <2>1, HeadTailProperties DEF Listen
  <2>2. CASE ServerReports
    BY <1>1, <2>2, AppendProperties DEF ServerReports, Documents
  <2>. QED
    BY <1>1, <1>4, <1>15, <2>1, <2>2
<1>10. doc' \in Documents
  <2>1. CASE ServerReads
    <3>1. CASE UNCHANGED doc
      BY <1>1, <3>1
    <3>2. CASE ~UNCHANGED doc
      <4>1. Head(inbox) \in Messages
        BY <1>1, <2>1, HeadTailProperties DEF ServerReads
      <4>. QED
        <5>1. Head(inbox).version \in Nat /\ Head(inbox).text \in Contents
          BY <4>1 DEF Messages
        <5>2. \E b \in BOOLEAN :
                doc' = [version |-> Head(inbox).version, text |-> Head(inbox).text, sane |-> b]
          BY <2>1, <3>2 DEF ServerReads
        <5>. QED
          BY <5>1, <5>2 DEF Documents
    <3>. QED
      BY <3>1, <3>2
  <2>. QED
    BY <1>1, <1>4, <2>1
<1>11. inbox' \in Seq(Messages)
  <2>1. CASE ServerReads
    BY <1>1, <2>1, HeadTailProperties DEF ServerReads
  <2>2. ASSUME NEW t \in Threads, SendOpen(t) \/ SendChange(t) \/ Notify(t) \/ Request(t)
        PROVE  inbox' \in Seq(Messages)
    <3>1. \/ UNCHANGED inbox
          \/ \E what \in {"open", "change", "ask"}, n \in {0, 1, version},
                x \in {disk, thread[t].text, None} :
               Sent([what |-> what, version |-> n, text |-> x, by |-> t])
      BY <2>2 DEF SendOpen, SendChange, Notify, Request, Broken
    <3>2. ASSUME NEW what \in {"open", "change", "ask"}, NEW n \in {0, 1, version},
                 NEW x \in {disk, thread[t].text, None}
          PROVE  [what |-> what, version |-> n, text |-> x, by |-> t] \in Messages
      BY <1>1, <1>2 DEF Messages
    <3>. QED
      BY <1>1, <3>1, <3>2, SentTyped
  <2>. QED
    BY <1>1, <1>4, <1>15, <2>1, <2>2
<1>12. \A t \in Threads : thread'[t].text \in None..MaxText
  BY <1>0 DEF HeldRight, Locals, Contents
<1>13. /\ \A t \in Threads : docLock' = t <=> thread'[t].pc \in Holding
       /\ \A t \in Threads : startLock' = t <=> thread'[t].pc = "initialize"
  BY <1>0 DEF HeldRight, At
<1>14. TypeOK'
  <2>1. /\ disk' \in 0..MaxText /\ sent' \in None..MaxText /\ diag' \in None..MaxText
        /\ server' \in {"off", "starting", "up", "dead", "stopped"}
        /\ version' \in Nat
    BY <1>5, <1>6, <1>7 DEF Contents
  <2>. QED
    BY <1>8, <1>12, <1>13, <2>1, Zenon DEF TypeOK, At
<1>. QED
  BY <1>0, <1>7, <1>9, <1>10, <1>11, <1>14 DEF Typed, HeldRight

-----------------------------------------------------------------------------
(* The server's life.                                                      *)

\* The life of the server at first.
LEMMA LifeAtFirst == Init => LifeKept
<1> SUFFICES ASSUME Init PROVE LifeKept
  OBVIOUS
<1>1. ~known => inbox = <<>> /\ doc.version = 0 /\ version = 0
  BY DEF Init
<1>. QED
  BY <1>1 DEF Init, LifeKept

\* A server is started once and not after the shutdown has begun, whatever step
\* is taken.
LEMMA LifeStep == IInv /\ [Next]_vars => LifeKept'
<1> SUFFICES ASSUME IInv, [Next]_vars PROVE LifeKept'
  OBVIOUS
<1>1. /\ LifeKept
      /\ closed \in BOOLEAN /\ known \in BOOLEAN
      /\ \A t \in Threads : startLock = t <=> thread[t].pc = "initialize"
      /\ Free \notin Threads
  BY LspAssumption DEF IInv, Typed, TypeOK, At
<1>2. \A t \in Threads : thread[t].pc \in Booking \cup {"number"} => known \/ closed
  <2>1. \A t \in Threads : thread[t].pc \in Holding => Stage = thread[t].pc
    BY LspAssumption DEF IInv, Typed, TypeOK, Stage
  <2>. QED
    BY <2>1 DEF IInv, BooksKept, Booking, Holding
<1>3. CASE UNCHANGED <<life, startLock, version, doc, inbox>>
  BY <1>1, <1>3 DEF LifeKept, life
<1>4. CASE \/ Touch \/ ServerReports \/ Listen \/ UNCHANGED vars
           \/ \E t \in Threads :
                \/ Warm(t) \/ Diagnose(t) \/ Ask(t) \/ Edit(t) \/ Check(t) \/ Cached(t)
                \/ Lock(t) \/ Wait(t) \/ Opened(t) \/ TimedOut(t)
  BY <1>3, <1>4 DEF Touch, ServerReports, Listen, vars, books, wire, locks, Warm,
       Diagnose, Ask, Edit, Begin, Check, Cached, Lock, Wait, Opened, TimedOut
<1>5. CASE ServerReads
  BY <1>1, <1>5 DEF ServerReads, LifeKept, life, locks, books
<1>6. CASE ServerDies
  BY <1>1, <1>6 DEF ServerDies, LifeKept, books, locks
<1>7. CASE Close
  BY <1>1, <1>7 DEF Close, LifeKept, books, wire, locks
<1>8. CASE TakeClients
  BY <1>1, <1>8 DEF TakeClients, LifeKept, wire, locks
<1>9. CASE StopClients
  BY <1>1, <1>9 DEF StopClients, LifeKept, books, locks
<1>10. ASSUME NEW t \in Threads, Client(t)
       PROVE  LifeKept'
  BY <1>1, <1>10 DEF Client, Fails, LifeKept, At, books, wire, locks
<1>11. ASSUME NEW t \in Threads, Initialized(t)
       PROVE  LifeKept'
  BY <1>1, <1>11 DEF Initialized, Fails, LifeKept, At, books, wire
<1>12. ASSUME NEW t \in Threads, SendOpen(t) \/ SendChange(t) \/ Notify(t) \/ Request(t)
       PROVE  LifeKept'
  <2>1. /\ UNCHANGED <<life, version, doc>> /\ UNCHANGED startLock
        /\ server = "up" \/ UNCHANGED inbox
    BY <1>1, <1>12 DEF SendOpen, SendChange, Notify, Request, Sent, Broken, Fails, At,
                       books, locks
  <2>. QED
    BY <1>1, <2>1 DEF LifeKept, life
<1>13. ASSUME NEW t \in Threads, BookOpen(t) \/ BookChange(t) \/ Number(t)
       PROVE  LifeKept'
  <2>1. UNCHANGED <<life, doc, inbox, startLock>> /\ (known \/ closed)
    BY <1>2, <1>13 DEF BookOpen, BookChange, Number, At, Booking, wire, locks
  <2>. QED
    BY <1>1, <2>1 DEF LifeKept, life
<1>. QED
  BY <1>4, <1>5, <1>6, <1>7, <1>8, <1>9, <1>10, <1>11, <1>12, <1>13 DEF Next, Work

-----------------------------------------------------------------------------
(* The books.                                                              *)

\* The thread that has the lock, if there is one, is where it was.
StageStays ==
  /\ docLock' = docLock /\ Stage' = Stage
  /\ docLock # Free => thread'[docLock] = thread[docLock]

\* A step of a thread that neither has nor takes the lock leaves the one that
\* has it where it is.
LEMMA OthersStay ==
  ASSUME HeldRight, NEW t \in Threads, Moves(t), docLock # t, docLock' # t
  PROVE  StageStays
<1>1. docLock' = docLock
  BY DEF Moves
<1>2. docLock # Free => thread'[docLock] = thread[docLock]
  BY DEF Moves, HeldRight
<1>. QED
  BY <1>1, <1>2 DEF StageStays, Stage

\* The steps that do not concern the lock.
Apart ==
  \/ Touch \/ ServerReads \/ ServerReports \/ Listen \/ ServerDies
  \/ Close \/ TakeClients \/ StopClients \/ UNCHANGED vars
  \/ \E t \in Threads :
       \/ Warm(t) \/ Diagnose(t) \/ Ask(t) \/ Edit(t) \/ Check(t) \/ Cached(t)
       \/ Lock(t) /\ UNCHANGED docLock
       \/ Wait(t) \/ Opened(t) \/ Request(t) \/ TimedOut(t)

\* They leave the thread that has it where it is.
LEMMA ApartStays == IInv /\ Apart => StageStays
<1> SUFFICES ASSUME IInv, Apart PROVE StageStays
  OBVIOUS
<1>1. HeldRight /\ inbox \in Seq(Messages)
  BY HeldRightNow DEF IInv, Typed
<1>2. CASE UNCHANGED <<docLock, thread>>
  BY <1>2 DEF StageStays, Stage
<1>3. CASE \/ Touch \/ ServerReports \/ Listen \/ ServerDies
           \/ Close \/ TakeClients \/ StopClients \/ UNCHANGED vars
  BY <1>2, <1>3 DEF Touch, ServerReports, Listen, ServerDies, Close, TakeClients,
                    StopClients, vars, locks
<1>4. CASE ServerReads
  <2>1. \A u \in Threads : thread[u].pc # "answer" => thread'[u] = thread[u]
    BY <1>1, <1>4 DEF ServerReads, HeldRight
  <2>2. docLock # Free => thread'[docLock] = thread[docLock]
    BY <1>1, <2>1 DEF HeldRight, Holding
  <2>. QED
    BY <1>4, <2>2 DEF ServerReads, StageStays, Stage, locks
<1>5. ASSUME NEW t \in Threads,
             \/ Warm(t) \/ Diagnose(t) \/ Ask(t) \/ Edit(t) \/ Check(t) \/ Cached(t)
             \/ Lock(t) /\ UNCHANGED docLock
             \/ Wait(t) \/ Opened(t) \/ Request(t) \/ TimedOut(t)
      PROVE  StageStays
  <2>1. Moves(t)
    BY <1>5, ThreadMoves DEF Work
  <2>2. thread[t].pc \notin Holding
    BY <1>5 DEF Warm, Diagnose, Ask, Edit, Begin, Check, Cached, Lock, Wait, Opened,
                Request, TimedOut, At, Holding
  <2>3. docLock # t
    BY <1>1, <2>2 DEF HeldRight
  <2>4. docLock' # t
    BY <1>5, <2>3, LspAssumption
       DEF Warm, Diagnose, Ask, Edit, Begin, Check, Cached, Wait, Opened, Request,
           TimedOut, Broken, Fails, locks
  <2>. QED
    BY <1>1, <2>1, <2>3, <2>4, OthersStay
<1>. QED
  BY <1>3, <1>4, <1>5 DEF Apart

\* The thread at work on the document has the lock.
LEMMA HolderHas ==
  ASSUME HeldRight, NEW t \in Threads
  PROVE  /\ thread[t].pc \in Holding => docLock = t /\ Stage = thread[t].pc
         /\ docLock = t => Stage = thread[t].pc
         /\ docLock = Free => Stage = "free"
<1>1. thread[t].pc \in Holding <=> docLock = t
  BY DEF HeldRight
<1>. QED
  BY <1>1, LspAssumption DEF Stage

\* A step that concerns the lock is one of the thread that has it or takes it.
LEMMA StepsApart ==
  [Next]_vars =>
    \/ Apart
    \/ \E t \in Threads :
         \/ (Lock(t) /\ docLock' = t)
         \/ Client(t) \/ Initialized(t) \/ SendOpen(t) \/ BookOpen(t)
        \/ SendChange(t) \/ BookChange(t) \/ Number(t) \/ Notify(t)
<1> SUFFICES ASSUME [Next]_vars, ~Apart
             PROVE  \E t \in Threads :
                      \/ (Lock(t) /\ docLock' = t)
                      \/ Client(t) \/ Initialized(t) \/ SendOpen(t) \/ BookOpen(t) \/ SendChange(t) \/ BookChange(t)
                      \/ Number(t) \/ Notify(t)
  OBVIOUS
<1>1. \A t \in Threads : Lock(t) => docLock' = t \/ UNCHANGED docLock
  BY DEF Lock
<1>. QED
  BY <1>1, Zenon DEF Next, Work, Apart

\* A thread that takes the lock looks for the server next, to open the document
\* or to number a change of it.
LEMMA LockTakes ==
  ASSUME HeldRight, opened \in BOOLEAN, NEW t \in Threads, Lock(t), docLock' = t
  PROVE  /\ thread'[t].pc = "client"
         /\ \/ ~opened /\ thread'[t].then \in Sends
            \/ opened /\ thread'[t].then = "number"
<1>1. \E then, text :
        /\ thread' = [thread EXCEPT ![t] =
                        [@ EXCEPT !.text = text, !.pc = "client", !.then = then]]
        /\ \/ ~opened /\ then \in Sends
           \/ opened /\ then = "number"
  <2>0. /\ thread[t] \in Locals /\ t # Free /\ docLock = Free
    BY LspAssumption DEF HeldRight, Lock
  <2> DEFINE To(text, then) == [thread[t] EXCEPT !.text = text, !.pc = "client",
                                                  !.then = then]
  <2>1. \A then : /\ To(thread[t].text, then) = [thread[t] EXCEPT !.then = then, !.pc = "client"]
                  /\ To(thread[t].text, then) = [thread[t] EXCEPT !.pc = "client", !.then = then]
    BY <2>0 DEF Locals
  <2>2. CASE At(t, "open")
    <3>1. thread' = [thread EXCEPT ![t] = [@ EXCEPT !.then = "send open", !.pc = "client"]]
          /\ ~opened
      BY <2>0, <2>2 DEF Lock, At
    <3>. QED
      BY <2>1, <3>1 DEF Lock, Sends
  <2>3. CASE At(t, "change")
    <3>1. thread' = [thread EXCEPT ![t] = [@ EXCEPT !.pc = "client",
                       !.then = IF opened THEN "number" ELSE "send change"]]
      BY <2>0, <2>3 DEF Lock, At
    <3>. QED
      BY <2>1, <3>1 DEF Lock, Sends
  <2>4. CASE At(t, "sync")
    <3>1. thread' = [thread EXCEPT ![t] = To(disk, "number")] /\ opened
      BY <2>0, <2>4 DEF Lock, At
    <3>. QED
      BY <3>1 DEF Lock
  <2>. QED
    BY <2>2, <2>3, <2>4 DEF Lock
<1>. QED
  BY <1>1 DEF HeldRight, Locals

\* The books at first.
LEMMA BooksAtFirst == Init => BooksKept
<1> SUFFICES ASSUME Init PROVE BooksKept
  OBVIOUS
<1>1. Stage = "free" /\ (IF opened THEN version >= 1 ELSE version = 0)
  BY DEF Init, Stage
<1>. QED
  BY <1>1 DEF BooksKept, Sends, Booking

\* What the thread that has the lock found in the books stays in them.
LEMMA BooksStep == IInv /\ [Next]_vars => BooksKept'
<1> SUFFICES ASSUME IInv, [Next]_vars PROVE BooksKept'
  OBVIOUS
<1>1. /\ HeldRight /\ HeldRight' /\ BooksKept
      /\ version \in Nat /\ opened \in BOOLEAN /\ closed \in BOOLEAN /\ known \in BOOLEAN
      /\ shutdown = "closing" => closed
  BY HeldRightNow, HeldRightStep DEF IInv, Typed, TypeOK, LifeKept
<1>2. CASE Apart
  <2>1. StageStays
    BY <1>2, ApartStays
  <2>2. /\ version' = version
        /\ opened' \in BOOLEAN /\ closed' \in BOOLEAN /\ known' \in BOOLEAN
        /\ closed => closed'
        /\ opened' => opened /\ sent' = sent
        /\ opened' = opened \/ closed'
        /\ known' = known \/ closed'
    <3>1. CASE TakeClients
      BY <1>1, <3>1 DEF TakeClients
    <3>2. CASE Close
      BY <1>1, <3>2 DEF Close, books
    <3>3. CASE ~TakeClients /\ ~Close
      <4>1. UNCHANGED <<version, opened, sent, closed, known>>
        BY <1>2, <3>3
           DEF Apart, Touch, ServerReads, ServerReports, Listen, ServerDies, StopClients,
               vars, books, life, Warm, Diagnose, Ask, Edit, Begin, Check, Cached, Lock,
               Wait, Opened, Request, TimedOut
      <4>. QED
        BY <1>1, <4>1
    <3>. QED
      BY <3>1, <3>2, <3>3
  <2>3. /\ Stage' = Stage
        /\ Stage # "free" => thread'[docLock'] = thread[docLock]
    BY <2>1 DEF StageStays, Stage
  <2>4. /\ Stage' \in {"client", "initialize"} =>
             \/ thread'[docLock'].then \in Sends /\ (version' = 0 \/ closed')
             \/ thread'[docLock'].then = "number" /\ version' >= 1
        /\ Stage' = "notify" => version' >= 2 /\ (opened' => sent' = thread'[docLock'].text)
    BY <1>1, <2>2, <2>3 DEF BooksKept
  <2>5. /\ IF opened' THEN version' >= 1 ELSE version' = 0 \/ closed'
        /\ Stage' \in Sends \cup Booking => version' = 0
        /\ Stage' = "number" => version' >= 1
        /\ Stage' \in Sends \cup Booking \cup {"number", "notify"} => known' \/ closed'
    BY <1>1, <2>2, <2>3 DEF BooksKept
  <2>. QED
    BY <2>4, <2>5 DEF BooksKept
<1>3. ASSUME NEW t \in Threads, docLock' = Free,
             UNCHANGED <<version, opened, closed>>
      PROVE  BooksKept'
  <2>1. Stage' = "free"
    BY <1>3 DEF Stage
  <2>. QED
    BY <1>1, <1>3, <2>1 DEF BooksKept, Sends, Booking
<1>4. ASSUME NEW t \in Threads, Lock(t) /\ docLock' = t
      PROVE  BooksKept'
  <2>1. UNCHANGED <<version, opened, closed>>
    BY <1>4 DEF Lock, books, life
  <2>2. /\ thread'[t].pc = "client"
        /\ \/ ~opened /\ thread'[t].then \in Sends
           \/ opened /\ thread'[t].then = "number"
    BY <1>1, <1>4, LockTakes
  <2>3. docLock' = t /\ Stage' = "client"
    BY <1>4, <2>2, LspAssumption DEF Stage
  <2>. QED
    BY <1>1, <2>1, <2>2, <2>3 DEF BooksKept, Sends, Booking
<1>5. ASSUME NEW t \in Threads, thread[t].pc \in Holding
      PROVE  docLock = t /\ Stage = thread[t].pc /\ thread[t] \in Locals
  BY <1>1, <1>5, HolderHas DEF HeldRight
<1>6. ASSUME NEW t \in Threads, NEW pc \in Holding, Goto(t, pc), UNCHANGED docLock,
             docLock = t
      PROVE  /\ docLock' = t /\ Stage' = pc
             /\ thread'[t].then = thread[t].then /\ thread'[t].text = thread[t].text
  <2>1. thread'[t] = [thread[t] EXCEPT !.pc = pc] /\ thread[t] \in Locals
    BY <1>1, <1>6 DEF Goto, HeldRight
  <2>2. thread'[t].pc = pc /\ thread'[t].then = thread[t].then
        /\ thread'[t].text = thread[t].text
    BY <2>1 DEF Locals
  <2>. QED
    BY <1>6, <2>2, LspAssumption DEF Stage
<1>7. ASSUME NEW t \in Threads, Fails(t), docLock = t, UNCHANGED <<version, opened, closed>>
      PROVE  BooksKept'
  BY <1>3, <1>7 DEF Fails
<1>8. ASSUME NEW t \in Threads, Client(t)
      PROVE  BooksKept'
  <2>0. /\ docLock = t /\ Stage = "client" /\ UNCHANGED <<version, opened, closed, known>>
        /\ thread[docLock].then = thread[t].then
    BY <1>5, <1>8 DEF Client, At, Holding, books
  <2>1. CASE Fails(t)
    BY <1>7, <2>0, <2>1
  <2>2. CASE ~closed /\ known /\ Goto(t, thread[t].then) /\ UNCHANGED locks
    <3>1. \/ thread[t].then \in Sends /\ version = 0
          \/ thread[t].then = "number" /\ version >= 1
      BY <1>1, <2>0, <2>2 DEF BooksKept
    <3>2. docLock' = t /\ Stage' = thread[t].then
      <4>1. thread[t].then \in Holding
        BY <3>1 DEF Holding, Sends
      <4>. QED
        BY <1>6, <2>0, <2>2, <4>1 DEF locks
    <3>. QED
      BY <1>1, <2>0, <2>2, <3>1, <3>2 DEF BooksKept, Sends, Booking
  <2>3. CASE Goto(t, "initialize") /\ UNCHANGED docLock
    <3>1. docLock' = t /\ Stage' = "initialize" /\ thread'[t].then = thread[t].then
      BY <1>6, <2>0, <2>3 DEF Holding
    <3>2. \/ thread[t].then \in Sends /\ (version = 0 \/ closed)
          \/ thread[t].then = "number" /\ version >= 1
      BY <1>1, <2>0 DEF BooksKept
    <3>. QED
      BY <1>1, <2>0, <3>1, <3>2 DEF BooksKept, Sends, Booking
  <2>. QED
    BY <1>8, <2>1, <2>2, <2>3 DEF Client
<1>9. ASSUME NEW t \in Threads, Initialized(t)
      PROVE  BooksKept'
  <2>0. /\ docLock = t /\ Stage = "initialize" /\ UNCHANGED <<version, opened, closed>>
        /\ thread[docLock].then = thread[t].then
    BY <1>5, <1>9 DEF Initialized, At, Holding, books
  <2>1. CASE Fails(t)
    BY <1>7, <2>0, <2>1
  <2>2. CASE ~closed /\ known' = TRUE /\ Goto(t, thread[t].then) /\ UNCHANGED docLock
    <3>1. \/ thread[t].then \in Sends /\ version = 0
          \/ thread[t].then = "number" /\ version >= 1
      BY <1>1, <2>0, <2>2 DEF BooksKept
    <3>2. docLock' = t /\ Stage' = thread[t].then
      <4>1. thread[t].then \in Holding
        BY <3>1 DEF Holding, Sends
      <4>. QED
        BY <1>6, <2>0, <2>2, <4>1
    <3>. QED
      BY <1>1, <2>0, <2>2, <3>1, <3>2 DEF BooksKept, Sends, Booking
  <2>. QED
    BY <1>9, <2>1, <2>2 DEF Initialized
<1>10. ASSUME NEW t \in Threads, SendOpen(t) \/ SendChange(t)
       PROVE  BooksKept'
  <2>0. /\ docLock = t /\ Stage \in Sends /\ UNCHANGED <<version, opened, closed, known>>
    BY <1>5, <1>10 DEF SendOpen, SendChange, At, Holding, Sends, books, life
  <2>1. CASE Fails(t)
    BY <1>7, <2>0, <2>1
  <2>2. CASE ~Fails(t)
    <3>1. docLock' = t /\ thread'[t].pc \in Booking
      BY ZenonT(40), <1>1, <1>10, <2>0, <2>2
         DEF SendOpen, SendChange, Broken, Goto, HeldRight, Locals, Booking, locks
    <3>2. Stage' \in Booking
      BY <3>1, LspAssumption DEF Stage
    <3>. QED
      BY <1>1, <2>0, <3>2 DEF BooksKept, Sends, Booking
  <2>. QED
    BY <2>1, <2>2
<1>11. ASSUME NEW t \in Threads, BookOpen(t) \/ BookChange(t)
       PROVE  BooksKept'
  <2>1. docLock' = Free /\ opened' = TRUE /\ version' = 1
    BY <1>11 DEF BookOpen, BookChange, Unlock
  <2>2. Stage' = "free"
    BY <2>1 DEF Stage
  <2>. QED
    BY <2>1, <2>2 DEF BooksKept, Sends, Booking
<1>12. ASSUME NEW t \in Threads, Number(t)
       PROVE  BooksKept'
  <2>0. /\ docLock = t /\ Stage = "number" /\ UNCHANGED <<opened, closed, known>>
        /\ version' = version + 1 /\ sent' = thread[t].text
        /\ Goto(t, "notify") /\ UNCHANGED docLock
    BY <1>5, <1>12 DEF Number, At, Holding, life, locks
  <2>1. docLock' = t /\ Stage' = "notify" /\ thread'[t].text = thread[t].text
    BY <1>6, <2>0 DEF Holding
  <2>2. version >= 1 /\ (known \/ closed)
    BY <1>1, <2>0 DEF BooksKept
  <2>. QED
    BY <1>1, <2>0, <2>1, <2>2 DEF BooksKept, Sends, Booking
<1>13. ASSUME NEW t \in Threads, Notify(t)
       PROVE  BooksKept'
  <2>1. docLock = t /\ UNCHANGED <<version, opened, closed>>
    BY <1>5, <1>13 DEF Notify, At, Holding, books, life
  <2>2. docLock' = Free
    BY <1>13, <2>1 DEF Notify, Unlock, Broken, Fails
  <2>. QED
    BY <1>3, <2>1, <2>2
<1>. QED
  BY <1>2, <1>4, <1>8, <1>9, <1>10, <1>11, <1>12, <1>13, StepsApart

-----------------------------------------------------------------------------
(* The messages and the document the server reads.                         *)

\* The messages at first: none, or the one that opens the document.
LEMMA WireAtFirst == Init => WireKept
<1> SUFFICES ASSUME Init PROVE WireKept
  OBVIOUS
<1>1. /\ doc.sane /\ Stage = "free" /\ sent \in Contents
      /\ inbox = <<>> => doc.version = version /\ doc.text = sent
      /\ inbox # <<>> => /\ inbox = <<WarmOpen>> /\ doc.version = 0 /\ version = 1 /\ sent = 0
  BY LspAssumption DEF Init, Stage, Contents, None
<1>2. CASE inbox = <<>>
  <2>1. TextsOf(inbox) = {}
    BY <1>2 DEF TextsOf
  <2>. QED
    BY <1>1, <1>2, <2>1 DEF WireKept, Due, Booking, Chain, Ends
<1>3. CASE inbox # <<>>
  <2>1. /\ inbox = <<WarmOpen>> /\ DOMAIN inbox = {1} /\ inbox[1] = WarmOpen
        /\ doc.version = 0 /\ version = 1 /\ sent = 0
    BY <1>1, <1>3
  <2>2. inbox[1].what = "open" /\ inbox[1].version = 1 /\ inbox[1].text = 0
    BY <2>1 DEF WarmOpen
  <2>3. TextsOf(inbox) = {1}
    BY <2>1, <2>2 DEF TextsOf
  <2>4. Chain(inbox, doc)
    BY <2>1, <2>2, <2>3 DEF Chain
  <2>5. Ends(inbox, doc, version, sent)
    BY <2>1, <2>2, <2>3 DEF Ends
  <2>. QED
    BY <1>1, <2>4, <2>5 DEF WireKept, Due, Booking
<1>. QED
  BY <1>2, <1>3

\* The server sees the document opened once and changed without a gap, and what
\* it will have read is what the books say, whatever step is taken.
LEMMA WireStep == IInv /\ [Next]_vars => WireKept'
<1> SUFFICES ASSUME IInv, [Next]_vars PROVE WireKept'
  OBVIOUS
<1>1. /\ HeldRight /\ HeldRight' /\ WireKept /\ BooksKept /\ LifeKept
      /\ version \in Nat /\ opened \in BOOLEAN /\ closed \in BOOLEAN /\ known \in BOOLEAN
      /\ inbox \in Seq(Messages) /\ doc \in Documents /\ disk \in Contents
      /\ doc' \in Documents /\ sent \in Contents
      /\ \A t \in Threads : thread[t].text \in Contents
  <2>1. disk \in Contents
    BY LspAssumption DEF IInv, Typed, TypeOK, Contents, None
  <2>. QED
    BY <2>1, HeldRightNow, HeldRightStep, TypedStep DEF IInv, Typed, TypeOK, Contents
<1>2. doc.sane /\ doc.version \in Nat
  BY <1>1 DEF WireKept, Documents
<1>3. ASSUME UNCHANGED doc, server' # "up"
      PROVE  WireKept'
  BY <1>2, <1>3 DEF WireKept
<1>4. ASSUME StageStays, NEW x, Due(x), UNCHANGED version,
             opened' => opened /\ sent' = sent,
             \A v, y : Ends(inbox, doc, v, y) => Ends(inbox', doc', v, y)
      PROVE  Due(x)'
  <2>1. /\ Stage' = Stage
        /\ Stage # "free" => thread'[docLock'] = thread[docLock]
    BY <1>4 DEF StageStays, Stage
  <2>2. CASE Stage \in Booking
    <3>1. Ends(inbox', doc', 1, x) /\ thread'[docLock'].text = x /\ Stage' \in Booking
      BY <1>4, <2>1, <2>2 DEF Due, Booking
    <3>. QED
      BY <3>1 DEF Due
  <2>3. CASE Stage = "notify"
    <3>1. Ends(inbox', doc', version' - 1, x) /\ Stage' = "notify"
      BY <1>4, <2>1, <2>3 DEF Due, Booking
    <3>. QED
      BY <3>1 DEF Due, Booking
  <2>4. CASE Stage \notin Booking /\ Stage # "notify"
    <3>1. /\ Ends(inbox', doc', version', x) /\ (opened' => sent' = x)
          /\ Stage' \notin Booking /\ Stage' # "notify"
      BY <1>4, <2>1, <2>4 DEF Due
    <3>. QED
      BY <3>1 DEF Due
  <2>. QED
    BY <2>2, <2>3, <2>4
<1>5. CASE ServerReads
  <2>1. /\ server = "up" /\ inbox # <<>> /\ inbox' = Tail(inbox) /\ UNCHANGED books
        /\ StageStays /\ Chain(inbox, doc)
    BY <1>1, <1>5, ApartStays DEF ServerReads, Apart, WireKept
  <2>2. PICK x \in Contents : Due(x)
    BY <1>1, <2>1 DEF WireKept
  <2>3. /\ doc'.sane /\ Chain(inbox', doc')
        /\ \A v, y : Ends(inbox, doc, v, y) => Ends(inbox', doc', v, y)
    <3>1. CASE Head(inbox).what = "ask"
      <4>1. UNCHANGED doc
        BY <1>5, <3>1 DEF ServerReads
      <4>. QED
        BY <1>1, <1>2, <2>1, <3>1, <4>1, ReadQuestion
    <3>2. CASE Head(inbox).what # "ask"
      <4> DEFINE m == Head(inbox)
      <4>1. doc' = [version |-> m.version, text |-> m.text,
                    sane |-> doc.sane /\ m.version = doc.version + 1
                             /\ (m.what = "open" <=> doc.version = 0)]
        BY <1>5, <3>2 DEF ServerReads
      <4>2. doc'.version = m.version /\ doc'.text = m.text
        BY <4>1
      <4>3. /\ m.version = doc.version + 1
            /\ m.what = "open" <=> m.version = 1
            /\ Chain(inbox', doc')
            /\ \A v, y : Ends(inbox, doc, v, y) => Ends(inbox', doc', v, y)
        BY <1>1, <2>1, <3>2, <4>2, ReadText
      <4> HIDE DEF m
      <4>4. doc'.sane
        <5>1. m.version = 1 <=> doc.version = 0
          BY <1>2, <4>3
        <5>2. m.what = "open" <=> doc.version = 0
          BY <4>3, <5>1
        <5>3. doc'.sane = (doc.sane /\ m.version = doc.version + 1
                           /\ (m.what = "open" <=> doc.version = 0))
          BY <4>1
        <5>. QED
          BY <1>2, <4>3, <5>2, <5>3
      <4>. QED
        BY <4>3, <4>4
    <3>. QED
      BY <3>1, <3>2
  <2>4. Due(x)'
    BY <1>4, <2>1, <2>2, <2>3 DEF books
  <2>. QED
    BY <2>2, <2>3, <2>4 DEF WireKept
<1>6. ASSUME StageStays, UNCHANGED <<server, doc, version>>,
             opened' => opened /\ sent' = sent,
             server = "up" /\ Chain(inbox, doc) =>
               /\ Chain(inbox', doc)
               /\ \A v, y : Ends(inbox, doc, v, y) => Ends(inbox', doc, v, y)
      PROVE  WireKept'
  <2>1. CASE server # "up"
    BY <1>3, <1>6, <2>1
  <2>2. CASE server = "up"
    <3>1. PICK x \in Contents : Due(x)
      BY <1>1, <2>2 DEF WireKept
    <3>2. /\ Chain(inbox', doc')
          /\ \A v, y : Ends(inbox, doc, v, y) => Ends(inbox', doc', v, y)
      BY <1>1, <1>6, <2>2 DEF WireKept
    <3>3. Due(x)'
      BY <1>4, <1>6, <3>1, <3>2
    <3>. QED
      BY <1>2, <1>6, <3>2, <3>3 DEF WireKept
  <2>. QED
    BY <2>1, <2>2
<1>7. ASSUME NEW t \in Threads, Request(t)
      PROVE  WireKept'
  <2>1. StageStays /\ UNCHANGED <<server, doc, version, opened, sent>>
    BY <1>7, ApartStays DEF Apart, Request, life, books
  <2>2. CASE UNCHANGED inbox
    BY <1>6, <2>1, <2>2
  <2>3. CASE ~UNCHANGED inbox
    <3> DEFINE m == [what |-> "ask", version |-> 0, text |-> None, by |-> t]
    <3>1. m \in Messages /\ m.what = "ask"
      BY LspAssumption DEF Messages, Contents, None
    <3>2. inbox' = Append(inbox, m)
      BY <1>7, <2>3 DEF Request, Sent, Broken
    <3> HIDE DEF m
    <3>3. Chain(inbox, doc) =>
            /\ Chain(inbox', doc)
            /\ \A v, y : Ends(inbox, doc, v, y) => Ends(inbox', doc, v, y)
      BY <1>1, <3>1, <3>2, QuestionsPass
    <3>. QED
      BY <1>6, <2>1, <3>3
  <2>. QED
    BY <2>2, <2>3
<1>8. CASE Apart
  <2>1. CASE ServerDies \/ StopClients
    BY <1>3, <2>1 DEF ServerDies, StopClients
  <2>2. CASE /\ ~ServerReads /\ ~ServerDies /\ ~StopClients
             /\ \A t \in Threads : ~Request(t)
    <3>1. /\ UNCHANGED <<server, inbox, doc, version>>
          /\ opened' => opened /\ sent' = sent
      <4>1. CASE TakeClients
        BY <4>1 DEF TakeClients, wire
      <4>2. CASE ~TakeClients
        <5>1. UNCHANGED <<server, inbox, doc, version, opened, sent>>
          BY <1>8, <2>2, <4>2
             DEF Apart, Touch, ServerReports, Listen, Close, vars, books, wire, life, Warm,
                 Diagnose, Ask, Edit, Begin, Check, Cached, Lock, Wait, Opened, TimedOut
        <5>. QED
          BY <5>1
      <4>. QED
        BY <4>1, <4>2
    <3>2. StageStays
      BY <1>8, ApartStays
    <3>. QED
      BY <1>6, <3>1, <3>2
  <2>. QED
    BY <1>5, <1>7, <1>8, <2>1, <2>2
<1>9. ASSUME NEW x \in Contents, NEW v \in Nat, Due(x), server = "up", UNCHANGED doc,
             NEW m \in Messages, inbox' = Append(inbox, m), m.what # "ask",
             m.version = v + 1, m.what = "open" <=> m.version = 1,
             Ends(inbox, doc, v, x)
      PROVE  /\ Chain(inbox', doc') /\ doc'.sane
             /\ Ends(inbox', doc', m.version, m.text)
  <2>1. Chain(inbox, doc)
    BY <1>1, <1>9 DEF WireKept
  <2>. QED
    BY <1>1, <1>2, <1>9, <2>1, ChainGrows
<1>10. ASSUME server' = "up", UNCHANGED <<server, inbox, doc>>,
              NEW x \in Contents, Due(x)'
       PROVE  WireKept'
  BY <1>1, <1>2, <1>10 DEF WireKept
<1>11. ASSUME NEW t \in Threads, thread[t].pc \in Holding
       PROVE  docLock = t /\ Stage = thread[t].pc /\ thread[t] \in Locals
  BY <1>1, <1>11, HolderHas DEF HeldRight
<1>12. ASSUME Stage \notin Booking \cup {"notify"}, Stage' \notin Booking \cup {"notify"},
              UNCHANGED <<server, inbox, doc, version>>, opened' => opened /\ sent' = sent
       PROVE  WireKept'
  <2>1. CASE server # "up"
    BY <1>3, <1>12, <2>1
  <2>2. CASE server = "up"
    <3>1. PICK x \in Contents : Due(x)
      BY <1>1, <2>2 DEF WireKept
    <3>2. Due(x)'
      BY <1>12, <3>1 DEF Due
    <3>. QED
      BY <1>10, <1>12, <2>2, <3>1, <3>2
  <2>. QED
    BY <2>1, <2>2
<1>13. ASSUME NEW t \in Threads, Lock(t) /\ docLock' = t
       PROVE  WireKept'
  <2>1. /\ UNCHANGED <<server, inbox, doc, version, opened, sent>>
        /\ docLock = Free /\ thread'[t].pc = "client"
    <3>1. thread'[t].pc = "client"
      BY <1>1, <1>13, LockTakes
    <3>. QED
      BY <1>13, <3>1 DEF Lock, life, books, wire
  <2>2. Stage = "free" /\ Stage' = "client"
    BY <1>13, <2>1, LspAssumption DEF Stage
  <2>. QED
    BY <1>12, <2>1, <2>2 DEF Booking
<1>14. ASSUME NEW t \in Threads, Client(t) \/ Initialized(t)
       PROVE  /\ docLock = t /\ Stage \in {"client", "initialize"}
              /\ UNCHANGED <<inbox, doc, version, opened, sent>>
              /\ Stage' \notin Booking \cup {"notify"}
  <2>1. /\ docLock = t /\ Stage = thread[t].pc /\ Stage \in {"client", "initialize"}
        /\ thread[t].then \in Sends \cup {"number"}
    BY <1>11, <1>14, ThenIsHeld DEF Client, Initialized, At, Holding
  <2>2. UNCHANGED <<inbox, doc, version, opened, sent>>
    BY <1>14 DEF Client, Initialized, books, wire
  <2>3. CASE Fails(t)
    <3>1. docLock' = Free
      BY <2>1, <2>3 DEF Fails
    <3>2. Stage' = "free"
      BY <3>1 DEF Stage
    <3>. QED
      BY <2>1, <2>2, <3>2 DEF Booking
  <2>4. CASE ~Fails(t)
    <3>1. docLock' = t /\ (Goto(t, thread[t].then) \/ Goto(t, "initialize"))
      BY <1>14, <2>1, <2>4 DEF Client, Initialized, locks
    <3>2. thread'[t].pc \in Sends \cup {"number", "initialize"}
      BY <1>1, <2>1, <3>1 DEF Goto, HeldRight, Locals
    <3>3. Stage' \notin Booking \cup {"notify"}
      BY <3>1, <3>2, LspAssumption DEF Stage, Sends, Booking
    <3>. QED
      BY <2>1, <2>2, <3>3
  <2>. QED
    BY <2>3, <2>4
<1>15. ASSUME NEW t \in Threads, Client(t)
       PROVE  WireKept'
  <2>1. /\ Stage \notin Booking \cup {"notify"} /\ Stage' \notin Booking \cup {"notify"}
        /\ UNCHANGED <<inbox, doc, version, opened, sent>>
    BY <1>14, <1>15 DEF Booking
  <2>2. UNCHANGED server \/ server' = "starting"
    BY <1>15 DEF Client
  <2>. QED
    BY <1>3, <1>12, <2>1, <2>2
<1>16. ASSUME NEW t \in Threads, Initialized(t)
       PROVE  WireKept'
  <2>1. /\ Stage' \notin Booking \cup {"notify"} /\ thread[t].pc = "initialize"
        /\ UNCHANGED <<inbox, doc, version, opened, sent>>
    BY <1>14, <1>16 DEF Initialized, At
  <2>2. CASE server' # "up"
    BY <1>3, <2>1, <2>2
  <2>3. CASE server' = "up"
    <3>1. ~closed /\ ~known
      <4>1. startLock = t
        BY <1>1, <2>1 DEF HeldRight
      <4>. QED
        BY <1>1, <1>16, <2>3, <4>1, LspAssumption DEF Initialized, LifeKept
    <3>2. version = 0 /\ doc.version = 0 /\ inbox = <<>> /\ ~opened
      BY <1>1, <3>1 DEF LifeKept, BooksKept
    <3>3. TextsOf(inbox) = {}
      BY <3>2 DEF TextsOf
    <3>4. Chain(inbox, doc) /\ Ends(inbox, doc, 0, doc.text) /\ doc.text \in Contents
      BY <1>1, <3>2, <3>3 DEF Chain, Ends, Documents
    <3>5. Chain(inbox', doc') /\ Ends(inbox', doc', version', doc.text) /\ ~opened'
      BY <2>1, <3>2, <3>4
    <3>6. Due(doc.text)'
      BY <2>1, <3>5 DEF Due
    <3>. QED
      BY <1>2, <2>1, <3>4, <3>5, <3>6 DEF WireKept
  <2>. QED
    BY <2>2, <2>3
<1>17. ASSUME NEW t \in Threads, SendOpen(t) \/ SendChange(t)
       PROVE  WireKept'
  <2>0. /\ docLock = t /\ Stage \in Sends /\ version = 0
        /\ UNCHANGED <<server, doc>>
    <3>1. thread[t].pc \in Sends
      BY <1>17 DEF SendOpen, SendChange, At, Sends
    <3>2. docLock = t /\ Stage \in Sends
      BY <1>11, <3>1 DEF Holding, Sends
    <3>. QED
      BY <1>1, <1>17, <3>2 DEF BooksKept, SendOpen, SendChange, life
  <2>1. CASE server # "up"
    BY <1>3, <2>0, <2>1
  <2>2. CASE server = "up"
    <3>1. PICK x \in Contents : Due(x)
      BY <1>1, <2>2 DEF WireKept
    <3>2. Ends(inbox, doc, 0, x)
      BY <2>0, <3>1 DEF Due, Sends, Booking
    <3>3. PICK y \in Contents :
            /\ inbox' = Append(inbox, [what |-> "open", version |-> 1, text |-> y, by |-> t])
            /\ thread'[t].text = y /\ thread'[t].pc \in Booking /\ UNCHANGED docLock
      <4>1. CASE SendOpen(t)
        <5>1. thread' = [thread EXCEPT ![t] = [@ EXCEPT !.text = disk, !.pc = "book open"]]
              /\ inbox' = Append(inbox, [what |-> "open", version |-> 1, text |-> disk, by |-> t])
              /\ UNCHANGED docLock
          BY <2>2, <4>1 DEF SendOpen, Sent, Broken, locks
        <5>2. thread'[t].text = disk /\ thread'[t].pc = "book open"
          BY <1>1, <5>1 DEF HeldRight, Locals
        <5>. QED
          BY <1>1, <5>1, <5>2 DEF Booking
      <4>2. CASE SendChange(t)
        <5>1. thread' = [thread EXCEPT ![t] = [@ EXCEPT !.pc = "book change"]]
              /\ inbox' = Append(inbox, [what |-> "open", version |-> 1,
                                         text |-> thread[t].text, by |-> t])
              /\ UNCHANGED docLock
          BY <2>2, <4>2 DEF SendChange, Sent, Broken, Goto, locks
        <5>2. thread'[t].text = thread[t].text /\ thread'[t].pc = "book change"
          BY <1>1, <5>1 DEF HeldRight, Locals
        <5>. QED
          BY <1>1, <5>1, <5>2 DEF Booking
      <4>. QED
        BY <1>17, <4>1, <4>2
    <3> DEFINE m == [what |-> "open", version |-> 1, text |-> y, by |-> t]
    <3>4. m \in Messages /\ m.what = "open" /\ m.version = 1 /\ m.text = y
      BY DEF Messages
    <3>5. inbox' = Append(inbox, m)
      BY <3>3
    <3> HIDE DEF m
    <3>6. /\ Chain(inbox', doc') /\ doc'.sane /\ Ends(inbox', doc', 1, y)
      BY <1>9, <2>0, <2>2, <3>1, <3>2, <3>4, <3>5
    <3>7. Stage' \in Booking /\ docLock' = t
      BY <2>0, <3>3, LspAssumption DEF Stage
    <3>8. Due(y)'
      BY <3>3, <3>6, <3>7 DEF Due
    <3>. QED
      BY <3>6, <3>8 DEF WireKept
  <2>. QED
    BY <2>1, <2>2
<1>18. ASSUME NEW t \in Threads, BookOpen(t) \/ BookChange(t)
       PROVE  WireKept'
  <2>0. /\ docLock = t /\ Stage \in Booking /\ UNCHANGED <<server, inbox, doc>>
        /\ docLock' = Free /\ version' = 1 /\ sent' = thread[t].text
    <3>1. thread[t].pc \in Booking
      BY <1>18 DEF BookOpen, BookChange, At, Booking
    <3>2. docLock = t /\ Stage \in Booking
      BY <1>11, <3>1 DEF Holding, Booking
    <3>. QED
      BY <1>18, <3>2 DEF BookOpen, BookChange, Unlock, life, wire
  <2>1. CASE server # "up"
    BY <1>3, <2>0, <2>1
  <2>2. CASE server = "up"
    <3>1. PICK x \in Contents : Due(x)
      BY <1>1, <2>2 DEF WireKept
    <3>2. Ends(inbox, doc, 1, x) /\ thread[t].text = x
      BY <2>0, <3>1 DEF Due
    <3>3. Stage' = "free"
      BY <2>0 DEF Stage
    <3>4. Ends(inbox', doc', version', x) /\ sent' = x
      BY <2>0, <3>2
    <3>5. Due(x)'
      BY <3>3, <3>4 DEF Due, Booking
    <3>. QED
      BY <1>10, <2>0, <2>2, <3>1, <3>5
  <2>. QED
    BY <2>1, <2>2
<1>19. ASSUME NEW t \in Threads, Number(t)
       PROVE  WireKept'
  <2>0. /\ docLock = t /\ Stage = "number" /\ UNCHANGED <<server, inbox, doc>>
        /\ docLock' = t /\ version' = version + 1
    BY <1>11, <1>19 DEF Number, At, Holding, life, wire, locks
  <2>1. thread'[t].pc = "notify"
    BY <1>1, <1>19 DEF Number, Goto, HeldRight, Locals
  <2>2. Stage' = "notify"
    BY <2>0, <2>1, LspAssumption DEF Stage
  <2>3. CASE server # "up"
    BY <1>3, <2>0, <2>3
  <2>4. CASE server = "up"
    <3>1. PICK x \in Contents : Due(x)
      BY <1>1, <2>4 DEF WireKept
    <3>2. Ends(inbox, doc, version, x)
      BY <2>0, <3>1 DEF Due, Booking
    <3>3. version' - 1 = version
      BY <1>1, <2>0
    <3>4. Ends(inbox', doc', version' - 1, x)
      BY <2>0, <3>2, <3>3
    <3>5. Due(x)'
      BY <2>2, <3>4 DEF Due, Booking
    <3>. QED
      BY <1>10, <2>0, <2>4, <3>1, <3>5
  <2>. QED
    BY <2>3, <2>4
<1>20. ASSUME NEW t \in Threads, Notify(t)
       PROVE  WireKept'
  <2>0. /\ docLock = t /\ Stage = "notify" /\ UNCHANGED <<server, doc, version, opened, sent>>
        /\ version >= 2 /\ (opened => sent = thread[t].text)
    <3>1. docLock = t /\ Stage = "notify"
      BY <1>11, <1>20 DEF Notify, At, Holding
    <3>. QED
      BY <1>1, <1>20, <3>1 DEF BooksKept, Notify, life, books
  <2>1. CASE server # "up"
    BY <1>3, <2>0, <2>1
  <2>2. CASE server = "up"
    <3>1. PICK x \in Contents : Due(x)
      BY <1>1, <2>2 DEF WireKept
    <3>2. Ends(inbox, doc, version - 1, x)
      BY <2>0, <3>1 DEF Due, Booking
    <3> DEFINE m == [what |-> "change", version |-> version, text |-> thread[t].text,
                     by |-> t]
    <3>3. /\ m \in Messages /\ m.what = "change" /\ m.version = version
          /\ m.text = thread[t].text
      BY <1>1 DEF Messages
    <3>4. inbox' = Append(inbox, m) /\ docLock' = Free
      BY <1>20, <2>2 DEF Notify, Sent, Broken, Unlock
    <3> HIDE DEF m
    <3>5. version - 1 \in Nat /\ version = (version - 1) + 1 /\ version # 1
      BY <1>1, <2>0
    <3>6. /\ Chain(inbox', doc') /\ doc'.sane
          /\ Ends(inbox', doc', version, thread[t].text)
      BY <1>9, <2>0, <2>2, <3>1, <3>2, <3>3, <3>4, <3>5
    <3>7. Stage' = "free"
      BY <3>4 DEF Stage
    <3>8. /\ Ends(inbox', doc', version', thread[t].text)
          /\ opened' => sent' = thread[t].text
      BY <2>0, <3>6
    <3>9. \A x1 : /\ Ends(inbox', doc', version', x1)
                  /\ opened' => sent' = x1
                  => Due(x1)'
      BY <3>7 DEF Due, Booking
    <3>10. \E x1 \in Contents : Due(x1)'
      BY <1>1, <3>8, <3>9
    <3>. QED
      BY <3>6, <3>10 DEF WireKept
  <2>. QED
    BY <2>1, <2>2
<1>. QED
  BY <1>8, <1>13, <1>15, <1>16, <1>17, <1>18, <1>19, <1>20, StepsApart

-----------------------------------------------------------------------------
(* The theorems.                                                           *)

\* The inductive invariant holds in every state the engine, its threads and the
\* server reach, whatever the interleaving of the threads, the deaths of the
\* server and the shutdown.
THEOREM Invariance == Spec => []IInv
<1>1. Init => IInv
  BY TypedAtFirst, LifeAtFirst, BooksAtFirst, WireAtFirst DEF IInv
<1>2. IInv /\ [Next]_vars => IInv'
  BY TypedStep, LifeStep, BooksStep, WireStep DEF IInv
<1>. QED
  BY <1>1, <1>2, PTL DEF Spec

\* The document lock is held by the thread that opens or changes the document
\* and by no other, and every variable has its type (lsp.py, _document_lock).
THEOREM LockIsExact == Spec => []TypeOK
<1>1. IInv => TypeOK
  BY DEF IInv, Typed
<1>. QED
  BY <1>1, Invariance, PTL

\* The server sees one didOpen and then changes numbered without a gap; when no
\* thread is at work on the document, what the books say was sent is what the
\* server will have read; and after shutdown_all no server is left (open_file,
\* change_file, sync_file, _client_for, shutdown_all).
THEOREM ServerStaysInStep == Spec => []ServerInStep
<1>1. ASSUME IInv
      PROVE  ServerInStep
  <2>1. ProtocolKept
    BY <1>1 DEF IInv, WireKept, ProtocolKept
  <2>2. ASSUME docLock = Free, server = "up", opened
        PROVE  sent = Final
    <3>1. Stage = "free" /\ inbox \in Seq(Messages)
      BY <1>1, <2>2 DEF Stage, IInv, Typed
    <3>2. PICK x \in Contents : Due(x)
      BY <1>1, <2>2 DEF IInv, WireKept
    <3>3. Ends(inbox, doc, version, x) /\ sent = x
      BY <2>2, <3>1, <3>2 DEF Due, Booking
    <3>. QED
      BY <3>1, <3>3, EndIsFinal
  <2>3. NoServerLeft
    BY <1>1 DEF IInv, LifeKept, NoServerLeft, Typed, TypeOK
  <2>. QED
    BY <2>1, <2>2, <2>3 DEF ServerInStep, BooksMatchServer
<1>. QED
  BY <1>1, Invariance, PTL

=============================================================================
