-------------------------- MODULE SubscriberProofs --------------------------
(***************************************************************************)
(* Proofs about a client's queue, for every capacity, ceiling and size of  *)
(* an event: what put() and get() keep true of it, and that it implements  *)
(* Channel, step by step.  The second part is about the chat that goes     *)
(* through such a queue (Connection), for any number of messages,          *)
(* sessions, snapshots and crashes.                                        *)
(***************************************************************************)
EXTENDS Subscriber, Connection, ListLemmas

-----------------------------------------------------------------------------
(* The size of what is queued.                                             *)

Items == [kind : Kinds, id : Nat, size : Nat]

\* g[n] is the size of the first n items of s.
Sums(s, g) == g = [i \in 0 .. Len(s) |-> IF i = 0 THEN 0 ELSE g[i - 1] + s[i].size]

\* There are such sums.
LEMMA SumsExist ==
  ASSUME NEW s \in Seq(Items)
  PROVE  \E g \in [0 .. Len(s) -> Nat] : Sums(s, g)
<1> DEFINE Upto(n, g) == /\ g[0] = 0
                         /\ \A i \in 1 .. n : g[i] = g[i - 1] + s[i].size
           Summed(n) == \E g \in [0 .. n -> Nat] : Upto(n, g)
           G == {n \in Nat : n <= Len(s) => Summed(n)}
<1>1. Len(s) \in Nat
  BY LenProperties
<1>2. \A i \in 1 .. Len(s) : s[i].size \in Nat
  <2>1. \A i \in 1 .. Len(s) : s[i] \in Items
    BY ElementOfSeq
  <2>2. \A e \in Items : e.size \in Nat
    BY DEF Items
  <2>. QED
    BY <2>1, <2>2
<1>3. 0 \in G
  <2>1. [i \in 0 .. 0 |-> 0] \in [0 .. 0 -> Nat] /\ Upto(0, [i \in 0 .. 0 |-> 0])
    OBVIOUS
  <2>. QED
    BY <2>1
<1>4. ASSUME NEW n \in G PROVE n + 1 \in G
  <2> SUFFICES ASSUME n + 1 <= Len(s) PROVE Summed(n + 1)
    <3> HIDE DEF Summed
    <3>. QED
      OBVIOUS
  <2>1. n \in Nat /\ n + 1 \in 1 .. Len(s)
    BY <1>1
  <2>2. PICK g \in [0 .. n -> Nat] : Upto(n, g)
    BY <1>1, <2>1
  <2> DEFINE h == [i \in 0 .. n + 1 |-> IF i = n + 1 THEN g[n] + s[n + 1].size ELSE g[i]]
  <2>3. h \in [0 .. n + 1 -> Nat]
    BY <1>2, <2>1, <2>2
  <2>4. h[0] = 0
    BY <2>1, <2>2
  <2>5. ASSUME NEW i \in 1 .. n + 1 PROVE h[i] = h[i - 1] + s[i].size
    <3>1. CASE i = n + 1
      <4>1. h[i] = g[n] + s[n + 1].size /\ h[i - 1] = g[n]
        BY <2>1, <3>1
      <4>. QED
        BY <3>1, <4>1
    <3>2. CASE i # n + 1
      <4>1. i \in 1 .. n
        BY <2>1, <3>2
      <4>2. i \in 0 .. n + 1 /\ i - 1 \in 0 .. n + 1 /\ i # n + 1 /\ i - 1 # n + 1
        BY <2>1, <4>1
      <4>3. h[i] = g[i] /\ h[i - 1] = g[i - 1]
        BY <4>2
      <4>. QED
        BY <2>2, <4>1, <4>3
    <3>. QED
      BY <3>1, <3>2
  <2> HIDE DEF h
  <2>. QED
    BY <2>3, <2>4, <2>5
<1>5. Len(s) \in G
  <2>1. G \in SUBSET Nat
    OBVIOUS
  <2> HIDE DEF G
  <2>. QED
    BY <1>1, <1>3, <1>4, <2>1, AllNumbers
<1>6. PICK g \in [0 .. Len(s) -> Nat] : Upto(Len(s), g)
  BY <1>1, <1>5
<1>7. Sums(s, g)
  BY <1>1, <1>6 DEF Sums
<1>. QED
  BY <1>7

SameSizes(s, t, n) == \A i \in 1 .. n : s[i].size = t[i].size

\* Sums agree as far as the sizes do.
LEMMA SumsAgree ==
  ASSUME NEW s, NEW t, NEW g, NEW h, Sums(s, g), Sums(t, h),
         Len(s) \in Nat, Len(t) \in Nat,
         NEW n \in Nat, n <= Len(s), n <= Len(t), SameSizes(s, t, n)
  PROVE  g[n] = h[n]
<1> DEFINE G == {m \in Nat : m <= n => g[m] = h[m]}
<1>1. 0 \in G
  BY DEF Sums
<1>2. ASSUME NEW m \in G PROVE m + 1 \in G
  <2> SUFFICES ASSUME m + 1 <= n PROVE g[m + 1] = h[m + 1]
    OBVIOUS
  <2>1. m \in Nat /\ g[m] = h[m] /\ m + 1 \in 1 .. n
    OBVIOUS
  <2>2. m + 1 \in 0 .. Len(s) /\ m + 1 \in 0 .. Len(t) /\ m + 1 # 0 /\ (m + 1) - 1 = m
    BY <2>1
  <2>3. g[m + 1] = g[m] + s[m + 1].size
    BY <2>2 DEF Sums
  <2>4. h[m + 1] = h[m] + t[m + 1].size
    BY <2>2 DEF Sums
  <2>5. s[m + 1].size = t[m + 1].size
    BY <2>1 DEF SameSizes
  <2>. QED
    BY <2>1, <2>3, <2>4, <2>5
<1>3. G \in SUBSET Nat
  OBVIOUS
<1>4. n \in G
  <2> HIDE DEF G
  <2>. QED
    BY <1>1, <1>2, <1>3, AllNumbers
<1>. QED
  BY <1>4

\* TotalSize is the last of the sums.
LEMMA TotalIsSum ==
  ASSUME NEW s \in Seq(Items), NEW g, Sums(s, g)
  PROVE  TotalSize(s) = g[Len(s)]
<1> DEFINE c == CHOOSE h : Sums(s, h)
<1>1. Sums(s, c)
  OBVIOUS
<1>2. TotalSize(s) = c[Len(s)]
  BY DEF TotalSize, Sums
<1>3. Len(s) \in Nat
  BY LenProperties
<1> HIDE DEF c
<1>4. c[Len(s)] = g[Len(s)]
  <2>1. SameSizes(s, s, Len(s))
    BY DEF SameSizes
  <2>. QED
    BY <1>1, <1>3, <2>1, SumsAgree
<1>. QED
  BY <1>2, <1>4

\* The sums of a sequence, with what defines them.
LEMMA SumsOf ==
  ASSUME NEW s \in Seq(Items)
  PROVE  \E g \in [0 .. Len(s) -> Nat] :
           /\ Sums(s, g)
           /\ g[0] = 0
           /\ \A i \in 1 .. Len(s) : g[i] = g[i - 1] + s[i].size
           /\ TotalSize(s) = g[Len(s)]
<1>1. PICK g \in [0 .. Len(s) -> Nat] : Sums(s, g)
  BY SumsExist
<1>2. Len(s) \in Nat
  BY LenProperties
<1>3. g[0] = 0 /\ \A i \in 1 .. Len(s) : g[i] = g[i - 1] + s[i].size
  <2> DEFINE e == [i \in 0 .. Len(s) |-> IF i = 0 THEN 0 ELSE g[i - 1] + s[i].size]
  <2>1. g = e
    BY <1>1 DEF Sums
  <2>2. e[0] = 0 /\ \A i \in 1 .. Len(s) : e[i] = g[i - 1] + s[i].size
    BY <1>2
  <2> HIDE DEF e
  <2>. QED
    BY <2>1, <2>2
<1>4. TotalSize(s) = g[Len(s)]
  BY <1>1, TotalIsSum
<1>. QED
  BY <1>1, <1>3, <1>4

\* The size of a queue is a number; put() adds the size of its event to it,
\* get() takes off that of the first event, a collapse exchanges the last.
LEMMA TotalOfNone ==
  /\ TotalSize(<<>>) = 0
  /\ \A s \in Seq(Items) : TotalSize(s) \in Nat
<1>1. ASSUME NEW s \in Seq(Items) PROVE TotalSize(s) \in Nat
  <2>1. Len(s) \in Nat
    BY LenProperties
  <2>. QED
    BY <2>1, SumsOf
<1>2. <<>> \in Seq(Items) /\ Len(<<>>) = 0
  BY EmptySeq
<1>3. TotalSize(<<>>) = 0
  BY <1>2, SumsOf
<1>. QED
  BY <1>1, <1>3

LEMMA TotalOfAppend ==
  ASSUME NEW s \in Seq(Items), NEW e \in Items
  PROVE  TotalSize(Append(s, e)) = TotalSize(s) + e.size
<1> DEFINE t == Append(s, e)
<1>1. /\ t \in Seq(Items) /\ Len(s) \in Nat /\ Len(t) = Len(s) + 1
      /\ t[Len(s) + 1] = e /\ \A i \in 1 .. Len(s) : t[i] = s[i]
  BY AppendProperties, LenProperties
<1> HIDE DEF t
<1>2. PICK g \in [0 .. Len(s) -> Nat] : Sums(s, g) /\ TotalSize(s) = g[Len(s)]
  BY SumsOf
<1>3. PICK h \in [0 .. Len(t) -> Nat] :
        /\ Sums(t, h) /\ TotalSize(t) = h[Len(t)]
        /\ \A i \in 1 .. Len(t) : h[i] = h[i - 1] + t[i].size
  BY <1>1, SumsOf
<1>4. g[Len(s)] = h[Len(s)]
  <2>1. Len(s) <= Len(s) /\ Len(s) <= Len(t) /\ Len(t) \in Nat
    BY <1>1
  <2>2. SameSizes(s, t, Len(s))
    BY <1>1 DEF SameSizes
  <2>3. Sums(s, g)
    BY <1>2
  <2>4. Sums(t, h)
    BY <1>3
  <2>. QED
    BY <1>1, <2>1, <2>2, <2>3, <2>4, SumsAgree
<1>5. Len(t) \in 1 .. Len(t) /\ Len(t) - 1 = Len(s)
  BY <1>1
<1>6. h[Len(t)] = h[Len(s)] + e.size
  BY <1>1, <1>3, <1>5
<1>. QED
  BY <1>2, <1>3, <1>4, <1>6 DEF t

LEMMA TotalOfTail ==
  ASSUME NEW s \in Seq(Items), s # <<>>
  PROVE  /\ Head(s) = s[1] /\ Head(s) \in Items /\ Tail(s) \in Seq(Items)
         /\ TotalSize(s) = Head(s).size + TotalSize(Tail(s))
<1> DEFINE t == Tail(s)
<1>1. Len(s) \in Nat /\ Len(s) > 0 /\ Head(s) = s[1] /\ s[1] \in Items
  BY LenProperties, EmptySeq, ElementOfSeq
<1>2. /\ t \in Seq(Items) /\ Len(t) = Len(s) - 1
      /\ \A i \in 1 .. Len(t) : t[i] = s[i + 1]
  BY <1>1, HeadTailProperties
<1> HIDE DEF t
<1>3. PICK g \in [0 .. Len(s) -> Nat] :
        /\ g[0] = 0 /\ TotalSize(s) = g[Len(s)]
        /\ \A i \in 1 .. Len(s) : g[i] = g[i - 1] + s[i].size
  BY SumsOf
<1>4. \A i \in 1 .. Len(s) : s[i].size \in Nat
  <2>1. \A i \in 1 .. Len(s) : s[i] \in Items
    BY ElementOfSeq
  <2>2. \A e \in Items : e.size \in Nat
    BY DEF Items
  <2>. QED
    BY <2>1, <2>2
<1> DEFINE a == s[1].size
           d == [i \in 0 .. Len(t) |-> g[i + 1] - a]
<1>5. g[1] = a /\ a \in Nat
  <2>1. 1 \in 1 .. Len(s) /\ 1 - 1 = 0
    BY <1>1
  <2>2. g[1] = g[0] + s[1].size
    BY <1>3, <2>1
  <2>. QED
    BY <1>3, <1>4, <2>1, <2>2
<1>6. d[0] = 0
  <2>1. 0 \in 0 .. Len(t) /\ d[0] = g[1] - a
    BY <1>1, <1>2
  <2>. QED
    BY <1>5, <2>1
<1>7. ASSUME NEW i \in 1 .. Len(t) PROVE d[i] = d[i - 1] + t[i].size
  <2>1. i \in 0 .. Len(t) /\ i - 1 \in 0 .. Len(t) /\ i + 1 \in 1 .. Len(s) /\ i \in 0 .. Len(s)
    BY <1>1, <1>2
  <2>2. d[i] = g[i + 1] - a /\ d[i - 1] = g[i] - a
    BY <2>1
  <2>3. g[i + 1] = g[i] + s[i + 1].size
    BY <1>3, <2>1
  <2>4. g[i] \in Nat /\ s[i + 1].size \in Nat /\ t[i] = s[i + 1]
    BY <1>2, <1>4, <2>1
  <2> HIDE DEF d, a
  <2>. QED
    BY <1>5, <2>2, <2>3, <2>4
<1>8. Sums(t, d)
  <2>1. DOMAIN d = 0 .. Len(t)
    OBVIOUS
  <2>2. d = [i \in 0 .. Len(t) |-> d[i]]
    OBVIOUS
  <2>3. ASSUME NEW i \in 0 .. Len(t) PROVE d[i] = IF i = 0 THEN 0 ELSE d[i - 1] + t[i].size
    <3>1. i # 0 => i \in 1 .. Len(t)
      BY <1>1, <1>2
    <3> HIDE DEF d
    <3>. QED
      BY <1>6, <1>7, <3>1
  <2> HIDE DEF d
  <2>. QED
    BY <2>2, <2>3 DEF Sums
<1>9. TotalSize(t) = d[Len(t)]
  <2> HIDE DEF d
  <2>. QED
    BY <1>2, <1>8, TotalIsSum
<1>10. d[Len(t)] = g[Len(s)] - a
  BY <1>1, <1>2
<1>11. g[Len(s)] \in Nat
  BY <1>1, <1>3
<1> HIDE DEF d
<1>12. TotalSize(s) = a + TotalSize(t)
  BY <1>3, <1>5, <1>9, <1>10, <1>11
<1>. QED
  BY <1>1, <1>2, <1>12 DEF a, t

LEMMA TotalOfLast ==
  ASSUME NEW s \in Seq(Items), s # <<>>, NEW e \in Items
  PROVE  \E u \in Seq(Items) :
           /\ u = [s EXCEPT ![Len(s)] = e]
           /\ Len(u) = Len(s)
           /\ u[Len(s)] = e /\ \A i \in 1 .. Len(s) - 1 : u[i] = s[i]
           /\ s[Len(s)] \in Items
           /\ TotalSize(s) - s[Len(s)].size \in Nat
           /\ TotalSize(u) = TotalSize(s) - s[Len(s)].size + e.size
<1>1. PICK n \in Nat : n = Len(s)
  BY LenProperties
<1>2. n > 0 /\ n \in 1 .. n /\ s[n] \in Items
  BY <1>1, EmptySeq, ElementOfSeq
<1>3. PICK u \in Seq(Items) :
        /\ u = [s EXCEPT ![n] = e] /\ Len(u) = n
        /\ \A j \in 1 .. n : u[j] = IF j = n THEN e ELSE s[j]
  <2> DEFINE u == [s EXCEPT ![n] = e]
  <2>1. n \in 1 .. Len(s)
    BY <1>1, <1>2
  <2>2. /\ u \in Seq(Items) /\ Len(u) = Len(s)
        /\ \A j \in 1 .. Len(s) : u[j] = IF j = n THEN e ELSE s[j]
    BY <2>1, ExceptSeq
  <2>3. u = [s EXCEPT ![n] = e]
    OBVIOUS
  <2> HIDE DEF u
  <2>. QED
    BY <1>1, <2>2, <2>3
<1>4. u[n] = e /\ \A i \in 1 .. n - 1 : u[i] = s[i]
  <2>1. \A j \in 1 .. n : u[j] = IF j = n THEN e ELSE s[j]
    BY <1>3
  <2>. QED
    BY <1>2, <2>1
<1>5. PICK g \in [0 .. n -> Nat] :
        /\ Sums(s, g) /\ TotalSize(s) = g[n]
        /\ \A i \in 1 .. n : g[i] = g[i - 1] + s[i].size
  BY <1>1, SumsOf
<1>6. PICK h \in [0 .. n -> Nat] :
        /\ Sums(u, h) /\ TotalSize(u) = h[n]
        /\ \A i \in 1 .. n : h[i] = h[i - 1] + u[i].size
  <2>1. \E h \in [0 .. Len(u) -> Nat] :
          /\ Sums(u, h)
          /\ h[0] = 0
          /\ \A i \in 1 .. Len(u) : h[i] = h[i - 1] + u[i].size
          /\ TotalSize(u) = h[Len(u)]
    BY SumsOf
  <2>2. Len(u) = n
    BY <1>3
  <2>. QED
    BY <2>1, <2>2
<1>7. g[n - 1] = h[n - 1]
  <2>1. PICK m \in Nat : m = n - 1
    BY <1>2
  <2>2. m <= Len(s) /\ m <= Len(u) /\ Len(s) \in Nat /\ Len(u) \in Nat
    BY <1>1, <1>2, <1>3, <2>1
  <2>3. SameSizes(s, u, m)
    BY <1>4, <2>1 DEF SameSizes
  <2>4. Sums(s, g)
    BY <1>5
  <2>5. Sums(u, h)
    BY <1>6
  <2>6. g[m] = h[m]
    BY SMTT(30), <2>2, <2>3, <2>4, <2>5, SumsAgree
  <2>. QED
    BY <2>1, <2>6
<1>8. n - 1 \in 0 .. n
  BY <1>2
<1>9. g[n] = g[n - 1] + s[n].size /\ h[n] = h[n - 1] + e.size /\ g[n - 1] \in Nat
  BY <1>2, <1>4, <1>5, <1>6, <1>8
<1>10. s[n].size \in Nat /\ e.size \in Nat
  BY <1>2 DEF Items
<1>11. TotalSize(s) - s[n].size = g[n - 1] /\ TotalSize(u) = TotalSize(s) - s[n].size + e.size
  BY <1>5, <1>6, <1>7, <1>9, <1>10
<1>. QED
  BY <1>1, <1>2, <1>3, <1>4, <1>9, <1>11

-----------------------------------------------------------------------------
(* What an eviction takes out.                                             *)

\* The droppable events have a last one.
LEMMA LastDelta ==
  ASSUME TypeOK, Deltas # {}
  PROVE  \E m \in Deltas : {j \in Deltas : j > m} = {}
<1>1. PICK n \in Nat : Deltas \in SUBSET (1 .. n)
  BY LenProperties DEF TypeOK, Deltas
<1> DEFINE Behind == {b \in Nat : \E i \in Deltas : b = n - i}
<1>2. Behind # {}
  <2>1. PICK i \in Deltas : TRUE
    OBVIOUS
  <2>2. n - i \in Nat
    BY <1>1, <2>1
  <2>. QED
    BY <2>1, <2>2
<1>3. PICK b \in Behind : \A k \in Behind : b <= k
  <2>1. Behind \in SUBSET Nat
    OBVIOUS
  <2> HIDE DEF Behind
  <2>. QED
    BY <1>2, <2>1, LeastNumber
<1>4. PICK m \in Deltas : b = n - m
  BY <1>3
<1>5. ASSUME NEW j \in Deltas PROVE ~ (j > m)
  <2>1. j \in 1 .. n /\ m \in 1 .. n
    BY <1>1
  <2>2. n - j \in Behind
    BY <2>1
  <2>3. n - m <= n - j
    BY <1>3, <1>4, <2>2
  <2>. QED
    BY <2>1, <2>3
<1>6. {j \in Deltas : j > m} = {}
  BY <1>5
<1>. QED
  BY <1>6

\* Nothing is taken out exactly when the number of evictions is zero.
LEMMA NewestProperties ==
  ASSUME TypeOK, NEW k \in Nat
  PROVE  /\ Cardinality(Deltas) \in Nat
         /\ NewestDeltas(k) \in SUBSET Deltas
         /\ k = 0 => NewestDeltas(k) = {}
         /\ k > 0 /\ Deltas # {} => NewestDeltas(k) # {}
<1>1. Len(items) \in Nat /\ Deltas \in SUBSET (1 .. Len(items))
  BY LenProperties DEF TypeOK, Deltas
<1>2. \A i : Cardinality({j \in Deltas : j > i}) \in Nat
  <2>1. ASSUME NEW i PROVE {j \in Deltas : j > i} \in SUBSET (1 .. Len(items))
    BY <1>1
  <2>. QED
    BY <1>1, <2>1, PlacesAreFinite
<1>3. k = 0 => NewestDeltas(k) = {}
  BY <1>2 DEF NewestDeltas
<1>4. ASSUME k > 0, Deltas # {} PROVE NewestDeltas(k) # {}
  <2>1. PICK m \in Deltas : {j \in Deltas : j > m} = {}
    BY <1>4, LastDelta
  <2>2. Cardinality({j \in Deltas : j > m}) = 0
    BY <2>1, FS_EmptySet
  <2>3. m \in NewestDeltas(k)
    BY <1>4, <2>2 DEF NewestDeltas
  <2>. QED
    BY <2>3
<1>5. Cardinality(Deltas) \in Nat
  BY <1>1, PlacesAreFinite
<1>. QED
  BY <1>3, <1>4, <1>5 DEF NewestDeltas

\* How many events put() evicts for an event of this size.
Evict(size) == IF OverCeiling(Len(items), bytes, size) THEN Evicted(size) ELSE 0

\* put() evicts none but droppable events; in a queue that is full of items it
\* evicts at least one, if there is one.
LEMMA EvictProperties ==
  ASSUME TypeOK, NEW size
  PROVE  /\ Evict(size) \in Nat
         /\ NewestDeltas(Evict(size)) \in SUBSET Deltas
         /\ Evict(size) > 0 <=> NewestDeltas(Evict(size)) # {}
         /\ Len(items) >= Capacity /\ Evict(size) = 0 => Deltas = {}
<1> DEFINE Enough(k) == ~OverCeiling(Len(Without(k)), BytesWithout(k), size)
           all == Cardinality(Deltas)
           T == {k \in 0 .. all : Enough(k)}
           least == CHOOSE k \in 0 .. all : Enough(k) /\ \A j \in 0 .. (k - 1) : ~Enough(j)
<1>1. all \in Nat
  BY NewestProperties
<1>2. Evicted(size) = IF \E k \in 0 .. all : Enough(k) THEN least ELSE all
  BY DEF Evicted
<1> HIDE DEF Enough, all
<1>3. ASSUME \E k \in 0 .. all : Enough(k)
      PROVE  least \in 0 .. all /\ Enough(least)
  <2>1. T \in SUBSET Nat /\ T # {}
    BY <1>1, <1>3
  <2>2. PICK m \in T : \A k \in T : m <= k
    <3> HIDE DEF T
    <3>. QED
      BY <2>1, LeastNumber
  <2>3. m \in 0 .. all /\ Enough(m)
    OBVIOUS
  <2>4. \A j \in 0 .. (m - 1) : ~Enough(j)
    BY <1>1, <2>2, <2>3
  <2>. QED
    BY <2>3, <2>4
<1> HIDE DEF T, least
<1>4. Evicted(size) \in 0 .. all
  BY <1>1, <1>2, <1>3
<1>5. Evict(size) \in 0 .. all
  BY <1>1, <1>4 DEF Evict
<1>6. all > 0 => Deltas # {}
  BY FS_EmptySet DEF all
<1>7. all = 0 => Deltas = {}
  <2>1. Len(items) \in Nat /\ Deltas \in SUBSET (1 .. Len(items))
    BY LenProperties DEF TypeOK, Deltas
  <2>2. IsFiniteSet(Deltas)
    BY <2>1, PlacesAreFinite
  <2>. QED
    BY <2>2, FS_EmptySet DEF all
<1>8. Evict(size) > 0 <=> NewestDeltas(Evict(size)) # {}
  <2>1. Evict(size) \in Nat
    BY <1>1, <1>5
  <2>2. Evict(size) > 0 => Deltas # {}
    BY <1>1, <1>5, <1>6
  <2>. QED
    BY <2>1, <2>2, NewestProperties
<1>9. ASSUME Len(items) >= Capacity, Evict(size) = 0 PROVE Deltas = {}
  <2>1. Len(items) \in Nat /\ Capacity \in Nat
    BY SubscriberAssumption, LenProperties DEF TypeOK
  <2>2. Evicted(size) = 0
    BY <1>9, <2>1 DEF Evict, OverCeiling
  <2>3. ~Enough(0)
    <3>1. NewestDeltas(0) = {}
      BY NewestProperties
    <3>2. Without(0) = items
      BY <3>1, ButNothing DEF Without, TypeOK
    <3>. QED
      BY <1>9, <2>1, <3>2 DEF Enough, OverCeiling
  <2>4. all = 0
    BY <1>2, <1>3, <2>2, <2>3
  <2>. QED
    BY <1>7, <2>4
<1>. QED
  BY <1>1, <1>5, <1>8, <1>9, NewestProperties

-----------------------------------------------------------------------------
(* The inductive invariant.                                                *)

\* An event keeps its kind: what is queued as a full event was put as one, and
\* no droppable event, notice or warning has the number of one.
KindsKept ==
  \A i \in 1 .. Len(items) :
    IF items[i].kind = "full" THEN items[i].id \in fulls
                              ELSE items[i].id \notin fulls /\ items[i].id <= puts

IInv == QueueSound /\ KindsKept

\* What put() does with an event that is not droppable: it goes behind what is
\* left of the queue without some droppable events, or it and the last event
\* give way to a notice, in a queue full of others.
LEMMA FullStep ==
  ASSUME IInv, NEW size \in Sizes, PutFull(size)
  PROVE  \/ \E S \in SUBSET Deltas :
              /\ Len(But(items, S)) < Capacity
              /\ items' = Append(But(items, S), Event("full", puts', size))
              /\ bytes' = TotalSize(items')
              /\ dropped' \in Nat
              /\ dropped' > 0 <=> dropped > 0 \/ S # {}
              /\ UNCHANGED overflowed
         \/ /\ Deltas = {}
            /\ Len(items) = Capacity
            /\ items' = [items EXCEPT ![Len(items)] = Event("notice", 0, OwnSize)]
            /\ bytes' = TotalSize(items')
            /\ dropped' = dropped + 1
            /\ overflowed' = TRUE
<1> DEFINE e == Evict(size)
           S == NewestDeltas(e)
           kept == But(items, S)
           left == BytesWithout(e)
<1>1. /\ puts' = puts + 1
      /\ IF Len(kept) < Capacity
         THEN /\ items' = Append(kept, Event("full", puts', size))
              /\ bytes' = left + size
              /\ dropped' = dropped + e
              /\ UNCHANGED overflowed
         ELSE /\ items' = [kept EXCEPT ![Len(kept)] = Event("notice", 0, OwnSize)]
              /\ bytes' = Minus(left, Last(kept).size) + OwnSize
              /\ dropped' = dropped + e + 1
              /\ overflowed' = TRUE
  BY DEF PutFull, Without, Evict
<1>2. /\ TypeOK /\ items \in Seq(Items) /\ Len(items) \in Nat /\ Len(items) <= Capacity
      /\ dropped \in Nat /\ puts \in Nat /\ bytes = TotalSize(items)
      /\ Capacity \in Nat \ {0} /\ OwnSize \in Nat /\ size \in Nat /\ puts' \in Nat
  BY <1>1, SubscriberAssumption, LenProperties
     DEF IInv, QueueSound, TypeOK, Items, BytesExact
<1>3. /\ e \in Nat /\ S \in SUBSET Deltas /\ (e > 0 <=> S # {})
      /\ (Len(items) >= Capacity /\ e = 0 => Deltas = {})
  BY <1>2, EvictProperties
<1>4. S \in SUBSET DOMAIN items
  BY <1>2, <1>3, LenProperties DEF Deltas
<1>5. kept \in Seq(Items) /\ Len(kept) = Len(items) - Cardinality(S) /\ Cardinality(S) \in Nat
  <2> HIDE DEF S
  <2>. QED
    BY <1>2, <1>4, ButProperties
<1>6. TotalSize(items) \in Nat /\ TotalSize(kept) \in Nat
  BY <1>2, <1>5, TotalOfNone
<1>7. left = TotalSize(kept)
  BY <1>2, <1>6 DEF BytesWithout, Minus, Without
<1>8. IsFiniteSet(S)
  <2>1. S \in SUBSET (1 .. Len(items))
    BY <1>2, <1>4, LenProperties
  <2> HIDE DEF S
  <2>. QED
    BY <1>2, <2>1, PlacesAreFinite
<1>9. Cardinality(S) = 0 => S = {}
  BY <1>8, FS_EmptySet
<1> HIDE DEF e, S, left
<1>10. CASE Len(kept) < Capacity
  <2>1. Event("full", puts', size) \in Items /\ Event("full", puts', size).size = size
    BY <1>2 DEF Event, Items, Kinds
  <2>2. bytes' = TotalSize(items')
    BY <1>1, <1>5, <1>7, <1>10, <2>1, TotalOfAppend
  <2>3. dropped' \in Nat /\ (dropped' > 0 <=> dropped > 0 \/ S # {})
    BY <1>1, <1>2, <1>3, <1>10
  <2>. QED
    BY <1>1, <1>3, <1>10, <2>2, <2>3
<1>11. CASE ~ (Len(kept) < Capacity)
  <2>1. S = {} /\ Len(items) = Capacity
    BY <1>2, <1>5, <1>9, <1>11
  <2>2. e = 0 /\ Deltas = {}
    BY <1>2, <1>3, <2>1
  <2>3. kept = items
    BY <1>2, <2>1, ButNothing
  <2>4. Event("notice", 0, OwnSize) \in Items /\ Event("notice", 0, OwnSize).size = OwnSize
    BY <1>2 DEF Event, Items, Kinds
  <2>5. items # <<>>
    BY <1>2, <2>1, EmptySeq
  <2>6. /\ items' = [items EXCEPT ![Len(items)] = Event("notice", 0, OwnSize)]
        /\ bytes' = Minus(left, Last(items).size) + OwnSize
        /\ dropped' = dropped + 1
        /\ overflowed' = TRUE
    BY <1>1, <1>2, <1>11, <2>2, <2>3
  <2> DEFINE notice == Event("notice", 0, OwnSize)
  <2>7. PICK u \in Seq(Items) :
          /\ u = [items EXCEPT ![Len(items)] = notice]
          /\ items[Len(items)] \in Items
          /\ TotalSize(items) - items[Len(items)].size \in Nat
          /\ TotalSize(u) = TotalSize(items) - items[Len(items)].size + OwnSize
    <3>1. notice \in Items /\ notice.size = OwnSize
      BY <2>4
    <3> HIDE DEF notice
    <3>2. ASSUME NEW s \in Seq(Items), s # <<>>, NEW w \in Items
          PROVE  \E u \in Seq(Items) :
                   /\ u = [s EXCEPT ![Len(s)] = w]
                   /\ s[Len(s)] \in Items
                   /\ TotalSize(s) - s[Len(s)].size \in Nat
                   /\ TotalSize(u) = TotalSize(s) - s[Len(s)].size + w.size
      BY <3>2, TotalOfLast
    <3>. QED
      BY <1>2, <2>5, <3>1, <3>2
  <2>8. Minus(left, Last(items).size) = TotalSize(items) - items[Len(items)].size
    <3>1. items[Len(items)].size \in Nat
      BY <2>7 DEF Items
    <3>. QED
      BY <1>6, <1>7, <2>3, <2>7, <3>1 DEF Minus, Last
  <2>9. bytes' = TotalSize(items')
    BY <2>6, <2>7, <2>8
  <2>. QED
    BY <2>1, <2>2, <2>6, <2>9
<1>. QED
  BY <1>10, <1>11

\* What get() does when it finds an event.
LEMMA GetStep ==
  ASSUME IInv, Get
  PROVE  /\ items # <<>> /\ Head(items) = items[1] /\ Tail(items) \in Seq(Items)
         /\ Len(Tail(items)) = Len(items) - 1
         /\ \A i \in 1 .. Len(Tail(items)) : Tail(items)[i] = items[i + 1]
         /\ \/ items' = Tail(items) /\ UNCHANGED <<dropped, overflowed>>
            \/ /\ items' = Append(Tail(items), Event("warning", 0, OwnSize))
               /\ dropped > 0 /\ dropped' = 0 /\ overflowed' = FALSE
         /\ bytes' = TotalSize(items')
<1>1. items # <<>> /\ items \in Seq(Items) /\ bytes = TotalSize(items) /\ OwnSize \in Nat
  BY SubscriberAssumption DEF Get, IInv, QueueSound, TypeOK, Items, BytesExact
<1>2. /\ Head(items) = items[1] /\ Head(items) \in Items /\ Tail(items) \in Seq(Items)
      /\ TotalSize(items) = Head(items).size + TotalSize(Tail(items))
  BY <1>1, TotalOfTail
<1>3. /\ Len(Tail(items)) = Len(items) - 1
      /\ \A i \in 1 .. Len(Tail(items)) : Tail(items)[i] = items[i + 1]
  BY <1>1, HeadTailProperties
<1>4. Minus(bytes, Head(items).size) = TotalSize(Tail(items))
  <2>1. Head(items).size \in Nat /\ TotalSize(Tail(items)) \in Nat
    BY <1>2, TotalOfNone DEF Items
  <2>. QED
    BY <1>1, <1>2, <2>1 DEF Minus
<1>5. \/ /\ items' = Tail(items) /\ UNCHANGED <<dropped, overflowed>>
         /\ bytes' = Minus(bytes, Head(items).size)
      \/ /\ items' = Append(Tail(items), Event("warning", 0, OwnSize))
         /\ dropped > 0 /\ dropped' = 0 /\ overflowed' = FALSE
         /\ bytes' = Minus(bytes, Head(items).size) + OwnSize
  BY DEF Get
<1>6. Event("warning", 0, OwnSize) \in Items /\ Event("warning", 0, OwnSize).size = OwnSize
  BY <1>1 DEF Event, Items, Kinds
<1>7. bytes' = TotalSize(items')
  BY <1>2, <1>4, <1>5, <1>6, TotalOfAppend
<1>. QED
  BY <1>1, <1>2, <1>3, <1>5, <1>7

\* What put() and the scheduler start from.
LEMMA StartsSound == Init => IInv
<1> SUFFICES ASSUME Init PROVE IInv
  OBVIOUS
<1>1. items = <<>> /\ Len(items) = 0 /\ items \in Seq(Items)
  BY EmptySeq DEF Init
<1>2. TypeOK
  <2>1. items \in Seq([kind : Kinds, id : Nat, size : Nat]) /\ Len(items) <= Capacity
    BY <1>1, SubscriberAssumption DEF Items
  <2>2. /\ bytes = 0 /\ dropped = 0 /\ overflowed = FALSE /\ wakeup = FALSE
        /\ reader = "running" /\ puts = 0 /\ fulls = {} /\ delivered = {} /\ gap = FALSE
    BY DEF Init
  <2>3. bytes \in Nat /\ dropped \in Nat /\ puts \in 0 .. MaxPuts
    BY <2>2, SubscriberAssumption
  <2>4. fulls \subseteq 1 .. puts /\ delivered \subseteq fulls /\ reader \in {"running", "blocked"}
    BY <2>2
  <2>5. overflowed \in BOOLEAN /\ wakeup \in BOOLEAN /\ gap \in BOOLEAN
    BY <2>2
  <2>. QED
    BY <2>1, <2>3, <2>4, <2>5 DEF TypeOK
<1>3. BytesExact
  BY <1>1, TotalOfNone DEF Init, BytesExact
<1>. QED
  BY <1>1, <1>2, <1>3 DEF Init, IInv, QueueSound, NoSilentLoss, NoLostWakeup, KindsKept

\* A streaming event is dropped, or is behind all others and wakes the reader.
LEMMA PutDeltaKeeps ==
  ASSUME IInv, NEW size \in Sizes, PutDelta(size)
  PROVE  IInv'
<1>1. /\ items \in Seq(Items) /\ Len(items) \in Nat /\ Len(items) <= Capacity
      /\ bytes = TotalSize(items) /\ size \in Nat /\ puts \in Nat /\ puts' \in Nat
      /\ puts' = puts + 1 /\ puts' \in 0 .. MaxPuts /\ Capacity \in Nat /\ dropped \in Nat
      /\ fulls \subseteq 1 .. puts /\ TotalSize(items) \in Nat
  BY SubscriberAssumption, LenProperties, TotalOfNone
     DEF PutDelta, IInv, QueueSound, TypeOK, BytesExact, Items
<1>2. \A i \in 1 .. Len(items) : items[i] \in Items
  BY <1>1, ElementOfSeq
<1>3. UNCHANGED <<overflowed, reader, fulls, delivered, gap>>
  BY DEF PutDelta
<1>4. CASE dropped' = dropped + 1 /\ UNCHANGED <<items, bytes, wakeup>>
  <2>1. TypeOK'
    BY <1>1, <1>3, <1>4 DEF IInv, QueueSound, TypeOK, Items
  <2>2. (BytesExact /\ NoSilentLoss /\ NoLostWakeup)'
    BY <1>3, <1>4 DEF IInv, QueueSound, BytesExact, NoSilentLoss, NoLostWakeup, TotalSize
  <2>3. KindsKept'
    <3>1. \A i \in 1 .. Len(items) : items[i].id \in Nat
      BY <1>2 DEF Items
    <3>. QED
      BY <1>1, <1>3, <1>4, <3>1 DEF IInv, KindsKept
  <2>. QED
    BY <2>1, <2>2, <2>3 DEF IInv, QueueSound
<1>5. CASE /\ items' = Append(items, Event("delta", puts', size))
           /\ bytes' = bytes + size /\ wakeup' = TRUE /\ UNCHANGED dropped
           /\ Len(items) < Capacity
  <2> DEFINE e == Event("delta", puts', size)
  <2>1. e \in Items /\ e.kind = "delta" /\ e.id = puts' /\ e.size = size
    BY <1>1 DEF Event, Items, Kinds
  <2> HIDE DEF e
  <2>2. /\ items' \in Seq(Items) /\ Len(items') = Len(items) + 1
        /\ \A i \in 1 .. Len(items) : items'[i] = items[i]
        /\ items'[Len(items) + 1] = e
        /\ TotalSize(items') = TotalSize(items) + e.size
    BY <1>1, <1>5, <2>1, AppendProperties, TotalOfAppend DEF e
  <2>3. TypeOK'
    BY <1>1, <1>3, <1>5, <2>2 DEF IInv, QueueSound, TypeOK, Items
  <2>4. BytesExact'
    BY <1>1, <1>5, <2>1, <2>2 DEF BytesExact
  <2>5. NoSilentLoss'
    BY <1>1, <1>3, <2>2 DEF IInv, QueueSound, NoSilentLoss
  <2>6. NoLostWakeup'
    BY <1>5 DEF NoLostWakeup
  <2>7. KindsKept'
    <3>1. \A i \in 1 .. Len(items) : items[i].id \in Nat
      BY <1>2 DEF Items
    <3>2. \A i \in 1 .. Len(items') : i \in 1 .. Len(items) \/ i = Len(items) + 1
      BY <1>1, <2>2
    <3>. QED
      BY <1>1, <1>3, <2>1, <2>2, <3>1, <3>2 DEF IInv, KindsKept
  <2>. QED
    BY <2>3, <2>4, <2>5, <2>6, <2>7 DEF IInv, QueueSound
<1>6. \/ dropped' = dropped + 1 /\ UNCHANGED <<items, bytes, wakeup>>
      \/ /\ items' = Append(items, Event("delta", puts', size))
         /\ bytes' = bytes + size /\ wakeup' = TRUE /\ UNCHANGED dropped
         /\ Len(items) < Capacity
  BY <1>1 DEF PutDelta, OverCeiling
<1>. QED
  BY <1>4, <1>5, <1>6

\* An event that is not droppable takes the place of droppable events only, or
\* leaves a notice.
LEMMA PutFullKeeps ==
  ASSUME IInv, NEW size \in Sizes, PutFull(size)
  PROVE  IInv'
<1>1. /\ TypeOK /\ items \in Seq(Items) /\ Len(items) \in Nat /\ Len(items) <= Capacity
      /\ DOMAIN items = 1 .. Len(items)
      /\ size \in Nat /\ OwnSize \in Nat /\ puts \in Nat /\ puts' \in Nat /\ puts' \in 0 .. MaxPuts
      /\ puts' = puts + 1 /\ Capacity \in Nat \ {0} /\ dropped \in Nat
      /\ fulls \subseteq 1 .. puts /\ delivered \subseteq fulls
  BY SubscriberAssumption, LenProperties
     DEF PutFull, IInv, QueueSound, TypeOK, Items
<1>2. /\ fulls' = fulls \cup {puts'} /\ wakeup' = TRUE /\ UNCHANGED <<reader, delivered>>
      /\ gap' = (gap \/ Lost' # Lost)
  BY DEF PutFull
<1>3. \A i \in 1 .. Len(items) : items[i] \in Items /\ items[i].id \in Nat
  <2>1. \A i \in 1 .. Len(items) : items[i] \in Items
    BY <1>1, ElementOfSeq
  <2>. QED
    BY <2>1 DEF Items
<1>4. fulls' \subseteq 1 .. puts' /\ delivered' \subseteq fulls'
  BY <1>1, <1>2
<1>5. gap \in BOOLEAN /\ gap' \in BOOLEAN /\ overflowed \in BOOLEAN /\ reader \in {"running", "blocked"}
  BY <1>2 DEF IInv, QueueSound, TypeOK
<1>6. NoLostWakeup'
  BY <1>2 DEF NoLostWakeup
<1>7. ASSUME NEW S \in SUBSET Deltas,
             Len(But(items, S)) < Capacity,
             items' = Append(But(items, S), Event("full", puts', size)),
             bytes' = TotalSize(items'), dropped' \in Nat, UNCHANGED overflowed
      PROVE  IInv'
  <2> DEFINE kept == But(items, S)
             e == Event("full", puts', size)
  <2>1. e \in Items /\ e.kind = "full" /\ e.id = puts'
    BY <1>1 DEF Event, Items, Kinds
  <2>2. S \in SUBSET DOMAIN items
    BY <1>1 DEF Deltas
  <2>3. /\ kept \in Seq(Items) /\ Len(kept) \in Nat
        /\ \A i \in 1 .. Len(kept) : \E j \in DOMAIN items \ S : kept[i] = items[j]
        /\ \A j \in DOMAIN items \ S : \E i \in 1 .. Len(kept) : kept[i] = items[j]
    <3>1. /\ kept \in Seq(Items)
          /\ \A i \in DOMAIN kept : \E j \in DOMAIN items \ S : kept[i] = items[j]
          /\ \A j \in DOMAIN items \ S : \E i \in DOMAIN kept : kept[i] = items[j]
      <4>1. \A q \in Seq(Items) : \A X \in SUBSET DOMAIN q :
              /\ But(q, X) \in Seq(Items)
              /\ \A i \in DOMAIN But(q, X) : \E j \in DOMAIN q \ X : But(q, X)[i] = q[j]
              /\ \A j \in DOMAIN q \ X : \E i \in DOMAIN But(q, X) : But(q, X)[i] = q[j]
        BY ButProperties
      <4>2. items \in Seq(Items)
        BY <1>1
      <4>3. \A X \in SUBSET DOMAIN items :
              /\ But(items, X) \in Seq(Items)
              /\ \A i \in DOMAIN But(items, X) : \E j \in DOMAIN items \ X : But(items, X)[i] = items[j]
              /\ \A j \in DOMAIN items \ X : \E i \in DOMAIN But(items, X) : But(items, X)[i] = items[j]
        BY <4>1, <4>2
      <4>. QED
        BY <2>2, <4>3
    <3> HIDE DEF kept
    <3>. QED
      BY <3>1, LenProperties
  <2>4. items' = Append(kept, e)
    BY <1>7
  <2>5. Len(kept) < Capacity
    BY <1>7
  <2> HIDE DEF kept, e
  <2>6. /\ items' \in Seq(Items) /\ Len(items') = Len(kept) + 1
        /\ \A i \in 1 .. Len(kept) : items'[i] = kept[i]
        /\ items'[Len(kept) + 1] = e
    BY <2>1, <2>3, <2>4, AppendProperties
  <2>7. \A i \in 1 .. Len(items') : i \in 1 .. Len(kept) \/ i = Len(kept) + 1
    BY <2>3, <2>6
  <2>8. 1 .. Len(kept) \subseteq 1 .. Len(items') /\ Len(kept) + 1 \in 1 .. Len(items')
    BY <2>3, <2>6
  <2>9. bytes' \in Nat
    BY <1>7, <2>6, TotalOfNone
  <2>10. TypeOK'
    <3>1. items' \in Seq([kind : Kinds, id : Nat, size : Nat]) /\ Len(items') <= Capacity
      BY <1>1, <2>3, <2>5, <2>6 DEF Items
    <3>. QED
      BY <1>1, <1>2, <1>4, <1>5, <1>7, <2>9, <3>1 DEF TypeOK, Kinds
  <2>11. KindsKept'
    <3>1. ASSUME NEW i \in 1 .. Len(kept)
          PROVE  IF items'[i].kind = "full" THEN items'[i].id \in fulls'
                                            ELSE items'[i].id \notin fulls' /\ items'[i].id <= puts'
      <4>1. PICK j \in 1 .. Len(items) : items'[i] = items[j]
        BY <1>1, <2>3, <2>6
      <4>2. items[j].id \in Nat
        BY <1>3
      <4>3. IF items[j].kind = "full" THEN items[j].id \in fulls
                                      ELSE items[j].id \notin fulls /\ items[j].id <= puts
        BY DEF IInv, KindsKept
      <4>. QED
        BY <1>1, <1>2, <4>1, <4>2, <4>3
    <3>2. items'[Len(kept) + 1].kind = "full" /\ items'[Len(kept) + 1].id \in fulls'
      BY <1>2, <2>1, <2>6
    <3>. QED
      BY <2>7, <3>1, <3>2 DEF KindsKept
  <2>12. Lost' = Lost
    <3> DEFINE Before == {items[i].id : i \in 1 .. Len(items)}
               After == {items'[i].id : i \in 1 .. Len(items')}
    <3>1. Lost = fulls \ (delivered \cup Before) /\ Lost' = fulls' \ (delivered' \cup After)
      BY DEF Lost
    <3>2. puts' \in After /\ puts' \notin fulls
      BY <1>1, <2>1, <2>6, <2>8
    <3>3. ASSUME NEW x \in fulls, x \in Before PROVE x \in After
      <4>1. PICK j \in 1 .. Len(items) : x = items[j].id
        BY <3>3
      <4>2. items[j].kind = "full"
        BY <3>3, <4>1 DEF IInv, KindsKept
      <4>3. j \in DOMAIN items \ S
        BY <1>1, <4>1, <4>2 DEF Deltas, Droppable
      <4>4. PICK i \in 1 .. Len(kept) : kept[i] = items[j]
        BY <2>3, <4>3
      <4>. QED
        BY <2>6, <2>8, <4>1, <4>4
    <3>4. ASSUME NEW x \in fulls, x \in After PROVE x \in Before
      <4>1. PICK i \in 1 .. Len(items') : x = items'[i].id
        BY <3>4
      <4>2. i \in 1 .. Len(kept)
        BY <2>1, <2>6, <2>7, <3>2, <3>4, <4>1
      <4>3. PICK j \in DOMAIN items \ S : kept[i] = items[j]
        BY <2>3, <4>2
      <4>. QED
        BY <1>1, <2>6, <4>1, <4>2, <4>3
    <3> HIDE DEF Before, After
    <3>. QED
      BY <1>2, <3>1, <3>2, <3>3, <3>4
  <2>13. NoSilentLoss'
    <3> SUFFICES ASSUME gap' PROVE \E i \in 1 .. Len(items') : items'[i].kind = "notice"
      BY DEF NoSilentLoss
    <3>1. gap
      BY <1>2, <1>5, <2>12
    <3>2. PICK j \in 1 .. Len(items) : items[j].kind = "notice"
      BY <3>1 DEF IInv, QueueSound, NoSilentLoss
    <3>3. j \in DOMAIN items \ S
      BY <1>1, <3>2 DEF Deltas, Droppable
    <3>4. PICK i \in 1 .. Len(kept) : kept[i] = items[j]
      BY <2>3, <3>3
    <3>. QED
      BY <2>6, <2>8, <3>2, <3>4
  <2>14. BytesExact'
    BY <1>7 DEF BytesExact, TotalSize
  <2>. QED
    BY <1>6, <2>10, <2>11, <2>13, <2>14 DEF IInv, QueueSound
<1>8. ASSUME Len(items) = Capacity,
             items' = [items EXCEPT ![Len(items)] = Event("notice", 0, OwnSize)],
             bytes' = TotalSize(items'), dropped' = dropped + 1, overflowed' = TRUE
      PROVE  IInv'
  <2> DEFINE e == Event("notice", 0, OwnSize)
  <2>1. e \in Items /\ e.kind = "notice" /\ e.id = 0
    BY <1>1 DEF Event, Items, Kinds
  <2>2. items # <<>> /\ items' = [items EXCEPT ![Len(items)] = e]
    <3>1. Len(<<>>) = 0
      OBVIOUS
    <3>2. Len(items) # 0
      BY SMTT(30), <1>1, <1>8
    <3>. QED
      BY <1>8, <3>1, <3>2
  <2> HIDE DEF e
  <2>3. /\ items' \in Seq(Items) /\ Len(items') = Len(items) /\ items'[Len(items)] = e
        /\ \A i \in 1 .. Len(items) - 1 : items'[i] = items[i]
    <3>1. ASSUME NEW s \in Seq(Items), s # <<>>, NEW w \in Items
          PROVE  \E u \in Seq(Items) :
                   /\ u = [s EXCEPT ![Len(s)] = w]
                   /\ Len(u) = Len(s)
                   /\ u[Len(s)] = w /\ \A i \in 1 .. Len(s) - 1 : u[i] = s[i]
      BY <3>1, TotalOfLast
    <3>2. items \in Seq(Items) /\ items # <<>> /\ e \in Items
      BY <1>1, <2>1, <2>2
    <3>3. PICK u \in Seq(Items) :
            /\ u = [items EXCEPT ![Len(items)] = e]
            /\ Len(u) = Len(items)
            /\ u[Len(items)] = e /\ \A i \in 1 .. Len(items) - 1 : u[i] = items[i]
      BY <3>1, <3>2
    <3>. QED
      BY <2>2, <3>3
  <2>4. \A i \in 1 .. Len(items') : i \in 1 .. Len(items) - 1 \/ i = Len(items)
    <3>1. Len(items') = Len(items) /\ Len(items) \in Nat
      BY <1>1, <2>3
    <3>2. \A n \in Nat : \A i \in 1 .. n : i \in 1 .. n - 1 \/ i = n
      OBVIOUS
    <3>. QED
      BY <3>1, <3>2
  <2>5. Len(items) \in 1 .. Len(items')
    BY <1>1, <1>8, <2>3
  <2>6. bytes' \in Nat
    BY <1>8, <2>3, TotalOfNone
  <2>7. TypeOK'
    <3>1. items' \in Seq([kind : Kinds, id : Nat, size : Nat]) /\ Len(items') <= Capacity
      BY <1>1, <2>3 DEF Items
    <3>. QED
      BY <1>1, <1>2, <1>4, <1>5, <1>8, <2>6, <3>1 DEF TypeOK, Kinds
  <2>8. KindsKept'
    <3>1. ASSUME NEW i \in 1 .. Len(items) - 1
          PROVE  IF items'[i].kind = "full" THEN items'[i].id \in fulls'
                                            ELSE items'[i].id \notin fulls' /\ items'[i].id <= puts'
      <4>0. i \in 1 .. Len(items)
        BY <1>1
      <4>1. items'[i] = items[i] /\ items[i].id \in Nat
        BY <1>3, <2>3, <4>0
      <4>2. IF items[i].kind = "full" THEN items[i].id \in fulls
                                      ELSE items[i].id \notin fulls /\ items[i].id <= puts
        BY <4>0 DEF IInv, KindsKept
      <4>. QED
        BY <1>1, <1>2, <4>1, <4>2
    <3>2. 0 \notin fulls' /\ 0 <= puts'
      BY <1>1, <1>2
    <3>. QED
      BY <2>1, <2>3, <2>4, <3>1, <3>2 DEF KindsKept
  <2>9. NoSilentLoss'
    BY <2>1, <2>3, <2>5 DEF NoSilentLoss
  <2>10. BytesExact'
    BY <1>8 DEF BytesExact, TotalSize
  <2>. QED
    BY <1>6, <2>7, <2>8, <2>9, <2>10 DEF IInv, QueueSound
<1>. QED
  BY <1>7, <1>8, FullStep

\* What the client reads is the oldest event; a warning may follow.
LEMMA GetKeeps ==
  ASSUME IInv, Get
  PROVE  IInv'
<1> DEFINE rest == Tail(items)
           w == Event("warning", 0, OwnSize)
<1>1. /\ items \in Seq(Items) /\ Len(items) \in Nat /\ Len(items) <= Capacity
      /\ OwnSize \in Nat /\ puts \in 0 .. MaxPuts /\ Capacity \in Nat /\ dropped \in Nat
      /\ fulls \subseteq 1 .. puts /\ delivered \subseteq fulls
  BY SubscriberAssumption, LenProperties DEF IInv, QueueSound, TypeOK, Items
<1>2. /\ items # <<>> /\ Head(items) = items[1] /\ rest \in Seq(Items)
      /\ Len(rest) = Len(items) - 1 /\ \A i \in 1 .. Len(rest) : rest[i] = items[i + 1]
      /\ \/ items' = rest /\ UNCHANGED <<dropped, overflowed>>
         \/ items' = Append(rest, w) /\ dropped > 0 /\ dropped' = 0 /\ overflowed' = FALSE
      /\ bytes' = TotalSize(items')
  BY GetStep
<1>3. w \in Items /\ w.kind = "warning" /\ w.id = 0
  BY <1>1 DEF Event, Items, Kinds
<1>4. Len(items) > 0 /\ 1 \in 1 .. Len(items)
  BY <1>1, <1>2, EmptySeq
<1>5. /\ delivered' = IF items[1].kind = "full" THEN delivered \cup {items[1].id} ELSE delivered
      /\ gap' = (gap /\ items[1].kind # "notice")
      /\ reader' = "running" /\ UNCHANGED <<wakeup, puts, fulls>>
  BY <1>2 DEF Get
<1> HIDE DEF rest, w
<1>6. /\ items' \in Seq(Items) /\ Len(items') \in Nat /\ Len(items') <= Len(items)
      /\ Len(rest) \in Nat /\ Len(rest) <= Len(items')
      /\ \A i \in 1 .. Len(rest) : items'[i] = items[i + 1]
      /\ \A i \in 1 .. Len(items') : i \in 1 .. Len(rest) \/ items'[i] = w
  <2>1. CASE items' = rest
    BY <1>1, <1>2, <1>4, <2>1
  <2>2. CASE items' = Append(rest, w)
    <3>1. /\ items' \in Seq(Items) /\ Len(items') = Len(rest) + 1
          /\ \A i \in 1 .. Len(rest) : items'[i] = rest[i]
          /\ items'[Len(rest) + 1] = w
      BY <1>2, <1>3, <2>2, AppendProperties
    <3>2. \A i \in 1 .. Len(items') : i \in 1 .. Len(rest) \/ i = Len(rest) + 1
      BY <1>1, <1>2, <1>4, <3>1
    <3>. QED
      BY <1>1, <1>2, <1>4, <3>1, <3>2
  <2>. QED
    BY <1>2, <2>1, <2>2
<1>7. delivered' \subseteq fulls'
  BY <1>1, <1>4, <1>5 DEF IInv, KindsKept
<1>8. TypeOK'
  <2>1. items' \in Seq([kind : Kinds, id : Nat, size : Nat]) /\ Len(items') <= Capacity
    BY <1>1, <1>6 DEF Items
  <2>2. bytes' \in Nat
    BY <1>2, <1>6, TotalOfNone
  <2>3. dropped' \in Nat /\ overflowed' \in BOOLEAN
    <3>1. overflowed \in BOOLEAN
      BY DEF IInv, QueueSound, TypeOK
    <3>2. overflowed' = overflowed \/ overflowed' = FALSE
      BY <1>2
    <3>3. dropped' \in Nat
      BY <1>1, <1>2
    <3>. QED
      BY <3>1, <3>2, <3>3
  <2>4. wakeup' \in BOOLEAN /\ gap' \in BOOLEAN /\ reader' \in {"running", "blocked"}
    BY <1>5 DEF IInv, QueueSound, TypeOK
  <2>5. puts' \in 0 .. MaxPuts /\ fulls' \subseteq 1 .. puts'
    BY <1>1, <1>5
  <2>. QED
    BY <1>7, <2>1, <2>2, <2>3, <2>4, <2>5 DEF TypeOK, Kinds
<1>9. BytesExact'
  BY <1>2 DEF BytesExact, TotalSize
<1>10. NoSilentLoss'
  <2> SUFFICES ASSUME gap' PROVE \E i \in 1 .. Len(items') : items'[i].kind = "notice"
    BY DEF NoSilentLoss
  <2>1. gap /\ items[1].kind # "notice"
    BY <1>5
  <2>2. PICK j \in 1 .. Len(items) : items[j].kind = "notice"
    BY <2>1 DEF IInv, QueueSound, NoSilentLoss
  <2>3. j # 1
    BY <2>1, <2>2
  <2>4. j - 1 \in 1 .. Len(rest) /\ j - 1 \in 1 .. Len(items') /\ (j - 1) + 1 = j
    BY <1>1, <1>2, <1>6, <2>2, <2>3
  <2>5. items'[j - 1] = items[j]
    BY <1>6, <2>4
  <2>. QED
    BY <2>2, <2>4, <2>5
<1>11. NoLostWakeup'
  BY <1>5 DEF NoLostWakeup
<1>12. KindsKept'
  <2>1. ASSUME NEW i \in 1 .. Len(rest)
        PROVE  IF items'[i].kind = "full" THEN items'[i].id \in fulls'
                                          ELSE items'[i].id \notin fulls' /\ items'[i].id <= puts'
    <3>1. i + 1 \in 1 .. Len(items) /\ items'[i] = items[i + 1]
      BY <1>1, <1>2, <1>6
    <3>2. IF items[i + 1].kind = "full" THEN items[i + 1].id \in fulls
                                        ELSE items[i + 1].id \notin fulls /\ items[i + 1].id <= puts
      BY <3>1 DEF IInv, KindsKept
    <3>. QED
      BY <1>5, <3>1, <3>2
  <2>2. w.id \notin fulls' /\ w.id <= puts'
    BY <1>1, <1>3, <1>5
  <2>. QED
    BY <1>3, <1>6, <2>1, <2>2 DEF KindsKept
<1>. QED
  BY <1>8, <1>9, <1>10, <1>11, <1>12 DEF IInv, QueueSound

\* Waiting beside an empty queue, or nothing at all.
LEMMA BlockKeeps ==
  ASSUME IInv, Block \/ UNCHANGED vars
  PROVE  IInv'
<1>1. /\ UNCHANGED <<items, bytes, dropped, overflowed, puts, fulls, delivered, gap>>
      /\ \/ items = <<>> /\ wakeup' = FALSE /\ reader' = "blocked"
         \/ UNCHANGED <<wakeup, reader>>
  BY DEF Block, vars, subscriber, history
<1>2. TypeOK'
  BY <1>1 DEF IInv, QueueSound, TypeOK
<1>3. BytesExact' /\ NoSilentLoss' /\ KindsKept'
  BY <1>1 DEF IInv, QueueSound, BytesExact, TotalSize, NoSilentLoss, KindsKept
<1>4. NoLostWakeup'
  BY <1>1 DEF IInv, QueueSound, NoLostWakeup
<1>. QED
  BY <1>2, <1>3, <1>4 DEF IInv, QueueSound

\* Every step keeps the invariant.
LEMMA StepsKeep == IInv /\ [Next]_vars => IInv'
<1> SUFFICES ASSUME IInv, [Next]_vars PROVE IInv'
  OBVIOUS
<1>. QED
  BY PutDeltaKeeps, PutFullKeeps, GetKeeps, BlockKeeps DEF Next

\* Whatever is emitted, and whenever the client reads, the invariant holds.
THEOREM Invariance == Spec => []IInv
<1>. QED
  BY StartsSound, StepsKeep, PTL DEF Spec

\* Whatever the ceilings and the sizes of the events: the queue of a client
\* holds no more items than its capacity, its byte counter is the size of what
\* is queued, a loss that put() has not announced yet has its notice in the
\* queue, and get() never sleeps beside a queue that holds events.
THEOREM QueueIsSound == Spec => []QueueSound
<1>1. IInv => QueueSound
  BY DEF IInv
<1>. QED
  BY <1>1, Invariance, PTL

-----------------------------------------------------------------------------
(* The queue implements Channel.                                           *)

\* What Channel sees of an event, and of a queue.
Entries == [kind : Kinds, body : Nat]
Seen(e) == [kind |-> e.kind, body |-> e.id]
View(s) == [i \in DOMAIN s |-> [kind |-> s[i].kind, body |-> s[i].id]]

\* The view has an entry for every event, in their order.
LEMMA ViewProperties ==
  ASSUME NEW s \in Seq(Items)
  PROVE  /\ View(s) \in Seq(Entries)
         /\ Len(View(s)) = Len(s) /\ Len(s) \in Nat
         /\ DOMAIN View(s) = 1 .. Len(s) /\ DOMAIN s = 1 .. Len(s)
         /\ \A i \in 1 .. Len(s) : View(s)[i] = Seen(s[i]) /\ View(s)[i] \in Entries
<1>1. Len(s) \in Nat /\ DOMAIN s = 1 .. Len(s)
  BY LenProperties
<1>2. \A i \in 1 .. Len(s) : s[i].kind \in Kinds /\ s[i].id \in Nat
  <2>1. \A i \in 1 .. Len(s) : s[i] \in Items
    BY ElementOfSeq
  <2>2. \A e \in Items : e.kind \in Kinds /\ e.id \in Nat
    BY DEF Items
  <2>. QED
    BY <2>1, <2>2
<1>3. \A i \in 1 .. Len(s) : View(s)[i] = Seen(s[i]) /\ View(s)[i] \in Entries
  BY <1>1, <1>2 DEF View, Seen, Entries
<1>4. View(s) \in [1 .. Len(s) -> Entries]
  BY <1>1, <1>3 DEF View
<1>5. View(s) \in Seq(Entries) /\ Len(View(s)) = Len(s)
  BY <1>1, <1>4, SeqDef
<1>. QED
  BY <1>1, <1>3, <1>4, <1>5

\* Two queues look the same when they do so place by place.
LEMMA SameView ==
  ASSUME NEW s \in Seq(Items), NEW v \in Seq(Entries), Len(s) = Len(v),
         \A i \in 1 .. Len(s) : Seen(s[i]) = v[i]
  PROVE  View(s) = v
<1>1. View(s) \in Seq(Entries) /\ Len(View(s)) = Len(v)
  BY ViewProperties
<1>2. \A i \in 1 .. Len(View(s)) : View(s)[i] = v[i]
  BY ViewProperties
<1> DEFINE t == View(s)
<1>3. t \in Seq(Entries) /\ Len(t) = Len(v) /\ \A i \in 1 .. Len(t) : t[i] = v[i]
  BY <1>1, <1>2
<1> HIDE DEF t
<1>4. t = v
  BY <1>3, SeqEqual
<1>. QED
  BY <1>4 DEF t

\* What is put at the end is seen at the end.
LEMMA ViewOfAppend ==
  ASSUME NEW s \in Seq(Items), NEW e \in Items
  PROVE  View(Append(s, e)) = Append(View(s), Seen(e))
<1>1. Seen(e) \in Entries
  BY DEF Seen, Entries, Items
<1>2. PICK t \in Seq(Items) :
        /\ t = Append(s, e) /\ Len(t) = Len(s) + 1 /\ t[Len(s) + 1] = e
        /\ \A i \in 1 .. Len(s) : t[i] = s[i]
  <2> DEFINE t == Append(s, e)
  <2>1. /\ t \in Seq(Items) /\ Len(t) = Len(s) + 1 /\ t[Len(s) + 1] = e
        /\ \A i \in 1 .. Len(s) : t[i] = s[i]
    BY AppendProperties
  <2>2. t = Append(s, e)
    OBVIOUS
  <2> HIDE DEF t
  <2>. QED
    BY <2>1, <2>2
<1>3. PICK v \in Seq(Entries) :
        /\ v = Append(View(s), Seen(e)) /\ Len(v) = Len(s) + 1
        /\ v[Len(s) + 1] = Seen(e)
        /\ \A i \in 1 .. Len(s) : v[i] = Seen(s[i])
  <2>1. /\ View(s) \in Seq(Entries) /\ Len(View(s)) = Len(s)
        /\ \A i \in 1 .. Len(s) : View(s)[i] = Seen(s[i])
    BY ViewProperties
  <2> DEFINE q == View(s)
             x == Seen(e)
  <2> HIDE DEF q, x
  <2>2. /\ Append(q, x) \in Seq(Entries) /\ Len(Append(q, x)) = Len(q) + 1
        /\ Append(q, x)[Len(q) + 1] = x
        /\ \A i \in 1 .. Len(q) : Append(q, x)[i] = q[i]
    BY <1>1, <2>1, AppendProperties DEF q, x
  <2>. QED
    BY <2>1, <2>2 DEF q, x
<1>4. Len(s) \in Nat
  BY LenProperties
<1>5. ASSUME NEW i \in 1 .. Len(t) PROVE Seen(t[i]) = v[i]
  <2>1. i \in 1 .. Len(s) \/ i = Len(s) + 1
    BY <1>2, <1>4
  <2>. QED
    BY <1>2, <1>3, <2>1
<1>6. View(t) = v
  BY <1>2, <1>3, <1>5, SameView
<1>. QED
  BY <1>2, <1>3, <1>6

\* What is read is the first that is seen.
LEMMA ViewOfTail ==
  ASSUME NEW s \in Seq(Items), s # <<>>
  PROVE  View(s) # <<>> /\ View(Tail(s)) = Tail(View(s))
<1> DEFINE q == View(s)
           t == Tail(s)
           v == Tail(q)
<1>1. /\ q \in Seq(Entries) /\ Len(q) = Len(s) /\ Len(s) \in Nat
      /\ \A i \in 1 .. Len(s) : q[i] = Seen(s[i])
  BY ViewProperties
<1>2. Len(s) > 0
  BY <1>1, EmptySeq
<1> HIDE DEF q
<1>3. q # <<>>
  BY <1>1, <1>2, EmptySeq
<1>4. /\ t \in Seq(Items) /\ Len(t) = Len(s) - 1
      /\ \A i \in 1 .. Len(t) : t[i] = s[i + 1]
  BY HeadTailProperties
<1>5. /\ v \in Seq(Entries) /\ Len(v) = Len(q) - 1
      /\ \A i \in 1 .. Len(v) : v[i] = q[i + 1]
  BY <1>1, <1>3, HeadTailProperties
<1> HIDE DEF t, v
<1>6. ASSUME NEW i \in 1 .. Len(t) PROVE Seen(t[i]) = v[i]
  <2>1. i \in 1 .. Len(v) /\ i + 1 \in 1 .. Len(s)
    BY <1>1, <1>2, <1>4, <1>5
  <2>. QED
    BY <1>1, <1>4, <1>5, <2>1
<1>7. View(t) = v
  <2>1. Len(t) = Len(v)
    BY <1>1, <1>4, <1>5
  <2>. QED
    BY <1>4, <1>5, <1>6, <2>1, SameView
<1>. QED
  BY <1>3, <1>7 DEF q, t, v

\* The places seen are the places of the queue: what is left is seen alike.
LEMMA ViewOfBut ==
  ASSUME NEW s \in Seq(Items), NEW S \in SUBSET DOMAIN s
  PROVE  View(But(s, S)) = But(View(s), S)
<1> DEFINE L == DOMAIN s \ S
           f == Ascending(L)
           c == Cardinality(L)
           t == But(s, S)
           v == But(View(s), S)
<1>1. /\ Len(s) \in Nat /\ DOMAIN s = 1 .. Len(s) /\ DOMAIN View(s) = DOMAIN s
      /\ \A i \in 1 .. Len(s) : View(s)[i] = Seen(s[i])
  BY ViewProperties
<1>2. L \in SUBSET (1 .. Len(s))
  BY <1>1
<1> HIDE DEF L
<1>3. c \in Nat /\ f \in [1 .. c -> L]
  BY <1>1, <1>2, AscendingProperties
<1> HIDE DEF c, f
<1>4. t = [i \in 1 .. c |-> s[f[i]]]
  BY <1>3 DEF But, L, f
<1>5. v = [i \in 1 .. c |-> View(s)[f[i]]]
  BY <1>1, <1>3 DEF But, L, f
<1> HIDE DEF t, v
<1>6. \A i \in 1 .. c : View(s)[f[i]] = Seen(s[f[i]])
  BY <1>1, <1>2, <1>3
<1>7. View(t) = [i \in 1 .. c |-> [kind |-> t[i].kind, body |-> t[i].id]]
  BY <1>4 DEF View
<1>8. \A i \in 1 .. c : v[i] = [kind |-> t[i].kind, body |-> t[i].id]
  BY <1>4, <1>5, <1>6 DEF Seen
<1>9. v = [i \in 1 .. c |-> v[i]]
  BY <1>5
<1>10. View(t) = v
  BY <1>7, <1>8, <1>9
<1>. QED
  BY <1>10 DEF t, v

\* A last event that gives way is replaced in the view.
LEMMA ViewOfLast ==
  ASSUME NEW s \in Seq(Items), s # <<>>, NEW e \in Items
  PROVE  View([s EXCEPT ![Len(s)] = e]) = Append(SubSeq(View(s), 1, Len(View(s)) - 1), Seen(e))
<1>1. PICK n \in Nat : n = Len(s)
  BY LenProperties
<1>2. n > 0 /\ Seen(e) \in Entries
  BY <1>1, EmptySeq DEF Seen, Entries, Items
<1>3. PICK u \in Seq(Items) :
        /\ u = [s EXCEPT ![Len(s)] = e] /\ Len(u) = n
        /\ u[n] = e /\ \A i \in 1 .. n - 1 : u[i] = s[i]
  <2>1. \E u \in Seq(Items) :
          /\ u = [s EXCEPT ![Len(s)] = e]
          /\ Len(u) = Len(s)
          /\ u[Len(s)] = e /\ \A i \in 1 .. Len(s) - 1 : u[i] = s[i]
          /\ s[Len(s)] \in Items
          /\ TotalSize(s) - s[Len(s)].size \in Nat
          /\ TotalSize(u) = TotalSize(s) - s[Len(s)].size + e.size
    BY TotalOfLast, Zenon
  <2>2. PICK u \in Seq(Items) :
          /\ u = [s EXCEPT ![Len(s)] = e] /\ Len(u) = Len(s)
          /\ u[Len(s)] = e /\ \A i \in 1 .. Len(s) - 1 : u[i] = s[i]
    BY <2>1, Zenon
  <2>3. Len(u) = n /\ u[n] = e /\ \A i \in 1 .. n - 1 : u[i] = s[i]
    <3>1. Len(u) = n
      BY <1>1, <2>2, Zenon
    <3>2. u[n] = e
      BY <1>1, <2>2, Zenon
    <3>3. \A i \in 1 .. n - 1 : u[i] = s[i]
      BY <1>1, <2>2, Zenon
    <3>. QED
      BY <3>1, <3>2, <3>3, Zenon
  <2>. QED
    BY <2>2, <2>3, Zenon
<1>4. PICK q \in Seq(Entries) :
        /\ q = View(s) /\ Len(q) = n
        /\ \A i \in 1 .. n : q[i] = Seen(s[i]) /\ q[i] \in Entries
  BY <1>1, ViewProperties
<1>5. PICK p \in Seq(Entries) :
        /\ p = SubSeq(q, 1, n - 1) /\ Len(p) = n - 1
        /\ \A i \in 1 .. n - 1 : p[i] = q[i]
  <2>1. \A i \in 1 .. n - 1 : q[i] \in Entries
    BY <1>4
  <2> DEFINE r == SubSeq(q, 1, n - 1)
  <2>2. /\ r \in Seq(Entries)
        /\ Len(r) = IF 1 <= n - 1 THEN (n - 1) - 1 + 1 ELSE 0
        /\ \A i \in 1 .. (n - 1) - 1 + 1 : r[i] = q[1 + i - 1]
    BY <1>2, <2>1, SubSeqProperties
  <2>3. r = SubSeq(q, 1, n - 1)
    OBVIOUS
  <2> HIDE DEF r
  <2>4. Len(r) = n - 1
    BY <1>2, <2>2
  <2>5. ASSUME NEW i \in 1 .. n - 1 PROVE r[i] = q[i]
    <3>1. i \in 1 .. (n - 1) - 1 + 1 /\ 1 + i - 1 = i
      OBVIOUS
    <3>2. r[i] = q[1 + i - 1]
      BY <2>2, <3>1
    <3>. QED
      BY <3>1, <3>2
  <2>. QED
    BY <2>2, <2>3, <2>4, <2>5
<1> DEFINE x == Seen(e)
<1> HIDE DEF x
<1>6. PICK v \in Seq(Entries) :
        /\ v = Append(p, x) /\ Len(v) = n /\ v[n] = x
        /\ \A i \in 1 .. n - 1 : v[i] = p[i]
  <2> DEFINE r == Append(p, x)
  <2>1. /\ r \in Seq(Entries) /\ Len(r) = Len(p) + 1 /\ r[Len(p) + 1] = x
        /\ \A i \in 1 .. Len(p) : r[i] = p[i]
    BY <1>2, AppendProperties DEF x
  <2>2. r = Append(p, x)
    OBVIOUS
  <2> HIDE DEF r
  <2>3. (n - 1) + 1 = n
    OBVIOUS
  <2>. QED
    BY <1>5, <2>1, <2>2, <2>3
<1>7. ASSUME NEW i \in 1 .. Len(u) PROVE Seen(u[i]) = v[i]
  <2>1. CASE i \in 1 .. n - 1
    BY <1>3, <1>4, <1>5, <1>6, <2>1
  <2>2. CASE i = n
    BY <1>3, <1>6, <2>2 DEF x
  <2>. QED
    BY <1>2, <1>3, <2>1, <2>2
<1>8. View(u) = v
  BY <1>3, <1>6, <1>7, SameView
<1>. QED
  BY <1>3, <1>4, <1>5, <1>6, <1>8 DEF x

\* A streaming event that finds room goes to the end of the channel; one that
\* finds none leaves the client behind.
LEMMA PutDeltaIsPutStreaming ==
  ASSUME IInv, NEW size \in Sizes, PutDelta(size)
  PROVE  \E id \in 1 .. MaxPuts : Chan!PutStreaming(id)
<1>1. /\ items \in Seq(Items) /\ size \in Nat /\ puts' \in Nat /\ dropped \in Nat
      /\ puts' \in 1 .. MaxPuts /\ Len(items) \in Nat /\ Capacity \in Nat
  BY SubscriberAssumption, LenProperties DEF PutDelta, IInv, QueueSound, TypeOK, Items
<1> PICK id \in 1 .. MaxPuts : id = puts'
  BY <1>1
<1>2. \/ dropped' = dropped + 1 /\ UNCHANGED items
      \/ /\ items' = Append(items, Event("delta", id, size)) /\ UNCHANGED dropped
         /\ Len(items) < Capacity
  BY <1>1 DEF PutDelta, OverCeiling
<1>3. CASE dropped' = dropped + 1 /\ UNCHANGED items
  <2>1. View(items)' = View(items)
    BY <1>3 DEF View
  <2>2. dropped' > 0
    BY <1>1, <1>3
  <2>3. Chan!PutStreaming(id)
    BY <2>1, <2>2 DEF Chan!PutStreaming, View
  <2>. QED
    BY <2>3
<1>4. CASE /\ items' = Append(items, Event("delta", id, size)) /\ UNCHANGED dropped
           /\ Len(items) < Capacity
  <2>1. Event("delta", id, size) \in Items
    BY <1>1 DEF Event, Items, Kinds
  <2>2. Seen(Event("delta", id, size)) = [kind |-> "delta", body |-> id]
    BY DEF Seen, Event
  <2>3. View(items') = Append(View(items), [kind |-> "delta", body |-> id])
    BY <1>1, <1>4, <2>1, <2>2, ViewOfAppend
  <2>4. Len(View(items)) < Capacity
    BY <1>1, <1>4, ViewProperties
  <2>5. (dropped' > 0) = (dropped > 0)
    BY <1>4
  <2>6. Chan!PutStreaming(id)
    BY <2>3, <2>4, <2>5 DEF Chan!PutStreaming, Chan!Entry, View
  <2>. QED
    BY <2>6
<1>. QED
  BY <1>2, <1>3, <1>4

\* The oldest event is read; what was lost may be reported.
LEMMA GetIsTake ==
  ASSUME IInv, Get
  PROVE  Chan!Take
<1> DEFINE w == Event("warning", 0, OwnSize)
<1>1. /\ items \in Seq(Items) /\ items # <<>> /\ Tail(items) \in Seq(Items) /\ OwnSize \in Nat
      /\ dropped \in Nat
      /\ \/ items' = Tail(items) /\ UNCHANGED dropped
         \/ items' = Append(Tail(items), w) /\ dropped > 0 /\ dropped' = 0
  BY GetStep, SubscriberAssumption DEF IInv, QueueSound, TypeOK, Items
<1>2. View(items) # <<>> /\ View(Tail(items)) = Tail(View(items))
  BY <1>1, ViewOfTail
<1>3. CASE items' = Tail(items) /\ UNCHANGED dropped
  <2>1. View(items') = Tail(View(items)) /\ (dropped' > 0) = (dropped > 0)
    BY <1>2, <1>3
  <2>. QED
    BY <1>2, <2>1 DEF Chan!Take, View
<1>4. CASE items' = Append(Tail(items), w) /\ dropped > 0 /\ dropped' = 0
  <2>1. w \in Items /\ Seen(w) = [kind |-> "warning", body |-> 0]
    BY <1>1 DEF Event, Items, Kinds, Seen
  <2> HIDE DEF w
  <2>2. View(items') = Append(Tail(View(items)), [kind |-> "warning", body |-> 0])
    BY <1>1, <1>2, <1>4, <2>1, ViewOfAppend
  <2>3. (dropped > 0) = TRUE /\ (dropped' > 0) = FALSE
    BY <1>4
  <2>. QED
    BY <1>2, <2>2, <2>3 DEF Chan!Take, Chan!Warning, Chan!Entry, View
<1>. QED
  BY <1>1, <1>3, <1>4

\* Any other event goes behind what the evictions leave, or, in a queue full
\* of events that are not droppable, gives way to a notice with the last one.
LEMMA PutFullIsPut ==
  ASSUME IInv, NEW size \in Sizes, PutFull(size)
  PROVE  \E id \in 1 .. MaxPuts : Chan!Put(id)
<1>1. /\ items \in Seq(Items) /\ size \in Nat /\ OwnSize \in Nat /\ dropped \in Nat
      /\ puts' \in 1 .. MaxPuts /\ Len(items) \in Nat /\ Capacity \in Nat \ {0}
      /\ DOMAIN items = 1 .. Len(items)
  BY SubscriberAssumption, LenProperties DEF PutFull, IInv, QueueSound, TypeOK, Items
<1> PICK id \in 1 .. MaxPuts : id = puts'
  BY <1>1
<1>2. /\ DOMAIN View(items) = 1 .. Len(items) /\ Len(View(items)) = Len(items)
      /\ \A i \in 1 .. Len(items) : View(items)[i] = Seen(items[i])
  BY <1>1, ViewProperties
<1>3. Chan!Streaming(View(items)) = Deltas
  <2>1. \A i \in 1 .. Len(items) : View(items)[i].kind = items[i].kind
    BY <1>2 DEF Seen
  <2>. QED
    BY <1>2, <2>1 DEF Chan!Streaming, Deltas, Droppable
<1>4. \A q, X : Chan!But(q, X) = But(q, X)
  <2>1. \A X : Chan!Cardinality(X) = Cardinality(X)
    BY DEF Chan!Cardinality, Cardinality
  <2>2. \A X : Chan!Ascending(X) = Ascending(X)
    BY <2>1 DEF Chan!Ascending, Ascending
  <2>. QED
    BY <2>2 DEF Chan!But, But
<1>5. ASSUME NEW S \in SUBSET Deltas,
             Len(But(items, S)) < Capacity,
             items' = Append(But(items, S), Event("full", id, size)),
             (dropped' > 0) = (dropped > 0 \/ S # {})
      PROVE  Chan!Put(id)
  <2>1. S \in SUBSET DOMAIN items
    BY <1>1 DEF Deltas
  <2>2. But(items, S) \in Seq(Items)
    BY <1>1, <2>1, ButProperties
  <2>3. View(But(items, S)) = But(View(items), S)
    BY <1>1, <2>1, ViewOfBut
  <2>4. Event("full", id, size) \in Items /\ Seen(Event("full", id, size)) = [kind |-> "full", body |-> id]
    BY <1>1 DEF Event, Items, Kinds, Seen
  <2>5. View(items') = Append(But(View(items), S), [kind |-> "full", body |-> id])
    BY <1>5, <2>2, <2>3, <2>4, ViewOfAppend
  <2>6. Len(But(View(items), S)) < Capacity
    BY <1>5, <2>2, <2>3, ViewProperties
  <2>7. /\ S \in SUBSET Chan!Streaming(View(items))
        /\ Len(Chan!But(View(items), S)) < Capacity
        /\ View(items') = Append(Chan!But(View(items), S), [kind |-> "full", body |-> id])
    BY <1>3, <1>4, <2>5, <2>6
  <2>. QED
    BY <1>5, <2>7 DEF Chan!Put, Chan!Entry, View
<1>6. ASSUME Deltas = {}, Len(items) = Capacity, dropped' = dropped + 1,
             items' = [items EXCEPT ![Len(items)] = Event("notice", 0, OwnSize)]
      PROVE  Chan!Put(id)
  <2>1. Event("notice", 0, OwnSize) \in Items /\ Seen(Event("notice", 0, OwnSize)) = [kind |-> "notice", body |-> 0]
    BY <1>1 DEF Event, Items, Kinds, Seen
  <2>2. items # <<>>
    BY <1>1, <1>6, EmptySeq
  <2>3. View(items') = Append(SubSeq(View(items), 1, Len(View(items)) - 1), [kind |-> "notice", body |-> 0])
    BY <1>1, <1>6, <2>1, <2>2, ViewOfLast
  <2>4. Len(View(items)) = Capacity /\ Chan!Streaming(View(items)) = {}
    BY <1>2, <1>3, <1>6
  <2>5. dropped' > 0
    BY <1>1, <1>6
  <2>. QED
    BY <2>3, <2>4, <2>5 DEF Chan!Put, Chan!Front, Chan!Notice, Chan!Entry, View
<1>7. \/ \E S \in SUBSET Deltas :
           /\ Len(But(items, S)) < Capacity
           /\ items' = Append(But(items, S), Event("full", id, size))
           /\ (dropped' > 0) = (dropped > 0 \/ S # {})
      \/ /\ Deltas = {} /\ Len(items) = Capacity /\ dropped' = dropped + 1
         /\ items' = [items EXCEPT ![Len(items)] = Event("notice", 0, OwnSize)]
  <2> DEFINE Left(S, n) == /\ Len(But(items, S)) < Capacity
                           /\ items' = Append(But(items, S), Event("full", n, size))
             Replaced == /\ Deltas = {} /\ Len(items) = Capacity /\ dropped' = dropped + 1
                         /\ items' = [items EXCEPT ![Len(items)] = Event("notice", 0, OwnSize)]
  <2>1. \/ \E S \in SUBSET Deltas : Left(S, puts') /\ (dropped' > 0 <=> dropped > 0 \/ S # {})
        \/ Replaced
    BY FullStep
  <2> HIDE DEF Left, Replaced
  <2>2. \/ \E S \in SUBSET Deltas : Left(S, id) /\ (dropped' > 0) = (dropped > 0 \/ S # {})
        \/ Replaced
    BY <2>1
  <2>. QED
    BY <2>2 DEF Left, Replaced
<1>8. Chan!Put(id)
  BY <1>5, <1>6, <1>7
<1>. QED
  BY <1>8

\* The queue of a client implements Channel, whatever the ceilings and the
\* sizes of the events: whatever put(), its eviction and its collapse, and
\* get() do, the client reads what was put, in its order, less some streaming
\* events, and any other event is given up only for a notice in a queue that
\* is full of its like.
THEOREM Refinement == Spec => ImplementsChannel
<1>1. Init => Chan!ChannelInit
  <2> SUFFICES ASSUME Init PROVE Chan!ChannelInit
    OBVIOUS
  <2>1. items = <<>> /\ dropped = 0 /\ Len(items) = 0 /\ items \in Seq(Items)
    BY EmptySeq DEF Init
  <2>2. View(items) = <<>>
    BY <2>1, ViewProperties, EmptySeq
  <2>3. (dropped > 0) = FALSE
    BY <2>1
  <2>. QED
    BY <2>2, <2>3 DEF Chan!ChannelInit, View
<1>2. IInv /\ [Next]_vars
      => [\/ \E id \in 1 .. MaxPuts : Chan!PutStreaming(id) \/ Chan!Put(id)
          \/ Chan!Take]_(Chan!channel)
  <2> SUFFICES ASSUME IInv, [Next]_vars
               PROVE  \/ \E id \in 1 .. MaxPuts : Chan!PutStreaming(id)
                      \/ \E id \in 1 .. MaxPuts : Chan!Put(id)
                      \/ Chan!Take
                      \/ UNCHANGED Chan!channel
    OBVIOUS
  <2>1. CASE \E size \in Sizes : PutDelta(size)
    BY <2>1, PutDeltaIsPutStreaming
  <2>2. CASE \E size \in Sizes : PutFull(size)
    BY <2>2, PutFullIsPut
  <2>3. CASE Get
    BY <2>3, GetIsTake
  <2>4. CASE Block \/ UNCHANGED vars
    <3>1. UNCHANGED <<items, dropped>>
      BY <2>4 DEF Block, vars, subscriber
    <3>. QED
      BY <3>1 DEF Chan!channel
  <2>. QED
    BY <2>1, <2>2, <2>3, <2>4 DEF Next
<1>. QED
  BY <1>1, <1>2, Invariance, PTL DEF Spec, ImplementsChannel

-----------------------------------------------------------------------------
(* The chat of a session on its way to a client: types.                    *)

\* What the session may emit, and what the queue may hold.
Bodies == [what : {"snapshot", "history", "added", "complete", "other", "delta"},
           id : 0 .. MaxMessages + MaxSessions]
StreamBodies == {b \in Bodies : b.what = "delta"}
Queueable == {Notice, Warning} \cup {Entry("delta", b) : b \in StreamBodies}
                               \cup {Entry("full", b) : b \in Bodies}

\* Messages in the order in which they were made, the n-th the latest.
Chats(n) == {ms \in Seq(1 .. n) : Increasing(ms)}

Views == [of : Nat, hist : Seq(Nat), live : Seq(Nat), done : BOOLEAN,
          lossy : BOOLEAN]

Running == [generation : Nat, history : Chats(made), next : Nat \ {0}]

QueueTyped == queue \in Seq(Queueable) /\ Len(queue) <= Slots /\ behind \in BOOLEAN

ChatTyped ==
  /\ made \in 0 .. MaxMessages /\ ending \in BOOLEAN
  /\ session \in 0 .. MaxSessions /\ binding \in 0 .. MaxBinding
  /\ messages \in Chats(made) /\ atRisk \in SUBSET (1 .. made)
  /\ DOMAIN stored \in SUBSET (1 .. MaxSessions)
  /\ \A s \in DOMAIN stored : stored[s] \in Chats(made)

\* One replay at most is alive, and it is of the last generation.
ReplaysTyped ==
  /\ generation \in 0 .. MaxSnapshots
  /\ replays \in SUBSET Running
  /\ \A t \in replays : t.generation = generation /\ replays = {t}

\* A step emits one event, or two of which the second opens no page.
OutTyped ==
  /\ out \in Seq(Bodies) /\ Len(out) <= 2
  /\ Len(out) = 2 => out[2].what \in {"other", "complete"}

-----------------------------------------------------------------------------
LEMMA EmptyIsNoBody == Empty \notin Bodies
  BY ConnectionAssumption DEF Bodies

\* What an entry is is told by its kind.
LEMMA EntryKinds ==
  ASSUME NEW e \in Queueable
  PROVE  /\ e.kind = "delta" => e.body \in StreamBodies
         /\ e.body # Empty => e.body \in Bodies
         /\ e.body = Empty <=> e \in {Notice, Warning}
<1>1. StreamBodies \subseteq Bodies
  BY DEF StreamBodies
<1>2. ASSUME NEW b \in Bodies, e = Entry("full", b)
      PROVE  e.kind = "full" /\ e.body = b /\ e \notin {Notice, Warning}
  BY <1>2 DEF Entry, Notice, Warning
<1>3. ASSUME NEW b \in StreamBodies, e = Entry("delta", b)
      PROVE  e.kind = "delta" /\ e.body = b /\ e \notin {Notice, Warning}
  BY <1>3 DEF Entry, Notice, Warning
<1>4. ASSUME e \in {Notice, Warning} PROVE e.body = Empty /\ e.kind # "delta"
  BY <1>4 DEF Entry, Notice, Warning
<1>. QED
  BY <1>1, <1>2, <1>3, <1>4, EmptyIsNoBody DEF Queueable

\* A chat is one of more messages too, and goes on with the next message.
LEMMA ChatsGrow ==
  ASSUME NEW n \in Nat, NEW ms \in Chats(n)
  PROVE  ms \in Chats(n + 1) /\ Append(ms, n + 1) \in Chats(n + 1)
<1>1. Len(ms) \in Nat /\ DOMAIN ms = 1 .. Len(ms) /\ ms \in Seq(1 .. n) /\ Increasing(ms)
  BY LenProperties DEF Chats
<1>2. \A i \in 1 .. Len(ms) : ms[i] \in 1 .. n
  BY <1>1, ElementOfSeq
<1>3. ms \in Seq(1 .. n + 1)
  <2>1. ms \in [1 .. Len(ms) -> 1 .. n + 1]
    <3>1. ms \in [1 .. Len(ms) -> 1 .. n]
      BY <1>1, SeqDef
    <3>2. 1 .. n \subseteq 1 .. n + 1
      OBVIOUS
    <3>. QED
      BY <3>1, <3>2
  <2>. QED
    BY <1>1, <2>1, SeqDef
<1> DEFINE a == Append(ms, n + 1)
<1>4. /\ a \in Seq(1 .. n + 1) /\ Len(a) = Len(ms) + 1 /\ DOMAIN a = 1 .. Len(ms) + 1
      /\ a[Len(ms) + 1] = n + 1 /\ \A i \in 1 .. Len(ms) : a[i] = ms[i]
  <2>1. n + 1 \in 1 .. n + 1
    OBVIOUS
  <2>. QED
    BY <1>1, <1>3, <2>1, AppendProperties
<1> HIDE DEF a
<1>5. Increasing(a)
  <2> SUFFICES ASSUME NEW i \in 1 .. Len(ms) + 1, NEW j \in 1 .. Len(ms) + 1, i < j
               PROVE  a[i] < a[j]
    BY <1>4 DEF Increasing
  <2>1. CASE j = Len(ms) + 1
    <3>1. i \in 1 .. Len(ms)
      BY <1>1, <2>1
    <3>2. a[i] \in 1 .. n /\ a[j] = n + 1
      BY <1>2, <1>4, <2>1, <3>1
    <3>. QED
      BY <3>2
  <2>2. CASE j # Len(ms) + 1
    <3>1. i \in 1 .. Len(ms) /\ j \in 1 .. Len(ms)
      BY <1>1, <2>2
    <3>. QED
      BY <1>1, <1>4, <3>1 DEF Increasing
  <2>. QED
    BY <2>1, <2>2
<1>. QED
  BY <1>1, <1>3, <1>4, <1>5 DEF Chats, a

LEMMA NoChat == \A n \in Nat : <<>> \in Chats(n)
<1> SUFFICES ASSUME NEW n \in Nat PROVE <<>> \in Chats(n)
  OBVIOUS
<1>1. <<>> \in Seq(1 .. n) /\ Len(<<>>) = 0
  BY EmptySeq
<1>. QED
  BY <1>1 DEF Chats, Increasing

-----------------------------------------------------------------------------
\* Nothing comes into the queue but what is put there and its own notices.
Joins(b) ==
  /\ QueueTyped'
  /\ \A i \in DOMAIN queue' :
       \/ \E j \in DOMAIN queue : queue'[i] = queue[j]
       \/ queue'[i].body \in {b, Empty}

LEMMA QueueIs ==
  ASSUME QueueTyped
  PROVE  Len(queue) \in Nat /\ DOMAIN queue = 1 .. Len(queue) /\ Slots \in Nat /\ Slots >= 1
  BY LenProperties, ConnectionAssumption DEF QueueTyped

LEMMA QueueableAre ==
  /\ Notice \in Queueable /\ Warning \in Queueable
  /\ \A b \in StreamBodies : Entry("delta", b) \in Queueable
  /\ \A b \in Bodies : Entry("full", b) \in Queueable
  BY DEF Queueable

\* What a shorter queue becomes with one more entry.
LEMMA OneMore ==
  ASSUME NEW q \in Seq(Queueable), NEW e \in Queueable, Len(q) < Slots
  PROVE  /\ Append(q, e) \in Seq(Queueable) /\ Len(Append(q, e)) <= Slots
         /\ DOMAIN Append(q, e) = 1 .. Len(q) + 1 /\ Append(q, e)[Len(q) + 1] = e
         /\ \A i \in 1 .. Len(q) : Append(q, e)[i] = q[i]
  BY AppendProperties, LenProperties, ConnectionAssumption

LEMMA PutStreamingJoins ==
  ASSUME QueueTyped, NEW b \in StreamBodies, PutStreaming(b)
  PROVE  Joins(b)
<1>1. CASE queue' = queue /\ behind' = TRUE
  BY <1>1 DEF QueueTyped, Joins
<1>2. CASE Len(queue) < Slots /\ queue' = Append(queue, Entry("delta", b)) /\ UNCHANGED behind
  <2>1. Entry("delta", b) \in Queueable /\ Entry("delta", b).body = b
    BY QueueableAre DEF Entry
  <2>2. QueueTyped' /\ DOMAIN queue' = 1 .. Len(queue) + 1
    BY <1>2, <2>1, OneMore DEF QueueTyped
  <2>3. ASSUME NEW i \in 1 .. Len(queue) + 1 PROVE i \in DOMAIN queue \/ i = Len(queue) + 1
    BY QueueIs, <2>3
  <2>4. \A i \in DOMAIN queue : queue'[i] = queue[i]
    BY <1>2, <2>1, OneMore, QueueIs DEF QueueTyped
  <2>5. queue'[Len(queue) + 1] = Entry("delta", b)
    BY <1>2, <2>1, OneMore DEF QueueTyped
  <2>. QED
    BY <2>1, <2>2, <2>3, <2>4, <2>5 DEF Joins
<1>. QED
  BY <1>1, <1>2 DEF PutStreaming

\* All but the last entry.
LEMMA FrontIs ==
  ASSUME NEW s \in Seq(Queueable), s # <<>>
  PROVE  /\ Front(s) \in Seq(Queueable) /\ Len(Front(s)) = Len(s) - 1
         /\ \A i \in 1 .. Len(s) - 1 : Front(s)[i] = s[i]
<1> DEFINE r == Front(s)
           n == Len(s)
<1>1. n \in Nat /\ n >= 1
  BY LenProperties, EmptySeq
<1>2. /\ r = SubSeq(s, 1, n - 1) /\ n - 1 \in Int
      /\ \A i \in 1 .. n - 1 : s[i] \in Queueable
  BY <1>1, ElementOfSeq DEF Front
<1>3. /\ SubSeq(s, 1, n - 1) \in Seq(Queueable)
      /\ Len(SubSeq(s, 1, n - 1)) = IF 1 <= n - 1 THEN n - 1 - 1 + 1 ELSE 0
      /\ \A i \in 1 .. n - 1 - 1 + 1 : SubSeq(s, 1, n - 1)[i] = s[1 + i - 1]
  BY <1>2, SubSeqProperties
<1> HIDE DEF r, n
<1>4. \A i \in 1 .. n - 1 : 1 + i - 1 = i /\ i \in 1 .. n - 1 - 1 + 1
  BY <1>1
<1>5. (IF 1 <= n - 1 THEN n - 1 - 1 + 1 ELSE 0) = n - 1
  BY <1>1
<1>. QED
  BY <1>2, <1>3, <1>4, <1>5 DEF r, n

LEMMA PutJoins ==
  ASSUME QueueTyped, NEW b \in Bodies, Put(b)
  PROVE  Joins(b)
<1>0. /\ Len(queue) \in Nat /\ DOMAIN queue = 1 .. Len(queue) /\ Slots \in Nat /\ Slots >= 1
      /\ queue \in Seq(Queueable)
  BY QueueIs DEF QueueTyped
<1>1. ASSUME NEW S \in SUBSET Streaming(queue), Len(But(queue, S)) < Slots,
             queue' = Append(But(queue, S), Entry("full", b)), behind' = (behind \/ S # {})
      PROVE  Joins(b)
  <2> DEFINE r == But(queue, S)
  <2>1. S \in SUBSET DOMAIN queue
    BY DEF Streaming
  <2>2. /\ r \in Seq(Queueable) /\ Len(r) \in Nat /\ DOMAIN r = 1 .. Len(r)
        /\ \A i \in DOMAIN r : \E j \in DOMAIN queue : r[i] = queue[j]
    <3> HIDE DEF r
    <3>1. r \in Seq(Queueable)
      BY <1>0, <2>1, ButProperties DEF r
    <3>2. PICK f \in [DOMAIN r -> DOMAIN queue \ S] : \A i \in DOMAIN r : r[i] = queue[f[i]]
      BY <1>0, <2>1, ButPlaces DEF r
    <3>3. \A i \in DOMAIN r : f[i] \in DOMAIN queue /\ r[i] = queue[f[i]]
      BY <3>2
    <3>. QED
      BY <3>1, <3>3, LenProperties
  <2>3. Entry("full", b) \in Queueable /\ Entry("full", b).body = b
    BY QueueableAre DEF Entry
  <2>4. Len(r) < Slots /\ queue' = Append(r, Entry("full", b))
    BY <1>1
  <2> HIDE DEF r
  <2>5. QueueTyped' /\ DOMAIN queue' = 1 .. Len(r) + 1
    <3>1. /\ queue' \in Seq(Queueable) /\ Len(queue') <= Slots
          /\ DOMAIN queue' = 1 .. Len(r) + 1
      BY <2>2, <2>3, <2>4, OneMore
    <3>. QED
      BY <1>1, <3>1 DEF QueueTyped
  <2>6. ASSUME NEW i \in 1 .. Len(r) + 1 PROVE i \in 1 .. Len(r) \/ i = Len(r) + 1
    BY <2>2, <2>6
  <2>7. \A i \in 1 .. Len(r) : queue'[i] = r[i]
    BY <2>2, <2>3, <2>4, OneMore
  <2>8. queue'[Len(r) + 1] = Entry("full", b)
    BY <2>2, <2>3, <2>4, OneMore
  <2>. QED
    BY <2>2, <2>3, <2>5, <2>6, <2>7, <2>8 DEF Joins
<1>2. CASE /\ Len(queue) = Slots /\ queue' = Append(Front(queue), Notice) /\ behind' = TRUE
  <2>1. queue # <<>>
    <3>1. Len(queue) >= 1
      BY <1>0, <1>2
    <3>2. Len(<<>>) = 0
      BY SMTT(30)
    <3>. QED
      BY <3>1, <3>2
  <2>2. PICK r \in Seq(Queueable) :
          r = Front(queue) /\ Len(r) = Len(queue) - 1 /\ \A i \in 1 .. Len(queue) - 1 : r[i] = queue[i]
    BY <1>0, <2>1, FrontIs
  <2>3. Notice \in Queueable /\ Notice.body = Empty
    BY QueueableAre DEF Notice, Entry
  <2>4. Len(r) < Slots /\ queue' = Append(r, Notice)
    BY <1>0, <1>2, <2>2
  <2>5. QueueTyped' /\ DOMAIN queue' = 1 .. Len(r) + 1
    <3>1. /\ queue' \in Seq(Queueable) /\ Len(queue') <= Slots
          /\ DOMAIN queue' = 1 .. Len(r) + 1
      BY <2>3, <2>4, OneMore
    <3>. QED
      BY <1>2, <3>1 DEF QueueTyped
  <2>6. ASSUME NEW i \in 1 .. Len(r) + 1
        PROVE  i \in 1 .. Len(queue) - 1 \/ i = Len(r) + 1
    <3>1. Len(r) + 1 = Len(queue) /\ Len(r) = Len(queue) - 1
      BY <1>0, <2>2
    <3>2. i \in 1 .. Len(queue)
      BY <2>6, <3>1
    <3>3. Len(queue) \in Int
      BY <1>0
    <3>4. i \in 1 .. Len(queue) - 1 \/ i = Len(queue)
      BY <3>2, <3>3
    <3>5. CASE i \in 1 .. Len(queue) - 1
      BY <3>5
    <3>6. CASE i = Len(queue)
      BY <3>1, <3>6
    <3>. QED
      BY <3>4, <3>5, <3>6
  <2>7. \A i \in 1 .. Len(queue) - 1 : queue'[i] = queue[i] /\ i \in DOMAIN queue
    BY <1>0, <2>2, <2>3, <2>4, OneMore
  <2>8. queue'[Len(r) + 1] = Notice
    BY <2>2, <2>3, <2>4, OneMore
  <2>. QED
    BY <2>3, <2>5, <2>6, <2>7, <2>8 DEF Joins
<1>. QED
  BY <1>1, <1>2 DEF Put

LEMMA TakeJoins ==
  ASSUME QueueTyped, Take
  PROVE  Joins(Empty)
<1>0. /\ Len(queue) \in Nat /\ DOMAIN queue = 1 .. Len(queue) /\ Slots \in Nat /\ Slots >= 1
      /\ queue \in Seq(Queueable) /\ queue # <<>>
  BY QueueIs DEF QueueTyped, Take
<1> DEFINE r == Tail(queue)
<1>1. /\ r \in Seq(Queueable) /\ Len(r) = Len(queue) - 1 /\ Len(r) \in Nat /\ DOMAIN r = 1 .. Len(r)
      /\ \A i \in 1 .. Len(queue) - 1 : r[i] = queue[i + 1]
  BY <1>0, HeadTailProperties, LenProperties
<1>2. Len(r) < Slots
  BY <1>0, <1>1 DEF QueueTyped
<1>3. ASSUME NEW i \in 1 .. Len(r) PROVE \E j \in DOMAIN queue : r[i] = queue[j]
  <2>1. i + 1 \in DOMAIN queue /\ i \in 1 .. Len(queue) - 1
    BY <1>0, <1>1, <1>3
  <2>. QED
    BY <1>1, <2>1
<1>4. CASE queue' = r /\ UNCHANGED behind
  BY <1>1, <1>2, <1>3, <1>4, <1>0 DEF Joins, QueueTyped
<1>5. CASE behind /\ queue' = Append(r, Warning) /\ behind' = FALSE
  <2>3. Warning \in Queueable /\ Warning.body = Empty
    BY QueueableAre DEF Warning, Entry
  <2> HIDE DEF r
  <2>5. QueueTyped' /\ DOMAIN queue' = 1 .. Len(r) + 1
    BY <1>1, <1>2, <1>5, <2>3, OneMore DEF QueueTyped
  <2>6. ASSUME NEW i \in 1 .. Len(r) + 1
        PROVE  i \in 1 .. Len(r) \/ i = Len(r) + 1
    BY <1>1, <2>6
  <2>7. \A i \in 1 .. Len(r) : queue'[i] = r[i]
    BY <1>1, <1>2, <1>5, <2>3, OneMore
  <2>8. queue'[Len(r) + 1] = Warning
    BY <1>1, <1>2, <1>5, <2>3, OneMore
  <2>. QED
    BY <1>3, <2>3, <2>5, <2>6, <2>7, <2>8 DEF Joins
<1>. QED
  BY <1>4, <1>5 DEF Take

-----------------------------------------------------------------------------
(* What is on its way to a client is in the database.                       *)

Safe(m) == m \in atRisk \/ \E s \in DOMAIN stored : m \in Range(stored[s])

\* The messages of the session are stored, or their save failed; what is stored
\* of the session is of its messages.
ChatSafe ==
  /\ \A m \in Range(messages) : Safe(m)
  /\ session \in DOMAIN stored => Range(stored[session]) \subseteq Range(messages)

ChatKept == ChatTyped' /\ ChatSafe' /\ \A m : Safe(m) => Safe(m)'

LEMMA RangeOfAppended ==
  ASSUME NEW n \in Nat, NEW ms \in Chats(n)
  PROVE  Range(Append(ms, n + 1)) = Range(ms) \cup {n + 1}
<1>1. Len(ms) \in Nat /\ DOMAIN ms = 1 .. Len(ms) /\ ms \in Seq(Nat)
  BY LenProperties, SeqMonotonic DEF Chats
<1>2. /\ Len(Append(ms, n + 1)) = Len(ms) + 1 /\ DOMAIN Append(ms, n + 1) = 1 .. Len(ms) + 1
      /\ Append(ms, n + 1)[Len(ms) + 1] = n + 1
      /\ \A i \in 1 .. Len(ms) : Append(ms, n + 1)[i] = ms[i]
  <2>1. n + 1 \in Nat
    OBVIOUS
  <2>. QED
    BY <1>1, <2>1, AppendProperties, LenProperties
<1> DEFINE a == Append(ms, n + 1)
<1> HIDE DEF a
<1>3. ASSUME NEW i \in 1 .. Len(ms) + 1 PROVE i \in 1 .. Len(ms) \/ i = Len(ms) + 1
  BY <1>1, <1>3
<1>4. Len(ms) + 1 \in 1 .. Len(ms) + 1 /\ \A i \in 1 .. Len(ms) : i \in 1 .. Len(ms) + 1
  BY <1>1
<1>. QED
  BY <1>1, <1>2, <1>3, <1>4 DEF Range, a

LEMMA AddMessageKeeps ==
  ASSUME ChatTyped, ChatSafe, AddMessage
  PROVE  ChatKept
<1>0. ending' \in BOOLEAN
  BY Zenon DEF AddMessage, ChatTyped
<1>1. /\ made \in Nat /\ made < MaxMessages /\ MaxMessages \in Nat
      /\ made' = made + 1 /\ messages' = Append(messages, made + 1)
      /\ session # 0 /\ session' = session /\ binding' = binding
  BY ConnectionAssumption DEF AddMessage, ChatTyped
<1>2. made' \in 0 .. MaxMessages /\ atRisk \in SUBSET (1 .. made + 1)
  BY <1>1 DEF ChatTyped
<1>3. messages' \in Chats(made + 1) /\ \A s \in DOMAIN stored : stored[s] \in Chats(made + 1)
  BY <1>1, ChatsGrow DEF ChatTyped
<1>4. Range(messages') = Range(messages) \cup {made + 1} /\ Range(messages') \subseteq 1 .. made + 1
  <2>1. Range(messages') = Range(messages) \cup {made + 1}
    BY <1>1, RangeOfAppended DEF ChatTyped
  <2>2. messages' \in Seq(1 .. made + 1)
    BY <1>3 DEF Chats
  <2>. QED
    BY <2>1, <2>2, RangeOfSeq DEF Range
<1>5. CASE /\ stored' = [x \in DOMAIN stored \cup {session} |->
                          IF x = session THEN messages' ELSE stored[x]]
           /\ atRisk' = atRisk
  <2>1. DOMAIN stored' = DOMAIN stored \cup {session} /\ session \in 1 .. MaxSessions
    BY <1>1, <1>5, ConnectionAssumption DEF ChatTyped
  <2>2. \A s \in DOMAIN stored' : stored'[s] = IF s = session THEN messages' ELSE stored[s]
    BY <1>5
  <2>3. ChatTyped'
    BY <1>0, <1>1, <1>2, <1>3, <1>5, <2>1, <2>2 DEF ChatTyped
  <2>4. ASSUME NEW m, Safe(m) PROVE Safe(m)'
    <3>1. CASE m \in atRisk
      BY <1>5, <3>1 DEF Safe
    <3>2. ASSUME NEW s \in DOMAIN stored, m \in Range(stored[s]) PROVE Safe(m)'
      <4>1. m \in Range(stored'[s])
        BY <1>4, <2>1, <2>2, <3>2 DEF ChatSafe
      <4>. QED
        BY <2>1, <4>1 DEF Safe
    <3>. QED
      BY <2>4, <3>1, <3>2 DEF Safe
  <2>5. \A m \in Range(messages') : Safe(m)'
    BY <2>1, <2>2 DEF Safe
  <2>6. ChatSafe'
    BY <1>1, <2>1, <2>2, <2>5 DEF ChatSafe
  <2>. QED
    BY <2>3, <2>4, <2>6 DEF ChatKept
<1>6. CASE UNCHANGED stored /\ atRisk' = atRisk \cup Range(messages')
  <2>1. ChatTyped'
    BY <1>0, <1>1, <1>2, <1>3, <1>4, <1>6 DEF ChatTyped
  <2>2. \A m : Safe(m) => Safe(m)'
    BY <1>6 DEF Safe
  <2>3. ChatSafe'
    BY <1>1, <1>4, <1>6 DEF ChatSafe, Safe
  <2>. QED
    BY <2>1, <2>2, <2>3 DEF ChatKept
<1>. QED
  BY <1>5, <1>6 DEF AddMessage, Saved

LEMMA AddUnsavedKeeps ==
  ASSUME ChatTyped, ChatSafe, AddUnsaved
  PROVE  ChatKept
<1>1. /\ made \in Nat /\ made < MaxMessages /\ MaxMessages \in Nat
      /\ made' = made + 1 /\ messages' = Append(messages, made + 1)
      /\ session = 0 /\ session' = session /\ binding' = binding /\ stored' = stored
      /\ ending' = FALSE /\ atRisk' = atRisk \cup {made + 1}
  BY ConnectionAssumption DEF AddUnsaved, ChatTyped
<1>2. made' \in 0 .. MaxMessages /\ atRisk' \in SUBSET (1 .. made + 1)
  BY <1>1 DEF ChatTyped
<1>3. messages' \in Chats(made + 1) /\ \A s \in DOMAIN stored : stored[s] \in Chats(made + 1)
  BY <1>1, ChatsGrow DEF ChatTyped
<1>4. Range(messages') = Range(messages) \cup {made + 1}
  BY <1>1, RangeOfAppended DEF ChatTyped
<1>5. ChatTyped'
  BY <1>1, <1>2, <1>3 DEF ChatTyped
<1>6. \A m : Safe(m) => Safe(m)'
  BY <1>1 DEF Safe
<1>7. session \notin DOMAIN stored
  BY <1>1 DEF ChatTyped
<1>8. ChatSafe'
  BY <1>1, <1>4, <1>6, <1>7 DEF ChatSafe, Safe
<1>. QED
  BY <1>5, <1>6, <1>8 DEF ChatKept

LEMMA StartSessionKeeps ==
  ASSUME ChatTyped, ChatSafe, StartSession
  PROVE  ChatKept
<1>1. PICK s \in (DOMAIN stored \cup {NewSession}) \cap 1 .. MaxSessions :
        LET kept == IF session = 0 THEN stored
                    ELSE [x \in DOMAIN stored \cup {session} |->
                            IF x = session THEN messages ELSE stored[x]]
            new  == s \notin DOMAIN kept
        IN
        /\ session' = s
        /\ messages' = Loaded(kept, s)
        /\ \/ /\ stored' = [x \in DOMAIN kept \cup {s} |->
                              IF x = s THEN messages' ELSE kept[x]]
              /\ binding' = binding + 1 /\ UNCHANGED out
           \/ new /\ stored' = kept /\ out' = <<Other>> /\ UNCHANGED binding
  BY Zenon DEF StartSession
<1> DEFINE kept == IF session = 0 THEN stored
                   ELSE [x \in DOMAIN stored \cup {session} |->
                           IF x = session THEN messages ELSE stored[x]]
<1>2. /\ DOMAIN stored \subseteq DOMAIN kept /\ DOMAIN kept \in SUBSET (1 .. MaxSessions)
      /\ \A x \in DOMAIN kept : kept[x] \in Chats(made)
      /\ \A x \in DOMAIN stored : Range(stored[x]) \subseteq Range(kept[x])
  <2>1. CASE session = 0
    BY <2>1 DEF ChatTyped
  <2>2. CASE session # 0
    <3>1. session \in 1 .. MaxSessions
      BY <2>2, ConnectionAssumption DEF ChatTyped
    <3>2. DOMAIN kept = DOMAIN stored \cup {session}
      BY <2>2
    <3>3. \A x \in DOMAIN kept : kept[x] = IF x = session THEN messages ELSE stored[x]
      BY <2>2
    <3> HIDE DEF kept
    <3>. QED
      BY <3>1, <3>2, <3>3 DEF ChatTyped, ChatSafe
  <2>. QED
    BY <2>1, <2>2
<1>3. /\ session' = s /\ messages' = IF s \in DOMAIN kept THEN kept[s] ELSE <<>>
      /\ \/ /\ stored' = [x \in DOMAIN kept \cup {s} |-> IF x = s THEN messages' ELSE kept[x]]
            /\ binding' = binding + 1
         \/ s \notin DOMAIN kept /\ stored' = kept /\ binding' = binding
  BY <1>1 DEF Loaded
<1> HIDE DEF kept
<1>4. made' = made /\ atRisk' = atRisk /\ ending' = ending /\ binding < MaxBinding
  BY DEF StartSession
<1>5. /\ s \in 1 .. MaxSessions /\ s \in 0 .. MaxSessions /\ messages' \in Chats(made)
      /\ binding' \in 0 .. MaxBinding
  <2>1. s \in 0 .. MaxSessions
    BY ConnectionAssumption
  <2>2. binding + 1 \in 0 .. MaxBinding
    BY <1>4, ConnectionAssumption DEF ChatTyped
  <2>3. made \in Nat
    BY ConnectionAssumption DEF ChatTyped
  <2>. QED
    BY <1>2, <1>3, <2>1, <2>2, <2>3, NoChat DEF ChatTyped
<1>6. /\ DOMAIN stored' \in SUBSET (1 .. MaxSessions) /\ DOMAIN stored \subseteq DOMAIN stored'
      /\ \A x \in DOMAIN stored' : stored'[x] \in Chats(made)
      /\ \A x \in DOMAIN stored : Range(stored[x]) \subseteq Range(stored'[x])
      /\ s \in DOMAIN stored' => stored'[s] = messages'
      /\ s \notin DOMAIN stored' => messages' = <<>>
  <2>1. CASE stored' = [x \in DOMAIN kept \cup {s} |-> IF x = s THEN messages' ELSE kept[x]]
    <3>1. DOMAIN stored' = DOMAIN kept \cup {s}
      BY <2>1
    <3>2. \A x \in DOMAIN stored' : stored'[x] = IF x = s THEN messages' ELSE kept[x]
      BY <2>1
    <3>3. \A x \in DOMAIN stored : Range(stored[x]) \subseteq Range(stored'[x])
      BY <1>2, <1>3, <3>1, <3>2
    <3>. QED
      BY <1>2, <1>5, <3>1, <3>2, <3>3
  <2>2. CASE s \notin DOMAIN kept /\ stored' = kept
    BY <1>2, <1>3, <2>2
  <2>. QED
    BY <1>3, <2>1, <2>2
<1>7. ChatTyped'
  BY <1>3, <1>4, <1>5, <1>6 DEF ChatTyped
<1>8. \A m : Safe(m) => Safe(m)'
  BY <1>4, <1>6 DEF Safe
<1>9. ChatSafe'
  <2>1. Range(<<>>) = {}
    BY DEF Range
  <2>. QED
    BY <1>3, <1>6, <2>1 DEF ChatSafe, Safe
<1>. QED
  BY <1>7, <1>8, <1>9 DEF ChatKept

LEMMA CloseSessionKeeps ==
  ASSUME ChatTyped, ChatSafe, CloseSession
  PROVE  ChatKept
<1>0. ending' \in BOOLEAN
  BY Zenon DEF CloseSession, ChatTyped
<1>1. /\ made' = made /\ binding' = binding /\ session # 0 /\ session \in 1 .. MaxSessions
  BY ConnectionAssumption DEF CloseSession, ChatTyped
<1>2. CASE /\ stored' = [x \in DOMAIN stored \cup {session} |->
                          IF x = session THEN messages ELSE stored[x]]
           /\ session' = 0 /\ messages' = <<>> /\ atRisk' = atRisk
  <2>1. DOMAIN stored' = DOMAIN stored \cup {session}
    BY <1>2
  <2>2. \A x \in DOMAIN stored' : stored'[x] = IF x = session THEN messages ELSE stored[x]
    BY <1>2
  <2>3. <<>> \in Chats(made) /\ 0 \in 0 .. MaxSessions
    BY ConnectionAssumption, NoChat DEF ChatTyped
  <2>4. ChatTyped'
    BY <1>0, <1>1, <1>2, <2>1, <2>2, <2>3 DEF ChatTyped
  <2>5. \A m : Safe(m) => Safe(m)'
    BY <1>2, <2>1, <2>2 DEF Safe, ChatSafe
  <2>6. Range(<<>>) = {} /\ 0 \notin DOMAIN stored'
    BY <2>4, <1>2 DEF Range, ChatTyped
  <2>. QED
    BY <1>2, <2>4, <2>5, <2>6 DEF ChatKept, ChatSafe
<1>3. CASE atRisk' = atRisk \cup Range(messages) /\ UNCHANGED <<session, messages, stored>>
  <2>1. Range(messages) \subseteq 1 .. made
    BY RangeOfSeq DEF ChatTyped, Chats, Range
  <2>2. ChatTyped'
    BY <1>0, <1>1, <1>3, <2>1 DEF ChatTyped
  <2>. QED
    BY <1>3, <2>2 DEF ChatKept, ChatSafe, Safe
<1>. QED
  BY <1>2, <1>3 DEF CloseSession, Saved

LEMMA ChatStep ==
  ASSUME ChatTyped, ChatSafe, [ConnectionNext]_connectionVars
  PROVE  ChatKept /\ made' \in {made, made + 1}
<1>1. CASE UNCHANGED chat
  BY <1>1 DEF chat, ChatTyped, ChatSafe, ChatKept, Safe
<1>2. CASE AddMessage
  BY <1>2, AddMessageKeeps DEF AddMessage
<1>7. CASE AddUnsaved
  BY <1>7, AddUnsavedKeeps DEF AddUnsaved
<1>3. CASE StartSession
  BY <1>3, StartSessionKeeps DEF StartSession
<1>4. CASE CloseSession
  BY <1>4, CloseSessionKeeps DEF CloseSession
<1>5. CASE Bound
  <2>1. binding - 1 \in 0 .. MaxBinding
    BY <1>5, ConnectionAssumption DEF Bound, ChatTyped
  <2>. QED
    BY <1>5, <2>1 DEF Bound, ChatTyped, ChatSafe, ChatKept, Safe
<1>6. CASE Crash
  <2>1. /\ <<>> \in Chats(made) /\ 0 \in 0 .. MaxSessions /\ 0 \in 0 .. MaxBinding
        /\ Range(<<>>) = {} /\ 0 \notin DOMAIN stored
    BY ConnectionAssumption, NoChat DEF ChatTyped, Range
  <2>. QED
    BY <1>6, <2>1 DEF Crash, ChatTyped, ChatSafe, ChatKept, Safe
<1>. QED
  BY <1>1, <1>2, <1>3, <1>4, <1>5, <1>6, <1>7
     DEF ConnectionNext, connectionVars, Emit, Receive, Reconnect, RequestSnapshot, Say, Replay

-----------------------------------------------------------------------------
\* What a step emits, and the replays it leaves.
Emits ==
  /\ OutTyped' /\ ReplaysTyped'
  /\ \A t \in replays' : t.history = messages \/ \E r \in replays : t.history = r.history
  /\ \A i \in DOMAIN out' :
       out'[i].what \in {"history", "added"} =>
         \/ out'[i].id \in Range(messages')
         \/ \E t \in replays : out'[i].id \in Range(t.history)
         \/ \E j \in DOMAIN out : out'[i] = out[j]

LEMMA OneEvent ==
  ASSUME NEW e \in Bodies
  PROVE  <<e>> \in Seq(Bodies) /\ Len(<<e>>) = 1 /\ DOMAIN <<e>> = {1} /\ <<e>>[1] = e
  OBVIOUS

LEMMA TwoEvents ==
  ASSUME NEW e \in Bodies, NEW f \in Bodies
  PROVE  /\ <<e, f>> \in Seq(Bodies) /\ Len(<<e, f>>) = 2 /\ DOMAIN <<e, f>> = {1, 2}
         /\ <<e, f>>[1] = e /\ <<e, f>>[2] = f
  OBVIOUS

LEMMA NoEvent == <<>> \in Seq(Bodies) /\ Len(<<>>) = 0 /\ DOMAIN <<>> = {}
  BY EmptySeq

LEMMA EventsAreTyped ==
  ASSUME ChatTyped
  PROVE  /\ Other \in Bodies /\ Delta \in Bodies /\ Complete \in Bodies /\ Snapshot \in Bodies
         /\ \A m \in 0 .. MaxMessages : Added(m) \in Bodies /\ History(m) \in Bodies
         /\ \A m : Added(m).id = m /\ History(m).id = m
         /\ Other.what = "other" /\ Delta.what = "delta" /\ Complete.what = "complete"
         /\ Snapshot.what = "snapshot"
<1>1. /\ 0 \in 0 .. MaxMessages + MaxSessions
      /\ 0 .. MaxMessages \subseteq 0 .. MaxMessages + MaxSessions
      /\ session \in 0 .. MaxMessages + MaxSessions
  BY ConnectionAssumption DEF ChatTyped
<1>. QED
  BY <1>1 DEF Other, Delta, Complete, Snapshot, Added, History, Says, Bodies

\* Runs of an earlier state are runs.
LEMMA RunningGrows ==
  ASSUME ChatTyped, made' \in {made, made + 1}
  PROVE  Running \subseteq Running'
<1>1. Chats(made) \subseteq Chats(made')
  BY ChatsGrow, ConnectionAssumption DEF ChatTyped
<1>. QED
  BY <1>1 DEF Running

\* A snapshot cancels the replay under way.
LEMMA Cancelled ==
  ASSUME ReplaysTyped, CancelReplay, generation < MaxSnapshots
  PROVE  StillAlive = {} /\ generation' = generation + 1 /\ generation' \in 0 .. MaxSnapshots
  BY ConnectionAssumption DEF ReplaysTyped, CancelReplay, StillAlive

LEMMA SnapshotEmits ==
  ASSUME ChatTyped, ReplaysTyped, EmitSnapshot, made' = made
  PROVE  /\ OutTyped' /\ ReplaysTyped'
         /\ \A t \in replays' : t.history = messages
         /\ \A i \in DOMAIN out' : out'[i].what \notin {"history", "added"}
<1>1. StillAlive = {} /\ generation' = generation + 1 /\ generation' \in 0 .. MaxSnapshots
  BY Cancelled DEF EmitSnapshot
<1>2. CASE messages = <<>>
  <2>1. out' = <<Snapshot, Complete>> /\ replays' = {}
    BY <1>1, <1>2 DEF EmitSnapshot
  <2>. QED
    BY <1>1, <2>1, TwoEvents, EventsAreTyped DEF OutTyped, ReplaysTyped
<1>3. CASE messages # <<>>
  <2> DEFINE t == [generation |-> generation', history |-> messages, next |-> 1]
  <2>1. out' = <<Snapshot>> /\ replays' = {t}
    BY <1>1, <1>3 DEF EmitSnapshot
  <2>2. OutTyped' /\ \A i \in DOMAIN out' : out'[i].what \notin {"history", "added"}
    BY <2>1, OneEvent, EventsAreTyped DEF OutTyped
  <2>3. t \in Running' /\ t.generation = generation' /\ t.history = messages
    BY <1>1, ConnectionAssumption DEF Running, ChatTyped
  <2>4. ReplaysTyped'
    BY <1>1, <2>1, <2>3 DEF ReplaysTyped
  <2> HIDE DEF t
  <2>. QED
    BY <2>1, <2>2, <2>3, <2>4
<1>. QED
  BY <1>2, <1>3

LEMMA ReplayEmits ==
  ASSUME ChatTyped, ReplaysTyped, NEW t \in replays, Replay(t)
  PROVE  Emits
<1>0. /\ t \in Running /\ replays = {t} /\ t.generation = generation
      /\ t.history \in Seq(1 .. made) /\ t.next \in Nat \ {0} /\ made' = made /\ generation' = generation
      /\ Running' = Running
  BY DEF ReplaysTyped, Running, Chats, Replay, chat
<1>1. CASE t.next > Len(t.history)
  <2>1. out' = <<Complete>> /\ replays' = {}
    BY <1>0, <1>1 DEF Replay
  <2>. QED
    BY <1>0, <2>1, OneEvent, EventsAreTyped DEF Emits, OutTyped, ReplaysTyped
<1>2. CASE ~ (t.next > Len(t.history))
  <2> DEFINE m == t.history[t.next]
             r == [t EXCEPT !.next = @ + 1]
  <2>1. out' = <<History(m)>> /\ replays' = {r}
    BY <1>0, <1>2 DEF Replay
  <2>2. t.next \in DOMAIN t.history /\ m \in 1 .. made /\ m \in Range(t.history)
    <3>1. t.next \in 1 .. Len(t.history) /\ DOMAIN t.history = 1 .. Len(t.history)
      BY <1>0, <1>2, LenProperties
    <3>. QED
      BY <1>0, <3>1, ElementOfSeq DEF Range
  <2>3. m \in 0 .. MaxMessages
    BY <2>2, ConnectionAssumption DEF ChatTyped
  <2>4. r \in Running /\ r.generation = t.generation /\ r.history = t.history
    BY <1>0 DEF Running
  <2> HIDE DEF r, m
  <2>5. History(m) \in Bodies /\ History(m).id = m
    BY <2>3, EventsAreTyped
  <2>6. /\ OutTyped' /\ DOMAIN out' = {1} /\ out'[1].id = m
    BY <2>1, <2>5, OneEvent DEF OutTyped
  <2>7. ReplaysTyped'
    BY <1>0, <2>1, <2>4 DEF ReplaysTyped
  <2>. QED
    BY <1>0, <2>1, <2>2, <2>4, <2>6, <2>7 DEF Emits
<1>. QED
  BY <1>1, <1>2

LEMMA Emission ==
  ASSUME ChatTyped, ChatTyped', ReplaysTyped, OutTyped, made' \in {made, made + 1},
         [ConnectionNext]_connectionVars
  PROVE  Emits
<1>0. Running \subseteq Running'
  BY RunningGrows
<1>1. ASSUME UNCHANGED replaying PROVE ReplaysTyped' /\ replays' = replays
  BY <1>0, <1>1 DEF replaying, ReplaysTyped
<1>2. CASE Emit
  <2>1. out \in Seq(Bodies) /\ out # <<>> /\ Len(out) <= 2 /\ out' = Tail(out) /\ UNCHANGED replaying
    BY <1>2 DEF Emit, OutTyped
  <2>2. /\ Tail(out) \in Seq(Bodies) /\ Len(Tail(out)) = Len(out) - 1
        /\ \A i \in 1 .. Len(Tail(out)) : Tail(out)[i] = out[i + 1]
    BY <2>1, HeadTailProperties
  <2>3. Len(out) \in Nat /\ DOMAIN out = 1 .. Len(out) /\ DOMAIN out' = 1 .. Len(out) - 1
    BY <2>1, <2>2, LenProperties
  <2>4. \A i \in DOMAIN out' : i + 1 \in DOMAIN out /\ out'[i] = out[i + 1]
    BY <2>1, <2>2, <2>3
  <2>5. OutTyped'
    BY <2>1, <2>2, <2>3 DEF OutTyped
  <2>. QED
    BY <1>1, <2>1, <2>4, <2>5 DEF Emits
<1>3. CASE UNCHANGED <<replaying, out>>
  BY <1>1, <1>3 DEF Emits, OutTyped
<1>4. CASE AddMessage
  <2>1. UNCHANGED replaying /\ made' \in 0 .. MaxMessages /\ made' = made + 1
        /\ messages' = Append(messages, made + 1)
    BY <1>4 DEF AddMessage, ChatTyped
  <2>2. Added(made') \in Bodies /\ Added(made').id = made' /\ made' \in Range(messages')
    <3>1. made' \in Range(messages')
      BY <2>1, RangeOfAppended, ConnectionAssumption DEF ChatTyped
    <3>. QED
      BY <2>1, <3>1, EventsAreTyped
  <2>3. CASE out' = <<Added(made')>>
    <3>1. OutTyped' /\ DOMAIN out' = {1} /\ out'[1].id = made'
      BY <2>2, <2>3, OneEvent DEF OutTyped
    <3>. QED
      BY <1>1, <2>1, <2>2, <3>1 DEF Emits
  <2>4. CASE out' = <<Added(made'), Other>>
    <3>1. /\ OutTyped' /\ DOMAIN out' = {1, 2} /\ out'[1].id = made' /\ out'[2].what = "other"
      BY <2>2, <2>4, TwoEvents, EventsAreTyped DEF OutTyped
    <3>. QED
      BY <1>1, <2>1, <2>2, <3>1 DEF Emits
  <2>. QED
    BY <1>4, <2>3, <2>4 DEF AddMessage
<1>12. CASE AddUnsaved
  <2>1. UNCHANGED replaying /\ made' \in 0 .. MaxMessages /\ made' = made + 1
        /\ messages' = Append(messages, made + 1) /\ out' = <<Added(made')>>
    BY <1>12 DEF AddUnsaved, ChatTyped
  <2>2. made' \in Range(messages')
    BY <2>1, RangeOfAppended, ConnectionAssumption DEF ChatTyped
  <2>3. Added(made') \in Bodies /\ Added(made').id = made'
    BY <2>1, EventsAreTyped
  <2>4. OutTyped' /\ DOMAIN out' = {1} /\ out'[1].id = made'
    BY <2>1, <2>3, OneEvent DEF OutTyped
  <2>. QED
    BY <1>1, <2>1, <2>2, <2>3, <2>4 DEF Emits
<1>5. ASSUME NEW e \in {Other, Delta}, Say(e) PROVE Emits
  <2>1. OutTyped' /\ DOMAIN out' = {1} /\ out'[1].what \notin {"history", "added"}
    BY <1>5, OneEvent, EventsAreTyped DEF OutTyped, Say
  <2>. QED
    BY <1>1, <1>5, <2>1 DEF Emits, Say
<1>6. CASE RequestSnapshot
  BY <1>6, SnapshotEmits DEF RequestSnapshot, chat, Emits
<1>7. ASSUME NEW t \in replays, Replay(t) PROVE Emits
  BY <1>7, ReplayEmits
<1>8. CASE StartSession
  <2>1. UNCHANGED replaying /\ (out' = out \/ out' = <<Other>>)
    BY <1>8 DEF StartSession
  <2>2. CASE out' = out
    BY <1>1, <2>1, <2>2 DEF Emits, OutTyped
  <2>3. CASE out' = <<Other>>
    <3>1. OutTyped' /\ DOMAIN out' = {1} /\ out'[1].what \notin {"history", "added"}
      BY <2>3, OneEvent, EventsAreTyped DEF OutTyped
    <3>. QED
      BY <1>1, <2>1, <3>1 DEF Emits
  <2>. QED
    BY <2>1, <2>2, <2>3
<1>9. CASE Bound /\ EmitSnapshot
  BY <1>9, SnapshotEmits DEF Bound, Emits
<1>10. CASE /\ CancelReplay /\ generation < MaxSnapshots /\ replays' = StillAlive
            /\ out' = <<Other>>
  <2>1. OutTyped' /\ DOMAIN out' = {1} /\ out'[1].what \notin {"history", "added"}
    BY <1>10, OneEvent, EventsAreTyped DEF OutTyped
  <2>2. ReplaysTyped' /\ replays' = {}
    BY <1>10, Cancelled DEF ReplaysTyped
  <2>. QED
    BY <2>1, <2>2 DEF Emits
<1>11. CASE Crash
  BY <1>11, NoEvent DEF Crash, Emits, OutTyped, ReplaysTyped
<1>. QED
  BY <1>2, <1>3, <1>4, <1>5, <1>6, <1>7, <1>8, <1>9, <1>10, <1>11, <1>12
     DEF ConnectionNext, connectionVars, Receive, Reconnect, Bound, CloseSession

-----------------------------------------------------------------------------
(* What the client has shown.                                               *)

LEMMA NoViewIsTyped ==
  /\ NoView \in Views /\ Torn \in Views /\ Torn.lossy /\ ~ Torn.done /\ Torn.of = 0
  /\ NoView.hist = <<>> /\ NoView.live = <<>> /\ Torn.hist = <<>> /\ Torn.live = <<>>
  /\ ~ NoView.lossy /\ ~ NoView.done /\ NoView.of = 0
<1>1. <<>> \in Seq(Nat)
  BY EmptySeq
<1>. QED
  BY <1>1 DEF NoView, Torn, Views

LEMMA RangeOfOneMore ==
  ASSUME NEW s \in Seq(Nat), NEW m \in Nat
  PROVE  Append(s, m) \in Seq(Nat) /\ Range(Append(s, m)) = Range(s) \cup {m}
<1>1. /\ Append(s, m) \in Seq(Nat) /\ Len(s) \in Nat /\ DOMAIN s = 1 .. Len(s)
      /\ DOMAIN Append(s, m) = 1 .. Len(s) + 1 /\ Append(s, m)[Len(s) + 1] = m
      /\ \A i \in 1 .. Len(s) : Append(s, m)[i] = s[i]
  BY AppendProperties, LenProperties
<1> DEFINE a == Append(s, m)
<1> HIDE DEF a
<1>3. ASSUME NEW i \in 1 .. Len(s) + 1 PROVE i \in 1 .. Len(s) \/ i = Len(s) + 1
  BY <1>1, <1>3
<1>4. Len(s) + 1 \in 1 .. Len(s) + 1 /\ \A i \in 1 .. Len(s) : i \in 1 .. Len(s) + 1
  BY <1>1
<1>. QED
  BY <1>1, <1>3, <1>4 DEF Range, a

\* What an event makes of a page.
LEMMA ShownProperties ==
  ASSUME NEW p \in Views, NEW b \in Bodies
  PROVE  LET n == Shown(p, b) IN
         /\ n \in Views
         /\ n.hist \in {<<>>, p.hist} \/ (b.what = "history" /\ n.hist = Append(p.hist, b.id))
         /\ n.live \in {<<>>, p.live} \/ (b.what = "added" /\ n.live = Append(p.live, b.id))
<1> DEFINE n == Shown(p, b)
<1>1. b.id \in Nat
  BY ConnectionAssumption DEF Bodies
<1>2. p.hist \in Seq(Nat) /\ p.live \in Seq(Nat)
  BY DEF Views
<1>3. Append(p.hist, b.id) \in Seq(Nat) /\ Append(p.live, b.id) \in Seq(Nat)
  BY <1>1, <1>2, RangeOfOneMore
<1>4. CASE b.what = "snapshot"
  <2>1. n = [NoView EXCEPT !.of = b.id]
    BY <1>4 DEF Shown
  <2>. QED
    BY <1>1, <2>1, NoViewIsTyped DEF Views
<1>5. CASE b.what # "snapshot" /\ p.lossy
  <2>1. n = Torn
    BY <1>5 DEF Shown
  <2>. QED
    BY <2>1, NoViewIsTyped
<1>6. CASE b.what = "history" /\ ~ p.lossy
  <2>1. n = [p EXCEPT !.hist = Append(@, b.id)]
    BY <1>6 DEF Shown
  <2>. QED
    BY <1>3, <1>6, <2>1 DEF Views
<1>7. CASE b.what = "complete" /\ ~ p.lossy
  <2>1. n = [p EXCEPT !.done = TRUE]
    BY <1>7 DEF Shown
  <2>. QED
    BY <2>1 DEF Views
<1>8. CASE b.what = "added" /\ ~ p.lossy
  <2>1. n = [p EXCEPT !.live = Append(@, b.id)]
    BY <1>8 DEF Shown
  <2>. QED
    BY <1>3, <1>8, <2>1 DEF Views
<1>9. CASE b.what \in {"other", "delta"} /\ ~ p.lossy
  <2>1. n = p
    BY <1>9 DEF Shown
  <2>. QED
    BY <2>1
<1>. QED
  BY <1>4, <1>5, <1>6, <1>7, <1>8, <1>9 DEF Bodies

LEMMA PageAfterIs ==
  ASSUME NEW p \in Views, NEW e \in Queueable
  PROVE  /\ PageAfter(p, e) \in Views
         /\ e.body # Empty => PageAfter(p, e) = Shown(p, e.body)
         /\ e = Notice => PageAfter(p, e) = Torn
         /\ e = Warning => PageAfter(p, e) = p
<1>1. e.body # Empty => e.body \in Bodies
  BY EntryKinds
<1>2. e.body = Empty <=> e \in {Notice, Warning}
  BY EntryKinds
<1>3. Notice # Warning
  BY DEF Notice, Warning, Entry
<1>4. e.body # Empty => PageAfter(p, e) = Shown(p, e.body)
  BY DEF PageAfter
<1>5. e = Notice => PageAfter(p, e) = Torn
  BY <1>2 DEF PageAfter
<1>6. e = Warning => PageAfter(p, e) = p
  BY <1>2, <1>3 DEF PageAfter
<1>. QED
  BY <1>1, <1>2, <1>4, <1>5, <1>6, ShownProperties, NoViewIsTyped

\* The next page, when a step reads, or loses the queue.
LEMMA QueueStep ==
  ASSUME QueueTyped, OutTyped, view \in Views, [ConnectionNext]_connectionVars
  PROVE  /\ QueueTyped' /\ view' \in Views
         /\ \A i \in DOMAIN queue' :
              \/ \E j \in DOMAIN queue : queue'[i] = queue[j]
              \/ queue'[i].body = Empty
              \/ \E j \in DOMAIN out : queue'[i].body = out[j]
         /\ \/ view' \in {view, Torn}
            \/ \E i \in DOMAIN queue : view' = PageAfter(view, queue[i])
<1>1. CASE Emit
  <2>1. out # <<>> /\ out \in Seq(Bodies) /\ view' = view
    BY <1>1 DEF Emit, OutTyped
  <2>2. Head(out) \in Bodies /\ Head(out) = out[1] /\ 1 \in DOMAIN out
    <3>1. Len(out) \in Nat /\ Len(out) # 0 /\ DOMAIN out = 1 .. Len(out)
      BY <2>1, LenProperties, EmptySeq
    <3>2. 1 \in DOMAIN out
      BY <3>1
    <3>. QED
      BY <2>1, <3>2, HeadTailProperties
  <2>3. Joins(Head(out))
    <3>1. CASE Head(out).what = "delta"
      <4>1. PutStreaming(Head(out)) /\ Head(out) \in StreamBodies
        BY <1>1, <2>2, <3>1 DEF Emit, StreamBodies
      <4>. QED
        BY <4>1, PutStreamingJoins
    <3>2. CASE Head(out).what # "delta"
      BY <1>1, <2>2, <3>2, PutJoins DEF Emit
    <3>. QED
      BY <3>1, <3>2
  <2>. QED
    BY <2>1, <2>2, <2>3 DEF Joins
<1>2. CASE Receive
  <2>1. Joins(Empty) /\ queue # <<>> /\ view' = PageAfter(view, Head(queue))
    BY <1>2, TakeJoins DEF Receive, Take
  <2>2. 1 \in DOMAIN queue /\ Head(queue) = queue[1] /\ queue[1] \in Queueable
    <3>1. queue \in Seq(Queueable) /\ Len(queue) # 0
      BY <2>1, EmptySeq DEF QueueTyped
    <3>2. 1 \in DOMAIN queue
      BY <3>1, QueueIs
    <3>. QED
      BY <2>1, <3>1, <3>2, ElementOfSeq, QueueIs
  <2>3. view' \in Views
    BY <2>1, <2>2, PageAfterIs
  <2>. QED
    BY <2>1, <2>2, <2>3 DEF Joins
<1>3. CASE NewQueue
  <2>1. queue' \in Seq(Queueable) /\ Len(queue') = 0 /\ DOMAIN queue' = {}
    BY <1>3, EmptySeq DEF NewQueue
  <2>2. QueueTyped'
    <3>1. Slots \in Nat /\ 0 <= Slots
      BY ConnectionAssumption
    <3>2. Len(queue') <= Slots /\ behind' \in BOOLEAN
      BY <1>3, <2>1, <3>1 DEF NewQueue
    <3>. QED
      BY <2>1, <3>2 DEF QueueTyped
  <2>. QED
    BY <1>3, <2>1, <2>2, NoViewIsTyped DEF NewQueue
<1>4. CASE UNCHANGED <<channel, view>>
  BY <1>4 DEF channel, QueueTyped
<1>. QED
  BY <1>1, <1>2, <1>3, <1>4
     DEF ConnectionNext, connectionVars, Reconnect, AddMessage, AddUnsaved, RequestSnapshot,
         Say, Replay,
         StartSession, Bound, CloseSession, Crash

-----------------------------------------------------------------------------
\* All that is on its way to the client is safe.
WaySafe ==
  /\ \A t \in replays : \A m \in Range(t.history) : Safe(m)
  /\ \A i \in DOMAIN out, m \in Nat :
       out[i].what \in {"history", "added"} /\ m = out[i].id => Safe(m)
  /\ \A i \in DOMAIN queue, m \in Nat :
       /\ queue[i].body # Empty /\ queue[i].body.what \in {"history", "added"}
       /\ m = queue[i].body.id
       => Safe(m)
  /\ \A m \in Range(view.hist) \cup Range(view.live) : Safe(m)

TypesInv == QueueTyped /\ ChatTyped /\ ReplaysTyped /\ OutTyped /\ view \in Views

StoredInv == TypesInv /\ ChatSafe /\ WaySafe

LEMMA TypesStep ==
  ASSUME TypesInv, ChatSafe, [ConnectionNext]_connectionVars
  PROVE  TypesInv' /\ ChatKept /\ Emits
<1>1. ChatKept /\ made' \in {made, made + 1}
  BY ChatStep DEF TypesInv
<1>2. Emits
  BY <1>1, Emission DEF TypesInv, ChatKept
<1>3. QueueTyped' /\ view' \in Views
  BY QueueStep DEF TypesInv
<1>4. Views' = Views
  BY DEF Views
<1>. QED
  BY <1>1, <1>2, <1>3, <1>4 DEF TypesInv, ChatKept, Emits

LEMMA WayStep ==
  ASSUME StoredInv, [ConnectionNext]_connectionVars
  PROVE  WaySafe'
<1>0. ChatKept /\ Emits
  BY TypesStep DEF StoredInv
<1>1. \A m : Safe(m) => Safe(m)'
  BY <1>0 DEF ChatKept
<1>2. \A m \in Range(messages') : Safe(m)'
  BY <1>0 DEF ChatKept, ChatSafe
<1>3. \A t \in replays' : \A m \in Range(t.history) : Safe(m)'
  BY <1>0, <1>1 DEF Emits, StoredInv, ChatSafe, WaySafe
<1>4. ASSUME NEW i \in DOMAIN out', NEW m \in Nat,
             out'[i].what \in {"history", "added"}, m = out'[i].id
      PROVE  Safe(m)'
  <2>1. CASE m \in Range(messages')
    BY <1>2, <2>1
  <2>2. ASSUME NEW t \in replays, m \in Range(t.history) PROVE Safe(m)'
    BY <1>1, <2>2 DEF StoredInv, WaySafe
  <2>3. ASSUME NEW j \in DOMAIN out, out'[i] = out[j] PROVE Safe(m)'
    BY <1>1, <1>4, <2>3 DEF StoredInv, WaySafe
  <2>. QED
    BY <1>0, <1>4, <2>1, <2>2, <2>3 DEF Emits
<1>5. ASSUME NEW i \in DOMAIN queue', NEW m \in Nat, queue'[i].body # Empty,
             queue'[i].body.what \in {"history", "added"}, m = queue'[i].body.id
      PROVE  Safe(m)'
  <2>1. \/ \E j \in DOMAIN queue : queue'[i] = queue[j]
        \/ \E j \in DOMAIN out : queue'[i].body = out[j]
    BY <1>5, QueueStep DEF StoredInv, TypesInv
  <2>2. Safe(m)
    BY <1>5, <2>1 DEF StoredInv, WaySafe
  <2>. QED
    BY <1>1, <2>2
<1>6. ASSUME NEW m \in Range(view'.hist) \cup Range(view'.live) PROVE Safe(m)'
  <2>0. Range(<<>>) = {} /\ view \in Views /\ \A n \in Range(view.hist) \cup Range(view.live) : Safe(n)
    BY DEF Range, StoredInv, TypesInv, WaySafe
  <2>1. CASE view' \in {view, Torn}
    BY <1>1, <1>6, <2>0, <2>1, NoViewIsTyped
  <2>2. ASSUME NEW i \in DOMAIN queue, view' = PageAfter(view, queue[i]) PROVE Safe(m)'
    <3>1. queue[i] \in Queueable
      BY ElementOfSeq, QueueIs DEF StoredInv, TypesInv, QueueTyped
    <3>2. CASE queue[i].body = Empty
      BY <1>1, <1>6, <2>0, <2>2, <3>1, <3>2, PageAfterIs, EntryKinds, NoViewIsTyped
    <3>3. CASE queue[i].body # Empty
      <4> DEFINE b == queue[i].body
      <4>1. b \in Bodies /\ view' = Shown(view, b)
        BY <2>0, <2>2, <3>1, <3>3, PageAfterIs, EntryKinds
      <4>2. b.id \in Nat /\ (b.what \in {"history", "added"} => Safe(b.id))
        BY <2>0, <3>3, <4>1, ConnectionAssumption DEF StoredInv, WaySafe, Bodies
      <4> HIDE DEF b
      <4>3. /\ view'.hist \in {<<>>, view.hist} \/ (b.what = "history" /\ view'.hist = Append(view.hist, b.id))
            /\ view'.live \in {<<>>, view.live} \/ (b.what = "added" /\ view'.live = Append(view.live, b.id))
        BY <2>0, <4>1, ShownProperties
      <4>4. view.hist \in Seq(Nat) /\ view.live \in Seq(Nat)
        BY <2>0 DEF Views
      <4>5. /\ Range(Append(view.hist, b.id)) = Range(view.hist) \cup {b.id}
            /\ Range(Append(view.live, b.id)) = Range(view.live) \cup {b.id}
        BY <4>2, <4>4, RangeOfOneMore
      <4>6. Safe(m)
        BY <1>6, <2>0, <4>2, <4>3, <4>5
      <4>. QED
        BY <1>1, <4>6
    <3>. QED
      BY <3>2, <3>3
  <2>. QED
    BY <2>1, <2>2, QueueStep DEF StoredInv, TypesInv
<1>. QED
  BY <1>3, <1>4, <1>5, <1>6 DEF WaySafe

LEMMA ConnectionStart == ConnectionInit => StoredInv
<1> SUFFICES ASSUME ConnectionInit PROVE StoredInv
  OBVIOUS
<1>1. /\ 0 \in 0 .. MaxMessages /\ 0 \in 0 .. MaxSessions /\ 0 \in 0 .. MaxBinding
      /\ 0 \in 0 .. MaxSnapshots /\ Slots \in Nat /\ 0 \in Nat
  BY ConnectionAssumption
<1>2. <<>> \in Seq(Queueable) /\ <<>> \in Seq(Bodies) /\ Len(<<>>) = 0 /\ DOMAIN <<>> = {}
  BY EmptySeq
<1>3. <<>> \in Chats(0) /\ Range(<<>>) = {}
  BY <1>1, NoChat DEF Range
<1>4. QueueTyped
  <2>1. queue \in Seq(Queueable) /\ Len(queue) = 0
    BY <1>2 DEF ConnectionInit, ChannelInit
  <2>2. Slots \in Nat /\ 0 <= Slots
    BY ConnectionAssumption
  <2>3. Len(queue) <= Slots /\ behind \in BOOLEAN
    BY <2>1, <2>2 DEF ConnectionInit, ChannelInit
  <2>. QED
    BY <2>1, <2>3 DEF QueueTyped
<1>5. ChatTyped
  BY <1>1, <1>2, <1>3 DEF ConnectionInit, ChatTyped
<1>6. ReplaysTyped /\ OutTyped
  BY <1>1, <1>2 DEF ConnectionInit, ReplaysTyped, OutTyped
<1>7. view \in Views /\ Range(view.hist) = {} /\ Range(view.live) = {}
  BY <1>3, NoViewIsTyped DEF ConnectionInit, NoView
<1>8. ChatSafe /\ WaySafe
  BY <1>2, <1>3, <1>7 DEF ConnectionInit, ChannelInit, ChatSafe, WaySafe
<1>. QED
  BY <1>4, <1>5, <1>6, <1>7, <1>8 DEF StoredInv, TypesInv

LEMMA StoredStep == StoredInv /\ [ConnectionNext]_connectionVars => StoredInv'
<1> SUFFICES ASSUME StoredInv, [ConnectionNext]_connectionVars PROVE StoredInv'
  OBVIOUS
<1>. QED
  BY TypesStep, WayStep DEF StoredInv, ChatKept

\* Every variable of a connection keeps to its type, for any number of messages,
\* sessions and snapshots, and any queue that holds an event.
THEOREM ConnectionTypes == ConnectionSpec => []ConnectionTypeOK
<1>1. StoredInv => ConnectionTypeOK
  <2> SUFFICES ASSUME StoredInv PROVE ConnectionTypeOK
    OBVIOUS
  <2>1. Cardinality(replays) <= 1
    <3>1. replays = {} \/ \E t \in replays : replays = {t}
      BY DEF StoredInv, TypesInv, ReplaysTyped
    <3>2. Cardinality({}) = 0 /\ \A t : Cardinality({t}) = 1
      BY FS_EmptySet, FS_Singleton
    <3>3. Cardinality(replays) \in {0, 1}
      BY <3>1, <3>2, Zenon
    <3>. QED
      BY <3>3
  <2>. QED
    BY <2>1 DEF StoredInv, TypesInv, QueueTyped, ChatTyped, ReplaysTyped, Chats, ConnectionTypeOK
<1>. QED
  BY <1>1, ConnectionStart, StoredStep, PTL DEF ConnectionSpec

\* Whatever is lost, replayed, saved or not saved, closed and loaded again, and
\* whenever the engine dies: a client shows, and is about to be shown, no message
\* that is not in the database, but those whose save failed and those of a turn
\* that ended with no session open.
THEOREM ShownAreStored == ConnectionSpec => []ShownIsStored
<1>1. StoredInv => ShownIsStored
  <2> SUFFICES ASSUME StoredInv,
                      NEW m \in Range(view.hist) \cup Range(view.live) \cup
                        {e.id : e \in {x \in Range(Queued) \ {Empty} :
                                         x.what \in {"history", "added"}}}
               PROVE  m \in atRisk \/ \E s \in DOMAIN stored : m \in Range(stored[s])
    BY DEF ShownIsStored
  <2>1. CASE m \in Range(view.hist) \cup Range(view.live)
    BY <2>1 DEF StoredInv, WaySafe, Safe
  <2>2. ASSUME NEW e \in Range(Queued) \ {Empty}, e.what \in {"history", "added"}, m = e.id
        PROVE  Safe(m)
    <3>1. PICK i \in DOMAIN queue : e = queue[i].body
      BY DEF Queued, Range
    <3>2. queue[i] \in Queueable
      BY ElementOfSeq, QueueIs DEF StoredInv, TypesInv, QueueTyped
    <3>3. m \in Nat
      BY <2>2, <3>1, <3>2, EntryKinds, ConnectionAssumption DEF Bodies
    <3>. QED
      BY <2>2, <3>1, <3>3 DEF StoredInv, WaySafe
  <2>. QED
    BY <2>1, <2>2 DEF Safe
<1>. QED
  BY <1>1, ConnectionStart, StoredStep, PTL DEF ConnectionSpec

-----------------------------------------------------------------------------
(* The chat of a session on its way to a client: pages.                    *)

\* A page that a client may have: its history in order; if it is torn, nothing.
Pages == {p \in Views : Increasing(p.hist) /\ (p.lossy => p = Torn)}

\* No message of a history comes to a page that is complete.
Fits(p, e) == e.body # Empty /\ e.body.what = "history" => p.lossy \/ ~ p.done

Turns(p, e, q) == q = PageAfter(p, e) /\ Fits(p, e)

\* The pages w, from p to q, are what the entries s make one of the other.
Leads(w, s, p, q) ==
  /\ w \in [0 .. Len(s) -> Pages] /\ w[0] = p /\ w[Len(s)] = q
  /\ \A i \in 1 .. Len(s) : Turns(w[i - 1], s[i], w[i])

Path(s, p, q) == \E w : Leads(w, s, p, q)

LEMMA PathStays ==
  ASSUME NEW p \in Pages
  PROVE  Path(<<>>, p, p)
<1> DEFINE w == [i \in 0 .. 0 |-> p]
<1>1. Len(<<>>) = 0 /\ w \in [0 .. 0 -> Pages] /\ w[0] = p /\ 1 .. 0 = {}
  OBVIOUS
<1>. QED
  BY <1>1 DEF Path, Leads

LEMMA PathGrows ==
  ASSUME NEW s \in Seq(Queueable), NEW e \in Queueable, NEW p, NEW q, NEW r \in Pages,
         Path(s, p, q), Turns(q, e, r)
  PROVE  Path(Append(s, e), p, r)
<1> DEFINE n == Len(s)
           a == Append(s, e)
<1>1. PICK w : Leads(w, s, p, q)
  BY DEF Path
<1>2. n \in Nat /\ Len(a) = n + 1 /\ a[n + 1] = e /\ \A i \in 1 .. n : a[i] = s[i]
  BY AppendProperties, LenProperties
<1> HIDE DEF n, a
<1>3. w \in [0 .. n -> Pages] /\ w[0] = p /\ w[n] = q /\ \A i \in 1 .. n : Turns(w[i - 1], s[i], w[i])
  BY <1>1 DEF Leads, n
<1> DEFINE v == [i \in 0 .. n + 1 |-> IF i = n + 1 THEN r ELSE w[i]]
<1>4. v \in [0 .. n + 1 -> Pages] /\ v[0] = p /\ v[n + 1] = r
  <2>1. \A i \in 0 .. n + 1 : i # n + 1 => i \in 0 .. n
    BY <1>2
  <2>2. 0 \in 0 .. n + 1 /\ n + 1 \in 0 .. n + 1 /\ 0 # n + 1
    BY <1>2
  <2>. QED
    BY <1>3, <2>1, <2>2
<1>5. ASSUME NEW i \in 1 .. n + 1 PROVE Turns(v[i - 1], a[i], v[i])
  <2>1. CASE i = n + 1
    <3>1. i - 1 = n /\ n \in 0 .. n + 1 /\ n # n + 1
      BY <1>2, <2>1
    <3>2. v[i - 1] = w[n] /\ v[i] = r /\ a[i] = e
      BY <1>2, <1>4, <2>1, <3>1
    <3>. QED
      BY <1>3, <3>2
  <2>2. CASE i # n + 1
    <3>1. i \in 1 .. n
      BY <1>2, <2>2
    <3>2. i \in 0 .. n + 1 /\ i - 1 \in 0 .. n + 1 /\ i - 1 # n + 1
      BY <1>2, <3>1
    <3>3. v[i] = w[i] /\ v[i - 1] = w[i - 1]
      BY <2>2, <3>2
    <3>. QED
      BY <1>2, <1>3, <3>1, <3>3
  <2>. QED
    BY <2>1, <2>2
<1> HIDE DEF v
<1>6. Leads(v, a, p, r)
  BY <1>2, <1>4, <1>5 DEF Leads
<1>. QED
  BY <1>6 DEF Path, a

LEMMA PathOfOne ==
  ASSUME NEW p \in Pages, NEW e \in Queueable, NEW q \in Pages, Turns(p, e, q)
  PROVE  Path(<<e>>, p, q)
<1>1. <<>> \in Seq(Queueable) /\ Append(<<>>, e) = <<e>>
  OBVIOUS
<1>2. Path(Append(<<>>, e), p, q)
  BY <1>1, PathStays, PathGrows
<1>. QED
  BY <1>1, <1>2

LEMMA PathOfTwo ==
  ASSUME NEW p \in Pages, NEW e \in Queueable, NEW q \in Pages, Turns(p, e, q),
         NEW f \in Queueable, NEW r \in Pages, Turns(q, f, r)
  PROVE  Path(<<e, f>>, p, r)
<1>1. <<e>> \in Seq(Queueable) /\ Append(<<e>>, f) = <<e, f>>
  <2> DEFINE a == Append(<<e>>, f)
  <2>1. <<e>> \in Seq(Queueable) /\ Len(<<e>>) = 1 /\ <<e>>[1] = e
    OBVIOUS
  <2>2. a \in Seq(Queueable) /\ Len(a) = 2 /\ a[1] = e /\ a[2] = f
    BY <2>1, AppendProperties
  <2>3. <<e, f>> \in Seq(Queueable) /\ Len(<<e, f>>) = 2 /\ <<e, f>>[1] = e /\ <<e, f>>[2] = f
    OBVIOUS
  <2> HIDE DEF a
  <2>4. \A i \in 1 .. 2 : i = 1 \/ i = 2
    OBVIOUS
  <2>5. a = <<e, f>>
    BY <2>2, <2>3, <2>4, SeqEqual
  <2>. QED
    BY <2>1, <2>5 DEF a
<1>2. Path(Append(<<e>>, f), p, r)
  BY <1>1, PathOfOne, PathGrows
<1>. QED
  BY <1>1, <1>2

\* The first entry is read.
LEMMA PathBegins ==
  ASSUME NEW s \in Seq(Queueable), s # <<>>, NEW p, NEW q, Path(s, p, q)
  PROVE  /\ p \in Pages
         /\ \E r \in Pages : Turns(p, Head(s), r) /\ Path(Tail(s), r, q)
<1> DEFINE n == Len(s)
           a == Tail(s)
<1>1. PICK w : Leads(w, s, p, q)
  BY DEF Path
<1>2. /\ n \in Nat /\ n >= 1 /\ Head(s) = s[1] /\ Len(a) = n - 1
      /\ \A i \in 1 .. n - 1 : a[i] = s[i + 1]
  <2>1. n \in Nat /\ n # 0
    BY LenProperties, EmptySeq
  <2>. QED
    BY <2>1, HeadTailProperties
<1> HIDE DEF n, a
<1>3. w \in [0 .. n -> Pages] /\ w[0] = p /\ w[n] = q /\ \A i \in 1 .. n : Turns(w[i - 1], s[i], w[i])
  BY <1>1 DEF Leads, n
<1>4. 0 \in 0 .. n /\ 1 \in 0 .. n /\ 1 \in 1 .. n /\ 1 - 1 = 0
  BY <1>2
<1>5. p \in Pages /\ w[1] \in Pages
  BY <1>3, <1>4
<1>6. Turns(p, Head(s), w[1])
  BY <1>2, <1>3, <1>4
<1> DEFINE v == [i \in 0 .. n - 1 |-> w[i + 1]]
<1>7. \A i \in 0 .. n - 1 : i + 1 \in 0 .. n
  BY <1>2
<1>8. v \in [0 .. n - 1 -> Pages]
  BY <1>3, <1>7
<1>9. v[0] = w[1] /\ v[n - 1] = q
  <2>1. 0 \in 0 .. n - 1 /\ n - 1 \in 0 .. n - 1 /\ n - 1 + 1 = n /\ 0 + 1 = 1
    BY <1>2
  <2>. QED
    BY <1>3, <2>1
<1>10. ASSUME NEW i \in 1 .. n - 1 PROVE Turns(v[i - 1], a[i], v[i])
  <2>1. i \in 0 .. n - 1 /\ i - 1 \in 0 .. n - 1 /\ i - 1 + 1 = i /\ i + 1 \in 1 .. n /\ i + 1 - 1 = i
    BY <1>2
  <2>2. v[i] = w[i + 1] /\ v[i - 1] = w[i] /\ a[i] = s[i + 1]
    BY <1>2, <2>1
  <2>3. Turns(w[i + 1 - 1], s[i + 1], w[i + 1])
    BY <1>3, <2>1
  <2>. QED
    BY <2>1, <2>2, <2>3
<1> HIDE DEF v
<1>11. Leads(v, a, w[1], q)
  BY <1>2, <1>8, <1>9, <1>10 DEF Leads
<1>. QED
  BY <1>5, <1>6, <1>11 DEF Path, a

\* The last entry gives way to another one.
LEMMA PathOfFront ==
  ASSUME NEW s \in Seq(Queueable), s # <<>>, NEW p, NEW q, Path(s, p, q),
         NEW a \in Seq(Queueable), Len(a) = Len(s) - 1,
         \A i \in 1 .. Len(s) - 1 : a[i] = s[i]
  PROVE  \E r \in Pages : Path(a, p, r)
<1> DEFINE n == Len(s)
<1>1. PICK w : Leads(w, s, p, q)
  BY DEF Path
<1>2. n \in Nat /\ n >= 1
  BY LenProperties, EmptySeq
<1>3. Len(a) = n - 1 /\ \A i \in 1 .. n - 1 : a[i] = s[i]
  OBVIOUS
<1> HIDE DEF n
<1>4. w \in [0 .. n -> Pages] /\ w[0] = p /\ w[n] = q /\ \A i \in 1 .. n : Turns(w[i - 1], s[i], w[i])
  BY <1>1 DEF Leads, n
<1> DEFINE v == [i \in 0 .. n - 1 |-> w[i]]
<1>5. \A i \in 0 .. n - 1 : i \in 0 .. n
  BY <1>2
<1>6. v \in [0 .. n - 1 -> Pages]
  BY <1>4, <1>5
<1>7. v[0] = p /\ v[n - 1] \in Pages
  <2>1. 0 \in 0 .. n - 1 /\ n - 1 \in 0 .. n - 1
    BY <1>2
  <2>. QED
    BY <1>4, <1>6, <2>1
<1>8. ASSUME NEW i \in 1 .. n - 1 PROVE Turns(v[i - 1], a[i], v[i])
  <2>1. i \in 0 .. n - 1 /\ i - 1 \in 0 .. n - 1 /\ i \in 1 .. n
    BY <1>2
  <2>2. v[i] = w[i] /\ v[i - 1] = w[i - 1] /\ a[i] = s[i]
    BY <1>3, <2>1
  <2>. QED
    BY <1>4, <2>1, <2>2
<1> HIDE DEF v
<1>9. Leads(v, a, p, v[n - 1])
  BY <1>3, <1>6, <1>7, <1>8 DEF Leads
<1>. QED
  BY <1>7, <1>9 DEF Path

\* A streaming event leaves a page as it is.
LEMMA StreamingTurnsNoPage ==
  ASSUME NEW p \in Pages, NEW e \in Queueable, e.kind = "delta"
  PROVE  PageAfter(p, e) = p /\ Fits(p, e)
<1>1. e.body \in StreamBodies /\ e.body # Empty /\ e.body.what = "delta"
  <2>1. e.body \in StreamBodies
    BY EntryKinds
  <2>. QED
    BY <2>1, EmptyIsNoBody DEF StreamBodies
<1>2. PageAfter(p, e) = Shown(p, e.body)
  BY <1>1 DEF PageAfter
<1>3. CASE p.lossy
  BY <1>1, <1>2, <1>3 DEF Shown, Pages, Fits
<1>4. CASE ~ p.lossy
  BY <1>1, <1>2, <1>4 DEF Shown, Fits
<1>. QED
  BY <1>3, <1>4

\* Over the places of S, a page stays the same.
StaysOver(w, S, n) ==
  \A j \in 0 .. n : \A i \in 0 .. j : (\A x \in i + 1 .. j : x \in S) => w[j] = w[i]

LEMMA PageOverStreaming ==
  ASSUME NEW s \in Seq(Queueable), NEW S \in SUBSET DOMAIN s, \A i \in S : s[i].kind = "delta",
         NEW w, NEW p, NEW q, Leads(w, s, p, q)
  PROVE  StaysOver(w, S, Len(s))
<1> DEFINE n == Len(s)
           Stays(j) == j \in 0 .. n =>
             \A i \in 0 .. j : (\A x \in i + 1 .. j : x \in S) => w[j] = w[i]
           G == {j \in Nat : Stays(j)}
<1>1. n \in Nat /\ S \subseteq 1 .. n
  BY LenProperties
<1> HIDE DEF n
<1>2. w \in [0 .. n -> Pages] /\ \A i \in 1 .. n : Turns(w[i - 1], s[i], w[i])
  BY DEF Leads, n
<1>3. Stays(0)
  <2>1. \A i \in 0 .. 0 : i = 0
    OBVIOUS
  <2>. QED
    BY <2>1
<1>4. ASSUME NEW j \in Nat, Stays(j) PROVE Stays(j + 1)
  <2> SUFFICES ASSUME j + 1 \in 0 .. n, NEW i \in 0 .. j + 1, \A x \in i + 1 .. j + 1 : x \in S
               PROVE  w[j + 1] = w[i]
    OBVIOUS
  <2>1. CASE i = j + 1
    BY <2>1
  <2>2. CASE i # j + 1
    <3>1. j \in 0 .. n /\ i \in 0 .. j /\ j + 1 \in i + 1 .. j + 1 /\ j + 1 \in 1 .. n
      BY <1>1, <2>2
    <3>2. \A x \in i + 1 .. j : x \in i + 1 .. j + 1
      BY <3>1
    <3>3. w[j] = w[i]
      BY <1>4, <3>1, <3>2
    <3>4. j + 1 \in S /\ j + 1 - 1 = j
      BY <3>1
    <3>5. s[j + 1] \in Queueable /\ s[j + 1].kind = "delta"
      BY <3>4, ElementOfSeq, LenProperties
    <3>6. w[j] \in Pages
      BY <1>2, <3>1
    <3>7. w[j + 1] = PageAfter(w[j], s[j + 1])
      BY <1>2, <3>1, <3>4 DEF Turns
    <3>. QED
      BY <3>3, <3>5, <3>6, <3>7, StreamingTurnsNoPage
  <2>. QED
    BY <2>1, <2>2
<1> HIDE DEF Stays
<1>5. G = Nat
  <2>1. 0 \in G /\ \A j \in G : j + 1 \in G
    BY <1>3, <1>4
  <2> HIDE DEF G
  <2>. QED
    <3>1. G \in SUBSET Nat
      BY DEF G
    <3>. QED
      BY <2>1, <3>1, AllNumbers
<1>6. ASSUME NEW j \in 0 .. n PROVE Stays(j)
  <2>1. j \in Nat
    BY <1>1
  <2>. QED
    BY <1>5, <2>1
<1>7. ASSUME NEW j \in 0 .. n, NEW i \in 0 .. j, \A x \in i + 1 .. j : x \in S
      PROVE  w[j] = w[i]
  <2>1. Stays(j)
    BY <1>6
  <2>. QED
    BY <1>7, <2>1 DEF Stays
<1>. QED
  BY <1>7 DEF n, StaysOver

\* Without some of its streaming events a list leads from page to page alike.
LEMMA PathBut ==
  ASSUME NEW s \in Seq(Queueable), NEW S \in SUBSET DOMAIN s, \A i \in S : s[i].kind = "delta",
         NEW p, NEW q, Path(s, p, q)
  PROVE  Path(But(s, S), p, q)
<1> DEFINE n == Len(s)
           b == But(s, S)
           m == Len(b)
<1>1. n \in Nat /\ DOMAIN s = 1 .. n
  BY LenProperties
<1>2. m \in Nat /\ DOMAIN b = 1 .. m
  BY ButProperties, LenProperties
<1>3. PICK f \in [DOMAIN b -> DOMAIN s \ S] :
        /\ Increasing(f)
        /\ \A i \in DOMAIN b : b[i] = s[f[i]]
        /\ \A j \in DOMAIN s \ S : \E i \in DOMAIN b : f[i] = j
  BY ButPlaces
<1>4. PICK w : Leads(w, s, p, q)
  BY DEF Path
<1>5. \A j \in 0 .. n : \A i \in 0 .. j : (\A x \in i + 1 .. j : x \in S) => w[j] = w[i]
  <2>1. StaysOver(w, S, Len(s))
    BY <1>4, PageOverStreaming
  <2>. QED
    BY <2>1 DEF StaysOver
<1> HIDE DEF n, b, m
<1>6. w \in [0 .. n -> Pages] /\ w[0] = p /\ w[n] = q /\ \A i \in 1 .. n : Turns(w[i - 1], s[i], w[i])
  BY <1>4 DEF Leads, n
<1>7. /\ \A k \in 1 .. m : f[k] \in 1 .. n /\ f[k] \notin S /\ b[k] = s[f[k]]
      /\ \A j \in 1 .. n : j \notin S => \E i \in 1 .. m : f[i] = j
      /\ \A i, k \in 1 .. m : i < k => f[i] < f[k]
  BY <1>1, <1>2, <1>3 DEF Increasing
<1> DEFINE at == [k \in 0 .. m |-> IF k = 0 THEN 0 ELSE f[k]]
<1>8. at[0] = 0 /\ \A k \in 1 .. m : at[k] = f[k]
  BY <1>2
<1>9. \A k \in 0 .. m : at[k] \in 0 .. n
  <2>1. \A k \in 0 .. m : k = 0 \/ k \in 1 .. m
    BY <1>2
  <2>2. 0 \in 0 .. n /\ \A x \in 1 .. n : x \in 0 .. n
    BY <1>1
  <2> HIDE DEF at
  <2>. QED
    BY <1>7, <1>8, <2>1, <2>2
<1> HIDE DEF at
<1> DEFINE v == [k \in 0 .. m |-> w[at[k]]]
<1>10. v \in [0 .. m -> Pages]
  BY <1>6, <1>9
<1>11. v[0] = p
  <2>1. 0 \in 0 .. m
    BY <1>2
  <2>. QED
    BY <1>6, <1>8, <2>1
<1>12. ASSUME NEW k \in 1 .. m PROVE Turns(v[k - 1], b[k], v[k])
  <2>1. k \in 0 .. m /\ k - 1 \in 0 .. m
    BY <1>2
  <2>2. f[k] \in 1 .. n /\ b[k] = s[f[k]] /\ v[k] = w[f[k]] /\ v[k - 1] = w[at[k - 1]]
    BY <1>7, <1>8, <2>1
  <2>3. at[k - 1] < f[k]
    <3>1. CASE k = 1
      BY <1>8, <2>2, <3>1
    <3>2. CASE k # 1
      <4>1. k - 1 \in 1 .. m /\ k - 1 < k
        BY <1>2, <3>2
      <4>. QED
        BY <1>7, <1>8, <4>1
    <3>. QED
      BY <3>1, <3>2
  <2>4. ASSUME NEW x \in at[k - 1] + 1 .. f[k] - 1 PROVE x \in S
    <3>1. at[k - 1] \in 0 .. n
      BY <1>9, <2>1
    <3>2. x \in 1 .. n /\ at[k - 1] < x /\ x < f[k]
      BY <1>1, <2>2, <3>1
    <3>3. SUFFICES ASSUME x \notin S PROVE FALSE
      OBVIOUS
    <3>4. PICK y \in 1 .. m : f[y] = x
      BY <1>7, <3>2, <3>3
    <3>5. ~ (k < y) /\ y # k
      <4>1. k < y => f[k] < f[y]
        BY <1>7
      <4>. QED
        BY <2>2, <3>2, <3>4, <4>1
    <3>6. y <= k - 1 /\ k - 1 \in 1 .. m
      BY <1>2, <3>5
    <3>7. at[k - 1] = f[k - 1] /\ f[k - 1] \in 1 .. n
      BY <1>7, <1>8, <3>6
    <3>8. y = k - 1 \/ y < k - 1
      BY <3>6
    <3>9. f[y] <= f[k - 1]
      BY <1>7, <3>6, <3>7, <3>8
    <3>. QED
      BY <3>2, <3>4, <3>7, <3>9
  <2>5. w[f[k] - 1] = w[at[k - 1]]
    <3>1. at[k - 1] \in 0 .. n
      BY <1>9, <2>1
    <3>2. f[k] - 1 \in 0 .. n /\ at[k - 1] \in 0 .. f[k] - 1
      BY <1>1, <2>2, <2>3, <3>1
    <3>. QED
      BY <1>5, <2>4, <3>2
  <2>6. Turns(w[f[k] - 1], s[f[k]], w[f[k]])
    BY <1>6, <2>2
  <2>. QED
    BY <2>2, <2>5, <2>6
<1>13. v[m] = q
  <2>1. m \in 0 .. m /\ v[m] = w[at[m]] /\ at[m] \in 0 .. n
    <3>1. m \in 0 .. m
      BY <1>2
    <3>. QED
      BY <1>9, <3>1
  <2>2. ASSUME NEW x \in at[m] + 1 .. n PROVE x \in S
    <3>1. x \in 1 .. n /\ at[m] < x
      BY <1>1, <2>1
    <3>2. SUFFICES ASSUME x \notin S PROVE FALSE
      OBVIOUS
    <3>3. PICK y \in 1 .. m : f[y] = x
      BY <1>7, <3>1, <3>2
    <3>4. m \in 1 .. m /\ (y = m \/ y < m)
      BY <1>2
    <3>5. at[m] = f[m] /\ f[m] \in 1 .. n
      BY <1>7, <1>8, <3>4
    <3>6. f[y] <= f[m]
      BY <1>7, <3>4, <3>5
    <3>. QED
      BY <3>1, <3>3, <3>5, <3>6
  <2>3. n \in 0 .. n /\ at[m] \in 0 .. n
    BY <1>1, <2>1
  <2>4. w[n] = w[at[m]]
    BY <1>5, <2>2, <2>3
  <2>. QED
    BY <1>6, <2>1, <2>4
<1> HIDE DEF v
<1>14. Leads(v, b, p, q)
  BY <1>10, <1>11, <1>12, <1>13 DEF Leads, m
<1>. QED
  BY <1>14 DEF Path, b

-----------------------------------------------------------------------------
(* The page that the client will have in the end.                          *)

\* What the step of the event loop has yet to emit, as entries.
Coming(es) == [i \in DOMAIN es |-> Entry("full", es[i])]

\* Once it has read the queue the client will have the page p, and once it has
\* read what is coming, g.
Reaches(p, g) == Path(queue, view, p) /\ Path(Coming(out), p, g)

LEMMA TornIsAPage == Torn \in Pages /\ Torn.lossy /\ Torn.of = 0
<1>1. Torn.hist = <<>> /\ Torn.lossy /\ Torn.of = 0 /\ Torn \in Views
  BY NoViewIsTyped DEF Torn, NoView
<1>2. Increasing(<<>>)
  BY NoChat DEF Chats
<1>. QED
  BY <1>1, <1>2 DEF Pages

LEMMA EntriesAre ==
  ASSUME NEW b \in Bodies
  PROVE  /\ b # Empty
         /\ Entry("full", b) \in Queueable /\ Entry("full", b).body = b
         /\ b.what = "delta" => /\ b \in StreamBodies /\ Entry("delta", b) \in Queueable
                                /\ Entry("delta", b).body = b /\ Entry("delta", b).kind = "delta"
  BY EmptyIsNoBody, QueueableAre DEF Entry, StreamBodies

LEMMA ComingIs ==
  ASSUME NEW es \in Seq(Bodies)
  PROVE  /\ Coming(es) \in Seq(Queueable) /\ Len(Coming(es)) = Len(es) /\ DOMAIN Coming(es) = DOMAIN es
         /\ \A i \in DOMAIN es : es[i] \in Bodies /\ Coming(es)[i] = Entry("full", es[i])
         /\ DOMAIN es = 1 .. Len(es) /\ Len(es) \in Nat
<1>1. Len(es) \in Nat /\ DOMAIN es = 1 .. Len(es)
  BY LenProperties
<1>2. \A i \in DOMAIN es : es[i] \in Bodies
  BY <1>1, ElementOfSeq
<1>3. Coming(es) \in [1 .. Len(es) -> Queueable]
  BY <1>1, <1>2, EntriesAre DEF Coming
<1>4. Coming(es) \in Seq(Queueable)
  BY <1>1, <1>3, SeqDef
<1>5. Len(Coming(es)) = Len(es)
  BY <1>1, <1>3, <1>4, LenProperties
<1>. QED
  BY <1>1, <1>2, <1>4, <1>5 DEF Coming

\* Nothing is coming.
LEMMA NothingComes ==
  Coming(<<>>) = <<>> /\ \A p, g : Path(<<>>, p, g) <=> p = g /\ p \in Pages
<1>1. Coming(<<>>) = <<>>
  <2>1. <<>> \in Seq(Bodies) /\ Len(<<>>) = 0
    BY EmptySeq
  <2>2. Coming(<<>>) \in Seq(Queueable) /\ Len(Coming(<<>>)) = 0
    BY <2>1, ComingIs
  <2>. QED
    BY <2>2, EmptySeq
<1>2. ASSUME NEW p, NEW g, Path(<<>>, p, g) PROVE p = g /\ p \in Pages
  <2>1. PICK w : Leads(w, <<>>, p, g)
    BY <1>2 DEF Path
  <2>2. w \in [0 .. 0 -> Pages] /\ w[0] = p /\ w[0] = g
    BY <2>1, EmptySeq DEF Leads
  <2>. QED
    BY <2>2
<1>. QED
  BY <1>1, <1>2, PathStays

\* A torn page stays so until a snapshot is read.
LEMMA TornStays ==
  ASSUME NEW b \in Bodies, b.what # "snapshot"
  PROVE  Turns(Torn, Entry("full", b), Torn)
<1>1. PageAfter(Torn, Entry("full", b)) = Shown(Torn, b)
  BY EntriesAre DEF PageAfter
<1>2. Shown(Torn, b) = Torn
  BY TornIsAPage DEF Shown
<1>. QED
  BY <1>1, <1>2, TornIsAPage DEF Turns, Fits

\* Whatever is put, or lost: the client will have the page it would have had, or
\* a torn one.
LEMMA EmitReaches ==
  ASSUME QueueTyped, OutTyped, Emit, NEW p, NEW g, Reaches(p, g)
  PROVE  \E q, h : Path(queue', view', q) /\ Path(Coming(out'), q, h) /\ h \in {g, Torn}
<1> DEFINE b == Head(out)
           rest == Tail(Coming(out))
<1>1. out \in Seq(Bodies) /\ out # <<>> /\ out' = Tail(out) /\ view' = view /\ queue \in Seq(Queueable)
  BY DEF Emit, OutTyped, QueueTyped
<1>2. /\ Len(out) \in Nat /\ Len(out) >= 1 /\ Len(out) <= 2 /\ DOMAIN out = 1 .. Len(out)
      /\ b = out[1] /\ b \in Bodies /\ Tail(out) \in Seq(Bodies) /\ Len(Tail(out)) = Len(out) - 1
      /\ \A i \in 1 .. Len(out) - 1 : Tail(out)[i] = out[i + 1]
  <2>1. Len(out) \in Nat /\ Len(out) # 0 /\ Len(out) <= 2 /\ DOMAIN out = 1 .. Len(out)
    BY <1>1, LenProperties, EmptySeq DEF OutTyped
  <2>2. Len(out) >= 1 /\ 1 \in 1 .. Len(out)
    BY <2>1
  <2>. QED
    BY <1>1, <2>1, <2>2, ElementOfSeq, HeadTailProperties
<1>3. /\ Coming(out) \in Seq(Queueable) /\ Len(Coming(out)) = Len(out) /\ Coming(out) # <<>>
      /\ Head(Coming(out)) = Entry("full", b)
  <2>1. Coming(out) \in Seq(Queueable) /\ Len(Coming(out)) = Len(out) /\ Coming(out)[1] = Entry("full", out[1])
    BY <1>1, <1>2, ComingIs
  <2>2. Coming(out) # <<>>
    BY <1>2, <2>1, EmptySeq
  <2>. QED
    BY <1>2, <2>1, <2>2, HeadTailProperties
<1>4. Coming(out') = rest
  <2>1. /\ Coming(out') \in Seq(Queueable) /\ Len(Coming(out')) = Len(out')
        /\ \A i \in 1 .. Len(out') : Coming(out')[i] = Entry("full", out'[i])
    <3>1. out' \in Seq(Bodies)
      BY <1>1, <1>2
    <3>. QED
      BY <3>1, ComingIs
  <2>2. /\ rest \in Seq(Queueable) /\ Len(rest) = Len(out) - 1
        /\ \A i \in 1 .. Len(out) - 1 : rest[i] = Coming(out)[i + 1]
    BY <1>3, HeadTailProperties
  <2>3. \A i \in 1 .. Len(out) - 1 : Coming(out)[i + 1] = Entry("full", out[i + 1])
    BY <1>1, <1>2, ComingIs
  <2>4. Len(Coming(out')) = Len(rest) /\ \A i \in 1 .. Len(Coming(out')) : Coming(out')[i] = rest[i]
    BY <1>1, <1>2, <2>1, <2>2, <2>3
  <2> HIDE DEF rest
  <2>. QED
    BY <2>1, <2>2, <2>4, SeqEqual
<1>5. PICK r \in Pages : Turns(p, Entry("full", b), r) /\ Path(rest, r, g)
  BY <1>3, PathBegins DEF Reaches
<1>6. p \in Pages /\ Path(queue, view, p)
  BY <1>3, PathBegins DEF Reaches
<1> HIDE DEF b, rest
<1>7. CASE b.what = "delta"
  <2>1. Turns(p, Entry("delta", b), r) /\ r = p
    <3>1. PageAfter(p, Entry("delta", b)) = PageAfter(p, Entry("full", b))
      BY <1>2, <1>7, EntriesAre DEF PageAfter
    <3>2. PageAfter(p, Entry("delta", b)) = p /\ Fits(p, Entry("delta", b))
      BY <1>2, <1>6, <1>7, EntriesAre, StreamingTurnsNoPage
    <3>. QED
      BY <1>5, <3>1, <3>2 DEF Turns
  <2>2. CASE queue' = Append(queue, Entry("delta", b))
    <3>1. Path(queue', view', r)
      BY <1>1, <1>2, <1>6, <1>7, <2>1, <2>2, EntriesAre, PathGrows
    <3>. QED
      BY <1>4, <1>5, <3>1
  <2>3. CASE queue' = queue
    BY <1>1, <1>4, <1>5, <1>6, <2>1, <2>3
  <2>. QED
    BY <1>7, <2>2, <2>3 DEF Emit, PutStreaming, b
<1>8. CASE b.what # "delta"
  <2>1. ASSUME NEW S \in SUBSET Streaming(queue), queue' = Append(But(queue, S), Entry("full", b))
        PROVE  Path(queue', view', r)
    <3>1. S \in SUBSET DOMAIN queue /\ \A i \in S : queue[i].kind = "delta"
      BY DEF Streaming
    <3>2. Path(But(queue, S), view, p) /\ But(queue, S) \in Seq(Queueable)
      BY <1>1, <1>6, <3>1, PathBut, ButProperties
    <3>. QED
      BY <1>1, <1>2, <1>5, <2>1, <3>2, EntriesAre, PathGrows
  <2>2. ASSUME queue # <<>>, queue' = Append(Front(queue), Notice)
        PROVE  Path(queue', view', Torn)
    <3>1. Front(queue) \in Seq(Queueable)
      BY <1>1, <2>2, FrontIs
    <3>2. PICK t \in Pages : Path(Front(queue), view, t)
      BY <1>1, <1>6, <2>2, <3>1, FrontIs, PathOfFront
    <3>3. Turns(t, Notice, Torn)
      <4>1. PageAfter(t, Notice) = Torn
        BY QueueableAre, PageAfterIs DEF Pages
      <4>. QED
        BY <4>1 DEF Turns, Fits, Notice, Entry
    <3>. QED
      BY <1>1, <2>2, <3>1, <3>2, <3>3, TornIsAPage, QueueableAre, PathGrows
  <2>3. Path(Coming(out'), Torn, Torn)
    <3>1. CASE Len(out) = 1
      <4>1. rest \in Seq(Queueable) /\ Len(rest) = 0
        BY <1>2, <1>3, <3>1, HeadTailProperties DEF rest
      <4>2. rest = <<>>
        BY <4>1, EmptySeq
      <4>. QED
        BY <1>4, <4>2, TornIsAPage, PathStays
    <3>2. CASE Len(out) = 2
      <4>1. out[2] \in Bodies /\ out[2].what # "snapshot" /\ Coming(out)[2] = Entry("full", out[2])
        BY <1>1, <1>2, <3>2, ComingIs DEF OutTyped
      <4>2. rest \in Seq(Queueable) /\ Len(rest) = 1 /\ rest[1] = Entry("full", out[2])
        <5>1. /\ Coming(out) \in Seq(Queueable) /\ Coming(out) # <<>> /\ Len(Coming(out)) = 2
              /\ 1 \in 1 .. 2 - 1
          BY <1>3, <3>2
        <5>2. rest \in Seq(Queueable) /\ Len(rest) = 2 - 1 /\ rest[1] = Coming(out)[1 + 1]
          BY <5>1, HeadTailProperties DEF rest
        <5>. QED
          BY <4>1, <5>2
      <4> DEFINE e == Entry("full", out[2])
      <4>3. e \in Queueable /\ Turns(Torn, e, Torn)
        BY <4>1, EntriesAre, TornStays
      <4>4. rest[1] = e
        BY <4>2
      <4> HIDE DEF e
      <4>5. rest = <<e>>
        BY <4>2, <4>4
      <4>. QED
        BY <1>4, <4>3, <4>5, TornIsAPage, PathOfOne
    <3>. QED
      BY <1>2, <3>1, <3>2
  <2>4. Put(b)
    BY <1>8 DEF Emit, b
  <2>5. CASE \E S \in SUBSET Streaming(queue) : queue' = Append(But(queue, S), Entry("full", b))
    BY <1>4, <1>5, <2>1, <2>5
  <2>6. CASE Len(queue) = Slots /\ queue' = Append(Front(queue), Notice)
    <3>1. queue # <<>>
      BY <2>6, QueueIs, EmptySeq
    <3>. QED
      BY <2>2, <2>3, <2>6, <3>1
  <2>. QED
    BY <2>4, <2>5, <2>6 DEF Put
<1>. QED
  BY <1>7, <1>8

\* The client reads what is next.
LEMMA ReceiveReaches ==
  ASSUME QueueTyped, Receive, NEW p, NEW g, Reaches(p, g)
  PROVE  Path(queue', view', p) /\ Path(Coming(out'), p, g)
<1>1. queue \in Seq(Queueable) /\ queue # <<>> /\ view' = PageAfter(view, Head(queue)) /\ out' = out
  BY DEF Receive, Take, QueueTyped
<1>2. PICK r \in Pages : Turns(view, Head(queue), r) /\ Path(Tail(queue), r, p)
  BY <1>1, PathBegins DEF Reaches
<1>3. view' = r /\ Path(Tail(queue), view', p) /\ p \in Pages
  <2>1. out = <<>> /\ Path(Coming(out), p, g)
    BY DEF Receive, Reaches
  <2>. QED
    BY <1>1, <1>2, <2>1, NothingComes DEF Turns
<1>4. Path(queue', view', p)
  <2>1. CASE queue' = Tail(queue)
    BY <1>3, <2>1
  <2>2. CASE queue' = Append(Tail(queue), Warning)
    <3>1. Turns(p, Warning, p)
      <4>1. PageAfter(p, Warning) = p
        BY <1>3, QueueableAre, PageAfterIs DEF Pages
      <4>. QED
        BY <4>1 DEF Turns, Fits, Warning, Entry
    <3>2. Tail(queue) \in Seq(Queueable)
      BY <1>1, HeadTailProperties
    <3>. QED
      BY <1>3, <2>2, <3>1, <3>2, QueueableAre, PathGrows
  <2>. QED
    BY <2>1, <2>2 DEF Receive, Take
<1>. QED
  BY <1>1, <1>4 DEF Reaches

\* A new queue begins with a torn page.
LEMMA NewQueueReaches ==
  ASSUME NewQueue, out' = <<>>
  PROVE  Path(queue', view', Torn) /\ Path(Coming(out'), Torn, Torn)
<1>1. queue' = <<>> /\ view' = Torn
  BY DEF NewQueue
<1>2. Coming(out') = <<>>
  BY NothingComes
<1>. QED
  BY <1>1, <1>2, TornIsAPage, PathStays

-----------------------------------------------------------------------------
(* What a page and the session have to do with each other.                 *)

\* The page is of a session that the engine may know.
OfKnown(g) == g.of \in DOMAIN stored \cup {0, session}

\* It has what the replay under way has emitted, and the replay will go on.
HasReplayed(g) ==
  \A t \in replays :
    ~ g.done /\ t.next <= Len(t.history) + 1 /\ g.hist = SubSeq(t.history, 1, t.next - 1)

\* A page of the session has all its messages, or will have them after the replay.
HasMessages(g) ==
  session # 0 /\ binding = 0 /\ g.of = session =>
    /\ g.done => g.hist \o g.live = messages
    /\ \A t \in replays : t.history \o g.live = messages

PageTrue(g) ==
  g \in Pages /\ OfKnown(g) /\ (g.lossy \/ (HasReplayed(g) /\ HasMessages(g)))

\* Sessions are numbered in their order; only the last one may not be stored.
StoredFirst == \E n \in Nat : DOMAIN stored = 1 .. n /\ session \in 0 .. n + 1

HistoryInv == StoredInv /\ StoredFirst /\ \E p, g : Reaches(p, g) /\ PageTrue(g)

LEMMA ConcatAppend ==
  ASSUME NEW s \in Seq(Nat), NEW t \in Seq(Nat), NEW n \in Nat
  PROVE  s \o Append(t, n) = Append(s \o t, n)
<1>1. <<n>> \in Seq(Nat) /\ s \o t \in Seq(Nat)
  BY ConcatProperties
<1>2. Append(t, n) = t \o <<n>>
  BY AppendIsConcat
<1>3. Append(s \o t, n) = (s \o t) \o <<n>>
  BY <1>1, AppendIsConcat
<1>4. (s \o t) \o <<n>> = s \o (t \o <<n>>)
  BY <1>1, ConcatAssociative
<1>. QED
  BY <1>2, <1>3, <1>4

\* What an event of the session makes of a page.
LEMMA Opened ==
  ASSUME NEW p \in Pages, NEW b \in Bodies, b.what = "snapshot"
  PROVE  \E h \in Pages :
           /\ Turns(p, Entry("full", b), h)
           /\ h.of = b.id /\ h.hist = <<>> /\ h.live = <<>> /\ h.done = FALSE /\ h.lossy = FALSE
<1> DEFINE h == [NoView EXCEPT !.of = b.id]
<1>1. b.id \in Nat
  BY ConnectionAssumption DEF Bodies
<1>2. /\ h \in Views /\ h.of = b.id /\ h.hist = <<>> /\ h.live = <<>> /\ h.done = FALSE
      /\ h.lossy = FALSE
  BY <1>1, NoViewIsTyped DEF NoView, Views
<1>3. h \in Pages
  BY <1>2, NoChat DEF Pages, Chats
<1>4. PageAfter(p, Entry("full", b)) = h
  BY EntriesAre DEF PageAfter, Shown
<1>5. Turns(p, Entry("full", b), h)
  BY <1>4, EntriesAre DEF Turns, Fits
<1> HIDE DEF h
<1>. QED
  BY <1>2, <1>3, <1>5

LEMMA Aside ==
  ASSUME NEW p \in Pages, NEW b \in Bodies, b.what \in {"other", "delta"}
  PROVE  Turns(p, Entry("full", b), p)
<1>1. PageAfter(p, Entry("full", b)) = Shown(p, b)
  BY EntriesAre DEF PageAfter
<1>2. Shown(p, b) = p
  BY DEF Shown, Pages
<1>. QED
  BY <1>1, <1>2, EntriesAre DEF Turns, Fits

LEMMA Completed ==
  ASSUME NEW p \in Pages, NEW b \in Bodies, b.what = "complete", ~ p.lossy
  PROVE  \E h \in Pages :
           /\ Turns(p, Entry("full", b), h)
           /\ h.of = p.of /\ h.hist = p.hist /\ h.live = p.live /\ h.done /\ h.lossy = p.lossy
<1> DEFINE h == [p EXCEPT !.done = TRUE]
<1>1. /\ h \in Views /\ h.of = p.of /\ h.hist = p.hist /\ h.live = p.live /\ h.done
      /\ h.lossy = p.lossy
  BY DEF Pages, Views
<1>2. h \in Pages
  BY <1>1 DEF Pages
<1>3. PageAfter(p, Entry("full", b)) = h
  BY EntriesAre DEF PageAfter, Shown
<1>4. Turns(p, Entry("full", b), h)
  BY <1>3, EntriesAre DEF Turns, Fits
<1> HIDE DEF h
<1>. QED
  BY <1>1, <1>2, <1>4

LEMMA Extended ==
  ASSUME NEW p \in Pages, NEW b \in Bodies, b.what = "added", ~ p.lossy
  PROVE  \E h \in Pages :
           /\ Turns(p, Entry("full", b), h)
           /\ h.of = p.of /\ h.hist = p.hist /\ h.live = Append(p.live, b.id) /\ h.done = p.done
           /\ h.lossy = p.lossy
<1> DEFINE h == [p EXCEPT !.live = Append(p.live, b.id)]
<1>1. Append(p.live, b.id) \in Seq(Nat)
  BY RangeOfOneMore, ConnectionAssumption DEF Bodies, Pages, Views
<1>2. /\ h \in Views /\ h.of = p.of /\ h.hist = p.hist /\ h.live = Append(p.live, b.id)
      /\ h.done = p.done /\ h.lossy = p.lossy
  BY <1>1 DEF Pages, Views
<1>3. h \in Pages
  BY <1>2 DEF Pages
<1>4. PageAfter(p, Entry("full", b)) = h
  BY EntriesAre DEF PageAfter, Shown
<1>5. Turns(p, Entry("full", b), h)
  BY <1>4, EntriesAre DEF Turns, Fits
<1> HIDE DEF h
<1>. QED
  BY <1>2, <1>3, <1>5

LEMMA Replayed ==
  ASSUME NEW p \in Pages, NEW b \in Bodies, b.what = "history", ~ p.lossy, ~ p.done,
         Increasing(Append(p.hist, b.id))
  PROVE  \E h \in Pages :
           /\ Turns(p, Entry("full", b), h)
           /\ h.of = p.of /\ h.hist = Append(p.hist, b.id) /\ h.live = p.live /\ h.done = p.done
           /\ h.lossy = p.lossy
<1> DEFINE h == [p EXCEPT !.hist = Append(p.hist, b.id)]
<1>1. Append(p.hist, b.id) \in Seq(Nat)
  BY RangeOfOneMore, ConnectionAssumption DEF Bodies, Pages, Views
<1>2. /\ h \in Views /\ h.of = p.of /\ h.hist = Append(p.hist, b.id) /\ h.live = p.live
      /\ h.done = p.done /\ h.lossy = p.lossy
  BY <1>1 DEF Pages, Views
<1>3. h \in Pages
  BY <1>2 DEF Pages
<1>4. PageAfter(p, Entry("full", b)) = h
  BY EntriesAre DEF PageAfter, Shown
<1>5. Turns(p, Entry("full", b), h)
  BY <1>4, EntriesAre DEF Turns, Fits
<1> HIDE DEF h
<1>. QED
  BY <1>2, <1>3, <1>5

LEMMA TornPage ==
  ASSUME NEW p \in Pages, p.lossy
  PROVE  /\ p = Torn
         /\ \A b \in Bodies : b.what # "snapshot" => Turns(p, Entry("full", b), p)
  BY TornStays DEF Pages

-----------------------------------------------------------------------------
(* What the session does is true to the page.                              *)

LEMMA ChatsAreLists ==
  ASSUME NEW n \in Nat, NEW ms \in Chats(n)
  PROVE  ms \in Seq(Nat) /\ Increasing(ms) /\ ms \in Seq(1 .. n)
<1>1. 1 .. n \subseteq Nat
  OBVIOUS
<1>. QED
  BY <1>1, SeqMonotonic DEF Chats

\* The page of a session, and what it was before, goes on.
Goes(p) == \E h : Path(Coming(out'), p, h) /\ PageTrue(h)'

\* Nothing is emitted, or something that is not of the chat.
LEMMA AsideGoes ==
  ASSUME NEW p \in Pages, PageTrue(p)',
         out' = <<>> \/ \E b \in Bodies : b.what \in {"other", "delta"} /\ out' = <<b>>
  PROVE  Goes(p)
<1>1. CASE out' = <<>>
  <2>1. Path(Coming(out'), p, p)
    BY <1>1, NothingComes
  <2>. QED
    BY <2>1 DEF Goes
<1>2. ASSUME NEW b \in Bodies, b.what \in {"other", "delta"}, out' = <<b>>
      PROVE  Goes(p)
  <2>1. Coming(out') = <<Entry("full", b)>>
    BY <1>2 DEF Coming
  <2>2. Path(Coming(out'), p, p)
    BY <1>2, <2>1, EntriesAre, Aside, PathOfOne
  <2>. QED
    BY <2>2 DEF Goes
<1>. QED
  BY <1>1, <1>2

LEMMA ComingOne ==
  ASSUME NEW b
  PROVE  Coming(<<b>>) = <<Entry("full", b)>>
  BY DEF Coming

LEMMA ComingTwo ==
  ASSUME NEW b, NEW c
  PROVE  Coming(<<b, c>>) = <<Entry("full", b), Entry("full", c)>>
  BY DEF Coming

LEMMA AddMessageGoes ==
  ASSUME TypesInv, AddMessage, NEW p, PageTrue(p)
  PROVE  Goes(p)
<1>1. /\ made' = made + 1 /\ made' \in 0 .. MaxMessages /\ messages' = Append(messages, made')
      /\ UNCHANGED <<session, binding, replays>>
      /\ out' = <<Added(made')>> \/ out' = <<Added(made'), Other>>
      /\ DOMAIN stored \subseteq DOMAIN stored'
  <2>1. made + 1 \in 0 .. MaxMessages
    BY ConnectionAssumption DEF AddMessage, TypesInv, ChatTyped
  <2>2. DOMAIN stored \subseteq DOMAIN stored'
    BY DEF AddMessage, Saved
  <2>3. out' = <<Added(made')>> \/ out' = <<Added(made'), Other>>
    BY DEF AddMessage
  <2>. QED
    BY <2>1, <2>2, <2>3 DEF AddMessage, replaying
<1>2. /\ Added(made') \in Bodies /\ Added(made').what = "added" /\ Added(made').id = made'
      /\ Other \in Bodies /\ Other.what = "other"
  BY <1>1, EventsAreTyped DEF TypesInv, Added, Says
<1>3. p \in Pages
  BY DEF PageTrue
<1>4. PICK h \in Pages :
        /\ Turns(p, Entry("full", Added(made')), h) /\ h.of = p.of
        /\ h.lossy = p.lossy
        /\ ~ p.lossy => h.hist = p.hist /\ h.live = Append(p.live, made') /\ h.done = p.done
  <2>1. CASE p.lossy
    BY <1>2, <1>3, <2>1, TornPage
  <2>2. CASE ~ p.lossy
    BY <1>2, <1>3, <2>2, Extended
  <2>. QED
    BY <2>1, <2>2
<1>5. Path(Coming(out'), p, h)
  <2>1. Turns(h, Entry("full", Other), h)
    BY <1>2, <1>4, Aside
  <2>2. CASE out' = <<Added(made')>>
    BY <1>2, <1>3, <1>4, <2>2, EntriesAre, ComingOne, PathOfOne
  <2>3. CASE out' = <<Added(made'), Other>>
    BY <1>2, <1>3, <1>4, <2>1, <2>3, EntriesAre, ComingTwo, PathOfTwo
  <2>. QED
    BY <1>1, <2>2, <2>3
<1>6. OfKnown(h)'
  BY <1>1, <1>4 DEF PageTrue, OfKnown
<1>7. ASSUME ~ h.lossy PROVE HasReplayed(h)' /\ HasMessages(h)'
  <2>1. HasReplayed(p) /\ HasMessages(p) /\ ~ p.lossy
    BY <1>4, <1>7 DEF PageTrue
  <2>2. HasReplayed(h)'
    BY <1>1, <1>4, <2>1 DEF HasReplayed
  <2>3. p.hist \in Seq(Nat) /\ p.live \in Seq(Nat) /\ made' \in Nat
    BY <1>1, <1>3, ConnectionAssumption DEF Pages, Views
  <2>4. ASSUME NEW t \in replays PROVE t.history \in Seq(Nat)
    <3>1. t.history \in Chats(made) /\ made \in Nat
      BY ConnectionAssumption DEF TypesInv, ReplaysTyped, Running, ChatTyped
    <3>. QED
      BY <3>1, ChatsAreLists
  <2>5. ASSUME session' # 0, binding' = 0, h.of = session', h.done
        PROVE  h.hist \o h.live = messages'
    <3>1. p.hist \o p.live = messages
      BY <1>1, <1>4, <2>1, <2>5 DEF HasMessages
    <3>2. h.hist \o h.live = p.hist \o Append(p.live, made')
      BY <1>4, <2>1
    <3>. QED
      BY <1>1, <2>3, <3>1, <3>2, ConcatAppend
  <2>6. ASSUME session' # 0, binding' = 0, h.of = session', NEW t \in replays'
        PROVE  t.history \o h.live = messages'
    <3>1. t.history \o p.live = messages /\ t \in replays
      BY <1>1, <1>4, <2>1, <2>6 DEF HasMessages
    <3>2. t.history \o h.live = t.history \o Append(p.live, made')
      BY <1>4, <2>1
    <3>. QED
      BY <1>1, <2>3, <2>4, <3>1, <3>2, ConcatAppend
  <2>. QED
    BY <2>2, <2>5, <2>6 DEF HasMessages
<1>8. PageTrue(h)'
  <2>1. h.lossy \/ ~ h.lossy
    BY DEF Pages, Views
  <2>2. h \in Pages /\ (h.lossy \/ (HasReplayed(h)' /\ HasMessages(h)'))
    BY <1>4, <1>7, <2>1
  <2>. QED
    BY <1>6, <2>2 DEF PageTrue
<1>. QED
  BY <1>5, <1>8 DEF Goes

LEMMA AddUnsavedGoes ==
  ASSUME TypesInv, AddUnsaved, NEW p, PageTrue(p)
  PROVE  Goes(p)
<1>1. /\ made' = made + 1 /\ made' \in 0 .. MaxMessages
      /\ UNCHANGED <<session, binding, stored, replays>> /\ session = 0
      /\ out' = <<Added(made')>>
  BY ConnectionAssumption DEF AddUnsaved, TypesInv, ChatTyped, replaying
<1>2. Added(made') \in Bodies /\ Added(made').what = "added" /\ Added(made').id = made'
  BY <1>1, EventsAreTyped DEF TypesInv, Added, Says
<1>3. p \in Pages
  BY DEF PageTrue
<1>4. PICK h \in Pages :
        /\ Turns(p, Entry("full", Added(made')), h) /\ h.of = p.of
        /\ h.lossy = p.lossy
        /\ ~ p.lossy => h.hist = p.hist /\ h.done = p.done
  <2>1. CASE p.lossy
    BY <1>2, <1>3, <2>1, TornPage
  <2>2. CASE ~ p.lossy
    BY <1>2, <1>3, <2>2, Extended
  <2>. QED
    BY <2>1, <2>2
<1>5. Path(Coming(out'), p, h)
  BY <1>1, <1>2, <1>3, <1>4, EntriesAre, ComingOne, PathOfOne
<1>6. OfKnown(h)'
  BY <1>1, <1>4 DEF PageTrue, OfKnown
<1>7. ASSUME ~ h.lossy PROVE HasReplayed(h)' /\ HasMessages(h)'
  BY <1>1, <1>4, <1>7 DEF PageTrue, HasReplayed, HasMessages
<1>8. PageTrue(h)'
  BY <1>4, <1>6, <1>7 DEF PageTrue
<1>. QED
  BY <1>5, <1>8 DEF Goes

LEMMA SnapshotGoes ==
  ASSUME TypesInv, EmitSnapshot, session # 0, NEW p \in Pages,
         UNCHANGED <<session, messages, stored>>
  PROVE  Goes(p)
<1>1. StillAlive = {} /\ messages \in Seq(Nat) /\ session \in Nat
  <2>1. StillAlive = {}
    BY Cancelled DEF EmitSnapshot, TypesInv
  <2>2. messages \in Chats(made) /\ made \in Nat /\ session \in Nat
    BY ConnectionAssumption DEF TypesInv, ChatTyped
  <2>. QED
    BY <2>1, <2>2, ChatsAreLists
<1>2. /\ Snapshot \in Bodies /\ Snapshot.what = "snapshot" /\ Snapshot.id = session
      /\ Complete \in Bodies /\ Complete.what = "complete"
  BY EventsAreTyped DEF TypesInv, Snapshot, Says
<1>3. PICK n \in Pages :
        /\ Turns(p, Entry("full", Snapshot), n)
        /\ n.of = session /\ n.hist = <<>> /\ n.live = <<>> /\ ~ n.done /\ ~ n.lossy
  BY <1>2, Opened
<1>4. CASE messages = <<>>
  <2>1. PICK h \in Pages :
          /\ Turns(n, Entry("full", Complete), h)
          /\ h.of = session /\ h.hist = <<>> /\ h.live = <<>> /\ h.done /\ ~ h.lossy
    BY <1>2, <1>3, Completed
  <2>2. out' = <<Snapshot, Complete>> /\ replays' = {}
    BY <1>1, <1>4 DEF EmitSnapshot
  <2>3. Path(Coming(out'), p, h)
    BY <1>2, <1>3, <2>1, <2>2, EntriesAre, ComingTwo, PathOfTwo
  <2>4. h.hist \o h.live = messages
    BY <1>4, <2>1
  <2>5. PageTrue(h)'
    BY <2>1, <2>2, <2>4 DEF PageTrue, OfKnown, HasReplayed, HasMessages
  <2>. QED
    BY <2>3, <2>5 DEF Goes
<1>5. CASE messages # <<>>
  <2>1. PICK t : out' = <<Snapshot>> /\ replays' = {t} /\ t.history = messages /\ t.next = 1
    <3> DEFINE u == [generation |-> generation', history |-> messages, next |-> 1]
    <3>1. out' = <<Snapshot>> /\ replays' = {u}
      BY <1>1, <1>5 DEF EmitSnapshot
    <3>2. u.history = messages /\ u.next = 1
      OBVIOUS
    <3> HIDE DEF u
    <3>. QED
      BY <3>1, <3>2
  <2>2. Path(Coming(out'), p, n)
    BY <1>2, <1>3, <2>1, EntriesAre, ComingOne, PathOfOne
  <2>4. HasReplayed(n)'
    <3>1. 1 <= Len(messages) + 1 /\ SubSeq(messages, 1, 1 - 1) = <<>>
      BY <1>1, LenProperties, SubSeqEmpty
    <3>. QED
      BY <1>3, <2>1, <3>1 DEF HasReplayed
  <2>5. HasMessages(n)'
    <3>1. messages \o <<>> = messages
      BY <1>1, ConcatEmptySeq
    <3>. QED
      BY <1>3, <2>1, <3>1 DEF HasMessages
  <2>6. PageTrue(n)'
    BY <1>3, <2>4, <2>5 DEF PageTrue, OfKnown
  <2>. QED
    BY <2>2, <2>6 DEF Goes
<1>. QED
  BY <1>4, <1>5

LEMMA ReplayGoes ==
  ASSUME TypesInv, NEW t \in replays, Replay(t), NEW p, PageTrue(p)
  PROVE  Goes(p)
<1>1. /\ replays = {t} /\ t.history \in Seq(Nat) /\ t.next \in Nat \ {0}
      /\ t.history \in Seq(1 .. made) /\ Increasing(t.history)
      /\ UNCHANGED <<session, messages, binding, stored>>
  <2>1. replays = {t} /\ t \in Running
    BY DEF TypesInv, ReplaysTyped
  <2>2. t.history \in Chats(made) /\ t.next \in Nat \ {0} /\ made \in Nat
    BY <2>1, ConnectionAssumption DEF TypesInv, ChatTyped, Running
  <2>. QED
    BY <2>1, <2>2, ChatsAreLists DEF Replay, chat
<1>2. p \in Pages /\ OfKnown(p)'
  BY <1>1 DEF PageTrue, OfKnown
<1>3. Complete \in Bodies /\ Complete.what = "complete"
  BY EventsAreTyped DEF TypesInv
<1>4. CASE t.next > Len(t.history)
  <2>1. out' = <<Complete>> /\ replays' = {}
    BY <1>1, <1>4 DEF Replay
  <2>2. CASE p.lossy
    <3>1. Path(Coming(out'), p, p)
      BY <1>2, <1>3, <2>1, <2>2, EntriesAre, TornPage, ComingOne, PathOfOne
    <3>2. PageTrue(p)'
      BY <1>2, <2>2 DEF PageTrue
    <3>. QED
      BY <3>1, <3>2 DEF Goes
  <2>3. CASE ~ p.lossy
    <3>1. PICK h \in Pages :
            /\ Turns(p, Entry("full", Complete), h)
            /\ h.of = p.of /\ h.hist = p.hist /\ h.live = p.live /\ h.done
      BY <1>2, <1>3, <2>3, Completed
    <3>2. Path(Coming(out'), p, h)
      BY <1>2, <1>3, <2>1, <3>1, EntriesAre, ComingOne, PathOfOne
    <3>3. p.hist = t.history
      <4>1. t.next <= Len(t.history) + 1 /\ p.hist = SubSeq(t.history, 1, t.next - 1)
        BY <2>3 DEF PageTrue, HasReplayed
      <4>2. t.next - 1 = Len(t.history)
        BY <1>1, <1>4, <4>1, LenProperties
      <4>. QED
        BY <1>1, <4>1, <4>2, SubSeqFull
    <3>4. HasMessages(h)'
      BY <1>1, <2>1, <2>3, <3>1, <3>3 DEF PageTrue, HasMessages
    <3>5. PageTrue(h)'
      BY <1>2, <2>1, <3>1, <3>4 DEF PageTrue, OfKnown, HasReplayed
    <3>. QED
      BY <3>2, <3>5 DEF Goes
  <2>. QED
    BY <2>2, <2>3
<1>5. CASE ~ (t.next > Len(t.history))
  <2>0. PICK m, r : m = t.history[t.next] /\ r = [t EXCEPT !.next = @ + 1]
    OBVIOUS
  <2>1. out' = <<History(m)>> /\ replays' = {r}
    BY <1>1, <1>5, <2>0 DEF Replay
  <2>2. t.next \in 1 .. Len(t.history) /\ Len(t.history) \in Nat /\ m \in 1 .. made
    <3>1. t.next \in 1 .. Len(t.history) /\ Len(t.history) \in Nat
      BY <1>1, <1>5, LenProperties
    <3>. QED
      BY <1>1, <2>0, <3>1, ElementOfSeq
  <2>3. r.history = t.history /\ r.next = t.next + 1
    BY <1>1, <2>0 DEF TypesInv, ReplaysTyped, Running
  <2>4. History(m) \in Bodies /\ History(m).what = "history" /\ History(m).id = m
    <3>1. m \in 0 .. MaxMessages
      BY <2>2, ConnectionAssumption DEF TypesInv, ChatTyped
    <3>. QED
      BY <3>1, EventsAreTyped DEF TypesInv, History, Says
  <2>5. CASE p.lossy
    <3>1. Path(Coming(out'), p, p)
      BY <1>2, <2>1, <2>4, <2>5, EntriesAre, TornPage, ComingOne, PathOfOne
    <3>2. PageTrue(p)'
      BY <1>2, <2>5 DEF PageTrue
    <3>. QED
      BY <3>1, <3>2 DEF Goes
  <2>6. CASE ~ p.lossy
    <3>1. HasReplayed(p) /\ HasMessages(p)
      BY <2>6 DEF PageTrue
    <3>2. ~ p.done /\ p.hist = SubSeq(t.history, 1, t.next - 1)
      BY <3>1 DEF HasReplayed
    <3>3. Append(p.hist, m) = SubSeq(t.history, 1, t.next)
      <4>1. p.hist \in Seq(Nat) /\ m \in Nat
        BY <1>2, <2>2 DEF Pages, Views
      <4>2. SubSeq(t.history, 1, t.next) = SubSeq(t.history, 1, t.next - 1) \o <<t.history[t.next]>>
        <5>1. 1 \in 1 .. Len(t.history)
          BY <2>2
        <5>. QED
          BY <1>1, <2>2, <5>1, SubSeqRecursiveSecond
      <4>3. Append(p.hist, m) = p.hist \o <<m>>
        BY <4>1, AppendIsConcat
      <4>. QED
        BY <2>0, <3>2, <4>2, <4>3
    <3>4. Increasing(Append(p.hist, m))
      <4> DEFINE u == SubSeq(t.history, 1, t.next)
      <4>1. \A i \in 1 .. t.next : t.history[i] \in Nat
        BY <1>1, <2>2, ElementOfSeq
      <4>2. t.next \in Int /\ 1 <= t.next /\ t.next - 1 + 1 = t.next
        BY <1>1
      <4>3. u \in Seq(Nat) /\ Len(u) = t.next /\ \A i \in 1 .. t.next : u[i] = t.history[1 + i - 1]
        <5>1. /\ u \in Seq(Nat) /\ Len(u) = IF 1 <= t.next THEN t.next - 1 + 1 ELSE 0
              /\ \A i \in 1 .. t.next - 1 + 1 : u[i] = t.history[1 + i - 1]
          BY <4>1, <4>2, SubSeqProperties
        <5> HIDE DEF u
        <5>. QED
          BY <4>2, <5>1
      <4> HIDE DEF u
      <4>4. DOMAIN u = 1 .. t.next /\ \A i \in 1 .. t.next : 1 + i - 1 = i /\ i \in 1 .. Len(t.history)
        BY <2>2, <4>2, <4>3, LenProperties
      <4>5. DOMAIN t.history = 1 .. Len(t.history)
        BY <1>1, LenProperties
      <4>6. ASSUME NEW i \in DOMAIN u, NEW j \in DOMAIN u, i < j PROVE u[i] < u[j]
        <5>1. \A x \in DOMAIN u : u[x] = t.history[x] /\ x \in DOMAIN t.history
          BY <4>3, <4>4, <4>5
        <5>2. Increasing(t.history)
          BY <1>1
        <5>3. t.history[i] < t.history[j]
          BY <4>6, <5>1, <5>2 DEF Increasing
        <5>. QED
          BY <5>1, <5>3
      <4>7. Increasing(u)
        BY <4>6 DEF Increasing
      <4>. QED
        BY <3>3, <4>7 DEF u
    <3>5. PICK h \in Pages :
            /\ Turns(p, Entry("full", History(m)), h)
            /\ h.of = p.of /\ h.hist = Append(p.hist, m) /\ h.live = p.live /\ h.done = p.done
      BY <1>2, <2>4, <2>6, <3>2, <3>4, Replayed
    <3>6. Path(Coming(out'), p, h)
      BY <1>2, <2>1, <2>4, <3>5, EntriesAre, ComingOne, PathOfOne
    <3>7. HasReplayed(h)'
      <4>1. t.next + 1 <= Len(t.history) + 1 /\ t.next + 1 - 1 = t.next
        BY <2>2
      <4>2. r.next <= Len(r.history) + 1 /\ h.hist = SubSeq(r.history, 1, r.next - 1)
        <5>1. r.next - 1 = t.next /\ r.next <= Len(r.history) + 1
          <6>1. t.next \in Nat /\ r.next = t.next + 1
            BY <1>1, <2>3
          <6>2. r.next - 1 = t.next
            BY <6>1
          <6>. QED
            BY <2>3, <4>1, <6>2
        <5>2. h.hist = SubSeq(r.history, 1, t.next)
          BY <2>3, <3>3, <3>5
        <5>. QED
          BY <5>1, <5>2
      <4>3. ~ h.done
        BY <3>2, <3>5
      <4>. QED
        BY <2>1, <4>2, <4>3 DEF HasReplayed
    <3>8. HasMessages(h)'
      BY <1>1, <2>1, <2>3, <3>1, <3>2, <3>5 DEF HasMessages
    <3>9. PageTrue(h)'
      BY <1>2, <3>5, <3>7, <3>8 DEF PageTrue, OfKnown
    <3>. QED
      BY <3>6, <3>9 DEF Goes
  <2>. QED
    BY <2>5, <2>6
<1>. QED
  BY <1>4, <1>5

\* The page stays as it is: a session begins, or ends, or is bound when it has
\* ended.
LEMMA StartSessionGoes ==
  ASSUME TypesInv, StoredFirst, StartSession, NEW p, PageTrue(p)
  PROVE  Goes(p) /\ StoredFirst'
<1>1. PICK n \in Nat : DOMAIN stored = 1 .. n /\ session \in 0 .. n + 1
  BY DEF StoredFirst
<1> DEFINE kept == IF session = 0 THEN stored
                   ELSE [x \in DOMAIN stored \cup {session} |->
                           IF x = session THEN messages ELSE stored[x]]
<1>2. PICK s \in (DOMAIN stored \cup {NewSession}) \cap 1 .. MaxSessions :
        /\ session' = s
        /\ \/ /\ stored' = [x \in DOMAIN kept \cup {s} |-> IF x = s THEN messages' ELSE kept[x]]
              /\ binding' = binding + 1 /\ UNCHANGED out
           \/ s \notin DOMAIN kept /\ stored' = kept /\ out' = <<Other>> /\ UNCHANGED binding
  BY Zenon DEF StartSession
<1>3. DOMAIN kept = DOMAIN stored \cup ({session} \ {0})
  <2>1. CASE session = 0
    BY <2>1
  <2>2. CASE session # 0
    BY <2>2
  <2>. QED
    BY <2>1, <2>2
<1> HIDE DEF kept
<1>4. PICK k \in Nat : DOMAIN kept = 1 .. k /\ k \in {n, n + 1}
  <2>1. CASE session = n + 1
    <3>1. DOMAIN kept = 1 .. n + 1
      BY <1>1, <1>3, <2>1
    <3>. QED
      BY <3>1
  <2>2. CASE session # n + 1
    <3>1. {session} \ {0} \subseteq 1 .. n
      BY <1>1, <2>2
    <3>2. DOMAIN kept = 1 .. n
      BY <1>1, <1>3, <3>1
    <3>. QED
      BY <3>2
  <2>. QED
    BY <2>1, <2>2
<1>5. NewSession = k + 1 /\ s \in 1 .. k + 1
  <2>1. NewSession = 1 + Cardinality(1 .. k)
    BY <1>3, <1>4 DEF NewSession
  <2>2. Cardinality(1 .. k) = k
    BY FS_Interval
  <2>. QED
    BY <1>1, <1>4, <2>1, <2>2
<1>6. /\ StoredFirst' /\ DOMAIN kept \subseteq DOMAIN stored'
  <2>1. CASE stored' = [x \in DOMAIN kept \cup {s} |-> IF x = s THEN messages' ELSE kept[x]]
    <3>1. DOMAIN stored' = 1 .. k \cup {s}
      BY <1>4, <2>1
    <3>2. CASE s = k + 1
      <4>1. DOMAIN stored' = 1 .. k + 1 /\ s \in 0 .. k + 1 + 1 /\ k + 1 \in Nat
        BY <3>1, <3>2
      <4>. QED
        BY <1>2, <1>4, <3>1, <4>1 DEF StoredFirst
    <3>3. CASE s # k + 1
      <4>1. DOMAIN stored' = 1 .. k /\ s \in 0 .. k + 1
        BY <1>5, <3>1, <3>3
      <4>. QED
        BY <1>2, <1>4, <4>1 DEF StoredFirst
    <3>. QED
      BY <3>2, <3>3
  <2>2. CASE stored' = kept
    <3>1. s \in 0 .. k + 1
      BY <1>5
    <3>. QED
      BY <1>2, <1>4, <2>2, <3>1 DEF StoredFirst
  <2>. QED
    BY <1>2, <2>1, <2>2
<1>7. p.of \in DOMAIN kept \cup {0}
  BY <1>3 DEF PageTrue, OfKnown
<1>8. replays' = replays /\ out = <<>>
  BY DEF StartSession, replaying
<1>9. p \in Pages /\ OfKnown(p)' /\ (p.lossy \/ HasReplayed(p)')
  BY <1>6, <1>7, <1>8 DEF PageTrue, OfKnown, HasReplayed
<1>10. ASSUME session' # 0, binding' = 0 PROVE p.of # session'
  <2>1. binding \in Nat
    BY ConnectionAssumption DEF TypesInv, ChatTyped
  <2>2. s \notin DOMAIN kept
    BY <1>2, <1>10, <2>1
  <2>. QED
    BY <1>2, <1>7, <1>10, <2>2
<1>11. PageTrue(p)'
  BY <1>9, <1>10 DEF PageTrue, HasMessages
<1>12. out' = <<>> \/ (Other \in Bodies /\ Other.what = "other" /\ out' = <<Other>>)
  BY <1>2, <1>8, EventsAreTyped DEF TypesInv
<1>. QED
  BY <1>6, <1>9, <1>11, <1>12, AsideGoes

LEMMA CloseSessionGoes ==
  ASSUME TypesInv, StoredFirst, CloseSession, NEW p, PageTrue(p)
  PROVE  Goes(p) /\ StoredFirst'
<1>1. PICK n \in Nat : DOMAIN stored = 1 .. n /\ session \in 0 .. n + 1
  BY DEF StoredFirst
<1>2. replays' = {} /\ out' = <<Other>> /\ session # 0 /\ binding' = binding
  BY Cancelled DEF CloseSession, TypesInv
<1>3. ASSUME stored' = [x \in DOMAIN stored \cup {session} |->
                          IF x = session THEN messages ELSE stored[x]],
             session' = 0
      PROVE  StoredFirst' /\ PageTrue(p)'
  <2>1. DOMAIN stored' = DOMAIN stored \cup {session}
    BY <1>3
  <2>2. DOMAIN stored' = 1 .. n \/ DOMAIN stored' = 1 .. n + 1
    <3>1. session \in 1 .. n \/ session = n + 1
      BY <1>1, <1>2
    <3>2. 1 .. n \cup {n + 1} = 1 .. n + 1
      BY <1>1
    <3>. QED
      BY <1>1, <2>1, <3>1, <3>2
  <2>3. StoredFirst'
    <3>1. 0 \in 0 .. n + 1 /\ 0 \in 0 .. n + 1 + 1 /\ n + 1 \in Nat
      BY <1>1
    <3>. QED
      BY <1>3, <2>2, <3>1 DEF StoredFirst
  <2>. QED
    BY <1>2, <1>3, <2>1, <2>3 DEF PageTrue, OfKnown, HasReplayed, HasMessages
<1>4. ASSUME UNCHANGED <<session, messages, stored>>
      PROVE  StoredFirst' /\ PageTrue(p)'
  <2>1. StoredFirst'
    BY <1>4 DEF StoredFirst
  <2>. QED
    BY <1>2, <1>4, <2>1 DEF PageTrue, OfKnown, HasReplayed, HasMessages
<1>5. StoredFirst' /\ PageTrue(p)'
  BY <1>3, <1>4 DEF CloseSession, Saved
<1>6. p \in Pages /\ Other \in Bodies /\ Other.what = "other"
  BY EventsAreTyped DEF TypesInv, PageTrue
<1>. QED
  BY <1>2, <1>5, <1>6, AsideGoes

-----------------------------------------------------------------------------
(* What a page shows of the messages that were added.                      *)

LEMMA WithAddedIsTyped ==
  ASSUME NEW ids \in Seq(Nat), NEW e \in Bodies \cup {Empty}
  PROVE  WithAdded(ids, e) \in Seq(Nat)
<1>1. CASE e \in Bodies
  <2>1. e.id \in Nat
    BY <1>1, ConnectionAssumption DEF Bodies
  <2>. QED
    BY <2>1, RangeOfOneMore DEF WithAdded
<1>2. CASE e = Empty
  BY <1>2 DEF WithAdded
<1>. QED
  BY <1>1, <1>2

\* The messages added by the first of some events, then by the first two, ...
AddsUp(a, es, n) ==
  /\ a \in [0 .. n -> Seq(Nat)]
  /\ a[0] = <<>> /\ a[n] = AddedBy(es)
  /\ \A i \in 1 .. n : a[i] = WithAdded(a[i - 1], es[i])

LEMMA AddedSteps ==
  ASSUME NEW n \in Nat, NEW es, DOMAIN es = 1 .. n, \A i \in 1 .. n : es[i] \in Bodies \cup {Empty}
  PROVE  \E a : AddsUp(a, es, n)
<1> DEFINE V == Seq(Nat)
           F == [j \in (1 .. n) \X V |-> WithAdded(j[2], es[j[1]])]
           Fold(h) == h = [S \in SUBSET (1 .. n) |->
                             IF S = {} THEN <<>> ELSE WithAdded(h[S \ {Max(S)}], es[Max(S)])]
<1>1. <<>> \in V
  OBVIOUS
<1>2. \A x \in V, i \in 1 .. n : WithAdded(x, es[i]) \in V
  BY WithAddedIsTyped
<1>3. AddedBy(es) = (CHOOSE h : Fold(h))[1 .. n]
  BY DEF AddedBy, FoldLeft, MapThenFoldSet
<1> HIDE DEF V
<1>4. F \in [(1 .. n) \X V -> V]
  BY <1>2
<1>5. PICK h : IsFold(h, F, <<>>, n) /\ \A S \in SUBSET (1 .. n) : h[S] \in V
  BY <1>1, <1>4, FoldTyped
<1>6. Fold(h)
  <2>1. ASSUME NEW S \in SUBSET (1 .. n), S # {}
        PROVE  F[Max(S), h[S \ {Max(S)}]] = WithAdded(h[S \ {Max(S)}], es[Max(S)])
    <3>1. Max(S) \in 1 .. n /\ S \ {Max(S)} \in SUBSET (1 .. n)
      BY <2>1, LastIsPlace
    <3>2. <<Max(S), h[S \ {Max(S)}]>> \in (1 .. n) \X V
      BY <1>5, <3>1
    <3>. QED
      BY <3>2
  <2> HIDE DEF F
  <2>. QED
    BY <1>5, <2>1 DEF IsFold
<1> DEFINE g == CHOOSE h1 : Fold(h1)
<1>7. Fold(g)
  <2> HIDE DEF Fold
  <2>. QED
    BY <1>6
<1>8. AddedBy(es) = g[1 .. n]
  BY <1>3
<1> HIDE DEF g, F
<1>9. ASSUME NEW S \in SUBSET (1 .. n), S # {} /\ g[S \ {Max(S)}] \in V PROVE g[S] \in V
  <2>1. Max(S) \in 1 .. n
    BY <1>9, LastIsPlace
  <2>2. g[S] = WithAdded(g[S \ {Max(S)}], es[Max(S)])
    BY <1>7, <1>9
  <2>. QED
    BY <1>2, <1>9, <2>1, <2>2
<1>10. g[{}] = <<>>
  <2>1. {} \in SUBSET (1 .. n)
    OBVIOUS
  <2>. QED
    BY <1>7, <2>1
<1>11. \A S \in SUBSET (1 .. n) : g[S] \in V
  BY <1>1, <1>9, <1>10, FoldKeeps
<1> DEFINE a == [i \in 0 .. n |-> g[1 .. i]]
<1>12. \A i \in 0 .. n : 1 .. i \in SUBSET (1 .. n)
  OBVIOUS
<1>13. a \in [0 .. n -> V]
  BY <1>11, <1>12
<1>14. a[0] = <<>> /\ a[n] = AddedBy(es)
  <2>1. 0 \in 0 .. n /\ n \in 0 .. n /\ 1 .. 0 = {}
    OBVIOUS
  <2>. QED
    BY <1>8, <1>10, <2>1
<1>15. ASSUME NEW i \in 1 .. n PROVE a[i] = WithAdded(a[i - 1], es[i])
  <2>1. i - 1 \in Nat /\ i - 1 + 1 = i /\ i \in 0 .. n /\ i - 1 \in 0 .. n
    OBVIOUS
  <2>2. 1 .. i \in SUBSET (1 .. i - 1 + 1) /\ i - 1 + 1 \in 1 .. i
    BY <2>1
  <2>3. Max(1 .. i) = i - 1 + 1 /\ 1 .. i # {}
    BY <2>1, <2>2, LastPlace
  <2>4. (1 .. i) \ {i} = 1 .. i - 1
    OBVIOUS
  <2>5. Max(1 .. i) = i
    BY <2>1, <2>3
  <2>6. g[1 .. i] = WithAdded(g[1 .. i - 1], es[i])
    BY <1>7, <1>12, <2>1, <2>3, <2>4, <2>5
  <2>. QED
    BY <2>1, <2>6
<1> HIDE DEF a
<1>. QED
  BY <1>13, <1>14, <1>15 DEF V, AddsUp

BodiesOf(s) == [i \in DOMAIN s |-> s[i].body]

\* Nothing is lost, and no page begins.
OnePage(s) ==
  \A i \in DOMAIN s : s[i] # Notice /\ (s[i].body # Empty => s[i].body.what # "snapshot")

ShowsAdded(s, p, q) ==
  /\ p \in Pages /\ q \in Pages /\ q.done /\ q.lossy = FALSE /\ q.of = p.of /\ q.hist = p.hist
  /\ AddedBy(BodiesOf(s)) \in Seq(Nat)
  /\ q.live = p.live \o AddedBy(BodiesOf(s))

\* What is read of a page that is complete, and of which nothing gets lost, is
\* what was added.
LEMMA PageShowsAdded ==
  ASSUME NEW s \in Seq(Queueable), NEW p, NEW q, Path(s, p, q),
         p.done, p.lossy = FALSE, OnePage(s)
  PROVE  ShowsAdded(s, p, q)
<1> DEFINE n == Len(s)
           es == BodiesOf(s)
<1>1. PICK w : Leads(w, s, p, q)
  BY DEF Path
<1>2. n \in Nat /\ DOMAIN s = 1 .. n /\ \A i \in 1 .. n : s[i] \in Queueable
  BY LenProperties, ElementOfSeq
<1>3. /\ DOMAIN es = 1 .. n /\ \A i \in 1 .. n : es[i] = s[i].body
      /\ \A i \in 1 .. n : es[i] \in Bodies \cup {Empty}
  BY <1>2, EntryKinds DEF BodiesOf
<1> HIDE DEF n, es
<1>4. w \in [0 .. n -> Pages] /\ w[0] = p /\ w[n] = q /\ \A i \in 1 .. n : Turns(w[i - 1], s[i], w[i])
  BY <1>1 DEF Leads, n
<1>0. PICK a : AddsUp(a, es, n)
  BY <1>2, <1>3, AddedSteps
<1>5. /\ a \in [0 .. n -> Seq(Nat)] /\ a[0] = <<>> /\ a[n] = AddedBy(es)
      /\ \A i \in 1 .. n : a[i] = WithAdded(a[i - 1], es[i])
  BY <1>0 DEF AddsUp
<1> DEFINE Shows(i) ==
             i \in 0 .. n =>
               /\ w[i].done /\ w[i].lossy = FALSE /\ w[i].of = p.of /\ w[i].hist = p.hist
               /\ w[i].live = p.live \o a[i]
           G == {i \in Nat : Shows(i)}
<1>6. p \in Pages /\ q \in Pages /\ p.live \in Seq(Nat)
  <2>1. 0 \in 0 .. n /\ n \in 0 .. n
    BY <1>2
  <2>. QED
    BY <1>4, <2>1 DEF Pages, Views
<1>7. Shows(0)
  BY <1>4, <1>5, <1>6, ConcatEmptySeq
<1>8. ASSUME NEW i \in Nat, Shows(i) PROVE Shows(i + 1)
  <2> SUFFICES ASSUME i + 1 \in 0 .. n
               PROVE  /\ w[i + 1].done /\ w[i + 1].lossy = FALSE /\ w[i + 1].of = p.of
                      /\ w[i + 1].hist = p.hist /\ w[i + 1].live = p.live \o a[i + 1]
    OBVIOUS
  <2>1. i \in 0 .. n /\ i + 1 \in 1 .. n /\ i + 1 - 1 = i
    BY <1>2
  <2>2. /\ w[i] \in Pages /\ w[i].done /\ w[i].lossy = FALSE /\ w[i].of = p.of /\ w[i].hist = p.hist
        /\ w[i].live = p.live \o a[i] /\ a[i] \in Seq(Nat)
    BY <1>4, <1>5, <1>8, <2>1
  <2> DEFINE e == s[i + 1]
             b == e.body
  <2>3. /\ e \in Queueable /\ e # Notice /\ (b # Empty => b.what # "snapshot")
        /\ w[i + 1] = PageAfter(w[i], e) /\ Fits(w[i], e)
        /\ a[i + 1] = WithAdded(a[i], b)
    <3>1. e \in Queueable /\ e # Notice /\ (b # Empty => b.what # "snapshot")
      BY <1>2, <2>1 DEF OnePage
    <3>2. Turns(w[i], s[i + 1], w[i + 1])
      <4>1. Turns(w[i + 1 - 1], s[i + 1], w[i + 1])
        BY <1>4, <2>1
      <4>. QED
        BY <2>1, <4>1
    <3>3. a[i + 1] = WithAdded(a[i], b)
      <4>1. a[i + 1] = WithAdded(a[i + 1 - 1], es[i + 1]) /\ es[i + 1] = b
        BY <1>3, <1>5, <2>1
      <4>. QED
        BY <2>1, <4>1
    <3>. QED
      BY <3>1, <3>2, <3>3 DEF Turns
  <2> HIDE DEF e
  <2>4. CASE b = Empty
    <3>1. e = Warning
      BY <2>3, <2>4, EntryKinds
    <3>2. w[i + 1] = w[i]
      BY <2>2, <2>3, <3>1, PageAfterIs DEF Pages
    <3>. QED
      BY <2>2, <2>3, <2>4, <3>2 DEF WithAdded
  <2>5. CASE b # Empty
    <3>1. b \in Bodies /\ w[i + 1] = Shown(w[i], b) /\ b.what \notin {"snapshot", "history"}
      BY <2>2, <2>3, <2>5, EntryKinds, PageAfterIs DEF Pages, Fits
    <3> HIDE DEF b
    <3>2. w[i] \in Views
      BY <2>2 DEF Pages
    <3>3. CASE b.what = "added"
      <4>1. w[i + 1] = [w[i] EXCEPT !.live = Append(w[i].live, b.id)]
        BY <2>2, <3>1, <3>3 DEF Shown
      <4>2. /\ w[i + 1].done = w[i].done /\ w[i + 1].lossy = w[i].lossy /\ w[i + 1].of = w[i].of
            /\ w[i + 1].hist = w[i].hist /\ w[i + 1].live = Append(w[i].live, b.id)
        BY <3>2, <4>1 DEF Views
      <4>3. a[i + 1] = Append(a[i], b.id) /\ b.id \in Nat
        BY <2>3, <2>5, <3>1, <3>3, ConnectionAssumption DEF WithAdded, Bodies
      <4>4. p.live \o Append(a[i], b.id) = Append(p.live \o a[i], b.id)
        BY <1>6, <2>2, <4>3, ConcatAppend
      <4>. QED
        BY <2>2, <4>2, <4>3, <4>4
    <3>4. CASE b.what # "added"
      <4>1. w[i + 1] = w[i] \/ w[i + 1] = [w[i] EXCEPT !.done = TRUE]
        BY <2>2, <3>1, <3>4 DEF Shown
      <4>2. a[i + 1] = a[i]
        BY <2>3, <3>4 DEF WithAdded
      <4>. QED
        BY <2>2, <3>2, <4>1, <4>2 DEF Views
    <3>. QED
      BY <3>3, <3>4
  <2>. QED
    BY <2>4, <2>5
<1> HIDE DEF Shows
<1>9. Shows(n)
  <2>1. 0 \in G /\ \A i \in G : i + 1 \in G
    BY <1>7, <1>8
  <2> HIDE DEF G
  <2>2. G = Nat
    <3>1. G \in SUBSET Nat
      BY DEF G
    <3>. QED
      BY <2>1, <3>1, AllNumbers
  <2>. QED
    BY <1>2, <2>2 DEF G
<1>10. n \in 0 .. n
  BY <1>2
<1>. QED
  BY <1>4, <1>5, <1>6, <1>9, <1>10 DEF Shows, es, ShowsAdded

-----------------------------------------------------------------------------
(* Every step leaves a path that ends in a page true to the session.       *)

GoesOn ==
  StoredFirst' /\ \E p, g : Path(queue', view', p) /\ Path(Coming(out'), p, g) /\ PageTrue(g)'

LEMMA TornIsTrue == PageTrue(Torn)'
  BY TornIsAPage DEF PageTrue, OfKnown

LEMMA StoredStays ==
  ASSUME StoredFirst, UNCHANGED <<session, stored>>
  PROVE  StoredFirst'
  BY DEF StoredFirst

LEMMA TrueStays ==
  ASSUME NEW g, PageTrue(g), UNCHANGED <<session, messages, binding, stored, replays>>
  PROVE  PageTrue(g)'
  BY DEF PageTrue, OfKnown, HasReplayed, HasMessages

LEMMA FromHere ==
  ASSUME out = <<>>, NEW p, NEW g, Reaches(p, g)
  PROVE  g = p /\ p \in Pages /\ Path(queue, view, p)
  BY NothingComes DEF Reaches

LEMMA PassingGoesOn ==
  ASSUME HistoryInv, Emit \/ Receive \/ Reconnect \/ Crash \/ UNCHANGED connectionVars
  PROVE  GoesOn
<1>0. TypesInv /\ StoredFirst
  BY DEF HistoryInv, StoredInv
<1>1. PICK p, g : Reaches(p, g) /\ PageTrue(g)
  BY DEF HistoryInv
<1>2. CASE Emit
  <2>1. UNCHANGED <<session, messages, binding, stored, replays>>
    BY <1>2 DEF Emit, chat, replaying
  <2>2. PICK q, h : Path(queue', view', q) /\ Path(Coming(out'), q, h) /\ h \in {g, Torn}
    BY <1>0, <1>1, <1>2, EmitReaches DEF TypesInv
  <2>3. PageTrue(h)'
    BY <1>1, <2>1, <2>2, TornIsTrue, TrueStays
  <2>. QED
    BY <1>0, <2>1, <2>2, <2>3, StoredStays DEF GoesOn
<1>3. CASE Receive
  <2>1. UNCHANGED <<session, messages, binding, stored, replays>>
    BY <1>3 DEF Receive, chat, replaying
  <2>2. Path(queue', view', p) /\ Path(Coming(out'), p, g)
    BY <1>0, <1>1, <1>3, ReceiveReaches DEF TypesInv
  <2>. QED
    BY <1>0, <1>1, <2>1, <2>2, TrueStays, StoredStays DEF GoesOn
<1>4. CASE Reconnect
  <2>1. UNCHANGED <<session, stored>> /\ NewQueue /\ out' = <<>>
    BY <1>4 DEF Reconnect, chat
  <2>. QED
    BY <1>0, <2>1, NewQueueReaches, TornIsTrue, StoredStays DEF GoesOn
<1>5. CASE Crash
  <2>1. session' = 0 /\ stored' = stored /\ NewQueue /\ out' = <<>>
    BY <1>5 DEF Crash
  <2>2. StoredFirst'
    <3>1. PICK n \in Nat : DOMAIN stored = 1 .. n
      BY <1>0 DEF StoredFirst
    <3>2. 0 \in 0 .. n + 1
      BY <3>1
    <3>. QED
      BY <2>1, <3>1, <3>2 DEF StoredFirst
  <2>. QED
    BY <2>1, <2>2, NewQueueReaches, TornIsTrue DEF GoesOn
<1>6. CASE UNCHANGED connectionVars
  <2>1. UNCHANGED <<session, messages, binding, stored, replays, queue, view, out>>
    BY <1>6 DEF connectionVars, channel, chat, replaying
  <2>2. Path(queue', view', p) /\ Path(Coming(out'), p, g)
    BY <1>1, <2>1 DEF Reaches
  <2>. QED
    BY <1>0, <1>1, <2>1, <2>2, TrueStays, StoredStays DEF GoesOn
<1>. QED
  BY <1>2, <1>3, <1>4, <1>5, <1>6

LEMMA SessionGoesOn ==
  ASSUME HistoryInv,
         \/ AddMessage \/ AddUnsaved \/ RequestSnapshot \/ \E e \in {Other, Delta} : Say(e)
         \/ \E t \in replays : Replay(t)
         \/ StartSession \/ Bound \/ CloseSession
  PROVE  GoesOn
<1>0. TypesInv /\ StoredFirst
  BY DEF HistoryInv, StoredInv
<1>1. PICK p, g : Reaches(p, g) /\ PageTrue(g)
  BY DEF HistoryInv
<1>2. out = <<>> /\ queue' = queue /\ view' = view
  BY DEF AddMessage, AddUnsaved, RequestSnapshot, Say, Replay, StartSession, Bound, CloseSession,
         channel
<1>3. p = g /\ p \in Pages /\ Path(queue', view', p) /\ PageTrue(p)
  BY <1>1, <1>2, FromHere
<1>4. SUFFICES StoredFirst' /\ Goes(p)
  BY <1>3 DEF Goes, GoesOn
<1>5. CASE AddMessage
  <2>1. PICK n \in Nat : DOMAIN stored = 1 .. n /\ session \in 0 .. n + 1
    BY <1>0 DEF StoredFirst
  <2>2. session' = session /\ session # 0
        /\ (DOMAIN stored' = DOMAIN stored \/ DOMAIN stored' = DOMAIN stored \cup {session})
    BY <1>5 DEF AddMessage, Saved
  <2>3. DOMAIN stored' = 1 .. n \/ DOMAIN stored' = 1 .. n + 1
    <3>1. session \in 1 .. n \/ session = n + 1
      BY <2>1, <2>2
    <3>2. 1 .. n \cup {n + 1} = 1 .. n + 1
      BY <2>1
    <3>. QED
      BY <2>1, <2>2, <3>1, <3>2
  <2>4. session \in 0 .. n + 1 + 1 /\ n + 1 \in Nat
    BY <2>1
  <2>5. StoredFirst'
    BY <2>1, <2>2, <2>3, <2>4 DEF StoredFirst
  <2>. QED
    BY <1>0, <1>3, <1>5, <2>5, AddMessageGoes
<1>6. CASE RequestSnapshot
  <2>1. session # 0 /\ EmitSnapshot /\ UNCHANGED <<session, messages, stored>>
    BY <1>6 DEF RequestSnapshot, chat
  <2>. QED
    BY <1>0, <1>3, <2>1, SnapshotGoes, StoredStays
<1>7. ASSUME NEW e \in {Other, Delta}, Say(e) PROVE StoredFirst' /\ Goes(p)
  <2>1. UNCHANGED <<session, messages, binding, stored, replays>> /\ out' = <<e>>
    BY <1>7 DEF Say, chat, replaying
  <2>2. e \in Bodies /\ e.what \in {"other", "delta"}
    BY <1>0, EventsAreTyped DEF TypesInv, Other, Delta, Says
  <2>3. PageTrue(p)'
    BY <1>3, <2>1, TrueStays
  <2>. QED
    BY <1>0, <1>3, <2>1, <2>2, <2>3, AsideGoes, StoredStays
<1>8. ASSUME NEW t \in replays, Replay(t) PROVE StoredFirst' /\ Goes(p)
  <2>1. UNCHANGED <<session, stored>>
    BY <1>8 DEF Replay, chat
  <2>. QED
    BY <1>0, <1>3, <1>8, <2>1, ReplayGoes, StoredStays
<1>9. CASE StartSession
  BY <1>0, <1>3, <1>9, StartSessionGoes
<1>10. CASE Bound
  <2>1. UNCHANGED <<session, messages, stored>>
    BY <1>10 DEF Bound
  <2>2. CASE session # 0 /\ EmitSnapshot
    BY <1>0, <1>3, <2>1, <2>2, SnapshotGoes, StoredStays
  <2>3. CASE session = 0 /\ out' = <<Other>> /\ generation < MaxSnapshots /\ CancelReplay
             /\ replays' = StillAlive
    <3>1. replays' = {}
      BY <1>0, <2>3, Cancelled DEF TypesInv
    <3>2. PageTrue(p)'
      BY <1>3, <2>1, <2>3, <3>1 DEF PageTrue, OfKnown, HasReplayed, HasMessages
    <3>3. Other \in Bodies /\ Other.what = "other"
      BY <1>0, EventsAreTyped DEF TypesInv
    <3>. QED
      BY <1>0, <1>3, <2>1, <2>3, <3>2, <3>3, AsideGoes, StoredStays
  <2>. QED
    BY <1>10, <2>2, <2>3 DEF Bound
<1>11. CASE CloseSession
  BY <1>0, <1>3, <1>11, CloseSessionGoes
<1>12. CASE AddUnsaved
  <2>1. UNCHANGED <<session, stored>>
    BY <1>12 DEF AddUnsaved
  <2>. QED
    BY <1>0, <1>3, <1>12, <2>1, AddUnsavedGoes, StoredStays
<1>. QED
  BY <1>5, <1>6, <1>7, <1>8, <1>9, <1>10, <1>11, <1>12

LEMMA HistoryStep == HistoryInv /\ [ConnectionNext]_connectionVars => HistoryInv'
<1> SUFFICES ASSUME HistoryInv, [ConnectionNext]_connectionVars PROVE HistoryInv'
  OBVIOUS
<1>1. StoredInv'
  BY StoredStep DEF HistoryInv
<1>2. GoesOn
  BY PassingGoesOn, SessionGoesOn DEF ConnectionNext
<1>3. StoredFirst' /\ \E p, g : Reaches(p, g)' /\ PageTrue(g)'
  BY <1>2 DEF GoesOn, Reaches
<1>. QED
  BY <1>1, <1>3 DEF HistoryInv

LEMMA HistoryStart == ConnectionInit => HistoryInv
<1> SUFFICES ASSUME ConnectionInit PROVE HistoryInv
  OBVIOUS
<1>1. StoredInv
  BY ConnectionStart
<1>2. /\ queue = <<>> /\ view = NoView /\ out = <<>> /\ session = 0 /\ stored = <<>>
      /\ replays = {}
  BY DEF ConnectionInit, ChannelInit
<1>3. NoView \in Pages /\ NoView.of = 0
  <2>1. NoView \in Views /\ NoView.hist = <<>> /\ NoView.of = 0 /\ NoView.lossy = FALSE
    BY NoViewIsTyped DEF NoView
  <2>2. Increasing(<<>>)
    BY NoChat DEF Chats
  <2>. QED
    BY <2>1, <2>2 DEF Pages
<1>4. Reaches(NoView, NoView)
  BY <1>2, <1>3, NothingComes DEF Reaches
<1>5. PageTrue(NoView)
  BY <1>2, <1>3 DEF PageTrue, OfKnown, HasReplayed, HasMessages
<1>6. StoredFirst
  <2>1. DOMAIN <<>> = 1 .. 0 /\ 0 \in 0 .. 0 + 1 /\ 0 \in Nat
    OBVIOUS
  <2>. QED
    BY <1>2, <2>1 DEF StoredFirst
<1>. QED
  BY <1>1, <1>4, <1>5, <1>6 DEF HistoryInv

LEMMA ConcatThree ==
  ASSUME NEW s \in Seq(Nat), NEW t \in Seq(Nat), NEW u \in Seq(Nat)
  PROVE  (s \o t) \o u = s \o (t \o u)
<1>1. \A S : \A x, y, z \in Seq(S) : (x \o y) \o z = x \o (y \o z)
  BY ConcatAssociative
<1>. QED
  BY SMTT(30), <1>1

LEMMA BodiesComing ==
  ASSUME out \in Seq(Bodies)
  PROVE  BodiesOf(Coming(out)) = out
<1>1. /\ DOMAIN Coming(out) = DOMAIN out /\ DOMAIN out = 1 .. Len(out)
      /\ \A i \in DOMAIN out : out[i] \in Bodies /\ Coming(out)[i] = Entry("full", out[i])
  BY ComingIs
<1>2. \A i \in DOMAIN out : Coming(out)[i].body = out[i]
  BY <1>1, EntriesAre
<1>3. BodiesOf(Coming(out)) = [i \in DOMAIN out |-> out[i]]
  BY <1>1, <1>2 DEF BodiesOf
<1>4. out \in [1 .. Len(out) -> Bodies]
  BY SeqDef, LenProperties
<1>. QED
  BY <1>1, <1>3, <1>4

LEMMA HistoryIsTrue == HistoryInv => HistoryTrue
<1>0. SUFFICES ASSUME HistoryInv PROVE HistoryTrue
  OBVIOUS
<1>1. PICK p, g : Reaches(p, g) /\ PageTrue(g)
  BY <1>0 DEF HistoryInv
<1>2. queue \in Seq(Queueable) /\ out \in Seq(Bodies)
  BY <1>0 DEF HistoryInv, StoredInv, TypesInv, QueueTyped, OutTyped
<1>3. Path(queue, view, p) /\ Path(Coming(out), p, g)
  BY <1>1 DEF Reaches
<1>4. view \in Pages
  <2>1. CASE queue = <<>>
    BY <1>3, <2>1, NothingComes
  <2>2. CASE queue # <<>>
    BY <1>2, <1>3, <2>2, PathBegins
  <2>. QED
    BY <2>1, <2>2
<1>5. OneHistory
  BY <1>4 DEF OneHistory, Pages, Increasing
<1>6. TranscriptTrue
  <2>0. SUFFICES ASSUME view.done, ~ view.lossy, session # 0, view.of = session, binding = 0,
                      Notice \notin Range(queue),
                      \A e \in (Range(Queued) \ {Empty}) \cup Range(out) : e.what # "snapshot"
               PROVE  view.hist \o view.live \o AddedBy(Queued) \o AddedBy(out) = messages
    BY DEF TranscriptTrue
  <2>1. view.lossy = FALSE
    BY <1>4, <2>0 DEF Pages, Views
  <2>2. BodiesOf(queue) = Queued
    BY DEF BodiesOf, Queued
  <2>3. OnePage(queue)
    BY <2>0 DEF Range, Queued, OnePage
  <2>4. /\ p \in Pages /\ p.done /\ p.lossy = FALSE /\ p.of = view.of /\ p.hist = view.hist
        /\ AddedBy(Queued) \in Seq(Nat) /\ p.live = view.live \o AddedBy(Queued)
    <3>1. ShowsAdded(queue, view, p)
      BY <1>2, <1>3, <2>0, <2>1, <2>3, PageShowsAdded
    <3>. QED
      BY <2>2, <3>1 DEF ShowsAdded
  <2>5. Coming(out) \in Seq(Queueable) /\ OnePage(Coming(out))
    <3>1. /\ Coming(out) \in Seq(Queueable) /\ DOMAIN Coming(out) = DOMAIN out
          /\ \A i \in DOMAIN out : out[i] \in Bodies /\ Coming(out)[i] = Entry("full", out[i])
      BY <1>2, ComingIs
    <3>2. \A b \in Bodies : Entry("full", b).body = b /\ b # Empty
      BY EntriesAre
    <3>3. Notice.body = Empty
      BY DEF Notice, Entry
    <3>4. \A i \in DOMAIN out : out[i].what # "snapshot"
      BY <2>0 DEF Range
    <3>. QED
      BY <3>1, <3>2, <3>3, <3>4 DEF OnePage
  <2>6. /\ g.done /\ g.lossy = FALSE /\ g.of = p.of /\ g.hist = p.hist
        /\ AddedBy(out) \in Seq(Nat) /\ g.live = p.live \o AddedBy(out)
    <3>1. ShowsAdded(Coming(out), p, g)
      BY <1>3, <2>4, <2>5, PageShowsAdded
    <3>2. BodiesOf(Coming(out)) = out
      BY <1>2, BodiesComing
    <3>. QED
      BY <3>1, <3>2 DEF ShowsAdded
  <2>7. g.hist \o g.live = messages
    BY <1>1, <2>0, <2>4, <2>6 DEF PageTrue, HasMessages
  <2>8. PICK h \in Seq(Nat), l \in Seq(Nat), a \in Seq(Nat), b \in Seq(Nat) :
          h = view.hist /\ l = view.live /\ a = AddedBy(Queued) /\ b = AddedBy(out)
    BY <1>4, <2>4, <2>6 DEF Pages, Views
  <2>9. h \o ((l \o a) \o b) = messages
    BY <2>4, <2>6, <2>7, <2>8
  <2>10. ((h \o l) \o a) \o b = h \o ((l \o a) \o b)
    <3>1. \A s, t, u \in Seq(Nat) : (s \o t) \o u = s \o (t \o u)
      BY ConcatThree
    <3>2. (h \o l) \o a = h \o (l \o a)
      BY <3>1
    <3>3. l \o a \in Seq(Nat)
      BY ConcatProperties
    <3>4. (h \o (l \o a)) \o b = h \o ((l \o a) \o b)
      BY <3>1, <3>3
    <3>. QED
      BY <3>2, <3>4
  <2>. QED
    BY <2>8, <2>9, <2>10
<1>. QED
  BY <1>5, <1>6 DEF HistoryTrue

\* However many messages, sessions, snapshots and crashes there are, and whatever
\* a slow client loses: the entries it has are of one history, in order, and a
\* page that is complete, with what is on its way, is the chat of the session.
THEOREM HistoriesAreTrue == ConnectionSpec => []HistoryTrue
  BY HistoryStart, HistoryStep, HistoryIsTrue, PTL DEF ConnectionSpec
=============================================================================
