----------------------------- MODULE ListLemmas -----------------------------
(***************************************************************************)
(* Lemmas about numbers, removals from lists, and folds.  The provers do   *)
(* no induction over data; it is done here once, over sets of numbers, and *)
(* what the other modules need of orders, sums and folds rests on it.      *)
(***************************************************************************)
EXTENDS Integers, Sequences, FiniteSetsExt, Removal,
        SequenceTheorems, FiniteSetTheorems, TLAPS

-----------------------------------------------------------------------------
(* Induction, stated for sets of numbers.                                  *)

\* A set of numbers that is not empty has a least one.
LEMMA LeastNumber ==
  ASSUME NEW T \in SUBSET Nat, T # {}
  PROVE  \E m \in T : \A k \in T : m <= k
<1> DEFINE R == OpToRel(<, Nat)
<1>1. IsWellFoundedOn(R, Nat)
  BY NatLessThanWellFounded
<1>2. \A x, y \in Nat : <<y, x>> \in R <=> y < x
  BY DEF OpToRel
<1> HIDE DEF R
<1>3. PICK x \in T : \A y \in T : ~ (<<y, x>> \in R)
  BY <1>1, WFMin
<1>4. ASSUME NEW y \in T PROVE x <= y
  <2>1. x \in Nat /\ y \in Nat
    OBVIOUS
  <2>2. ~ (<<y, x>> \in R)
    BY <1>3
  <2>3. ~ (y < x)
    BY <1>2, <2>1, <2>2, Zenon
  <2>. QED
    BY <2>1, <2>3
<1>. QED
  BY <1>4

\* What holds of 0 and is handed on holds of every number.
LEMMA AllNumbers ==
  ASSUME NEW S \in SUBSET Nat, 0 \in S, \A n \in S : n + 1 \in S
  PROVE  S = Nat
<1> SUFFICES ASSUME Nat \ S # {} PROVE FALSE
  OBVIOUS
<1>1. PICK m \in Nat \ S : \A k \in Nat \ S : m <= k
  BY LeastNumber
<1>2. m # 0 /\ m - 1 \in Nat /\ m - 1 \in S
  BY <1>1
<1>. QED
  BY <1>1, <1>2

-----------------------------------------------------------------------------
(* Removal: the places that are left, in order.                            *)

Increasing(f) == \A i, j \in DOMAIN f : i < j => f[i] < f[j]

\* A set of places of a queue is finite, and can be counted.
LEMMA PlacesAreFinite ==
  ASSUME NEW n \in Nat, NEW S \in SUBSET (1 .. n)
  PROVE  IsFiniteSet(S) /\ Cardinality(S) \in Nat
<1>1. IsFiniteSet(1 .. n)
  BY FS_Interval
<1>2. IsFiniteSet(S)
  BY <1>1, FS_Subset
<1>. QED
  BY <1>2, FS_CardinalityType

\* The places of a queue are finite sets, with an order of their own.
LEMMA OrderExists ==
  \A n \in Nat : \A S \in SUBSET (1 .. n) :
    \E f \in [1 .. Cardinality(S) -> S] : Increasing(f)
<1> DEFINE Ordered(S) == \E f \in [1 .. Cardinality(S) -> S] : Increasing(f)
           G == {n \in Nat : \A S \in SUBSET (1 .. n) : Ordered(S)}
<1>1. 0 \in G
  <2> SUFFICES Ordered({})
    <3>1. \A S \in SUBSET (1 .. 0) : S = {}
      OBVIOUS
    <3> HIDE DEF Ordered
    <3>. QED
      BY <3>1
  <2>1. Cardinality({}) = 0
    BY FS_EmptySet
  <2>2. [i \in 1 .. 0 |-> i] \in [1 .. 0 -> {}] /\ Increasing([i \in 1 .. 0 |-> i])
    BY DEF Increasing
  <2>. QED
    BY <2>1, <2>2
<1>2. ASSUME NEW n \in G PROVE n + 1 \in G
  <2> SUFFICES ASSUME NEW S \in SUBSET (1 .. n + 1) PROVE Ordered(S)
    OBVIOUS
  <2>1. CASE S \subseteq 1 .. n
    BY <2>1
  <2>2. CASE n + 1 \in S
    <3> DEFINE T == S \ {n + 1}
    <3>1. T \in SUBSET (1 .. n)
      OBVIOUS
    <3>2. IsFiniteSet(T) /\ Cardinality(T) \in Nat
      BY <3>1, PlacesAreFinite
    <3>3. S = T \cup {n + 1} /\ n + 1 \notin T
      BY <2>2
    <3>4. Cardinality(S) = Cardinality(T) + 1
      BY <3>2, <3>3, FS_AddElement
    <3>5. PICK f \in [1 .. Cardinality(T) -> T] : Increasing(f)
      BY <3>1
    <3> DEFINE c == Cardinality(T)
               g == [i \in 1 .. c + 1 |-> IF i = c + 1 THEN n + 1 ELSE f[i]]
    <3>6. g \in [1 .. c + 1 -> S] /\ Increasing(g)
      <4>1. \A i \in 1 .. c : f[i] \in S /\ f[i] \in Nat /\ f[i] < n + 1
        <5>1. ASSUME NEW x \in T PROVE x \in S /\ x \in Nat /\ x < n + 1
          BY <3>1
        <5>2. \A i \in 1 .. c : f[i] \in T
          BY <3>5
        <5> HIDE DEF T, c
        <5>. QED
          BY <5>1, <5>2
      <4>2. \A i, j \in 1 .. c : i < j => f[i] < f[j]
        BY <3>5 DEF Increasing
      <4>3. c \in Nat
        BY <3>2
      <4> HIDE DEF c, T
      <4>4. g \in [1 .. c + 1 -> S]
        BY <4>1, <4>3, <2>2
      <4>5. ASSUME NEW i \in 1 .. c + 1, NEW j \in 1 .. c + 1, i < j
            PROVE  g[i] < g[j]
        <5>1. i \in 1 .. c /\ g[i] = f[i]
          BY <4>3, <4>5
        <5>2. CASE j = c + 1
          <6>1. g[j] = n + 1
            BY <5>2
          <6>2. f[i] < n + 1
            BY <4>1, <5>1
          <6>. QED
            BY <5>1, <6>1, <6>2
        <5>3. CASE j # c + 1
          <6>1. j \in 1 .. c /\ g[j] = f[j]
            BY <4>3, <5>3
          <6>2. f[i] < f[j]
            BY <4>2, <4>5, <5>1, <6>1
          <6>. QED
            BY <5>1, <6>1, <6>2
        <5>. QED
          BY <5>2, <5>3
      <4>. QED
        BY <4>4, <4>5 DEF Increasing
    <3>. QED
      BY <3>4, <3>6
  <2>3. S \subseteq 1 .. n \/ n + 1 \in S
    OBVIOUS
  <2>. QED
    BY <2>1, <2>2, <2>3
<1>3. G = Nat
  <2>1. G \in SUBSET Nat
    OBVIOUS
  <2> HIDE DEF G
  <2>. QED
    BY <1>1, <1>2, <2>1, AllNumbers
<1>. QED
  BY <1>3

\* Ascending lists a set of places, each once, the smallest first.
LEMMA AscendingProperties ==
  ASSUME NEW n \in Nat, NEW S \in SUBSET (1 .. n)
  PROVE  /\ IsFiniteSet(S)
         /\ Cardinality(S) \in Nat
         /\ Ascending(S) \in [1 .. Cardinality(S) -> S]
         /\ Increasing(Ascending(S))
         /\ \A x \in S : \E i \in 1 .. Cardinality(S) : Ascending(S)[i] = x
<1> DEFINE f == Ascending(S)
           c == Cardinality(S)
<1>1. IsFiniteSet(S) /\ c \in Nat
  BY PlacesAreFinite
<1>2. f \in [1 .. c -> S] /\ Increasing(f)
  BY OrderExists DEF Ascending, Increasing
<1> HIDE DEF f, c
<1>3. f \in Injection(1 .. c, S)
  <2>1. \A i, j \in 1 .. c : i < j => f[i] < f[j]
    BY <1>2 DEF Increasing
  <2>2. \A i \in 1 .. c : f[i] \in Int
    <3>1. \A i \in 1 .. c : f[i] \in S
      BY <1>2
    <3>2. \A x \in S : x \in Int
      OBVIOUS
    <3>. QED
      BY <3>1, <3>2
  <2>3. ASSUME NEW i \in 1 .. c, NEW j \in 1 .. c, f[i] = f[j] PROVE i = j
    BY <1>1, <2>1, <2>2, <2>3
  <2>. QED
    BY <1>2, <2>3 DEF Injection, IsInjective
<1>4. Cardinality(1 .. c) = c /\ IsFiniteSet(1 .. c)
  BY <1>1, FS_Interval
<1>5. f \in Surjection(1 .. c, S)
  BY <1>1, <1>3, <1>4, FS_Injection DEF c
<1>6. \A x \in S : \E i \in 1 .. c : f[i] = x
  BY <1>5 DEF Surjection
<1>. QED
  BY <1>1, <1>2, <1>6 DEF f, c

\* Listed in order, the places of a whole queue are themselves.
LEMMA AscendingOfAll ==
  ASSUME NEW n \in Nat
  PROVE  Ascending(1 .. n) = [i \in 1 .. n |-> i]
<1> DEFINE f == Ascending(1 .. n)
           Moved == {i \in 1 .. n : f[i] # i}
<1>1. Cardinality(1 .. n) = n
  BY FS_Interval
<1>2. /\ f \in [1 .. n -> 1 .. n] /\ Increasing(f)
      /\ \A x \in 1 .. n : \E i \in 1 .. n : f[i] = x
  BY <1>1, AscendingProperties
<1> HIDE DEF f
<1>3. \A i, j \in 1 .. n : i < j => f[i] < f[j]
  BY <1>2 DEF Increasing
<1>4. Moved = {}
  <2> SUFFICES ASSUME Moved # {} PROVE FALSE
    OBVIOUS
  <2>1. Moved \in SUBSET Nat
    OBVIOUS
  <2>2. PICK m \in Moved : \A k \in Moved : m <= k
    <3> HIDE DEF Moved
    <3>. QED
      BY <2>1, LeastNumber
  <2>3. m \in 1 .. n /\ f[m] # m /\ f[m] \in 1 .. n
    BY <1>2
  <2>4. \A j \in 1 .. n : j < m => f[j] = j
    BY <2>2, <2>3
  <2>5. PICK k \in 1 .. n : f[k] = m
    BY <1>2, <2>3
  <2>6. k > m
    BY <2>3, <2>4, <2>5
  <2>7. f[m] < m
    BY <1>3, <2>3, <2>5, <2>6
  <2>8. f[f[m]] = f[m] /\ f[f[m]] < f[m]
    BY <1>3, <2>3, <2>4, <2>7
  <2>. QED
    BY <2>3, <2>8
<1>5. \A i \in 1 .. n : f[i] = i
  BY <1>4
<1>. QED
  BY <1>2, <1>5 DEF f

\* What is left of a queue is of the queue, and is all that was not removed.
LEMMA ButProperties ==
  ASSUME NEW T, NEW q \in Seq(T), NEW S \in SUBSET DOMAIN q
  PROVE  /\ But(q, S) \in Seq(T)
         /\ Cardinality(S) \in Nat
         /\ Len(But(q, S)) = Len(q) - Cardinality(S)
         /\ \A i \in DOMAIN But(q, S) : \E j \in DOMAIN q \ S : But(q, S)[i] = q[j]
         /\ \A j \in DOMAIN q \ S : \E i \in DOMAIN But(q, S) : But(q, S)[i] = q[j]
<1> DEFINE L == DOMAIN q \ S
           c == Cardinality(L)
           f == Ascending(L)
           r == [i \in 1 .. c |-> q[f[i]]]
<1>1. Len(q) \in Nat /\ DOMAIN q = 1 .. Len(q)
  BY LenProperties
<1>2. \A j \in DOMAIN q : q[j] \in T
  BY <1>1, ElementOfSeq
<1>3. L \in SUBSET (1 .. Len(q)) /\ S \in SUBSET (1 .. Len(q))
  BY <1>1
<1> HIDE DEF L
<1>4. /\ c \in Nat /\ f \in [1 .. c -> L]
      /\ \A x \in L : \E i \in 1 .. c : f[i] = x
  BY <1>1, <1>3, AscendingProperties
<1>5. But(q, S) = r
  BY <1>4 DEF But, L
<1>6. IsFiniteSet(S) /\ Cardinality(S) \in Nat
  BY <1>1, <1>3, PlacesAreFinite
<1>7. c = Len(q) - Cardinality(S)
  <2>1. IsFiniteSet(1 .. Len(q)) /\ Cardinality(1 .. Len(q)) = Len(q)
    <3>1. \A n \in Nat : IsFiniteSet(1 .. n) /\ Cardinality(1 .. n) = n
      BY FS_Interval
    <3>. QED
      BY <1>1, <3>1
  <2>2. (1 .. Len(q)) \cap S = S
    BY <1>3
  <2>3. Cardinality((1 .. Len(q)) \ S) = Cardinality(1 .. Len(q)) - Cardinality((1 .. Len(q)) \cap S)
    BY <2>1, FS_Difference
  <2>. QED
    BY <1>1, <2>1, <2>2, <2>3 DEF L
<1> HIDE DEF c, f
<1>8. L \subseteq DOMAIN q
  BY DEF L
<1>9. r \in [1 .. c -> T]
  BY <1>2, <1>4, <1>8
<1>10. r \in Seq(T) /\ Len(r) = c
  BY <1>4, <1>9, SeqDef
<1>11. DOMAIN r = 1 .. c
  OBVIOUS
<1>12. \A i \in 1 .. c : f[i] \in L /\ r[i] = q[f[i]]
  BY <1>4
<1>13. ASSUME NEW j \in L PROVE \E i \in 1 .. c : r[i] = q[j]
  BY <1>4
<1> HIDE DEF r
<1>. QED
  BY <1>5, <1>6, <1>7, <1>10, <1>11, <1>12, <1>13 DEF L

\* Nothing removed, nothing changed.
LEMMA ButNothing ==
  ASSUME NEW T, NEW q \in Seq(T)
  PROVE  But(q, {}) = q
<1>1. Len(q) \in Nat /\ DOMAIN q = 1 .. Len(q)
  BY LenProperties
<1>2. Ascending(DOMAIN q \ {}) = [i \in 1 .. Len(q) |-> i]
  <2>1. DOMAIN q \ {} = 1 .. Len(q)
    BY <1>1
  <2>. QED
    BY <1>1, <2>1, AscendingOfAll
<1>3. But(q, {}) = [i \in 1 .. Len(q) |-> q[i]]
  BY <1>2 DEF But
<1>4. q = [i \in 1 .. Len(q) |-> q[i]]
  <2>1. q \in [1 .. Len(q) -> T]
    BY SeqDef
  <2>. QED
    BY <2>1
<1>. QED
  BY <1>3, <1>4

\* What is left comes from different places, from all of them, in the order of
\* before.
LEMMA ButPlaces ==
  ASSUME NEW T, NEW q \in Seq(T), NEW S \in SUBSET DOMAIN q
  PROVE  \E f \in [DOMAIN But(q, S) -> DOMAIN q \ S] :
           /\ Increasing(f)
           /\ \A i \in DOMAIN But(q, S) : But(q, S)[i] = q[f[i]]
           /\ \A j \in DOMAIN q \ S : \E i \in DOMAIN But(q, S) : f[i] = j
<1> DEFINE L == DOMAIN q \ S
           f == Ascending(L)
<1>1. Len(q) \in Nat /\ L \in SUBSET (1 .. Len(q))
  BY LenProperties
<1>2. /\ f \in [1 .. Cardinality(L) -> L] /\ Increasing(f)
      /\ \A x \in L : \E i \in 1 .. Cardinality(L) : f[i] = x
  BY <1>1, AscendingProperties
<1>3. But(q, S) = [i \in 1 .. Cardinality(L) |-> q[f[i]]]
  BY <1>2 DEF But
<1> HIDE DEF f, L
<1>4. DOMAIN But(q, S) = 1 .. Cardinality(L) /\ \A i \in 1 .. Cardinality(L) : But(q, S)[i] = q[f[i]]
  BY <1>3
<1>5. /\ f \in [DOMAIN But(q, S) -> L] /\ Increasing(f)
      /\ \A i \in DOMAIN But(q, S) : But(q, S)[i] = q[f[i]]
      /\ \A j \in L : \E i \in DOMAIN But(q, S) : f[i] = j
  BY <1>2, <1>4
<1>. QED
  BY <1>5 DEF L

-----------------------------------------------------------------------------
(* Folds.  FoldLeft is defined by a function on the sets of places of a    *)
(* sequence, which takes the last place of a set first.                    *)

\* The last of the places up to n + 1, when n + 1 is among them.
LEMMA LastPlace ==
  ASSUME NEW n \in Nat, NEW S \in SUBSET (1 .. n + 1), n + 1 \in S
  PROVE  Max(S) = n + 1 /\ S # {} /\ S \ {n + 1} \in SUBSET (1 .. n)
<1>1. \A y \in S : n + 1 >= y
  OBVIOUS
<1>2. \A x \in S : (\A y \in S : x >= y) => x = n + 1
  OBVIOUS
<1>3. Max(S) = n + 1
  BY <1>1, <1>2 DEF Max
<1>. QED
  BY <1>3

\* h folds F, from b on, over any of n places.
IsFold(h, F, b, n) ==
  h = [S \in SUBSET (1 .. n) |-> IF S = {} THEN b ELSE F[Max(S), h[S \ {Max(S)}]]]

\* The fold exists: there is such a function, whatever F does.
LEMMA FoldExists ==
  ASSUME NEW n \in Nat, NEW b, NEW F
  PROVE  \E h : IsFold(h, F, b, n)
<1> DEFINE G == {k \in Nat : \E h : IsFold(h, F, b, k)}
<1>1. 0 \in G
  <2>1. IsFold([S \in SUBSET (1 .. 0) |-> b], F, b, 0)
    <3>1. \A S \in SUBSET (1 .. 0) : S = {}
      OBVIOUS
    <3>. QED
      BY <3>1 DEF IsFold
  <2>. QED
    BY <2>1
<1>2. ASSUME NEW k \in Nat, k \in G PROVE k + 1 \in G
  <2>1. PICK h : IsFold(h, F, b, k)
    BY <1>2
  <2> DEFINE g == [S \in SUBSET (1 .. k + 1) |->
                     IF S \in SUBSET (1 .. k) THEN h[S] ELSE F[k + 1, h[S \ {k + 1}]]]
  <2>2. ASSUME NEW S \in SUBSET (1 .. k + 1)
        PROVE  g[S] = IF S = {} THEN b ELSE F[Max(S), g[S \ {Max(S)}]]
    <3>1. CASE S = {}
      BY <2>1, <3>1 DEF IsFold
    <3>2. CASE S # {} /\ S \in SUBSET (1 .. k)
      <4>1. S \ {Max(S)} \in SUBSET (1 .. k) /\ S \ {Max(S)} \in SUBSET (1 .. k + 1)
        BY <3>2
      <4>2. h[S] = F[Max(S), h[S \ {Max(S)}]]
        BY <2>1, <3>2 DEF IsFold
      <4>. QED
        BY <3>2, <4>1, <4>2
    <3>3. CASE S \notin SUBSET (1 .. k)
      <4>1. k \in Nat /\ k + 1 \in S
        <5>1. PICK x \in S : x \notin 1 .. k
          BY <3>3
        <5>2. x \in 1 .. k + 1
          OBVIOUS
        <5>3. x = k + 1
          BY <5>1, <5>2
        <5>. QED
          BY <5>1, <5>3
      <4>2. Max(S) = k + 1 /\ S # {} /\ S \ {k + 1} \in SUBSET (1 .. k)
        BY <4>1, LastPlace
      <4>3. S \ {k + 1} \in SUBSET (1 .. k + 1)
        OBVIOUS
      <4>. QED
        BY <3>3, <4>2, <4>3
    <3>. QED
      BY <3>1, <3>2, <3>3
  <2>3. IsFold(g, F, b, k + 1)
    BY <2>2 DEF IsFold
  <2> HIDE DEF g
  <2>. QED
    BY <2>3
<1> HIDE DEF G
<1>3. G = Nat
  <2>1. G \in SUBSET Nat
    BY DEF G
  <2>2. \A k \in G : k + 1 \in G
    BY <1>2, <2>1
  <2>. QED
    BY <1>1, <2>1, <2>2, AllNumbers
<1>4. n \in G
  BY <1>3
<1>. QED
  BY <1>4 DEF G

\* What each step of a fold keeps, the fold keeps.
LEMMA FoldKeeps ==
  ASSUME NEW n \in Nat, NEW V, NEW h, h[{}] \in V,
         \A S \in SUBSET (1 .. n) : S # {} /\ h[S \ {Max(S)}] \in V => h[S] \in V
  PROVE  \A S \in SUBSET (1 .. n) : h[S] \in V
<1> DEFINE Kept(k) == \A S \in SUBSET (1 .. k) : S \in SUBSET (1 .. n) => h[S] \in V
           G == {k \in Nat : Kept(k)}
<1>1. 0 \in G
  <2>1. \A S \in SUBSET (1 .. 0) : S = {}
    OBVIOUS
  <2>. QED
    BY <2>1
<1>2. ASSUME NEW k \in Nat, k \in G PROVE k + 1 \in G
  <2>0. \A S \in SUBSET (1 .. k) : S \in SUBSET (1 .. n) => h[S] \in V
    BY <1>2
  <2> SUFFICES Kept(k + 1)
    <3> HIDE DEF Kept
    <3>. QED
      OBVIOUS
  <2> SUFFICES ASSUME NEW S \in SUBSET (1 .. k + 1), S \in SUBSET (1 .. n) PROVE h[S] \in V
    OBVIOUS
  <2>1. CASE S \in SUBSET (1 .. k)
    BY <2>0, <2>1
  <2>2. CASE S \notin SUBSET (1 .. k)
    <3>1. k \in Nat /\ k + 1 \in S
      <4>1. PICK x \in S : x \notin 1 .. k
        BY <2>2
      <4>2. x \in 1 .. k + 1
        OBVIOUS
      <4>3. x = k + 1
        BY <4>1, <4>2
      <4>. QED
        BY <4>1, <4>3
    <3>2. Max(S) = k + 1 /\ S # {} /\ S \ {k + 1} \in SUBSET (1 .. k)
      BY <3>1, LastPlace
    <3>3. h[S \ {k + 1}] \in V
      <4>1. S \ {k + 1} \in SUBSET (1 .. n)
        OBVIOUS
      <4>. QED
        BY <2>0, <3>2, <4>1
    <3>. QED
      BY <3>2, <3>3
  <2>. QED
    BY <2>1, <2>2
<1> HIDE DEF G
<1>3. G = Nat
  <2>1. G \in SUBSET Nat
    BY DEF G
  <2>2. \A k \in G : k + 1 \in G
    BY <1>2, <2>1
  <2>. QED
    BY <1>1, <2>1, <2>2, AllNumbers
<1>4. n \in G
  BY <1>3
<1>. QED
  BY <1>4 DEF G

\* The last of some places is one of them.
LEMMA LastIsPlace ==
  ASSUME NEW n \in Nat, NEW S \in SUBSET (1 .. n), S # {}
  PROVE  Max(S) \in S /\ Max(S) \in 1 .. n /\ S \ {Max(S)} \in SUBSET (1 .. n)
<1> DEFINE Has(k) == \A T \in SUBSET (1 .. k) : T # {} => Max(T) \in T
           G == {k \in Nat : Has(k)}
<1>1. 0 \in G
  <2>1. \A T \in SUBSET (1 .. 0) : T = {}
    OBVIOUS
  <2>. QED
    BY <2>1
<1>2. ASSUME NEW k \in Nat, k \in G PROVE k + 1 \in G
  <2>0. Has(k)
    BY <1>2
  <2> SUFFICES Has(k + 1)
    <3> HIDE DEF Has
    <3>. QED
      OBVIOUS
  <2> SUFFICES ASSUME NEW T \in SUBSET (1 .. k + 1), T # {} PROVE Max(T) \in T
    OBVIOUS
  <2>1. CASE T \in SUBSET (1 .. k)
    BY <2>0, <2>1
  <2>2. CASE k + 1 \in T
    BY <2>2, LastPlace
  <2>3. T \in SUBSET (1 .. k) \/ k + 1 \in T
    OBVIOUS
  <2>. QED
    BY <2>1, <2>2, <2>3
<1> HIDE DEF G
<1>3. G = Nat
  <2>1. G \in SUBSET Nat
    BY DEF G
  <2>2. \A k \in G : k + 1 \in G
    BY <1>2, <2>1
  <2>. QED
    BY <1>1, <2>1, <2>2, AllNumbers
<1>4. n \in G
  BY <1>3
<1>5. Max(S) \in S
  BY <1>4 DEF G
<1>. QED
  BY <1>5

\* The fold of a function that stays within V stays within V.
LEMMA FoldTyped ==
  ASSUME NEW n \in Nat, NEW V, NEW b \in V, NEW F \in [(1 .. n) \X V -> V]
  PROVE  \E h : IsFold(h, F, b, n) /\ \A S \in SUBSET (1 .. n) : h[S] \in V
<1>1. PICK h : IsFold(h, F, b, n)
  BY FoldExists
<1>2. h[{}] \in V
  <2>1. {} \in SUBSET (1 .. n)
    OBVIOUS
  <2>. QED
    BY <1>1, <2>1 DEF IsFold
<1>3. ASSUME NEW S \in SUBSET (1 .. n), S # {} /\ h[S \ {Max(S)}] \in V PROVE h[S] \in V
  <2>1. Max(S) \in 1 .. n
    BY <1>3, LastIsPlace
  <2>2. h[S] = F[Max(S), h[S \ {Max(S)}]]
    BY <1>1, <1>3 DEF IsFold
  <2>3. <<Max(S), h[S \ {Max(S)}]>> \in (1 .. n) \X V
    BY <1>3, <2>1
  <2>. QED
    BY <2>2, <2>3
<1>4. \A S \in SUBSET (1 .. n) : h[S] \in V
  BY <1>2, <1>3, FoldKeeps
<1>. QED
  BY <1>1, <1>4

\* The first places of a list, and the last of them.
LEMMA FirstPlaces ==
  ASSUME NEW n \in Nat, NEW k \in 1 .. n
  PROVE  /\ 1 .. k \in SUBSET (1 .. n) /\ 1 .. k # {}
         /\ Max(1 .. k) = k /\ (1 .. k) \ {k} = 1 .. k - 1
<1>1. PICK m \in Nat : k = m + 1
  <2>1. k - 1 \in Nat /\ k = (k - 1) + 1
    OBVIOUS
  <2>. QED
    BY <2>1
<1>2. Max(1 .. m + 1) = m + 1
  BY <1>1, LastPlace
<1>3. (1 .. m + 1) \ {m + 1} = 1 .. m
  BY <1>1
<1>4. k - 1 = m /\ 1 .. k \in SUBSET (1 .. n) /\ 1 .. k # {}
  BY <1>1
<1>. QED
  BY <1>1, <1>2, <1>3, <1>4

\* What holds of 0 and is handed on up to n holds up to n.
LEMMA NumbersUpTo ==
  ASSUME NEW n \in Nat, NEW S, 0 \in S, \A k \in 1 .. n : k - 1 \in S => k \in S
  PROVE  \A k \in 0 .. n : k \in S
<1> DEFINE G == {k \in Nat : k <= n => k \in S}
<1>1. 0 \in G
  OBVIOUS
<1>2. ASSUME NEW k \in G PROVE k + 1 \in G
  <2>1. k \in Nat /\ (k <= n => k \in S)
    OBVIOUS
  <2>2. ASSUME k + 1 <= n PROVE k + 1 \in S
    <3>1. k + 1 \in 1 .. n /\ (k + 1) - 1 = k /\ k <= n
      BY <2>1, <2>2
    <3>. QED
      BY <2>1, <3>1
  <2>. QED
    BY <2>1, <2>2
<1>3. G \in SUBSET Nat
  OBVIOUS
<1> HIDE DEF G
<1>4. G = Nat
  BY <1>1, <1>2, <1>3, AllNumbers
<1>. QED
  BY <1>4 DEF G
=============================================================================
