----------------------------- MODULE Compactor -----------------------------
(***************************************************************************)
(* The pure part of src/agents/compactor.py: which histories are well      *)
(* formed and what compaction may make of one.  A message is a record of   *)
(* its role and the ids of the tool calls it opens ("calls") or answers    *)
(* ("tool"); texts, sizes and images are abstracted, so a reduction that   *)
(* the code makes when the history is over its budget is one of the        *)
(* outcomes here.  Messages are numbered from 1, a cut c (an index of the  *)
(* code) lies after message c.                                             *)
(***************************************************************************)
EXTENDS Naturals, FiniteSets, Sequences

Plain(role) == [role |-> role, ids |-> {}]
Calls(n) == [role |-> "calls", ids |-> 1..n]

\* Mutant of Result: a result is paired with the call before its own.
ResultShifted(i) == [role |-> "tool", ids |-> {i - 1}]

Result(i) == [role |-> "tool", ids |-> {i}]
Results(n) == [i \in 1..n |-> Result(i)]

Has(m, i, role) == i \in DOMAIN m /\ m[i].role = role

(* validate_history: an assistant message with tool calls is followed at   *)
(* once by one result per call, and every result belongs to such a group.  *)
Closed(m, i) ==
  \E n \in {Cardinality(m[i].ids)} :
    /\ i + n <= Len(m)
    /\ \A j \in i + 1 .. i + n : m[j].role = "tool"
    /\ UNION {m[j].ids : j \in i + 1 .. i + n} = m[i].ids
Owned(m, i) ==
  \E j \in 1..i - 1 : Has(m, j, "calls") /\ i <= j + Cardinality(m[j].ids)
Valid(m) ==
  \A i \in DOMAIN m : /\ Has(m, i, "calls") => Closed(m, i)
                      /\ Has(m, i, "tool") => Owned(m, i)

Largest(S) == CHOOSE x \in S : \A y \in S : y <= x
Smallest(S) == CHOOSE x \in S : \A y \in S : x <= y

(* A cut after message c separates a group: after the message that opens   *)
(* it, or between two of its results.                                      *)
Splits(m, c) == Has(m, c, "calls") \/ (Has(m, c, "tool") /\ Has(m, c + 1, "tool"))
GroupBoundary(m, c) ==
  IF c <= 1 \/ c >= Len(m) THEN c
  ELSE Smallest({k \in c..Len(m) : k = Len(m) \/ ~Splits(m, k)})

(* The number of messages before the last exchange. *)
LastExchange(m) ==
  LET users == {i \in DOMAIN m : m[i].role = "user"}
  IN IF users # {} THEN Largest(users) - 1 ELSE Largest({1, Len(m) - 1})

\* Mutant of SummaryCut: the cut may fall between a call and its result.
SummaryCutRaw(m) == Largest({2, LastExchange(m) - 2})

(* _summarize: all but the system prompt and the tail becomes one message. *)
SummaryCut(m) == GroupBoundary(m, Largest({2, LastExchange(m) - 2}))
Summarized(m) ==
  IF Len(m) < 4 THEN m
  ELSE <<m[1], Plain("summary")>> \o SubSeq(m, SummaryCut(m) + 1, Len(m))

(* _atomic_groups between the system prompt and the last exchange: the     *)
(* cuts that bound them, and what is left when a set of groups is dropped. *)
Cuts(m) ==
  {1, LastExchange(m)} \cup {c \in 2..LastExchange(m) - 1 : ~Splits(m, c)}
Groups(m) ==
  [i \in DOMAIN m |->
     IF i = 1 \/ i > LastExchange(m) THEN 0 ELSE Largest({c \in Cuts(m) : c < i})]
Kept(m, kept) ==
  LET place == [i \in kept |-> Cardinality({j \in kept : j <= i})]
  IN  [k \in 1 .. Cardinality(kept) |-> m[CHOOSE i \in kept : place[i] = k]]
Without(m, group, dropped) == Kept(m, {i \in DOMAIN m : group[i] \notin dropped})

(* _drop_oldest drops a first few of the groups, _apply_eviction_order     *)
(* those of the least relevance: any of them.  Neither drops a group whose *)
(* absence would break the pairing.                                        *)
Evicted(m) ==
  IF Len(m) < 2 \/ LastExchange(m) <= 1 THEN {m}
  ELSE LET group == Groups(m)
       IN {m} \cup {k \in {Without(m, group, S) :
                             S \in SUBSET (Cuts(m) \ {LastExchange(m)})} : Valid(k)}

(* compact: trimming tool results keeps every message, the summary may be  *)
(* made or fail, and groups are dropped if that was not enough.            *)
Compactions(m) == Evicted(m) \cup Evicted(Summarized(m))
=============================================================================
