------------------------------- MODULE Removal -------------------------------
(***************************************************************************)
(* Items are deleted from the middle of a queue (del items[index]), several *)
(* at a time; what is left keeps its order.                                 *)
(***************************************************************************)
EXTENDS Naturals, FiniteSets, Sequences

\* The numbers of a finite set, the smallest first.
Ascending(S) ==
  CHOOSE f \in [1 .. Cardinality(S) -> S] : \A i, j \in DOMAIN f : i < j => f[i] < f[j]

\* q without what is at the places S
But(q, S) ==
  LET kept == Ascending(DOMAIN q \ S)
  IN  [i \in DOMAIN kept |-> q[kept[i]]]
=============================================================================
