------------------------------ MODULE Filtering ------------------------------
(***************************************************************************)
(* Taking elements out of a queue.  SelectSeq is defined by recursion,     *)
(* about which nothing can be proved here; this counts instead: element k  *)
(* of what is left stands at the k-th place of those that are kept.        *)
(***************************************************************************)
EXTENDS Naturals, Sequences, FiniteSets

Items(s) == {s[i] : i \in DOMAIN s}
Unique(s) == \A i, j \in DOMAIN s : s[i] = s[j] => i = j

\* How many of the places lie at i or before, and the k-th of them.
Rank(places, i) == Cardinality({j \in places : j <= i})
Nth(places, k) == CHOOSE i \in places : Rank(places, i) = k

Kept(q, gone) == {i \in DOMAIN q : q[i] \notin gone}

\* q.filter: what is not gone, in its order
Without(q, gone) ==
    [k \in 1..Cardinality(Kept(q, gone)) |-> q[Nth(Kept(q, gone), k)]]
=============================================================================
