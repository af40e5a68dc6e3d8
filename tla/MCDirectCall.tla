---------------------------- MODULE MCDirectCall ----------------------------
(***************************************************************************)
(* Instances of DirectCall for TLC: two people, one of whom calls.         *)
(***************************************************************************)
EXTENDS DirectCall

CONSTANTS caller, callee

TwoUsers == {caller, callee}
OneCaller == {caller}

\* A client connects again while it still does, or has done so.
Again(u) ==
    \/ u \in displaced \/ generation[u] > 1 \/ verbindung[u] > 1
    \/ \E f \in frames[u] : f.generation > 1
    \/ \E l \in lines[u] : l.id > 1

\* Bound: from then on nothing is lost, each client has one event under way and the panel
\* one request.
Bounded ==
    (\E u \in Users : Again(u)) =>
        faults = 0 /\ Cardinality(requests) <= 1 /\ \A u \in Users : Len(events[u]) <= 1
=============================================================================
