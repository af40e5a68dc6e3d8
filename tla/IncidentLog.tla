----------------------------- MODULE IncidentLog -----------------------------
(***************************************************************************)
(* What the panel's record of the incidents of one server promises to the  *)
(* person who reads it: an incident that happened is recorded once and for *)
(* good, after every one before it, in an entry of its own or in that of   *)
(* an earlier incident of its kind; an entry counts the incidents recorded *)
(* in it, and its history loses no attempt.  GuardianDelivery is shown to  *)
(* implement this.                                                         *)
(***************************************************************************)
EXTENDS Naturals, FiniteSets

CONSTANTS
    Incidents,      \* numbered in the order in which they happen
    Types,
    Nowhere

VARIABLES
    kind,       \* the type of each incident that happened
    entry,      \* the incident in whose entry each one is recorded
    count,      \* what the entry of each incident counts
    history     \* the attempts the entry of each incident shows

logVars == <<kind, entry, count, history>>

Happened == {i \in Incidents : kind[i] # "none"}
Unrecorded == {i \in Incidents : entry[i] = Nowhere}

Init ==
    /\ kind = [i \in Incidents |-> "none"]
    /\ entry = [i \in Incidents |-> Nowhere]
    /\ count = [i \in Incidents |-> 0]
    /\ history = [i \in Incidents |-> {}]

Happens(i, t) ==
    /\ i \in Unrecorded \ Happened
    /\ \A j \in Incidents : j < i => j \in Happened
    /\ kind' = [kind EXCEPT ![i] = t]
    /\ UNCHANGED <<entry, count, history>>

\* One transaction: some of what happened is recorded, or recorded incidents are told of
\* again, which adds to their histories alone.
Record ==
    LET new == {i \in Unrecorded : entry'[i] # Nowhere}
    IN  /\ new \subseteq Happened
        /\ \A i \in new : \A j \in Incidents : j < i => entry'[j] # Nowhere
        /\ \A i \in new : /\ entry'[i] \in Happened /\ entry'[i] <= i
                          /\ kind[entry'[i]] = kind[i]
                          /\ entry'[entry'[i]] = entry'[i]
        /\ \A i \in Incidents \ Unrecorded : entry'[i] = entry[i]
        /\ count' = [r \in Incidents |-> count[r] + Cardinality({i \in new : entry'[i] = r})]
        /\ \A r \in Incidents : history[r] \subseteq history'[r]
        /\ UNCHANGED kind

Next == Record \/ \E i \in Incidents, t \in Types : Happens(i, t)

Spec == Init /\ [][Next]_logVars
=============================================================================
