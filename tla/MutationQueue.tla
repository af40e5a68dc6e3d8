---------------------------- MODULE MutationQueue ----------------------------
(***************************************************************************)
(* What the offline queue of a device promises to the person who uses it:  *)
(* what was enqueued waits in the order of its arrival, and leaves only    *)
(* when the server has settled it (processed it, or refused it for good)   *)
(* or when it is taken back: the person deletes the entry or discards the  *)
(* message, signs out, or another account takes the storage over.          *)
(* OfflineSync is shown to implement this.                                 *)
(***************************************************************************)
EXTENDS Naturals, Sequences, Filtering

CONSTANT Mutations      \* everything that can be enqueued, once each

VARIABLES
    waiting,    \* the queue
    accepted,   \* what has been enqueued so far
    settled,    \* what the server has processed or refused for good
    retracted   \* what was taken back

queueVars == <<waiting, accepted, settled, retracted>>

Init ==
    /\ waiting = <<>>
    /\ accepted = {}
    /\ settled = {}
    /\ retracted = {}

\* New work goes to the end, in the order in which it was handed over; nothing is
\* enqueued twice.  The first of it may be settled at that moment: a message whose
\* direct sending arrived, but not the answer.
Accept ==
    LET new == SubSeq(waiting', Len(waiting) + 1, Len(waiting'))
    IN  /\ waiting' = waiting \o new /\ new # <<>>
        /\ Unique(new) /\ Items(new) \subseteq Mutations \ accepted
        /\ accepted' = accepted \cup Items(new)
        /\ settled' \in {settled, settled \cup {Head(new)}}
        /\ UNCHANGED retracted

Settle(m) ==
    /\ settled' = settled \cup {m}
    /\ UNCHANGED <<waiting, accepted, retracted>>

\* A mutation leaves once it is settled, and not before those ahead of it.
Leave ==
    /\ waiting # <<>>
    /\ settled' \in {settled, settled \cup {Head(waiting)}}
    /\ Head(waiting) \in settled'
    /\ waiting' = Tail(waiting)
    /\ UNCHANGED <<accepted, retracted>>

\* What is taken back leaves from anywhere; the rest keeps its order.
Retract(gone) ==
    /\ retracted' = retracted \cup gone
    /\ waiting' = Without(waiting, gone)
    /\ UNCHANGED <<accepted, settled>>

Next ==
    \/ Accept
    \/ \E m \in Mutations : Settle(m)
    \/ Leave
    \/ \E gone \in SUBSET Mutations : Retract(gone)

Spec == Init /\ [][Next]_queueVars
=============================================================================
