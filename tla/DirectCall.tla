----------------------------- MODULE DirectCall -----------------------------
(***************************************************************************)
(* A call between two people: the call store of each of their clients      *)
(* (frontend/src/stores/useCallStore.ts), the invitation at the panel      *)
(* (backend/services/call_room_service.py, routers/social_calls.py) and    *)
(* the LiveKit room.                                                       *)
(*                                                                         *)
(* A step of a client is what its store does between two awaits.  An async *)
(* function that waits is a frame; what it waits for is done by a step of  *)
(* the panel or of LiveKit, and its going on is a step of the client.      *)
(* Left out: group calls, hand-over between devices, the room key, media.  *)
(***************************************************************************)
EXTENDS Naturals, Sequences, FiniteSets, SequencesExt

CONSTANTS
    Users,          \* the two people, one client each
    NoRoom,
    Callers,        \* who may start a call
    MaxRooms,       \* bound: invitations
    MaxAttempts,    \* bound: attempts to connect that one client has open at once
    MaxFaults       \* bound: lost requests, answers and events, dropped lines

Rooms == 1..MaxRooms
Attempts == 1..MaxAttempts

ASSUME CallAssumption ==
    /\ Cardinality(Users) = 2 /\ Callers \subseteq Users
    /\ \A n \in {MaxRooms, MaxAttempts, MaxFaults} : n \in Nat
    /\ NoRoom \notin Nat

VARIABLES
    phase,          \* store: state
    raum,           \* store: the room of the call
    angenommen,     \* store: partnerAngenommen
    timer,          \* store: the running timer of 60 s, incoming or outgoing
    generation,     \* store: the attempt to connect it still stands at, 0 once it moved on
    verbindung,     \* store: the connection it knows of, by its attempt
    frames,         \* the async functions of each client that have not ended
    lines,          \* LiveKit: the connections each client really has open
    poll,           \* the answer to checkActiveCall that a client has not read yet
    invitation,     \* panel: state and creator of each room
    registered,     \* panel: UserActiveCallRegistry, the room of each user
    events,         \* events on their way to each client, in order
    requests,       \* requests nobody waits for: cancel, reject, leave
    dialled,        \* observer: rooms whose invitation came back to the caller
    displaced,      \* observer: who had a call or its connection displaced by another one
    untimed,        \* observer: who was left to wait without the timer of its own call
    faults

store == <<phase, raum, angenommen, timer, generation, verbindung>>
panel == <<invitation, registered>>
observers == <<dialled, displaced, untimed>>
vars == <<store, frames, lines, poll, panel, events, requests, observers, faults>>

NoInvitation == [at |-> "none", creator |-> CHOOSE u \in Users : TRUE]
NoPoll == [at |-> "idle", pending |-> NoRoom]
Other(u) == CHOOSE v \in Users : v # u

Init ==
    /\ phase = [u \in Users |-> "idle"] /\ raum = [u \in Users |-> NoRoom]
    /\ angenommen = [u \in Users |-> FALSE] /\ timer = [u \in Users |-> "none"]
    /\ generation = [u \in Users |-> 0] /\ verbindung = [u \in Users |-> 0]
    /\ frames = [u \in Users |-> {}] /\ lines = [u \in Users |-> {}]
    /\ poll = [u \in Users |-> NoPoll]
    /\ invitation = [r \in Rooms |-> NoInvitation]
    /\ registered = [u \in Users |-> NoRoom]
    /\ events = [u \in Users |-> <<>>] /\ requests = {}
    /\ dialled = {} /\ displaced = {} /\ untimed = {} /\ faults = 0

-----------------------------------------------------------------------------
(* The panel and LiveKit.                                                  *)

gueltig(r) == invitation[r].at \in {"ringing", "accepted"}
Present(r) == {u \in Users : \E l \in lines[u] : l.raum = r}

\* get_pending_invitation
Pending(u) ==
    LET open == {r \in Rooms : invitation[r].at = "ringing" /\ invitation[r].creator # u}
    IN  IF open = {} THEN NoRoom ELSE CHOOSE r \in open : TRUE

Told(u, type, r) == [events EXCEPT ![u] = Append(@, [type |-> type, raum |-> r])]

Forgotten(r) == [u \in Users |-> IF registered[u] = r THEN NoRoom ELSE registered[u]]

\* mutant: a state the registry does not know
CancelledByName(u, r) ==
    /\ invitation' = [invitation EXCEPT ![r].at = "cancelled"]
    /\ events' = Told(Other(u), "cancelled", r)

\* CallRoomService._beenden, and what cancel and leave tell the other side
Cancelled(u, r) ==
    /\ invitation' = [invitation EXCEPT ![r].at = "consumed"]
    /\ events' = Told(Other(u), "cancelled", r)

\* einladung_abbrechen: once accepted, nothing is cancelled and nobody told.
Cancel(u, r) ==
    IF invitation[r].at = "ringing" /\ invitation[r].creator = u
    THEN Cancelled(u, r) /\ registered' = Forgotten(r)
    ELSE UNCHANGED <<panel, events>>

\* einladung_ablehnen
Reject(u, r) ==
    IF gueltig(r) /\ invitation[r].creator # u
    THEN /\ invitation' = [invitation EXCEPT ![r].at = "consumed"]
         /\ registered' = Forgotten(r)
         /\ events' = Told(Other(u), "rejected", r)
    ELSE UNCHANGED <<panel, events>>

\* anruf_verlassen
Leave(u, r) ==
    IF invitation[r].at = "ringing" /\ invitation[r].creator = u
    THEN Cancelled(u, r) /\ registered' = Forgotten(r)
    ELSE /\ registered' = [registered EXCEPT ![u] = IF @ = r THEN NoRoom ELSE @]
         /\ UNCHANGED <<invitation, events>>

RequestArrives(q) ==
    /\ q \in requests /\ requests' = requests \ {q}
    /\ \/ q.op = "cancel" /\ Cancel(q.user, q.raum)
       \/ q.op = "reject" /\ Reject(q.user, q.raum)
       \/ q.op = "leave" /\ Leave(q.user, q.raum)
    /\ UNCHANGED <<store, frames, lines, poll, observers, faults>>

Requests == [op: {"cancel", "reject", "leave"}, user: Users, raum: Rooms]

Fault == faults < MaxFaults /\ faults' = faults + 1

RequestLost(q) ==
    /\ q \in requests /\ requests' = requests \ {q} /\ Fault
    /\ UNCHANGED <<store, frames, lines, poll, panel, events, observers>>

\* 60 s without an answer, extended by the token of the caller.
InvitationExpires(r) ==
    /\ invitation[r].at = "ringing"
    /\ invitation' = [invitation EXCEPT ![r].at = "expired"]
    /\ UNCHANGED <<store, frames, lines, poll, registered, events, requests, observers, faults>>

Stepped(u, f, at) == [frames EXCEPT ![u] = (@ \ {f}) \cup {[f EXCEPT !.at = at]}]

\* einladung_erstellen
InviteServed(u, f) ==
    LET r == CHOOSE n \in Rooms : invitation[n].at = "none"
    IN  /\ f \in frames[u] /\ f.at = "invite"
        /\ \E n \in Rooms : invitation[n].at = "none"
        /\ invitation' = [invitation EXCEPT ![r] = [at |-> "ringing", creator |-> u]]
        /\ events' = Told(Other(u), "invitation", r)
        /\ \/ /\ frames' = [frames EXCEPT ![u] = (@ \ {f}) \cup
                                {[f EXCEPT !.at = "invited", !.raum = r]}]
              /\ dialled' = dialled \cup {r} /\ UNCHANGED faults
           \/ /\ frames' = [frames EXCEPT ![u] = @ \ {f}]      \* the answer is lost
              /\ Fault /\ UNCHANGED dialled
        /\ UNCHANGED <<store, lines, poll, registered, requests, displaced, untimed>>

\* The call before, which the panel still knows of, is ended for both sides.
Superseded(u, r) ==
    LET old == registered[u]
    IN  /\ events' = [v \in Users |->
                         IF v = u THEN Append(events[v], [type |-> "superseded", raum |-> old])
                         ELSE events[v] \o <<[type |-> "cancelled", raum |-> old],
                                             [type |-> "ended", raum |-> old]>>]
        /\ invitation' = [invitation EXCEPT
                             ![old].at = IF gueltig(old) THEN "consumed" ELSE @,
                             ![r].at = IF invitation[r].creator # u THEN "accepted" ELSE @]

\* zugangstoken
TokenServed(u, f) ==
    LET r == f.raum
    IN  /\ f \in frames[u] /\ f.at = "token"
        /\ \/ /\ ~gueltig(r)
              /\ frames' = Stepped(u, f, "refused") /\ UNCHANGED <<panel, events, faults>>
           \/ /\ gueltig(r)
              /\ IF registered[u] \notin {NoRoom, r} THEN Superseded(u, r)
                 ELSE /\ invitation' = [invitation EXCEPT ![r].at =
                                            IF invitation[r].creator # u THEN "accepted" ELSE @]
                      /\ UNCHANGED events
              /\ registered' = [registered EXCEPT ![u] = r]
              /\ \/ frames' = Stepped(u, f, "granted") /\ UNCHANGED faults
                 \/ frames' = Stepped(u, f, "refused") /\ Fault     \* the answer is lost
        /\ UNCHANGED <<store, lines, poll, requests, observers>>

\* Room.connect: who is there already is seen at once.
LineOpens(u, f) ==
    /\ f \in frames[u] /\ f.at = "connect"
    /\ \/ /\ lines' = [lines EXCEPT ![u] = @ \cup
                         {[id |-> f.generation, raum |-> f.raum,
                           sees |-> Other(u) \in Present(f.raum), met |-> FALSE,
                           handled |-> FALSE]}]
          /\ frames' = Stepped(u, f, "connected") /\ UNCHANGED faults
       \/ frames' = Stepped(u, f, "refused") /\ Fault /\ UNCHANGED lines
    /\ UNCHANGED <<store, poll, panel, events, requests, observers>>

-----------------------------------------------------------------------------
(* The store of a client.                                                  *)

\* raeumeAuf: the connection it knows of is left, and the generation moves on.
raeumeAuf(u) ==
    /\ generation' = [generation EXCEPT ![u] = 0]
    /\ verbindung' = [verbindung EXCEPT ![u] = 0]
    /\ lines' = [lines EXCEPT ![u] = {l \in @ : l.id # verbindung[u]}]

Sent(u, r, ops) == requests' = requests \cup [op: ops, user: {u}, raum: {r}]

\* mutant: who waits in the room alone only leaves it
FarewellOnceInside(u) == IF phase[u] = "outgoing" THEN {"cancel", "leave"} ELSE {"leave"}

\* What the panel is told when u hangs up: that the invitation is void, unless the
\* other is known to be there, and that u has left.
Farewell(u) ==
    IF phase[u] = "outgoing" \/ ~angenommen[u] THEN {"cancel", "leave"} ELSE {"leave"}

\* endCall, with what rejectCall sends before it
EndCallSending(u, ops) ==
    /\ raeumeAuf(u)
    /\ IF raum[u] = NoRoom THEN UNCHANGED requests ELSE Sent(u, raum[u], ops \cup Farewell(u))
    /\ phase' = [phase EXCEPT ![u] = "idle"] /\ raum' = [raum EXCEPT ![u] = NoRoom]
    /\ timer' = [timer EXCEPT ![u] = "none"]
    /\ angenommen' = [angenommen EXCEPT ![u] = FALSE]

endCall(u) == EndCallSending(u, {})
rejectCall(u) == EndCallSending(u, {"reject"})

\* initiateCall as far as its first await
initiateCall(u) ==
    /\ phase[u] = "idle" /\ u \in Callers
    /\ Cardinality({r \in Rooms : invitation[r].at # "none"}) +
         Cardinality({f \in frames[u] : f.at = "invite"}) < MaxRooms
    /\ raeumeAuf(u)
    /\ timer' = [timer EXCEPT ![u] = "outgoing"]
    /\ angenommen' = [angenommen EXCEPT ![u] = FALSE]
    /\ frames' = [frames EXCEPT ![u] = @ \cup
                    {[at |-> "invite", raum |-> NoRoom, generation |-> 0, accepts |-> FALSE]}]
    /\ UNCHANGED <<phase, raum, poll, panel, events, requests, observers, faults>>

Unused(u) ==
    Attempts \ ({f.generation : f \in frames[u]} \cup {l.id : l \in lines[u]} \cup
                  {verbindung[u]})

\* verbindeMitRaum as far as its first await: a number nothing of u bears stands for the
\* next value of the counter, of which only equality matters.
ConnectingTo(u, r, others, accepts) ==
    \E n \in Unused(u) :
        /\ \A m \in Unused(u) : n <= m
        /\ generation' = [generation EXCEPT ![u] = n]
        /\ frames' = [frames EXCEPT ![u] = others \cup
                        {[at |-> "token", raum |-> r, generation |-> n, accepts |-> accepts]}]

\* The invitation is out: the caller enters the room and waits there.
Dialled(u, f) ==
    /\ f \in frames[u] /\ f.at = "invited"
    /\ phase' = [phase EXCEPT ![u] = "outgoing"] /\ raum' = [raum EXCEPT ![u] = f.raum]
    /\ ConnectingTo(u, f.raum, frames[u] \ {f}, FALSE)
    /\ displaced' = IF generation[u] = 0 THEN displaced ELSE displaced \cup {u}
    /\ untimed' = IF timer[u] = "outgoing" THEN untimed ELSE untimed \cup {u}
    /\ UNCHANGED <<angenommen, timer, verbindung, lines, poll, panel, events, requests,
                   dialled, faults>>

acceptCall(u) ==
    /\ phase[u] = "incoming" /\ phase' = [phase EXCEPT ![u] = "connecting"]
    /\ angenommen' = [angenommen EXCEPT ![u] = TRUE]
    /\ timer' = [timer EXCEPT ![u] = "none"]
    /\ ConnectingTo(u, raum[u], frames[u], TRUE)
    /\ UNCHANGED <<raum, verbindung, lines, poll, panel, events, requests, observers, faults>>

\* No token or no connection: the call ends, whichever it is by now.
ConnectingFailed(u, f) ==
    /\ f \in frames[u] /\ f.at = "refused"
    /\ frames' = [frames EXCEPT ![u] = @ \ {f}]
    /\ IF f.accepts \/ phase[u] # "idle" THEN endCall(u)
       ELSE UNCHANGED <<store, lines, requests>>
    /\ UNCHANGED <<poll, panel, events, observers, faults>>

TokenGranted(u, f) ==
    /\ f \in frames[u] /\ f.at = "granted"
    /\ frames' = IF f.generation = generation[u] THEN Stepped(u, f, "connect")
                 ELSE [frames EXCEPT ![u] = @ \ {f}]
    /\ UNCHANGED <<store, lines, poll, panel, events, requests, observers, faults>>

\* mutant: the generation is not compared again after the connection
ConnectedUnasked(u, f) ==
    /\ f \in frames[u] /\ f.at = "connected"
    /\ verbindung' = [verbindung EXCEPT ![u] = f.generation]
    /\ frames' = Stepped(u, f, "media")
    /\ lines' = [lines EXCEPT ![u] =
                   {IF l.id = f.generation THEN [l EXCEPT !.handled = TRUE] ELSE l : l \in @}]
    /\ UNCHANGED <<phase, raum, angenommen, timer, generation, poll, panel, events, requests,
                   observers, faults>>

\* The connection is known from here on; that of an old attempt is left again.
Connected(u, f) ==
    /\ f \in frames[u] /\ f.at = "connected"
    /\ verbindung' = [verbindung EXCEPT ![u] = f.generation]
    /\ displaced' = IF f.generation = generation[u] \/ verbindung[u] = 0 THEN displaced
                    ELSE displaced \cup {u}
    /\ \/ /\ f.generation = generation[u]
          /\ frames' = Stepped(u, f, "media")
          /\ lines' = [lines EXCEPT ![u] =
                         {IF l.id = f.generation THEN [l EXCEPT !.handled = TRUE, !.met = l.sees]
                          ELSE l : l \in @}]
       \/ /\ f.generation # generation[u]
          /\ frames' = Stepped(u, f, "leaving") /\ UNCHANGED lines
    /\ UNCHANGED <<phase, raum, angenommen, timer, generation, poll, panel, events, requests,
                   dialled, untimed, faults>>

OldLineLeft(u, f) ==
    /\ f \in frames[u] /\ f.at = "leaving"
    /\ frames' = [frames EXCEPT ![u] = @ \ {f}]
    /\ lines' = [lines EXCEPT ![u] = {l \in @ : l.id # f.generation}]
    /\ verbindung' = [verbindung EXCEPT ![u] = 0]
    /\ displaced' = IF verbindung[u] \in {0, f.generation} THEN displaced
                    ELSE displaced \cup {u}
    /\ UNCHANGED <<phase, raum, angenommen, timer, generation, poll, panel, events, requests,
                   dialled, untimed, faults>>

\* Microphone and camera are on, or could not be opened.
MediaReady(u, f) ==
    /\ f \in frames[u] /\ f.at = "media"
    /\ frames' = [frames EXCEPT ![u] = @ \ {f}]
    /\ phase' = [phase EXCEPT ![u] = "active"]
    /\ UNCHANGED <<raum, angenommen, timer, generation, verbindung, lines, poll, panel, events,
                   requests, observers, faults>>

-----------------------------------------------------------------------------
(* What happens in the room (haengeEreignisseAn).                          *)

Seeing(u, l, here) ==
    [lines EXCEPT ![u] = (@ \ {l}) \cup
        {[l EXCEPT !.sees = here, !.met = @ \/ (here /\ l.handled)]}]

\* The handlers of an old attempt do nothing.
Current(u, l) == l.handled /\ l.id = generation[u]

ParticipantConnected(u, l) ==
    /\ l \in lines[u] /\ ~l.sees /\ Other(u) \in Present(l.raum)
    /\ lines' = Seeing(u, l, TRUE)
    /\ IF Current(u, l)
       THEN /\ angenommen' = [angenommen EXCEPT ![u] = TRUE]
            /\ timer' = [timer EXCEPT ![u] = "none"]
            /\ phase' = [phase EXCEPT ![u] = "active"]
       ELSE UNCHANGED <<angenommen, timer, phase>>
    /\ UNCHANGED <<raum, generation, verbindung, frames, poll, panel, events, requests,
                   observers, faults>>

\* A call between two: when the other goes, the call is over.
ParticipantDisconnected(u, l) ==
    /\ l \in lines[u] /\ l.sees /\ Other(u) \notin Present(l.raum)
    /\ IF Current(u, l) THEN endCall(u)
       ELSE lines' = Seeing(u, l, FALSE) /\ UNCHANGED <<store, requests>>
    /\ UNCHANGED <<frames, poll, panel, events, observers, faults>>

Disconnected(u, l) ==
    /\ l \in lines[u] /\ Fault
    /\ IF Current(u, l) /\ phase[u] # "idle" THEN endCall(u)
       ELSE lines' = [lines EXCEPT ![u] = @ \ {l}] /\ UNCHANGED <<store, requests>>
    /\ UNCHANGED <<frames, poll, panel, events, observers>>

-----------------------------------------------------------------------------
(* What the person does, timers, events and polls.                         *)

HangUp(u) ==
    /\ phase[u] \notin {"idle", "incoming"} /\ endCall(u)
    /\ UNCHANGED <<frames, poll, panel, events, observers, faults>>

Decline(u) ==
    /\ phase[u] = "incoming" /\ rejectCall(u)
    /\ UNCHANGED <<frames, poll, panel, events, observers, faults>>

HearsOther(u) == \E l \in lines[u] : l.id = verbindung[u] /\ l.sees

\* The timer of a call that goes on is given up for who is heard on an older connection.
HeardElsewhere(u) ==
    timer[u] = "outgoing" /\ phase[u] # "outgoing" /\ HearsOther(u) /\ verbindung[u] # generation[u]

\* mutant: only a call that still says it is dialling times out
TimerFiresWhileDialling(u) ==
    /\ timer[u] # "none"
    /\ \A f \in frames[u] : f.at \notin {"invite", "invited"}
    /\ \/ timer[u] = phase[u] /\ endCall(u)
       \/ /\ timer[u] # phase[u] /\ timer' = [timer EXCEPT ![u] = "none"]
          /\ UNCHANGED <<phase, raum, angenommen, generation, verbindung, lines, requests>>
    /\ UNCHANGED <<frames, poll, panel, events, observers, faults>>

\* The timers of 60 s; the request for the invitation takes less.
TimerFires(u) ==
    /\ timer[u] # "none"
    /\ \A f \in frames[u] : f.at \notin {"invite", "invited"}
    /\ \/ timer[u] = "incoming" /\ phase[u] = "incoming" /\ rejectCall(u)
       \/ timer[u] = "outgoing" /\ (phase[u] = "outgoing" \/ ~HearsOther(u)) /\ endCall(u)
       \/ /\ \/ timer[u] = "incoming" /\ phase[u] # "incoming"
             \/ timer[u] = "outgoing" /\ phase[u] # "outgoing" /\ HearsOther(u)
          /\ timer' = [timer EXCEPT ![u] = "none"]
          /\ UNCHANGED <<phase, raum, angenommen, generation, verbindung, lines, requests>>
    /\ untimed' = IF HeardElsewhere(u) THEN untimed \cup {u} ELSE untimed
    /\ UNCHANGED <<frames, poll, panel, events, dialled, displaced, faults>>

\* Busy, the second call is declined; otherwise it rings.
receiveCall(u, r) ==
    \/ /\ phase[u] = "idle" /\ raeumeAuf(u)
       /\ phase' = [phase EXCEPT ![u] = "incoming"] /\ raum' = [raum EXCEPT ![u] = r]
       /\ timer' = [timer EXCEPT ![u] = "incoming"]
       /\ angenommen' = [angenommen EXCEPT ![u] = FALSE]
       /\ UNCHANGED requests
    \/ /\ phase[u] # "idle" /\ UNCHANGED <<store, lines>>
       /\ IF raum[u] = r THEN UNCHANGED requests ELSE Sent(u, r, {"reject"})

Concerns(u, e) ==
    /\ e.raum = raum[u]
    /\ \/ e.type = "rejected" /\ phase[u] # "idle" /\ ~angenommen[u]
       \/ e.type = "cancelled" /\ phase[u] \in {"incoming", "connecting"}
       \/ e.type \in {"ended", "superseded"} /\ phase[u] # "idle"

handleCallSyncEvent(u) ==
    /\ events[u] # <<>> /\ events' = [events EXCEPT ![u] = Tail(@)]
    /\ LET e == Head(events[u])
       IN  \/ e.type = "invitation" /\ receiveCall(u, e.raum)
           \/ e.type # "invitation" /\ Concerns(u, e) /\ endCall(u)
           \/ e.type # "invitation" /\ ~Concerns(u, e) /\ UNCHANGED <<store, lines, requests>>
    /\ UNCHANGED <<frames, poll, panel, observers, faults>>

\* The stream was down when it was published.
EventLost(u) ==
    /\ events[u] # <<>> /\ events' = [events EXCEPT ![u] = Tail(@)] /\ Fault
    /\ UNCHANGED <<store, frames, lines, poll, panel, requests, observers>>

\* checkActiveCall, every 4 s while idle or ringing: the panel answers, ...
PollServed(u) ==
    /\ phase[u] \in {"idle", "incoming"} /\ poll[u].at = "idle"
    /\ poll' = [poll EXCEPT ![u] = [at |-> "answered", pending |-> Pending(u)]]
    /\ UNCHANGED <<store, frames, lines, panel, events, requests, observers, faults>>

\* ... and the client reads the answer in the state it is in by then.
checkActiveCall(u) ==
    LET r == poll[u].pending
    IN  /\ poll[u].at = "answered" /\ poll' = [poll EXCEPT ![u] = NoPoll]
        /\ \/ /\ phase[u] = "incoming" /\ r # raum[u]
              /\ phase' = [phase EXCEPT ![u] = "idle"] /\ raum' = [raum EXCEPT ![u] = NoRoom]
              /\ timer' = [timer EXCEPT ![u] = "none"]
              /\ UNCHANGED <<angenommen, generation, verbindung, lines, requests>>
           \/ phase[u] = "idle" /\ r # NoRoom /\ receiveCall(u, r)
           \/ /\ \/ phase[u] = "incoming" /\ r = raum[u]
                 \/ phase[u] = "idle" /\ r = NoRoom
                 \/ phase[u] \notin {"idle", "incoming"}
              /\ UNCHANGED <<store, lines, requests>>
        /\ UNCHANGED <<frames, panel, events, observers, faults>>

-----------------------------------------------------------------------------
Person(u) == initiateCall(u) \/ acceptCall(u) \/ Decline(u) \/ HangUp(u)

GoesOn(u) == \E f \in frames[u] :
    \/ Dialled(u, f) \/ ConnectingFailed(u, f) \/ TokenGranted(u, f) \/ Connected(u, f)
    \/ OldLineLeft(u, f) \/ MediaReady(u, f)

Served(u) == \E f \in frames[u] : InviteServed(u, f) \/ TokenServed(u, f) \/ LineOpens(u, f)

InRoom(u) == \E l \in lines[u] : ParticipantConnected(u, l) \/ ParticipantDisconnected(u, l)

Client(u) ==
    \/ GoesOn(u) \/ TimerFires(u) \/ handleCallSyncEvent(u) \/ checkActiveCall(u)

World ==
    \/ \E u \in Users : Served(u) \/ InRoom(u) \/ PollServed(u) \/ EventLost(u)
    \/ \E u \in Users : \E l \in lines[u] : Disconnected(u, l)
    \/ \E q \in requests : RequestArrives(q) \/ RequestLost(q)
    \/ \E r \in Rooms : InvitationExpires(r)

Next == World \/ \E u \in Users : Person(u) \/ Client(u)

Spec == Init /\ [][Next]_vars

-----------------------------------------------------------------------------
FrameType == [at: {"invite", "invited", "token", "granted", "refused", "connect", "connected",
                   "leaving", "media"},
              raum: Rooms \cup {NoRoom}, generation: {0} \cup Attempts, accepts: BOOLEAN]
LineType == [id: Attempts, raum: Rooms, sees: BOOLEAN, met: BOOLEAN, handled: BOOLEAN]

EventType ==
    [type: {"invitation", "cancelled", "rejected", "ended", "superseded"}, raum: Rooms]

TypeOK ==
    /\ phase \in [Users -> {"idle", "outgoing", "incoming", "connecting", "active"}]
    /\ raum \in [Users -> Rooms \cup {NoRoom}] /\ angenommen \in [Users -> BOOLEAN]
    /\ timer \in [Users -> {"none", "incoming", "outgoing"}]
    /\ generation \in [Users -> {0} \cup Attempts]
    /\ verbindung \in [Users -> {0} \cup Attempts]
    /\ frames \in [Users -> SUBSET FrameType] /\ lines \in [Users -> SUBSET LineType]
    /\ poll \in [Users -> [at: {"idle", "answered"}, pending: Rooms \cup {NoRoom}]]
    /\ invitation \in [Rooms -> [at: {"none", "ringing", "accepted", "consumed", "expired"},
                                 creator: Users]]
    /\ registered \in [Users -> Rooms \cup {NoRoom}]
    /\ events \in [Users -> Seq(EventType)]
    /\ requests \subseteq Requests /\ faults \in 0..MaxFaults
    /\ dialled \subseteq Rooms /\ displaced \subseteq Users /\ untimed \subseteq Users

\* Every open line is known: it is that of the call the store is in, or an attempt
\* still looks at it.  So whoever hangs up is off the air, whenever in the course of
\* connecting it was, unless two of its calls overlapped and one displaced the other.
Held(u, l) ==
    \/ l.id = verbindung[u] /\ l.id = generation[u] /\ phase[u] # "idle"
    \/ \E f \in frames[u] : f.generation = l.id /\ f.at \in {"connected", "leaving"}

EveryLineIsHeld == \A u \in Users \ displaced : \A l \in lines[u] : Held(u, l)

\* Late returns of an old call do nothing (useCallStore.ts:204): violated.
LateReturnsAreHarmless == \A u \in Users : \A l \in lines[u] : Held(u, l)

\* Once the caller is gone and what it said has arrived, nothing rings on at the
\* panel, although one request or answer may be lost on the way; unless the caller
\* dialled over another call of its own.
NoRingingForNobody ==
    \A r \in dialled :
        LET u == invitation[r].creator
        IN  faults <= 1 /\ invitation[r].at = "ringing" =>
              \/ u \in displaced \/ raum[u] = r
              \/ \E f \in frames[u] : f.at = "invited" /\ f.raum = r
              \/ \E q \in requests : q.user = u /\ q.raum = r

\* At rest, with no timer left that could end the call.
AtRest(u) ==
    /\ frames[u] = {} /\ timer[u] = "none"
    /\ \A l \in lines[u] : l.sees <=> Other(u) \in Present(l.raum)

\* When the other goes the call is over, for everyone who has met the other there and
\* for the caller: nobody stays in the room alone, unless two calls of one person
\* overlapped and the one displaced the other or took its timer.
GoneMeansOver ==
    \A u \in Users \ displaced : AtRest(u) => \A l \in lines[u] :
        l.met \/ (invitation[l.raum].creator = u /\ u \notin untimed) => l.sees

\* Nobody waits for longer than a minute without an answer (useCallStore.ts:233): violated.
UnansweredCallsEnd ==
    \A u \in Users : AtRest(u) => \A l \in lines[u] : invitation[l.raum].creator = u => l.sees
=============================================================================
