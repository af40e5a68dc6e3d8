-------------------------- MODULE DirectCallProofs --------------------------
(***************************************************************************)
(* Proofs about DirectCall for any two people and any number of            *)
(* invitations, attempts to connect and faults: its types; that no line is *)
(* open which nothing holds; that no invitation rings whose caller is gone *)
(* and has been heard; and that nobody stays in the room alone once the    *)
(* other has gone.  Who is displaced or untimed, because two calls of its  *)
(* own overlapped, is left out where the properties say so.                *)
(***************************************************************************)
EXTENDS DirectCall, FiniteSetTheorems, TLAPS

\* A call that rings has a room, so has a frame past its invitation, and one that
\* connects has a number.
FrameKnown(f) ==
    /\ f.at # "invite" => f.raum \in Rooms
    /\ f.at \notin {"invite", "invited"} => f.generation \in Attempts

Known ==
    \A u \in Users :
        /\ phase[u] = "incoming" => raum[u] \in Rooms
        /\ \A f \in frames[u] : FrameKnown(f)

Typed == TypeOK /\ Known

-----------------------------------------------------------------------------
(* Types.                                                                  *)

StoreOK ==
    /\ phase \in [Users -> {"idle", "outgoing", "incoming", "connecting", "active"}]
    /\ raum \in [Users -> Rooms \cup {NoRoom}] /\ angenommen \in [Users -> BOOLEAN]
    /\ timer \in [Users -> {"none", "incoming", "outgoing"}]
    /\ generation \in [Users -> {0} \cup Attempts]
    /\ verbindung \in [Users -> {0} \cup Attempts]
    /\ \A u \in Users : phase[u] = "incoming" => raum[u] \in Rooms

FramesOK ==
    /\ frames \in [Users -> SUBSET FrameType]
    /\ \A u \in Users : \A f \in frames[u] : FrameKnown(f)

LinesOK == lines \in [Users -> SUBSET LineType]

InvitationsOK ==
    invitation \in [Rooms -> [at: {"none", "ringing", "accepted", "consumed", "expired"},
                              creator: Users]]

RegisteredOK == registered \in [Users -> Rooms \cup {NoRoom}]
EventsOK == events \in [Users -> Seq(EventType)]
PollOK == poll \in [Users -> [at: {"idle", "answered"}, pending: Rooms \cup {NoRoom}]]

ObserversOK == dialled \subseteq Rooms /\ displaced \subseteq Users /\ untimed \subseteq Users

USE DEF observers, ObserversOK

LEMMA TypedParts ==
    Typed <=> /\ StoreOK /\ FramesOK /\ LinesOK /\ InvitationsOK /\ RegisteredOK /\ EventsOK
              /\ PollOK /\ requests \subseteq Requests /\ ObserversOK
              /\ faults \in 0..MaxFaults
BY DEF Typed, TypeOK, Known, StoreOK, FramesOK, LinesOK, InvitationsOK, RegisteredOK,
       EventsOK, PollOK

LEMMA TypedPartsNext ==
    ASSUME StoreOK', FramesOK', LinesOK', InvitationsOK', RegisteredOK', EventsOK', PollOK',
           (requests \subseteq Requests)', ObserversOK', (faults \in 0..MaxFaults)'
    PROVE  Typed'
BY DEF Typed, TypeOK, Known, StoreOK, FramesOK, LinesOK, InvitationsOK, RegisteredOK,
       EventsOK, PollOK

LEMMA TypedPartsIn ==
    ASSUME Typed'
    PROVE  StoreOK' /\ FramesOK' /\ LinesOK' /\ InvitationsOK'
BY DEF Typed, TypeOK, Known, StoreOK, FramesOK, LinesOK, InvitationsOK

LEMMA TwoPeople ==
    /\ Users # {}
    /\ \A u \in Users : Other(u) \in Users /\ Other(u) # u
<1>1. Users # {}
    BY CallAssumption, FS_EmptySet
<1>2. ASSUME NEW u \in Users PROVE \E v \in Users : v # u
    <2>1. SUFFICES ASSUME ~\E v \in Users : v # u PROVE FALSE
        OBVIOUS
    <2>2. Users = {u}
        BY <2>1
    <2>3. Cardinality(Users) = 1
        BY <2>2, FS_Singleton
    <2>4. Cardinality(Users) = 2
        BY CallAssumption
    <2>5. QED
        BY <2>3, <2>4
<1>3. QED
    BY <1>1, <1>2 DEF Other

LEMMA Bounds == MaxRooms \in Nat /\ MaxAttempts \in Nat /\ MaxFaults \in Nat
BY CallAssumption

\* What the panel says to one person is an event.
LEMMA ToldTyped ==
    ASSUME EventsOK, NEW u \in Users, NEW r \in Rooms,
           NEW type \in {"invitation", "cancelled", "rejected", "ended", "superseded"}
    PROVE  Told(u, type, r) \in [Users -> Seq(EventType)]
<1>1. [type |-> type, raum |-> r] \in EventType
    BY DEF EventType
<1>2. Append(events[u], [type |-> type, raum |-> r]) \in Seq(EventType)
    BY <1>1 DEF EventsOK
<1>3. QED
    BY <1>2 DEF Told, EventsOK

LEMMA ForgottenTyped ==
    ASSUME RegisteredOK, NEW r \in Rooms
    PROVE  Forgotten(r) \in [Users -> Rooms \cup {NoRoom}]
BY DEF Forgotten, RegisteredOK

LEMMA CancelledTyped ==
    ASSUME InvitationsOK, EventsOK, NEW u \in Users, NEW r \in Rooms, Cancelled(u, r)
    PROVE  InvitationsOK' /\ EventsOK'
<1>1. events' \in [Users -> Seq(EventType)]
    BY TwoPeople, ToldTyped DEF Cancelled
<1>2. QED
    BY <1>1 DEF Cancelled, InvitationsOK, EventsOK

\* raeumeAuf, and what hanging up leaves in the store.
LEMMA EndCallTyped ==
    ASSUME Typed, NEW u \in Users, NEW ops \in SUBSET {"cancel", "reject", "leave"},
           EndCallSending(u, ops)
    PROVE  StoreOK' /\ LinesOK' /\ (requests \subseteq Requests)'
<1>0. StoreOK /\ LinesOK /\ requests \subseteq Requests
    BY TypedParts
<1>1. StoreOK'
    BY <1>0 DEF EndCallSending, raeumeAuf, StoreOK
<1>2. LinesOK'
    BY <1>0 DEF EndCallSending, raeumeAuf, LinesOK
<1>3. requests' \subseteq Requests
    <2>1. CASE raum[u] = NoRoom
        BY <1>0, <2>1 DEF EndCallSending
    <2>2. CASE raum[u] # NoRoom
        <3>1. raum[u] \in Rooms
            BY <1>0, <2>2 DEF StoreOK
        <3>2. ops \cup Farewell(u) \subseteq {"cancel", "reject", "leave"}
            BY DEF Farewell
        <3>3. requests' = requests \cup [op: ops \cup Farewell(u), user: {u}, raum: {raum[u]}]
            BY <2>2 DEF EndCallSending, Sent
        <3>4. QED
            BY <1>0, <3>1, <3>2, <3>3 DEF Requests
    <2>3. QED
        BY <2>1, <2>2
<1>4. QED
    BY <1>1, <1>2, <1>3

LEMMA HangingUpTyped ==
    ASSUME Typed, NEW u \in Users, endCall(u) \/ rejectCall(u)
    PROVE  StoreOK' /\ LinesOK' /\ (requests \subseteq Requests)'
BY EndCallTyped DEF endCall, rejectCall

\* A frame that goes on is a frame.
LEMMA SteppedTyped ==
    ASSUME FramesOK, NEW u \in Users, NEW f \in frames[u],
           f.at \notin {"invite", "invited"},
           NEW at \in {"granted", "refused", "connect", "connected", "leaving", "media"},
           frames' = Stepped(u, f, at)
    PROVE  FramesOK'
<1> DEFINE g == [f EXCEPT !.at = at]
<1>1. f \in FrameType /\ FrameKnown(f)
    BY DEF FramesOK
<1>2. g \in FrameType /\ FrameKnown(g)
    BY <1>1 DEF FrameType, FrameKnown
<1>3. frames' = [frames EXCEPT ![u] = (@ \ {f}) \cup {g}]
    BY DEF Stepped
<1> HIDE DEF g
<1>4. QED
    BY <1>1, <1>2, <1>3 DEF FramesOK

LEMMA FrameEnds ==
    ASSUME FramesOK, NEW u \in Users, NEW f, frames' = [frames EXCEPT ![u] = @ \ {f}]
    PROVE  FramesOK'
BY DEF FramesOK

LEMMA ConnectingTyped ==
    ASSUME StoreOK, FramesOK, NEW u \in Users, NEW r \in Rooms, NEW others \in SUBSET frames[u],
           NEW accepts \in BOOLEAN, ConnectingTo(u, r, others, accepts)
    PROVE  FramesOK' /\ generation' \in [Users -> {0} \cup Attempts]
<1>1. PICK n \in Unused(u) :
          /\ generation' = [generation EXCEPT ![u] = n]
          /\ frames' = [frames EXCEPT ![u] = others \cup
                 {[at |-> "token", raum |-> r, generation |-> n, accepts |-> accepts]}]
    BY DEF ConnectingTo
<1>2. n \in Attempts
    BY DEF Unused
<1> DEFINE g == [at |-> "token", raum |-> r, generation |-> n, accepts |-> accepts]
<1>3. g \in FrameType /\ FrameKnown(g)
    BY <1>2 DEF FrameType, FrameKnown
<1>4. frames' = [frames EXCEPT ![u] = others \cup {g}]
    BY <1>1
<1> HIDE DEF g
<1>5. QED
    BY <1>1, <1>2, <1>3, <1>4 DEF FramesOK, StoreOK

\* The steps of the panel and of LiveKit keep the types.
LEMMA RequestsTyped ==
    ASSUME Typed, NEW q, RequestArrives(q) \/ RequestLost(q)
    PROVE  Typed'
<1>0. /\ StoreOK /\ FramesOK /\ LinesOK /\ InvitationsOK /\ RegisteredOK /\ EventsOK /\ PollOK
      /\ requests \subseteq Requests /\ ObserversOK /\ faults \in 0..MaxFaults
    BY TypedParts
<1>1. q.user \in Users /\ q.raum \in Rooms /\ q \in Requests
    BY <1>0 DEF RequestArrives, RequestLost, Requests
<1>2. /\ UNCHANGED <<store, frames, lines, poll, observers>> /\ requests' \subseteq Requests
      /\ faults' \in 0..MaxFaults
    BY <1>0, Bounds DEF RequestArrives, RequestLost, Fault
<1>3. InvitationsOK' /\ RegisteredOK' /\ EventsOK'
    <2>1. CASE Cancelled(q.user, q.raum) /\ registered' = Forgotten(q.raum)
        BY <1>0, <1>1, <2>1, CancelledTyped, ForgottenTyped DEF RegisteredOK
    <2>2. CASE UNCHANGED <<panel, events>>
        BY <1>0, <2>2 DEF panel, InvitationsOK, RegisteredOK, EventsOK
    <2>3. CASE /\ invitation' = [invitation EXCEPT ![q.raum].at = "consumed"]
               /\ registered' = Forgotten(q.raum)
               /\ events' = Told(Other(q.user), "rejected", q.raum)
        <3>1. InvitationsOK'
            BY <1>0, <1>1, <2>3 DEF InvitationsOK
        <3>2. RegisteredOK' /\ EventsOK'
            BY <1>0, <1>1, <2>3, TwoPeople, ToldTyped, ForgottenTyped DEF RegisteredOK, EventsOK
        <3>3. QED
            BY <3>1, <3>2
    <2>4. CASE /\ registered' = [registered EXCEPT ![q.user] =
                                    IF @ = q.raum THEN NoRoom ELSE @]
               /\ UNCHANGED <<invitation, events>>
        BY <1>0, <1>1, <2>4 DEF InvitationsOK, RegisteredOK, EventsOK
    <2>5. QED
        BY <2>1, <2>2, <2>3, <2>4 DEF RequestArrives, RequestLost, Cancel, Reject, Leave
<1>4. QED
    BY <1>0, <1>2, <1>3, TypedPartsNext
       DEF store, StoreOK, FramesOK, LinesOK, PollOK

LEMMA ExpiryTyped ==
    ASSUME Typed, NEW r \in Rooms, InvitationExpires(r)
    PROVE  Typed'
<1>0. /\ StoreOK /\ FramesOK /\ LinesOK /\ InvitationsOK /\ RegisteredOK /\ EventsOK /\ PollOK
      /\ requests \subseteq Requests /\ ObserversOK /\ faults \in 0..MaxFaults
    BY TypedParts
<1>1. InvitationsOK'
    BY <1>0 DEF InvitationExpires, InvitationsOK
<1>2. QED
    BY <1>0, <1>1, TypedPartsNext
       DEF InvitationExpires, store, StoreOK, FramesOK, LinesOK, RegisteredOK, EventsOK, PollOK

LEMMA InviteTyped ==
    ASSUME Typed, NEW u \in Users, NEW f \in frames[u], InviteServed(u, f)
    PROVE  Typed'
<1>0. /\ StoreOK /\ FramesOK /\ LinesOK /\ InvitationsOK /\ RegisteredOK /\ EventsOK /\ PollOK
      /\ requests \subseteq Requests /\ ObserversOK /\ faults \in 0..MaxFaults
    BY TypedParts
<1> DEFINE r == CHOOSE n \in Rooms : invitation[n].at = "none"
           g == [f EXCEPT !.at = "invited", !.raum = r]
<1>1. r \in Rooms
    BY DEF InviteServed
<1>2. f \in FrameType
    BY <1>0 DEF FramesOK
<1>3. g \in FrameType /\ FrameKnown(g)
    BY <1>1, <1>2 DEF FrameType, FrameKnown
<1>4. /\ invitation' = [invitation EXCEPT ![r] = [at |-> "ringing", creator |-> u]]
      /\ events' = Told(Other(u), "invitation", r)
      /\ \/ /\ frames' = [frames EXCEPT ![u] = (@ \ {f}) \cup {g}]
            /\ dialled' = dialled \cup {r} /\ UNCHANGED faults
         \/ /\ frames' = [frames EXCEPT ![u] = @ \ {f}]
            /\ Fault /\ UNCHANGED dialled
      /\ UNCHANGED <<store, lines, poll, registered, requests, displaced, untimed>>
    BY DEF InviteServed
<1> HIDE DEF r, g
<1>5. InvitationsOK'
    BY <1>0, <1>1, <1>4 DEF InvitationsOK
<1>6. EventsOK'
    BY <1>0, <1>1, <1>4, TwoPeople, ToldTyped DEF EventsOK
<1>7. FramesOK'
    BY <1>0, <1>3, <1>4 DEF FramesOK
<1>8. ObserversOK' /\ faults' \in 0..MaxFaults
    BY <1>0, <1>1, <1>4, Bounds DEF Fault
<1>9. QED
    BY <1>0, <1>4, <1>5, <1>6, <1>7, <1>8, TypedPartsNext
       DEF store, StoreOK, LinesOK, RegisteredOK, PollOK

LEMMA TokenTyped ==
    ASSUME Typed, NEW u \in Users, NEW f \in frames[u], TokenServed(u, f)
    PROVE  Typed'
<1>0. /\ StoreOK /\ FramesOK /\ LinesOK /\ InvitationsOK /\ RegisteredOK /\ EventsOK /\ PollOK
      /\ requests \subseteq Requests /\ ObserversOK /\ faults \in 0..MaxFaults
    BY TypedParts
<1> DEFINE r == f.raum
           old == registered[u]
<1>1. f.at = "token" /\ r \in Rooms
    BY <1>0 DEF TokenServed, FramesOK, FrameKnown
<1>2. UNCHANGED <<store, lines, poll, requests, observers>>
    BY DEF TokenServed
<1>3. FramesOK' /\ faults' \in 0..MaxFaults
    <2>1. frames' = Stepped(u, f, "refused") \/ frames' = Stepped(u, f, "granted")
        BY DEF TokenServed
    <2>2. FramesOK'
        BY <1>0, <1>1, <2>1, SteppedTyped
    <2>3. QED
        BY <1>0, <2>2, Bounds DEF TokenServed, Fault
<1>4. InvitationsOK' /\ RegisteredOK' /\ EventsOK'
    <2>1. CASE UNCHANGED <<panel, events>>
        BY <1>0, <2>1 DEF panel, InvitationsOK, RegisteredOK, EventsOK
    <2>2. CASE old \notin {NoRoom, r} /\ Superseded(u, r) /\
               registered' = [registered EXCEPT ![u] = r]
        <3>1. old \in Rooms
            BY <1>0, <2>2 DEF RegisteredOK
        <3>2. InvitationsOK'
            <4> DEFINE S == [at: {"none", "ringing", "accepted", "consumed", "expired"},
                             creator: Users]
                       ended == [invitation EXCEPT ![old].at =
                                    IF gueltig(old) THEN "consumed" ELSE @]
            <4>1. ended \in [Rooms -> S]
                BY <1>0, <3>1 DEF InvitationsOK
            <4>2. invitation' = [ended EXCEPT ![r].at =
                                    IF invitation[r].creator # u THEN "accepted" ELSE @]
                BY <2>2 DEF Superseded
            <4> HIDE DEF ended
            <4>3. invitation' \in [Rooms -> S]
                BY <1>1, <4>1, <4>2
            <4>4. QED
                BY <4>3 DEF InvitationsOK
        <3>3. RegisteredOK'
            BY <1>0, <1>1, <2>2 DEF RegisteredOK
        <3> DEFINE ends(t) == [type |-> t, raum |-> old]
        <3>4. ends("superseded") \in EventType /\ ends("cancelled") \in EventType
              /\ ends("ended") \in EventType
            BY <3>1 DEF EventType
        <3>5. events' = [v \in Users |-> IF v = u THEN Append(events[v], ends("superseded"))
                                         ELSE events[v] \o <<ends("cancelled"), ends("ended")>>]
            BY <2>2 DEF Superseded
        <3> HIDE DEF ends
        <3>6. \A v \in Users : /\ Append(events[v], ends("superseded")) \in Seq(EventType)
                               /\ events[v] \o <<ends("cancelled"), ends("ended")>>
                                      \in Seq(EventType)
            BY <1>0, <3>4 DEF EventsOK
        <3>7. EventsOK'
            BY <3>5, <3>6 DEF EventsOK
        <3>8. QED
            BY <3>2, <3>3, <3>7
    <2>3. CASE /\ invitation' = [invitation EXCEPT ![r].at =
                                     IF invitation[r].creator # u THEN "accepted" ELSE @]
               /\ UNCHANGED events /\ registered' = [registered EXCEPT ![u] = r]
        BY <1>0, <1>1, <2>3 DEF InvitationsOK, RegisteredOK, EventsOK
    <2>4. QED
        BY <2>1, <2>2, <2>3 DEF TokenServed
<1>5. QED
    BY <1>0, <1>2, <1>3, <1>4, TypedPartsNext DEF store, StoreOK, LinesOK, PollOK

LEMMA LineOpensTyped ==
    ASSUME Typed, NEW u \in Users, NEW f \in frames[u], LineOpens(u, f)
    PROVE  Typed'
<1>0. /\ StoreOK /\ FramesOK /\ LinesOK /\ InvitationsOK /\ RegisteredOK /\ EventsOK /\ PollOK
      /\ requests \subseteq Requests /\ ObserversOK /\ faults \in 0..MaxFaults
    BY TypedParts
<1>1. f.at = "connect" /\ f.raum \in Rooms /\ f.generation \in Attempts
    BY <1>0 DEF LineOpens, FramesOK, FrameKnown
<1>2. frames' = Stepped(u, f, "connected") \/ frames' = Stepped(u, f, "refused")
    BY DEF LineOpens
<1>3. FramesOK'
    BY <1>0, <1>1, <1>2, SteppedTyped
<1> DEFINE l == [id |-> f.generation, raum |-> f.raum, sees |-> Other(u) \in Present(f.raum),
                 met |-> FALSE, handled |-> FALSE]
<1>4. l \in LineType
    BY <1>1 DEF LineType
<1>5. lines' = [lines EXCEPT ![u] = @ \cup {l}] \/ UNCHANGED lines
    BY DEF LineOpens
<1> HIDE DEF l
<1>6. LinesOK'
    BY <1>0, <1>4, <1>5 DEF LinesOK
<1>7. faults' \in 0..MaxFaults
    BY <1>0, Bounds DEF LineOpens, Fault
<1>8. UNCHANGED <<store, poll, panel, events, requests, observers>>
    BY DEF LineOpens
<1>9. QED
    BY <1>0, <1>3, <1>6, <1>7, <1>8, TypedPartsNext
       DEF store, panel, StoreOK, InvitationsOK, RegisteredOK, EventsOK, PollOK

LEMMA WorldTyped ==
    ASSUME Typed, World
    PROVE  Typed'
<1>0. /\ StoreOK /\ FramesOK /\ LinesOK /\ InvitationsOK /\ RegisteredOK /\ EventsOK /\ PollOK
      /\ requests \subseteq Requests /\ ObserversOK /\ faults \in 0..MaxFaults
    BY TypedParts
<1>1. ASSUME NEW u \in Users, Served(u) PROVE Typed'
    BY <1>1, InviteTyped, TokenTyped, LineOpensTyped DEF Served
<1>2. ASSUME NEW u \in Users, InRoom(u) PROVE Typed'
    <2>1. PICK l \in lines[u] : ParticipantConnected(u, l) \/ ParticipantDisconnected(u, l)
        BY <1>2 DEF InRoom
    <2>2. ASSUME NEW here \in BOOLEAN, lines' = Seeing(u, l, here) PROVE LinesOK'
        <3> DEFINE k == [l EXCEPT !.sees = here, !.met = @ \/ (here /\ l.handled)]
        <3>1. l \in LineType
            BY <1>0 DEF LinesOK
        <3>2. k \in LineType
            BY <3>1 DEF LineType
        <3>3. lines' = [lines EXCEPT ![u] = (@ \ {l}) \cup {k}]
            BY <2>2 DEF Seeing
        <3> HIDE DEF k
        <3>4. QED
            BY <1>0, <3>2, <3>3 DEF LinesOK
    <2>3. CASE ParticipantConnected(u, l)
        <3>1. LinesOK'
            BY <2>2, <2>3 DEF ParticipantConnected
        <3>2. StoreOK'
            BY <1>0, <2>3 DEF ParticipantConnected, StoreOK
        <3>3. QED
            BY <1>0, <2>3, <3>1, <3>2, TypedPartsNext
               DEF ParticipantConnected, panel, FramesOK, InvitationsOK, RegisteredOK, EventsOK,
                   PollOK
    <2>4. CASE ParticipantDisconnected(u, l)
        <3>1. CASE endCall(u)
            BY <1>0, <2>4, <3>1, HangingUpTyped, TypedPartsNext
               DEF ParticipantDisconnected, panel, FramesOK, InvitationsOK, RegisteredOK,
                   EventsOK, PollOK
        <3>2. CASE lines' = Seeing(u, l, FALSE) /\ UNCHANGED <<store, requests>>
            <4>1. LinesOK'
                BY <2>2, <3>2
            <4>2. QED
                BY <1>0, <2>4, <3>2, <4>1, TypedPartsNext
                   DEF ParticipantDisconnected, store, panel, StoreOK, FramesOK, InvitationsOK,
                       RegisteredOK, EventsOK, PollOK
        <3>3. QED
            BY <2>4, <3>1, <3>2 DEF ParticipantDisconnected
    <2>5. QED
        BY <2>1, <2>3, <2>4
<1>3. ASSUME NEW u \in Users, PollServed(u) PROVE Typed'
    <2>1. Pending(u) \in Rooms \cup {NoRoom}
        BY DEF Pending
    <2>2. PollOK'
        BY <1>0, <1>3, <2>1 DEF PollServed, PollOK
    <2>3. QED
        BY <1>0, <1>3, <2>2, TypedPartsNext
           DEF PollServed, store, panel, StoreOK, FramesOK, LinesOK, InvitationsOK,
               RegisteredOK, EventsOK
<1>4. ASSUME NEW u \in Users, EventLost(u) PROVE Typed'
    <2>1. Tail(events[u]) \in Seq(EventType)
        BY <1>0, <1>4 DEF EventLost, EventsOK
    <2>2. EventsOK'
        BY <1>0, <1>4, <2>1 DEF EventLost, EventsOK
    <2>3. faults' \in 0..MaxFaults
        BY <1>0, <1>4, Bounds DEF EventLost, Fault
    <2>4. QED
        BY <1>0, <1>4, <2>2, <2>3, TypedPartsNext
           DEF EventLost, store, panel, StoreOK, FramesOK, LinesOK, InvitationsOK,
               RegisteredOK, PollOK
<1>5. ASSUME NEW u \in Users, NEW l \in lines[u], Disconnected(u, l) PROVE Typed'
    <2>1. faults' \in 0..MaxFaults
        BY <1>0, <1>5, Bounds DEF Disconnected, Fault
    <2>2. CASE endCall(u)
        BY <1>0, <1>5, <2>1, <2>2, HangingUpTyped, TypedPartsNext
           DEF Disconnected, panel, FramesOK, InvitationsOK, RegisteredOK, EventsOK, PollOK
    <2>3. CASE lines' = [lines EXCEPT ![u] = @ \ {l}] /\ UNCHANGED <<store, requests>>
        BY <1>0, <1>5, <2>1, <2>3, TypedPartsNext
           DEF Disconnected, store, panel, StoreOK, FramesOK, LinesOK, InvitationsOK,
               RegisteredOK, EventsOK, PollOK
    <2>4. QED
        BY <1>5, <2>2, <2>3 DEF Disconnected
<1>6. QED
    BY <1>1, <1>2, <1>3, <1>4, <1>5, RequestsTyped, ExpiryTyped DEF World

\* An invitation that reaches a client, by an event or by a poll.
LEMMA ReceivedTyped ==
    ASSUME Typed, NEW u \in Users, NEW r \in Rooms, receiveCall(u, r)
    PROVE  StoreOK' /\ LinesOK' /\ (requests \subseteq Requests)'
<1>0. StoreOK /\ LinesOK /\ requests \subseteq Requests
    BY TypedParts
<1>1. CASE phase[u] = "idle" /\ raeumeAuf(u) /\ UNCHANGED requests
           /\ phase' = [phase EXCEPT ![u] = "incoming"] /\ raum' = [raum EXCEPT ![u] = r]
           /\ timer' = [timer EXCEPT ![u] = "incoming"]
           /\ angenommen' = [angenommen EXCEPT ![u] = FALSE]
    BY <1>0, <1>1 DEF raeumeAuf, StoreOK, LinesOK
<1>2. CASE UNCHANGED <<store, lines>> /\ (UNCHANGED requests \/ Sent(u, r, {"reject"}))
    BY <1>0, <1>2 DEF store, StoreOK, LinesOK, Sent, Requests
<1>3. QED
    BY <1>1, <1>2 DEF receiveCall

LEMMA ClientTyped ==
    ASSUME Typed, NEW u \in Users, Client(u)
    PROVE  Typed'
<1>0. /\ StoreOK /\ FramesOK /\ LinesOK /\ InvitationsOK /\ RegisteredOK /\ EventsOK /\ PollOK
      /\ requests \subseteq Requests /\ ObserversOK /\ faults \in 0..MaxFaults
    BY TypedParts
<1> USE DEF store, panel
<1>1. ASSUME NEW f \in frames[u], Dialled(u, f) PROVE Typed'
    <2>1. f.raum \in Rooms
        BY <1>0, <1>1 DEF Dialled, FramesOK, FrameKnown
    <2>2. ConnectingTo(u, f.raum, frames[u] \ {f}, FALSE)
        BY <1>1 DEF Dialled
    <2>3. FramesOK' /\ generation' \in [Users -> {0} \cup Attempts]
        BY <1>0, <2>1, <2>2, ConnectingTyped
    <2>4. StoreOK'
        BY <1>0, <1>1, <2>1, <2>3 DEF Dialled, StoreOK
    <2>5. QED
        BY <1>0, <1>1, <2>3, <2>4, TypedPartsNext
           DEF Dialled, LinesOK, InvitationsOK, RegisteredOK, EventsOK, PollOK
<1>2. ASSUME NEW f \in frames[u], ConnectingFailed(u, f) PROVE Typed'
    <2>1. FramesOK'
        BY <1>0, <1>2, FrameEnds DEF ConnectingFailed
    <2>2. StoreOK' /\ LinesOK' /\ (requests \subseteq Requests)'
        BY <1>0, <1>2, HangingUpTyped DEF ConnectingFailed, StoreOK, LinesOK
    <2>3. QED
        BY <1>0, <1>2, <2>1, <2>2, TypedPartsNext
           DEF ConnectingFailed, InvitationsOK, RegisteredOK, EventsOK, PollOK
<1>3. ASSUME NEW f \in frames[u], TokenGranted(u, f) PROVE Typed'
    <2>1. FramesOK'
        BY <1>0, <1>3, FrameEnds, SteppedTyped DEF TokenGranted
    <2>2. QED
        BY <1>0, <1>3, <2>1, TypedPartsNext
           DEF TokenGranted, StoreOK, LinesOK, InvitationsOK, RegisteredOK, EventsOK, PollOK
<1>4. ASSUME NEW f \in frames[u], Connected(u, f) PROVE Typed'
    <2>1. f.at = "connected" /\ f.generation \in Attempts
        BY <1>0, <1>4 DEF Connected, FramesOK, FrameKnown
    <2>2. FramesOK'
        BY <1>0, <1>4, SteppedTyped DEF Connected
    <2>3. LinesOK'
        <3> DEFINE mark(l) == IF l.id = f.generation
                              THEN [l EXCEPT !.handled = TRUE, !.met = l.sees] ELSE l
        <3>1. \A l \in LineType : mark(l) \in LineType
            BY DEF LineType
        <3>2. lines' = [lines EXCEPT ![u] = {mark(l) : l \in @}] \/ UNCHANGED lines
            BY <1>4 DEF Connected
        <3> HIDE DEF mark
        <3>3. QED
            BY <1>0, <3>1, <3>2 DEF LinesOK
    <2>4. StoreOK'
        BY <1>0, <1>4, <2>1 DEF Connected, StoreOK
    <2>5. QED
        BY <1>0, <1>4, <2>2, <2>3, <2>4, TypedPartsNext
           DEF Connected, InvitationsOK, RegisteredOK, EventsOK, PollOK
<1>5. ASSUME NEW f \in frames[u], OldLineLeft(u, f) PROVE Typed'
    <2>1. FramesOK'
        BY <1>0, <1>5, FrameEnds DEF OldLineLeft
    <2>2. StoreOK' /\ LinesOK'
        BY <1>0, <1>5 DEF OldLineLeft, StoreOK, LinesOK
    <2>3. QED
        BY <1>0, <1>5, <2>1, <2>2, TypedPartsNext
           DEF OldLineLeft, InvitationsOK, RegisteredOK, EventsOK, PollOK
<1>6. ASSUME NEW f \in frames[u], MediaReady(u, f) PROVE Typed'
    <2>1. FramesOK'
        BY <1>0, <1>6, FrameEnds DEF MediaReady
    <2>2. StoreOK'
        BY <1>0, <1>6 DEF MediaReady, StoreOK
    <2>3. QED
        BY <1>0, <1>6, <2>1, <2>2, TypedPartsNext
           DEF MediaReady, LinesOK, InvitationsOK, RegisteredOK, EventsOK, PollOK
<1>7. CASE TimerFires(u)
    <2>1. StoreOK' /\ LinesOK' /\ (requests \subseteq Requests)'
        BY <1>0, <1>7, HangingUpTyped DEF TimerFires, StoreOK, LinesOK
    <2>2. QED
        BY <1>0, <1>7, <2>1, TypedPartsNext
           DEF TimerFires, FramesOK, InvitationsOK, RegisteredOK, EventsOK, PollOK
<1>8. CASE handleCallSyncEvent(u)
    <2>1. Tail(events[u]) \in Seq(EventType) /\ Head(events[u]) \in EventType
        BY <1>0, <1>8 DEF handleCallSyncEvent, EventsOK
    <2>2. EventsOK'
        BY <1>0, <1>8, <2>1 DEF handleCallSyncEvent, EventsOK
    <2>3. Head(events[u]).raum \in Rooms
        BY <2>1 DEF EventType
    <2>4. StoreOK' /\ LinesOK' /\ (requests \subseteq Requests)'
        BY <1>0, <1>8, <2>3, HangingUpTyped, ReceivedTyped
           DEF handleCallSyncEvent, StoreOK, LinesOK
    <2>5. QED
        BY <1>0, <1>8, <2>2, <2>4, TypedPartsNext
           DEF handleCallSyncEvent, FramesOK, InvitationsOK, RegisteredOK, PollOK
<1>9. CASE checkActiveCall(u)
    <2>1. poll[u].pending \in Rooms \cup {NoRoom}
        BY <1>0 DEF PollOK
    <2>2. PollOK'
        BY <1>0, <1>9 DEF checkActiveCall, PollOK, NoPoll
    <2>3. StoreOK' /\ LinesOK' /\ (requests \subseteq Requests)'
        BY <1>0, <1>9, <2>1, ReceivedTyped DEF checkActiveCall, StoreOK, LinesOK
    <2>4. QED
        BY <1>0, <1>9, <2>2, <2>3, TypedPartsNext
           DEF checkActiveCall, FramesOK, InvitationsOK, RegisteredOK, EventsOK
<1>10. QED
    BY <1>1, <1>2, <1>3, <1>4, <1>5, <1>6, <1>7, <1>8, <1>9 DEF Client, GoesOn

LEMMA PersonTyped ==
    ASSUME Typed, NEW u \in Users, Person(u)
    PROVE  Typed'
<1>0. /\ StoreOK /\ FramesOK /\ LinesOK /\ InvitationsOK /\ RegisteredOK /\ EventsOK /\ PollOK
      /\ requests \subseteq Requests /\ ObserversOK /\ faults \in 0..MaxFaults
    BY TypedParts
<1> USE DEF store, panel
<1>1. CASE initiateCall(u)
    <2> DEFINE g == [at |-> "invite", raum |-> NoRoom, generation |-> 0, accepts |-> FALSE]
    <2>1. g \in FrameType /\ FrameKnown(g)
        BY DEF FrameType, FrameKnown
    <2>2. frames' = [frames EXCEPT ![u] = @ \cup {g}]
        BY <1>1 DEF initiateCall
    <2> HIDE DEF g
    <2>3. FramesOK'
        BY <1>0, <2>1, <2>2 DEF FramesOK
    <2>4. StoreOK' /\ LinesOK'
        BY <1>0, <1>1 DEF initiateCall, raeumeAuf, StoreOK, LinesOK
    <2>5. QED
        BY <1>0, <1>1, <2>3, <2>4, TypedPartsNext
           DEF initiateCall, InvitationsOK, RegisteredOK, EventsOK, PollOK
<1>2. CASE acceptCall(u)
    <2>1. raum[u] \in Rooms /\ ConnectingTo(u, raum[u], frames[u], TRUE)
        BY <1>0, <1>2 DEF acceptCall, StoreOK
    <2>2. FramesOK' /\ generation' \in [Users -> {0} \cup Attempts]
        BY <1>0, <2>1, ConnectingTyped
    <2>3. StoreOK'
        BY <1>0, <1>2, <2>2 DEF acceptCall, StoreOK
    <2>4. QED
        BY <1>0, <1>2, <2>2, <2>3, TypedPartsNext
           DEF acceptCall, LinesOK, InvitationsOK, RegisteredOK, EventsOK, PollOK
<1>3. CASE Decline(u) \/ HangUp(u)
    BY <1>0, <1>3, HangingUpTyped, TypedPartsNext
       DEF Decline, HangUp, FramesOK, InvitationsOK, RegisteredOK, EventsOK, PollOK
<1>4. QED
    BY <1>1, <1>2, <1>3 DEF Person

LEMMA InitTyped == ASSUME Init PROVE Typed
<1>1. StoreOK /\ FramesOK /\ LinesOK /\ RegisteredOK
    BY DEF Init, StoreOK, FramesOK, LinesOK, RegisteredOK
<1>2. NoInvitation \in [at: {"none", "ringing", "accepted", "consumed", "expired"},
                        creator: Users]
    BY TwoPeople DEF NoInvitation
<1>3. InvitationsOK
    BY <1>2 DEF Init, InvitationsOK
<1>4. EventsOK /\ PollOK
    BY DEF Init, EventsOK, PollOK, NoPoll
<1>5. QED
    BY <1>1, <1>3, <1>4, TypedParts, Bounds DEF Init

LEMMA TypedStep == ASSUME Typed, [Next]_vars PROVE Typed'
<1>1. CASE Next
    BY <1>1, WorldTyped, PersonTyped, ClientTyped DEF Next
<1>2. CASE UNCHANGED vars
    <2>1. UNCHANGED <<phase, raum, angenommen, timer, generation, verbindung, frames, lines,
                      poll, invitation, registered, events, requests, dialled, displaced, untimed,
                      faults>>
        BY <1>2 DEF vars, store, panel
    <2>2. QED
        BY <2>1 DEF Typed, TypeOK, Known
<1>3. QED
    BY <1>1, <1>2

\* The types of the store of each client, of its frames and lines, of the panel and of
\* what is under way hold whatever happens between two awaits of whom.
THEOREM TypeCorrect == Spec => []TypeOK
<1>1. Typed /\ [Next]_vars => Typed'
    BY TypedStep
<1>2. Init => Typed
    BY InitTyped
<1>3. Typed => TypeOK
    BY DEF Typed
<1>4. QED
    BY <1>1, <1>2, <1>3, PTL DEF Spec

-----------------------------------------------------------------------------
(* The lines of a client.                                                  *)

\* What a client may have open: ph, g and w are its phase, its generation and the
\* connection it knows of, F its frames and L its lines.  An attempt that is still
\* opening has no line, and one that leaves is not the current one; and unless u is in D,
\* the displaced, every line is the connection of the current attempt or has a frame that
\* looks at it next.
Opening == {"token", "granted", "connect", "refused"}

Sound(u, D, ph, g, w, F, L) ==
    /\ \A f \in F : f.at \in {"invite", "invited"} <=> f.generation = 0
    /\ \A f, h \in F : f.generation # 0 /\ f.generation = h.generation => f = h
    /\ \A k, l \in L : k.id = l.id => k = l
    /\ \A f \in F : f.at \in Opening =>
           w # f.generation /\ \A l \in L : l.id # f.generation
    /\ \A f \in F : f.at = "connected" => w # f.generation
    /\ \A f \in F : f.at = "leaving" => g # f.generation
    /\ ph \in {"idle", "incoming"} => g = 0
    /\ w # 0 /\ w # g /\ u \notin D => \E f \in F : f.at = "leaving" /\ f.generation = w
    /\ \A l \in L :
           \/ u \in D
           \/ l.id = w /\ l.id = g
           \/ \E f \in F : f.generation = l.id /\ f.at \in {"connected", "leaving"}

LinesSound ==
    \A u \in Users : Sound(u, displaced, phase[u], generation[u], verbindung[u], frames[u],
                           lines[u])

\* Who is displaced remains so.
Marked == displaced \subseteq displaced'

\* raeumeAuf leaves only lines that a frame of theirs looks at next.
LEMMA SoundOver ==
    ASSUME NEW u, NEW D, NEW ph, NEW g, NEW w, NEW F, NEW L, Sound(u, D, ph, g, w, F, L), NEW after
    PROVE  Sound(u, D, after, 0, 0, F, {l \in L : l.id # w})
BY DEF Sound, Opening

LEMMA SoundPhase ==
    ASSUME NEW u, NEW D, NEW ph, NEW g, NEW w, NEW F, NEW L, Sound(u, D, ph, g, w, F, L), NEW after,
           after \notin {"idle", "incoming"} \/ ph \in {"idle", "incoming"}
    PROVE  Sound(u, D, after, g, w, F, L)
BY DEF Sound

\* A frame may end when it has no line.
LEMMA SoundEnds ==
    ASSUME NEW u, NEW D, NEW ph, NEW g, NEW w, NEW F, NEW L, Sound(u, D, ph, g, w, F, L),
           NEW f \in F,
           f.at \notin {"connected", "leaving"}
    PROVE  Sound(u, D, ph, g, w, F \ {f}, L)
BY DEF Sound

LEMMA SoundLineGone ==
    ASSUME NEW u, NEW D, NEW ph, NEW g, NEW w, NEW F, NEW L, Sound(u, D, ph, g, w, F, L), NEW l
    PROVE  Sound(u, D, ph, g, w, F, L \ {l})
BY DEF Sound

LEMMA SoundSeen ==
    ASSUME NEW u, NEW D, NEW ph, NEW g, NEW w, NEW F, NEW L, Sound(u, D, ph, g, w, F, L),
           NEW l \in L,
           NEW k, k.id = l.id
    PROVE  Sound(u, D, ph, g, w, F, (L \ {l}) \cup {k})
BY DEF Sound

\* A frame before its token has no number.
LEMMA SoundInvites ==
    ASSUME NEW u, NEW D, NEW ph, NEW g, NEW w, NEW F, NEW L, Sound(u, D, ph, g, w, F, L), NEW f,
           NEW d,
           f.generation = 0, f.at \in {"invite", "invited"},
           d \in F => d.at \in {"invite", "invited"}
    PROVE  Sound(u, D, ph, g, w, (F \ {d}) \cup {f}, L)
BY DEF Sound, Opening

LEMMA SoundOpening ==
    ASSUME NEW u, NEW D, NEW ph, NEW g, NEW w, NEW F, NEW L, Sound(u, D, ph, g, w, F, L),
           NEW f \in F, NEW h,
           f.at \in Opening, h.at \in Opening, h.generation = f.generation
    PROVE  Sound(u, D, ph, g, w, (F \ {f}) \cup {h}, L)
BY DEF Sound, Opening

LEMMA SoundMedia ==
    ASSUME NEW u, NEW D, NEW ph, NEW g, NEW w, NEW F, NEW L, Sound(u, D, ph, g, w, F, L),
           NEW f \in F, NEW l, NEW h,
           f.at = "connect", h.at = "connected", h.generation = f.generation,
           l.id = f.generation
    PROVE  Sound(u, D, ph, g, w, (F \ {f}) \cup {h}, L \cup {l})
BY DEF Sound, Opening

LEMMA SoundMore ==
    ASSUME NEW u, NEW D, NEW E, D \subseteq E, NEW ph, NEW g, NEW w, NEW F, NEW L,
           Sound(u, D, ph, g, w, F, L)
    PROVE  Sound(u, E, ph, g, w, F, L)
BY DEF Sound

\* A new attempt takes the place of none, or displaces one.
LEMMA SoundConnects ==
    ASSUME NEW u, NEW D, NEW ph, NEW g, NEW w, NEW F, NEW L, Sound(u, D, ph, g, w, F, L),
           g = 0 \/ u \in D, \A l \in L : l.id # 0,
           NEW n, n # 0, n # w, \A f \in F : f.generation # n, \A l \in L : l.id # n,
           NEW others \in SUBSET F,
           \A f \in F : f.at \in {"connected", "leaving"} => f \in others,
           NEW h, h.at = "token", h.generation = n,
           NEW after, after \notin {"idle", "incoming"}
    PROVE  Sound(u, D, after, n, w, others \cup {h}, L)
BY DEF Sound, Opening

\* The lines M are some of the lines L, by their numbers.
Named(M, L) ==
    /\ \A m \in M : \E l \in L : m.id = l.id
    /\ \A k, m \in M : k.id = m.id => k = m

LEMMA SoundCurrent ==
    ASSUME NEW u, NEW D, NEW ph, NEW w, NEW F, NEW L, NEW M,
           NEW f \in F, NEW h, f.at = "connected", h.at = "media",
           f.generation # 0, h.generation = f.generation,
           Sound(u, D, ph, f.generation, w, F, L), Named(M, L)
    PROVE  Sound(u, D, ph, f.generation, f.generation, (F \ {f}) \cup {h}, M)
BY DEF Sound, Opening, Named

\* The line of an old attempt is known, and left, while no other is; or it displaces that.
LEMMA SoundOld ==
    ASSUME NEW u, NEW D, NEW ph, NEW g, NEW w, NEW F, NEW L, Sound(u, D, ph, g, w, F, L),
           w = 0 \/ u \in D, \A l \in L : l.id # 0,
           NEW f \in F, NEW h, f.at = "connected", h.at = "leaving",
           f.generation # 0, h.generation = f.generation, f.generation # g
    PROVE  Sound(u, D, ph, g, f.generation, (F \ {f}) \cup {h}, L)
BY DEF Sound, Opening

LEMMA SoundLeft ==
    ASSUME NEW u, NEW D, NEW ph, NEW g, NEW w, NEW F, NEW L, Sound(u, D, ph, g, w, F, L),
           NEW f \in F, f.at = "leaving", f.generation # 0,
           w \in {0, f.generation} \/ u \in D, \A l \in L : l.id # 0
    PROVE  Sound(u, D, ph, g, 0, F \ {f}, {l \in L : l.id # f.generation})
BY DEF Sound, Opening

LEMMA LineFacts ==
    ASSUME Typed, NEW u \in Users
    PROVE  /\ verbindung[u] \in {0} \cup Attempts /\ generation[u] \in {0} \cup Attempts
           /\ \A f \in frames[u] : f.generation \in {0} \cup Attempts /\ f \in FrameType
           /\ \A l \in lines[u] : l.id \in Attempts /\ l \in LineType
BY DEF Typed, TypeOK, FrameType, LineType

LEMMA NumbersArePositive == 0 \notin Attempts
BY DEF Attempts

\* A step of u that leaves it so.
Becomes(u, ph, g, w, F, L) ==
    /\ phase' = [phase EXCEPT ![u] = ph] /\ generation' = [generation EXCEPT ![u] = g]
    /\ verbindung' = [verbindung EXCEPT ![u] = w] /\ frames' = [frames EXCEPT ![u] = F]
    /\ lines' = [lines EXCEPT ![u] = L]

LEMMA SoundStep ==
    ASSUME Typed, LinesSound, Marked, NEW u \in Users, NEW D \in {displaced, displaced'},
           NEW ph, NEW g, NEW w, NEW F, NEW L, Sound(u, D, ph, g, w, F, L),
           Becomes(u, ph, g, w, F, L)
    PROVE  LinesSound'
<1>1. /\ phase'[u] = ph /\ generation'[u] = g /\ verbindung'[u] = w
      /\ frames'[u] = F /\ lines'[u] = L
    BY DEF Becomes, Typed, TypeOK
<1>2. ASSUME NEW v \in Users, v # u
      PROVE  /\ phase'[v] = phase[v] /\ generation'[v] = generation[v]
             /\ verbindung'[v] = verbindung[v] /\ frames'[v] = frames[v]
             /\ lines'[v] = lines[v]
    BY <1>2 DEF Becomes, Typed, TypeOK
<1>3. ASSUME NEW v \in Users
      PROVE  Sound(v, displaced', phase'[v], generation'[v], verbindung'[v], frames'[v],
                   lines'[v])
    <2>1. CASE v = u
        <3>1. D \subseteq displaced'
            BY DEF Marked
        <3>2. QED
            BY <1>1, <2>1, <3>1, SoundMore
    <2>2. CASE v # u
        <3>1. Sound(v, displaced, phase'[v], generation'[v], verbindung'[v], frames'[v],
                    lines'[v])
            BY <1>2, <2>2 DEF LinesSound
        <3>2. QED
            BY <3>1, SoundMore DEF Marked
    <2>3. QED
        BY <2>1, <2>2
<1>4. QED
    BY <1>3 DEF LinesSound

LEMMA Same ==
    ASSUME Typed, NEW u \in Users
    PROVE  /\ phase = [phase EXCEPT ![u] = phase[u]]
           /\ generation = [generation EXCEPT ![u] = generation[u]]
           /\ verbindung = [verbindung EXCEPT ![u] = verbindung[u]]
           /\ frames = [frames EXCEPT ![u] = frames[u]]
           /\ lines = [lines EXCEPT ![u] = lines[u]]
           /\ (LinesSound =>
                 Sound(u, displaced, phase[u], generation[u], verbindung[u], frames[u], lines[u]))
BY DEF LinesSound, Typed, TypeOK

LEMMA QuietSound ==
    ASSUME LinesSound, Marked, UNCHANGED <<phase, generation, verbindung, frames, lines>>
    PROVE  LinesSound'
BY SoundMore DEF LinesSound, Marked

LEMMA EndCallSound ==
    ASSUME Typed, LinesSound, Marked, NEW u \in Users, NEW ops, EndCallSending(u, ops),
           NEW F, frames' = [frames EXCEPT ![u] = F],
           Sound(u, displaced, phase[u], generation[u], verbindung[u], F, lines[u])
    PROVE  LinesSound'
<1>1. Sound(u, displaced, "idle", 0, 0, F, {l \in lines[u] : l.id # verbindung[u]})
    BY SoundOver
<1>2. QED
    <2>1. Becomes(u, "idle", 0, 0, F, {l \in lines[u] : l.id # verbindung[u]})
        BY <1>1, Same DEF Becomes, EndCallSending, raeumeAuf
    <2>2. QED
        BY <1>1, <2>1, SoundStep

LEMMA HangingUpSound ==
    ASSUME Typed, LinesSound, Marked, NEW u \in Users, endCall(u) \/ rejectCall(u), UNCHANGED frames
    PROVE  LinesSound'
BY EndCallSound, Same DEF endCall, rejectCall

LEMMA ReceivedSound ==
    ASSUME Typed, LinesSound, Marked, NEW u \in Users, NEW r, receiveCall(u, r), UNCHANGED frames
    PROVE  LinesSound'
<1>1. CASE UNCHANGED <<store, lines>>
    BY <1>1, QuietSound DEF store
<1>2. CASE raeumeAuf(u) /\ phase' = [phase EXCEPT ![u] = "incoming"]
    <2>1. Sound(u, displaced, "incoming", 0, 0, frames[u], {l \in lines[u] : l.id # verbindung[u]})
        BY SoundOver, Same
    <2>2. QED
        <3>1. Becomes(u, "incoming", 0, 0, frames[u], {l \in lines[u] : l.id # verbindung[u]})
            BY <1>2, <2>1, Same DEF Becomes, raeumeAuf
        <3>2. QED
            BY <1>2, <2>1, <3>1, SoundStep
<1>3. QED
    BY <1>1, <1>2 DEF receiveCall

LEMMA ConnectingSound ==
    ASSUME Typed, LinesSound, Marked, NEW u \in Users, NEW r,
           NEW others \in SUBSET frames[u], NEW accepts, ConnectingTo(u, r, others, accepts),
           \A f \in frames[u] : f.at \in {"connected", "leaving"} => f \in others,
           generation[u] = 0 \/ u \in displaced',
           NEW after, after \notin {"idle", "incoming"}, phase' = [phase EXCEPT ![u] = after],
           UNCHANGED <<verbindung, lines>>
    PROVE  LinesSound'
<1>1. PICK n \in Unused(u) :
          /\ generation' = [generation EXCEPT ![u] = n]
          /\ frames' = [frames EXCEPT ![u] = others \cup
                 {[at |-> "token", raum |-> r, generation |-> n, accepts |-> accepts]}]
    BY DEF ConnectingTo
<1>2. /\ n \in Attempts /\ n # verbindung[u] /\ \A f \in frames[u] : f.generation # n
      /\ \A l \in lines[u] : l.id # n
    BY DEF Unused
<1> DEFINE h == [at |-> "token", raum |-> r, generation |-> n, accepts |-> accepts]
<1>3. h.at = "token" /\ h.generation = n /\ frames' = [frames EXCEPT ![u] = others \cup {h}]
    BY <1>1
<1> HIDE DEF h
<1>4. Sound(u, displaced', phase[u], generation[u], verbindung[u], frames[u], lines[u])
    BY Same, SoundMore DEF Marked
<1>5. /\ n # 0 /\ n # verbindung[u] /\ \A f \in frames[u] : f.generation # n
      /\ \A l \in lines[u] : l.id # 0 /\ l.id # n
    BY <1>2, LineFacts, NumbersArePositive
<1>6. Sound(u, displaced', after, n, verbindung[u], others \cup {h}, lines[u])
    BY <1>3, <1>4, <1>5, SoundConnects
<1>7. QED
    <2>1. Becomes(u, after, n, verbindung[u], others \cup {h}, lines[u])
        BY <1>1, <1>3, <1>6, Same DEF Becomes
    <2>2. QED
        BY <1>1, <1>3, <1>6, <2>1, SoundStep

\* A frame that is still opening goes on without a line.
LEMMA OpeningSound ==
    ASSUME Typed, LinesSound, Marked, NEW u \in Users, NEW f \in frames[u], f.at \in Opening,
           NEW at \in Opening, frames' = Stepped(u, f, at),
           UNCHANGED <<phase, generation, verbindung, lines>>
    PROVE  LinesSound'
<1> DEFINE h == [f EXCEPT !.at = at]
<1>1. f \in FrameType
    BY LineFacts
<1>2. h.at = at /\ h.generation = f.generation
    BY <1>1 DEF FrameType
<1>3. frames' = [frames EXCEPT ![u] = (frames[u] \ {f}) \cup {h}]
    BY Same DEF Stepped
<1> HIDE DEF h
<1>4. Sound(u, displaced, phase[u], generation[u], verbindung[u], (frames[u] \ {f}) \cup {h},
            lines[u])
    BY <1>2, Same, SoundOpening
<1>5. QED
    <2>1. Becomes(u, phase[u], generation[u], verbindung[u],
                  (frames[u] \ {f}) \cup {h}, lines[u])
        BY <1>3, <1>4, Same DEF Becomes
    <2>2. QED
        BY <1>3, <1>4, <2>1, SoundStep

LEMMA ServedSound ==
    ASSUME Typed, LinesSound, Marked, NEW u \in Users, Served(u)
    PROVE  LinesSound'
<1> USE DEF store
<1>0. Sound(u, displaced, phase[u], generation[u], verbindung[u], frames[u], lines[u])
    BY Same
<1>1. ASSUME NEW f \in frames[u], InviteServed(u, f) PROVE LinesSound'
    <2>1. f \in FrameType /\ f.at = "invite" /\ f.generation = 0
        BY <1>0, <1>1, LineFacts DEF InviteServed, Sound
    <2>2. CASE frames' = [frames EXCEPT ![u] = @ \ {f}]
        <3>1. Sound(u, displaced, phase[u], generation[u], verbindung[u], frames[u] \ {f}, lines[u])
            BY <1>0, <2>1, SoundEnds
        <3>2. UNCHANGED <<phase, generation, verbindung, lines>>
            BY <1>1 DEF InviteServed
        <3>3. QED
            <4>1. Becomes(u, phase[u], generation[u], verbindung[u], frames[u] \ {f}, lines[u])
                BY <2>2, <3>1, <3>2, Same DEF Becomes
            <4>2. QED
                BY <2>2, <3>1, <3>2, <4>1, SoundStep
    <2>3. ASSUME NEW r, frames' = [frames EXCEPT ![u] = (@ \ {f}) \cup
                                      {[f EXCEPT !.at = "invited", !.raum = r]}]
          PROVE  LinesSound'
        <3> DEFINE h == [f EXCEPT !.at = "invited", !.raum = r]
        <3>1. h.at = "invited" /\ h.generation = 0
            BY <2>1 DEF FrameType
        <3>2. frames' = [frames EXCEPT ![u] = (frames[u] \ {f}) \cup {h}]
            BY <2>3
        <3> HIDE DEF h
        <3>3. Sound(u, displaced, phase[u], generation[u], verbindung[u],
                    (frames[u] \ {f}) \cup {h}, lines[u])
            BY <1>0, <2>1, <3>1, SoundInvites
        <3>4. UNCHANGED <<phase, generation, verbindung, lines>>
            BY <1>1 DEF InviteServed
        <3>5. QED
            <4>1. Becomes(u, phase[u], generation[u], verbindung[u],
                          (frames[u] \ {f}) \cup {h}, lines[u])
                BY <3>2, <3>3, <3>4, Same DEF Becomes
            <4>2. QED
                BY <3>2, <3>3, <3>4, <4>1, SoundStep
    <2>4. QED
        BY <1>1, <2>2, <2>3 DEF InviteServed
<1>2. ASSUME NEW f \in frames[u], TokenServed(u, f) PROVE LinesSound'
    <2>1. f.at \in Opening /\ UNCHANGED <<phase, generation, verbindung, lines>>
        BY <1>2 DEF TokenServed, Opening
    <2>2. frames' = Stepped(u, f, "refused") \/ frames' = Stepped(u, f, "granted")
        BY <1>2 DEF TokenServed
    <2>3. QED
        BY <2>1, <2>2, OpeningSound DEF Opening
<1>3. ASSUME NEW f \in frames[u], LineOpens(u, f) PROVE LinesSound'
    <2>1. f.at = "connect" /\ UNCHANGED <<phase, generation, verbindung>> /\ f \in FrameType
        BY <1>3, LineFacts DEF LineOpens
    <2>2. CASE frames' = Stepped(u, f, "refused") /\ UNCHANGED lines
        BY <2>1, <2>2, OpeningSound DEF Opening
    <2> DEFINE l == [id |-> f.generation, raum |-> f.raum,
                     sees |-> Other(u) \in Present(f.raum), met |-> FALSE, handled |-> FALSE]
               h == [f EXCEPT !.at = "connected"]
    <2>3. CASE frames' = Stepped(u, f, "connected") /\ lines' = [lines EXCEPT ![u] = @ \cup {l}]
        <3>1. h.at = "connected" /\ h.generation = f.generation /\ l.id = f.generation
            BY <2>1 DEF FrameType
        <3>2. /\ frames' = [frames EXCEPT ![u] = (frames[u] \ {f}) \cup {h}]
              /\ lines' = [lines EXCEPT ![u] = lines[u] \cup {l}]
            BY <2>3, Same DEF Stepped
        <3> HIDE DEF h, l
        <3>3. Sound(u, displaced, phase[u], generation[u], verbindung[u],
                    (frames[u] \ {f}) \cup {h},
                    lines[u] \cup {l})
            BY <1>0, <2>1, <3>1, SoundMedia
        <3>4. QED
            <4>1. Becomes(u, phase[u], generation[u], verbindung[u],
                          (frames[u] \ {f}) \cup {h}, lines[u] \cup {l})
                BY <2>1, <3>2, <3>3, Same DEF Becomes
            <4>2. QED
                BY <2>1, <3>2, <3>3, <4>1, SoundStep
    <2>4. QED
        BY <1>3, <2>2, <2>3 DEF LineOpens
<1>4. QED
    BY <1>1, <1>2, <1>3 DEF Served

LEMMA InRoomSound ==
    ASSUME Typed, LinesSound, Marked, NEW u \in Users, NEW l \in lines[u],
           \/ ParticipantConnected(u, l) \/ ParticipantDisconnected(u, l) \/ Disconnected(u, l)
    PROVE  LinesSound'
<1> USE DEF store
<1>0. /\ Sound(u, displaced, phase[u], generation[u], verbindung[u], frames[u], lines[u])
      /\ l \in LineType /\ l.id # 0 /\ UNCHANGED frames
    BY Same, LineFacts, NumbersArePositive
       DEF ParticipantConnected, ParticipantDisconnected, Disconnected
<1>1. CASE endCall(u)
    BY <1>0, <1>1, HangingUpSound
<1>2. CASE lines' = [lines EXCEPT ![u] = @ \ {l}] /\ UNCHANGED store
    <2>1. Sound(u, displaced, phase[u], generation[u], verbindung[u], frames[u], lines[u] \ {l})
        BY <1>0, SoundLineGone
    <2>2. lines' = [lines EXCEPT ![u] = lines[u] \ {l}]
        BY <1>2
    <2>3. QED
        <3>1. Becomes(u, phase[u], generation[u], verbindung[u], frames[u], lines[u] \ {l})
            BY <1>0, <1>2, <2>1, <2>2, Same DEF Becomes
        <3>2. QED
            BY <1>0, <1>2, <2>1, <2>2, <3>1, SoundStep
<1>3. ASSUME NEW here \in BOOLEAN, lines' = Seeing(u, l, here),
             UNCHANGED <<generation, verbindung>>,
             NEW after, phase' = [phase EXCEPT ![u] = after],
             after \notin {"idle", "incoming"} \/ after = phase[u]
      PROVE  LinesSound'
    <2> DEFINE k == [l EXCEPT !.sees = here, !.met = @ \/ (here /\ l.handled)]
    <2>1. k.id = l.id
        BY <1>0 DEF LineType
    <2>2. lines' = [lines EXCEPT ![u] = (lines[u] \ {l}) \cup {k}]
        BY <1>3 DEF Seeing
    <2> HIDE DEF k
    <2>3. Sound(u, displaced, phase[u], generation[u], verbindung[u], frames[u],
                (lines[u] \ {l}) \cup {k})
        BY <1>0, <2>1, SoundSeen
    <2>4. Sound(u, displaced, after, generation[u], verbindung[u], frames[u],
                (lines[u] \ {l}) \cup {k})
        BY <1>3, <2>3, SoundPhase
    <2>5. QED
        <3>1. Becomes(u, after, generation[u], verbindung[u],
                      frames[u], (lines[u] \ {l}) \cup {k})
            BY <1>0, <1>3, <2>2, <2>4, Same DEF Becomes
        <3>2. QED
            BY <1>0, <1>3, <2>2, <2>4, <3>1, SoundStep
<1>4. CASE lines' = Seeing(u, l, FALSE) /\ UNCHANGED store
    BY <1>3, <1>4, Same
<1>5. CASE ParticipantConnected(u, l)
    <2>1. lines' = Seeing(u, l, TRUE) /\ UNCHANGED <<generation, verbindung>>
        BY <1>5 DEF ParticipantConnected
    <2>2. phase' = [phase EXCEPT ![u] = "active"] \/ phase' = [phase EXCEPT ![u] = phase[u]]
        BY <1>5, Same DEF ParticipantConnected
    <2>3. QED
        BY <1>3, <2>1, <2>2
<1>6. QED
    BY <1>1, <1>2, <1>4, <1>5 DEF ParticipantDisconnected, Disconnected

LEMMA GoesOnSound ==
    ASSUME Typed, LinesSound, Marked, NEW u \in Users, GoesOn(u)
    PROVE  LinesSound'
<1> USE DEF store
<1>0. Sound(u, displaced, phase[u], generation[u], verbindung[u], frames[u], lines[u])
    BY Same
<1>1. ASSUME NEW f \in frames[u], Dialled(u, f) PROVE LinesSound'
    <2>1. /\ generation[u] = 0 \/ u \in displaced'
          /\ \A h \in frames[u] : h.at \in {"connected", "leaving"} => h \in frames[u] \ {f}
        BY <1>1 DEF Dialled
    <2>2. QED
        BY <1>1, <2>1, ConnectingSound DEF Dialled
<1>2. ASSUME NEW f \in frames[u], ConnectingFailed(u, f) PROVE LinesSound'
    <2>1. Sound(u, displaced, phase[u], generation[u], verbindung[u], frames[u] \ {f}, lines[u])
        BY <1>0, <1>2, SoundEnds DEF ConnectingFailed
    <2>2. frames' = [frames EXCEPT ![u] = frames[u] \ {f}]
        BY <1>2 DEF ConnectingFailed
    <2>3. CASE endCall(u)
        BY <2>1, <2>2, <2>3, EndCallSound DEF endCall
    <2>4. CASE UNCHANGED <<store, lines>>
        <3>1. Becomes(u, phase[u], generation[u], verbindung[u], frames[u] \ {f}, lines[u])
            BY <2>1, <2>2, <2>4, Same DEF Becomes
        <3>2. QED
            BY <2>1, <2>2, <2>4, <3>1, SoundStep
    <2>5. QED
        BY <1>2, <2>3, <2>4 DEF ConnectingFailed
<1>3. ASSUME NEW f \in frames[u], TokenGranted(u, f) PROVE LinesSound'
    <2>1. f.at = "granted" /\ UNCHANGED <<phase, generation, verbindung, lines>>
        BY <1>3 DEF TokenGranted
    <2>2. CASE frames' = Stepped(u, f, "connect")
        BY <2>1, <2>2, OpeningSound DEF Opening
    <2>3. CASE frames' = [frames EXCEPT ![u] = @ \ {f}]
        <3>1. Sound(u, displaced, phase[u], generation[u], verbindung[u], frames[u] \ {f}, lines[u])
            BY <1>0, <2>1, SoundEnds
        <3>2. QED
            <4>1. Becomes(u, phase[u], generation[u], verbindung[u], frames[u] \ {f}, lines[u])
                BY <2>1, <2>3, <3>1, Same DEF Becomes
            <4>2. QED
                BY <2>1, <2>3, <3>1, <4>1, SoundStep
    <2>4. QED
        BY <1>3, <2>2, <2>3 DEF TokenGranted
<1>4. ASSUME NEW f \in frames[u], Connected(u, f) PROVE LinesSound'
    <2>1. /\ f.at = "connected" /\ f \in FrameType /\ f.generation \in Attempts
          /\ UNCHANGED <<phase, generation>>
          /\ verbindung' = [verbindung EXCEPT ![u] = f.generation]
        BY <1>4, LineFacts, <1>0 DEF Connected, Sound
    <2>2. CASE f.generation = generation[u] /\ frames' = Stepped(u, f, "media")
        <3> DEFINE h == [f EXCEPT !.at = "media"]
                   mark(l) == IF l.id = f.generation
                              THEN [l EXCEPT !.handled = TRUE, !.met = l.sees] ELSE l
        <3>1. h.at = "media" /\ h.generation = f.generation
            BY <2>1 DEF FrameType
        <3>2. frames' = [frames EXCEPT ![u] = (frames[u] \ {f}) \cup {h}]
            BY <2>2, Same DEF Stepped
        <3>3. \A l \in LineType : mark(l).id = l.id
            BY DEF LineType
        <3>4. lines' = [lines EXCEPT ![u] = {mark(l) : l \in @}] \/ UNCHANGED lines
            BY <1>4 DEF Connected
        <3> HIDE DEF h, mark
        <3>5. PICK M : /\ lines' = [lines EXCEPT ![u] = M]
                       /\ M = {mark(l) : l \in lines[u]} \/ M = lines[u]
            BY <3>4, Same
        <3>6. \A m \in M : \E l \in lines[u] : m.id = l.id
            BY <3>3, <3>5, LineFacts
        <3>7. \A k, m \in M : k.id = m.id => k = m
            <4>1. \A k, l \in lines[u] : k.id = l.id => k = l
                BY <1>0 DEF Sound
            <4>2. CASE M = lines[u]
                BY <4>1, <4>2
            <4>3. CASE M = {mark(l) : l \in lines[u]}
                <5>1. SUFFICES ASSUME NEW a \in lines[u], NEW b \in lines[u],
                                      mark(a).id = mark(b).id
                               PROVE  mark(a) = mark(b)
                    BY <4>3
                <5>2. a.id = b.id
                    BY <3>3, <5>1, LineFacts
                <5>3. QED
                    BY <4>1, <5>2
            <4>4. QED
                BY <3>5, <4>2, <4>3
        <3>8. Sound(u, displaced, phase[u], f.generation, f.generation,
                    (frames[u] \ {f}) \cup {h}, M)
            <4>1. Sound(u, displaced, phase[u], f.generation, verbindung[u], frames[u], lines[u])
                BY <1>0, <2>2
            <4>2. f.generation # 0
                BY <2>1, NumbersArePositive
            <4>3. Named(M, lines[u])
                BY <3>6, <3>7 DEF Named
            <4>4. QED
                BY <2>1, <3>1, <4>1, <4>2, <4>3, SoundCurrent
        <3>9. QED
            <4>1. Becomes(u, phase[u], f.generation, f.generation,
                          (frames[u] \ {f}) \cup {h}, M)
                BY <2>1, <2>2, <3>2, <3>5, <3>8, Same DEF Becomes
            <4>2. QED
                BY <2>1, <2>2, <3>2, <3>5, <3>8, <4>1, SoundStep
    <2>3. CASE f.generation # generation[u] /\ frames' = Stepped(u, f, "leaving")
               /\ UNCHANGED lines
        <3> DEFINE h == [f EXCEPT !.at = "leaving"]
        <3>1. h.at = "leaving" /\ h.generation = f.generation
            BY <2>1 DEF FrameType
        <3>2. frames' = [frames EXCEPT ![u] = (frames[u] \ {f}) \cup {h}]
            BY <2>3, Same DEF Stepped
        <3> HIDE DEF h
        <3>3. Sound(u, displaced', phase[u], generation[u], f.generation,
                    (frames[u] \ {f}) \cup {h}, lines[u])
            <4>1. Sound(u, displaced', phase[u], generation[u], verbindung[u], frames[u], lines[u])
                BY <1>0, SoundMore DEF Marked
            <4>2. verbindung[u] = 0 \/ u \in displaced'
                BY <1>4, <2>3 DEF Connected
            <4>3. f.generation # 0 /\ \A l \in lines[u] : l.id # 0
                BY <2>1, LineFacts, NumbersArePositive
            <4>4. QED
                BY <2>1, <2>3, <3>1, <4>1, <4>2, <4>3, SoundOld
        <3>4. QED
            <4>1. Becomes(u, phase[u], generation[u], f.generation,
                          (frames[u] \ {f}) \cup {h}, lines[u])
                BY <2>1, <2>3, <3>2, <3>3, Same DEF Becomes
            <4>2. QED
                BY <2>1, <2>3, <3>2, <3>3, <4>1, SoundStep
    <2>4. QED
        BY <1>4, <2>2, <2>3 DEF Connected
<1>5. ASSUME NEW f \in frames[u], OldLineLeft(u, f) PROVE LinesSound'
    <2>1. f.at = "leaving" /\ f.generation \in Attempts
        BY <1>0, <1>5, LineFacts DEF OldLineLeft, Sound
    <2>2. Sound(u, displaced', phase[u], generation[u], 0, frames[u] \ {f},
                {l \in lines[u] : l.id # f.generation})
        <3>1. Sound(u, displaced', phase[u], generation[u], verbindung[u], frames[u], lines[u])
            BY <1>0, SoundMore DEF Marked
        <3>2. verbindung[u] \in {0, f.generation} \/ u \in displaced'
            BY <1>5 DEF OldLineLeft
        <3>3. f.generation # 0 /\ \A l \in lines[u] : l.id # 0
            BY <2>1, LineFacts, NumbersArePositive
        <3>4. QED
            BY <2>1, <3>1, <3>2, <3>3, SoundLeft
    <2>3. /\ frames' = [frames EXCEPT ![u] = frames[u] \ {f}]
          /\ lines' = [lines EXCEPT ![u] = {l \in lines[u] : l.id # f.generation}]
          /\ verbindung' = [verbindung EXCEPT ![u] = 0] /\ UNCHANGED <<phase, generation>>
        BY <1>5 DEF OldLineLeft
    <2>4. QED
        <3>1. Becomes(u, phase[u], generation[u], 0,
                      frames[u] \ {f}, {l \in lines[u] : l.id # f.generation})
            BY <2>2, <2>3, Same DEF Becomes
        <3>2. QED
            BY <2>2, <2>3, <3>1, SoundStep
<1>6. ASSUME NEW f \in frames[u], MediaReady(u, f) PROVE LinesSound'
    <2>1. Sound(u, displaced, phase[u], generation[u], verbindung[u], frames[u] \ {f}, lines[u])
        BY <1>0, <1>6, SoundEnds DEF MediaReady
    <2>2. Sound(u, displaced, "active", generation[u], verbindung[u], frames[u] \ {f}, lines[u])
        BY <2>1, SoundPhase
    <2>3. /\ frames' = [frames EXCEPT ![u] = frames[u] \ {f}]
          /\ phase' = [phase EXCEPT ![u] = "active"]
          /\ UNCHANGED <<generation, verbindung, lines>>
        BY <1>6 DEF MediaReady
    <2>4. QED
        <3>1. Becomes(u, "active", generation[u], verbindung[u], frames[u] \ {f}, lines[u])
            BY <2>2, <2>3, Same DEF Becomes
        <3>2. QED
            BY <2>2, <2>3, <3>1, SoundStep
<1>7. QED
    BY <1>1, <1>2, <1>3, <1>4, <1>5, <1>6 DEF GoesOn

LEMMA ClientSound ==
    ASSUME Typed, LinesSound, Marked, NEW u \in Users, Client(u) \/ Person(u)
    PROVE  LinesSound'
<1> USE DEF store
<1>0. Sound(u, displaced, phase[u], generation[u], verbindung[u], frames[u], lines[u])
    BY Same
<1>1. CASE GoesOn(u)
    BY <1>1, GoesOnSound
<1>2. CASE TimerFires(u)
    BY <1>2, HangingUpSound, QuietSound DEF TimerFires
<1>3. CASE handleCallSyncEvent(u)
    BY <1>3, HangingUpSound, ReceivedSound, QuietSound DEF handleCallSyncEvent
<1>4. CASE checkActiveCall(u)
    <2>1. UNCHANGED frames
        BY <1>4 DEF checkActiveCall
    <2>2. CASE /\ phase[u] = "incoming" /\ phase' = [phase EXCEPT ![u] = "idle"]
               /\ UNCHANGED <<generation, verbindung, lines>>
        <3>1. Sound(u, displaced, "idle", generation[u], verbindung[u], frames[u], lines[u])
            BY <1>0, <2>2, SoundPhase
        <3>2. QED
            <4>1. Becomes(u, "idle", generation[u], verbindung[u], frames[u], lines[u])
                BY <2>1, <2>2, <3>1, Same DEF Becomes
            <4>2. QED
                BY <2>1, <2>2, <3>1, <4>1, SoundStep
    <2>3. CASE UNCHANGED <<store, lines>>
        BY <2>1, <2>3, QuietSound
    <2>4. QED
        BY <1>4, <2>1, <2>2, <2>3, ReceivedSound DEF checkActiveCall
<1>5. CASE initiateCall(u)
    <2> DEFINE f == [at |-> "invite", raum |-> NoRoom, generation |-> 0, accepts |-> FALSE]
               L == {l \in lines[u] : l.id # verbindung[u]}
    <2>1. f.at = "invite" /\ f.generation = 0
        OBVIOUS
    <2>2. frames' = [frames EXCEPT ![u] = (frames[u] \ {f}) \cup {f}]
        BY <1>5 DEF initiateCall
    <2> HIDE DEF f
    <2>3. Sound(u, displaced, phase[u], 0, 0, frames[u], L)
        BY <1>0, SoundOver
    <2>4. Sound(u, displaced, phase[u], 0, 0, (frames[u] \ {f}) \cup {f}, L)
        BY <2>1, <2>3, SoundInvites
    <2>5. /\ generation' = [generation EXCEPT ![u] = 0]
          /\ verbindung' = [verbindung EXCEPT ![u] = 0]
          /\ lines' = [lines EXCEPT ![u] = L] /\ UNCHANGED phase
        BY <1>5 DEF initiateCall, raeumeAuf
    <2> HIDE DEF L
    <2>6. QED
        <3>1. Becomes(u, phase[u], 0, 0, (frames[u] \ {f}) \cup {f}, L)
            BY <2>2, <2>4, <2>5, Same DEF Becomes
        <3>2. QED
            BY <2>2, <2>4, <2>5, <3>1, SoundStep
<1>6. CASE acceptCall(u)
    <2>1. generation[u] = 0
        BY <1>0, <1>6 DEF acceptCall, Sound
    <2>2. QED
        BY <1>6, <2>1, ConnectingSound DEF acceptCall
<1>7. CASE Decline(u) \/ HangUp(u)
    BY <1>7, HangingUpSound DEF Decline, HangUp
<1>8. QED
    BY <1>1, <1>2, <1>3, <1>4, <1>5, <1>6, <1>7 DEF Client, Person

LEMMA DisplacedRemain == ASSUME [Next]_vars PROVE Marked
<1> USE DEF Marked
<1>1. CASE UNCHANGED vars
    BY <1>1 DEF vars
<1>2. ASSUME NEW u \in Users, Served(u) \/ InRoom(u) \/ PollServed(u) \/ EventLost(u)
      PROVE  Marked
    BY <1>2 DEF Served, InviteServed, TokenServed, LineOpens, InRoom, ParticipantConnected,
                ParticipantDisconnected, PollServed, EventLost
<1>3. ASSUME NEW u \in Users, NEW l \in lines[u], Disconnected(u, l) PROVE Marked
    BY <1>3 DEF Disconnected
<1>4. CASE \/ \E q \in requests : RequestArrives(q) \/ RequestLost(q)
           \/ \E r \in Rooms : InvitationExpires(r)
    BY <1>4 DEF RequestArrives, RequestLost, InvitationExpires
<1>5. ASSUME NEW u \in Users, Person(u) PROVE Marked
    BY <1>5 DEF Person, initiateCall, acceptCall, Decline, HangUp
<1>6. ASSUME NEW u \in Users, GoesOn(u) PROVE Marked
    BY <1>6 DEF GoesOn, Dialled, ConnectingFailed, TokenGranted, Connected, OldLineLeft, MediaReady
<1>7. ASSUME NEW u \in Users, TimerFires(u) \/ handleCallSyncEvent(u) \/ checkActiveCall(u)
      PROVE  Marked
    BY <1>7 DEF TimerFires, handleCallSyncEvent, checkActiveCall
<1>8. QED
    BY <1>1, <1>2, <1>3, <1>4, <1>5, <1>6, <1>7 DEF Next, World, Client

LEMMA NextSound ==
    ASSUME Typed, LinesSound, [Next]_vars
    PROVE  LinesSound'
<1> USE DEF store
<1>0. Marked
    BY DisplacedRemain
<1>1. CASE \E u \in Users : PollServed(u) \/ EventLost(u)
    BY <1>0, <1>1, QuietSound DEF PollServed, EventLost
<1>2. CASE \/ \E q \in requests : RequestArrives(q) \/ RequestLost(q)
           \/ \E r \in Rooms : InvitationExpires(r)
    BY <1>0, <1>2, QuietSound DEF RequestArrives, RequestLost, InvitationExpires
<1>3. CASE UNCHANGED vars
    BY <1>0, <1>3, QuietSound DEF vars
<1>4. QED
    BY <1>0, <1>1, <1>2, <1>3, ServedSound, InRoomSound, ClientSound DEF Next, World, InRoom

LEMMA SoundHeld == ASSUME Typed, LinesSound PROVE EveryLineIsHeld
<1>1. SUFFICES ASSUME NEW u \in Users \ displaced, NEW l \in lines[u]
               PROVE  Held(u, l)
    BY DEF EveryLineIsHeld
<1>2. l.id # 0
    BY LineFacts, NumbersArePositive
<1>3. QED
    BY <1>2 DEF LinesSound, Sound, Held

LEMMA InitSound == ASSUME Init PROVE LinesSound
BY DEF Init, LinesSound, Sound, Opening

\* A client is off the air when it hangs up, whenever in the course of connecting that
\* was: no line stays open that is neither the connection of the current call nor one an
\* attempt looks at next.  Only who dialled over a call of its own, or had one connection
\* displaced by another, may keep such a line.
THEOREM LinesHeld == Spec => []EveryLineIsHeld
<1>1. Typed /\ LinesSound /\ [Next]_vars => (Typed /\ LinesSound)'
    BY TypedStep, NextSound
<1>2. Init => Typed /\ LinesSound
    BY InitTyped, InitSound
<1>3. Typed /\ LinesSound => EveryLineIsHeld
    BY SoundHeld
<1>4. QED
    BY <1>1, <1>2, <1>3, PTL DEF Spec

-----------------------------------------------------------------------------
(* Invitations.                                                            *)

Made(r) == invitation[r].at # "none"
Own(u, r) == invitation[r].creator = u
Answered(r) == invitation[r].at \notin {"none", "ringing"}

\* Whatever names a room comes after its invitation, and only the other is invited.
EventsMade ==
    \A u \in Users : \A i \in 1..Len(events[u]) : events[u][i].type = "invitation" =>
        Made(events[u][i].raum) /\ ~Own(u, events[u][i].raum)

RoomsMade ==
    /\ \A r \in dialled : Made(r)
    /\ \A u \in Users :
           /\ raum[u] # NoRoom => Made(raum[u])
           /\ \A f \in frames[u] : f.at # "invite" => Made(f.raum)
           /\ \A l \in lines[u] : Made(l.raum)
           /\ poll[u].pending # NoRoom => Made(poll[u].pending) /\ ~Own(u, poll[u].pending)

\* Who was invited gets a token, and so a line, only when it has accepted.
EnteredIsAnswered ==
    \A u \in Users :
        /\ \A f \in frames[u] :
               f.at \in {"granted", "connect"} /\ ~Own(u, f.raum) => Answered(f.raum)
        /\ \A l \in lines[u] : ~Own(u, l.raum) => Answered(l.raum)

\* The current attempt, a store's g, has its frames and its line in the store's room r;
\* without one a, that the other accepted, is not known.
Stands(a, r, g, F, L) ==
    /\ g = 0 => ~a
    /\ \A f \in F : f.generation # 0 /\ f.generation = g => f.raum = r
    /\ \A l \in L : l.id = g => l.raum = r

AttemptStands ==
    \A u \in Users : Stands(angenommen[u], raum[u], generation[u], frames[u], lines[u])

\* A store in the room of its own invitation has an attempt, and while the invitation
\* rings it knows of nobody who accepted, unless it dialled over another call of its own.
OwnCall ==
    \A u \in Users : raum[u] # NoRoom /\ Own(u, raum[u]) =>
        /\ phase[u] \notin {"idle", "incoming"} /\ generation[u] # 0
        /\ invitation[raum[u]].at = "ringing" => ~angenommen[u] \/ u \in displaced

\* An invitation that rings has its caller, or what the caller said is still under way:
\* all of it, or a part and the one request that may be lost is.
Said(r, op) == [op |-> op, user |-> invitation[r].creator, raum |-> r] \in requests

RingingHasCaller ==
    \A r \in dialled : faults <= 1 /\ invitation[r].at = "ringing" =>
        \/ invitation[r].creator \in displaced
        \/ raum[invitation[r].creator] = r
        \/ \E f \in frames[invitation[r].creator] : f.at = "invited" /\ f.raum = r
        \/ Said(r, "cancel") /\ Said(r, "leave")
        \/ faults # 0 /\ (Said(r, "cancel") \/ Said(r, "leave"))

\* A room once invited to stays so, under its creator, and never rings again.
Grows ==
    \A r \in Rooms : Made(r) =>
        /\ invitation'[r].at # "none" /\ invitation'[r].creator = invitation[r].creator
        /\ invitation'[r].at = "ringing" => invitation[r].at = "ringing"

LEMMA InvitationStays == ASSUME UNCHANGED invitation PROVE Grows
BY DEF Grows, Made

LEMMA InvitationGrows == ASSUME Typed, [Next]_vars PROVE Grows
<1> USE DEF store, panel
<1>0. InvitationsOK /\ RegisteredOK /\ FramesOK
    BY TypedParts
<1>1. ASSUME NEW q \in requests, RequestArrives(q) \/ RequestLost(q) PROVE Grows
    <2>1. q.raum \in Rooms
        BY TypedParts DEF Requests
    <2>2. CASE invitation' = [invitation EXCEPT ![q.raum].at = "consumed"] /\ gueltig(q.raum)
        BY <1>0, <2>1, <2>2 DEF Grows, Made, InvitationsOK, gueltig
    <2>3. QED
        BY <1>1, <2>2, InvitationStays
           DEF RequestArrives, RequestLost, Cancel, Reject, Leave, Cancelled, gueltig
<1>2. ASSUME NEW r \in Rooms, InvitationExpires(r) PROVE Grows
    BY <1>0, <1>2 DEF InvitationExpires, Grows, Made, InvitationsOK
<1>3. ASSUME NEW u \in Users, NEW f \in frames[u], InviteServed(u, f) PROVE Grows
    <2> DEFINE r == CHOOSE n \in Rooms : invitation[n].at = "none"
    <2>1. r \in Rooms /\ invitation[r].at = "none"
        BY <1>3 DEF InviteServed
    <2>2. invitation' = [invitation EXCEPT ![r] = [at |-> "ringing", creator |-> u]]
        BY <1>3 DEF InviteServed
    <2> HIDE DEF r
    <2>3. QED
        BY <1>0, <2>1, <2>2 DEF Grows, Made, InvitationsOK
<1>4. ASSUME NEW u \in Users, NEW f \in frames[u], TokenServed(u, f) PROVE Grows
    <2> DEFINE r == f.raum
               old == registered[u]
    <2>1. r \in Rooms
        BY <1>0, <1>4 DEF TokenServed, FramesOK, FrameKnown
    <2>2. CASE UNCHANGED invitation
        BY <2>2, InvitationStays
    <2>3. CASE gueltig(r) /\ old \notin {NoRoom, r} /\ Superseded(u, r)
        <3>1. old \in Rooms /\ r # old
            BY <1>0, <2>3 DEF RegisteredOK
        <3>2. invitation' = [invitation EXCEPT
                  ![old].at = IF gueltig(old) THEN "consumed" ELSE @,
                  ![r].at = IF invitation[r].creator # u THEN "accepted" ELSE @]
            BY <2>3 DEF Superseded
        <3> HIDE DEF r, old
        <3>3. /\ \A n \in Rooms : n \notin {old, r} => invitation'[n] = invitation[n]
              /\ invitation'[old].creator = invitation[old].creator
              /\ invitation'[old].at = IF gueltig(old) THEN "consumed" ELSE invitation[old].at
              /\ invitation'[r].creator = invitation[r].creator
              /\ invitation'[r].at \in {"accepted", invitation[r].at}
            BY <1>0, <2>1, <3>1, <3>2 DEF InvitationsOK
        <3>4. ASSUME NEW n \in Rooms, Made(n)
              PROVE  /\ invitation'[n].at # "none"
                     /\ invitation'[n].creator = invitation[n].creator
                     /\ invitation'[n].at = "ringing" => invitation[n].at = "ringing"
            <4>1. CASE n = old
                BY <3>3, <3>4, <4>1 DEF Made
            <4>2. CASE n = r
                BY <3>3, <3>4, <4>2 DEF Made
            <4>3. QED
                BY <3>3, <3>4, <4>1, <4>2 DEF Made
        <3>5. QED
            BY <3>4 DEF Grows
    <2>4. CASE gueltig(r) /\ invitation' = [invitation EXCEPT ![r].at =
                                    IF invitation[r].creator # u THEN "accepted" ELSE @]
        <3> HIDE DEF r
        <3>1. QED
            BY <1>0, <2>1, <2>4 DEF Grows, Made, InvitationsOK, gueltig
    <2>5. QED
        BY <1>4, <2>2, <2>3, <2>4 DEF TokenServed
<1>5. ASSUME UNCHANGED invitation PROVE Grows
    BY <1>5, InvitationStays
<1>6. CASE UNCHANGED vars
    BY <1>5, <1>6 DEF vars
<1>7. ASSUME NEW u \in Users, Person(u) \/ Client(u) PROVE UNCHANGED invitation
    BY <1>7 DEF Person, initiateCall, acceptCall, Decline, HangUp, Client, GoesOn, Dialled,
                ConnectingFailed, TokenGranted, Connected, OldLineLeft, MediaReady, TimerFires,
                handleCallSyncEvent, checkActiveCall
<1>8. ASSUME NEW u \in Users, InRoom(u) \/ PollServed(u) \/ EventLost(u)
      PROVE  UNCHANGED invitation
    BY <1>8 DEF InRoom, ParticipantConnected, ParticipantDisconnected, PollServed, EventLost
<1>9. ASSUME NEW u \in Users, NEW l \in lines[u], Disconnected(u, l)
      PROVE  UNCHANGED invitation
    BY <1>9 DEF Disconnected
<1>10. ASSUME NEW u \in Users, NEW f \in frames[u], LineOpens(u, f)
       PROVE  UNCHANGED invitation
    BY <1>10 DEF LineOpens
<1>11. QED
    BY <1>1, <1>2, <1>3, <1>4, <1>5, <1>6, <1>7, <1>8, <1>9, <1>10 DEF Next, World, Served

\* A line was there, or is that of a frame that connected.
LineMoves ==
    \A v \in Users : \A k \in lines'[v] :
        \/ \E l \in lines[v] : k.id = l.id /\ k.raum = l.raum
        \/ \E f \in frames[v] : f.at = "connect" /\ k.id = f.generation /\ k.raum = f.raum

LEMMA LinesStay == ASSUME UNCHANGED lines PROVE LineMoves
BY DEF LineMoves

LEMMA FewerLines ==
    ASSUME Typed, NEW u \in Users, NEW L \in SUBSET lines[u], lines' = [lines EXCEPT ![u] = L]
    PROVE  LineMoves
BY TypedParts DEF LineMoves, LinesOK

LEMMA EndCallLines ==
    ASSUME Typed, NEW u \in Users, endCall(u) \/ rejectCall(u) \/ raeumeAuf(u)
    PROVE  LineMoves
<1>1. lines' = [lines EXCEPT ![u] = {l \in lines[u] : l.id # verbindung[u]}]
    BY DEF endCall, rejectCall, EndCallSending, raeumeAuf
<1>2. QED
    BY <1>1, FewerLines

LEMMA ReceivedLines ==
    ASSUME Typed, NEW u \in Users, NEW r, receiveCall(u, r)
    PROVE  LineMoves
BY EndCallLines, LinesStay DEF receiveCall

LEMMA LinesMove == ASSUME Typed, [Next]_vars PROVE LineMoves
<1> USE DEF store
<1>0. LinesOK
    BY TypedParts
<1>1. ASSUME NEW u \in Users, NEW f \in frames[u], LineOpens(u, f) PROVE LineMoves
    <2> DEFINE l == [id |-> f.generation, raum |-> f.raum,
                     sees |-> Other(u) \in Present(f.raum), met |-> FALSE, handled |-> FALSE]
    <2>1. f.at = "connect" /\ l.id = f.generation /\ l.raum = f.raum
        BY <1>1 DEF LineOpens
    <2>2. lines' = [lines EXCEPT ![u] = @ \cup {l}] \/ UNCHANGED lines
        BY <1>1 DEF LineOpens
    <2> HIDE DEF l
    <2>3. QED
        BY <1>0, <2>1, <2>2, LinesStay DEF LineMoves, LinesOK
<1>2. ASSUME NEW u \in Users, NEW l \in lines[u], NEW here \in BOOLEAN,
             lines' = Seeing(u, l, here)
      PROVE  LineMoves
    <2> DEFINE k == [l EXCEPT !.sees = here, !.met = @ \/ (here /\ l.handled)]
    <2>1. l \in LineType
        BY <1>0 DEF LinesOK
    <2>2. k.id = l.id /\ k.raum = l.raum
        BY <2>1 DEF LineType
    <2>3. lines' = [lines EXCEPT ![u] = (lines[u] \ {l}) \cup {k}]
        BY <1>2 DEF Seeing
    <2> HIDE DEF k
    <2>4. QED
        BY <1>0, <2>2, <2>3 DEF LineMoves, LinesOK
<1>3. ASSUME NEW u \in Users, NEW l \in lines[u],
             ParticipantConnected(u, l) \/ ParticipantDisconnected(u, l)
      PROVE  LineMoves
    BY <1>2, <1>3, EndCallLines DEF ParticipantConnected, ParticipantDisconnected
<1>4. ASSUME NEW u \in Users, NEW l \in lines[u], Disconnected(u, l) PROVE LineMoves
    <2>1. CASE lines' = [lines EXCEPT ![u] = @ \ {l}]
        <3>1. lines' = [lines EXCEPT ![u] = lines[u] \ {l}]
            BY <2>1
        <3>2. QED
            BY <3>1, FewerLines
    <2>2. QED
        BY <1>4, <2>1, EndCallLines DEF Disconnected
<1>5. ASSUME NEW u \in Users, NEW f \in frames[u], Connected(u, f) PROVE LineMoves
    <2> DEFINE mark(l) == IF l.id = f.generation
                          THEN [l EXCEPT !.handled = TRUE, !.met = l.sees] ELSE l
    <2>1. \A l \in LineType : mark(l).id = l.id /\ mark(l).raum = l.raum
        BY DEF LineType
    <2>2. lines' = [lines EXCEPT ![u] = {mark(l) : l \in @}] \/ UNCHANGED lines
        BY <1>5 DEF Connected
    <2> HIDE DEF mark
    <2>3. CASE lines' = [lines EXCEPT ![u] = {mark(l) : l \in @}]
        <3>1. ASSUME NEW v \in Users, NEW k \in lines'[v]
              PROVE  \E l \in lines[v] : k.id = l.id /\ k.raum = l.raum
            <4>1. CASE v = u
                <5>1. PICK l \in lines[u] : k = mark(l)
                    BY <1>0, <2>3, <4>1 DEF LinesOK
                <5>2. l \in LineType
                    BY <1>0 DEF LinesOK
                <5>3. QED
                    BY <2>1, <4>1, <5>1, <5>2
            <4>2. CASE v # u
                BY <1>0, <2>3, <4>2 DEF LinesOK
            <4>3. QED
                BY <4>1, <4>2
        <3>2. QED
            BY <3>1 DEF LineMoves
    <2>4. QED
        BY <2>2, <2>3, LinesStay
<1>6. ASSUME NEW u \in Users, NEW f \in frames[u], OldLineLeft(u, f) PROVE LineMoves
    <2>1. lines' = [lines EXCEPT ![u] = {l \in lines[u] : l.id # f.generation}]
        BY <1>6 DEF OldLineLeft
    <2>2. QED
        BY <2>1, FewerLines
<1>7. ASSUME NEW u \in Users, Client(u) PROVE LineMoves
    <2>1. CASE GoesOn(u)
        BY <1>5, <1>6, <2>1, EndCallLines, LinesStay
           DEF GoesOn, Dialled, ConnectingFailed, TokenGranted, MediaReady
    <2>2. CASE TimerFires(u)
        BY <2>2, EndCallLines, LinesStay DEF TimerFires
    <2>3. CASE handleCallSyncEvent(u)
        BY <2>3, EndCallLines, ReceivedLines, LinesStay DEF handleCallSyncEvent
    <2>4. CASE checkActiveCall(u)
        BY <2>4, ReceivedLines, LinesStay DEF checkActiveCall
    <2>5. QED
        BY <1>7, <2>1, <2>2, <2>3, <2>4 DEF Client
<1>8. ASSUME NEW u \in Users, Person(u) PROVE LineMoves
    BY <1>8, EndCallLines, LinesStay DEF Person, initiateCall, acceptCall, Decline, HangUp
<1>9. ASSUME NEW u \in Users, NEW f \in frames[u], InviteServed(u, f) \/ TokenServed(u, f)
      PROVE  LineMoves
    BY <1>9, LinesStay DEF InviteServed, TokenServed
<1>10. ASSUME NEW u \in Users, PollServed(u) \/ EventLost(u) PROVE LineMoves
    BY <1>10, LinesStay DEF PollServed, EventLost
<1>11. ASSUME NEW q \in requests, RequestArrives(q) \/ RequestLost(q) PROVE LineMoves
    BY <1>11, LinesStay DEF RequestArrives, RequestLost
<1>12. ASSUME NEW r \in Rooms, InvitationExpires(r) PROVE LineMoves
    BY <1>12, LinesStay DEF InvitationExpires
<1>13. CASE UNCHANGED vars
    BY <1>13, LinesStay DEF vars
<1>14. QED
    BY <1>1, <1>3, <1>4, <1>7, <1>8, <1>9, <1>10, <1>11, <1>12, <1>13
       DEF Next, World, Served, InRoom

\* A frame was there, or begins, or goes on in the room of the frame it was; it gets its
\* token only in a room of its own or one where the invitation was answered.
FrameMoves ==
    \A v \in Users : \A h \in frames'[v] :
        \/ h \in frames[v]
        \/ h.at = "invite"
        \/ h.at = "invited" /\ invitation'[h.raum].at # "none"
        \/ h.at = "token" /\ h.raum = raum[v] /\ raum[v] # NoRoom
        \/ \E f \in frames[v] :
               /\ f.at # "invite" /\ h.at # "invited" /\ h.raum = f.raum
               /\ h.at = "granted" =>
                      Own(v, f.raum) \/ invitation'[f.raum].at \notin {"none", "ringing"}
               /\ h.at = "connect" => f.at = "granted"

LEMMA FewerFrames ==
    ASSUME Typed, NEW u \in Users, NEW F \in SUBSET frames[u],
           frames' = [frames EXCEPT ![u] = F]
    PROVE  FrameMoves
BY TypedParts DEF FrameMoves, FramesOK

LEMMA SteppedMoves ==
    ASSUME Typed, NEW u \in Users, NEW f \in frames[u], f.at # "invite",
           NEW at, at # "invited", frames' = Stepped(u, f, at),
           at = "granted" => Own(u, f.raum) \/ invitation'[f.raum].at \notin {"none", "ringing"},
           at = "connect" => f.at = "granted"
    PROVE  FrameMoves
<1>0. FramesOK
    BY TypedParts
<1> DEFINE h == [f EXCEPT !.at = at]
<1>1. f \in FrameType
    BY <1>0 DEF FramesOK
<1>2. h.at = at /\ h.raum = f.raum
    BY <1>1 DEF FrameType
<1>3. frames' = [frames EXCEPT ![u] = (@ \ {f}) \cup {h}]
    BY DEF Stepped
<1> HIDE DEF h
<1>4. QED
    BY <1>0, <1>2, <1>3 DEF FrameMoves, FramesOK

LEMMA ConnectingMoves ==
    ASSUME Typed, NEW u \in Users, NEW r, NEW accepts, NEW others \in SUBSET frames[u],
           ConnectingTo(u, r, others, accepts),
           \/ r = raum[u] /\ r # NoRoom
           \/ \E f \in frames[u] : f.at # "invite" /\ r = f.raum
    PROVE  FrameMoves
<1>0. FramesOK
    BY TypedParts
<1>1. PICK n \in Unused(u) : frames' = [frames EXCEPT ![u] = others \cup
                 {[at |-> "token", raum |-> r, generation |-> n, accepts |-> accepts]}]
    BY DEF ConnectingTo
<1> DEFINE h == [at |-> "token", raum |-> r, generation |-> n, accepts |-> accepts]
<1>2. h.at = "token" /\ h.raum = r /\ frames' = [frames EXCEPT ![u] = others \cup {h}]
    BY <1>1
<1> HIDE DEF h
<1>3. QED
    BY <1>0, <1>2 DEF FrameMoves, FramesOK

LEMMA FramesMove == ASSUME Typed, [Next]_vars PROVE FrameMoves
<1>0. FramesOK /\ StoreOK /\ InvitationsOK
    BY TypedParts
<1>1. ASSUME NEW u \in Users, NEW f \in frames[u], InviteServed(u, f) PROVE FrameMoves
    <2> DEFINE r == CHOOSE n \in Rooms : invitation[n].at = "none"
               h == [f EXCEPT !.at = "invited", !.raum = r]
    <2>1. r \in Rooms /\ f \in FrameType
        BY <1>0, <1>1 DEF InviteServed, FramesOK
    <2>2. h.at = "invited" /\ h.raum = r
        BY <2>1 DEF FrameType
    <2>3. /\ invitation' = [invitation EXCEPT ![r] = [at |-> "ringing", creator |-> u]]
          /\ \/ frames' = [frames EXCEPT ![u] = (@ \ {f}) \cup {h}]
             \/ frames' = [frames EXCEPT ![u] = @ \ {f}]
        BY <1>1 DEF InviteServed
    <2> HIDE DEF r, h
    <2>4. invitation'[r].at # "none"
        BY <1>0, <2>1, <2>3 DEF InvitationsOK
    <2>5. CASE frames' = [frames EXCEPT ![u] = (@ \ {f}) \cup {h}]
        BY <1>0, <2>2, <2>4, <2>5 DEF FrameMoves, FramesOK
    <2>6. CASE frames' = [frames EXCEPT ![u] = @ \ {f}]
        <3>1. frames' = [frames EXCEPT ![u] = frames[u] \ {f}]
            BY <2>6
        <3>2. QED
            BY <3>1, FewerFrames
    <2>7. QED
        BY <2>3, <2>5, <2>6
<1>2. ASSUME NEW u \in Users, NEW f \in frames[u], TokenServed(u, f) PROVE FrameMoves
    <2> DEFINE r == f.raum
    <2>1. f.at = "token" /\ r \in Rooms
        BY <1>0, <1>2 DEF TokenServed, FramesOK, FrameKnown
    <2>2. CASE frames' = Stepped(u, f, "refused")
        BY <2>1, <2>2, SteppedMoves
    <2>3. CASE frames' = Stepped(u, f, "granted") /\
               \/ Superseded(u, r) /\ registered[u] # r
               \/ invitation' = [invitation EXCEPT ![r].at =
                                    IF invitation[r].creator # u THEN "accepted" ELSE @]
        <3>1. Own(u, r) \/ invitation'[r].at = "accepted"
            <4>1. SUFFICES ASSUME invitation[r].creator # u PROVE invitation'[r].at = "accepted"
                BY DEF Own
            <4>2. CASE invitation' = [invitation EXCEPT ![r].at =
                                    IF invitation[r].creator # u THEN "accepted" ELSE @]
                <5> HIDE DEF r
                <5>1. QED
                    BY <1>0, <2>1, <4>1, <4>2 DEF InvitationsOK
            <4>3. CASE Superseded(u, r) /\ registered[u] # r
                <5> DEFINE old == registered[u]
                           ended == [invitation EXCEPT
                                        ![old].at = IF gueltig(old) THEN "consumed" ELSE @]
                <5>1. invitation' = [ended EXCEPT ![r].at =
                                        IF invitation[r].creator # u THEN "accepted" ELSE @]
                    BY <4>3 DEF Superseded
                <5>2. r \in DOMAIN ended /\ ended[r] = invitation[r]
                    BY <1>0, <2>1, <4>3 DEF InvitationsOK
                <5> HIDE DEF ended, r
                <5>3. invitation'[r].at = IF invitation[r].creator # u THEN "accepted"
                                          ELSE ended[r].at
                    BY <1>0, <2>1, <5>1, <5>2 DEF InvitationsOK
                <5>4. QED
                    BY <4>1, <5>3
            <4>4. QED
                BY <2>3, <4>2, <4>3
        <3>2. QED
            BY <2>1, <2>3, <3>1, SteppedMoves
    <2>4. QED
        BY <1>2, <2>2, <2>3 DEF TokenServed
<1>3. ASSUME NEW u \in Users, NEW f \in frames[u], LineOpens(u, f) PROVE FrameMoves
    BY <1>3, SteppedMoves DEF LineOpens
<1>4. ASSUME NEW u \in Users, NEW f \in frames[u],
             \/ Dialled(u, f) \/ ConnectingFailed(u, f) \/ TokenGranted(u, f)
             \/ Connected(u, f) \/ OldLineLeft(u, f) \/ MediaReady(u, f)
      PROVE  FrameMoves
    <2>1. CASE Dialled(u, f)
        BY <2>1, ConnectingMoves DEF Dialled
    <2>2. CASE frames' = [frames EXCEPT ![u] = @ \ {f}]
        <3>1. frames' = [frames EXCEPT ![u] = frames[u] \ {f}]
            BY <2>2
        <3>2. QED
            BY <3>1, FewerFrames
    <2>3. CASE TokenGranted(u, f)
        BY <2>2, <2>3, SteppedMoves DEF TokenGranted
    <2>4. CASE Connected(u, f)
        BY <2>4, SteppedMoves DEF Connected
    <2>5. QED
        BY <1>4, <2>1, <2>2, <2>3, <2>4 DEF ConnectingFailed, OldLineLeft, MediaReady
<1>5. ASSUME NEW u \in Users, initiateCall(u) PROVE FrameMoves
    <2> DEFINE h == [at |-> "invite", raum |-> NoRoom, generation |-> 0, accepts |-> FALSE]
    <2>1. h.at = "invite" /\ frames' = [frames EXCEPT ![u] = @ \cup {h}]
        BY <1>5 DEF initiateCall
    <2> HIDE DEF h
    <2>2. QED
        BY <1>0, <2>1 DEF FrameMoves, FramesOK
<1>6. ASSUME NEW u \in Users, acceptCall(u) PROVE FrameMoves
    <2>1. raum[u] # NoRoom
        BY <1>0, <1>6, CallAssumption DEF acceptCall, StoreOK, Rooms
    <2>2. QED
        BY <1>6, <2>1, ConnectingMoves DEF acceptCall
<1>7. ASSUME UNCHANGED frames PROVE FrameMoves
    BY <1>7 DEF FrameMoves
<1>8. CASE UNCHANGED vars
    BY <1>7, <1>8 DEF vars
<1>9. ASSUME NEW u \in Users, \/ Decline(u) \/ HangUp(u) \/ TimerFires(u)
                              \/ handleCallSyncEvent(u) \/ checkActiveCall(u) \/ InRoom(u)
                              \/ PollServed(u) \/ EventLost(u)
      PROVE  UNCHANGED frames
    BY <1>9 DEF Decline, HangUp, TimerFires, handleCallSyncEvent, checkActiveCall, InRoom,
                ParticipantConnected, ParticipantDisconnected, PollServed, EventLost
<1>10. ASSUME \/ \E u \in Users : \E l \in lines[u] : Disconnected(u, l)
              \/ \E q \in requests : RequestArrives(q) \/ RequestLost(q)
              \/ \E r \in Rooms : InvitationExpires(r)
       PROVE  UNCHANGED frames
    BY <1>10 DEF Disconnected, RequestArrives, RequestLost, InvitationExpires
<1>11. QED
    BY <1>1, <1>2, <1>3, <1>4, <1>5, <1>6, <1>7, <1>8, <1>9, <1>10
       DEF Next, World, Served, Person, Client, GoesOn

\* Who was invited is in the room only once it has accepted.
LEMMA EnteredStep ==
    ASSUME Typed, RoomsMade, EnteredIsAnswered, [Next]_vars
    PROVE  EnteredIsAnswered'
<1>0. Grows /\ LineMoves /\ FrameMoves
    BY InvitationGrows, LinesMove, FramesMove
<1>1. ASSUME NEW v \in Users, NEW r \in Rooms, Made(r), Own(v, r) \/ Answered(r)
      PROVE  Own(v, r)' \/ Answered(r)'
    BY <1>0, <1>1 DEF Grows, Own, Answered, Made
<1>2. \A v \in Users : /\ \A f \in frames[v] : f.at # "invite" => f.raum \in Rooms /\ Made(f.raum)
                       /\ \A l \in lines[v] : l.raum \in Rooms /\ Made(l.raum)
    BY TypedParts DEF FramesOK, FrameKnown, LinesOK, LineType, RoomsMade
<1>3. ASSUME NEW v \in Users, NEW h \in frames'[v], h.at \in {"granted", "connect"}
      PROVE  Own(v, h.raum)' \/ Answered(h.raum)'
    <2>1. CASE h \in frames[v]
        BY <1>1, <1>2, <1>3, <2>1 DEF EnteredIsAnswered
    <2>2. ASSUME NEW f \in frames[v], f.at # "invite", h.raum = f.raum,
                 h.at = "granted" => Own(v, f.raum) \/
                     invitation'[f.raum].at \notin {"none", "ringing"},
                 h.at = "connect" => f.at = "granted"
          PROVE  Own(v, h.raum)' \/ Answered(h.raum)'
        <3>1. Own(v, f.raum) \/ Answered(f.raum) \/ Answered(f.raum)'
            BY <1>3, <2>2 DEF EnteredIsAnswered, Answered
        <3>2. QED
            BY <1>1, <1>2, <2>2, <3>1
    <2>3. QED
        BY <1>0, <1>3, <2>1, <2>2 DEF FrameMoves
<1>4. ASSUME NEW v \in Users, NEW k \in lines'[v]
      PROVE  Own(v, k.raum)' \/ Answered(k.raum)'
    <2>1. ASSUME NEW l \in lines[v], k.raum = l.raum
          PROVE  Own(v, k.raum)' \/ Answered(k.raum)'
        BY <1>1, <1>2, <2>1 DEF EnteredIsAnswered
    <2>2. ASSUME NEW f \in frames[v], f.at = "connect", k.raum = f.raum
          PROVE  Own(v, k.raum)' \/ Answered(k.raum)'
        BY <1>1, <1>2, <2>2 DEF EnteredIsAnswered
    <2>3. QED
        BY <1>0, <2>1, <2>2 DEF LineMoves
<1>5. QED
    BY <1>3, <1>4 DEF EnteredIsAnswered

\* A store stays in its room, is left, is rung or comes back with its invitation.
Farewells(v) ==
    raum[v] # NoRoom => \A op \in Farewell(v) :
                            [op |-> op, user |-> v, raum |-> raum[v]] \in requests'

Stays(v) ==
    /\ raum'[v] = raum[v]
    /\ \/ /\ phase'[v] = phase[v] /\ generation'[v] = generation[v]
          /\ angenommen'[v] = angenommen[v]
       \/ /\ phase'[v] = "active" /\ generation'[v] = generation[v]
          /\ \/ angenommen'[v] = angenommen[v]
             \/ \E l \in lines[v] : l.id = generation[v] /\ Other(v) \in Present(l.raum)
       \/ phase[v] \in {"idle", "incoming"}

IsOver(v) == raum'[v] = NoRoom /\ (phase[v] = "incoming" \/ Farewells(v))

IsRung(v) == phase[v] = "idle" /\ Made(raum'[v]) /\ ~Own(v, raum'[v])

ComesBack(v) ==
    \E f \in frames[v] :
        /\ f.at = "invited" /\ raum'[v] = f.raum
        /\ phase'[v] = "outgoing" /\ angenommen'[v] = angenommen[v]
        /\ generation'[v] \in Unused(v)
        /\ generation[v] = 0 \/ v \in displaced'

StoreMoves == \A v \in Users : Stays(v) \/ IsOver(v) \/ IsRung(v) \/ ComesBack(v)

LEMMA StoreStays == ASSUME UNCHANGED <<phase, raum, angenommen, generation>> PROVE StoreMoves
BY DEF StoreMoves, Stays

StoreBecomes(u, ph, r, a, g) ==
    /\ phase' = [phase EXCEPT ![u] = ph] /\ raum' = [raum EXCEPT ![u] = r]
    /\ angenommen' = [angenommen EXCEPT ![u] = a]
    /\ generation' = [generation EXCEPT ![u] = g]

LEMMA OneMoves ==
    ASSUME Typed, NEW u \in Users, Stays(u) \/ IsOver(u) \/ IsRung(u) \/ ComesBack(u),
           NEW ph, NEW r, NEW a, NEW g, StoreBecomes(u, ph, r, a, g)
    PROVE  StoreMoves
<1>1. ASSUME NEW v \in Users, v # u PROVE Stays(v)
    BY <1>1, TypedParts DEF StoreBecomes, Stays, StoreOK
<1>2. QED
    BY <1>1 DEF StoreMoves

LEMMA Unmoved ==
    ASSUME Typed, NEW u \in Users
    PROVE  /\ phase = [phase EXCEPT ![u] = phase[u]] /\ raum = [raum EXCEPT ![u] = raum[u]]
           /\ angenommen = [angenommen EXCEPT ![u] = angenommen[u]]
           /\ generation = [generation EXCEPT ![u] = generation[u]]
BY TypedParts DEF StoreOK

LEMMA EndCallMoves ==
    ASSUME Typed, NEW u \in Users, NEW ops, EndCallSending(u, ops)
    PROVE  StoreMoves
<1>1. raum'[u] = NoRoom
    BY TypedParts DEF EndCallSending, StoreOK
<1>2. Farewells(u)
    BY DEF EndCallSending, Farewells, Sent
<1>3. IsOver(u)
    BY <1>1, <1>2 DEF IsOver
<1>4. QED
    <2>1. StoreBecomes(u, "idle", NoRoom, FALSE, 0)
        BY <1>3, Unmoved DEF StoreBecomes, EndCallSending, raeumeAuf
    <2>2. QED
        BY <1>3, <2>1, OneMoves

LEMMA HangingUpMoves ==
    ASSUME Typed, NEW u \in Users, endCall(u) \/ rejectCall(u)
    PROVE  StoreMoves
BY EndCallMoves DEF endCall, rejectCall

LEMMA ReceivedMoves ==
    ASSUME Typed, NEW u \in Users, NEW r \in Rooms, Made(r), ~Own(u, r), receiveCall(u, r)
    PROVE  StoreMoves
<1>1. CASE UNCHANGED store
    BY <1>1, StoreStays DEF store
<1>2. CASE /\ phase[u] = "idle" /\ raeumeAuf(u)
           /\ phase' = [phase EXCEPT ![u] = "incoming"] /\ raum' = [raum EXCEPT ![u] = r]
           /\ angenommen' = [angenommen EXCEPT ![u] = FALSE]
    <2>1. IsRung(u)
        BY <1>2, TypedParts DEF IsRung, StoreOK
    <2>2. QED
        <3>1. StoreBecomes(u, "incoming", r, FALSE, 0)
            BY <1>2, <2>1, Unmoved DEF StoreBecomes, raeumeAuf
        <3>2. QED
            BY <1>2, <2>1, <3>1, OneMoves
<1>3. QED
    BY <1>1, <1>2 DEF receiveCall, store

LEMMA StoresMove ==
    ASSUME Typed, RoomsMade, EventsMade, [Next]_vars
    PROVE  StoreMoves
<1> USE DEF store
<1>0. StoreOK /\ FramesOK /\ EventsOK /\ PollOK
    BY TypedParts
<1>1. ASSUME NEW u \in Users, NEW l \in lines[u],
             \/ ParticipantConnected(u, l) \/ ParticipantDisconnected(u, l) \/ Disconnected(u, l)
      PROVE  StoreMoves
    <2>1. CASE ParticipantConnected(u, l) /\ Current(u, l)
        <3>1. /\ phase' = [phase EXCEPT ![u] = "active"] /\ UNCHANGED <<raum, generation>>
              /\ angenommen' = [angenommen EXCEPT ![u] = TRUE]
              /\ l.id = generation[u] /\ Other(u) \in Present(l.raum)
            BY <2>1 DEF ParticipantConnected, Current
        <3>2. Stays(u)
            BY <1>0, <3>1 DEF Stays, StoreOK
        <3>3. QED
            <4>1. StoreBecomes(u, "active", raum[u], TRUE, generation[u])
                BY <3>1, <3>2, Unmoved DEF StoreBecomes
            <4>2. QED
                BY <3>1, <3>2, <4>1, OneMoves
    <2>2. CASE ParticipantConnected(u, l) /\ ~Current(u, l)
        BY <2>2, StoreStays DEF ParticipantConnected
    <2>3. QED
        BY <1>1, <2>1, <2>2, HangingUpMoves, StoreStays
           DEF ParticipantDisconnected, Disconnected
<1>2. ASSUME NEW u \in Users, NEW f \in frames[u], Dialled(u, f) PROVE StoreMoves
    <2>1. PICK n \in Unused(u) : generation' = [generation EXCEPT ![u] = n]
        BY <1>2 DEF Dialled, ConnectingTo
    <2>2. /\ phase' = [phase EXCEPT ![u] = "outgoing"] /\ raum' = [raum EXCEPT ![u] = f.raum]
          /\ UNCHANGED angenommen /\ f.at = "invited"
          /\ generation[u] = 0 \/ u \in displaced'
        BY <1>2 DEF Dialled
    <2>3. ComesBack(u)
        BY <1>0, <2>1, <2>2 DEF ComesBack, StoreOK
    <2>4. QED
        <3>1. StoreBecomes(u, "outgoing", f.raum, angenommen[u], n)
            BY <2>1, <2>2, <2>3, Unmoved DEF StoreBecomes
        <3>2. QED
            BY <2>1, <2>2, <2>3, <3>1, OneMoves
<1>3. ASSUME NEW u \in Users, NEW f \in frames[u], MediaReady(u, f) PROVE StoreMoves
    <2>1. phase' = [phase EXCEPT ![u] = "active"] /\ UNCHANGED <<raum, generation, angenommen>>
        BY <1>3 DEF MediaReady
    <2>2. Stays(u)
        BY <1>0, <2>1 DEF Stays, StoreOK
    <2>3. QED
        <3>1. StoreBecomes(u, "active", raum[u], angenommen[u], generation[u])
            BY <2>1, <2>2, Unmoved DEF StoreBecomes
        <3>2. QED
            BY <2>1, <2>2, <3>1, OneMoves
<1>4. ASSUME NEW u \in Users, initiateCall(u) PROVE StoreMoves
    <2>1. /\ UNCHANGED <<phase, raum>> /\ phase[u] = "idle"
          /\ generation' = [generation EXCEPT ![u] = 0]
          /\ angenommen' = [angenommen EXCEPT ![u] = FALSE]
        BY <1>4 DEF initiateCall, raeumeAuf
    <2>2. Stays(u)
        BY <2>1 DEF Stays
    <2>3. QED
        <3>1. StoreBecomes(u, phase[u], raum[u], FALSE, 0)
            BY <2>1, <2>2, Unmoved DEF StoreBecomes
        <3>2. QED
            BY <2>1, <2>2, <3>1, OneMoves
<1>5. ASSUME NEW u \in Users, acceptCall(u) PROVE StoreMoves
    <2>1. PICK n \in Unused(u) : generation' = [generation EXCEPT ![u] = n]
        BY <1>5 DEF acceptCall, ConnectingTo
    <2>2. /\ phase[u] = "incoming" /\ phase' = [phase EXCEPT ![u] = "connecting"]
          /\ angenommen' = [angenommen EXCEPT ![u] = TRUE] /\ UNCHANGED raum
        BY <1>5 DEF acceptCall
    <2>3. Stays(u)
        BY <2>2 DEF Stays
    <2>4. QED
        <3>1. StoreBecomes(u, "connecting", raum[u], TRUE, n)
            BY <2>1, <2>2, <2>3, Unmoved DEF StoreBecomes
        <3>2. QED
            BY <2>1, <2>2, <2>3, <3>1, OneMoves
<1>6. ASSUME NEW u \in Users, handleCallSyncEvent(u) PROVE StoreMoves
    <2> DEFINE e == Head(events[u])
    <2>1. events[u] # <<>> /\ events[u] \in Seq(EventType)
        BY <1>0, <1>6 DEF handleCallSyncEvent, EventsOK
    <2>2. e = events[u][1] /\ 1 \in 1..Len(events[u]) /\ e \in EventType
        BY <2>1
    <2>3. e.raum \in Rooms /\ (e.type = "invitation" => Made(e.raum) /\ ~Own(u, e.raum))
        BY <2>2 DEF EventType, EventsMade
    <2>4. \/ e.type = "invitation" /\ receiveCall(u, e.raum)
          \/ endCall(u)
          \/ UNCHANGED store
        BY <1>6 DEF handleCallSyncEvent
    <2> HIDE DEF e
    <2>5. QED
        BY <2>3, <2>4, HangingUpMoves, ReceivedMoves, StoreStays
<1>7. ASSUME NEW u \in Users, checkActiveCall(u) PROVE StoreMoves
    <2> DEFINE r == poll[u].pending
    <2>1. r \in Rooms \cup {NoRoom} /\ (r # NoRoom => Made(r) /\ ~Own(u, r))
        BY <1>0 DEF PollOK, RoomsMade
    <2>2. CASE r # NoRoom /\ receiveCall(u, r)
        BY <2>1, <2>2, ReceivedMoves
    <2>3. CASE /\ phase[u] = "incoming" /\ phase' = [phase EXCEPT ![u] = "idle"]
               /\ raum' = [raum EXCEPT ![u] = NoRoom] /\ UNCHANGED <<angenommen, generation>>
        <3>1. IsOver(u)
            BY <1>0, <2>3 DEF IsOver, StoreOK
        <3>2. QED
            <4>1. StoreBecomes(u, "idle", NoRoom, angenommen[u], generation[u])
                BY <2>3, <3>1, Unmoved DEF StoreBecomes
            <4>2. QED
                BY <2>3, <3>1, <4>1, OneMoves
    <2>4. CASE UNCHANGED store
        BY <2>4, StoreStays
    <2>5. QED
        BY <1>7, <2>2, <2>3, <2>4 DEF checkActiveCall
<1>8. ASSUME NEW u \in Users, NEW f \in frames[u],
             \/ ConnectingFailed(u, f) \/ TokenGranted(u, f) \/ Connected(u, f)
             \/ OldLineLeft(u, f)
      PROVE  StoreMoves
    BY <1>8, HangingUpMoves, StoreStays
       DEF ConnectingFailed, TokenGranted, Connected, OldLineLeft
<1>9. ASSUME NEW u \in Users, TimerFires(u) \/ Decline(u) \/ HangUp(u) PROVE StoreMoves
    BY <1>9, HangingUpMoves, StoreStays DEF TimerFires, Decline, HangUp
<1>10. ASSUME NEW u \in Users, PollServed(u) \/ EventLost(u) \/ Served(u) PROVE StoreMoves
    BY <1>10, StoreStays
       DEF PollServed, EventLost, Served, InviteServed, TokenServed, LineOpens
<1>11. ASSUME \/ \E q \in requests : RequestArrives(q) \/ RequestLost(q)
              \/ \E r \in Rooms : InvitationExpires(r)
       PROVE  StoreMoves
    BY <1>11, StoreStays DEF RequestArrives, RequestLost, InvitationExpires
<1>12. CASE UNCHANGED vars
    BY <1>12, StoreStays DEF vars
<1>13. QED
    BY <1>1, <1>2, <1>3, <1>4, <1>5, <1>6, <1>7, <1>8, <1>9, <1>10, <1>11, <1>12
       DEF Next, World, InRoom, Person, Client, GoesOn

\* An event was there, or tells of something else, or invites the other to a room just made.
EventMoves ==
    \A v \in Users : \A i \in 1..Len(events'[v]) :
        \/ \E j \in 1..Len(events[v]) : events'[v][i] = events[v][j]
        \/ events'[v][i].type # "invitation"
        \/ /\ invitation'[events'[v][i].raum].at # "none"
           /\ invitation'[events'[v][i].raum].creator # v

LEMMA EventsStay == ASSUME UNCHANGED events PROVE EventMoves
BY DEF EventMoves

LEMMA ToldMoves ==
    ASSUME Typed, NEW u \in Users, NEW type, NEW r,
           type = "invitation" => invitation'[r].at # "none" /\ invitation'[r].creator # u,
           events' = Told(u, type, r)
    PROVE  EventMoves
<1> DEFINE e == [type |-> type, raum |-> r]
<1>1. e.type = type /\ e.raum = r
    OBVIOUS
<1>2. events' = [events EXCEPT ![u] = Append(@, e)]
    BY DEF Told
<1> HIDE DEF e
<1>3. \A v \in Users : events[v] \in Seq(EventType)
    BY TypedParts DEF EventsOK
<1>4. ASSUME NEW v \in Users, NEW i \in 1..Len(events'[v])
      PROVE  \/ i \in 1..Len(events[v]) /\ events'[v][i] = events[v][i]
             \/ v = u /\ events'[v][i] = e
    <2>1. CASE v = u
        <3>1. events'[v] = Append(events[v], e)
            BY <1>2, <2>1, TypedParts DEF EventsOK
        <3>2. QED
            BY <1>3, <2>1, <3>1
    <2>2. CASE v # u
        BY <1>2, <2>2, TypedParts DEF EventsOK
    <2>3. QED
        BY <2>1, <2>2
<1>5. QED
    BY <1>1, <1>4 DEF EventMoves

LEMMA TailMoves ==
    ASSUME Typed, NEW u \in Users, events[u] # <<>>, events' = [events EXCEPT ![u] = Tail(@)]
    PROVE  EventMoves
<1>1. ASSUME NEW v \in Users, NEW i \in 1..Len(events'[v])
      PROVE  \E j \in 1..Len(events[v]) : events'[v][i] = events[v][j]
    <2>1. CASE v = u
        <3>1. events'[v] = Tail(events[v]) /\ events[v] \in Seq(EventType) /\ events[v] # <<>>
            BY <2>1, TypedParts DEF EventsOK
        <3>2. i \in 1..Len(Tail(events[v]))
            BY <3>1
        <3>3. i + 1 \in 1..Len(events[v]) /\ Tail(events[v])[i] = events[v][i + 1]
            BY <3>1, <3>2
        <3>4. QED
            BY <3>1, <3>3
    <2>2. CASE v # u
        BY <2>2, TypedParts DEF EventsOK
    <2>3. QED
        BY <2>1, <2>2
<1>2. QED
    BY <1>1 DEF EventMoves

LEMMA SupersededMoves ==
    ASSUME Typed, NEW u \in Users, NEW r, Superseded(u, r)
    PROVE  EventMoves
<1> DEFINE ends(t) == [type |-> t, raum |-> registered[u]]
<1>1. \A t : ends(t).type = t
    OBVIOUS
<1>2. events' = [v \in Users |-> IF v = u THEN Append(events[v], ends("superseded"))
                                 ELSE events[v] \o <<ends("cancelled"), ends("ended")>>]
    BY DEF Superseded
<1> HIDE DEF ends
<1>3. ASSUME NEW v \in Users, NEW i \in 1..Len(events'[v])
      PROVE  \/ i \in 1..Len(events[v]) /\ events'[v][i] = events[v][i]
             \/ events'[v][i] \in {ends("superseded"), ends("cancelled"), ends("ended")}
    <2>1. events[v] \in Seq(EventType)
        BY TypedParts DEF EventsOK
    <2>2. CASE v = u
        <3>1. events'[v] = Append(events[v], ends("superseded"))
            BY <1>2, <2>2
        <3>2. QED
            BY <2>1, <3>1
    <2>3. CASE v # u
        <3>1. events'[v] = events[v] \o <<ends("cancelled"), ends("ended")>>
            BY <1>2, <2>3
        <3>2. QED
            BY <2>1, <3>1
    <2>4. QED
        BY <2>2, <2>3
<1>4. QED
    BY <1>1, <1>3 DEF EventMoves

LEMMA EventsMove == ASSUME Typed, [Next]_vars PROVE EventMoves
<1> USE DEF store, panel
<1>0. InvitationsOK
    BY TypedParts
<1>1. ASSUME NEW u \in Users, NEW f \in frames[u], InviteServed(u, f) PROVE EventMoves
    <2> DEFINE r == CHOOSE n \in Rooms : invitation[n].at = "none"
    <2>1. r \in Rooms
        BY <1>1 DEF InviteServed
    <2>2. /\ invitation' = [invitation EXCEPT ![r] = [at |-> "ringing", creator |-> u]]
          /\ events' = Told(Other(u), "invitation", r)
        BY <1>1 DEF InviteServed
    <2> HIDE DEF r
    <2>3. invitation'[r].at # "none" /\ invitation'[r].creator # Other(u)
        BY <1>0, <2>1, <2>2, TwoPeople DEF InvitationsOK
    <2>4. QED
        BY <2>2, <2>3, TwoPeople, ToldMoves
<1>2. ASSUME NEW u \in Users, NEW f \in frames[u], TokenServed(u, f) PROVE EventMoves
    BY <1>2, SupersededMoves, EventsStay DEF TokenServed
<1>3. ASSUME NEW q \in requests, RequestArrives(q) \/ RequestLost(q) PROVE EventMoves
    <2>1. Other(q.user) \in Users
        BY TypedParts, TwoPeople DEF Requests
    <2>2. QED
        BY <1>3, <2>1, ToldMoves, EventsStay
           DEF RequestArrives, RequestLost, Cancel, Reject, Leave, Cancelled
<1>4. ASSUME NEW u \in Users, handleCallSyncEvent(u) \/ EventLost(u) PROVE EventMoves
    BY <1>4, TailMoves DEF handleCallSyncEvent, EventLost
<1>5. ASSUME NEW u \in Users,
             \/ GoesOn(u) \/ TimerFires(u) \/ checkActiveCall(u) \/ Person(u) \/ InRoom(u)
             \/ PollServed(u) \/ \E f \in frames[u] : LineOpens(u, f)
             \/ \E l \in lines[u] : Disconnected(u, l)
      PROVE  UNCHANGED events
    BY <1>5 DEF GoesOn, Dialled, ConnectingFailed, TokenGranted, Connected, OldLineLeft,
                MediaReady, TimerFires, checkActiveCall, Person, initiateCall, acceptCall,
                Decline, HangUp, InRoom, ParticipantConnected, ParticipantDisconnected,
                PollServed, LineOpens, Disconnected
<1>6. ASSUME \/ UNCHANGED vars \/ \E r \in Rooms : InvitationExpires(r)
      PROVE  UNCHANGED events
    BY <1>6 DEF vars, InvitationExpires
<1>7. QED
    BY <1>1, <1>2, <1>3, <1>4, <1>5, <1>6, EventsStay DEF Next, World, Served, Client

LEMMA EventsMadeStep ==
    ASSUME Typed, EventsMade, [Next]_vars
    PROVE  EventsMade'
<1>1. Grows /\ EventMoves
    BY InvitationGrows, EventsMove
<1>2. ASSUME NEW v \in Users, NEW i \in 1..Len(events'[v]),
             events'[v][i].type = "invitation"
      PROVE  /\ invitation'[events'[v][i].raum].at # "none"
             /\ invitation'[events'[v][i].raum].creator # v
    <2>1. CASE \E j \in 1..Len(events[v]) : events'[v][i] = events[v][j]
        <3>1. PICK j \in 1..Len(events[v]) : events'[v][i] = events[v][j]
            BY <2>1
        <3>2. events[v][j] \in EventType
            BY TypedParts DEF EventsOK
        <3>3. events[v][j].raum \in Rooms
            BY <3>2 DEF EventType
        <3>4. Made(events[v][j].raum) /\ ~Own(v, events[v][j].raum)
            BY <1>2, <3>1 DEF EventsMade
        <3>5. QED
            BY <1>1, <3>1, <3>3, <3>4 DEF Grows, Own
    <2>2. QED
        BY <1>1, <1>2, <2>1 DEF EventMoves
<1>3. QED
    BY <1>2 DEF EventsMade, Made, Own

\* A room is dialled when the frame that asked for it knows it.
DialledMoves ==
    \A r \in dialled' :
        \/ r \in dialled
        \/ /\ r \in Rooms /\ invitation'[r].at # "none"
           /\ invitation'[r].creator \in Users
           /\ \E f \in frames'[invitation'[r].creator] : f.at = "invited" /\ f.raum = r

LEMMA DialledMove == ASSUME Typed, [Next]_vars PROVE DialledMoves
<1> USE DEF store, panel
<1>0. InvitationsOK /\ FramesOK
    BY TypedParts
<1>1. ASSUME NEW u \in Users, NEW f \in frames[u], InviteServed(u, f) PROVE DialledMoves
    <2> DEFINE r == CHOOSE n \in Rooms : invitation[n].at = "none"
               h == [f EXCEPT !.at = "invited", !.raum = r]
    <2>1. r \in Rooms /\ f \in FrameType
        BY <1>0, <1>1 DEF InviteServed, FramesOK
    <2>2. h.at = "invited" /\ h.raum = r
        BY <2>1 DEF FrameType
    <2>3. /\ invitation' = [invitation EXCEPT ![r] = [at |-> "ringing", creator |-> u]]
          /\ \/ /\ frames' = [frames EXCEPT ![u] = (@ \ {f}) \cup {h}]
                /\ dialled' = dialled \cup {r}
             \/ UNCHANGED dialled
        BY <1>1 DEF InviteServed
    <2> HIDE DEF r, h
    <2>4. invitation'[r].at # "none" /\ invitation'[r].creator = u
        BY <1>0, <2>1, <2>3 DEF InvitationsOK
    <2>5. CASE frames' = [frames EXCEPT ![u] = (@ \ {f}) \cup {h}] /\ dialled' = dialled \cup {r}
        <3>1. h \in frames'[u]
            BY <1>0, <2>5 DEF FramesOK
        <3>2. QED
            BY <2>1, <2>2, <2>4, <2>5, <3>1 DEF DialledMoves
    <2>6. QED
        BY <2>3, <2>5 DEF DialledMoves
<1>2. ASSUME NEW u \in Users,
             \/ Client(u) \/ Person(u) \/ InRoom(u) \/ PollServed(u) \/ EventLost(u)
             \/ \E f \in frames[u] : TokenServed(u, f) \/ LineOpens(u, f)
             \/ \E l \in lines[u] : Disconnected(u, l)
      PROVE  UNCHANGED dialled
    BY <1>2 DEF Client, GoesOn, Dialled, ConnectingFailed, TokenGranted, Connected, OldLineLeft,
                MediaReady, TimerFires, checkActiveCall, handleCallSyncEvent, Person,
                initiateCall, acceptCall, Decline, HangUp, InRoom, ParticipantConnected,
                ParticipantDisconnected, PollServed, EventLost, TokenServed, LineOpens,
                Disconnected
<1>3. ASSUME \/ UNCHANGED vars \/ \E r \in Rooms : InvitationExpires(r)
             \/ \E q \in requests : RequestArrives(q) \/ RequestLost(q)
      PROVE  UNCHANGED dialled
    BY <1>3 DEF vars, InvitationExpires, RequestArrives, RequestLost
<1>4. QED
    BY <1>1, <1>2, <1>3 DEF Next, World, Served, DialledMoves

\* What a poll answers rings for the other.
PollMoves ==
    \A v \in Users :
        \/ poll'[v].pending \in {NoRoom, poll[v].pending}
        \/ /\ poll'[v].pending \in Rooms
           /\ Made(poll'[v].pending) /\ ~Own(v, poll'[v].pending)

LEMMA PollsMove == ASSUME Typed, [Next]_vars PROVE PollMoves
<1> USE DEF store, panel
<1>0. PollOK
    BY TypedParts
<1>1. ASSUME NEW u \in Users, PollServed(u) PROVE PollMoves
    <2>1. \/ Pending(u) = NoRoom
          \/ Pending(u) \in Rooms /\ Made(Pending(u)) /\ ~Own(u, Pending(u))
        BY DEF Pending, Made, Own
    <2>2. poll' = [poll EXCEPT ![u] = [at |-> "answered", pending |-> Pending(u)]]
        BY <1>1 DEF PollServed
    <2> DEFINE p == Pending(u)
    <2>3. /\ p # NoRoom => p \in Rooms /\ Made(p) /\ ~Own(u, p)
          /\ poll' = [poll EXCEPT ![u] = [at |-> "answered", pending |-> p]]
        BY <2>1, <2>2
    <2> HIDE DEF p
    <2>4. poll'[u].pending = p /\ \A v \in Users : v # u => poll'[v] = poll[v]
        BY <1>0, <2>3 DEF PollOK
    <2>5. QED
        BY <2>3, <2>4 DEF PollMoves
<1>2. ASSUME NEW u \in Users, checkActiveCall(u) PROVE PollMoves
    BY <1>0, <1>2 DEF checkActiveCall, NoPoll, PollMoves, PollOK
<1>3. ASSUME NEW u \in Users,
             \/ GoesOn(u) \/ TimerFires(u) \/ handleCallSyncEvent(u) \/ Person(u) \/ InRoom(u)
             \/ EventLost(u) \/ Served(u) \/ \E l \in lines[u] : Disconnected(u, l)
      PROVE  UNCHANGED poll
    BY <1>3 DEF GoesOn, Dialled, ConnectingFailed, TokenGranted, Connected, OldLineLeft,
                MediaReady, TimerFires, handleCallSyncEvent, Person, initiateCall, acceptCall,
                Decline, HangUp, InRoom, ParticipantConnected, ParticipantDisconnected,
                EventLost, Served, InviteServed, TokenServed, LineOpens, Disconnected
<1>4. ASSUME \/ UNCHANGED vars \/ \E r \in Rooms : InvitationExpires(r)
             \/ \E q \in requests : RequestArrives(q) \/ RequestLost(q)
      PROVE  UNCHANGED poll
    BY <1>4 DEF vars, InvitationExpires, RequestArrives, RequestLost
<1>5. QED
    BY <1>1, <1>2, <1>3, <1>4 DEF Next, World, Client, PollMoves

LEMMA RoomsMadeStep ==
    ASSUME Typed, RoomsMade, EventsMade, [Next]_vars
    PROVE  RoomsMade'
<1>0. Grows /\ LineMoves /\ FrameMoves /\ StoreMoves /\ DialledMoves /\ PollMoves
    BY InvitationGrows, LinesMove, FramesMove, StoresMove, DialledMove, PollsMove
<1>1. StoreOK /\ FramesOK /\ LinesOK /\ PollOK /\ dialled \subseteq Rooms
    BY TypedParts
<1>2. ASSUME NEW r \in Rooms, Made(r)
      PROVE  invitation'[r].at # "none" /\ invitation'[r].creator = invitation[r].creator
    BY <1>0, <1>2 DEF Grows
<1>3. ASSUME NEW r \in dialled' PROVE invitation'[r].at # "none"
    BY <1>0, <1>1, <1>2 DEF DialledMoves, RoomsMade
<1>4. ASSUME NEW v \in Users, raum'[v] # NoRoom PROVE invitation'[raum'[v]].at # "none"
    <2>1. StoreOK'
        BY TypedStep, TypedPartsIn
    <2>2. raum'[v] \in Rooms
        BY <1>4, <2>1 DEF StoreOK
    <2>3. Made(raum'[v])
        <3>1. CASE Stays(v)
            BY <1>4, <3>1 DEF Stays, RoomsMade
        <3>2. CASE ComesBack(v)
            BY <3>2 DEF ComesBack, RoomsMade
        <3>3. QED
            BY <1>0, <1>4, <3>1, <3>2 DEF StoreMoves, IsOver, IsRung
    <2>4. QED
        BY <1>2, <2>2, <2>3
<1>5. ASSUME NEW v \in Users, NEW h \in frames'[v], h.at # "invite"
      PROVE  invitation'[h.raum].at # "none"
    <2>1. ASSUME NEW f \in frames[v], f.at # "invite" PROVE f.raum \in Rooms /\ Made(f.raum)
        BY <1>1, <2>1 DEF FramesOK, FrameKnown, RoomsMade
    <2>2. raum[v] # NoRoom => raum[v] \in Rooms /\ Made(raum[v])
        BY <1>1 DEF StoreOK, RoomsMade
    <2>3. QED
        BY <1>0, <1>2, <1>5, <2>1, <2>2 DEF FrameMoves
<1>6. ASSUME NEW v \in Users, NEW k \in lines'[v] PROVE invitation'[k.raum].at # "none"
    <2>1. ASSUME NEW f \in frames[v], f.at = "connect" PROVE f.raum \in Rooms /\ Made(f.raum)
        BY <1>1, <2>1 DEF FramesOK, FrameKnown, RoomsMade
    <2>2. \A l \in lines[v] : l.raum \in Rooms /\ Made(l.raum)
        BY <1>1 DEF LinesOK, LineType, RoomsMade
    <2>3. QED
        BY <1>0, <1>2, <2>1, <2>2 DEF LineMoves
<1>7. ASSUME NEW v \in Users, poll'[v].pending # NoRoom
      PROVE  /\ invitation'[poll'[v].pending].at # "none"
             /\ invitation'[poll'[v].pending].creator # v
    <2>1. /\ poll'[v].pending \in Rooms /\ Made(poll'[v].pending)
          /\ ~Own(v, poll'[v].pending)
        <3>1. poll[v].pending \in Rooms \cup {NoRoom}
            BY <1>1 DEF PollOK
        <3>2. QED
            BY <1>0, <1>7, <3>1 DEF PollMoves, RoomsMade
    <2>2. QED
        BY <1>2, <2>1 DEF Own
<1>8. QED
    BY <1>3, <1>4, <1>5, <1>6, <1>7 DEF RoomsMade, Made, Own

-----------------------------------------------------------------------------
(* The attempt of a store.                                                 *)

LEMMA StandsNone ==
    ASSUME NEW a, ~a, NEW r, NEW F, NEW L, \A l \in L : l.id # 0
    PROVE  Stands(a, r, 0, F, L)
BY DEF Stands

LEMMA StandsDrop ==
    ASSUME NEW a, NEW r, NEW g, NEW F, NEW L, Stands(a, r, g, F, L),
           NEW f \in F
    PROVE  Stands(a, r, g, F \ {f}, L)
BY DEF Stands

LEMMA StandsStepped ==
    ASSUME NEW a, NEW r, NEW g, NEW F, NEW L, Stands(a, r, g, F, L),
           NEW f \in F, NEW h, h.generation = f.generation, h.raum = f.raum
    PROVE  Stands(a, r, g, (F \ {f}) \cup {h}, L)
BY DEF Stands

LEMMA StandsInvites ==
    ASSUME NEW a, NEW r, NEW g, NEW F, NEW L, Stands(a, r, g, F, L),
           NEW d, d.generation = 0, NEW f, f.generation = 0
    PROVE  Stands(a, r, g, (F \ {d}) \cup {f}, L)
BY DEF Stands

LEMMA StandsLines ==
    ASSUME NEW a, NEW r, NEW g, NEW F, NEW L, Stands(a, r, g, F, L),
           NEW M, \A k \in M : \E l \in L : k.id = l.id /\ k.raum = l.raum
    PROVE  Stands(a, r, g, F, M)
BY DEF Stands

LEMMA StandsOpens ==
    ASSUME NEW a, NEW r, NEW g, NEW F, NEW L, Stands(a, r, g, F, L),
           NEW f \in F, NEW l, f.generation # 0, l.id = f.generation, l.raum = f.raum
    PROVE  Stands(a, r, g, F, L \cup {l})
BY DEF Stands

LEMMA StandsHeard ==
    ASSUME NEW a, NEW r, NEW g, NEW F, NEW L, Stands(a, r, g, F, L), g # 0, NEW b
    PROVE  Stands(b, r, g, F, L)
BY DEF Stands

LEMMA StandsConnects ==
    ASSUME NEW F, NEW L, NEW n, n # 0, \A f \in F : f.generation # n, \A l \in L : l.id # n,
           NEW others \in SUBSET F, NEW h, h.generation = n, h.at = "token",
           NEW a
    PROVE  Stands(a, h.raum, n, others \cup {h}, L)
BY DEF Stands

\* A step of u that leaves it so.
Sets(u, a, r, g, F, L) ==
    /\ angenommen' = [angenommen EXCEPT ![u] = a] /\ raum' = [raum EXCEPT ![u] = r]
    /\ generation' = [generation EXCEPT ![u] = g]
    /\ frames' = [frames EXCEPT ![u] = F] /\ lines' = [lines EXCEPT ![u] = L]

LEMMA StandsStep ==
    ASSUME Typed, AttemptStands, NEW u \in Users,
           NEW a, NEW r, NEW g, NEW F, NEW L, Stands(a, r, g, F, L),
           Sets(u, a, r, g, F, L)
    PROVE  AttemptStands'
<1>1. /\ angenommen'[u] = a /\ raum'[u] = r /\ generation'[u] = g
      /\ frames'[u] = F /\ lines'[u] = L
    BY DEF Sets, Typed, TypeOK
<1>2. ASSUME NEW v \in Users, v # u
      PROVE  /\ angenommen'[v] = angenommen[v] /\ raum'[v] = raum[v]
             /\ generation'[v] = generation[v]
             /\ frames'[v] = frames[v] /\ lines'[v] = lines[v]
    BY <1>2 DEF Sets, Typed, TypeOK
<1>3. ASSUME NEW v \in Users
      PROVE  Stands(angenommen'[v], raum'[v], generation'[v], frames'[v], lines'[v])
    <2>1. CASE v = u
        BY <1>1, <2>1
    <2>2. CASE v # u
        BY <1>2, <2>2 DEF AttemptStands
    <2>3. QED
        BY <2>1, <2>2
<1>4. QED
    BY <1>3 DEF AttemptStands

LEMMA Still ==
    ASSUME Typed, NEW u \in Users
    PROVE  /\ angenommen = [angenommen EXCEPT ![u] = angenommen[u]]
           /\ raum = [raum EXCEPT ![u] = raum[u]]
           /\ generation = [generation EXCEPT ![u] = generation[u]]
           /\ frames = [frames EXCEPT ![u] = frames[u]]
           /\ lines = [lines EXCEPT ![u] = lines[u]]
           /\ (AttemptStands => Stands(angenommen[u], raum[u], generation[u], frames[u], lines[u]))
BY DEF AttemptStands, Typed, TypeOK

LEMMA QuietStands ==
    ASSUME AttemptStands, UNCHANGED <<angenommen, raum, generation, frames, lines>>
    PROVE  AttemptStands'
BY DEF AttemptStands

\* Without an attempt there is nothing that has to stand.
LEMMA LeftStands ==
    ASSUME Typed, AttemptStands, NEW u \in Users, NEW F, frames' = [frames EXCEPT ![u] = F],
           NEW r, raum' = [raum EXCEPT ![u] = r],
           angenommen' = [angenommen EXCEPT ![u] = FALSE], raeumeAuf(u)
    PROVE  AttemptStands'
<1> DEFINE L == {l \in lines[u] : l.id # verbindung[u]}
<1>1. Stands(FALSE, r, 0, F, L)
    BY StandsNone, LineFacts, NumbersArePositive
<1>2. Sets(u, FALSE, r, 0, F, L)
    BY DEF Sets, raeumeAuf
<1> HIDE DEF L
<1>3. QED
    BY <1>1, <1>2, StandsStep

LEMMA HangingUpStands ==
    ASSUME Typed, AttemptStands, NEW u \in Users, endCall(u) \/ rejectCall(u),
           NEW F, frames' = [frames EXCEPT ![u] = F]
    PROVE  AttemptStands'
BY LeftStands DEF endCall, rejectCall, EndCallSending

LEMMA StayingStands ==
    ASSUME Typed, AttemptStands, NEW u \in Users, endCall(u) \/ rejectCall(u), UNCHANGED frames
    PROVE  AttemptStands'
BY HangingUpStands, Still

LEMMA ReceivedStands ==
    ASSUME Typed, AttemptStands, NEW u \in Users, NEW r, receiveCall(u, r), UNCHANGED frames
    PROVE  AttemptStands'
<1>1. frames' = [frames EXCEPT ![u] = frames[u]]
    BY Still
<1>2. QED
    BY <1>1, LeftStands, QuietStands DEF receiveCall, store

LEMMA ConnectingStands ==
    ASSUME Typed, AttemptStands, NEW u \in Users, NEW r, NEW others \in SUBSET frames[u],
           NEW accepts, ConnectingTo(u, r, others, accepts),
           NEW a, angenommen' = [angenommen EXCEPT ![u] = a],
           raum' = [raum EXCEPT ![u] = r], UNCHANGED lines
    PROVE  AttemptStands'
<1>1. PICK n \in Unused(u) :
          /\ generation' = [generation EXCEPT ![u] = n]
          /\ frames' = [frames EXCEPT ![u] = others \cup
                 {[at |-> "token", raum |-> r, generation |-> n, accepts |-> accepts]}]
    BY DEF ConnectingTo
<1>2. n # 0 /\ \A f \in frames[u] : f.generation # n
    BY NumbersArePositive DEF Unused
<1>3. \A l \in lines[u] : l.id # n
    BY DEF Unused
<1> DEFINE h == [at |-> "token", raum |-> r, generation |-> n, accepts |-> accepts]
<1>4. /\ h.at = "token" /\ h.generation = n /\ h.raum = r
      /\ frames' = [frames EXCEPT ![u] = others \cup {h}]
    BY <1>1
<1> HIDE DEF h
<1>5. Stands(a, r, n, others \cup {h}, lines[u])
    BY <1>2, <1>3, <1>4, StandsConnects
<1>6. Sets(u, a, r, n, others \cup {h}, lines[u])
    BY <1>1, <1>4, Still DEF Sets
<1>7. QED
    BY <1>5, <1>6, StandsStep

\* Only the frames of u change, and the store but for its phase does not.
LEMMA FramesStand ==
    ASSUME Typed, AttemptStands, NEW u \in Users, NEW F, frames' = [frames EXCEPT ![u] = F],
           Stands(angenommen[u], raum[u], generation[u], F, lines[u]),
           UNCHANGED <<angenommen, raum, generation, lines>>
    PROVE  AttemptStands'
<1>1. Sets(u, angenommen[u], raum[u], generation[u], F, lines[u])
    BY Still DEF Sets
<1>2. QED
    BY <1>1, StandsStep

LEMMA SteppedStands ==
    ASSUME Typed, AttemptStands, NEW u \in Users, NEW f \in frames[u], NEW at,
           frames' = Stepped(u, f, at),
           UNCHANGED <<angenommen, raum, generation, lines>>
    PROVE  AttemptStands'
<1> DEFINE h == [f EXCEPT !.at = at]
<1>1. f \in FrameType
    BY LineFacts
<1>2. h.at = at /\ h.generation = f.generation /\ h.raum = f.raum
    BY <1>1 DEF FrameType
<1>3. frames' = [frames EXCEPT ![u] = (frames[u] \ {f}) \cup {h}]
    BY Still DEF Stepped
<1> HIDE DEF h
<1>4. Stands(angenommen[u], raum[u], generation[u], (frames[u] \ {f}) \cup {h}, lines[u])
    BY <1>2, Still, StandsStepped
<1>5. QED
    BY <1>3, <1>4, FramesStand

LEMMA EndedStands ==
    ASSUME Typed, AttemptStands, NEW u \in Users, NEW f \in frames[u],
           frames' = [frames EXCEPT ![u] = @ \ {f}],
           UNCHANGED <<angenommen, raum, generation, lines>>
    PROVE  AttemptStands'
<1>1. Stands(angenommen[u], raum[u], generation[u], frames[u] \ {f}, lines[u])
    <2>1. Stands(angenommen[u], raum[u], generation[u], frames[u], lines[u])
        BY Still
    <2>2. QED
        BY <2>1, StandsDrop
<1>2. frames' = [frames EXCEPT ![u] = frames[u] \ {f}]
    OBVIOUS
<1>3. QED
    BY <1>1, <1>2, FramesStand

LEMMA LinesStand ==
    ASSUME Typed, AttemptStands, NEW u \in Users, NEW M, lines' = [lines EXCEPT ![u] = M],
           \A k \in M : \E l \in lines[u] : k.id = l.id /\ k.raum = l.raum,
           NEW b, angenommen' = [angenommen EXCEPT ![u] = b],
           b = angenommen[u] \/ generation[u] # 0,
           UNCHANGED <<raum, generation, frames>>
    PROVE  AttemptStands'
<1>1. Stands(angenommen[u], raum[u], generation[u], frames[u], M)
    BY Still, StandsLines
<1>2. Stands(b, raum[u], generation[u], frames[u], M)
    BY <1>1, StandsHeard
<1>3. Sets(u, b, raum[u], generation[u], frames[u], M)
    BY Still DEF Sets
<1>4. QED
    BY <1>2, <1>3, StandsStep

LEMMA ServedStands ==
    ASSUME Typed, AttemptStands, LinesSound, NEW u \in Users, Served(u)
    PROVE  AttemptStands'
<1> USE DEF store
<1>0. Stands(angenommen[u], raum[u], generation[u], frames[u], lines[u])
    BY Still
<1>1. ASSUME NEW f \in frames[u], InviteServed(u, f) PROVE AttemptStands'
    <2>1. /\ f \in FrameType /\ f.generation = 0
          /\ UNCHANGED <<angenommen, raum, generation, lines>>
        BY <1>1, Same, LineFacts DEF InviteServed, Sound
    <2>2. CASE frames' = [frames EXCEPT ![u] = @ \ {f}]
        BY <2>1, <2>2, EndedStands
    <2>3. ASSUME NEW r, frames' = [frames EXCEPT ![u] = (@ \ {f}) \cup
                                      {[f EXCEPT !.at = "invited", !.raum = r]}]
          PROVE  AttemptStands'
        <3> DEFINE h == [f EXCEPT !.at = "invited", !.raum = r]
        <3>1. h.generation = 0
            BY <2>1 DEF FrameType
        <3>2. frames' = [frames EXCEPT ![u] = (frames[u] \ {f}) \cup {h}]
            BY <2>3
        <3> HIDE DEF h
        <3>3. Stands(angenommen[u], raum[u], generation[u], (frames[u] \ {f}) \cup {h}, lines[u])
            BY <1>0, <2>1, <3>1, StandsInvites
        <3>4. QED
            BY <2>1, <3>2, <3>3, FramesStand
    <2>4. QED
        BY <1>1, <2>2, <2>3 DEF InviteServed
<1>2. ASSUME NEW f \in frames[u], TokenServed(u, f) PROVE AttemptStands'
    <2>1. UNCHANGED <<angenommen, raum, generation, lines>>
        BY <1>2 DEF TokenServed
    <2>2. frames' = Stepped(u, f, "refused") \/ frames' = Stepped(u, f, "granted")
        BY <1>2 DEF TokenServed
    <2>3. QED
        BY <2>1, <2>2, SteppedStands
<1>3. ASSUME NEW f \in frames[u], LineOpens(u, f) PROVE AttemptStands'
    <2>1. /\ UNCHANGED <<angenommen, raum, generation>>
          /\ f \in FrameType /\ f.generation # 0
        BY <1>3, Same, LineFacts DEF LineOpens, Sound
    <2>2. CASE frames' = Stepped(u, f, "refused") /\ UNCHANGED lines
        BY <2>1, <2>2, SteppedStands
    <2> DEFINE l == [id |-> f.generation, raum |-> f.raum,
                     sees |-> Other(u) \in Present(f.raum), met |-> FALSE, handled |-> FALSE]
               h == [f EXCEPT !.at = "connected"]
    <2>3. CASE frames' = Stepped(u, f, "connected") /\ lines' = [lines EXCEPT ![u] = @ \cup {l}]
        <3>1. /\ h.at = "connected" /\ h.generation = f.generation /\ h.raum = f.raum
              /\ l.id = f.generation /\ l.raum = f.raum
            BY <2>1 DEF FrameType
        <3>2. /\ frames' = [frames EXCEPT ![u] = (frames[u] \ {f}) \cup {h}]
              /\ lines' = [lines EXCEPT ![u] = lines[u] \cup {l}]
            BY <2>3, Still DEF Stepped
        <3> HIDE DEF h, l
        <3>3. Stands(angenommen[u], raum[u], generation[u], frames[u], lines[u] \cup {l})
            BY <1>0, <2>1, <3>1, StandsOpens
        <3>4. Stands(angenommen[u], raum[u], generation[u], (frames[u] \ {f}) \cup {h},
                     lines[u] \cup {l})
            BY <3>1, <3>3, StandsStepped
        <3>5. Sets(u, angenommen[u], raum[u], generation[u], (frames[u] \ {f}) \cup {h},
                   lines[u] \cup {l})
            BY <2>1, <3>2, Still DEF Sets
        <3>6. QED
            BY <3>4, <3>5, StandsStep
    <2>4. QED
        BY <1>3, <2>2, <2>3 DEF LineOpens
<1>4. QED
    BY <1>1, <1>2, <1>3 DEF Served

LEMMA InRoomStands ==
    ASSUME Typed, AttemptStands, NEW u \in Users, NEW l \in lines[u],
           \/ ParticipantConnected(u, l) \/ ParticipantDisconnected(u, l) \/ Disconnected(u, l)
    PROVE  AttemptStands'
<1> USE DEF store
<1>0. l \in LineType /\ l.id # 0 /\ UNCHANGED frames
    BY LineFacts, NumbersArePositive
       DEF ParticipantConnected, ParticipantDisconnected, Disconnected
<1>1. CASE endCall(u)
    BY <1>0, <1>1, StayingStands
<1>2. CASE lines' = [lines EXCEPT ![u] = @ \ {l}] /\ UNCHANGED store
    <2>1. lines' = [lines EXCEPT ![u] = lines[u] \ {l}]
        BY <1>2
    <2>2. angenommen' = [angenommen EXCEPT ![u] = angenommen[u]]
        BY <1>2, Still
    <2>3. \A k \in lines[u] \ {l} : \E m \in lines[u] : k.id = m.id /\ k.raum = m.raum
        OBVIOUS
    <2>4. QED
        BY <1>0, <1>2, <2>1, <2>2, <2>3, LinesStand
<1>3. ASSUME NEW here \in BOOLEAN, lines' = Seeing(u, l, here),
             UNCHANGED <<raum, generation>>,
             NEW b, angenommen' = [angenommen EXCEPT ![u] = b],
             b = angenommen[u] \/ generation[u] # 0
      PROVE  AttemptStands'
    <2> DEFINE k == [l EXCEPT !.sees = here, !.met = @ \/ (here /\ l.handled)]
    <2>1. k.id = l.id /\ k.raum = l.raum
        BY <1>0 DEF LineType
    <2>2. lines' = [lines EXCEPT ![u] = (lines[u] \ {l}) \cup {k}]
        BY <1>3 DEF Seeing
    <2> HIDE DEF k
    <2>3. \A m \in (lines[u] \ {l}) \cup {k} : \E n \in lines[u] : m.id = n.id /\ m.raum = n.raum
        BY <2>1
    <2>4. QED
        BY <1>0, <1>3, <2>2, <2>3, LinesStand
<1>4. CASE lines' = Seeing(u, l, FALSE) /\ UNCHANGED store
    BY <1>3, <1>4, Still
<1>5. CASE ParticipantConnected(u, l)
    <2>1. lines' = Seeing(u, l, TRUE) /\ UNCHANGED <<raum, generation>>
        BY <1>5 DEF ParticipantConnected
    <2>2. CASE Current(u, l)
        <3>1. angenommen' = [angenommen EXCEPT ![u] = TRUE] /\ generation[u] # 0
            BY <1>0, <1>5, <2>2 DEF ParticipantConnected, Current
        <3>2. QED
            BY <1>3, <2>1, <3>1
    <2>3. CASE ~Current(u, l)
        <3>1. angenommen' = [angenommen EXCEPT ![u] = angenommen[u]]
            BY <1>5, <2>3, Still DEF ParticipantConnected
        <3>2. QED
            BY <1>3, <2>1, <3>1
    <2>4. QED
        BY <2>2, <2>3
<1>6. QED
    BY <1>1, <1>2, <1>4, <1>5 DEF ParticipantDisconnected, Disconnected

LEMMA ConnectedStands ==
    ASSUME Typed, AttemptStands, LinesSound, NEW u \in Users,
           NEW f \in frames[u], Connected(u, f)
    PROVE  AttemptStands'
<1> USE DEF store
<1>0. Stands(angenommen[u], raum[u], generation[u], frames[u], lines[u])
    BY Still
<1>1. /\ f.at = "connected" /\ f \in FrameType /\ f.generation # 0
      /\ UNCHANGED <<angenommen, raum, generation>>
      /\ verbindung' = [verbindung EXCEPT ![u] = f.generation]
    BY LineFacts, Same DEF Connected, Sound
<1>2. CASE f.generation = generation[u] /\ frames' = Stepped(u, f, "media")
    <2> DEFINE h == [f EXCEPT !.at = "media"]
               mark(l) == IF l.id = f.generation
                          THEN [l EXCEPT !.handled = TRUE, !.met = l.sees] ELSE l
    <2>1. h.generation = f.generation /\ h.raum = f.raum
        BY <1>1 DEF FrameType
    <2>2. frames' = [frames EXCEPT ![u] = (frames[u] \ {f}) \cup {h}]
        BY <1>2, Still DEF Stepped
    <2>3. \A l \in LineType : mark(l).id = l.id /\ mark(l).raum = l.raum
        BY DEF LineType
    <2>4. lines' = [lines EXCEPT ![u] = {mark(l) : l \in @}] \/ UNCHANGED lines
        BY DEF Connected
    <2> HIDE DEF h, mark
    <2>5. PICK M : /\ lines' = [lines EXCEPT ![u] = M]
                   /\ M = {mark(l) : l \in lines[u]} \/ M = lines[u]
        BY <2>4, Still
    <2>6. \A m \in M : \E l \in lines[u] : m.id = l.id /\ m.raum = l.raum
        BY <2>3, <2>5, LineFacts
    <2>7. Stands(angenommen[u], raum[u], generation[u], frames[u], M)
        BY <1>0, <2>6, StandsLines
    <2>8. Stands(angenommen[u], raum[u], generation[u], (frames[u] \ {f}) \cup {h}, M)
        BY <2>1, <2>7, StandsStepped
    <2>9. Sets(u, angenommen[u], raum[u], generation[u], (frames[u] \ {f}) \cup {h}, M)
        BY <1>1, <1>2, <2>2, <2>5, Still DEF Sets
    <2>10. QED
        BY <2>8, <2>9, StandsStep
<1>3. CASE f.generation # generation[u] /\ frames' = Stepped(u, f, "leaving")
           /\ UNCHANGED lines
    BY <1>1, <1>3, SteppedStands
<1>4. QED
    BY <1>2, <1>3 DEF Connected

LEMMA GoesOnStands ==
    ASSUME Typed, AttemptStands, LinesSound, NEW u \in Users, GoesOn(u)
    PROVE  AttemptStands'
<1> USE DEF store
<1>1. ASSUME NEW f \in frames[u], Dialled(u, f) PROVE AttemptStands'
    <2>1. angenommen' = [angenommen EXCEPT ![u] = angenommen[u]]
        BY <1>1, Still DEF Dialled
    <2>2. QED
        BY <1>1, <2>1, ConnectingStands DEF Dialled
<1>2. ASSUME NEW f \in frames[u], ConnectingFailed(u, f) PROVE AttemptStands'
    <2>1. frames' = [frames EXCEPT ![u] = frames[u] \ {f}]
        BY <1>2 DEF ConnectingFailed
    <2>2. CASE endCall(u)
        BY <2>1, <2>2, HangingUpStands
    <2>3. CASE phase[u] = "idle" /\ UNCHANGED <<store, lines>>
        BY <1>2, <2>3, EndedStands DEF ConnectingFailed
    <2>4. QED
        BY <1>2, <2>2, <2>3 DEF ConnectingFailed
<1>3. ASSUME NEW f \in frames[u], TokenGranted(u, f) PROVE AttemptStands'
    <2>1. UNCHANGED <<angenommen, raum, generation, lines>>
        BY <1>3 DEF TokenGranted
    <2>2. CASE frames' = Stepped(u, f, "connect")
        BY <2>1, <2>2, SteppedStands
    <2>3. CASE f.generation # generation[u] /\ frames' = [frames EXCEPT ![u] = @ \ {f}]
        BY <2>1, <2>3, EndedStands
    <2>4. QED
        BY <1>3, <2>2, <2>3 DEF TokenGranted
<1>4. ASSUME NEW f \in frames[u], OldLineLeft(u, f) PROVE AttemptStands'
    <2> DEFINE L == {l \in lines[u] : l.id # f.generation}
    <2>1. /\ frames' = [frames EXCEPT ![u] = frames[u] \ {f}] /\ lines' = [lines EXCEPT ![u] = L]
          /\ UNCHANGED <<angenommen, raum, generation>>
        BY <1>4 DEF OldLineLeft
    <2>2. \A k \in L : \E l \in lines[u] : k.id = l.id /\ k.raum = l.raum
        OBVIOUS
    <2> HIDE DEF L
    <2>3. Stands(angenommen[u], raum[u], generation[u], frames[u] \ {f}, L)
        <3>1. Stands(angenommen[u], raum[u], generation[u], frames[u] \ {f}, lines[u])
            BY Still, StandsDrop
        <3>2. QED
            BY <2>2, <3>1, StandsLines
    <2>4. Sets(u, angenommen[u], raum[u], generation[u], frames[u] \ {f}, L)
        BY <2>1, Still DEF Sets
    <2>5. QED
        BY <2>3, <2>4, StandsStep
<1>5. ASSUME NEW f \in frames[u], MediaReady(u, f) PROVE AttemptStands'
    BY <1>5, EndedStands DEF MediaReady
<1>6. QED
    BY <1>1, <1>2, <1>3, <1>4, <1>5, ConnectedStands DEF GoesOn

LEMMA AttemptStandsStep ==
    ASSUME Typed, AttemptStands, LinesSound, [Next]_vars
    PROVE  AttemptStands'
<1> USE DEF store
<1>1. ASSUME NEW u \in Users, Client(u) \/ Person(u) PROVE AttemptStands'
    <2>1. CASE TimerFires(u) \/ Decline(u) \/ HangUp(u)
        BY <2>1, StayingStands, QuietStands DEF TimerFires, Decline, HangUp
    <2>2. CASE handleCallSyncEvent(u)
        BY <2>2, StayingStands, ReceivedStands, QuietStands DEF handleCallSyncEvent
    <2>3. CASE checkActiveCall(u)
        <3>1. UNCHANGED frames
            BY <2>3 DEF checkActiveCall
        <3>2. CASE /\ phase[u] = "incoming" /\ raum' = [raum EXCEPT ![u] = NoRoom]
                   /\ UNCHANGED <<angenommen, generation, lines>>
            <4>1. generation[u] = 0 /\ ~angenommen[u]
                BY <3>2, Same, Still DEF Sound, Stands
            <4>2. Stands(angenommen[u], NoRoom, 0, frames[u], lines[u])
                BY <4>1, StandsNone, LineFacts, NumbersArePositive
            <4>3. Sets(u, angenommen[u], NoRoom, 0, frames[u], lines[u])
                BY <3>1, <3>2, <4>1, Still DEF Sets
            <4>4. QED
                BY <4>2, <4>3, StandsStep
        <3>3. CASE UNCHANGED <<store, lines>>
            BY <3>1, <3>3, QuietStands
        <3>4. QED
            BY <2>3, <3>1, <3>2, <3>3, ReceivedStands DEF checkActiveCall
    <2>4. CASE initiateCall(u)
        <3>1. frames' = [frames EXCEPT ![u] = frames[u] \cup
                  {[at |-> "invite", raum |-> NoRoom, generation |-> 0, accepts |-> FALSE]}]
            BY <2>4 DEF initiateCall
        <3>2. raum' = [raum EXCEPT ![u] = raum[u]]
            BY <2>4, Still DEF initiateCall
        <3>3. QED
            BY <2>4, <3>1, <3>2, LeftStands DEF initiateCall
    <2>5. CASE acceptCall(u)
        <3>1. raum' = [raum EXCEPT ![u] = raum[u]]
            BY <2>5, Still DEF acceptCall
        <3>2. QED
            BY <2>5, <3>1, ConnectingStands DEF acceptCall
    <2>6. QED
        BY <1>1, <2>1, <2>2, <2>3, <2>4, <2>5, GoesOnStands DEF Client, Person
<1>2. CASE \E u \in Users : PollServed(u) \/ EventLost(u)
    BY <1>2, QuietStands DEF PollServed, EventLost
<1>3. CASE \/ \E q \in requests : RequestArrives(q) \/ RequestLost(q)
           \/ \E r \in Rooms : InvitationExpires(r)
    BY <1>3, QuietStands DEF RequestArrives, RequestLost, InvitationExpires
<1>4. CASE UNCHANGED vars
    BY <1>4, QuietStands DEF vars
<1>5. QED
    BY <1>1, <1>2, <1>3, <1>4, ServedStands, InRoomStands DEF Next, World, InRoom

-----------------------------------------------------------------------------
(* The caller of an invitation that rings.                                 *)

\* A store comes back with an invitation only while it has no attempt, or it dials over
\* its own call.
LEMMA NoneComesBack ==
    ASSUME Typed, AttemptStands, NEW v \in Users, ComesBack(v)
    PROVE  /\ generation'[v] # 0
           /\ v \in displaced' \/ (generation[v] = 0 /\ ~angenommen[v])
<1>1. generation'[v] # 0
    BY NumbersArePositive DEF ComesBack, Unused
<1>2. v \in displaced' \/ generation[v] = 0
    BY DEF ComesBack
<1>3. QED
    BY <1>1, <1>2, Still DEF Stands

LEMMA OwnCallStep ==
    ASSUME Typed, LinesSound, RoomsMade, EventsMade, EnteredIsAnswered, AttemptStands, OwnCall,
           [Next]_vars
    PROVE  OwnCall'
<1>0. StoreMoves /\ Grows /\ StoreOK /\ StoreOK' /\ displaced \subseteq displaced'
    BY StoresMove, InvitationGrows, TypedParts, TypedStep, TypedPartsIn, DisplacedRemain
       DEF Marked
<1>1. ASSUME NEW v \in Users, raum'[v] # NoRoom, invitation'[raum'[v]].creator = v
      PROVE  /\ phase'[v] \notin {"idle", "incoming"} /\ generation'[v] # 0
             /\ invitation'[raum'[v]].at = "ringing" => ~angenommen'[v] \/ v \in displaced'
    <2>0. raum'[v] \in Rooms
        BY <1>0, <1>1 DEF StoreOK
    <2>1. CASE Stays(v)
        <3> DEFINE r == raum[v]
        <3>1. r \in Rooms /\ raum'[v] = r /\ Made(r)
            BY <1>1, <2>0, <2>1 DEF Stays, RoomsMade
        <3>2. Own(v, r) /\ (invitation'[r].at = "ringing" => invitation[r].at = "ringing")
            BY <1>0, <1>1, <3>1 DEF Grows, Own
        <3>3. /\ phase[v] \notin {"idle", "incoming"} /\ generation[v] # 0
              /\ invitation[r].at = "ringing" => ~angenommen[v] \/ v \in displaced
            BY <1>1, <3>1, <3>2 DEF OwnCall
        <3>4. ASSUME NEW l \in lines[v], l.id = generation[v], Other(v) \in Present(l.raum)
              PROVE  invitation[r].at # "ringing"
            <4>1. l.raum = r
                BY <3>4, Still DEF Stands
            <4>2. PICK k \in lines[Other(v)] : k.raum = r
                BY <3>4, <4>1 DEF Present
            <4>3. ~Own(Other(v), k.raum) /\ Other(v) \in Users
                BY <3>2, <4>2, TwoPeople DEF Own
            <4>4. QED
                BY <4>2, <4>3 DEF EnteredIsAnswered, Answered
        <3> HIDE DEF r
        <3>5. QED
            BY <1>0, <2>1, <3>1, <3>2, <3>3, <3>4 DEF Stays
    <2>2. CASE IsOver(v)
        BY <1>1, <2>2 DEF IsOver
    <2>3. CASE IsRung(v)
        BY <1>0, <1>1, <2>0, <2>3 DEF IsRung, Grows, Own
    <2>4. CASE ComesBack(v)
        BY <2>4, NoneComesBack DEF ComesBack
    <2>5. QED
        BY <1>0, <2>1, <2>2, <2>3, <2>4 DEF StoreMoves
<1>2. QED
    BY <1>1 DEF OwnCall, Own

\* An invitation that came back stays until its caller enters the room.
InvitedStays ==
    \A v \in Users : \A f \in frames[v] :
        f.at = "invited" => f \in frames'[v] \/ raum'[v] = f.raum

LEMMA FramesRemain == ASSUME UNCHANGED frames PROVE InvitedStays
BY DEF InvitedStays

LEMMA OneFrameChanges ==
    ASSUME Typed, NEW u \in Users, NEW F, frames' = [frames EXCEPT ![u] = F],
           \A f \in frames[u] : f.at = "invited" => f \in F \/ raum'[u] = f.raum
    PROVE  InvitedStays
BY TypedParts DEF InvitedStays, FramesOK

LEMMA OneFrameEnds ==
    ASSUME Typed, NEW u \in Users, NEW f, f.at # "invited", NEW F, frames[u] \ {f} \subseteq F,
           frames' = [frames EXCEPT ![u] = F]
    PROVE  InvitedStays
BY OneFrameChanges

LEMMA InvitedStay == ASSUME Typed, [Next]_vars PROVE InvitedStays
<1> USE DEF store
<1>0. FramesOK /\ StoreOK
    BY TypedParts
<1>1. ASSUME NEW u \in Users, NEW f \in frames[u], NEW at, f.at # "invited",
             frames' = Stepped(u, f, at)
      PROVE  InvitedStays
    <2> DEFINE F == (frames[u] \ {f}) \cup {[f EXCEPT !.at = at]}
    <2>1. frames' = [frames EXCEPT ![u] = F] /\ frames[u] \ {f} \subseteq F
        BY <1>1 DEF Stepped
    <2> HIDE DEF F
    <2>2. QED
        BY <1>1, <2>1, OneFrameEnds
<1>2. ASSUME NEW u \in Users, NEW f \in frames[u], f.at # "invited",
             frames' = [frames EXCEPT ![u] = @ \ {f}]
      PROVE  InvitedStays
    BY <1>2, OneFrameEnds
<1>3. ASSUME NEW u \in Users, Served(u) PROVE InvitedStays
    <2>1. ASSUME NEW f \in frames[u], InviteServed(u, f) PROVE InvitedStays
        <3>1. f.at = "invite"
            BY <2>1 DEF InviteServed
        <3>2. CASE frames' = [frames EXCEPT ![u] = @ \ {f}]
            BY <1>2, <3>1, <3>2
        <3>3. ASSUME NEW r, frames' = [frames EXCEPT ![u] = (@ \ {f}) \cup
                                          {[f EXCEPT !.at = "invited", !.raum = r]}]
              PROVE  InvitedStays
            BY <3>1, <3>3, OneFrameEnds
        <3>4. QED
            BY <2>1, <3>2, <3>3 DEF InviteServed
    <2>2. ASSUME NEW f \in frames[u], TokenServed(u, f) PROVE InvitedStays
        BY <1>1, <2>2 DEF TokenServed
    <2>3. ASSUME NEW f \in frames[u], LineOpens(u, f) PROVE InvitedStays
        BY <1>1, <2>3 DEF LineOpens
    <2>4. QED
        BY <1>3, <2>1, <2>2, <2>3 DEF Served
<1>4. ASSUME NEW u \in Users, GoesOn(u) PROVE InvitedStays
    <2>1. ASSUME NEW f \in frames[u], Dialled(u, f) PROVE InvitedStays
        <3>1. PICK h : frames' = [frames EXCEPT ![u] = (frames[u] \ {f}) \cup {h}]
            BY <2>1 DEF Dialled, ConnectingTo
        <3>2. raum'[u] = f.raum
            BY <1>0, <2>1 DEF Dialled, StoreOK
        <3> DEFINE F == (frames[u] \ {f}) \cup {h}
        <3>3. /\ frames' = [frames EXCEPT ![u] = F]
              /\ \A g \in frames[u] : g \in F \/ raum'[u] = g.raum
            BY <3>1, <3>2
        <3> HIDE DEF F
        <3>4. QED
            BY <3>3, OneFrameChanges
    <2>2. ASSUME NEW f \in frames[u], \/ ConnectingFailed(u, f) \/ OldLineLeft(u, f)
                                      \/ MediaReady(u, f)
          PROVE  InvitedStays
        BY <1>2, <2>2 DEF ConnectingFailed, OldLineLeft, MediaReady
    <2>3. ASSUME NEW f \in frames[u], TokenGranted(u, f) \/ Connected(u, f) PROVE InvitedStays
        BY <1>1, <1>2, <2>3 DEF TokenGranted, Connected
    <2>4. QED
        BY <1>4, <2>1, <2>2, <2>3 DEF GoesOn
<1>5. ASSUME NEW u \in Users, initiateCall(u) PROVE InvitedStays
    <2>1. PICK h : frames' = [frames EXCEPT ![u] = frames[u] \cup {h}]
        BY <1>5 DEF initiateCall
    <2> DEFINE F == frames[u] \cup {h}
    <2>2. frames' = [frames EXCEPT ![u] = F] /\ frames[u] \subseteq F
        BY <2>1
    <2> HIDE DEF F
    <2>3. QED
        BY <2>2, OneFrameChanges
<1>6. ASSUME NEW u \in Users, acceptCall(u) PROVE InvitedStays
    <2>1. PICK h : frames' = [frames EXCEPT ![u] = frames[u] \cup {h}]
        BY <1>6 DEF acceptCall, ConnectingTo
    <2> DEFINE F == frames[u] \cup {h}
    <2>2. frames' = [frames EXCEPT ![u] = F] /\ frames[u] \subseteq F
        BY <2>1
    <2> HIDE DEF F
    <2>3. QED
        BY <2>2, OneFrameChanges
<1>7. ASSUME NEW u \in Users,
             \/ TimerFires(u) \/ handleCallSyncEvent(u) \/ checkActiveCall(u)
             \/ Decline(u) \/ HangUp(u) \/ InRoom(u) \/ PollServed(u) \/ EventLost(u)
             \/ \E l \in lines[u] : Disconnected(u, l)
      PROVE  InvitedStays
    BY <1>7, FramesRemain
       DEF TimerFires, handleCallSyncEvent, checkActiveCall, Decline, HangUp, InRoom,
           ParticipantConnected, ParticipantDisconnected, PollServed, EventLost, Disconnected
<1>8. CASE \/ \E q \in requests : RequestArrives(q) \/ RequestLost(q)
           \/ \E r \in Rooms : InvitationExpires(r)
    BY <1>8, FramesRemain DEF RequestArrives, RequestLost, InvitationExpires
<1>9. CASE UNCHANGED vars
    BY <1>9, FramesRemain DEF vars
<1>10. QED
    BY <1>3, <1>4, <1>5, <1>6, <1>7, <1>8, <1>9 DEF Next, World, Person, Client

\* A request arrives, and a farewell of the caller ends what rings, or it is lost.
RequestsMove ==
    \/ requests \subseteq requests' /\ faults' \in {faults, faults + 1}
    \/ \E q \in requests :
           /\ requests' = requests \ {q}
           /\ \/ /\ faults' = faults
                 /\ q.op \in {"cancel", "leave"} /\ invitation[q.raum].at = "ringing"
                       /\ Own(q.user, q.raum)
                    => invitation'[q.raum].at # "ringing"
              \/ faults < MaxFaults /\ faults' = faults + 1

LEMMA RequestsStay == ASSUME UNCHANGED <<requests, faults>> PROVE RequestsMove
BY DEF RequestsMove

LEMMA FaultCounts == ASSUME Typed, Fault, requests \subseteq requests' PROVE RequestsMove
<1>1. faults \in Nat
    BY Bounds DEF Typed, TypeOK
<1>2. QED
    BY <1>1 DEF Fault, RequestsMove

LEMMA EndCallAsks ==
    ASSUME NEW u, endCall(u) \/ rejectCall(u), UNCHANGED faults
    PROVE  RequestsMove
BY DEF endCall, rejectCall, EndCallSending, Sent, RequestsMove

LEMMA ReceivedAsks ==
    ASSUME NEW u, NEW r, receiveCall(u, r), UNCHANGED faults
    PROVE  RequestsMove
BY DEF receiveCall, Sent, RequestsMove

LEMMA RequestArrived ==
    ASSUME Typed, NEW q \in requests, RequestArrives(q)
    PROVE  RequestsMove
<1>1. q.raum \in Rooms /\ InvitationsOK
    BY TypedParts DEF Requests
<1>2. requests' = requests \ {q} /\ faults' = faults
    BY DEF RequestArrives
<1>3. ASSUME q.op \in {"cancel", "leave"}, invitation[q.raum].at = "ringing",
             Own(q.user, q.raum)
      PROVE  invitation'[q.raum].at # "ringing"
    <2>1. Cancelled(q.user, q.raum)
        BY <1>3 DEF RequestArrives, Cancel, Leave, Own
    <2>2. QED
        BY <1>1, <2>1 DEF Cancelled, InvitationsOK
<1>4. QED
    BY <1>2, <1>3 DEF RequestsMove

LEMMA RequestsDoMove == ASSUME Typed, [Next]_vars PROVE RequestsMove
<1> USE DEF store
<1>1. ASSUME NEW q \in requests, RequestArrives(q) \/ RequestLost(q) PROVE RequestsMove
    BY <1>1, RequestArrived DEF RequestLost, Fault, RequestsMove
<1>2. ASSUME NEW u \in Users, Served(u) PROVE RequestsMove
    BY <1>2, FaultCounts, RequestsStay DEF Served, InviteServed, TokenServed, LineOpens
<1>3. ASSUME NEW u \in Users, EventLost(u) PROVE RequestsMove
    BY <1>3, FaultCounts DEF EventLost
<1>4. ASSUME NEW u \in Users, NEW l \in lines[u], Disconnected(u, l) PROVE RequestsMove
    <2>1. requests \subseteq requests'
        BY <1>4 DEF Disconnected, endCall, EndCallSending, Sent
    <2>2. QED
        BY <1>4, <2>1, FaultCounts DEF Disconnected
<1>5. ASSUME NEW u \in Users, InRoom(u) PROVE RequestsMove
    BY <1>5, EndCallAsks, RequestsStay
       DEF InRoom, ParticipantConnected, ParticipantDisconnected
<1>6. ASSUME NEW u \in Users, GoesOn(u) PROVE RequestsMove
    BY <1>6, EndCallAsks, RequestsStay
       DEF GoesOn, Dialled, ConnectingFailed, TokenGranted, Connected, OldLineLeft, MediaReady
<1>7. ASSUME NEW u \in Users, \/ TimerFires(u) \/ handleCallSyncEvent(u)
                              \/ checkActiveCall(u) \/ Person(u) \/ PollServed(u)
      PROVE  RequestsMove
    BY <1>7, EndCallAsks, ReceivedAsks, RequestsStay
       DEF TimerFires, handleCallSyncEvent, checkActiveCall, Person, initiateCall, acceptCall,
           Decline, HangUp, PollServed
<1>8. ASSUME NEW r \in Rooms, InvitationExpires(r) PROVE RequestsMove
    BY <1>8, RequestsStay DEF InvitationExpires
<1>9. CASE UNCHANGED vars
    BY <1>9, RequestsStay DEF vars
<1>10. QED
    BY <1>1, <1>2, <1>3, <1>4, <1>5, <1>6, <1>7, <1>8, <1>9 DEF Next, World, Client

\* What the caller has said is still under way, or the invitation has ended.
LEMMA FarewellsStand ==
    ASSUME Typed, faults' <= 1, RequestsMove, NEW r \in Rooms,
           invitation[r].at = "ringing", invitation'[r].at = "ringing",
           invitation'[r].creator = invitation[r].creator,
           \/ Said(r, "cancel") /\ Said(r, "leave")
           \/ faults # 0 /\ (Said(r, "cancel") \/ Said(r, "leave"))
    PROVE  \/ Said(r, "cancel")' /\ Said(r, "leave")'
           \/ faults' # 0 /\ (Said(r, "cancel")' \/ Said(r, "leave")')
<1> DEFINE said(op) == [op |-> op, user |-> invitation[r].creator, raum |-> r]
<1>0. /\ faults \in Nat
      /\ \A op \in {"cancel", "leave"} :
             /\ Said(r, op) <=> said(op) \in requests
             /\ Said(r, op)' <=> said(op) \in requests'
             /\ said(op).op = op /\ said(op).raum = r /\ Own(said(op).user, said(op).raum)
      /\ said("cancel") # said("leave")
    BY Bounds DEF Typed, TypeOK, Said, Own
<1> HIDE DEF said
<1>1. CASE requests \subseteq requests' /\ faults' \in {faults, faults + 1}
    BY <1>0, <1>1
<1>2. ASSUME NEW q \in requests, requests' = requests \ {q}, faults' = faults,
             q.op \in {"cancel", "leave"} /\ invitation[q.raum].at = "ringing"
                 /\ Own(q.user, q.raum) => invitation'[q.raum].at # "ringing"
      PROVE  \A op \in {"cancel", "leave"} : Said(r, op) => Said(r, op)'
    BY <1>0, <1>2
<1>3. ASSUME NEW q \in requests, requests' = requests \ {q},
             faults < MaxFaults, faults' = faults + 1
      PROVE  /\ Said(r, "cancel") /\ Said(r, "leave")
             /\ faults' # 0 /\ (Said(r, "cancel")' \/ Said(r, "leave")')
    BY <1>0, <1>3
<1>4. QED
    BY <1>0, <1>1, <1>2, <1>3 DEF RequestsMove

LEMMA RingingStep ==
    ASSUME Typed, RoomsMade, EventsMade, AttemptStands, OwnCall, RingingHasCaller,
           [Next]_vars
    PROVE  RingingHasCaller'
<1>0. /\ StoreMoves /\ Grows /\ InvitedStays /\ RequestsMove /\ DialledMoves
      /\ InvitationsOK /\ dialled \subseteq Rooms /\ displaced \subseteq displaced'
      /\ faults \in Nat /\ MaxFaults \in Nat
    BY StoresMove, InvitationGrows, InvitedStay, RequestsDoMove, DialledMove, TypedParts,
       DisplacedRemain, Bounds DEF Marked, Typed, TypeOK
<1>1. ASSUME NEW r \in dialled', invitation'[r].at = "ringing", faults' <= 1
      PROVE  \/ invitation'[r].creator \in displaced'
             \/ raum'[invitation'[r].creator] = r
             \/ \E f \in frames'[invitation'[r].creator] : f.at = "invited" /\ f.raum = r
             \/ Said(r, "cancel")' /\ Said(r, "leave")'
             \/ faults' # 0 /\ (Said(r, "cancel")' \/ Said(r, "leave")')
    <2>1. CASE r \notin dialled
        BY <1>0, <2>1 DEF DialledMoves
    <2>2. CASE r \in dialled
        <3> DEFINE c == invitation[r].creator
        <3>1. /\ r \in Rooms /\ Made(r) /\ invitation[r].at = "ringing"
              /\ invitation'[r].creator = c /\ c \in Users
            BY <1>0, <1>1, <2>2 DEF RoomsMade, Grows, InvitationsOK
        <3>0. faults <= 1
            BY <1>0, <1>1 DEF RequestsMove
        <3>2. CASE raum[c] = r /\ c \notin displaced'
            <4>1. /\ phase[c] \notin {"idle", "incoming"} /\ generation[c] # 0
                  /\ ~angenommen[c] /\ raum[c] # NoRoom
                BY <1>0, <3>1, <3>2, CallAssumption DEF OwnCall, Own, Rooms
            <4>2. CASE Stays(c)
                BY <3>1, <3>2, <4>2 DEF Stays
            <4>3. CASE IsOver(c)
                <5>1. Farewells(c) /\ Farewell(c) = {"cancel", "leave"}
                    BY <4>1, <4>3 DEF IsOver, Farewell
                <5>2. \A op \in {"cancel", "leave"} :
                          [op |-> op, user |-> c, raum |-> r] \in requests'
                    BY <3>2, <4>1, <5>1 DEF Farewells
                <5>3. QED
                    BY <3>1, <5>2 DEF Said
            <4>4. CASE IsRung(c)
                BY <4>1, <4>4 DEF IsRung
            <4>5. CASE ComesBack(c)
                BY <3>1, <3>2, <4>1, <4>5, NoneComesBack
            <4>6. QED
                BY <1>0, <3>1, <4>2, <4>3, <4>4, <4>5 DEF StoreMoves
        <3>3. CASE \E f \in frames[c] : f.at = "invited" /\ f.raum = r
            BY <1>0, <3>1, <3>3 DEF InvitedStays
        <3>4. CASE \/ Said(r, "cancel") /\ Said(r, "leave")
                   \/ faults # 0 /\ (Said(r, "cancel") \/ Said(r, "leave"))
            BY <1>0, <1>1, <3>1, <3>4, FarewellsStand
        <3>5. QED
            BY <1>0, <2>2, <3>0, <3>1, <3>2, <3>3, <3>4 DEF RingingHasCaller
    <2>3. QED
        BY <2>1, <2>2
<1>2. QED
    BY <1>1 DEF RingingHasCaller

-----------------------------------------------------------------------------
(* The inductive invariant of invitations.                                 *)

Invitations ==
    /\ Typed /\ LinesSound /\ RoomsMade /\ EventsMade /\ EnteredIsAnswered /\ AttemptStands
    /\ OwnCall /\ RingingHasCaller

LEMMA InitInvitations == ASSUME Init PROVE Invitations
<1>1. Typed /\ LinesSound
    BY InitTyped, InitSound
<1>2. RoomsMade /\ EventsMade /\ EnteredIsAnswered /\ AttemptStands /\ OwnCall
      /\ RingingHasCaller
    BY DEF Init, NoPoll, RoomsMade, EventsMade, EnteredIsAnswered, AttemptStands, Stands,
           OwnCall, RingingHasCaller
<1>3. QED
    BY <1>1, <1>2 DEF Invitations

LEMMA InvitationsStep ==
    ASSUME Invitations, [Next]_vars
    PROVE  Invitations'
BY TypedStep, NextSound, RoomsMadeStep, EventsMadeStep, EnteredStep, AttemptStandsStep,
   OwnCallStep, RingingStep DEF Invitations

LEMMA InvitationsSuffice == ASSUME Invitations PROVE NoRingingForNobody
<1>1. SUFFICES ASSUME NEW r \in dialled, faults <= 1, invitation[r].at = "ringing"
               PROVE  \/ invitation[r].creator \in displaced
                      \/ raum[invitation[r].creator] = r
                      \/ \E f \in frames[invitation[r].creator] :
                             f.at = "invited" /\ f.raum = r
                      \/ \E q \in requests : q.user = invitation[r].creator /\ q.raum = r
    BY DEF NoRingingForNobody
<1>2. ASSUME NEW op, Said(r, op)
      PROVE  \E q \in requests : q.user = invitation[r].creator /\ q.raum = r
    BY <1>2 DEF Said
<1>3. QED
    BY <1>1, <1>2 DEF Invitations, RingingHasCaller

\* However many calls and attempts there are: while one request, answer or event has been
\* lost at most, an invitation whose caller heard of it rings only while the caller is in
\* the room or what it said on leaving is under way, whenever it hung up and whoever else
\* was calling it, unless that caller had dialled over another call of its own.
THEOREM NoRinging == Spec => []NoRingingForNobody
<1>1. Init => Invitations
    BY InitInvitations
<1>2. Invitations /\ [Next]_vars => Invitations'
    BY InvitationsStep
<1>3. Invitations => NoRingingForNobody
    BY InvitationsSuffice
<1>4. QED
    BY <1>1, <1>2, <1>3, PTL DEF Spec

-----------------------------------------------------------------------------
(* Who has met the other notices when it goes.                             *)

\* Of a client's lines L, g and w being its generation and the connection it knows of: a
\* line on which somebody was met has its handlers, so has that of the current call, and
\* on that one the other is gone only until the handler ends the call.
Heeds(g, w, L) ==
    \A l \in L :
        /\ l.met => l.handled
        /\ l.id = g /\ l.id = w => l.handled
        /\ l.id = g /\ l.met => l.sees

Heeded == \A u \in Users : Heeds(generation[u], verbindung[u], lines[u])

LEMMA HeedsStep ==
    ASSUME Typed, Heeded, NEW u \in Users, NEW g, NEW w, NEW L, Heeds(g, w, L),
           generation' = [generation EXCEPT ![u] = g],
           verbindung' = [verbindung EXCEPT ![u] = w],
           lines' = [lines EXCEPT ![u] = L]
    PROVE  Heeded'
<1>1. ASSUME NEW v \in Users PROVE Heeds(generation'[v], verbindung'[v], lines'[v])
    <2>1. CASE v = u
        BY <2>1 DEF Typed, TypeOK
    <2>2. CASE v # u
        <3>1. /\ generation'[v] = generation[v] /\ verbindung'[v] = verbindung[v]
              /\ lines'[v] = lines[v]
            BY <2>2 DEF Typed, TypeOK
        <3>2. QED
            BY <3>1 DEF Heeded
    <2>3. QED
        BY <2>1, <2>2
<1>2. QED
    BY <1>1 DEF Heeded

LEMMA QuietHeeds ==
    ASSUME Heeded, UNCHANGED <<generation, verbindung, lines>>
    PROVE  Heeded'
BY DEF Heeded

\* Only the lines of one client change.
LEMMA HeedsLines ==
    ASSUME Typed, Heeded, NEW u \in Users, NEW L, Heeds(generation[u], verbindung[u], L),
           lines' = [lines EXCEPT ![u] = L], UNCHANGED <<generation, verbindung>>
    PROVE  Heeded'
BY Same, HeedsStep

LEMMA LeftHeeds == ASSUME Typed, Heeded, NEW u \in Users, raeumeAuf(u) PROVE Heeded'
<1> DEFINE L == {l \in lines[u] : l.id # verbindung[u]}
<1>1. Heeds(0, 0, L)
    BY LineFacts, NumbersArePositive DEF Heeded, Heeds
<1>2. /\ generation' = [generation EXCEPT ![u] = 0]
      /\ verbindung' = [verbindung EXCEPT ![u] = 0]
      /\ lines' = [lines EXCEPT ![u] = L]
    BY DEF raeumeAuf
<1> HIDE DEF L
<1>3. QED
    BY <1>1, <1>2, HeedsStep

LEMMA HangingUpHeeds ==
    ASSUME Typed, Heeded, NEW u \in Users, endCall(u) \/ rejectCall(u)
    PROVE  Heeded'
BY LeftHeeds DEF endCall, rejectCall, EndCallSending

LEMMA ReceivedHeeds ==
    ASSUME Typed, Heeded, NEW u \in Users, NEW r, receiveCall(u, r)
    PROVE  Heeded'
BY LeftHeeds, QuietHeeds DEF receiveCall, store

LEMMA ConnectingHeeds ==
    ASSUME Typed, Heeded, NEW u \in Users, NEW r, NEW others, NEW accepts,
           ConnectingTo(u, r, others, accepts), UNCHANGED <<verbindung, lines>>
    PROVE  Heeded'
<1>1. PICK n \in Unused(u) : generation' = [generation EXCEPT ![u] = n]
    BY DEF ConnectingTo
<1>2. n # verbindung[u] /\ \A l \in lines[u] : l.id # n
    BY <1>1 DEF Unused
<1>3. Heeds(n, verbindung[u], lines[u])
    BY <1>2 DEF Heeded, Heeds
<1>4. /\ verbindung' = [verbindung EXCEPT ![u] = verbindung[u]]
      /\ lines' = [lines EXCEPT ![u] = lines[u]]
    BY Same
<1> DEFINE w == verbindung[u]
           L == lines[u]
<1>5. /\ Heeds(n, w, L) /\ generation' = [generation EXCEPT ![u] = n]
      /\ verbindung' = [verbindung EXCEPT ![u] = w] /\ lines' = [lines EXCEPT ![u] = L]
    BY <1>1, <1>3, <1>4
<1> HIDE DEF w, L
<1>6. QED
    BY <1>5, HeedsStep

LEMMA LineOpensHeeds ==
    ASSUME Typed, LinesSound, Heeded, NEW u \in Users, NEW f \in frames[u], LineOpens(u, f)
    PROVE  Heeded'
<1> DEFINE l == [id |-> f.generation, raum |-> f.raum,
                 sees |-> Other(u) \in Present(f.raum), met |-> FALSE, handled |-> FALSE]
<1>1. f.at = "connect" /\ UNCHANGED <<generation, verbindung>>
      /\ (lines' = lines \/ lines' = [lines EXCEPT ![u] = @ \cup {l}])
    BY DEF LineOpens, store
<1>2. l.id = f.generation /\ l.met = FALSE
    OBVIOUS
<1> HIDE DEF l
<1>3. verbindung[u] # f.generation
    BY <1>1 DEF LinesSound, Sound, Opening
<1>4. Heeds(generation[u], verbindung[u], lines[u] \cup {l})
    BY <1>2, <1>3 DEF Heeded, Heeds
<1>5. QED
    BY <1>1, <1>4, QuietHeeds, HeedsLines

LEMMA ConnectedHeeds ==
    ASSUME Typed, Heeded, NEW u \in Users, NEW f \in frames[u], Connected(u, f)
    PROVE  Heeded'
<1> DEFINE M == {IF l.id = f.generation THEN [l EXCEPT !.handled = TRUE, !.met = l.sees]
                 ELSE l : l \in lines[u]}
<1>1. verbindung' = [verbindung EXCEPT ![u] = f.generation] /\ UNCHANGED generation
    BY DEF Connected
<1>2. CASE f.generation = generation[u] /\ lines' = [lines EXCEPT ![u] = M]
    <2>1. ASSUME NEW m \in M
          PROVE  /\ m.met => m.handled
                 /\ m.id = f.generation => m.handled /\ (m.met => m.sees)
        <3>1. PICK l \in lines[u] :
                  m = IF l.id = f.generation THEN [l EXCEPT !.handled = TRUE, !.met = l.sees]
                      ELSE l
            OBVIOUS
        <3>2. l \in LineType
            BY LineFacts
        <3>3. QED
            BY <3>1, <3>2 DEF LineType, Heeded, Heeds
    <2>2. Heeds(f.generation, f.generation, M)
        BY <2>1 DEF Heeds
    <2> HIDE DEF M
    <2>3. QED
        BY <1>1, <1>2, <2>2, Same, HeedsStep
<1>3. CASE f.generation # generation[u] /\ UNCHANGED lines
    <2>1. Heeds(generation[u], f.generation, lines[u])
        BY <1>3 DEF Heeded, Heeds
    <2>2. /\ generation' = [generation EXCEPT ![u] = generation[u]]
          /\ lines' = [lines EXCEPT ![u] = lines[u]]
        BY <1>1, <1>3, Same
    <2>3. QED
        BY <1>1, <2>1, <2>2, HeedsStep
<1>4. QED
    BY <1>2, <1>3 DEF Connected

LEMMA OldLineHeeds ==
    ASSUME Typed, Heeded, NEW u \in Users, NEW f \in frames[u], OldLineLeft(u, f)
    PROVE  Heeded'
<1> DEFINE L == {l \in lines[u] : l.id # f.generation}
<1>1. Heeds(generation[u], 0, L)
    BY LineFacts, NumbersArePositive DEF Heeded, Heeds
<1>2. /\ verbindung' = [verbindung EXCEPT ![u] = 0] /\ UNCHANGED generation
      /\ lines' = [lines EXCEPT ![u] = L]
    BY DEF OldLineLeft
<1> HIDE DEF L
<1>3. QED
    BY <1>1, <1>2, Same, HeedsStep

LEMMA InRoomHeeds ==
    ASSUME Typed, Heeded, NEW u \in Users, NEW l \in lines[u],
           \/ ParticipantConnected(u, l) \/ ParticipantDisconnected(u, l) \/ Disconnected(u, l)
    PROVE  Heeded'
<1>0. l \in LineType
    BY LineFacts
<1> DEFINE seen(here) == [l EXCEPT !.sees = here, !.met = @ \/ (here /\ l.handled)]
<1>1. CASE ParticipantConnected(u, l)
    <2>1. /\ lines' = [lines EXCEPT ![u] = (@ \ {l}) \cup {seen(TRUE)}]
          /\ UNCHANGED <<generation, verbindung>>
        BY <1>1 DEF ParticipantConnected, Seeing
    <2>2. /\ seen(TRUE).id = l.id /\ seen(TRUE).sees /\ seen(TRUE).handled = l.handled
          /\ seen(TRUE).met => l.met \/ l.handled
        BY <1>0 DEF LineType
    <2> HIDE DEF seen
    <2> DEFINE L == (lines[u] \ {l}) \cup {seen(TRUE)}
    <2>3. Heeds(generation[u], verbindung[u], L)
        BY <2>2 DEF Heeded, Heeds
    <2>4. lines' = [lines EXCEPT ![u] = L]
        BY <2>1
    <2> HIDE DEF L
    <2>5. QED
        BY <2>1, <2>3, <2>4, HeedsLines
<1>2. CASE /\ ~Current(u, l) /\ lines' = Seeing(u, l, FALSE)
           /\ UNCHANGED <<generation, verbindung>>
    <2>1. lines' = [lines EXCEPT ![u] = (@ \ {l}) \cup {seen(FALSE)}]
        BY <1>2 DEF Seeing
    <2>2. /\ seen(FALSE).id = l.id /\ seen(FALSE).handled = l.handled
          /\ seen(FALSE).met = l.met
        BY <1>0 DEF LineType
    <2> HIDE DEF seen
    <2> DEFINE L == (lines[u] \ {l}) \cup {seen(FALSE)}
    <2>3. Heeds(generation[u], verbindung[u], L)
        BY <1>2, <2>2 DEF Heeded, Heeds, Current
    <2>4. lines' = [lines EXCEPT ![u] = L]
        BY <2>1
    <2> HIDE DEF L
    <2>5. QED
        BY <1>2, <2>3, <2>4, HeedsLines
<1>3. CASE lines' = [lines EXCEPT ![u] = @ \ {l}] /\ UNCHANGED <<generation, verbindung>>
    <2>1. Heeds(generation[u], verbindung[u], lines[u] \ {l})
        BY DEF Heeded, Heeds
    <2>2. QED
        BY <1>3, <2>1, HeedsLines
<1>4. QED
    BY <1>1, <1>2, <1>3, HangingUpHeeds DEF ParticipantDisconnected, Disconnected, store

LEMMA HeededStep == ASSUME Typed, LinesSound, Heeded, [Next]_vars PROVE Heeded'
<1> USE DEF store
<1>1. ASSUME NEW u \in Users, Served(u) PROVE Heeded'
    BY <1>1, LineOpensHeeds, QuietHeeds DEF Served, InviteServed, TokenServed
<1>2. ASSUME NEW u \in Users, GoesOn(u) PROVE Heeded'
    BY <1>2, ConnectingHeeds, HangingUpHeeds, ConnectedHeeds, OldLineHeeds, QuietHeeds
       DEF GoesOn, Dialled, ConnectingFailed, TokenGranted, MediaReady
<1>3. ASSUME NEW u \in Users, Person(u) PROVE Heeded'
    BY <1>3, ConnectingHeeds, HangingUpHeeds, LeftHeeds
       DEF Person, initiateCall, acceptCall, Decline, HangUp
<1>4. ASSUME NEW u \in Users, TimerFires(u) \/ handleCallSyncEvent(u) \/ checkActiveCall(u)
      PROVE  Heeded'
    BY <1>4, HangingUpHeeds, ReceivedHeeds, QuietHeeds
       DEF TimerFires, handleCallSyncEvent, checkActiveCall
<1>5. CASE \E u \in Users : PollServed(u) \/ EventLost(u)
    BY <1>5, QuietHeeds DEF PollServed, EventLost
<1>6. CASE \/ \E q \in requests : RequestArrives(q) \/ RequestLost(q)
           \/ \E r \in Rooms : InvitationExpires(r)
    BY <1>6, QuietHeeds DEF RequestArrives, RequestLost, InvitationExpires
<1>7. CASE UNCHANGED vars
    BY <1>7, QuietHeeds DEF vars
<1>8. QED
    BY <1>1, <1>2, <1>3, <1>4, <1>5, <1>6, <1>7, InRoomHeeds
       DEF Next, World, Client, InRoom

-----------------------------------------------------------------------------
(* Who calls waits with the timer, or hears the other.                     *)

\* Of an attempt g, the timer t and the lines L of a caller.
Heard(g, L) == \E l \in L : l.id = g /\ l.handled /\ l.sees
Patient(g, t, L) == g # 0 => t = "outgoing" \/ Heard(g, L)

CallerWaits ==
    \A u \in Users \ untimed :
        raum[u] # NoRoom /\ Own(u, raum[u]) => Patient(generation[u], timer[u], lines[u])

\* What the steps of a call rest on.
Calls == Invitations /\ Heeded /\ CallerWaits

UntimedRemain == untimed \subseteq untimed'

\* What a step has to leave u with, when it changes nothing of the other client's call.
Only(u) ==
    \A v \in Users \ {u} : /\ raum'[v] = raum[v] /\ generation'[v] = generation[v]
                           /\ timer'[v] = timer[v] /\ lines'[v] = lines[v]

Expected(u) ==
    u \notin untimed' /\ raum'[u] # NoRoom /\ invitation'[raum'[u]].creator = u =>
        Patient(generation'[u], timer'[u], lines'[u])

LEMMA Untimed == ASSUME [Next]_vars PROVE UntimedRemain
<1> USE DEF UntimedRemain
<1>1. CASE UNCHANGED vars
    BY <1>1 DEF vars
<1>2. ASSUME NEW u \in Users, Served(u) \/ InRoom(u) \/ PollServed(u) \/ EventLost(u)
      PROVE  UntimedRemain
    BY <1>2 DEF Served, InviteServed, TokenServed, LineOpens, InRoom, ParticipantConnected,
                ParticipantDisconnected, PollServed, EventLost
<1>3. ASSUME NEW u \in Users, NEW l \in lines[u], Disconnected(u, l) PROVE UntimedRemain
    BY <1>3 DEF Disconnected
<1>4. CASE \/ \E q \in requests : RequestArrives(q) \/ RequestLost(q)
           \/ \E r \in Rooms : InvitationExpires(r)
    BY <1>4 DEF RequestArrives, RequestLost, InvitationExpires
<1>5. ASSUME NEW u \in Users, Person(u) PROVE UntimedRemain
    BY <1>5 DEF Person, initiateCall, acceptCall, Decline, HangUp
<1>6. ASSUME NEW u \in Users, GoesOn(u) PROVE UntimedRemain
    BY <1>6 DEF GoesOn, Dialled, ConnectingFailed, TokenGranted, Connected, OldLineLeft,
                MediaReady
<1>7. ASSUME NEW u \in Users, TimerFires(u) \/ handleCallSyncEvent(u) \/ checkActiveCall(u)
      PROVE  UntimedRemain
    BY <1>7 DEF TimerFires, handleCallSyncEvent, checkActiveCall
<1>8. QED
    BY <1>1, <1>2, <1>3, <1>4, <1>5, <1>6, <1>7 DEF Next, World, Client

\* The room of a call stays that of its caller.
LEMMA CallKept ==
    ASSUME Calls, Grows, NEW v \in Users, raum'[v] = raum[v], raum[v] # NoRoom,
           invitation'[raum[v]].creator = v
    PROVE  Own(v, raum[v])
<1>1. raum[v] \in Rooms /\ Made(raum[v])
    BY TypedParts DEF Calls, Invitations, StoreOK, RoomsMade
<1>2. QED
    BY <1>1 DEF Grows, Own

\* A caller that was patient and whose call stays.
LEMMA WasPatient ==
    ASSUME Calls, Grows, UntimedRemain, NEW v \in Users, raum'[v] = raum[v],
           v \notin untimed', raum'[v] # NoRoom, invitation'[raum'[v]].creator = v
    PROVE  Patient(generation[v], timer[v], lines[v])
<1>1. Own(v, raum[v]) /\ raum[v] # NoRoom /\ v \in Users \ untimed
    BY CallKept DEF UntimedRemain
<1>2. QED
    BY <1>1 DEF Calls, CallerWaits

LEMMA WaitsStep ==
    ASSUME Calls, Grows, UntimedRemain, NEW u \in Users, Only(u), Expected(u)
    PROVE  CallerWaits'
<1>1. ASSUME NEW v \in Users, v \notin untimed', raum'[v] # NoRoom,
             invitation'[raum'[v]].creator = v
      PROVE  Patient(generation'[v], timer'[v], lines'[v])
    <2>1. CASE v = u
        BY <1>1, <2>1 DEF Expected
    <2>2. CASE v # u
        <3>1. /\ raum'[v] = raum[v] /\ generation'[v] = generation[v]
              /\ timer'[v] = timer[v] /\ lines'[v] = lines[v]
            BY <2>2 DEF Only
        <3>2. Patient(generation[v], timer[v], lines[v])
            BY <1>1, <3>1, WasPatient
        <3>3. QED
            BY <3>1, <3>2
    <2>3. QED
        BY <2>1, <2>2
<1>2. QED
    BY <1>1 DEF CallerWaits, Own

\* Its call and its timer stay, and it still hears whom it heard on it.
LEMMA HearingWaits ==
    ASSUME Calls, Grows, UntimedRemain, NEW u \in Users, Only(u),
           raum'[u] = raum[u], generation'[u] = generation[u], timer'[u] = timer[u],
           generation[u] # 0 /\ Heard(generation[u], lines[u])
               => Heard(generation[u], lines'[u])
    PROVE  CallerWaits'
<1>1. Expected(u)
    BY WasPatient DEF Expected, Patient
<1>2. QED
    BY <1>1, WaitsStep

LEMMA QuietWaits ==
    ASSUME Calls, Grows, UntimedRemain, UNCHANGED <<raum, generation, timer, lines>>
    PROVE  CallerWaits'
<1>1. PICK u : u \in Users
    BY TwoPeople
<1>2. Only(u)
    BY DEF Only
<1>3. QED
    BY <1>1, <1>2, HearingWaits

\* Without an attempt there is nothing to wait for.
LEMMA LeftWaits ==
    ASSUME Calls, Grows, UntimedRemain, NEW u \in Users, raeumeAuf(u),
           NEW r, raum' = [raum EXCEPT ![u] = r], NEW t, timer' = [timer EXCEPT ![u] = t]
    PROVE  CallerWaits'
<1>1. Typed
    BY DEF Calls, Invitations
<1>2. Only(u) /\ generation'[u] = 0
    BY <1>1 DEF Only, raeumeAuf, Typed, TypeOK
<1>3. Expected(u)
    BY <1>2 DEF Expected, Patient
<1>4. QED
    BY <1>2, <1>3, WaitsStep

LEMMA HangingUpWaits ==
    ASSUME Calls, Grows, UntimedRemain, NEW u \in Users, endCall(u) \/ rejectCall(u)
    PROVE  CallerWaits'
BY LeftWaits DEF endCall, rejectCall, EndCallSending

LEMMA ReceivedWaits ==
    ASSUME Calls, Grows, UntimedRemain, NEW u \in Users, NEW r, receiveCall(u, r)
    PROVE  CallerWaits'
BY LeftWaits, QuietWaits DEF receiveCall, store

LEMMA DialledWaits ==
    ASSUME Calls, Grows, UntimedRemain, NEW u \in Users, NEW f \in frames[u], Dialled(u, f)
    PROVE  CallerWaits'
<1>1. Typed
    BY DEF Calls, Invitations
<1>2. PICK n : generation' = [generation EXCEPT ![u] = n]
    BY DEF Dialled, ConnectingTo
<1>3. Only(u)
    BY <1>1, <1>2 DEF Only, Dialled, Typed, TypeOK
<1>4. u \notin untimed' => timer'[u] = "outgoing"
    BY DEF Dialled
<1>5. Expected(u)
    BY <1>4 DEF Expected, Patient
<1>6. QED
    BY <1>3, <1>5, WaitsStep

\* Who accepts is not the caller.
LEMMA AcceptWaits ==
    ASSUME Calls, Grows, UntimedRemain, NEW u \in Users, acceptCall(u)
    PROVE  CallerWaits'
<1>1. Typed /\ OwnCall
    BY DEF Calls, Invitations
<1>2. PICK n : generation' = [generation EXCEPT ![u] = n]
    BY DEF acceptCall, ConnectingTo
<1>3. UNCHANGED <<raum, lines>> /\ timer' = [timer EXCEPT ![u] = "none"]
    BY DEF acceptCall
<1>4. Only(u)
    BY <1>1, <1>2, <1>3 DEF Only, Typed, TypeOK
<1>5. raum[u] # NoRoom => ~Own(u, raum[u])
    BY <1>1 DEF OwnCall, acceptCall
<1>6. Expected(u)
    BY <1>3, <1>5, CallKept DEF Expected
<1>7. QED
    BY <1>4, <1>6, WaitsStep

\* The timer that stops has ended the call, or the other is heard on its line.
LEMMA TimerWaits ==
    ASSUME Calls, Grows, UntimedRemain, NEW u \in Users, TimerFires(u)
    PROVE  CallerWaits'
<1>1. Typed /\ Heeded
    BY DEF Calls, Invitations
<1>2. CASE endCall(u) \/ rejectCall(u)
    BY <1>2, HangingUpWaits
<1>3. CASE /\ \/ timer[u] = "incoming" /\ phase[u] # "incoming"
              \/ timer[u] = "outgoing" /\ phase[u] # "outgoing" /\ HearsOther(u)
           /\ timer' = [timer EXCEPT ![u] = "none"]
           /\ UNCHANGED <<raum, generation, lines>>
    <2>1. Only(u)
        BY <1>1, <1>3 DEF Only, Typed, TypeOK
    <2>2. ASSUME HearsOther(u), verbindung[u] = generation[u]
          PROVE  Heard(generation[u], lines[u])
        BY <1>1, <2>2 DEF HearsOther, Heard, Heeded, Heeds
    <2>3. HeardElsewhere(u) => u \in untimed'
        BY DEF TimerFires
    <2>4. Expected(u)
        <3>1. SUFFICES ASSUME u \notin untimed', raum'[u] # NoRoom,
                              invitation'[raum'[u]].creator = u, generation[u] # 0
                       PROVE  Heard(generation[u], lines[u])
            BY <1>3 DEF Expected, Patient
        <3>2. timer[u] = "outgoing" \/ Heard(generation[u], lines[u])
            BY <1>3, <3>1, WasPatient DEF Patient
        <3>3. CASE timer[u] = "outgoing"
            BY <1>3, <2>2, <2>3, <3>1, <3>3 DEF HeardElsewhere
        <3>4. QED
            BY <3>2, <3>3
    <2>5. QED
        BY <2>1, <2>4, WaitsStep
<1>4. QED
    BY <1>2, <1>3 DEF TimerFires

LEMMA ClientWaits ==
    ASSUME Calls, Grows, UntimedRemain, NEW u \in Users,
           handleCallSyncEvent(u) \/ checkActiveCall(u) \/ Person(u)
    PROVE  CallerWaits'
<1> USE DEF store
<1>1. CASE handleCallSyncEvent(u)
    BY <1>1, HangingUpWaits, ReceivedWaits, QuietWaits DEF handleCallSyncEvent
<1>2. CASE checkActiveCall(u)
    <2>1. CASE /\ raum' = [raum EXCEPT ![u] = NoRoom] /\ timer' = [timer EXCEPT ![u] = "none"]
               /\ UNCHANGED <<generation, lines>>
        <3>1. Typed
            BY DEF Calls, Invitations
        <3>2. Only(u) /\ raum'[u] = NoRoom
            BY <2>1, <3>1 DEF Only, Typed, TypeOK
        <3>3. Expected(u)
            BY <3>2 DEF Expected
        <3>4. QED
            BY <3>2, <3>3, WaitsStep
    <2>2. QED
        BY <1>2, <2>1, ReceivedWaits, QuietWaits DEF checkActiveCall
<1>3. CASE initiateCall(u)
    <2>1. raum' = [raum EXCEPT ![u] = raum[u]]
        BY <1>3, Unmoved DEF initiateCall, Calls, Invitations
    <2>2. QED
        BY <1>3, <2>1, LeftWaits DEF initiateCall
<1>4. CASE acceptCall(u)
    BY <1>4, AcceptWaits
<1>5. CASE Decline(u) \/ HangUp(u)
    BY <1>5, HangingUpWaits DEF Decline, HangUp
<1>6. QED
    BY <1>1, <1>2, <1>3, <1>4, <1>5 DEF Person

\* Only the lines of u change.
LEMMA LinesWait ==
    ASSUME Calls, Grows, UntimedRemain, NEW u \in Users,
           NEW L, lines' = [lines EXCEPT ![u] = L], UNCHANGED <<raum, generation, timer>>,
           generation[u] # 0 /\ Heard(generation[u], lines[u]) => Heard(generation[u], L)
    PROVE  CallerWaits'
<1>1. Typed
    BY DEF Calls, Invitations
<1>2. Only(u) /\ lines'[u] = L
    BY <1>1 DEF Only, Typed, TypeOK
<1>3. QED
    BY <1>2, HearingWaits

LEMMA ServedWaits ==
    ASSUME Calls, Grows, UntimedRemain, NEW u \in Users, Served(u)
    PROVE  CallerWaits'
<1> USE DEF store
<1>1. ASSUME NEW f \in frames[u], InviteServed(u, f) \/ TokenServed(u, f) PROVE CallerWaits'
    BY <1>1, QuietWaits DEF InviteServed, TokenServed
<1>2. ASSUME NEW f \in frames[u], LineOpens(u, f) PROVE CallerWaits'
    <2>1. UNCHANGED <<raum, generation, timer>>
        BY <1>2 DEF LineOpens
    <2>2. ASSUME NEW k, lines' = [lines EXCEPT ![u] = @ \cup {k}] PROVE CallerWaits'
        <3>1. Heard(generation[u], lines[u]) => Heard(generation[u], lines[u] \cup {k})
            BY DEF Heard
        <3>2. lines' = [lines EXCEPT ![u] = lines[u] \cup {k}]
            BY <2>2
        <3>3. QED
            BY <2>1, <3>1, <3>2, LinesWait
    <2>3. QED
        BY <1>2, <2>1, <2>2, QuietWaits DEF LineOpens
<1>3. QED
    BY <1>1, <1>2 DEF Served

LEMMA GoesOnWaits ==
    ASSUME Calls, Grows, UntimedRemain, NEW u \in Users, GoesOn(u)
    PROVE  CallerWaits'
<1> USE DEF store
<1>1. ASSUME NEW f \in frames[u], Dialled(u, f) PROVE CallerWaits'
    BY <1>1, DialledWaits
<1>2. ASSUME NEW f \in frames[u],
             ConnectingFailed(u, f) \/ TokenGranted(u, f) \/ MediaReady(u, f)
      PROVE  CallerWaits'
    BY <1>2, HangingUpWaits, QuietWaits DEF ConnectingFailed, TokenGranted, MediaReady
<1>3. ASSUME NEW f \in frames[u], Connected(u, f) PROVE CallerWaits'
    <2> DEFINE mark(l) == IF l.id = f.generation
                          THEN [l EXCEPT !.handled = TRUE, !.met = l.sees] ELSE l
               M == {mark(l) : l \in lines[u]}
    <2>1. UNCHANGED <<raum, generation, timer>> /\ (lines' = [lines EXCEPT ![u] = M]
                                                    \/ UNCHANGED lines)
        BY <1>3 DEF Connected
    <2>2. ASSUME NEW l \in lines[u], l.handled, l.sees
          PROVE  mark(l).id = l.id /\ mark(l).handled /\ mark(l).sees
        <3>1. l \in LineType
            BY LineFacts DEF Calls, Invitations
        <3>2. QED
            BY <2>2, <3>1 DEF LineType
    <2>3. \A l \in lines[u] : mark(l) \in M
        OBVIOUS
    <2> HIDE DEF mark, M
    <2>4. Heard(generation[u], lines[u]) => Heard(generation[u], M)
        BY <2>2, <2>3 DEF Heard
    <2>5. QED
        BY <2>1, <2>4, LinesWait, QuietWaits
<1>4. ASSUME NEW f \in frames[u], OldLineLeft(u, f) PROVE CallerWaits'
    <2> DEFINE L == {l \in lines[u] : l.id # f.generation}
    <2>1. UNCHANGED <<raum, generation, timer>> /\ lines' = [lines EXCEPT ![u] = L]
        BY <1>4 DEF OldLineLeft
    <2>2. generation[u] # f.generation
        BY <1>4 DEF OldLineLeft, Calls, Invitations, LinesSound, Sound
    <2>3. Heard(generation[u], lines[u]) => Heard(generation[u], L)
        BY <2>2 DEF Heard
    <2> HIDE DEF L
    <2>4. QED
        BY <2>1, <2>3, LinesWait
<1>5. QED
    BY <1>1, <1>2, <1>3, <1>4 DEF GoesOn

LEMMA InRoomWaits ==
    ASSUME Calls, Grows, UntimedRemain, NEW u \in Users, NEW l \in lines[u],
           \/ ParticipantConnected(u, l) \/ ParticipantDisconnected(u, l) \/ Disconnected(u, l)
    PROVE  CallerWaits'
<1> USE DEF store
<1> DEFINE seen(here) == [l EXCEPT !.sees = here, !.met = @ \/ (here /\ l.handled)]
           g == generation[u]
<1>0. Typed /\ l \in LineType /\ l.id # 0
    BY LineFacts, NumbersArePositive DEF Calls, Invitations
<1>1. CASE ParticipantConnected(u, l)
    <2> DEFINE L == (lines[u] \ {l}) \cup {seen(TRUE)}
    <2>1. lines' = [lines EXCEPT ![u] = L] /\ UNCHANGED <<raum, generation>>
        BY <1>1 DEF ParticipantConnected, Seeing
    <2>2. seen(TRUE).id = l.id /\ seen(TRUE).sees /\ (l.handled => seen(TRUE).handled)
        BY <1>0 DEF LineType
    <2>3. seen(TRUE) \in L /\ \A m \in lines[u] : m = l \/ m \in L
        OBVIOUS
    <2> HIDE DEF seen, L
    <2>4. Heard(g, lines[u]) => Heard(g, L)
        BY <2>2, <2>3 DEF Heard
    <2>5. CASE ~Current(u, l)
        <3>1. UNCHANGED timer
            BY <1>1, <2>5 DEF ParticipantConnected
        <3>2. QED
            BY <2>1, <2>4, <3>1, LinesWait
    <2>6. CASE Current(u, l)
        <3>1. Heard(g, L)
            BY <2>2, <2>3, <2>6 DEF Heard, Current
        <3>2. timer' = [timer EXCEPT ![u] = "none"]
            BY <1>1, <2>6 DEF ParticipantConnected
        <3>3. Only(u) /\ lines'[u] = L /\ generation'[u] = g
            BY <1>0, <2>1, <3>2 DEF Only, Typed, TypeOK
        <3>4. Expected(u)
            BY <3>1, <3>3 DEF Expected, Patient
        <3>5. QED
            BY <3>3, <3>4, WaitsStep
    <2>7. QED
        BY <2>5, <2>6
<1>2. CASE endCall(u)
    BY <1>2, HangingUpWaits
<1>3. ASSUME NEW L, lines' = [lines EXCEPT ![u] = L], \A m \in lines[u] : m = l \/ m \in L,
             UNCHANGED <<raum, generation, timer>>, ~Current(u, l)
      PROVE  CallerWaits'
    <2>1. Heard(g, lines[u]) => Heard(g, L)
        BY <1>3 DEF Heard, Current
    <2>2. QED
        BY <1>3, <2>1, LinesWait
<1>4. CASE ParticipantDisconnected(u, l) /\ ~Current(u, l)
    <2> DEFINE L == (lines[u] \ {l}) \cup {seen(FALSE)}
    <2>1. lines' = [lines EXCEPT ![u] = L] /\ UNCHANGED <<raum, generation, timer>>
        BY <1>4 DEF ParticipantDisconnected, Seeing
    <2>2. \A m \in lines[u] : m = l \/ m \in L
        OBVIOUS
    <2> HIDE DEF L
    <2>3. QED
        BY <1>3, <1>4, <2>1, <2>2
<1>5. CASE Disconnected(u, l) /\ ~endCall(u)
    <2> DEFINE L == lines[u] \ {l}
    <2>1. lines' = [lines EXCEPT ![u] = L] /\ UNCHANGED <<raum, generation, timer>>
          /\ ~(Current(u, l) /\ phase[u] # "idle")
        BY <1>5 DEF Disconnected
    <2>2. phase[u] = "idle" => g = 0
        BY DEF Calls, Invitations, LinesSound, Sound
    <2>3. ~Current(u, l)
        BY <1>0, <2>1, <2>2 DEF Current
    <2>4. \A m \in lines[u] : m = l \/ m \in L
        OBVIOUS
    <2> HIDE DEF L
    <2>5. QED
        BY <1>3, <2>1, <2>3, <2>4
<1>6. QED
    BY <1>1, <1>2, <1>4, <1>5 DEF ParticipantDisconnected

LEMMA CallerWaitsNext ==
    ASSUME Calls, [Next]_vars
    PROVE  CallerWaits'
<1> USE DEF store
<1>0. Grows /\ UntimedRemain
    BY InvitationGrows, Untimed DEF Calls, Invitations
<1>1. CASE \E u \in Users : PollServed(u) \/ EventLost(u)
    BY <1>0, <1>1, QuietWaits DEF PollServed, EventLost
<1>2. CASE \/ \E q \in requests : RequestArrives(q) \/ RequestLost(q)
           \/ \E r \in Rooms : InvitationExpires(r)
    BY <1>0, <1>2, QuietWaits DEF RequestArrives, RequestLost, InvitationExpires
<1>3. CASE UNCHANGED vars
    BY <1>0, <1>3, QuietWaits DEF vars
<1>4. QED
    BY <1>0, <1>1, <1>2, <1>3, ServedWaits, InRoomWaits, GoesOnWaits, TimerWaits, ClientWaits
       DEF Next, World, Client, InRoom

-----------------------------------------------------------------------------
(* The inductive invariant of calls, and what it says of a client at rest. *)

LEMMA CallsStep == ASSUME Calls, [Next]_vars PROVE Calls'
<1>1. Invitations'
    BY InvitationsStep DEF Calls
<1>2. Heeded'
    BY HeededStep DEF Calls, Invitations
<1>3. QED
    BY <1>1, <1>2, CallerWaitsNext DEF Calls

LEMMA InitHeeded == ASSUME Init PROVE Heeded
BY DEF Init, Heeded, Heeds

LEMMA InitCalls == ASSUME Init PROVE Calls
<1>1. CallerWaits
    BY DEF Init, CallerWaits
<1>2. QED
    BY <1>1, InitInvitations, InitHeeded DEF Calls

\* At rest a client has the line of its current call and no other.
LEMMA RestingLine ==
    ASSUME Typed, LinesSound, NEW u \in Users \ displaced, AtRest(u), NEW l \in lines[u]
    PROVE  l.id = verbindung[u] /\ l.id = generation[u] /\ generation[u] # 0
BY SoundHeld, LineFacts, NumbersArePositive DEF EveryLineIsHeld, Held, AtRest

\* Of what a client's lines promise: at rest, who has met somebody in a room has not been
\* left there.
MetMeansOver == \A u \in Users \ displaced : AtRest(u) => \A l \in lines[u] : l.met => l.sees

LEMMA HeededSuffices == ASSUME Typed, LinesSound, Heeded PROVE MetMeansOver
BY RestingLine DEF MetMeansOver, Heeded, Heeds

LEMMA CallsSuffice == ASSUME Calls PROVE GoneMeansOver
<1>0. Typed /\ LinesSound /\ Heeded /\ CallerWaits
    BY DEF Calls, Invitations
<1>1. SUFFICES ASSUME NEW u \in Users \ displaced, AtRest(u), NEW l \in lines[u],
                      l.met \/ (invitation[l.raum].creator = u /\ u \notin untimed)
               PROVE  l.sees
    BY DEF GoneMeansOver
<1>2. l.id = generation[u] /\ generation[u] # 0
    BY <1>0, <1>1, RestingLine
<1>3. CASE l.met
    BY <1>0, <1>1, <1>3, HeededSuffices DEF MetMeansOver
<1>4. CASE invitation[l.raum].creator = u /\ u \notin untimed
    <2>1. l.raum = raum[u]
        BY <1>2 DEF Calls, Invitations, AttemptStands, Stands
    <2>2. l.raum \in Rooms /\ l.raum # NoRoom
        BY <1>0, LineFacts, CallAssumption DEF LineType, Rooms
    <2>3. Patient(generation[u], timer[u], lines[u])
        BY <1>0, <1>4, <2>1, <2>2 DEF CallerWaits, Own
    <2>4. PICK m \in lines[u] : m.id = generation[u] /\ m.sees
        BY <1>1, <1>2, <2>3 DEF Patient, Heard, AtRest
    <2>5. m = l
        BY <1>0, <1>2, <2>4 DEF LinesSound, Sound
    <2>6. QED
        BY <2>4, <2>5
<1>5. QED
    BY <1>1, <1>3, <1>4

\* However many calls and attempts there are, whatever requests, answers and events are
\* lost and whatever lines are dropped: nobody stays in a room alone once the other has
\* gone.  Who met it there is told on its current line, and its lines before that one are
\* not kept; the caller's timer runs until it hears the other.  Only who had a call or a
\* connection displaced by another of its own is left out, and as a caller also who lost
\* its timer that way.
THEOREM GoneIsOver == Spec => []GoneMeansOver
<1>1. Init => Calls
    BY InitCalls
<1>2. Calls /\ [Next]_vars => Calls'
    BY CallsStep
<1>3. Calls => GoneMeansOver
    BY CallsSuffice
<1>4. QED
    BY <1>1, <1>2, <1>3, PTL DEF Spec
=============================================================================
