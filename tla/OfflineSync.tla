----------------------------- MODULE OfflineSync -----------------------------
(***************************************************************************)
(* The offline side of notes, calendar and messages in the web client      *)
(* (frontend/src/lib/offlineSync.ts): the queue of unsent mutations and    *)
(* the cache of entries in the browser's storage, the replay loop that     *)
(* each open tab runs over the queue, the loads and stream events merged   *)
(* into the cache, the direct sending of messages that falls back to the   *)
(* queue (services/nachrichtVersand.ts), and the binding of the storage to *)
(* the signed-in account (lib/offlineAblage.ts).                           *)
(*                                                                         *)
(* A step is what runs between two awaits of one tab: it ends where the    *)
(* code sends a request, and the answer is a step of its own.  The content *)
(* of an entry is left out: an entry is in a cache or it is not.           *)
(***************************************************************************)
EXTENDS Naturals, Sequences, FiniteSets, Filtering

CONSTANTS
    Tabs,           \* browser tabs open on the panel; they share the storage
    Accounts,
    NoOne,
    Mutations,      \* what can be enqueued, each at most once
    Kind,           \* "create", "change" (PUT, pin, archive), "delete" or "relay"
    Entry,          \* the note or event a mutation is about, the device a message is for
    Notes, Events,  \* the entries
    Pages,          \* the lists that tabs show: pairs of a tab and "notes" or "events"
    Setups,         \* the relays that set a session up (dr-init)
    Calls,          \* the messages a person sends: for each call of stelleZu its envelopes
    ChatTab,        \* the tab each of them is sent in
    MaxTries,       \* counted tries before a mutation is given up: 5 in the code
    MaxFaults,      \* bound: lost requests and answers, 429 and 5xx, reloads, other devices
    MaxSwitches     \* bound: sign-outs and expiries

Entries == Notes \cup Events
Relays == {m \in Mutations : Kind[m] = "relay"}

ASSUME OfflineAssumption ==
    /\ NoOne \notin Accounts
    /\ \A m \in Mutations : Kind[m] \in {"create", "change", "delete", "relay"}
    /\ \A m \in Mutations \ Relays : Entry[m] \in Entries
    /\ Setups \subseteq Relays /\ Pages \subseteq Tabs \X {"notes", "events"}
    /\ Calls \in Seq(Seq(Relays) \ {<<>>}) /\ \A c \in DOMAIN Calls : ChatTab[c] \in Tabs
    /\ \A n \in {MaxTries, MaxFaults, MaxSwitches} : n \in Nat

\* A new entry and an envelope get an identifier nothing else has (crypto.randomUUID),
\* and baueVersand lists the envelopes of one call device by device.
ASSUME IdentifiersAssumption ==
    /\ \A m, w \in Mutations :
          Kind[m] = "create" /\ Kind[w] = "create" /\ Entry[m] = Entry[w] => m = w
    /\ \A c, d \in DOMAIN Calls : \A i \in DOMAIN Calls[c], j \in DOMAIN Calls[d] :
          Calls[c][i] = Calls[d][j] => c = d /\ i = j
    /\ \A c \in DOMAIN Calls : \A i, j, k \in DOMAIN Calls[c] :
          i < j /\ j < k /\ Entry[Calls[c][i]] = Entry[Calls[c][k]]
            => Entry[Calls[c][j]] = Entry[Calls[c][i]]

VARIABLES
    konto,      \* the signed-in account (angemeldetesKonto)
    owner,      \* storage: whose it is (msm_offline_konto)
    outbox,     \* storage: the queue
    tries,      \* storage: retryCount of each queued mutation
    cache,      \* storage: the entries of the mirror
    replay,     \* per tab: the replay loop and the request it waits for
    call,       \* per message sent: the loop of stelleZu
    load,       \* per tab: a load of the lists and what the server answered
    stream,     \* sync events under way to this device
    decrypting, \* created events past their check, waiting for the decryption
    redecrypt,  \* per tab: the re-decryption of the cache and the list it has read
    server,     \* the entries of each account on the server
    mailbox,    \* the envelopes of the conversation, in the order of their storing
    stray,      \* requests whose tab is gone and that may still arrive
    author,     \* observer: the account each mutation was enqueued under
    processed,  \* observer: what the server has carried out
    refusals,   \* observer: how often the server refused it; a 404 or 400 is final
    retracted,  \* observer: what the person or a change of account took back
    faults, switches

storage == <<owner, outbox, tries, cache>>
remote == <<server, mailbox, stream, processed>>
observed == <<author, retracted>>
budgets == <<faults, switches>>
decryptions == <<decrypting, redecrypt>>
vars == <<konto, storage, replay, call, load, decryptions, remote, stray,
          observed, refusals, budgets>>

Replays == [at: {"idle", "sent", "ok"}, mutation: Mutations \cup {NoOne},
            konto: Accounts \cup {NoOne}]
CallStates == [at: {"new", "sent", "ok", "done"}, todo: Seq(Relays),
               failed: SUBSET {Entry[m] : m \in Relays}, konto: Accounts \cup {NoOne}]
Lists == [notes |-> Notes, events |-> Events]
Loads == [at: {"idle", "answered"}, list: DOMAIN Lists, found: SUBSET Entries]

Redecryptions == [at: {"idle"} \cup DOMAIN Lists, read: SUBSET Entries]

Idle == [at |-> "idle", mutation |-> NoOne, konto |-> NoOne]
NoLoad == [at |-> "idle", list |-> "notes", found |-> {}]
NoRedecryption == [at |-> "idle", read |-> {}]
Refused(m) == refusals[m] > MaxTries
Settled == processed \cup {m \in Mutations : Refused(m)}

Init ==
    /\ konto \in Accounts /\ owner = konto
    /\ outbox = <<>> /\ tries = [m \in Mutations |-> 0] /\ cache = {}
    /\ replay = [t \in Tabs |-> Idle]
    /\ call = [c \in DOMAIN Calls |->
                 [at |-> "new", todo |-> Calls[c], failed |-> {}, konto |-> NoOne]]
    /\ load = [t \in Tabs |-> NoLoad]
    /\ stream = {} /\ decrypting = {} /\ redecrypt = [t \in Tabs |-> NoRedecryption]
    /\ server = [a \in Accounts |-> {}] /\ mailbox = <<>> /\ stray = {}
    /\ author = [m \in Mutations |-> NoOne]
    /\ processed = {} /\ refusals = [m \in Mutations |-> 0] /\ retracted = {}
    /\ faults = 0 /\ switches = 0

-----------------------------------------------------------------------------
(* The storage.  Without an account nothing is read or written; an account *)
(* that finds the storage of another empties it first.                     *)

getOutbox == IF konto = NoOne THEN <<>> ELSE outbox
Pending(kinds, e) ==
    \E m \in Items(getOutbox) : Kind[m] \in kinds /\ Entry[m] = e
PendingAny == {"create", "change", "delete"}

\* setOfflineNotes, setOfflineCalendarEvents
WriteCache(c) == cache' = IF konto = NoOne THEN cache ELSE c

Enqueued(q, m) == IF m \in Items(q) THEN q ELSE Append(q, m)

enqueueMutation(m) ==
    /\ outbox' = IF konto = NoOne THEN outbox ELSE Enqueued(outbox, m)
    /\ author' = IF konto = NoOne THEN author ELSE [author EXCEPT ![m] = konto]

\* mutant: the loop no longer asks whether its account is still signed in
ContinuedForAnyone(r, q) ==
    IF konto = NoOne \/ q = <<>> THEN Idle
    ELSE [at |-> "sent", mutation |-> Head(q), konto |-> r.konto]

\* replayOutbox from its loop head: next request, or the end of the loop.
Continued(r, q) ==
    IF konto # r.konto \/ konto = NoOne \/ q = <<>> THEN Idle
    ELSE [at |-> "sent", mutation |-> Head(q), konto |-> r.konto]

\* void replayOutbox(): nothing happens while this tab is replaying.
Kicked(t, q) ==
    IF replay[t].at # "idle" THEN replay
    ELSE [replay EXCEPT ![t] = Continued([Idle EXCEPT !.konto = konto], q)]

-----------------------------------------------------------------------------
(* The server and the network.  create_note keeps a note_uid it knows,     *)
(* relay_blind_envelope an envelope whose client_uuid it knows.            *)

CanCarry(m, a) == IF Kind[m] \in {"create", "relay"} THEN TRUE ELSE Entry[m] \in server[a]

\* mutant: the server does not look for the client_uuid
RelayedAgain(m) == Append(mailbox, m)

Relayed(m) == IF m \in Items(mailbox) THEN mailbox ELSE Append(mailbox, m)

\* A sync event goes to the streams of the account a.
Published(a, e, action) ==
    stream' = IF konto = a THEN stream \cup {<<e, action>>} ELSE stream

CreateEntry(a, e) ==
    IF e \in server[a] THEN UNCHANGED <<server, stream>>
    ELSE server' = [server EXCEPT ![a] = @ \cup {e}] /\ Published(a, e, "created")

DeleteEntry(a, e) ==
    IF e \notin server[a] THEN UNCHANGED <<server, stream>>
    ELSE server' = [server EXCEPT ![a] = @ \ {e}] /\ Published(a, e, "deleted")

Carry(m, a) ==
    /\ \/ Kind[m] = "create" /\ CreateEntry(a, Entry[m]) /\ UNCHANGED mailbox
       \/ Kind[m] = "delete" /\ DeleteEntry(a, Entry[m]) /\ UNCHANGED mailbox
       \/ Kind[m] = "relay" /\ mailbox' = Relayed(m) /\ UNCHANGED <<server, stream>>
       \/ Kind[m] = "change" /\ UNCHANGED <<server, stream, mailbox>>
    /\ processed' = IF CanCarry(m, a) THEN processed \cup {m} ELSE processed

\* clearSession: the storage stays, bound to its account; the stream ends.
Expire ==
    /\ konto # NoOne /\ konto' = NoOne
    /\ switches < MaxSwitches /\ switches' = switches + 1
    /\ stream' = {}

\* How a request for m of account a ends, as the waiting code learns it: "ok", or the
\* kind of error it catches.
Ends == {"ok", "later", "gone", "denied", "expired"}

Respond(m, a, end) ==
    \/ /\ end = "ok" /\ UNCHANGED <<konto, budgets>>
       /\ a # NoOne /\ CanCarry(m, a) /\ Carry(m, a)
    \/ /\ end = "later" /\ UNCHANGED <<konto, switches>>
       /\ a # NoOne /\ faults < MaxFaults /\ faults' = faults + 1
       /\ Carry(m, a)                              \* carried out, the answer is lost
    \/ /\ end = "later" /\ UNCHANGED <<konto, remote, switches>>
       /\ faults < MaxFaults /\ faults' = faults + 1        \* no network, 429, 5xx
    \/ /\ end = "gone" /\ UNCHANGED <<konto, remote, budgets>>
       /\ a # NoOne /\ ~CanCarry(m, a)             \* 404, 400
    \/ /\ end = "denied" /\ UNCHANGED <<konto, remote, budgets>>
       /\ a # NoOne                                \* 403, 409
    \/ /\ end = "expired" /\ konto = a /\ Expire    \* 401, and the refresh was refused
       /\ UNCHANGED <<server, mailbox, processed, faults>>
    \/ /\ end = "expired" /\ UNCHANGED <<konto, remote, budgets>>
       /\ a = NoOne                                \* 401, sent without a session

\* A request whose tab is gone still arrives, or never does.
StrayArrives(m) ==
    /\ m \in stray /\ stray' = stray \ {m}
    /\ Carry(m, author[m])
    /\ UNCHANGED <<konto, storage, replay, call, load, decryptions, observed, refusals, budgets>>

StrayLost(m) ==
    /\ m \in stray /\ stray' = stray \ {m}
    /\ UNCHANGED <<konto, storage, replay, call, load, decryptions, remote,
                   observed, refusals, budgets>>

\* Another device of the account writes.
OtherDevice(a, e) ==
    /\ faults < MaxFaults /\ faults' = faults + 1
    /\ \/ DeleteEntry(a, e) /\ e \in server[a]
       \/ CreateEntry(a, e) /\ \A m \in Mutations : ~(Kind[m] = "create" /\ Entry[m] = e)
    /\ UNCHANGED <<konto, storage, replay, call, load, decryptions, mailbox, processed, stray,
                   observed, refusals, switches>>

-----------------------------------------------------------------------------
(* The replay loop.                                                        *)

\* The 5 s interval of the chat, the fallback poll, "online": void replayOutbox()
Tick(t) ==
    /\ replay[t].at = "idle" /\ getOutbox # <<>>
    /\ replay' = Kicked(t, getOutbox)
    /\ UNCHANGED <<konto, storage, call, load, decryptions, remote, stray,
                   observed, refusals, budgets>>

\* mutant: whatever is at the head leaves, as if nobody else replayed the queue
RemoveHead(t, m) ==
    LET left == SubSeq(getOutbox, 2, Len(getOutbox))
    IN  /\ outbox' = IF konto = NoOne THEN outbox ELSE left
        /\ replay' = [replay EXCEPT ![t] = Continued(@, left)]
        /\ UNCHANGED tries

\* Done with the head, for good: the mutation leaves by its id and the loop goes on.
Remove(t, m) ==
    LET left == Without(getOutbox, {m})
    IN  /\ outbox' = IF konto = NoOne THEN outbox ELSE left
        /\ replay' = [replay EXCEPT ![t] = Continued(@, left)]
        /\ UNCHANGED tries

\* mutant: a refusal is taken for a failure of the network
CountNothing(t, m) ==
    /\ replay' = [replay EXCEPT ![t] = Idle]
    /\ UNCHANGED <<outbox, tries>>

\* mutant: one try too many
CountOneMore(t, m) ==
    /\ replay' = [replay EXCEPT ![t] = Idle]
    /\ IF m \notin Items(getOutbox) THEN UNCHANGED <<outbox, tries>>
       ELSE IF tries[m] > MaxTries
            THEN outbox' = Without(outbox, {m}) /\ UNCHANGED tries
            ELSE tries' = [tries EXCEPT ![m] = @ + 1] /\ UNCHANGED outbox

\* A counted try: past MaxTries the mutation is given up; the loop ends either way.
CountTry(t, m) ==
    /\ replay' = [replay EXCEPT ![t] = Idle]
    /\ IF m \notin Items(getOutbox) THEN UNCHANGED <<outbox, tries>>
       ELSE IF tries[m] + 1 > MaxTries
            THEN outbox' = Without(outbox, {m}) /\ UNCHANGED tries
            ELSE tries' = [tries EXCEPT ![m] = @ + 1] /\ UNCHANGED outbox

\* The network, a rate limit or the server: the mutation stays where it is.
Break(t) ==
    /\ replay' = [replay EXCEPT ![t] = Idle]
    /\ UNCHANGED <<outbox, tries>>

ReplayAnswered(t) ==
    LET m == replay[t].mutation
    IN  /\ replay[t].at = "sent"
        /\ \E end \in Ends :
             /\ Respond(m, replay[t].konto, end)
             /\ \/ /\ end = "ok" /\ replay' = [replay EXCEPT ![t].at = "ok"]
                   /\ UNCHANGED <<outbox, tries, refusals>>
                \/ /\ end = "gone" /\ Remove(t, m)
                   /\ refusals' = [refusals EXCEPT ![m] = MaxTries + 1]
                \/ /\ end = "denied" /\ CountTry(t, m)
                   /\ refusals' = [refusals EXCEPT ![m] = IF @ > MaxTries THEN @ ELSE @ + 1]
                \/ end \in {"later", "expired"} /\ Break(t) /\ UNCHANGED refusals
        /\ UNCHANGED <<owner, cache, call, load, decryptions, stray, observed>>

ReplayGoesOn(t) ==
    /\ replay[t].at = "ok" /\ Remove(t, replay[t].mutation)
    /\ UNCHANGED <<konto, owner, cache, call, load, decryptions, remote, stray,
                   observed, refusals, budgets>>

-----------------------------------------------------------------------------
(* What the person does.                                                   *)

SaveNew(t, m) ==
    /\ Kind[m] = "create" /\ author[m] = NoOne /\ konto # NoOne
    /\ WriteCache(cache \cup {Entry[m]})
    /\ enqueueMutation(m)
    /\ replay' = Kicked(t, outbox')
    /\ UNCHANGED <<konto, owner, tries, call, load, decryptions, remote, stray,
                   retracted, refusals, budgets>>

SaveChange(t, m) ==
    /\ Kind[m] = "change" /\ author[m] = NoOne /\ konto # NoOne
    /\ Entry[m] \in cache
    /\ enqueueMutation(m)
    /\ replay' = Kicked(t, outbox')
    /\ UNCHANGED <<konto, owner, tries, cache, call, load, decryptions, remote, stray,
                   retracted, refusals, budgets>>

\* While its creation is queued an entry just disappears from the queue.
Delete(t, m) ==
    LET e == Entry[m]
        own == {w \in Mutations : author[w] # NoOne /\ Entry[w] = e}
    IN  /\ Kind[m] = "delete" /\ author[m] = NoOne /\ konto # NoOne
        /\ e \in cache
        /\ WriteCache(cache \ {e})
        /\ IF Pending({"create"}, e)
           THEN /\ outbox' = Without(outbox, {w \in Mutations : Entry[w] = e})
                /\ retracted' = retracted \cup own
                /\ UNCHANGED author
           ELSE enqueueMutation(m) /\ UNCHANGED retracted
        /\ replay' = Kicked(t, outbox')
        /\ UNCHANGED <<konto, owner, tries, call, load, decryptions, remote, stray,
                       refusals, budgets>>

\* A queued message discarded in the chat; the set-up of its session stays.
Discard(m) ==
    /\ m \in Items(getOutbox) \cap (Relays \ Setups)
    /\ outbox' = Without(outbox, {m})
    /\ retracted' = retracted \cup {m}
    /\ UNCHANGED <<konto, owner, tries, cache, replay, call, load, decryptions, remote, stray,
                   author, refusals, budgets>>

-----------------------------------------------------------------------------
(* Sending a message: stelleZu relays the envelopes of one call in turn.   *)
(* Once one for a device fails, the rest for that device are queued unsent. *)

SendStarts(c) ==
    /\ call[c].at = "new" /\ konto # NoOne
    /\ \A b \in DOMAIN Calls : b < c => call[b].at # "new"
    /\ call' = [call EXCEPT ![c].at = "sent", ![c].konto = konto]
    /\ UNCHANGED <<konto, storage, replay, load, decryptions, remote, stray,
                   observed, refusals, budgets>>

\* The envelopes at the head of q that the loop skips: their device already failed.
Skipped(q, failed) ==
    LET n == CHOOSE k \in 0..Len(q) :
                 /\ \A i \in 1..k : Entry[q[i]] \in failed
                 /\ k < Len(q) => Entry[q[k + 1]] \notin failed
    IN  SubSeq(q, 1, n)

\* From one request of the loop to the next: queued is what it hands to
\* enqueueMessageMutation on the way.
CallContinues(c, queued, failed, left) ==
    /\ call' = [call EXCEPT ![c] = [at |-> IF left = <<>> THEN "done" ELSE "sent",
                                    todo |-> left, failed |-> failed, konto |-> konto']]
    /\ outbox' = IF konto' = NoOne THEN outbox ELSE outbox \o queued
    /\ author' = [w \in Mutations |-> IF w \in Items(queued) THEN konto' ELSE author[w]]

\* mutant: the device that failed is not remembered
RelayFailedAlone(c) ==
    CallContinues(c, <<Head(call[c].todo)>>, call[c].failed, Tail(call[c].todo))

RelayFailed(c) ==
    LET m == Head(call[c].todo)
        failed == call[c].failed \cup {Entry[m]}
        skipped == Skipped(Tail(call[c].todo), failed)
    IN  CallContinues(c, <<m>> \o skipped, failed,
                      SubSeq(call[c].todo, Len(skipped) + 2, Len(call[c].todo)))

RelayAnswered(c) ==
    /\ call[c].at = "sent"
    /\ \E end \in Ends :
         /\ Respond(Head(call[c].todo), call[c].konto, end)
         /\ \/ /\ end = "ok" /\ call' = [call EXCEPT ![c].at = "ok"]
               /\ UNCHANGED <<outbox, author>>
            \/ end # "ok" /\ RelayFailed(c)
    /\ UNCHANGED <<owner, tries, cache, replay, load, decryptions, stray, retracted, refusals>>

SendGoesOn(c) ==
    LET rest == Tail(call[c].todo)
        skipped == Skipped(rest, call[c].failed)
    IN  /\ call[c].at = "ok"
        /\ UNCHANGED <<konto, owner, tries, cache, replay, load, decryptions, remote, stray,
                       retracted, refusals, budgets>>
        /\ CallContinues(c, skipped, call[c].failed, SubSeq(rest, Len(skipped) + 1, Len(rest)))

-----------------------------------------------------------------------------
(* Loads and stream events merged into the cache.                          *)

\* mutant: only what the server lists survives the merge
mergeNotesByServer(found) == (found \cap Notes) \ {n \in Notes : Pending({"delete"}, n)}

mergeNotesWithServer(found) ==
    {n \in Notes : n \in found \/ (n \in cache /\ Pending(PendingAny, n))}
        \ {n \in Notes : Pending({"delete"}, n)}

mergeCalendarWithServer(found) ==
    ((cache \cup found) \cap Events) \ {e \in Events : Pending({"delete"}, e)}

\* The server answers with the list as it is now; a load that fails merges nothing.
LoadAnswered(t, list) ==
    /\ <<t, list>> \in Pages
    /\ load[t].at = "idle" /\ konto # NoOne
    /\ load' = [load EXCEPT ![t] = [at |-> "answered", list |-> list,
                                    found |-> server[konto] \cap Lists[list]]]
    /\ UNCHANGED <<konto, storage, replay, call, decryptions, remote, stray,
                   observed, refusals, budgets>>

LoadMerged(t) ==
    LET found == load[t].found
    IN  /\ load[t].at = "answered"
        /\ IF load[t].list = "notes"
           THEN WriteCache(mergeNotesWithServer(found) \cup (cache \cap Events))
           ELSE WriteCache(mergeCalendarWithServer(found) \cup (cache \cap Notes))
        /\ load' = [load EXCEPT ![t] = NoLoad]
        /\ replay' = Kicked(t, getOutbox)
        /\ UNCHANGED <<konto, owner, outbox, tries, call, decryptions, remote, stray,
                       observed, refusals, budgets>>

\* handleIncomingSyncEvent: an entry with queued work is left alone.  A personal
\* entry arrives encrypted and is written only after its decryption.
EventArrives(e, action) ==
    /\ <<e, action>> \in stream /\ stream' = stream \ {<<e, action>>}
    /\ \/ /\ Pending(PendingAny, e) /\ UNCHANGED <<cache, decrypting>>
       \/ /\ ~Pending(PendingAny, e) /\ action = "deleted"
          /\ WriteCache(cache \ {e}) /\ UNCHANGED decrypting
       \/ /\ ~Pending(PendingAny, e) /\ action = "created"
          /\ \/ WriteCache(cache \cup {e}) /\ UNCHANGED decrypting
             \/ decrypting' = decrypting \cup {e} /\ UNCHANGED cache
    /\ UNCHANGED <<konto, owner, outbox, tries, replay, call, load, redecrypt, server, mailbox,
                   processed, stray, observed, refusals, budgets>>

EventDecrypted(e) ==
    /\ e \in decrypting /\ decrypting' = decrypting \ {e}
    /\ WriteCache(cache \cup {e})
    /\ UNCHANGED <<konto, owner, outbox, tries, replay, call, load, redecrypt, remote, stray,
                   observed, refusals, budgets>>

\* The stream is down: what is published meanwhile does not arrive.
EventLost(e, action) ==
    /\ <<e, action>> \in stream /\ stream' = stream \ {<<e, action>>}
    /\ UNCHANGED <<konto, storage, replay, call, load, decryptions, server, mailbox, processed,
                   stray, observed, refusals, budgets>>

-----------------------------------------------------------------------------
(* redecryptPendingOfflineNotesAndCalendar, once a key has come: the notes *)
(* of the cache and then its events are decrypted one by one and written   *)
(* back.  What was saved here is in the cache as plain text, so it waits   *)
(* only for entries of the server.                                         *)

Ciphertext(list) == {e \in cache \cap Lists[list] : ~Pending({"create"}, e)}

Reading(list) == [at |-> list, read |-> cache \cap Lists[list]]

Redecrypt(t, list) ==
    /\ redecrypt[t].at = "idle" /\ konto # NoOne
    /\ Ciphertext(list) # {}
    /\ redecrypt' = [redecrypt EXCEPT ![t] = Reading(list)]
    /\ UNCHANGED <<konto, storage, replay, call, load, decrypting, remote, stray,
                   observed, refusals, budgets>>

\* The list as it was read is written, unless nothing could be decrypted; after the
\* notes the events are read, if there is one to decrypt.
Redecrypted(t) ==
    LET list == redecrypt[t].at
    IN  /\ list # "idle"
        /\ \/ WriteCache(redecrypt[t].read \cup (cache \ Lists[list]))
           \/ UNCHANGED cache
        /\ \/ redecrypt' = [redecrypt EXCEPT ![t] = NoRedecryption]
           \/ /\ list = "notes" /\ konto # NoOne /\ Ciphertext("events") # {}
              /\ redecrypt' = [redecrypt EXCEPT ![t] = Reading("events")]
        /\ UNCHANGED <<konto, owner, outbox, tries, replay, call, load, decrypting, remote,
                       stray, observed, refusals, budgets>>

-----------------------------------------------------------------------------
(* Tabs and accounts.                                                      *)

\* A reload forgets everything but the storage; requests on their way stay on their way,
\* those without a session to be refused.
Reload(t) ==
    LET mine == {c \in DOMAIN Calls : ChatTab[c] = t /\ call[c].at \notin {"new", "done"}}
        sent == {Head(call[c].todo) :
                   c \in {d \in mine : call[d].at = "sent" /\ call[d].konto # NoOne}}
    IN  /\ faults < MaxFaults /\ faults' = faults + 1
        /\ stray' = stray \cup sent \cup
                      (IF replay[t].at = "sent" THEN {replay[t].mutation} ELSE {})
        /\ replay' = [replay EXCEPT ![t] = Idle]
        /\ load' = [load EXCEPT ![t] = NoLoad]
        /\ redecrypt' = [redecrypt EXCEPT ![t] = NoRedecryption]
        /\ call' = [c \in DOMAIN Calls |->
                      IF c \in mine THEN [call[c] EXCEPT !.at = "done", !.todo = <<>>] ELSE call[c]]
        /\ UNCHANGED <<konto, storage, decrypting, remote, observed, refusals, switches>>

\* leereOfflineAblage, and whose storage it is from now on
Emptied(a) ==
    /\ owner' = a /\ outbox' = <<>> /\ cache' = {}
    /\ retracted' = retracted \cup Items(outbox)

\* The session runs out without a request of the queue: the storage stays.
SessionEnds ==
    /\ Expire
    /\ UNCHANGED <<storage, replay, call, load, decryptions, server, mailbox, processed, stray,
                   observed, refusals, faults>>

logout ==
    /\ konto # NoOne /\ konto' = NoOne
    /\ switches < MaxSwitches /\ switches' = switches + 1
    /\ stream' = {}
    /\ Emptied(NoOne)
    /\ UNCHANGED <<tries, replay, call, load, decryptions, server, mailbox, processed, stray,
                   author, refusals, faults>>

\* saveCachedUser: the account of the storage comes back to it, any other finds it emptied.
SignIn(a) ==
    /\ konto = NoOne /\ konto' = a
    /\ IF owner = a THEN UNCHANGED <<owner, outbox, cache, retracted>> ELSE Emptied(a)
    /\ UNCHANGED <<tries, replay, call, load, decryptions, remote, stray,
                   author, refusals, budgets>>

-----------------------------------------------------------------------------
Person ==
    \/ \E t \in Tabs, m \in Mutations : SaveNew(t, m) \/ SaveChange(t, m) \/ Delete(t, m)
    \/ \E m \in Mutations : Discard(m)
    \/ \E c \in DOMAIN Calls : SendStarts(c)
    \/ logout \/ SessionEnds \/ \E a \in Accounts : SignIn(a)

Client ==
    \/ \E t \in Tabs : Tick(t) \/ ReplayGoesOn(t) \/ LoadMerged(t) \/ Redecrypted(t) \/ Reload(t)
    \/ \E c \in DOMAIN Calls : SendGoesOn(c)
    \/ \E e \in Entries, action \in {"created", "deleted"} : EventArrives(e, action)
    \/ \E e \in Entries : EventDecrypted(e)
    \/ \E t \in Tabs, list \in DOMAIN Lists : Redecrypt(t, list)

World ==
    \/ \E t \in Tabs : ReplayAnswered(t)
    \/ \E t \in Tabs, list \in DOMAIN Lists : LoadAnswered(t, list)
    \/ \E c \in DOMAIN Calls : RelayAnswered(c)
    \/ \E m \in Mutations : StrayArrives(m) \/ StrayLost(m)
    \/ \E a \in Accounts, e \in Entries : OtherDevice(a, e)
    \/ \E e \in Entries, action \in {"created", "deleted"} : EventLost(e, action)

Next == Person \/ Client \/ World

Spec == Init /\ [][Next]_vars

\* A chat is open in some tab, so its interval keeps running (Messenger.tsx), and
\* every request ends: with an answer or with an error of the network.
Fairness ==
    \A t \in Tabs : WF_vars(Tick(t)) /\ WF_vars(ReplayAnswered(t)) /\ WF_vars(ReplayGoesOn(t))

FairSpec == Spec /\ Fairness

-----------------------------------------------------------------------------
TypeOK ==
    /\ konto \in Accounts \cup {NoOne} /\ owner \in Accounts \cup {NoOne}
    /\ outbox \in Seq(Mutations) /\ tries \in [Mutations -> 0..MaxTries]
    /\ cache \in SUBSET Entries
    /\ replay \in [Tabs -> Replays] /\ call \in [DOMAIN Calls -> CallStates]
    /\ load \in [Tabs -> Loads]
    /\ stream \in SUBSET (Entries \X {"created", "deleted"}) /\ decrypting \in SUBSET Entries
    /\ redecrypt \in [Tabs -> Redecryptions]
    /\ server \in [Accounts -> SUBSET Entries] /\ mailbox \in Seq(Relays)
    /\ stray \in SUBSET Mutations
    /\ author \in [Mutations -> Accounts \cup {NoOne}]
    /\ processed \in SUBSET Mutations /\ refusals \in [Mutations -> 0..MaxTries + 1]
    /\ retracted \in SUBSET Mutations
    /\ faults \in 0..MaxFaults /\ switches \in 0..MaxSwitches

\* The queue keeps its promise to the person: nothing leaves it unsettled,
\* out of order or twice, with tabs that replay at once, lost answers, reloads,
\* refusals and changes of account (replayOutbox, enqueueMutation).
Queue == INSTANCE MutationQueue WITH
    waiting <- outbox,
    accepted <- {m \in Mutations : author[m] # NoOne},
    settled <- Settled

QueuePromise == Queue!Spec

\* A message is stored once, however often it is sent: directly, from the queue of
\* two tabs, again after a lost answer, or by a request a reload left behind.
MessageStoredOnce ==
    \A i, j \in DOMAIN mailbox : mailbox[i] = mailbox[j] => i = j

\* Within one call of stelleZu the set-up of a session reaches the mailbox before
\* the message that needs it, unless the server refused it for good or it was
\* taken back (the pairing rule of the sending loop).
SetupBeforeItsMessage ==
    \A c \in DOMAIN Calls : \A i, j \in DOMAIN Calls[c] :
        LET s == Calls[c][i]
            m == Calls[c][j]
        IN  (i < j /\ s \in Setups /\ Entry[s] = Entry[m] /\ m \in Items(mailbox)) =>
              \/ Refused(s) \/ s \in retracted
              \/ \E p, q \in DOMAIN mailbox : p < q /\ mailbox[p] = s /\ mailbox[q] = m

\* A new note or event is on the device as long as its creation is queued: it is never
\* missing there while it stands in the queue (saveNoteOffline, 1070-1073).
QueuedCreationIsShown ==
    \A m \in Items(outbox) : Kind[m] = "create" => Entry[m] \in cache

\* A re-decryption of a list that was read without the entry e writes it back.
Overwritten(e) ==
    \E t \in Tabs : /\ redecrypt[t].at # "idle" /\ e \notin redecrypt[t].read
                   /\ redecrypt'[t] # redecrypt[t]

\* It gets there with its creation, and whatever lists and events are merged into the
\* cache meanwhile, only a re-decryption that read the cache without it takes it away.
CreationStays ==
    \A m \in Items(outbox') :
        (Kind[m] = "create" /\ (m \in Items(outbox) => Entry[m] \in cache)) =>
            Entry[m] \in cache' \/ Overwritten(Entry[m])

QueuedCreationStays == [][CreationStays]_vars

\* The loop sends only what was queued under the account it began with.
SentUnderItsAccount ==
    \A t \in Tabs : replay[t].at = "sent" => author[replay[t].mutation] = replay[t].konto

\* While its account stays signed in, everything queued leaves the queue: a chat
\* keeps the loop going, and no answer but a counted refusal can hold it up forever.
QueueDrains ==
    \A m \in Mutations :
        (m \in Items(outbox) /\ konto = owner) ~> (m \notin Items(outbox) \/ konto # owner)
=============================================================================
