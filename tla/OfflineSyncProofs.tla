-------------------------- MODULE OfflineSyncProofs --------------------------
(***************************************************************************)
(* Theorems about OfflineSync: for every set of tabs, accounts, mutations, *)
(* entries and calls, and every number of tries, faults and sessions that  *)
(* end, the types hold, a message is stored once and after its set-up, a   *)
(* loop sends only what its account queued, a queued creation leaves the   *)
(* cache only by the write-back of a re-decryption, and the outbox         *)
(* implements MutationQueue.                                               *)
(***************************************************************************)
EXTENDS OfflineSync, FilteringProofs, WellFoundedInduction, TLAPS

-----------------------------------------------------------------------------
(* The inductive invariant.                                                *)

\* A loop at work has a mutation and an account; what is left of a call is its end.
Suffix(todo, all) ==
    /\ Len(todo) <= Len(all)
    /\ \A i \in 1..Len(todo) : todo[i] = all[Len(all) - Len(todo) + i]

WorkFits ==
    /\ \A t \in Tabs : replay[t].at # "idle" =>
          replay[t].mutation \in Mutations /\ replay[t].konto \in Accounts
    /\ \A c \in DOMAIN Calls :
          /\ Suffix(call[c].todo, Calls[c])
          /\ call[c].at = "new" => call[c].todo = Calls[c]
          /\ call[c].at = "done" <=> call[c].todo = <<>>

TypeInv == TypeOK /\ WorkFits

\* The storage belongs to who is signed in, and holds what its owner queued, once each;
\* what a call has yet to send was not queued.
Owned ==
    /\ konto # NoOne => owner = konto
    /\ Unique(outbox)
    /\ \A m \in Items(outbox) : author[m] = owner /\ owner # NoOne
    /\ \A c \in DOMAIN Calls : \A m \in Items(call[c].todo) : author[m] = NoOne

\* What a loop has sent was queued under the account of the loop, and stands at the head
\* as long as it is in the queue; what the server has answered with success it has done.
HeadsSent ==
    \A t \in Tabs : replay[t].at # "idle" =>
        /\ author[replay[t].mutation] = replay[t].konto
        /\ replay[t].mutation \in Items(outbox) => replay[t].mutation = Head(outbox)
        /\ replay[t].at = "ok" => replay[t].mutation \in processed

\* The queue counts no try the server did not refuse.
Counted == \A m \in Mutations : tries[m] <= refusals[m]

QueueInv == TypeInv /\ Owned /\ HeadsSent /\ Counted

\* Nobody has heard of an entry whose creation was not saved.
Unheard(e) ==
    /\ e \notin cache /\ \A a \in Accounts : e \notin server[a]
    /\ <<e, "created">> \notin stream /\ e \notin decrypting
    /\ \A t \in Tabs : e \notin load[t].found /\ e \notin redecrypt[t].read
    /\ \A w \in Mutations : Kind[w] = "delete" /\ Entry[w] = e => author[w] = NoOne

CreationsInv ==
    /\ \A m \in Mutations : Kind[m] = "create" /\ author[m] = NoOne => Unheard(Entry[m])
    /\ \A m \in stray \ Relays : author[m] # NoOne
    /\ \A m, w \in Items(outbox) :
          Kind[m] = "create" /\ Kind[w] = "delete" => Entry[m] # Entry[w]

\* The set-up s does not hold its messages back any more.
Clear(s) == s \in Items(mailbox) \/ Refused(s) \/ s \in retracted
InOrder(q, s, m) == \E i, j \in DOMAIN q : i < j /\ q[i] = s /\ q[j] = m
Position(c) == Len(Calls[c]) - Len(call[c].todo)

Paired(c, i, j) == i < j /\ Calls[c][i] \in Setups /\ Entry[Calls[c][i]] = Entry[Calls[c][j]]

PairInv(c, i, j) ==
    LET s == Calls[c][i]
        m == Calls[c][j]
    IN  /\ m \in Items(mailbox) => Refused(s) \/ s \in retracted \/ InOrder(mailbox, s, m)
        /\ m \in stray => Clear(s)
        /\ \A t \in Tabs : replay[t].at = "sent" /\ replay[t].mutation = m => Clear(s)
        /\ m \in Items(outbox) => Clear(s) \/ InOrder(outbox, s, m)
        /\ i <= Position(c) /\ Position(c) < j => Clear(s)

CarriedIsStored ==
    /\ processed \cap Relays \subseteq Items(mailbox)
    /\ \A c \in DOMAIN Calls : call[c].at = "ok" => Head(call[c].todo) \in processed

PairsInv ==
    /\ CarriedIsStored
    /\ \A c \in DOMAIN Calls : \A i, j \in DOMAIN Calls[c] : Paired(c, i, j) => PairInv(c, i, j)

-----------------------------------------------------------------------------
(* What a call skips.                                                      *)

\* A set of naturals has a smallest element.
LEMMA SmallestPlace ==
    ASSUME NEW S \in SUBSET Nat, S # {}
    PROVE  \E n \in S : \A k \in S : n <= k
<1>1. PICK n \in S : \A k \in S : <<k, n>> \notin OpToRel(<, Nat)
    BY WFMin, NatLessThanWellFounded, Zenon
<1>2. \A k \in S : ~(k < n)
    BY <1>1, Zenon DEF OpToRel
<1>3. \A k \in S : n <= k
    <2> SUFFICES ASSUME NEW k \in S
                 PROVE  n <= k
        OBVIOUS
    <2>1. n \in Nat /\ k \in Nat
        OBVIOUS
    <2>2. QED
        BY <2>1, <1>2
<1>4. QED
    BY <1>3

\* The skipped envelopes are those in front whose device has failed, and all of them.
LEMMA SkippedPrefix ==
    ASSUME NEW q \in Seq(Relays), NEW failed
    PROVE  \E n \in 0..Len(q) :
              /\ Skipped(q, failed) = SubSeq(q, 1, n)
              /\ \A i \in 1..n : Entry[q[i]] \in failed
              /\ n < Len(q) => Entry[q[n + 1]] \notin failed
<1> DEFINE Stops(k) == k < Len(q) => Entry[q[k + 1]] \notin failed
           S == {k \in 0..Len(q) : Stops(k)}
<1>1. Len(q) \in Nat
    OBVIOUS
<1>2. S \in SUBSET Nat /\ Len(q) \in S
    BY <1>1
<1>3. PICK n \in S : \A k \in S : n <= k
    BY <1>2, SmallestPlace
<1>4. ASSUME NEW i \in 1..n
      PROVE  Entry[q[i]] \in failed
    <2>1. n \in 0..Len(q) /\ n \in Int /\ i \in Int
        BY <1>1, <1>3
    <2>2. i - 1 \in 0..Len(q) /\ ~(n <= i - 1) /\ i - 1 + 1 = i
        BY <2>1, <1>1
    <2>3. i - 1 \notin S
        BY <2>2, <1>3
    <2>4. ~Stops(i - 1)
        BY <2>2, <2>3
    <2>5. QED
        BY <2>2, <2>4
<1>5. \E k \in 0..Len(q) : (\A i \in 1..k : Entry[q[i]] \in failed) /\ Stops(k)
    BY <1>3, <1>4
<1> DEFINE m == CHOOSE k \in 0..Len(q) :
                   /\ \A i \in 1..k : Entry[q[i]] \in failed
                   /\ k < Len(q) => Entry[q[k + 1]] \notin failed
<1>6. /\ m \in 0..Len(q) /\ \A i \in 1..m : Entry[q[i]] \in failed
      /\ m < Len(q) => Entry[q[m + 1]] \notin failed
    BY <1>5
<1>7. Skipped(q, failed) = SubSeq(q, 1, m)
    BY DEF Skipped
<1> HIDE DEF m
<1>8. QED
    BY <1>6, <1>7

-----------------------------------------------------------------------------
(* The loop of a call: it passes the envelopes first..k of what it has to  *)
(* send, queueing them, because they failed or their device did.           *)

Passes(c, first, k, failed) ==
    LET todo == call[c].todo
    IN  /\ k \in 1..Len(todo)
        /\ \A i \in first..k : Entry[todo[i]] \in failed
        /\ k < Len(todo) => Entry[todo[k + 1]] \notin failed
        /\ CallContinues(c, SubSeq(todo, first, k), failed, SubSeq(todo, k + 1, Len(todo)))

\* A refused or failed envelope is queued with those behind it for its device.
LEMMA FailedPasses ==
    ASSUME NEW c \in DOMAIN Calls, call[c].todo \in Seq(Relays), call[c].todo # <<>>,
           RelayFailed(c)
    PROVE  \E k \in 1..Len(call[c].todo) :
              Passes(c, 1, k, call[c].failed \cup {Entry[Head(call[c].todo)]})
<1> DEFINE todo == call[c].todo
           m == Head(todo)
           failed == call[c].failed \cup {Entry[m]}
           skipped == Skipped(Tail(todo), failed)
<1>1. /\ todo \in Seq(Relays) /\ Len(todo) \in Nat \ {0} /\ m = todo[1] /\ m \in Relays
      /\ Tail(todo) \in Seq(Relays) /\ Len(Tail(todo)) = Len(todo) - 1
      /\ \A i \in 1..(Len(todo) - 1) : Tail(todo)[i] = todo[i + 1]
    OBVIOUS
<1>2. PICK n \in 0..Len(Tail(todo)) :
              /\ skipped = SubSeq(Tail(todo), 1, n)
              /\ \A i \in 1..n : Entry[Tail(todo)[i]] \in failed
              /\ n < Len(Tail(todo)) => Entry[Tail(todo)[n + 1]] \notin failed
    BY <1>1, SkippedPrefix
<1>3. CallContinues(c, <<m>> \o skipped, failed, SubSeq(todo, Len(skipped) + 2, Len(todo)))
    BY DEF RelayFailed
<1> HIDE DEF todo, m, failed, skipped
<1>4. n \in Nat /\ n <= Len(todo) - 1
    BY <1>1, <1>2
<1>5. Len(skipped) = n /\ <<m>> \o skipped = SubSeq(todo, 1, n + 1)
    BY <1>1, <1>2, <1>4
<1>6. ASSUME NEW i \in 1..(n + 1)
      PROVE  Entry[todo[i]] \in failed
    <2>1. CASE i = 1
        BY <2>1, <1>1 DEF failed
    <2>2. CASE i # 1
        <3>1. i - 1 \in 1..n /\ i - 1 \in 1..(Len(todo) - 1) /\ i - 1 + 1 = i
            BY <2>2, <1>4, <1>1
        <3>2. QED
            BY <3>1, <1>1, <1>2
    <2>3. QED
        BY <2>1, <2>2
<1>7. n + 1 < Len(todo) => Entry[todo[n + 1 + 1]] \notin failed
    <2>1. n + 1 < Len(todo) => n < Len(Tail(todo)) /\ n + 1 \in 1..(Len(todo) - 1)
        BY <1>1, <1>4
    <2>2. QED
        BY <2>1, <1>1, <1>2
<1>8. n + 1 \in 1..Len(todo) /\ Len(skipped) + 2 = n + 1 + 1
    BY <1>1, <1>4, <1>5
<1>9. CallContinues(c, SubSeq(todo, 1, n + 1), failed, SubSeq(todo, n + 1 + 1, Len(todo)))
    BY <1>3, <1>5, <1>8
<1>10. Passes(c, 1, n + 1, failed)
    BY <1>6, <1>7, <1>8, <1>9 DEF Passes, todo
<1>11. QED
    BY <1>8, <1>10 DEF todo, failed, m

\* After a success the loop queues what follows for devices that failed before.
LEMMA SuccessPasses ==
    ASSUME NEW c \in DOMAIN Calls, call[c].todo \in Seq(Relays), call[c].todo # <<>>,
           SendGoesOn(c)
    PROVE  \E k \in 1..Len(call[c].todo) : Passes(c, 2, k, call[c].failed)
<1> DEFINE todo == call[c].todo
           rest == Tail(todo)
           failed == call[c].failed
           skipped == Skipped(rest, failed)
<1>1. /\ todo \in Seq(Relays) /\ Len(todo) \in Nat \ {0}
      /\ rest \in Seq(Relays) /\ Len(rest) = Len(todo) - 1
      /\ \A i \in 1..(Len(todo) - 1) : rest[i] = todo[i + 1]
    OBVIOUS
<1>2. PICK n \in 0..Len(rest) :
              /\ skipped = SubSeq(rest, 1, n)
              /\ \A i \in 1..n : Entry[rest[i]] \in failed
              /\ n < Len(rest) => Entry[rest[n + 1]] \notin failed
    BY <1>1, SkippedPrefix
<1>3. CallContinues(c, skipped, failed, SubSeq(rest, Len(skipped) + 1, Len(rest)))
    BY DEF SendGoesOn
<1>4. rest = SubSeq(todo, 2, Len(todo))
    BY <1>1, TailIsSubSeq
<1> HIDE DEF todo, rest, failed, skipped
<1>5. n \in Nat /\ n <= Len(todo) - 1
    BY <1>1, <1>2
<1>6. Len(skipped) = n /\ skipped = SubSeq(todo, 2, n + 1)
    BY <1>1, <1>2, <1>5
<1>7. SubSeq(rest, Len(skipped) + 1, Len(rest)) = SubSeq(todo, n + 1 + 1, Len(todo))
    BY <1>1, <1>5, <1>6
<1>8. ASSUME NEW i \in 2..(n + 1)
      PROVE  Entry[todo[i]] \in failed
    <2>1. i - 1 \in 1..n /\ i - 1 \in 1..(Len(todo) - 1) /\ i - 1 + 1 = i
        BY <1>5, <1>1
    <2>2. QED
        BY <2>1, <1>1, <1>2
<1>9. n + 1 < Len(todo) => Entry[todo[n + 1 + 1]] \notin failed
    <2>1. n + 1 < Len(todo) => n < Len(rest) /\ n + 1 \in 1..(Len(todo) - 1)
        BY <1>1, <1>5
    <2>2. QED
        BY <2>1, <1>1, <1>2
<1>10. n + 1 \in 1..Len(todo)
    BY <1>1, <1>5
<1>11. Passes(c, 2, n + 1, failed)
    BY <1>3, <1>6, <1>7, <1>8, <1>9, <1>10 DEF Passes, todo
<1>12. QED
    BY <1>10, <1>11 DEF todo, failed

-----------------------------------------------------------------------------
(* What the end of a request does to the rest of the world.                *)

\* Types of what the server and the network keep.
RemoteOK ==
    /\ server \in [Accounts -> SUBSET Entries] /\ mailbox \in Seq(Relays)
    /\ stream \in SUBSET (Entries \X {"created", "deleted"})
    /\ processed \in SUBSET Mutations

BudgetsOK == faults \in 0..MaxFaults /\ switches \in 0..MaxSwitches

\* Carried out is at most m, and an envelope that is carried out is stored.
Carried(m) ==
    /\ processed' \in {processed, processed \cup {m}}
    /\ mailbox' = mailbox \/ (m \in Relays /\ mailbox' = Relayed(m))
    /\ m \in Relays /\ processed' # processed => m \in Items(mailbox')

LEMMA RelayedStored ==
    ASSUME NEW m \in Relays, mailbox \in Seq(Relays)
    PROVE  /\ Relayed(m) \in Seq(Relays)
           /\ Items(Relayed(m)) = Items(mailbox) \cup {m}
<1>1. CASE m \in Items(mailbox)
    BY <1>1 DEF Relayed
<1>2. CASE m \notin Items(mailbox)
    <2>1. Relayed(m) = Append(mailbox, m)
        BY <1>2 DEF Relayed
    <2> DEFINE q == Append(mailbox, m)
    <2>2. /\ q \in Seq(Relays) /\ Len(q) = Len(mailbox) + 1 /\ Len(mailbox) \in Nat
          /\ \A i \in 1..Len(mailbox) : q[i] = mailbox[i]
          /\ q[Len(mailbox) + 1] = m
          /\ DOMAIN q = 1..Len(q) /\ DOMAIN mailbox = 1..Len(mailbox)
        BY AppendProperties, LenProperties
    <2> HIDE DEF q
    <2>3. Items(q) = Items(mailbox) \cup {m}
        <3>1. ASSUME NEW i \in DOMAIN q
              PROVE  q[i] \in Items(mailbox) \cup {m}
            <4>1. i = Len(mailbox) + 1 \/ i \in 1..Len(mailbox)
                BY <2>2
            <4>2. QED
                BY <4>1, <2>2 DEF Items
        <3>2. m \in Items(q)
            <4>1. Len(mailbox) + 1 \in DOMAIN q
                BY <2>2
            <4>2. QED
                BY <4>1, <2>2 DEF Items
        <3>3. ASSUME NEW i \in DOMAIN mailbox
              PROVE  mailbox[i] \in Items(q)
            <4>1. i \in DOMAIN q
                BY <2>2
            <4>2. QED
                BY <4>1, <2>2 DEF Items
        <3>4. QED
            BY <3>1, <3>2, <3>3 DEF Items
    <2>4. QED
        BY <2>1, <2>2, <2>3 DEF q
<1>3. QED
    BY <1>1, <1>2

LEMMA CarryEffect ==
    ASSUME NEW m \in Mutations, NEW a \in Accounts \cup {NoOne}, RemoteOK, Carry(m, a)
    PROVE  RemoteOK' /\ Carried(m)
<1>1. Kind[m] \in {"create", "change", "delete", "relay"}
    BY OfflineAssumption
<1>2. m \in Relays <=> Kind[m] = "relay"
    BY DEF Relays
<1>3. processed' \in {processed, processed \cup {m}} /\ processed' \in SUBSET Mutations
    BY DEF Carry, RemoteOK
<1>4. CASE Kind[m] = "relay"
    <2>1. mailbox' = Relayed(m) /\ UNCHANGED <<server, stream>>
        BY <1>4 DEF Carry
    <2>2. mailbox' \in Seq(Relays) /\ m \in Items(mailbox')
        BY <2>1, <1>2, <1>4, RelayedStored DEF RemoteOK
    <2>3. QED
        BY <2>1, <2>2, <1>2, <1>3, <1>4 DEF RemoteOK, Carried
<1>5. CASE Kind[m] # "relay"
    <2>1. mailbox' = mailbox
        BY <1>5 DEF Carry
    <2>2. Entry[m] \in Entries
        BY <1>2, <1>5, OfflineAssumption
    <2>3. server' \in [Accounts -> SUBSET Entries]
          /\ stream' \in SUBSET (Entries \X {"created", "deleted"})
        BY <1>1, <1>5, <2>2 DEF Carry, CreateEntry, DeleteEntry, Published, RemoteOK
    <2>4. QED
        BY <2>1, <2>3, <1>2, <1>3, <1>5 DEF RemoteOK, Carried
<1>6. QED
    BY <1>4, <1>5

\* How a request for m may end, and what that leaves.
LEMMA RespondEffect ==
    ASSUME NEW m \in Mutations, NEW a \in Accounts \cup {NoOne}, NEW end \in Ends,
           konto \in Accounts \cup {NoOne}, RemoteOK, BudgetsOK, Respond(m, a, end)
    PROVE  /\ RemoteOK' /\ BudgetsOK' /\ Carried(m)
           /\ konto' \in {konto, NoOne}
           /\ end = "ok" => konto' = konto /\ m \in processed'
           /\ end = "later" => konto' = konto
           /\ end = "gone" => konto' = konto /\ m \notin Relays
           /\ end = "denied" => konto' = konto
<1> USE DEF BudgetsOK
<1>0. MaxFaults \in Nat /\ MaxSwitches \in Nat
    BY OfflineAssumption
<1>1. CASE /\ end = "ok" /\ UNCHANGED <<konto, budgets>>
           /\ a # NoOne /\ CanCarry(m, a) /\ Carry(m, a)
    <2>1. RemoteOK' /\ Carried(m)
        BY <1>1, CarryEffect
    <2>2. m \in processed'
        BY <1>1 DEF Carry
    <2>3. QED
        BY <1>1, <2>1, <2>2 DEF budgets
<1>2. CASE /\ end = "later" /\ UNCHANGED <<konto, switches>>
           /\ a # NoOne /\ faults < MaxFaults /\ faults' = faults + 1
           /\ Carry(m, a)
    BY <1>0, <1>2, CarryEffect
<1>3. CASE /\ UNCHANGED <<konto, remote, switches>>
           /\ \/ end = "later" /\ faults < MaxFaults /\ faults' = faults + 1
              \/ end = "gone" /\ a # NoOne /\ ~CanCarry(m, a) /\ faults' = faults
              \/ end \in {"denied", "expired"} /\ faults' = faults
    <2>1. RemoteOK' /\ Carried(m)
        BY <1>3 DEF remote, RemoteOK, Carried
    <2>2. BudgetsOK'
        BY <1>0, <1>3
    <2>3. end = "gone" => m \notin Relays
        BY <1>3 DEF CanCarry, Relays
    <2>4. QED
        BY <1>3, <2>1, <2>2, <2>3
<1>4. CASE /\ end = "expired" /\ konto = a /\ Expire
           /\ UNCHANGED <<server, mailbox, processed, faults>>
    BY <1>0, <1>4 DEF Expire, RemoteOK, Carried
<1>5. QED
    BY <1>1, <1>2, <1>3, <1>4 DEF Respond, budgets

-----------------------------------------------------------------------------
(* What a step does to the queue, the loops and the calls.  Every action   *)
(* is shown to be such a step, and such a step to keep the invariant.      *)

RestOK ==
    /\ konto \in Accounts \cup {NoOne} /\ owner \in Accounts \cup {NoOne}
    /\ konto # NoOne => owner = konto
    /\ cache \in SUBSET Entries /\ load \in [Tabs -> Loads] /\ decrypting \in SUBSET Entries
    /\ redecrypt \in [Tabs -> Redecryptions]
    /\ stray \in SUBSET Mutations /\ retracted \in SUBSET Mutations
    /\ RemoteOK /\ BudgetsOK

CountsOK ==
    /\ tries \in [Mutations -> 0..MaxTries] /\ refusals \in [Mutations -> 0..MaxTries + 1]
    /\ Counted

CallsOK ==
    /\ call \in [DOMAIN Calls -> CallStates]
    /\ \A c \in DOMAIN Calls :
          /\ Suffix(call[c].todo, Calls[c])
          /\ call[c].at = "new" => call[c].todo = Calls[c]
          /\ call[c].at = "done" <=> call[c].todo = <<>>

SettlesAtMost(m) == Settled' \in {Settled, Settled \cup {m}}

Stays ==
    /\ UNCHANGED <<owner, outbox, author, retracted>>
    /\ UNCHANGED Settled \/ \E m \in Mutations : SettlesAtMost(m)

Arrives(new) ==
    /\ konto \in Accounts /\ UNCHANGED <<konto, owner, retracted>>
    /\ new \in Seq(Mutations) /\ Unique(new) /\ new # <<>>
    /\ \A m \in Items(new) : author[m] = NoOne
    /\ \A c \in DOMAIN Calls : Items(new) \cap Items(call'[c].todo) = {}
    /\ outbox' = outbox \o new
    /\ author' = [w \in Mutations |-> IF w \in Items(new) THEN konto ELSE author[w]]
    /\ SettlesAtMost(Head(new))

Leaves ==
    /\ outbox # <<>> /\ outbox' = Tail(outbox) /\ Head(outbox) \in Settled'
    /\ UNCHANGED <<konto, owner, author, retracted>>
    /\ SettlesAtMost(Head(outbox))

TakenBack(gone) ==
    /\ outbox' = Without(outbox, gone) /\ retracted' = retracted \cup gone
    /\ UNCHANGED <<author, processed, refusals>>
    /\ owner' = owner \/ outbox' = <<>>

QueueMoves ==
    Stays \/ (\E new : Arrives(new)) \/ Leaves \/ \E gone \in SUBSET Mutations : TakenBack(gone)

ReplayMoves ==
    /\ replay' \in [Tabs -> Replays]
    /\ \A t \in Tabs :
          \/ replay'[t] = replay[t]
          \/ replay'[t] = Idle
          \/ /\ UNCHANGED konto /\ konto \in Accounts /\ outbox' # <<>>
             /\ replay'[t] = [at |-> "sent", mutation |-> Head(outbox'), konto |-> konto]
          \/ /\ replay[t].at = "sent" /\ replay[t].mutation \in processed'
             /\ replay'[t] = [replay[t] EXCEPT !.at = "ok"]

CallMoves ==
    CallsOK' /\ \A c \in DOMAIN Calls : Items(call'[c].todo) \subseteq Items(call[c].todo)

Effect ==
    /\ RestOK' /\ CountsOK' /\ QueueMoves /\ ReplayMoves /\ CallMoves
    /\ processed \subseteq processed'

\* The parts of the invariant.
LEMMA QueueInvParts ==
    QueueInv <=> /\ RestOK /\ CountsOK /\ CallsOK
                 /\ outbox \in Seq(Mutations) /\ author \in [Mutations -> Accounts \cup {NoOne}]
                 /\ replay \in [Tabs -> Replays]
                 /\ \A t \in Tabs : replay[t].at # "idle" =>
                       replay[t].mutation \in Mutations /\ replay[t].konto \in Accounts
                 /\ Owned /\ HeadsSent
BY DEF QueueInv, TypeInv, TypeOK, WorkFits, RestOK, CountsOK, CallsOK, RemoteOK, BudgetsOK, Owned

\* What is not touched stays as it should be.
LEMMA RestStays ==
    ASSUME RestOK, UNCHANGED <<konto, owner, cache, load, decryptions, stray, retracted,
                               remote, budgets>>
    PROVE  RestOK'
BY DEF RestOK, RemoteOK, BudgetsOK, remote, budgets, decryptions

LEMMA CountsStay ==
    ASSUME CountsOK, UNCHANGED <<tries, refusals>>
    PROVE  CountsOK'
BY DEF CountsOK, Counted

LEMMA CallsStay ==
    ASSUME CallsOK, UNCHANGED call
    PROVE  CallMoves
BY DEF CallsOK, CallMoves

LEMMA ReplaysStay ==
    ASSUME QueueInv, UNCHANGED replay
    PROVE  ReplayMoves
BY QueueInvParts DEF ReplayMoves

LEMMA QueueStays ==
    ASSUME UNCHANGED <<owner, outbox, author, retracted, processed, refusals>>
    PROVE  QueueMoves
BY DEF QueueMoves, Stays, SettlesAtMost, Settled, Refused

\* Starting a loop over the queue.
LEMMA KickedMoves ==
    ASSUME QueueInv, NEW t \in Tabs, NEW q, UNCHANGED konto, outbox' \in Seq(Mutations),
           konto # NoOne => q = outbox', replay' = Kicked(t, q)
    PROVE  ReplayMoves
<1>1. replay \in [Tabs -> Replays] /\ konto \in Accounts \cup {NoOne}
    BY QueueInvParts DEF RestOK
<1>2. CASE replay[t].at # "idle"
    BY <1>1, <1>2, ReplaysStay DEF Kicked
<1>3. CASE replay[t].at = "idle"
    <2> DEFINE r == Continued([Idle EXCEPT !.konto = konto], q)
    <2>1. replay' = [replay EXCEPT ![t] = r]
        BY <1>3 DEF Kicked
    <2>2. \/ r = Idle
          \/ /\ konto \in Accounts /\ outbox' # <<>>
             /\ r = [at |-> "sent", mutation |-> Head(outbox'), konto |-> konto]
        BY <1>1 DEF Continued, Idle
    <2> HIDE DEF r
    <2>3. r \in Replays
        BY <2>2 DEF Idle, Replays
    <2>4. QED
        BY <1>1, <2>1, <2>2, <2>3 DEF ReplayMoves
<1>4. QED
    BY <1>2, <1>3

\* Going on with the loop after its head has left.
LEMMA RemoveMoves ==
    ASSUME QueueInv, NEW t \in Tabs, UNCHANGED konto, NEW q, outbox' \in Seq(Mutations),
           konto # NoOne => q = outbox',
           replay' = [replay EXCEPT ![t] = Continued(@, q)]
    PROVE  ReplayMoves
<1>1. replay \in [Tabs -> Replays] /\ konto \in Accounts \cup {NoOne}
    BY QueueInvParts DEF RestOK
<1> DEFINE r == Continued(replay[t], q)
<1>2. replay' = [replay EXCEPT ![t] = r]
    OBVIOUS
<1>3. \/ r = Idle
      \/ /\ konto \in Accounts /\ outbox' # <<>>
         /\ r = [at |-> "sent", mutation |-> Head(outbox'), konto |-> konto]
    BY <1>1 DEF Continued
<1> HIDE DEF r
<1>4. r \in Replays
    BY <1>3 DEF Idle, Replays
<1>5. QED
    BY <1>1, <1>2, <1>3, <1>4 DEF ReplayMoves

\* The loop ends, or has been answered with success.
LEMMA BreakMoves ==
    ASSUME QueueInv, NEW t \in Tabs, replay' = [replay EXCEPT ![t] = Idle]
    PROVE  ReplayMoves
<1>1. replay \in [Tabs -> Replays] /\ Idle \in Replays
    BY QueueInvParts DEF Idle, Replays
<1>2. QED
    BY <1>1 DEF ReplayMoves

LEMMA AnsweredMoves ==
    ASSUME QueueInv, NEW t \in Tabs, replay[t].at = "sent", replay[t].mutation \in processed',
           replay' = [replay EXCEPT ![t].at = "ok"]
    PROVE  ReplayMoves
<1>1. replay \in [Tabs -> Replays]
    BY QueueInvParts
<1> DEFINE r == [replay[t] EXCEPT !.at = "ok"]
<1>2. r \in Replays
    BY <1>1 DEF Replays
<1>3. replay' = [replay EXCEPT ![t] = r]
    OBVIOUS
<1> HIDE DEF r
<1>4. \A u \in Tabs : replay'[u] = IF u = t THEN r ELSE replay[u]
    BY <1>1, <1>3
<1>5. QED
    BY <1>1, <1>2, <1>3, <1>4 DEF ReplayMoves, r

-----------------------------------------------------------------------------
(* The actions that leave the queue alone.                                 *)

LEMMA CarriedSettles ==
    ASSUME NEW m \in Mutations, Carried(m), UNCHANGED refusals
    PROVE  SettlesAtMost(m) /\ processed \subseteq processed'
BY DEF Carried, SettlesAtMost, Settled, Refused

LEMMA TickEffect ==
    ASSUME QueueInv, NEW t \in Tabs, Tick(t)
    PROVE  Effect
<1> USE DEF Tick, storage, remote, observed, budgets
<1>1. ReplayMoves
    <2>1. konto # NoOne => getOutbox = outbox'
        BY DEF getOutbox
    <2>2. outbox' \in Seq(Mutations)
        BY QueueInvParts
    <2>3. QED
        BY <2>1, <2>2, KickedMoves
<1>2. RestOK' /\ CountsOK' /\ CallMoves /\ QueueMoves
    BY QueueInvParts, RestStays, CountsStay, CallsStay, QueueStays
<1>3. QED
    BY <1>1, <1>2 DEF Effect

LEMMA LoadAnsweredEffect ==
    ASSUME QueueInv, NEW t \in Tabs, NEW list \in DOMAIN Lists, LoadAnswered(t, list)
    PROVE  Effect
<1> USE DEF LoadAnswered, storage, remote, observed, budgets
<1>1. RestOK'
    <2> DEFINE l == [at |-> "answered", list |-> list, found |-> server[konto] \cap Lists[list]]
    <2>1. l \in Loads
        BY DEF Loads, Lists, Entries
    <2>2. load' = [load EXCEPT ![t] = l]
        OBVIOUS
    <2> HIDE DEF l
    <2>3. load' \in [Tabs -> Loads]
        BY <2>1, <2>2, QueueInvParts DEF RestOK
    <2>4. QED
        BY <2>3, QueueInvParts DEF RestOK, RemoteOK, BudgetsOK, decryptions
<1>2. CountsOK' /\ CallMoves /\ QueueMoves /\ ReplayMoves
    BY QueueInvParts, CountsStay, CallsStay, QueueStays, ReplaysStay
<1>3. QED
    BY <1>1, <1>2 DEF Effect

LEMMA LoadMergedEffect ==
    ASSUME QueueInv, NEW t \in Tabs, LoadMerged(t)
    PROVE  Effect
<1> USE DEF LoadMerged, remote, observed, budgets
<1>1. ReplayMoves
    <2>1. konto # NoOne => getOutbox = outbox'
        BY DEF getOutbox
    <2>2. outbox' \in Seq(Mutations)
        BY QueueInvParts
    <2>3. QED
        BY <2>1, <2>2, KickedMoves
<1>2. RestOK'
    <2>1. NoLoad \in Loads
        BY DEF NoLoad, Loads, Lists
    <2>2. load' \in [Tabs -> Loads]
        BY <2>1, QueueInvParts DEF RestOK
    <2>3. load[t].found \subseteq Entries /\ cache \subseteq Entries
        BY QueueInvParts DEF RestOK, Loads
    <2>4. cache' \subseteq Entries
        BY <2>3 DEF WriteCache, mergeNotesWithServer, mergeCalendarWithServer, Entries
    <2>5. QED
        BY <2>2, <2>4, QueueInvParts DEF RestOK, RemoteOK, BudgetsOK, decryptions
<1>3. CountsOK' /\ CallMoves /\ QueueMoves
    BY QueueInvParts, CountsStay, CallsStay, QueueStays
<1>4. QED
    BY <1>1, <1>2, <1>3 DEF Effect

LEMMA EventArrivesEffect ==
    ASSUME QueueInv, NEW e \in Entries, NEW action \in {"created", "deleted"},
           EventArrives(e, action)
    PROVE  Effect
<1> USE DEF EventArrives, observed, budgets
<1>1. RestOK'
    <2>1. cache' \subseteq Entries /\ decrypting' \subseteq Entries
        BY QueueInvParts DEF WriteCache, RestOK
    <2>2. QED
        BY <2>1, QueueInvParts DEF RestOK, RemoteOK, BudgetsOK
<1>2. CountsOK' /\ CallMoves /\ QueueMoves /\ ReplayMoves
    BY QueueInvParts, CountsStay, CallsStay, QueueStays, ReplaysStay
<1>3. QED
    BY <1>1, <1>2 DEF Effect

LEMMA EventDecryptedEffect ==
    ASSUME QueueInv, NEW e \in Entries, EventDecrypted(e)
    PROVE  Effect
<1> USE DEF EventDecrypted, remote, observed, budgets
<1>1. RestOK'
    <2>1. cache' \subseteq Entries /\ decrypting' \subseteq Entries
        BY QueueInvParts DEF WriteCache, RestOK
    <2>2. QED
        BY <2>1, QueueInvParts DEF RestOK, RemoteOK, BudgetsOK
<1>2. CountsOK' /\ CallMoves /\ QueueMoves /\ ReplayMoves
    BY QueueInvParts, CountsStay, CallsStay, QueueStays, ReplaysStay
<1>3. QED
    BY <1>1, <1>2 DEF Effect

\* What a re-decryption reads and writes are entries.
LEMMA ReadingTyped ==
    ASSUME QueueInv, NEW list \in DOMAIN Lists
    PROVE  Reading(list) \in Redecryptions
<1>1. cache \subseteq Entries
    BY QueueInvParts DEF RestOK
<1>2. QED
    BY <1>1 DEF Reading, Redecryptions

LEMMA RedecryptEffect ==
    ASSUME QueueInv, NEW t \in Tabs, NEW list \in DOMAIN Lists, Redecrypt(t, list)
    PROVE  Effect
<1> USE DEF Redecrypt, storage, remote, observed, budgets
<1>1. RestOK'
    <2>1. redecrypt' \in [Tabs -> Redecryptions]
        BY ReadingTyped, QueueInvParts DEF RestOK
    <2>2. QED
        BY <2>1, QueueInvParts DEF RestOK, RemoteOK, BudgetsOK
<1>2. CountsOK' /\ CallMoves /\ QueueMoves /\ ReplayMoves
    BY QueueInvParts, CountsStay, CallsStay, QueueStays, ReplaysStay
<1>3. QED
    BY <1>1, <1>2 DEF Effect

LEMMA RedecryptedEffect ==
    ASSUME QueueInv, NEW t \in Tabs, Redecrypted(t)
    PROVE  Effect
<1> USE DEF Redecrypted, remote, observed, budgets
<1>1. RestOK'
    <2>1. redecrypt \in [Tabs -> Redecryptions] /\ cache \subseteq Entries
        BY QueueInvParts DEF RestOK
    <2>2. NoRedecryption \in Redecryptions /\ Reading("events") \in Redecryptions
        BY ReadingTyped DEF NoRedecryption, Redecryptions, Lists
    <2>3. redecrypt' \in [Tabs -> Redecryptions]
        BY <2>1, <2>2
    <2>4. cache' \subseteq Entries
        BY <2>1 DEF WriteCache, Redecryptions
    <2>5. QED
        BY <2>3, <2>4, QueueInvParts DEF RestOK, RemoteOK, BudgetsOK
<1>2. CountsOK' /\ CallMoves /\ QueueMoves /\ ReplayMoves
    BY QueueInvParts, CountsStay, CallsStay, QueueStays, ReplaysStay
<1>3. QED
    BY <1>1, <1>2 DEF Effect

LEMMA EventLostEffect ==
    ASSUME QueueInv, NEW e \in Entries, NEW action \in {"created", "deleted"},
           EventLost(e, action)
    PROVE  Effect
<1> USE DEF EventLost, storage, observed, budgets
<1>1. RestOK'
    BY QueueInvParts DEF RestOK, RemoteOK, BudgetsOK, decryptions
<1>2. CountsOK' /\ CallMoves /\ QueueMoves /\ ReplayMoves
    BY QueueInvParts, CountsStay, CallsStay, QueueStays, ReplaysStay
<1>3. QED
    BY <1>1, <1>2 DEF Effect

LEMMA StrayArrivesEffect ==
    ASSUME QueueInv, NEW m \in Mutations, StrayArrives(m)
    PROVE  Effect
<1> USE DEF StrayArrives, storage, observed, budgets
<1>1. RemoteOK' /\ Carried(m)
    <2>1. author[m] \in Accounts \cup {NoOne}
        BY QueueInvParts
    <2>2. QED
        BY <2>1, QueueInvParts, CarryEffect DEF RestOK
<1>2. RestOK'
    BY <1>1, QueueInvParts DEF RestOK, BudgetsOK, decryptions
<1>3. QueueMoves /\ processed \subseteq processed'
    BY <1>1, CarriedSettles DEF QueueMoves, Stays
<1>4. CountsOK' /\ CallMoves /\ ReplayMoves
    BY QueueInvParts, CountsStay, CallsStay, ReplaysStay
<1>5. QED
    BY <1>2, <1>3, <1>4 DEF Effect

LEMMA StrayLostEffect ==
    ASSUME QueueInv, NEW m \in Mutations, StrayLost(m)
    PROVE  Effect
<1> USE DEF StrayLost, storage, remote, observed, budgets
<1>1. RestOK'
    BY QueueInvParts DEF RestOK, RemoteOK, BudgetsOK, decryptions
<1>2. CountsOK' /\ CallMoves /\ QueueMoves /\ ReplayMoves
    BY QueueInvParts, CountsStay, CallsStay, QueueStays, ReplaysStay
<1>3. QED
    BY <1>1, <1>2 DEF Effect

LEMMA OtherDeviceEffect ==
    ASSUME QueueInv, NEW a \in Accounts, NEW e \in Entries, OtherDevice(a, e)
    PROVE  Effect
<1> USE DEF OtherDevice, storage, observed
<1>1. RestOK'
    <2>1. server' \in [Accounts -> SUBSET Entries]
          /\ stream' \in SUBSET (Entries \X {"created", "deleted"})
        BY QueueInvParts DEF RestOK, RemoteOK, CreateEntry, DeleteEntry, Published
    <2>2. BudgetsOK'
        BY QueueInvParts, OfflineAssumption DEF RestOK, BudgetsOK
    <2>3. QED
        BY <2>1, <2>2, QueueInvParts DEF RestOK, RemoteOK, decryptions
<1>2. CountsOK' /\ CallMoves /\ QueueMoves /\ ReplayMoves
    BY QueueInvParts, CountsStay, CallsStay, QueueStays, ReplaysStay
<1>3. QED
    BY <1>1, <1>2 DEF Effect

LEMMA SessionEndsEffect ==
    ASSUME QueueInv, SessionEnds
    PROVE  Effect
<1> USE DEF SessionEnds, Expire, storage, observed
<1>1. RestOK'
    BY QueueInvParts, OfflineAssumption DEF RestOK, RemoteOK, BudgetsOK, decryptions
<1>2. CountsOK' /\ CallMoves /\ QueueMoves /\ ReplayMoves
    BY QueueInvParts, CountsStay, CallsStay, QueueStays, ReplaysStay
<1>3. QED
    BY <1>1, <1>2 DEF Effect

-----------------------------------------------------------------------------
(* The actions of the replay loop.                                         *)

LEMMA Queued ==
    ASSUME QueueInv
    PROVE  /\ outbox \in Seq(Mutations) /\ Unique(outbox)
           /\ \A m \in Items(outbox) : author[m] = owner /\ owner # NoOne
           /\ konto # NoOne => owner = konto
BY QueueInvParts DEF Owned

\* Taking m out: it was the head, or was gone already.
LEMMA WithoutReplayed ==
    ASSUME QueueInv, NEW t \in Tabs, replay[t].at # "idle"
    PROVE  LET m == replay[t].mutation
           IN  /\ m \notin Items(outbox) => Without(outbox, {m}) = outbox
               /\ m \in Items(outbox) => /\ outbox # <<>> /\ m = Head(outbox)
                                         /\ Without(outbox, {m}) = Tail(outbox)
<1> DEFINE m == replay[t].mutation
<1>1. outbox \in Seq(Mutations) /\ Unique(outbox)
    BY Queued
<1>2. CASE m \notin Items(outbox)
    <2>1. Items(outbox) \cap {m} = {}
        BY <1>2
    <2>2. Without(outbox, {m}) = outbox
        BY <1>1, <2>1, WithoutNothing
    <2>3. QED
        BY <1>2, <2>2
<1>3. CASE m \in Items(outbox)
    <2>1. m = Head(outbox)
        BY <1>3, QueueInvParts DEF HeadsSent
    <2>2. outbox # <<>>
        BY <1>3 DEF Items
    <2>3. Without(outbox, {Head(outbox)}) = Tail(outbox)
        BY <1>1, <2>2, WithoutTheHead
    <2>4. QED
        BY <1>3, <2>1, <2>2, <2>3
<1>4. QED
    BY <1>2, <1>3

LEMMA RemoveEffect ==
    ASSUME QueueInv, NEW t \in Tabs, replay[t].at # "idle", Remove(t, replay[t].mutation),
           UNCHANGED <<konto, owner, author, retracted>>,
           replay[t].mutation \in Settled', SettlesAtMost(replay[t].mutation)
    PROVE  QueueMoves /\ ReplayMoves
<1> DEFINE m == replay[t].mutation
           left == Without(getOutbox, {m})
<1>1. outbox \in Seq(Mutations) /\ m \in Mutations
    BY QueueInvParts
<1>2. /\ outbox' = IF konto = NoOne THEN outbox ELSE left
      /\ replay' = [replay EXCEPT ![t] = Continued(@, left)]
    BY DEF Remove
<1>3. konto # NoOne => left = Without(outbox, {m})
    BY DEF getOutbox
<1>4. Without(outbox, {m}) \in Seq(Mutations)
    BY <1>1, WithoutItems
<1> HIDE DEF left
<1>5. outbox' \in Seq(Mutations)
    BY <1>1, <1>2, <1>3, <1>4
<1>6. ReplayMoves
    BY <1>2, <1>5, RemoveMoves
<1>7. CASE outbox' = outbox
    BY <1>1, <1>6, <1>7 DEF QueueMoves, Stays
<1>8. CASE outbox' # outbox
    <2>1. outbox # <<>> /\ m = Head(outbox) /\ outbox' = Tail(outbox)
        BY <1>2, <1>3, <1>8, WithoutReplayed
    <2>2. Leaves
        BY <2>1 DEF Leaves
    <2>3. QED
        BY <1>6, <2>2 DEF QueueMoves
<1>9. QED
    BY <1>6, <1>7, <1>8

LEMMA ReplayGoesOnEffect ==
    ASSUME QueueInv, NEW t \in Tabs, ReplayGoesOn(t)
    PROVE  Effect
<1> USE DEF ReplayGoesOn, remote, observed, budgets
<1>1. replay[t].mutation \in processed
    BY QueueInvParts DEF HeadsSent
<1>2. replay[t].mutation \in Settled' /\ SettlesAtMost(replay[t].mutation)
    BY <1>1 DEF Settled, SettlesAtMost, Refused
<1>3. QueueMoves /\ ReplayMoves
    BY <1>2, RemoveEffect
<1>4. RestOK' /\ CountsOK' /\ CallMoves
    <2>1. UNCHANGED tries
        BY DEF Remove
    <2>2. QED
        BY <2>1, QueueInvParts, RestStays, CountsStay, CallsStay
<1>5. QED
    BY <1>3, <1>4 DEF Effect

\* A refusal is counted at the server before the queue counts it.
LEMMA DeniedEffect ==
    ASSUME QueueInv, NEW t \in Tabs, replay[t].at # "idle", CountTry(t, replay[t].mutation),
           refusals' = [refusals EXCEPT ![replay[t].mutation] =
                          IF @ > MaxTries THEN @ ELSE @ + 1],
           UNCHANGED <<konto, owner, author, retracted>>, Carried(replay[t].mutation)
    PROVE  CountsOK' /\ QueueMoves /\ ReplayMoves
<1> DEFINE m == replay[t].mutation
<1>1. /\ m \in Mutations /\ MaxTries \in Nat
      /\ tries \in [Mutations -> 0..MaxTries] /\ refusals \in [Mutations -> 0..MaxTries + 1]
      /\ \A w \in Mutations : tries[w] <= refusals[w]
    BY QueueInvParts, OfflineAssumption DEF CountsOK, Counted
<1> DEFINE r == IF refusals[m] > MaxTries THEN refusals[m] ELSE refusals[m] + 1
<1>2. refusals' = [refusals EXCEPT ![m] = r]
    OBVIOUS
<1>3. /\ r \in 0..MaxTries + 1 /\ r >= refusals[m]
      /\ tries[m] < MaxTries => tries[m] + 1 <= r
      /\ ~(tries[m] + 1 <= MaxTries) => r > MaxTries
    BY <1>1
<1> HIDE DEF r, m
<1>4. \A w \in Mutations : refusals'[w] = IF w = m THEN r ELSE refusals[w]
    BY <1>1, <1>2
<1>5. ReplayMoves
    BY BreakMoves DEF CountTry, m
<1>6. SettlesAtMost(m)
    <2>1. ASSUME NEW w \in Mutations
          PROVE  /\ w # m => (Refused(w)' <=> Refused(w))
                 /\ Refused(w) => Refused(w)'
        <3>1. r \in Nat /\ refusals[w] \in Nat
            BY <1>1, <1>3
        <3>2. QED
            BY <3>1, <1>1, <1>3, <1>4 DEF Refused
    <2>2. QED
        BY <2>1, <1>1 DEF SettlesAtMost, Settled, Carried, m
<1>7. CASE UNCHANGED <<outbox, tries>>
    <2>1. QueueMoves
        BY <1>1, <1>6, <1>7 DEF QueueMoves, Stays
    <2>2. refusals' \in [Mutations -> 0..MaxTries + 1]
        BY <1>1, <1>2, <1>3
    <2>3. ASSUME NEW w \in Mutations
          PROVE  tries[w] <= refusals'[w]
        <3>1. tries[w] \in Nat /\ refusals[w] \in Nat /\ r \in Nat /\ tries[w] <= refusals[w]
            BY <1>1, <1>3
        <3>2. QED
            BY <3>1, <1>3, <1>4
    <2>4. QED
        BY <1>1, <1>5, <1>7, <2>1, <2>2, <2>3 DEF CountsOK, Counted
<1>8. CASE m \in Items(getOutbox) /\ ~(tries[m] + 1 > MaxTries)
    <2>1. tries' = [tries EXCEPT ![m] = tries[m] + 1] /\ UNCHANGED outbox
        BY <1>8 DEF CountTry, m
    <2>2. tries[m] \in Nat /\ tries[m] + 1 \in 0..MaxTries /\ tries[m] + 1 <= r
        BY <1>1, <1>3, <1>8
    <2>3. tries' \in [Mutations -> 0..MaxTries] /\ refusals' \in [Mutations -> 0..MaxTries + 1]
        BY <1>1, <1>2, <1>3, <2>1, <2>2
    <2>4. ASSUME NEW w \in Mutations
          PROVE  tries'[w] <= refusals'[w]
        BY <1>1, <1>4, <2>1, <2>2
    <2>5. QueueMoves
        BY <1>1, <1>6, <2>1 DEF QueueMoves, Stays
    <2>6. QED
        BY <1>5, <2>3, <2>4, <2>5 DEF CountsOK, Counted
<1>9. CASE m \in Items(getOutbox) /\ tries[m] + 1 > MaxTries
    <2>1. outbox' = Without(outbox, {m}) /\ UNCHANGED tries
        BY <1>9 DEF CountTry, m
    <2>2. m \in Items(outbox)
        BY <1>9 DEF getOutbox, Items
    <2>3. outbox # <<>> /\ m = Head(outbox) /\ outbox' = Tail(outbox)
        BY <2>1, <2>2, WithoutReplayed DEF m
    <2>4. tries[m] \in Nat
        BY <1>1
    <2>5. r > MaxTries
        BY <1>1, <1>3, <1>9, <2>4
    <2>6. m \in Settled'
        BY <1>1, <1>4, <2>5 DEF Settled, Refused
    <2>7. QueueMoves
        BY <1>6, <2>3, <2>6 DEF QueueMoves, Leaves
    <2>8. refusals' \in [Mutations -> 0..MaxTries + 1]
        BY <1>1, <1>2, <1>3
    <2>9. ASSUME NEW w \in Mutations
          PROVE  tries[w] <= refusals'[w]
        <3>1. tries[w] \in Nat /\ refusals[w] \in Nat /\ r \in Nat /\ tries[w] <= refusals[w]
            BY <1>1, <1>3
        <3>2. QED
            BY <3>1, <1>3, <1>4
    <2>10. QED
        BY <1>1, <1>5, <2>1, <2>7, <2>8, <2>9 DEF CountsOK, Counted
<1>10. QED
    BY <1>7, <1>8, <1>9 DEF CountTry, m

LEMMA GoneEffect ==
    ASSUME QueueInv, NEW t \in Tabs, replay[t].at # "idle", Remove(t, replay[t].mutation),
           refusals' = [refusals EXCEPT ![replay[t].mutation] = MaxTries + 1],
           UNCHANGED <<konto, owner, author, retracted>>, Carried(replay[t].mutation)
    PROVE  CountsOK' /\ QueueMoves /\ ReplayMoves
<1> DEFINE m == replay[t].mutation
<1>1. /\ m \in Mutations /\ MaxTries \in Nat
      /\ tries \in [Mutations -> 0..MaxTries] /\ refusals \in [Mutations -> 0..MaxTries + 1]
      /\ \A w \in Mutations : tries[w] <= refusals[w]
    BY QueueInvParts, OfflineAssumption DEF CountsOK, Counted
<1>2. \A w \in Mutations : refusals'[w] = IF w = m THEN MaxTries + 1 ELSE refusals[w]
    BY <1>1
<1>3. refusals'[m] > MaxTries /\ MaxTries + 1 \in 0..MaxTries + 1
    BY <1>1, <1>2
<1> HIDE DEF m
<1>4. ASSUME NEW w \in Mutations
      PROVE  /\ w # m => (Refused(w)' <=> Refused(w))
             /\ w = m => Refused(w)'
    BY <1>2, <1>3 DEF Refused
<1>5. m \in Settled' /\ SettlesAtMost(m)
    BY <1>1, <1>4 DEF Settled, SettlesAtMost, Carried, m
<1>6. QueueMoves /\ ReplayMoves
    BY <1>5, RemoveEffect DEF m
<1>7. tries' = tries
    BY DEF Remove
<1>8. ASSUME NEW w \in Mutations
      PROVE  tries[w] <= refusals'[w]
    <2>1. tries[w] \in 0..MaxTries /\ tries[w] <= refusals[w]
        BY <1>1
    <2>2. QED
        BY <2>1, <1>1, <1>2
<1>9. refusals' \in [Mutations -> 0..MaxTries + 1]
    BY <1>1, <1>3
<1>10. QED
    BY <1>1, <1>6, <1>7, <1>8, <1>9 DEF CountsOK, Counted

LEMMA ReplayAnsweredEffect ==
    ASSUME QueueInv, NEW t \in Tabs, ReplayAnswered(t)
    PROVE  Effect
<1> DEFINE m == replay[t].mutation
           a == replay[t].konto
<1>1. /\ replay[t].at = "sent" /\ m \in Mutations /\ a \in Accounts
      /\ RestOK /\ CountsOK /\ CallsOK
    BY QueueInvParts DEF ReplayAnswered
<1>2. PICK end \in Ends :
        /\ Respond(m, a, end)
        /\ \/ /\ end = "ok" /\ replay' = [replay EXCEPT ![t].at = "ok"]
              /\ UNCHANGED <<outbox, tries, refusals>>
           \/ /\ end = "gone" /\ Remove(t, m)
              /\ refusals' = [refusals EXCEPT ![m] = MaxTries + 1]
           \/ /\ end = "denied" /\ CountTry(t, m)
              /\ refusals' = [refusals EXCEPT ![m] = IF @ > MaxTries THEN @ ELSE @ + 1]
           \/ end \in {"later", "expired"} /\ Break(t) /\ UNCHANGED refusals
    BY DEF ReplayAnswered
<1>3. UNCHANGED <<owner, cache, call, load, decryptions, stray, author, retracted>>
    BY DEF ReplayAnswered, observed
<1>4. /\ RemoteOK' /\ BudgetsOK' /\ Carried(m)
      /\ konto' \in {konto, NoOne}
      /\ end \in {"ok", "gone", "denied"} => konto' = konto
      /\ end = "ok" => m \in processed'
    BY <1>1, <1>2, RespondEffect DEF RestOK
<1>5. RestOK'
    BY <1>1, <1>3, <1>4 DEF RestOK, decryptions
<1>6. CallMoves /\ processed \subseteq processed'
    BY <1>1, <1>3, <1>4, CallsStay DEF Carried
<1>7. CASE /\ end = "ok" /\ replay' = [replay EXCEPT ![t].at = "ok"]
           /\ UNCHANGED <<outbox, tries, refusals>>
    <2>1. ReplayMoves
        BY <1>1, <1>4, <1>7, AnsweredMoves
    <2>2. QueueMoves
        BY <1>1, <1>3, <1>4, <1>7, CarriedSettles DEF QueueMoves, Stays
    <2>3. QED
        BY <1>1, <1>5, <1>6, <1>7, <2>1, <2>2, CountsStay DEF Effect
<1>8. CASE /\ end = "gone" /\ Remove(t, m)
           /\ refusals' = [refusals EXCEPT ![m] = MaxTries + 1]
    BY <1>1, <1>3, <1>4, <1>5, <1>6, <1>8, GoneEffect DEF Effect
<1>9. CASE /\ end = "denied" /\ CountTry(t, m)
           /\ refusals' = [refusals EXCEPT ![m] = IF @ > MaxTries THEN @ ELSE @ + 1]
    BY <1>1, <1>3, <1>4, <1>5, <1>6, <1>9, DeniedEffect DEF Effect
<1>10. CASE end \in {"later", "expired"} /\ Break(t) /\ UNCHANGED refusals
    <2>1. ReplayMoves /\ UNCHANGED <<outbox, tries>>
        BY <1>10, BreakMoves DEF Break
    <2>2. QueueMoves
        BY <1>1, <1>3, <1>4, <1>10, <2>1, CarriedSettles DEF QueueMoves, Stays
    <2>3. QED
        BY <1>1, <1>5, <1>6, <1>10, <2>1, <2>2, CountsStay DEF Effect
<1>11. QED
    BY <1>2, <1>7, <1>8, <1>9, <1>10

-----------------------------------------------------------------------------
(* What the person does.                                                   *)

\* Only envelopes are in calls.
LEMMA CallsHoldRelays ==
    ASSUME QueueInv, NEW c \in DOMAIN Calls
    PROVE  /\ call[c].todo \in Seq(Relays) /\ Items(call[c].todo) \subseteq Relays
           /\ \A m \in Items(call[c].todo) : author[m] = NoOne
<1>1. call[c].todo \in Seq(Relays)
    BY QueueInvParts DEF CallsOK, CallStates
<1>2. QED
    BY <1>1, QueueInvParts DEF Owned, Items

\* Enqueueing what was never enqueued puts it at the end.
LEMMA EnqueueEffect ==
    ASSUME QueueInv, NEW m \in Mutations \ Relays, author[m] = NoOne, konto # NoOne,
           enqueueMutation(m), UNCHANGED <<konto, owner, retracted, call, processed, refusals>>
    PROVE  QueueMoves /\ outbox' \in Seq(Mutations)
<1>1. /\ outbox \in Seq(Mutations) /\ konto \in Accounts
      /\ author \in [Mutations -> Accounts \cup {NoOne}]
    BY QueueInvParts DEF RestOK
<1>2. m \notin Items(outbox)
    BY Queued
<1>3. outbox' = Append(outbox, m) /\ author' = [author EXCEPT ![m] = konto]
    BY <1>2 DEF enqueueMutation, Enqueued
<1>4. outbox' = outbox \o <<m>>
    BY <1>1, <1>3, AppendIsConcat
<1>5. /\ <<m>> \in Seq(Mutations) /\ <<m>> # <<>> /\ Head(<<m>>) = m
      /\ Items(<<m>>) = {m} /\ Unique(<<m>>)
    BY DEF Items, Unique
<1>6. author' = [w \in Mutations |-> IF w \in Items(<<m>>) THEN konto ELSE author[w]]
    BY <1>1, <1>3, <1>5
<1>7. \A c \in DOMAIN Calls : Items(<<m>>) \cap Items(call'[c].todo) = {}
    BY <1>5, CallsHoldRelays
<1>8. SettlesAtMost(m)
    BY DEF SettlesAtMost, Settled, Refused
<1>9. Arrives(<<m>>)
    BY <1>1, <1>4, <1>5, <1>6, <1>7, <1>8 DEF Arrives
<1>10. outbox' \in Seq(Mutations)
    BY <1>1, <1>3
<1>11. QED
    BY <1>9, <1>10 DEF QueueMoves

LEMMA SaveNewEffect ==
    ASSUME QueueInv, NEW t \in Tabs, NEW m \in Mutations, SaveNew(t, m)
    PROVE  Effect
<1> USE DEF SaveNew, remote, budgets
<1>1. m \in Mutations \ Relays /\ Entry[m] \in Entries
    BY OfflineAssumption DEF Relays
<1>2. QueueMoves /\ outbox' \in Seq(Mutations)
    BY <1>1, EnqueueEffect
<1>3. ReplayMoves
    BY <1>2, KickedMoves
<1>4. RestOK' /\ CountsOK' /\ CallMoves
    <2>1. cache' \subseteq Entries
        BY <1>1, QueueInvParts DEF WriteCache, RestOK
    <2>2. RestOK'
        BY <2>1, QueueInvParts DEF RestOK, RemoteOK, BudgetsOK, decryptions
    <2>3. QED
        BY <2>2, QueueInvParts, CountsStay, CallsStay
<1>5. QED
    BY <1>2, <1>3, <1>4 DEF Effect

LEMMA SaveChangeEffect ==
    ASSUME QueueInv, NEW t \in Tabs, NEW m \in Mutations, SaveChange(t, m)
    PROVE  Effect
<1> USE DEF SaveChange, remote, budgets
<1>1. m \in Mutations \ Relays
    BY DEF Relays
<1>2. QueueMoves /\ outbox' \in Seq(Mutations)
    BY <1>1, EnqueueEffect
<1>3. ReplayMoves
    BY <1>2, KickedMoves
<1>4. RestOK' /\ CountsOK' /\ CallMoves
    BY QueueInvParts, RestStays, CountsStay, CallsStay
<1>5. QED
    BY <1>2, <1>3, <1>4 DEF Effect

LEMMA DeleteEffect ==
    ASSUME QueueInv, NEW t \in Tabs, NEW m \in Mutations, Delete(t, m)
    PROVE  Effect
<1> DEFINE e == Entry[m]
           own == {w \in Mutations : author[w] # NoOne /\ Entry[w] = e}
           about == {w \in Mutations : Entry[w] = e}
<1>1. /\ Kind[m] = "delete" /\ author[m] = NoOne /\ konto # NoOne
      /\ WriteCache(cache \ {e}) /\ replay' = Kicked(t, outbox')
      /\ UNCHANGED <<konto, owner, tries, call, load, decryptions, remote, stray,
                     refusals, budgets>>
      /\ IF Pending({"create"}, e)
         THEN /\ outbox' = Without(outbox, about)
              /\ retracted' = retracted \cup own
              /\ UNCHANGED author
         ELSE enqueueMutation(m) /\ UNCHANGED retracted
    BY DEF Delete
<1>2. m \in Mutations \ Relays
    BY <1>1 DEF Relays
<1>3. outbox \in Seq(Mutations)
    BY Queued
<1>4. QueueMoves /\ outbox' \in Seq(Mutations) /\ retracted' \subseteq Mutations
    <2>1. CASE Pending({"create"}, e)
        <3>1. Items(outbox) \cap about = Items(outbox) \cap own
            BY Queued
        <3>2. outbox' = Without(outbox, own)
            BY <1>1, <2>1, <3>1, WithoutSame
        <3>3. TakenBack(own)
            BY <1>1, <2>1, <3>2 DEF TakenBack, remote
        <3>4. outbox' \in Seq(Mutations)
            BY <1>3, <3>2, WithoutItems
        <3>5. QED
            BY <1>1, <2>1, <3>3, <3>4, QueueInvParts DEF QueueMoves, RestOK
    <2>2. CASE ~Pending({"create"}, e)
        BY <1>1, <1>2, <2>2, EnqueueEffect, QueueInvParts DEF remote, RestOK
    <2>3. QED
        BY <2>1, <2>2
<1>5. ReplayMoves
    BY <1>1, <1>4, KickedMoves
<1>6. cache' \subseteq Entries
    BY <1>1, QueueInvParts DEF WriteCache, RestOK
<1>7. RestOK'
    BY <1>1, <1>4, <1>6, QueueInvParts DEF RestOK, RemoteOK, BudgetsOK, remote, budgets, decryptions
<1>8. CountsOK' /\ CallMoves
    BY <1>1, QueueInvParts, CountsStay, CallsStay
<1>9. QED
    BY <1>1, <1>4, <1>5, <1>7, <1>8 DEF Effect, remote

LEMMA DiscardEffect ==
    ASSUME QueueInv, NEW m \in Mutations, Discard(m)
    PROVE  Effect
<1> USE DEF Discard, remote, budgets
<1>1. TakenBack({m})
    BY DEF TakenBack
<1>2. RestOK'
    BY QueueInvParts DEF RestOK, RemoteOK, BudgetsOK, decryptions
<1>3. CountsOK' /\ CallMoves /\ ReplayMoves
    BY QueueInvParts, CountsStay, CallsStay, ReplaysStay
<1>4. QED
    BY <1>1, <1>2, <1>3 DEF Effect, QueueMoves

\* Emptying the storage takes back all its owner queued.
LEMMA EmptiedTakesBack ==
    ASSUME QueueInv, NEW a \in Accounts \cup {NoOne}, Emptied(a),
           UNCHANGED <<author, processed, refusals>>
    PROVE  QueueMoves /\ retracted' \subseteq Mutations /\ cache' = {} /\ owner' = a
<1> DEFINE gone == Items(outbox)
<1>1. /\ outbox' = <<>> /\ retracted' = retracted \cup gone /\ cache' = {} /\ owner' = a
    BY DEF Emptied
<1>2. outbox \in Seq(Mutations) /\ gone \subseteq Mutations
    BY Queued, ItemsTyped
<1>3. Without(outbox, gone) = <<>>
    BY <1>2, WithoutEverything
<1>4. TakenBack(gone)
    BY <1>1, <1>3 DEF TakenBack
<1>5. QED
    BY <1>1, <1>2, <1>4, QueueInvParts DEF QueueMoves, RestOK

LEMMA LogoutEffect ==
    ASSUME QueueInv, logout
    PROVE  Effect
<1> USE DEF logout
<1>1. QueueMoves /\ retracted' \subseteq Mutations /\ cache' = {} /\ owner' = NoOne
    BY EmptiedTakesBack
<1>2. RestOK'
    BY <1>1, QueueInvParts, OfflineAssumption DEF RestOK, RemoteOK, BudgetsOK, decryptions
<1>3. CountsOK' /\ CallMoves /\ ReplayMoves
    BY QueueInvParts, CountsStay, CallsStay, ReplaysStay
<1>4. QED
    BY <1>1, <1>2, <1>3 DEF Effect

LEMMA SignInEffect ==
    ASSUME QueueInv, NEW a \in Accounts, SignIn(a)
    PROVE  Effect
<1> USE DEF SignIn, remote, budgets
<1>1. CountsOK' /\ CallMoves /\ ReplayMoves
    BY QueueInvParts, CountsStay, CallsStay, ReplaysStay
<1>2. CASE owner = a
    <2>1. RestOK'
        BY <1>2, QueueInvParts DEF RestOK, RemoteOK, BudgetsOK, decryptions
    <2>2. QueueMoves
        BY <1>2, QueueStays
    <2>3. QED
        BY <1>1, <2>1, <2>2 DEF Effect
<1>3. CASE owner # a
    <2>1. QueueMoves /\ retracted' \subseteq Mutations /\ cache' = {} /\ owner' = a
        BY <1>3, EmptiedTakesBack
    <2>2. RestOK'
        BY <2>1, QueueInvParts DEF RestOK, RemoteOK, BudgetsOK, decryptions
    <2>3. QED
        BY <1>1, <2>1, <2>2 DEF Effect
<1>4. QED
    BY <1>2, <1>3

-----------------------------------------------------------------------------
(* The actions of a sent message.                                          *)

\* What is left of a call is what the call had, from some place on.
LEMMA TodoPlaces ==
    ASSUME QueueInv, NEW c \in DOMAIN Calls
    PROVE  LET todo == call[c].todo
           IN  /\ todo \in Seq(Relays) /\ Len(todo) \in Nat /\ DOMAIN todo = 1..Len(todo)
               /\ Position(c) \in Nat /\ Len(Calls[c]) \in Nat
               /\ Calls[c] \in Seq(Relays) /\ Len(Calls[c]) = Position(c) + Len(todo)
               /\ \A i \in DOMAIN todo : /\ Position(c) + i \in DOMAIN Calls[c]
                                         /\ todo[i] = Calls[c][Position(c) + i]
<1> DEFINE todo == call[c].todo
           all == Calls[c]
<1>1. todo \in Seq(Relays) /\ Suffix(todo, all)
    BY QueueInvParts DEF CallsOK, CallStates
<1>2. all \in Seq(Relays)
    BY OfflineAssumption
<1>3. Position(c) = Len(all) - Len(todo)
    BY DEF Position
<1> HIDE DEF todo, all
<1>4. Len(all) \in Nat /\ Len(todo) \in Nat /\ Len(todo) <= Len(all)
      /\ DOMAIN all = 1..Len(all) /\ DOMAIN todo = 1..Len(todo)
    BY <1>1, <1>2, LenProperties DEF Suffix
<1> DEFINE p == Len(all) - Len(todo)
<1>5. p \in Nat /\ Len(all) = p + Len(todo)
    BY <1>4
<1>6. \A i \in DOMAIN todo : todo[i] = all[p + i]
    BY <1>1, <1>4 DEF Suffix
<1>7. \A i \in DOMAIN todo : p + i \in DOMAIN all
    BY <1>4, <1>5
<1>8. QED
    BY <1>1, <1>2, <1>3, <1>4, <1>5, <1>6, <1>7 DEF todo, all

\* So no envelope is twice in what is left of all calls.
LEMMA TodoUnique ==
    ASSUME QueueInv, NEW c \in DOMAIN Calls, NEW d \in DOMAIN Calls,
           NEW i \in DOMAIN call[c].todo, NEW j \in DOMAIN call[d].todo,
           call[c].todo[i] = call[d].todo[j]
    PROVE  c = d /\ i = j
<1>1. /\ Position(c) + i \in DOMAIN Calls[c] /\ call[c].todo[i] = Calls[c][Position(c) + i]
      /\ Position(c) \in Nat /\ i \in Nat
    BY TodoPlaces, SMTT(30)
<1>2. /\ Position(d) + j \in DOMAIN Calls[d] /\ call[d].todo[j] = Calls[d][Position(d) + j]
      /\ j \in Nat
    BY TodoPlaces, SMTT(30)
<1>3. Calls[c][Position(c) + i] = Calls[d][Position(d) + j]
    BY <1>1, <1>2
<1> DEFINE p == Position(c) + i
           r == Position(d) + j
<1>4. p \in DOMAIN Calls[c] /\ r \in DOMAIN Calls[d] /\ Calls[c][p] = Calls[d][r]
    BY <1>1, <1>2, <1>3
<1> HIDE DEF p, r
<1>5. c = d /\ p = r
    BY <1>4, IdentifiersAssumption
<1>6. QED
    BY <1>1, <1>2, <1>5 DEF p, r

LEMMA SendStartsEffect ==
    ASSUME QueueInv, NEW c \in DOMAIN Calls, SendStarts(c)
    PROVE  Effect
<1> USE DEF SendStarts, storage, remote, observed, budgets
<1>1. RestOK' /\ CountsOK' /\ ReplayMoves /\ QueueMoves
    BY QueueInvParts, RestStays, CountsStay, ReplaysStay, QueueStays
<1>2. CallMoves
    <2> DEFINE r == [call[c] EXCEPT !.at = "sent", !.konto = konto]
    <2>1. call \in [DOMAIN Calls -> CallStates] /\ konto \in Accounts \cup {NoOne}
        BY QueueInvParts DEF CallsOK, RestOK
    <2>2. call[c].at = "new" /\ call[c].todo = Calls[c] /\ Calls[c] # <<>>
        BY QueueInvParts, OfflineAssumption DEF CallsOK
    <2>3. r \in CallStates /\ r.todo = call[c].todo /\ r.at = "sent"
        BY <2>1 DEF CallStates
    <2>4. call' = [call EXCEPT ![c] = r]
        OBVIOUS
    <2> HIDE DEF r
    <2>5. \A d \in DOMAIN Calls : call'[d] = IF d = c THEN r ELSE call[d]
        BY <2>1, <2>4
    <2>6. call' \in [DOMAIN Calls -> CallStates]
        BY <2>1, <2>3, <2>4
    <2>7. \A d \in DOMAIN Calls :
              /\ Suffix(call[d].todo, Calls[d])
              /\ call[d].at = "new" => call[d].todo = Calls[d]
              /\ call[d].at = "done" <=> call[d].todo = <<>>
        BY QueueInvParts DEF CallsOK
    <2>8. QED
        BY <2>2, <2>3, <2>5, <2>6, <2>7 DEF CallMoves, CallsOK
<1>3. QED
    BY <1>1, <1>2 DEF Effect

\* Passing envelopes hands them to the queue, or drops them when nobody is signed in.
LEMMA PassesEffect ==
    ASSUME QueueInv, NEW c \in DOMAIN Calls, call[c].todo # <<>>, NEW first \in {1, 2},
           NEW k \in Nat, NEW failed \in SUBSET {Entry[m] : m \in Relays},
           Passes(c, first, k, failed),
           konto' \in {konto, NoOne}, UNCHANGED <<owner, retracted>>,
           SettlesAtMost(Head(call[c].todo)), first = 2 => Settled' = Settled
    PROVE  QueueMoves /\ CallMoves
<1> DEFINE todo == call[c].todo
           new == SubSeq(todo, first, k)
           left == SubSeq(todo, k + 1, Len(todo))
           r == [at |-> IF left = <<>> THEN "done" ELSE "sent",
                 todo |-> left, failed |-> failed, konto |-> konto']
<1>1. /\ call \in [DOMAIN Calls -> CallStates]
      /\ konto \in Accounts \cup {NoOne} /\ outbox \in Seq(Mutations)
      /\ author \in [Mutations -> Accounts \cup {NoOne}]
    BY QueueInvParts DEF CallsOK, RestOK
<1>2. /\ k \in 1..Len(todo)
      /\ call' = [call EXCEPT ![c] = r]
      /\ outbox' = IF konto' = NoOne THEN outbox ELSE outbox \o new
      /\ author' = [w \in Mutations |-> IF w \in Items(new) THEN konto' ELSE author[w]]
    BY DEF Passes, CallContinues
<1>3. /\ todo \in Seq(Relays) /\ Len(todo) \in Nat /\ DOMAIN todo = 1..Len(todo)
      /\ Position(c) \in Nat /\ Len(Calls[c]) \in Nat
      /\ Len(Calls[c]) = Position(c) + Len(todo)
      /\ \A i \in DOMAIN todo : todo[i] = Calls[c][Position(c) + i]
    BY TodoPlaces
<1>4. /\ left \in Seq(Relays) /\ Len(left) = Len(todo) - k /\ DOMAIN left = 1..Len(left)
      /\ \A i \in DOMAIN left : left[i] = todo[k + i] /\ k + i \in DOMAIN todo
    <2>1. left \in Seq(Relays) /\ Len(left) = Len(todo) - k
        BY <1>2, <1>3
    <2>2. \A i \in 1..Len(left) : left[i] = todo[k + 1 + i - 1]
        BY <1>2, <1>3, <2>1
    <2> HIDE DEF left, todo
    <2>3. DOMAIN left = 1..Len(left)
        BY <2>1, LenProperties
    <2>4. ASSUME NEW i \in DOMAIN left
          PROVE  k + 1 + i - 1 = k + i /\ k + i \in 1..Len(todo)
        <3>1. k \in 1..Len(todo) /\ Len(todo) \in Nat /\ i \in 1..(Len(todo) - k)
            BY <1>2, <1>3, <2>1, <2>3
        <3>2. QED
            BY <3>1
    <2>5. QED
        BY <1>3, <2>1, <2>2, <2>3, <2>4
<1>5. /\ new \in Seq(Relays) /\ DOMAIN new = 1..Len(new)
      /\ \A i \in DOMAIN new : /\ new[i] = todo[first - 1 + i]
                               /\ first - 1 + i \in 1..k /\ first - 1 + i \in DOMAIN todo
    <2>1. new \in Seq(Relays) /\ Len(new) = IF first <= k THEN k - first + 1 ELSE 0
        BY <1>2, <1>3
    <2>2. \A i \in 1..Len(new) : new[i] = todo[first + i - 1]
        BY <1>2, <1>3, <2>1
    <2>3. DOMAIN new = 1..Len(new) /\ Len(new) \in Nat
        BY <2>1, LenProperties
    <2> HIDE DEF new, todo
    <2>4. ASSUME NEW i \in DOMAIN new
          PROVE  first - 1 + i = first + i - 1 /\ first - 1 + i \in 1..k
        BY <2>1, <2>3, <1>2
    <2>5. 1..k \subseteq DOMAIN todo
        BY <1>2, <1>3
    <2>6. QED
        BY <2>1, <2>2, <2>3, <2>4, <2>5
<1> HIDE DEF new, left, todo, r
<1>6. CallMoves
    <2>1. konto' \in Accounts \cup {NoOne}
        BY <1>1
    <2>2. /\ r \in CallStates /\ r.todo = left /\ r.at # "new"
          /\ r.at = "done" <=> left = <<>>
        BY <1>4, <2>1 DEF CallStates, r
    <2>3. call' \in [DOMAIN Calls -> CallStates]
        BY <1>1, <1>2, <2>2
    <2>4. Suffix(left, Calls[c])
        <3>1. Len(left) \in Nat /\ Len(left) <= Len(Calls[c]) /\ k \in Nat
            BY <1>2, <1>3, <1>4
        <3>2. ASSUME NEW i \in 1..Len(left)
              PROVE  left[i] = Calls[c][Len(Calls[c]) - Len(left) + i]
            <4>1. left[i] = Calls[c][Position(c) + (k + i)]
                BY <1>3, <1>4
            <4>2. Len(Calls[c]) - Len(left) + i = Position(c) + (k + i)
                BY <1>2, <1>3, <1>4, <3>1
            <4>3. QED
                BY <4>1, <4>2
        <3>3. QED
            BY <3>1, <3>2 DEF Suffix
    <2>5. ASSUME NEW d \in DOMAIN Calls
          PROVE  /\ Suffix(call'[d].todo, Calls[d])
                 /\ call'[d].at = "new" => call'[d].todo = Calls[d]
                 /\ call'[d].at = "done" <=> call'[d].todo = <<>>
                 /\ Items(call'[d].todo) \subseteq Items(call[d].todo)
        <3>1. CASE d = c
            <4>1. call'[d] = r
                BY <1>1, <1>2, <3>1
            <4>2. Items(left) \subseteq Items(todo)
                BY <1>4 DEF Items
            <4>3. QED
                BY <4>1, <4>2, <2>2, <2>4, <3>1 DEF todo
        <3>2. CASE d # c
            BY <3>2, <1>1, <1>2, QueueInvParts DEF CallsOK
        <3>3. QED
            BY <3>1, <3>2
    <2>6. QED
        BY <2>3, <2>5 DEF CallMoves, CallsOK
<1>7. \A m \in Items(new) : author[m] = NoOne /\ m \in Items(todo)
    <2>1. \A m \in Items(todo) : author[m] = NoOne
        BY QueueInvParts DEF Owned, todo
    <2>2. QED
        BY <2>1, <1>5 DEF Items
<1>8. Head(todo) \in Mutations
    BY <1>3, todo # <<>> DEF Relays, todo
<1>9. CASE konto' = NoOne \/ new = <<>>
    <2>1. outbox' = outbox
        BY <1>1, <1>2, <1>9, ConcatEmptySeq
    <2>2. Items(new) = {} \/ konto' = NoOne
        BY <1>9 DEF Items
    <2>3. author' = author
        BY <1>1, <1>2, <1>7, <2>2
    <2>4. QED
        BY <1>6, <1>8, <2>1, <2>3 DEF QueueMoves, Stays, todo
<1>10. CASE konto' # NoOne /\ new # <<>>
    <2>1. konto' = konto /\ konto \in Accounts
        BY <1>1, <1>10
    <2>2. Unique(new)
        <3> SUFFICES ASSUME NEW i \in DOMAIN new, NEW j \in DOMAIN new, new[i] = new[j]
                     PROVE  i = j
            BY DEF Unique
        <3>1. first - 1 + i = first - 1 + j
            BY <1>5, TodoUnique DEF todo
        <3>2. i \in Nat /\ j \in Nat
            BY <1>5
        <3>3. QED
            BY <3>1, <3>2
    <2>3. ASSUME NEW d \in DOMAIN Calls, NEW m \in Items(new), m \in Items(call'[d].todo)
          PROVE  FALSE
        <3>1. PICK i \in DOMAIN new : m = new[i]
            BY DEF Items
        <3>2. PICK j \in DOMAIN call'[d].todo : m = call'[d].todo[j]
            BY <2>3 DEF Items
        <3>3. CASE d = c
            <4>1. call'[d].todo = left
                BY <1>1, <1>2, <3>3 DEF r
            <4>2. m = todo[k + j] /\ k + j \in DOMAIN todo /\ j \in DOMAIN left
                BY <1>4, <3>2, <4>1
            <4>3. first - 1 + i = k + j
                <5> DEFINE x == first - 1 + i
                           y == k + j
                <5>1. x \in DOMAIN todo /\ y \in DOMAIN todo /\ todo[x] = todo[y]
                    BY <1>5, <3>1, <4>2
                <5> HIDE DEF x, y
                <5>2. x = y
                    BY <5>1, TodoUnique DEF todo
                <5>3. QED
                    BY <5>2 DEF x, y
            <4>4. first - 1 + i <= k /\ first - 1 + i \in Int /\ k \in Nat /\ j \in Nat /\ j >= 1
                BY <1>4, <1>5, <4>2, <1>2
            <4>5. QED
                BY <4>3, <4>4
        <3>4. CASE d # c
            <4>1. call'[d] = call[d]
                BY <1>1, <1>2, <3>4
            <4> DEFINE x == first - 1 + i
            <4>2. x \in DOMAIN todo /\ todo[x] = call[d].todo[j] /\ j \in DOMAIN call[d].todo
                BY <1>5, <3>1, <3>2, <4>1
            <4> HIDE DEF x
            <4>3. QED
                BY <3>4, <4>2, TodoUnique DEF todo
        <3>5. QED
            BY <3>3, <3>4
    <2>4. new \in Seq(Mutations)
        BY <1>5 DEF Relays
    <2>5. SettlesAtMost(Head(new))
        <3>1. CASE first = 1
            <4>1. Head(new) = Head(todo)
                BY <1>3, <1>5, <1>10, <3>1, todo # <<>> DEF todo
            <4>2. QED
                BY <4>1 DEF todo
        <3>2. CASE first = 2
            BY <3>2 DEF SettlesAtMost
        <3>3. QED
            BY <3>1, <3>2
    <2>6. Arrives(new)
        BY <1>2, <1>7, <1>10, <2>1, <2>2, <2>3, <2>4, <2>5 DEF Arrives
    <2>7. QED
        BY <1>6, <2>6 DEF QueueMoves
<1>11. QED
    BY <1>9, <1>10

LEMMA RelayAnsweredEffect ==
    ASSUME QueueInv, NEW c \in DOMAIN Calls, RelayAnswered(c)
    PROVE  Effect
<1> DEFINE todo == call[c].todo
           m == Head(todo)
<1>1. /\ call \in [DOMAIN Calls -> CallStates] /\ call[c].at = "sent"
      /\ todo \in Seq(Relays) /\ todo # <<>>
      /\ call[c].konto \in Accounts \cup {NoOne} /\ konto \in Accounts \cup {NoOne}
      /\ call[c].failed \in SUBSET {Entry[w] : w \in Relays}
    BY QueueInvParts DEF RelayAnswered, CallsOK, CallStates, RestOK
<1>2. m \in Relays /\ m \in Mutations
    BY <1>1 DEF Relays
<1>3. PICK end \in Ends :
          /\ Respond(m, call[c].konto, end)
          /\ \/ /\ end = "ok" /\ call' = [call EXCEPT ![c].at = "ok"]
                /\ UNCHANGED <<outbox, author>>
             \/ end # "ok" /\ RelayFailed(c)
    BY DEF RelayAnswered
<1>4. UNCHANGED <<owner, tries, cache, replay, load, decryptions, stray, retracted, refusals>>
    BY DEF RelayAnswered
<1>5. /\ RemoteOK' /\ BudgetsOK' /\ Carried(m) /\ konto' \in {konto, NoOne}
      /\ end = "ok" => konto' = konto /\ m \in processed'
    BY <1>1, <1>2, <1>3, RespondEffect, QueueInvParts DEF RestOK
<1>6. SettlesAtMost(m) /\ processed \subseteq processed'
    BY <1>2, <1>4, <1>5, CarriedSettles
<1>7. RestOK'
    BY <1>1, <1>4, <1>5, QueueInvParts DEF RestOK, decryptions
<1>8. CountsOK' /\ ReplayMoves
    BY <1>4, QueueInvParts, CountsStay, ReplaysStay
<1>9. CASE end = "ok"
    <2>1. call' = [call EXCEPT ![c].at = "ok"] /\ UNCHANGED <<outbox, author>>
        BY <1>3, <1>9
    <2>2. QueueMoves
        BY <1>2, <1>4, <1>6, <2>1 DEF QueueMoves, Stays
    <2>3. CallMoves
        <3> DEFINE r == [call[c] EXCEPT !.at = "ok"]
        <3>1. r \in CallStates /\ r.todo = call[c].todo /\ r.at = "ok"
            BY <1>1 DEF CallStates
        <3>2. call' = [call EXCEPT ![c] = r]
            BY <2>1
        <3> HIDE DEF r
        <3>3. \A d \in DOMAIN Calls : call'[d] = IF d = c THEN r ELSE call[d]
            BY <1>1, <3>2
        <3>4. call' \in [DOMAIN Calls -> CallStates]
            BY <1>1, <3>1, <3>2
        <3>5. \A d \in DOMAIN Calls :
                  /\ Suffix(call[d].todo, Calls[d])
                  /\ call[d].at = "new" => call[d].todo = Calls[d]
                  /\ call[d].at = "done" <=> call[d].todo = <<>>
            BY QueueInvParts DEF CallsOK
        <3>6. QED
            BY <1>1, <3>1, <3>3, <3>4, <3>5 DEF CallMoves, CallsOK
    <2>4. QED
        BY <1>6, <1>7, <1>8, <2>2, <2>3 DEF Effect
<1>10. CASE end # "ok"
    <2>1. PICK k \in 1..Len(todo) : Passes(c, 1, k, call[c].failed \cup {Entry[m]})
        BY <1>1, <1>3, <1>10, FailedPasses
    <2>2. k \in Nat /\ call[c].failed \cup {Entry[m]} \in SUBSET {Entry[w] : w \in Relays}
        BY <1>1, <1>2, <2>1
    <2>3. QueueMoves /\ CallMoves
        BY <1>1, <1>4, <1>5, <1>6, <2>1, <2>2, PassesEffect
    <2>4. QED
        BY <1>6, <1>7, <1>8, <2>3 DEF Effect
<1>11. QED
    BY <1>9, <1>10

LEMMA SendGoesOnEffect ==
    ASSUME QueueInv, NEW c \in DOMAIN Calls, SendGoesOn(c)
    PROVE  Effect
<1> DEFINE todo == call[c].todo
<1>1. /\ UNCHANGED <<konto, owner, tries, cache, replay, load, decryptions, remote, stray,
                     retracted, refusals, budgets>>
      /\ call[c].at = "ok"
    BY DEF SendGoesOn
<1>2. /\ todo \in Seq(Relays) /\ todo # <<>>
      /\ call[c].failed \in SUBSET {Entry[w] : w \in Relays}
    BY <1>1, QueueInvParts DEF CallsOK, CallStates
<1>3. PICK k \in 1..Len(todo) : Passes(c, 2, k, call[c].failed)
    BY <1>2, SuccessPasses
<1>4. Settled' = Settled /\ SettlesAtMost(Head(todo))
    BY <1>1 DEF Settled, SettlesAtMost, Refused, remote
<1>5. k \in Nat
    BY <1>2, <1>3
<1>6. QueueMoves /\ CallMoves
    BY <1>1, <1>2, <1>3, <1>4, <1>5, PassesEffect
<1>7. RestOK' /\ CountsOK' /\ ReplayMoves
    BY <1>1, QueueInvParts, RestStays, CountsStay, ReplaysStay DEF remote, budgets
<1>8. QED
    BY <1>1, <1>6, <1>7 DEF Effect, remote

LEMMA ReloadEffect ==
    ASSUME QueueInv, NEW t \in Tabs, Reload(t)
    PROVE  Effect
<1> DEFINE mine == {c \in DOMAIN Calls : ChatTab[c] = t /\ call[c].at \notin {"new", "done"}}
           sent == {Head(call[c].todo) :
                      c \in {d \in mine : call[d].at = "sent" /\ call[d].konto # NoOne}}
<1>1. /\ faults < MaxFaults /\ faults' = faults + 1
      /\ stray' = stray \cup sent \cup
                    (IF replay[t].at = "sent" THEN {replay[t].mutation} ELSE {})
      /\ replay' = [replay EXCEPT ![t] = Idle]
      /\ load' = [load EXCEPT ![t] = NoLoad]
      /\ redecrypt' = [redecrypt EXCEPT ![t] = NoRedecryption]
      /\ call' = [c \in DOMAIN Calls |->
                    IF c \in mine THEN [call[c] EXCEPT !.at = "done", !.todo = <<>>] ELSE call[c]]
      /\ UNCHANGED <<konto, storage, decrypting, remote, observed, refusals, switches>>
    BY DEF Reload
<1>2. call \in [DOMAIN Calls -> CallStates]
      /\ \A c \in DOMAIN Calls : call[c].at = "done" <=> call[c].todo = <<>>
    BY QueueInvParts DEF CallsOK
<1>3. sent \subseteq Mutations
    <2>1. ASSUME NEW c \in mine
          PROVE  Head(call[c].todo) \in Mutations
        <3>1. call[c].todo \in Seq(Relays) /\ call[c].todo # <<>>
            BY <1>2 DEF CallStates
        <3>2. QED
            BY <3>1 DEF Relays
    <2>2. QED
        BY <2>1
<1>4. CallMoves
    <2>1. ASSUME NEW c \in DOMAIN Calls
          PROVE  /\ call'[c] \in CallStates
                 /\ Suffix(call'[c].todo, Calls[c])
                 /\ call'[c].at = "new" => call'[c].todo = Calls[c]
                 /\ call'[c].at = "done" <=> call'[c].todo = <<>>
                 /\ Items(call'[c].todo) \subseteq Items(call[c].todo)
        <3>1. CASE c \in mine
            <4> DEFINE r == [call[c] EXCEPT !.at = "done", !.todo = <<>>]
            <4>0. call[c] \in CallStates /\ <<>> \in Seq(Relays)
                BY <1>2
            <4>1. r \in CallStates /\ r.at = "done" /\ r.todo = <<>> /\ call'[c] = r
                BY <1>1, <3>1, <4>0 DEF CallStates
            <4>2. Calls[c] \in Seq(Relays)
                BY OfflineAssumption
            <4>3. Suffix(<<>>, Calls[c])
                BY <4>2 DEF Suffix
            <4>4. Items(<<>>) = {}
                BY DEF Items
            <4> HIDE DEF r
            <4>5. QED
                BY <4>1, <4>3, <4>4
        <3>2. CASE c \notin mine
            BY <1>1, <3>2, QueueInvParts DEF CallsOK
        <3>3. QED
            BY <3>1, <3>2
    <2>2. call' \in [DOMAIN Calls -> CallStates]
        BY <1>1, <2>1
    <2>3. QED
        BY <2>1, <2>2 DEF CallMoves, CallsOK
<1>5. RestOK'
    <2>1. stray' \subseteq Mutations
        BY <1>1, <1>3, QueueInvParts DEF RestOK
    <2>2. load' \in [Tabs -> Loads]
        BY <1>1, QueueInvParts DEF RestOK, NoLoad, Loads, Lists
    <2>5. redecrypt' \in [Tabs -> Redecryptions]
        BY <1>1, QueueInvParts DEF RestOK, NoRedecryption, Redecryptions
    <2>3. BudgetsOK'
        <3>1. faults \in 0..MaxFaults /\ switches \in 0..MaxSwitches
            BY QueueInvParts DEF RestOK, BudgetsOK
        <3>2. MaxFaults \in Nat
            BY OfflineAssumption
        <3>3. faults < MaxFaults /\ faults' = faults + 1 /\ switches' = switches
            BY <1>1
        <3>4. QED
            BY <3>1, <3>2, <3>3 DEF BudgetsOK
    <2>4. QED
        BY <1>1, <2>1, <2>2, <2>3, <2>5, QueueInvParts
           DEF RestOK, RemoteOK, storage, remote, observed
<1>6. CountsOK' /\ ReplayMoves /\ QueueMoves
    BY <1>1, QueueInvParts, CountsStay, BreakMoves, QueueStays DEF storage, remote, observed
<1>7. QED
    BY <1>1, <1>4, <1>5, <1>6 DEF Effect, remote

LEMMA NothingEffect ==
    ASSUME QueueInv, UNCHANGED vars
    PROVE  Effect
<1> USE DEF vars, storage, remote, observed, budgets
<1>1. RestOK' /\ CountsOK' /\ ReplayMoves /\ QueueMoves /\ CallMoves
    BY QueueInvParts, RestStays, CountsStay, ReplaysStay, QueueStays, CallsStay
<1>2. QED
    BY <1>1 DEF Effect

-----------------------------------------------------------------------------
(* Every step is such a step, and such a step keeps the invariant.         *)

LEMMA StepEffect ==
    ASSUME QueueInv, [Next]_vars
    PROVE  Effect
<1>1. CASE UNCHANGED vars
    BY <1>1, NothingEffect
<1>2. CASE Person
    <2>1. CASE \E t \in Tabs, m \in Mutations : SaveNew(t, m) \/ SaveChange(t, m) \/ Delete(t, m)
        BY <2>1, SaveNewEffect, SaveChangeEffect, DeleteEffect
    <2>2. CASE \E m \in Mutations : Discard(m)
        BY <2>2, DiscardEffect
    <2>3. CASE \E c \in DOMAIN Calls : SendStarts(c)
        BY <2>3, SendStartsEffect
    <2>4. CASE logout \/ SessionEnds \/ \E a \in Accounts : SignIn(a)
        BY <2>4, LogoutEffect, SessionEndsEffect, SignInEffect
    <2>5. QED
        BY <1>2, <2>1, <2>2, <2>3, <2>4 DEF Person
<1>3. CASE Client
    <2>1. CASE \E t \in Tabs : Tick(t) \/ ReplayGoesOn(t) \/ LoadMerged(t) \/ Reload(t)
        BY <2>1, TickEffect, ReplayGoesOnEffect, LoadMergedEffect, ReloadEffect
    <2>2. CASE \E c \in DOMAIN Calls : SendGoesOn(c)
        BY <2>2, SendGoesOnEffect
    <2>3. CASE \E e \in Entries, action \in {"created", "deleted"} : EventArrives(e, action)
        BY <2>3, EventArrivesEffect
    <2>4. CASE \E e \in Entries : EventDecrypted(e)
        BY <2>4, EventDecryptedEffect
    <2>5. CASE \/ \E t \in Tabs : Redecrypted(t)
               \/ \E t \in Tabs, list \in DOMAIN Lists : Redecrypt(t, list)
        BY <2>5, RedecryptEffect, RedecryptedEffect
    <2>6. QED
        BY <1>3, <2>1, <2>2, <2>3, <2>4, <2>5 DEF Client
<1>4. CASE World
    <2>1. CASE \E t \in Tabs : ReplayAnswered(t)
        BY <2>1, ReplayAnsweredEffect
    <2>2. CASE \E t \in Tabs, list \in DOMAIN Lists : LoadAnswered(t, list)
        BY <2>2, LoadAnsweredEffect
    <2>3. CASE \E c \in DOMAIN Calls : RelayAnswered(c)
        BY <2>3, RelayAnsweredEffect
    <2>4. CASE \E m \in Mutations : StrayArrives(m) \/ StrayLost(m)
        BY <2>4, StrayArrivesEffect, StrayLostEffect
    <2>5. CASE \E a \in Accounts, e \in Entries : OtherDevice(a, e)
        BY <2>5, OtherDeviceEffect
    <2>6. CASE \E e \in Entries, action \in {"created", "deleted"} : EventLost(e, action)
        BY <2>6, EventLostEffect
    <2>7. QED
        BY <1>4, <2>1, <2>2, <2>3, <2>4, <2>5, <2>6 DEF World
<1>5. QED
    BY <1>1, <1>2, <1>3, <1>4 DEF Next

\* The queue and the authors after a step, by the way the queue moves.
LEMMA OwnedKept ==
    ASSUME QueueInv, Effect
    PROVE  /\ outbox' \in Seq(Mutations) /\ author' \in [Mutations -> Accounts \cup {NoOne}]
           /\ Owned'
<1>1. /\ outbox \in Seq(Mutations) /\ author \in [Mutations -> Accounts \cup {NoOne}]
      /\ Unique(outbox) /\ \A m \in Items(outbox) : author[m] = owner /\ owner # NoOne
      /\ konto # NoOne => owner = konto
      /\ \A c \in DOMAIN Calls : \A m \in Items(call[c].todo) : author[m] = NoOne
    BY QueueInvParts DEF Owned
<1>2. /\ konto' # NoOne => owner' = konto'
      /\ \A c \in DOMAIN Calls : /\ Items(call'[c].todo) \subseteq Items(call[c].todo)
                                 /\ Items(call'[c].todo) \subseteq Mutations
    <2>1. \A c \in DOMAIN Calls : call'[c].todo \in Seq(Relays)
        BY DEF Effect, CallMoves, CallsOK, CallStates
    <2>2. \A c \in DOMAIN Calls : Items(call'[c].todo) \subseteq Mutations
        BY <2>1, ItemsTyped DEF Relays
    <2>3. QED
        BY <2>2 DEF Effect, RestOK, CallMoves
<1>3. CASE Stays
    BY <1>1, <1>2, <1>3 DEF Stays, Owned
<1>4. ASSUME NEW new, Arrives(new)
      PROVE  /\ outbox' \in Seq(Mutations) /\ author' \in [Mutations -> Accounts \cup {NoOne}]
             /\ Owned'
    <2>1. /\ konto \in Accounts /\ UNCHANGED <<konto, owner>>
          /\ new \in Seq(Mutations) /\ Unique(new)
          /\ \A m \in Items(new) : author[m] = NoOne
          /\ \A c \in DOMAIN Calls : Items(new) \cap Items(call'[c].todo) = {}
          /\ outbox' = outbox \o new
          /\ author' = [w \in Mutations |-> IF w \in Items(new) THEN konto ELSE author[w]]
        BY <1>4 DEF Arrives
    <2>2. owner = konto /\ konto # NoOne
        BY <1>1, <2>1, OfflineAssumption
    <2>3. Items(outbox) \cap Items(new) = {}
        BY <1>1, <2>1
    <2>4. /\ outbox' \in Seq(Mutations) /\ Unique(outbox')
          /\ Items(outbox') = Items(outbox) \cup Items(new)
        BY <1>1, <2>1, <2>3, ConcatItems, ConcatUnique
    <2>5. Items(outbox') \subseteq Mutations
        BY <2>4 DEF Items
    <2>6. \A m \in Items(outbox') : author'[m] = owner' /\ owner' # NoOne
        BY <1>1, <2>1, <2>2, <2>4, <2>5
    <2>7. \A c \in DOMAIN Calls : \A m \in Items(call'[c].todo) : author'[m] = NoOne
        BY <1>1, <1>2, <2>1
    <2>8. author' \in [Mutations -> Accounts \cup {NoOne}]
        BY <1>1, <2>1
    <2>9. QED
        BY <1>2, <2>4, <2>6, <2>7, <2>8 DEF Owned
<1>5. CASE Leaves
    <2>1. outbox # <<>> /\ outbox' = Tail(outbox) /\ UNCHANGED <<konto, owner, author>>
        BY <1>5 DEF Leaves
    <2>2. outbox' \in Seq(Mutations) /\ Unique(outbox') /\ Items(outbox') \subseteq Items(outbox)
        BY <1>1, <2>1, TailItems
    <2>3. QED
        BY <1>1, <1>2, <2>1, <2>2 DEF Owned
<1>6. ASSUME NEW gone, TakenBack(gone)
      PROVE  /\ outbox' \in Seq(Mutations) /\ author' \in [Mutations -> Accounts \cup {NoOne}]
             /\ Owned'
    <2>1. /\ outbox' = Without(outbox, gone) /\ UNCHANGED author
          /\ owner' = owner \/ outbox' = <<>>
        BY <1>6 DEF TakenBack
    <2>2. outbox' \in Seq(Mutations) /\ Unique(outbox') /\ Items(outbox') \subseteq Items(outbox)
        BY <1>1, <2>1, WithoutItems, WithoutUnique
    <2>3. \A m \in Items(outbox') : owner' = owner
        BY <2>1 DEF Items
    <2>4. QED
        BY <1>1, <1>2, <2>1, <2>2, <2>3 DEF Owned
<1>7. QED
    BY <1>3, <1>4, <1>5, <1>6 DEF Effect, QueueMoves

\* What has an author keeps it, does not come back to the queue, and keeps its place
\* at the head as long as it is there.
LEMMA AuthoredStays ==
    ASSUME QueueInv, QueueMoves, NEW m \in Mutations, author[m] # NoOne
    PROVE  /\ author'[m] = author[m]
           /\ m \in Items(outbox') =>
                 m \in Items(outbox) /\ (m = Head(outbox) => m = Head(outbox'))
<1>1. outbox \in Seq(Mutations) /\ Unique(outbox)
    BY Queued
<1>2. CASE Stays
    BY <1>2 DEF Stays
<1>3. ASSUME NEW new, Arrives(new)
      PROVE  /\ author'[m] = author[m]
             /\ m \in Items(outbox') =>
                   m \in Items(outbox) /\ (m = Head(outbox) => m = Head(outbox'))
    <2>1. /\ new \in Seq(Mutations) /\ m \notin Items(new)
          /\ outbox' = outbox \o new
          /\ author' = [w \in Mutations |-> IF w \in Items(new) THEN konto ELSE author[w]]
        BY <1>3 DEF Arrives
    <2>2. /\ Items(outbox') = Items(outbox) \cup Items(new)
          /\ outbox # <<>> => Head(outbox') = Head(outbox)
        BY <1>1, <2>1, ConcatItems
    <2>3. outbox = <<>> => Items(outbox) = {}
        BY DEF Items
    <2>4. QED
        BY <2>1, <2>2, <2>3
<1>4. CASE Leaves
    <2>1. outbox # <<>> /\ outbox' = Tail(outbox) /\ UNCHANGED author
        BY <1>4 DEF Leaves
    <2>2. Items(outbox') = Items(outbox) \ {Head(outbox)}
        BY <1>1, <2>1, TailItems
    <2>3. QED
        BY <2>1, <2>2
<1>5. ASSUME NEW gone, TakenBack(gone)
      PROVE  /\ author'[m] = author[m]
             /\ m \in Items(outbox') =>
                   m \in Items(outbox) /\ (m = Head(outbox) => m = Head(outbox'))
    <2>1. outbox' = Without(outbox, gone) /\ UNCHANGED author
        BY <1>5 DEF TakenBack
    <2>2. Items(outbox') = Items(outbox) \ gone
        BY <1>1, <2>1, WithoutItems
    <2>3. ASSUME m \in Items(outbox'), m = Head(outbox)
          PROVE  m = Head(outbox')
        <3>1. outbox # <<>> /\ Head(outbox) \notin gone
            BY <2>2, <2>3 DEF Items
        <3>2. QED
            BY <1>1, <2>1, <2>3, <3>1, WithoutKeepsHead
    <2>4. QED
        BY <2>1, <2>2, <2>3
<1>6. QED
    BY <1>2, <1>3, <1>4, <1>5 DEF QueueMoves

LEMMA HeadsKept ==
    ASSUME QueueInv, Effect, outbox' \in Seq(Mutations), Owned', NEW t \in Tabs,
           replay'[t].at # "idle"
    PROVE  /\ replay'[t].mutation \in Mutations /\ replay'[t].konto \in Accounts
           /\ author'[replay'[t].mutation] = replay'[t].konto
           /\ replay'[t].mutation \in Items(outbox') => replay'[t].mutation = Head(outbox')
           /\ replay'[t].at = "ok" => replay'[t].mutation \in processed'
<1> DEFINE m == replay[t].mutation
<1>1. ASSUME replay[t].at # "idle", replay'[t].mutation = m, replay'[t].konto = replay[t].konto,
             replay'[t].at = "ok" => m \in processed'
      PROVE  /\ replay'[t].mutation \in Mutations /\ replay'[t].konto \in Accounts
             /\ author'[replay'[t].mutation] = replay'[t].konto
             /\ replay'[t].mutation \in Items(outbox') => replay'[t].mutation = Head(outbox')
             /\ replay'[t].at = "ok" => replay'[t].mutation \in processed'
    <2>1. /\ m \in Mutations /\ replay[t].konto \in Accounts
          /\ author[m] = replay[t].konto
          /\ m \in Items(outbox) => m = Head(outbox)
        BY <1>1, QueueInvParts DEF HeadsSent
    <2>2. author[m] # NoOne
        BY <2>1, OfflineAssumption
    <2>3. /\ author'[m] = author[m]
          /\ m \in Items(outbox') =>
                m \in Items(outbox) /\ (m = Head(outbox) => m = Head(outbox'))
        BY <2>1, <2>2, AuthoredStays DEF Effect
    <2>4. QED
        BY <1>1, <2>1, <2>3
<1>2. \/ replay'[t] = replay[t]
      \/ replay'[t] = Idle
      \/ /\ UNCHANGED konto /\ konto \in Accounts /\ outbox' # <<>>
         /\ replay'[t] = [at |-> "sent", mutation |-> Head(outbox'), konto |-> konto]
      \/ /\ replay[t].at = "sent" /\ replay[t].mutation \in processed'
         /\ replay'[t] = [replay[t] EXCEPT !.at = "ok"]
    BY DEF Effect, ReplayMoves
<1>3. CASE replay'[t] = replay[t]
    <2>1. replay[t].at = "ok" => m \in processed'
        BY <1>3, QueueInvParts DEF HeadsSent, Effect
    <2>2. QED
        BY <1>1, <1>3, <2>1
<1>4. CASE replay'[t] = Idle
    BY <1>4 DEF Idle
<1>5. CASE /\ UNCHANGED konto /\ konto \in Accounts /\ outbox' # <<>>
           /\ replay'[t] = [at |-> "sent", mutation |-> Head(outbox'), konto |-> konto]
    <2>1. Head(outbox') \in Mutations /\ Head(outbox') \in Items(outbox')
        <3>1. 1 \in DOMAIN outbox' /\ Head(outbox') = outbox'[1] /\ Head(outbox') \in Mutations
            BY <1>5
        <3>2. QED
            BY <3>1 DEF Items
    <2>2. konto' # NoOne
        BY <1>5, OfflineAssumption
    <2>3. author'[Head(outbox')] = konto
        BY <1>5, <2>1, <2>2 DEF Owned
    <2>4. QED
        BY <1>5, <2>1, <2>3
<1>6. CASE /\ replay[t].at = "sent" /\ replay[t].mutation \in processed'
           /\ replay'[t] = [replay[t] EXCEPT !.at = "ok"]
    <2>1. replay[t] \in Replays
        BY QueueInvParts
    <2>2. replay'[t].mutation = m /\ replay'[t].konto = replay[t].konto
        BY <1>6, <2>1 DEF Replays
    <2>3. QED
        BY <1>1, <1>6, <2>2
<1>7. QED
    BY <1>2, <1>3, <1>4, <1>5, <1>6

LEMMA EffectKeeps ==
    ASSUME QueueInv, Effect
    PROVE  QueueInv'
<1>1. /\ outbox' \in Seq(Mutations) /\ author' \in [Mutations -> Accounts \cup {NoOne}]
      /\ Owned'
    BY OwnedKept
<1>2. replay' \in [Tabs -> Replays] /\ RestOK' /\ CountsOK' /\ CallsOK'
    BY DEF Effect, ReplayMoves, CallMoves
<1>3. \A t \in Tabs : replay'[t].at # "idle" =>
          /\ replay'[t].mutation \in Mutations /\ replay'[t].konto \in Accounts
          /\ author'[replay'[t].mutation] = replay'[t].konto
          /\ replay'[t].mutation \in Items(outbox') => replay'[t].mutation = Head(outbox')
          /\ replay'[t].at = "ok" => replay'[t].mutation \in processed'
    BY <1>1, HeadsKept
<1>4. HeadsSent'
    BY <1>3 DEF HeadsSent
<1>5. WorkFits'
    BY <1>2, <1>3 DEF WorkFits, CallsOK
<1>6. TypeOK'
    BY <1>1, <1>2 DEF TypeOK, RestOK, RemoteOK, BudgetsOK, CountsOK, CallsOK
<1>7. Counted'
    BY <1>2 DEF CountsOK
<1>8. QED
    BY <1>1, <1>4, <1>5, <1>6, <1>7 DEF QueueInv, TypeInv

LEMMA InitQueueInv ==
    ASSUME Init
    PROVE  QueueInv
<1> USE DEF Init
<1>1. MaxTries \in Nat /\ MaxFaults \in Nat /\ MaxSwitches \in Nat
    BY OfflineAssumption
<1>2. Idle \in Replays /\ NoLoad \in Loads /\ NoRedecryption \in Redecryptions
    BY DEF Idle, Replays, NoLoad, Loads, NoRedecryption, Redecryptions, Lists
<1>3. ASSUME NEW c \in DOMAIN Calls
      PROVE  /\ call[c] \in CallStates /\ call[c].todo = Calls[c] /\ call[c].at = "new"
             /\ call[c].todo # <<>> /\ Suffix(Calls[c], Calls[c])
    <2>1. Calls[c] \in Seq(Relays) /\ Calls[c] # <<>>
        BY OfflineAssumption
    <2>2. call[c] = [at |-> "new", todo |-> Calls[c], failed |-> {}, konto |-> NoOne]
        OBVIOUS
    <2>3. Len(Calls[c]) \in Nat
        BY <2>1
    <2>4. Suffix(Calls[c], Calls[c])
        BY <2>3 DEF Suffix
    <2>5. QED
        BY <2>1, <2>2, <2>4 DEF CallStates
<1>4. call \in [DOMAIN Calls -> CallStates]
    BY <1>3
<1>5. TypeOK
    BY <1>1, <1>2, <1>4 DEF TypeOK
<1>6. WorkFits
    BY <1>3 DEF WorkFits, Idle
<1>7. Items(outbox) = {} /\ Unique(outbox)
    BY DEF Items, Unique
<1>8. Owned
    <2>1. \A c \in DOMAIN Calls : Items(call[c].todo) \subseteq Mutations
        <3>1. ASSUME NEW c \in DOMAIN Calls
              PROVE  Items(call[c].todo) \subseteq Mutations
            <4>1. call[c].todo \in Seq(Relays)
                BY <1>3 DEF CallStates
            <4>2. QED
                BY <4>1, ItemsTyped DEF Relays
        <3>2. QED
            BY <3>1
    <2>2. QED
        BY <1>7, <2>1 DEF Owned
<1>9. HeadsSent /\ Counted
    BY <1>1 DEF HeadsSent, Counted, Idle
<1>10. QED
    BY <1>5, <1>6, <1>8, <1>9 DEF QueueInv, TypeInv

\* The invariant of the queue holds in every state (all of offlineSync.ts and
\* nachrichtVersand.ts together).
THEOREM Invariance == Spec => []QueueInv
<1>1. Init => QueueInv
    BY InitQueueInv
<1>2. QueueInv /\ [Next]_vars => QueueInv'
    BY StepEffect, EffectKeeps
<1>3. QED
    BY <1>1, <1>2, PTL DEF Spec

\* Every variable keeps its type, and no counter passes its limit.
THEOREM TypeCorrect == Spec => []TypeOK
<1>1. QueueInv => TypeOK
    BY DEF QueueInv, TypeInv
<1>2. QED
    BY <1>1, Invariance, PTL

\* A loop sends only what was queued under the account it began with, whoever signs
\* out and in while its requests are under way (replayOutbox checks the account after
\* every answer).
THEOREM SentHolds == Spec => []SentUnderItsAccount
<1>1. QueueInv => SentUnderItsAccount
    BY DEF QueueInv, HeadsSent, SentUnderItsAccount
<1>2. QED
    BY <1>1, Invariance, PTL

-----------------------------------------------------------------------------
(* What is under way, and what of it arrives.                              *)

UnderWay(w) ==
    \/ w \in stray
    \/ \E t \in Tabs : replay[t].at = "sent" /\ replay[t].mutation = w
    \/ \E c \in DOMAIN Calls : call[c].at = "sent" /\ w = Head(call[c].todo)

\* No call hands an envelope to the queue.
CallsStand ==
    /\ Items(outbox') \cap Relays \subseteq Items(outbox)
    /\ \A c \in DOMAIN Calls :
          \/ call'[c].todo = <<>>
          \/ /\ call'[c].todo = call[c].todo
             /\ call'[c].at = "ok" => call[c].at = "ok" \/ Head(call[c].todo) \in processed'

CallPasses(c, first, k, failed) ==
    /\ call[c].todo # <<>> /\ first = 2 => call[c].at = "ok"
    /\ Passes(c, first, k, failed)

Delivers ==
    /\ \A m \in Mutations : refusals[m] > MaxTries => refusals'[m] > MaxTries
    /\ \A w \in stray' : UnderWay(w)
    /\ UNCHANGED <<mailbox, processed>> \/ \E w \in Mutations : UnderWay(w) /\ Carried(w)
    /\ \/ CallsStand
       \/ \E c \in DOMAIN Calls, first \in {1, 2}, k \in Nat :
             \E failed : CallPasses(c, first, k, failed)

\* Who keeps the author they have are not new in the queue.
LEMMA OldInQueue ==
    ASSUME QueueInv, Effect, NEW m \in Mutations, author'[m] = author[m], m \in Items(outbox')
    PROVE  m \in Items(outbox)
<1>1. author'[m] # NoOne
    BY OwnedKept DEF Owned
<1>2. QED
    BY <1>1, AuthoredStays DEF Effect

LEMMA NoEnvelopeQueued ==
    ASSUME QueueInv, Effect, UNCHANGED call, \A m \in Relays : author'[m] = author[m]
    PROVE  CallsStand
<1>1. ASSUME NEW m \in Items(outbox') \cap Relays
      PROVE  m \in Items(outbox)
    BY OldInQueue DEF Relays
<1>2. QED
    BY <1>1 DEF CallsStand

LEMMA NothingDelivered ==
    ASSUME QueueInv, Effect, UNCHANGED <<call, stray, mailbox, processed, refusals>>,
           \A m \in Relays : author'[m] = author[m]
    PROVE  Delivers
BY NoEnvelopeQueued DEF Delivers, UnderWay

\* enqueueMutation makes an author of notes and events only.
LEMMA EnqueuesNoEnvelope ==
    ASSUME QueueInv, NEW w \in Mutations \ Relays, enqueueMutation(w)
    PROVE  \A m \in Mutations : m # w => author'[m] = author[m]
<1>1. author \in [Mutations -> Accounts \cup {NoOne}]
    BY QueueInvParts
<1>2. QED
    BY <1>1 DEF enqueueMutation

LEMMA PersonDelivers ==
    ASSUME QueueInv, Person
    PROVE  Delivers
<1>0. Effect
    BY StepEffect DEF Next
<1>1. ASSUME NEW t \in Tabs, NEW m \in Mutations,
             SaveNew(t, m) \/ SaveChange(t, m) \/ Delete(t, m)
      PROVE  Delivers
    <2>1. m \in Mutations \ Relays
        BY <1>1 DEF SaveNew, SaveChange, Delete, Relays
    <2>2. enqueueMutation(m) \/ UNCHANGED author
        BY <1>1 DEF SaveNew, SaveChange, Delete
    <2>3. \A w \in Relays : author'[w] = author[w]
        BY <2>1, <2>2, EnqueuesNoEnvelope DEF Relays
    <2>4. UNCHANGED <<call, stray, mailbox, processed, refusals>>
        BY <1>1 DEF SaveNew, SaveChange, Delete, remote
    <2>5. QED
        BY <1>0, <2>3, <2>4, NothingDelivered
<1>2. CASE \E m \in Mutations : Discard(m)
    BY <1>0, <1>2, NothingDelivered DEF Discard, remote
<1>3. ASSUME NEW c \in DOMAIN Calls, SendStarts(c)
      PROVE  Delivers
    <2>1. /\ UNCHANGED <<author, stray, mailbox, processed, refusals>>
          /\ call' = [call EXCEPT ![c].at = "sent", ![c].konto = konto]
        BY <1>3 DEF SendStarts, observed, remote
    <2>2. call \in [DOMAIN Calls -> CallStates]
        BY QueueInvParts DEF CallsOK
    <2>3. \A d \in DOMAIN Calls : /\ call'[d].todo = call[d].todo
                                  /\ call'[d].at = "ok" => call[d].at = "ok"
        BY <2>1, <2>2 DEF CallStates
    <2>4. ASSUME NEW m \in Items(outbox') \cap Relays
          PROVE  m \in Items(outbox)
        BY <1>0, <2>1, OldInQueue DEF Relays
    <2>5. CallsStand
        BY <2>3, <2>4 DEF CallsStand
    <2>6. QED
        BY <2>1, <2>5 DEF Delivers, UnderWay
<1>4. CASE logout \/ SessionEnds \/ \E a \in Accounts : SignIn(a)
    <2>1. UNCHANGED <<author, call, stray, mailbox, processed, refusals>>
        BY <1>4 DEF logout, SessionEnds, SignIn, remote, observed
    <2>2. QED
        BY <1>0, <2>1, NothingDelivered
<1>5. QED
    BY <1>1, <1>2, <1>3, <1>4 DEF Person

LEMMA ReloadDelivers ==
    ASSUME QueueInv, Effect, NEW t \in Tabs, Reload(t)
    PROVE  Delivers
<1> DEFINE mine == {c \in DOMAIN Calls : ChatTab[c] = t /\ call[c].at \notin {"new", "done"}}
           sent == {Head(call[c].todo) :
                      c \in {d \in mine : call[d].at = "sent" /\ call[d].konto # NoOne}}
<1>1. /\ stray' = stray \cup sent \cup
                    (IF replay[t].at = "sent" THEN {replay[t].mutation} ELSE {})
      /\ call' = [c \in DOMAIN Calls |->
                    IF c \in mine THEN [call[c] EXCEPT !.at = "done", !.todo = <<>>] ELSE call[c]]
      /\ UNCHANGED <<outbox, mailbox, processed, refusals>>
    BY DEF Reload, storage, remote
<1>2. \A w \in stray' : UnderWay(w)
    BY <1>1 DEF UnderWay
<1>3. call \in [DOMAIN Calls -> CallStates]
    BY QueueInvParts DEF CallsOK
<1>4. ASSUME NEW c \in DOMAIN Calls
      PROVE  call'[c].todo = <<>> \/ call'[c] = call[c]
    BY <1>1, <1>3 DEF CallStates
<1>5. CallsStand
    BY <1>1, <1>4 DEF CallsStand
<1>6. QED
    BY <1>1, <1>2, <1>5 DEF Delivers

LEMMA ClientDelivers ==
    ASSUME QueueInv, Client
    PROVE  Delivers
<1>0. Effect
    BY StepEffect DEF Next
<1>1. ASSUME NEW t \in Tabs, Tick(t) \/ ReplayGoesOn(t) \/ LoadMerged(t)
      PROVE  Delivers
    <2>1. UNCHANGED <<author, call, stray, mailbox, processed, refusals>>
        BY <1>1 DEF Tick, ReplayGoesOn, LoadMerged, remote, observed
    <2>2. QED
        BY <1>0, <2>1, NothingDelivered
<1>2. CASE \E t \in Tabs : Reload(t)
    BY <1>0, <1>2, ReloadDelivers
<1>3. ASSUME NEW c \in DOMAIN Calls, SendGoesOn(c)
      PROVE  Delivers
    <2>1. /\ UNCHANGED <<stray, mailbox, processed, refusals>> /\ call[c].at = "ok"
        BY <1>3 DEF SendGoesOn, remote
    <2>2. call[c].todo \in Seq(Relays) /\ call[c].todo # <<>>
        BY <2>1, QueueInvParts DEF CallsOK, CallStates
    <2>3. PICK k \in 1..Len(call[c].todo) : Passes(c, 2, k, call[c].failed)
        BY <1>3, <2>2, SuccessPasses
    <2>4. k \in Nat /\ CallPasses(c, 2, k, call[c].failed)
        BY <2>1, <2>2, <2>3 DEF CallPasses
    <2>5. QED
        BY <2>1, <2>4 DEF Delivers, UnderWay
<1>4. CASE \/ \E e \in Entries, action \in {"created", "deleted"} : EventArrives(e, action)
           \/ \E e \in Entries : EventDecrypted(e)
           \/ \E t \in Tabs : Redecrypted(t)
           \/ \E t \in Tabs, list \in DOMAIN Lists : Redecrypt(t, list)
    <2>1. UNCHANGED <<author, call, stray, mailbox, processed, refusals>>
        BY <1>4 DEF EventArrives, EventDecrypted, Redecrypt, Redecrypted, remote, observed
    <2>2. QED
        BY <1>0, <2>1, NothingDelivered
<1>5. QED
    BY <1>1, <1>2, <1>3, <1>4 DEF Client

LEMMA ReplayAnsweredDelivers ==
    ASSUME QueueInv, Effect, NEW t \in Tabs, ReplayAnswered(t)
    PROVE  Delivers
<1> DEFINE m == replay[t].mutation
<1>1. /\ replay[t].at = "sent" /\ m \in Mutations /\ replay[t].konto \in Accounts
      /\ RestOK /\ refusals \in [Mutations -> 0..MaxTries + 1]
    BY QueueInvParts DEF ReplayAnswered, CountsOK
<1>2. PICK end \in Ends :
        /\ Respond(m, replay[t].konto, end)
        /\ \/ UNCHANGED refusals
           \/ refusals' = [refusals EXCEPT ![m] = MaxTries + 1]
           \/ refusals' = [refusals EXCEPT ![m] = IF @ > MaxTries THEN @ ELSE @ + 1]
    BY DEF ReplayAnswered
<1>3. UNCHANGED <<call, stray, author>>
    BY DEF ReplayAnswered, observed
<1>4. Carried(m) /\ UnderWay(m)
    BY <1>1, <1>2, RespondEffect DEF RestOK, UnderWay
<1>5. ASSUME NEW w \in Mutations, refusals[w] > MaxTries
      PROVE  refusals'[w] > MaxTries
    <2>1. MaxTries \in Nat
        BY OfflineAssumption
    <2>2. QED
        BY <1>1, <1>2, <1>5, <2>1
<1>6. \A w \in stray' : UnderWay(w)
    BY <1>3 DEF UnderWay
<1>7. CallsStand
    BY <1>3, NoEnvelopeQueued
<1>8. QED
    BY <1>1, <1>4, <1>5, <1>6, <1>7 DEF Delivers

LEMMA RelayAnsweredDelivers ==
    ASSUME QueueInv, Effect, NEW c \in DOMAIN Calls, RelayAnswered(c)
    PROVE  Delivers
<1> DEFINE todo == call[c].todo
           m == Head(todo)
<1>1. /\ call \in [DOMAIN Calls -> CallStates] /\ call[c].at = "sent"
      /\ todo \in Seq(Relays) /\ todo # <<>>
      /\ call[c].konto \in Accounts \cup {NoOne} /\ konto \in Accounts \cup {NoOne}
    BY QueueInvParts DEF RelayAnswered, CallsOK, CallStates, RestOK
<1>2. m \in Relays /\ m \in Mutations
    BY <1>1 DEF Relays
<1>3. PICK end \in Ends :
          /\ Respond(m, call[c].konto, end)
          /\ \/ /\ end = "ok" /\ call' = [call EXCEPT ![c].at = "ok"]
                /\ UNCHANGED <<outbox, author>>
             \/ end # "ok" /\ RelayFailed(c)
    BY DEF RelayAnswered
<1>4. UNCHANGED <<stray, refusals>>
    BY DEF RelayAnswered
<1>5. Carried(m) /\ (end = "ok" => m \in processed')
    BY <1>1, <1>2, <1>3, RespondEffect, QueueInvParts DEF RestOK
<1>6. UnderWay(m) /\ \A w \in stray' : UnderWay(w)
    BY <1>1, <1>4 DEF UnderWay
<1>7. \A w \in Mutations : refusals[w] > MaxTries => refusals'[w] > MaxTries
    BY <1>4
<1>8. CASE end = "ok"
    <2>1. call' = [call EXCEPT ![c].at = "ok"] /\ UNCHANGED outbox
        BY <1>3, <1>8
    <2>2. \A d \in DOMAIN Calls : /\ call'[d].todo = call[d].todo
                                  /\ d # c => call'[d].at = call[d].at
        BY <1>1, <2>1 DEF CallStates
    <2>3. CallsStand
        BY <1>5, <1>8, <2>1, <2>2 DEF CallsStand
    <2>4. QED
        BY <1>2, <1>5, <1>6, <1>7, <2>3 DEF Delivers
<1>9. CASE end # "ok"
    <2>1. PICK k \in 1..Len(todo) : Passes(c, 1, k, call[c].failed \cup {Entry[m]})
        BY <1>1, <1>3, <1>9, FailedPasses
    <2>2. k \in Nat /\ CallPasses(c, 1, k, call[c].failed \cup {Entry[m]})
        BY <1>1, <2>1 DEF CallPasses
    <2>3. QED
        BY <1>2, <1>5, <1>6, <1>7, <2>2 DEF Delivers
<1>10. QED
    BY <1>8, <1>9

LEMMA WorldDelivers ==
    ASSUME QueueInv, World
    PROVE  Delivers
<1>0. Effect
    BY StepEffect DEF Next
<1>1. CASE \/ \E t \in Tabs, list \in DOMAIN Lists : LoadAnswered(t, list)
           \/ \E a \in Accounts, e \in Entries : OtherDevice(a, e)
           \/ \E e \in Entries, action \in {"created", "deleted"} : EventLost(e, action)
    <2>1. UNCHANGED <<author, call, stray, mailbox, processed, refusals>>
        BY <1>1 DEF LoadAnswered, OtherDevice, EventLost, remote, observed
    <2>2. QED
        BY <1>0, <2>1, NothingDelivered
<1>2. ASSUME NEW m \in Mutations, StrayArrives(m) \/ StrayLost(m)
      PROVE  Delivers
    <2>1. /\ m \in stray /\ stray' \subseteq stray /\ UNCHANGED <<author, call, refusals>>
        BY <1>2 DEF StrayArrives, StrayLost, observed
    <2>2. UNCHANGED <<mailbox, processed>> \/ Carried(m)
        <3>1. CASE StrayLost(m)
            BY <3>1 DEF StrayLost, remote
        <3>2. CASE StrayArrives(m)
            <4>1. author[m] \in Accounts \cup {NoOne} /\ RemoteOK
                BY QueueInvParts DEF RestOK
            <4>2. QED
                BY <3>2, <4>1, CarryEffect DEF StrayArrives
        <3>3. QED
            BY <1>2, <3>1, <3>2
    <2>3. CallsStand
        BY <1>0, <2>1, NoEnvelopeQueued
    <2>4. UnderWay(m) /\ \A w \in stray' : UnderWay(w)
        BY <2>1 DEF UnderWay
    <2>5. QED
        BY <2>1, <2>2, <2>3, <2>4 DEF Delivers
<1>3. CASE \E t \in Tabs : ReplayAnswered(t)
    BY <1>0, <1>3, ReplayAnsweredDelivers
<1>4. CASE \E c \in DOMAIN Calls : RelayAnswered(c)
    BY <1>0, <1>4, RelayAnsweredDelivers
<1>5. QED
    BY <1>1, <1>2, <1>3, <1>4 DEF World

LEMMA StepDelivers ==
    ASSUME QueueInv, [Next]_vars
    PROVE  Delivers
<1>1. CASE UNCHANGED vars
    <2>1. Effect
        BY StepEffect
    <2>2. UNCHANGED <<author, call, stray, mailbox, processed, refusals>>
        BY <1>1 DEF vars, remote, observed
    <2>3. QED
        BY <2>1, <2>2, NothingDelivered
<1>2. QED
    BY <1>1, PersonDelivers, ClientDelivers, WorldDelivers DEF Next

\* An envelope is put at the end of the mailbox, unless it is there.
LEMMA RelayedUnique ==
    ASSUME NEW w \in Relays, mailbox \in Seq(Relays), Unique(mailbox)
    PROVE  Unique(Relayed(w))
<1>1. CASE w \in Items(mailbox)
    BY <1>1 DEF Relayed
<1>2. CASE w \notin Items(mailbox)
    <2>1. Relayed(w) = mailbox \o <<w>>
        BY <1>2, AppendIsConcat DEF Relayed
    <2>2. <<w>> \in Seq(Relays) /\ Unique(<<w>>) /\ Items(<<w>>) = {w}
        BY DEF Unique, Items
    <2>3. QED
        BY <1>2, <2>1, <2>2, ConcatUnique
<1>3. QED
    BY <1>1, <1>2

\* The mailbox holds no envelope twice, however often it was sent (the client_uuid of
\* relay_blind_envelope).
THEOREM Stored == Spec => []MessageStoredOnce
<1>1. Init => Unique(mailbox)
    BY DEF Init, Unique
<1>2. ASSUME QueueInv, Unique(mailbox), [Next]_vars
      PROVE  Unique(mailbox)'
    <2>1. mailbox \in Seq(Relays)
        BY <1>2, QueueInvParts DEF RestOK, RemoteOK
    <2>2. mailbox' = mailbox \/ \E w \in Relays : mailbox' = Relayed(w)
        BY <1>2, StepDelivers DEF Delivers, Carried
    <2>3. QED
        BY <1>2, <2>1, <2>2, RelayedUnique
<1>3. Unique(mailbox) <=> MessageStoredOnce
    BY DEF Unique, MessageStoredOnce
<1>4. QED
    BY <1>1, <1>2, <1>3, Invariance, PTL DEF Spec

-----------------------------------------------------------------------------
(* The order of two elements of a queue.                                   *)

LEMMA OrderOfConcat ==
    ASSUME NEW S, NEW q \in Seq(S), NEW r \in Seq(S), NEW s, NEW m,
           InOrder(q, s, m) \/ InOrder(r, s, m) \/ (s \in Items(q) /\ m \in Items(r))
    PROVE  InOrder(q \o r, s, m)
<1> DEFINE z == q \o r
           n == Len(q)
<1>1. /\ n \in Nat /\ Len(r) \in Nat /\ DOMAIN z = 1..n + Len(r)
      /\ DOMAIN q = 1..n /\ DOMAIN r = 1..Len(r)
      /\ \A i \in 1..n : z[i] = q[i]
      /\ \A i \in 1..Len(r) : z[n + i] = r[i]
    BY ConcatProperties, LenProperties
<1> HIDE DEF z, n
<1>2. \A i \in DOMAIN q : i \in DOMAIN z /\ z[i] = q[i] /\ i \in Nat
    BY <1>1
<1>3. \A i \in DOMAIN r : n + i \in DOMAIN z /\ z[n + i] = r[i] /\ i \in Nat
    BY <1>1
<1>4. CASE InOrder(q, s, m)
    BY <1>2, <1>4 DEF InOrder, z
<1>5. CASE InOrder(r, s, m)
    <2>1. PICK i, j \in DOMAIN r : i < j /\ r[i] = s /\ r[j] = m
        BY <1>5 DEF InOrder
    <2>2. n + i < n + j
        BY <1>1, <1>3, <2>1
    <2>3. QED
        BY <1>3, <2>1, <2>2 DEF InOrder, z
<1>6. CASE s \in Items(q) /\ m \in Items(r)
    <2>1. PICK i \in DOMAIN q, j \in DOMAIN r : q[i] = s /\ r[j] = m
        BY <1>6 DEF Items
    <2>2. i < n + j
        BY <1>1, <2>1
    <2>3. QED
        BY <1>2, <1>3, <2>1, <2>2 DEF InOrder, z
<1>7. QED
    BY <1>4, <1>5, <1>6

LEMMA OrderOfWithout ==
    ASSUME NEW S, NEW q \in Seq(S), NEW gone, NEW s, NEW m,
           InOrder(q, s, m), s \notin gone, m \notin gone
    PROVE  InOrder(Without(q, gone), s, m)
<1>1. PICK p, r \in DOMAIN q : p < r /\ q[p] = s /\ q[r] = m
    BY DEF InOrder
<1>2. \E i, j \in DOMAIN Without(q, gone) :
         i < j /\ Without(q, gone)[i] = q[p] /\ Without(q, gone)[j] = q[r]
    BY <1>1, WithoutKeepsOrder
<1>3. QED
    BY <1>1, <1>2 DEF InOrder

LEMMA OrderOfTail ==
    ASSUME NEW S, NEW q \in Seq(S), q # <<>>, NEW s, NEW m, InOrder(q, s, m), s # Head(q)
    PROVE  InOrder(Tail(q), s, m)
<1>1. PICK p, r \in DOMAIN q : p < r /\ q[p] = s /\ q[r] = m
    BY DEF InOrder
<1> DEFINE n == Len(q)
           w == Tail(q)
<1>2. /\ n \in Nat /\ DOMAIN q = 1..n /\ DOMAIN w = 1..(n - 1)
      /\ \A i \in 1..(n - 1) : w[i] = q[i + 1]
      /\ Head(q) = q[1]
    BY HeadTailProperties, LenProperties
<1> HIDE DEF n, w
<1>3. p # 1
    BY <1>1, <1>2
<1>4. /\ p - 1 \in DOMAIN w /\ p - 1 + 1 = p /\ r - 1 \in DOMAIN w /\ r - 1 + 1 = r
      /\ p - 1 < r - 1
    BY <1>1, <1>2, <1>3
<1>5. w[p - 1] = s /\ w[r - 1] = m
    BY <1>1, <1>2, <1>4
<1>6. QED
    BY <1>4, <1>5 DEF InOrder, w

\* Nothing stands before the head.
LEMMA HeadIsFirst ==
    ASSUME NEW S, NEW q \in Seq(S), q # <<>>, Unique(q), NEW s, NEW m, InOrder(q, s, m)
    PROVE  m # Head(q)
<1>1. PICK p, r \in DOMAIN q : p < r /\ q[p] = s /\ q[r] = m
    BY DEF InOrder
<1>2. Head(q) = q[1] /\ 1 \in DOMAIN q /\ p \in Nat /\ r \in Nat /\ p >= 1
    <2>1. Len(q) \in Nat /\ DOMAIN q = 1..Len(q) /\ Len(q) # 0
        BY LenProperties, EmptySeq
    <2>2. QED
        BY <1>1, <2>1
<1>3. r # 1
    BY <1>1, <1>2
<1>4. QED
    BY <1>1, <1>2, <1>3 DEF Unique

-----------------------------------------------------------------------------
(* A set-up and the message that needs it.                                 *)

LEMMA MailboxGrows ==
    ASSUME QueueInv, Delivers
    PROVE  /\ mailbox \in Seq(Relays) /\ mailbox' \in Seq(Relays)
           /\ Items(mailbox) \subseteq Items(mailbox')
           /\ \A w \in Items(mailbox') : w \in Items(mailbox) \/ UnderWay(w)
           /\ \E z \in Seq(Relays) : mailbox' = mailbox \o z /\ Items(z) \cap Items(mailbox) = {}
<1>1. mailbox \in Seq(Relays)
    BY QueueInvParts DEF RestOK, RemoteOK
<1>2. CASE mailbox' = mailbox
    <2>1. <<>> \in Seq(Relays) /\ mailbox = mailbox \o <<>> /\ Items(<<>>) = {}
        BY <1>1, ConcatEmptySeq DEF Items
    <2>2. QED
        BY <1>1, <1>2, <2>1
<1>3. ASSUME NEW w \in Relays, UnderWay(w), mailbox' = Relayed(w), mailbox' # mailbox
      PROVE  /\ mailbox' \in Seq(Relays)
             /\ Items(mailbox) \subseteq Items(mailbox')
             /\ \A v \in Items(mailbox') : v \in Items(mailbox) \/ UnderWay(v)
             /\ mailbox' = mailbox \o <<w>> /\ Items(<<w>>) \cap Items(mailbox) = {}
             /\ <<w>> \in Seq(Relays)
    <2>1. w \notin Items(mailbox) /\ mailbox' = mailbox \o <<w>>
        BY <1>1, <1>3, AppendIsConcat DEF Relayed
    <2>2. Items(<<w>>) = {w}
        BY DEF Items
    <2>3. mailbox' \in Seq(Relays) /\ Items(mailbox') = Items(mailbox) \cup {w}
        BY <1>1, <1>3, RelayedStored
    <2>4. <<w>> \in Seq(Relays)
        OBVIOUS
    <2>5. QED
        BY <1>3, <2>1, <2>2, <2>3, <2>4
<1>4. \/ mailbox' = mailbox
      \/ \E w \in Relays : UnderWay(w) /\ mailbox' = Relayed(w)
    BY DEF Delivers, Carried
<1>5. CASE mailbox' # mailbox
    <2>1. PICK w \in Relays : UnderWay(w) /\ mailbox' = Relayed(w)
        BY <1>4, <1>5
    <2>2. QED
        BY <1>1, <1>3, <1>5, <2>1
<1>6. QED
    BY <1>2, <1>5

\* What does not hold a message back stays so.
LEMMA ClearStays ==
    ASSUME QueueInv, Effect, Delivers, NEW s \in Relays
    PROVE  /\ Clear(s) => Clear(s)'
           /\ Refused(s) \/ s \in retracted => Refused(s)' \/ s \in retracted'
<1>1. Items(mailbox) \subseteq Items(mailbox')
    BY MailboxGrows
<1>2. refusals[s] > MaxTries => refusals'[s] > MaxTries
    BY DEF Delivers, Relays
<1>3. retracted \subseteq retracted'
    BY DEF Effect, QueueMoves, Stays, Arrives, Leaves, TakenBack
<1>4. QED
    BY <1>1, <1>2, <1>3 DEF Clear, Refused

\* An envelope the server has carried out is in the mailbox.
LEMMA CarriedKept ==
    ASSUME QueueInv, Effect, Delivers, CarriedIsStored
    PROVE  CarriedIsStored'
<1>1. ASSUME NEW x \in processed' \cap Relays
      PROVE  x \in Items(mailbox')
    <2>1. CASE x \in processed
        BY <2>1, MailboxGrows DEF CarriedIsStored
    <2>2. CASE x \notin processed
        <3>1. PICK w \in Mutations : Carried(w)
            BY <2>2 DEF Delivers
        <3>2. QED
            BY <2>2, <3>1 DEF Carried
    <2>3. QED
        BY <2>1, <2>2
<1>2. ASSUME NEW c \in DOMAIN Calls, call'[c].at = "ok"
      PROVE  Head(call'[c].todo) \in processed'
    <2>1. call'[c].todo # <<>> /\ processed \subseteq processed'
        BY <1>2 DEF Effect, CallMoves, CallsOK
    <2>2. CASE CallsStand
        BY <1>2, <2>1, <2>2 DEF CallsStand, CarriedIsStored
    <2>3. ASSUME NEW d \in DOMAIN Calls, NEW first, NEW k, NEW failed,
                 CallPasses(d, first, k, failed)
          PROVE  Head(call'[c].todo) \in processed'
        <3>1. call \in [DOMAIN Calls -> CallStates]
            BY QueueInvParts DEF CallsOK
        <3>2. c # d /\ call'[c] = call[c]
            BY <1>2, <2>3, <3>1 DEF CallPasses, Passes, CallContinues
        <3>3. QED
            BY <1>2, <2>1, <3>2 DEF CarriedIsStored
    <2>4. QED
        BY <2>2, <2>3 DEF Delivers
<1>3. QED
    BY <1>1, <1>2 DEF CarriedIsStored

\* Two envelopes that stay in the queue stay in order, unless the first has left it
\* because it is clear.
LEMMA OrderKept ==
    ASSUME QueueInv, Effect, Delivers, CarriedIsStored', NEW s \in Relays, NEW m \in Relays,
           m \in Items(outbox'), Clear(s) \/ InOrder(outbox, s, m)
    PROVE  Clear(s)' \/ InOrder(outbox', s, m)
<1>1. CASE Clear(s)
    BY <1>1, ClearStays
<1>2. CASE InOrder(outbox, s, m)
    <2>1. outbox \in Seq(Mutations) /\ Unique(outbox)
        BY Queued
    <2>2. CASE Stays
        BY <1>2, <2>2 DEF Stays
    <2>3. ASSUME NEW new, Arrives(new)
          PROVE  InOrder(outbox', s, m)
        BY <1>2, <2>1, <2>3, OrderOfConcat DEF Arrives
    <2>4. CASE Leaves
        <3>1. outbox # <<>> /\ outbox' = Tail(outbox) /\ Head(outbox) \in Settled'
            BY <2>4 DEF Leaves
        <3>2. CASE s = Head(outbox)
            <4>1. s \in processed' \/ refusals'[s] > MaxTries
                BY <3>1, <3>2 DEF Settled, Refused
            <4>2. s \in processed' => s \in Items(mailbox')
                BY DEF CarriedIsStored
            <4>3. QED
                BY <4>1, <4>2 DEF Clear, Refused
        <3>3. CASE s # Head(outbox)
            BY <1>2, <2>1, <3>1, <3>3, OrderOfTail
        <3>4. QED
            BY <3>2, <3>3
    <2>5. ASSUME NEW gone, TakenBack(gone)
          PROVE  Clear(s)' \/ InOrder(outbox', s, m)
        <3>1. outbox' = Without(outbox, gone) /\ retracted' = retracted \cup gone
            BY <2>5 DEF TakenBack
        <3>2. m \notin gone
            BY <2>1, <3>1, WithoutItems
        <3>3. CASE s \in gone
            BY <3>1, <3>3 DEF Clear
        <3>4. CASE s \notin gone
            BY <1>2, <2>1, <3>1, <3>2, <3>4, OrderOfWithout
        <3>5. QED
            BY <3>3, <3>4
    <2>6. QED
        BY <2>2, <2>3, <2>4, <2>5 DEF Effect, QueueMoves
<1>3. QED
    BY <1>1, <1>2

\* A pair of envelopes of one call.
LEMMA PairTyped ==
    ASSUME NEW c \in DOMAIN Calls, NEW i \in DOMAIN Calls[c], NEW j \in DOMAIN Calls[c]
    PROVE  /\ Calls[c][i] \in Relays /\ Calls[c][j] \in Relays
           /\ Calls[c] \in Seq(Relays) /\ Len(Calls[c]) \in Nat
           /\ i \in 1..Len(Calls[c]) /\ j \in 1..Len(Calls[c]) /\ i \in Nat /\ j \in Nat
<1>1. Calls[c] \in Seq(Relays)
    BY OfflineAssumption
<1>2. QED
    BY <1>1, LenProperties

\* A message that is under way has nothing to wait for.
LEMMA UnderWayIsClear ==
    ASSUME QueueInv, NEW c \in DOMAIN Calls, NEW i \in DOMAIN Calls[c], NEW j \in DOMAIN Calls[c],
           i < j, PairInv(c, i, j), UnderWay(Calls[c][j])
    PROVE  Clear(Calls[c][i])
<1> DEFINE m == Calls[c][j]
<1>1. CASE m \in stray \/ \E t \in Tabs : replay[t].at = "sent" /\ replay[t].mutation = m
    BY <1>1 DEF PairInv
<1>2. ASSUME NEW d \in DOMAIN Calls, call[d].at = "sent", m = Head(call[d].todo)
      PROVE  Clear(Calls[c][i])
    <2>1. /\ call[d].todo \in Seq(Relays) /\ Len(call[d].todo) \in Nat
          /\ DOMAIN call[d].todo = 1..Len(call[d].todo) /\ Position(d) \in Nat
          /\ \A x \in DOMAIN call[d].todo : /\ Position(d) + x \in DOMAIN Calls[d]
                                            /\ call[d].todo[x] = Calls[d][Position(d) + x]
        BY TodoPlaces
    <2>2. call[d].todo # <<>>
        BY <1>2, QueueInvParts DEF CallsOK
    <2>3. 1 \in DOMAIN call[d].todo /\ Head(call[d].todo) = call[d].todo[1]
        BY <2>1, <2>2, EmptySeq
    <2>4. Position(d) + 1 \in DOMAIN Calls[d] /\ m = Calls[d][Position(d) + 1]
        BY <1>2, <2>1, <2>3
    <2> DEFINE p == Position(d) + 1
    <2>5. p \in DOMAIN Calls[d] /\ Calls[d][p] = Calls[c][j]
        BY <2>4
    <2> HIDE DEF p
    <2>6. c = d /\ j = p
        BY <2>5, IdentifiersAssumption
    <2>7. i \in Nat /\ j \in Nat
        BY PairTyped
    <2>8. i <= Position(c) /\ Position(c) < j
        BY <2>1, <2>6, <2>7 DEF p
    <2>9. QED
        BY <2>8 DEF PairInv
<1>3. QED
    BY <1>1, <1>2 DEF UnderWay

\* The mailbox takes a message only after its set-up.
LEMMA MailboxInOrder ==
    ASSUME QueueInv, Effect, Delivers,
           NEW c \in DOMAIN Calls, NEW i \in DOMAIN Calls[c], NEW j \in DOMAIN Calls[c],
           i < j, PairInv(c, i, j), Calls[c][j] \in Items(mailbox')
    PROVE  LET s == Calls[c][i]
           IN  Refused(s)' \/ s \in retracted' \/ InOrder(mailbox', s, Calls[c][j])
<1> DEFINE s == Calls[c][i]
           m == Calls[c][j]
<1>1. s \in Relays /\ m \in Relays
    BY PairTyped
<1>2. mailbox \in Seq(Relays)
    BY MailboxGrows
<1>3. PICK z \in Seq(Relays) : mailbox' = mailbox \o z /\ Items(z) \cap Items(mailbox) = {}
    BY MailboxGrows
<1>4. Refused(s) \/ s \in retracted => Refused(s)' \/ s \in retracted'
    BY <1>1, ClearStays
<1>5. CASE m \in Items(mailbox)
    <2>1. Refused(s) \/ s \in retracted \/ InOrder(mailbox, s, m)
        BY <1>5 DEF PairInv
    <2>2. InOrder(mailbox, s, m) => InOrder(mailbox', s, m)
        BY <1>2, <1>3, OrderOfConcat
    <2>3. QED
        BY <1>4, <2>1, <2>2
<1>6. CASE m \notin Items(mailbox)
    <2>1. UnderWay(m)
        BY <1>6, MailboxGrows
    <2>2. Clear(s)
        BY <2>1, UnderWayIsClear
    <2>3. m \in Items(z)
        BY <1>2, <1>3, <1>6, ConcatItems
    <2>4. s \in Items(mailbox) => InOrder(mailbox', s, m)
        BY <1>2, <1>3, <2>3, OrderOfConcat
    <2>5. QED
        BY <1>4, <2>2, <2>4 DEF Clear
<1>7. QED
    BY <1>5, <1>6

\* A call that passes envelopes takes a set-up along with its message, or it has been sent.
LEMMA PassedTogether ==
    ASSUME QueueInv, CarriedIsStored,
           NEW c \in DOMAIN Calls, NEW i \in DOMAIN Calls[c], NEW j \in DOMAIN Calls[c],
           Paired(c, i, j), PairInv(c, i, j),
           NEW first \in {1, 2}, NEW k \in Nat, NEW failed, CallPasses(c, first, k, failed)
    PROVE  /\ Position(c)' = Position(c) + k
           /\ i <= Position(c) + k /\ Position(c) + k < j => Clear(Calls[c][i])
           /\ Position(c) < j /\ j <= Position(c) + k =>
                 Clear(Calls[c][i]) \/ (Position(c) + first <= i)
<1> DEFINE todo == call[c].todo
           all == Calls[c]
           p == Position(c)
<1>1. /\ todo \in Seq(Relays) /\ Len(todo) \in Nat /\ DOMAIN todo = 1..Len(todo)
      /\ p \in Nat /\ Len(all) \in Nat /\ Len(all) = p + Len(todo)
      /\ \A x \in DOMAIN todo : p + x \in DOMAIN all /\ todo[x] = all[p + x]
    BY TodoPlaces
<1>2. /\ k \in 1..Len(todo)
      /\ \A x \in first..k : Entry[todo[x]] \in failed
      /\ k < Len(todo) => Entry[todo[k + 1]] \notin failed
      /\ CallContinues(c, SubSeq(todo, first, k), failed, SubSeq(todo, k + 1, Len(todo)))
      /\ first = 2 => call[c].at = "ok"
    BY DEF CallPasses, Passes
<1>3. i < j /\ Entry[all[i]] = Entry[all[j]]
    BY DEF Paired
<1>4. i \in 1..Len(all) /\ j \in 1..Len(all) /\ i \in Nat /\ j \in Nat
    BY PairTyped
<1>5. p' = p + k
    <2>1. call'[c].todo = SubSeq(todo, k + 1, Len(todo))
        <3>1. call \in [DOMAIN Calls -> CallStates]
            BY QueueInvParts DEF CallsOK
        <3>2. QED
            BY <1>2, <3>1 DEF CallContinues
    <2>2. Len(SubSeq(todo, k + 1, Len(todo))) = Len(todo) - k
        <3>1. todo \in Seq(Relays) /\ k \in 1..Len(todo) /\ Len(todo) \in Nat
            BY <1>1, <1>2
        <3> HIDE DEF todo
        <3>2. QED
            BY <3>1
    <2>3. p' = Len(all) - (Len(todo) - k)
        BY <2>1, <2>2 DEF Position
    <2>4. QED
        BY <1>1, <2>3
<1>6. i <= p /\ p < j => Clear(all[i])
    BY DEF PairInv
<1>7. ASSUME i = p + 1, first = 2
      PROVE  Clear(all[i])
    <2>1. call[c].at = "ok" /\ todo # <<>>
        BY <1>2, <1>7 DEF CallPasses
    <2>2. Head(todo) \in processed
        BY <2>1 DEF CarriedIsStored
    <2>3. 1 \in DOMAIN todo /\ Head(todo) = todo[1]
        BY <1>1, <2>1, EmptySeq
    <2>4. Head(todo) = all[i] /\ all[i] \in Relays
        BY <1>1, <1>7, <2>3, PairTyped
    <2>5. QED
        BY <2>2, <2>4 DEF CarriedIsStored, Clear
<1> HIDE DEF todo, all, p
<1>8. ASSUME i <= p + k, p + k < j
      PROVE  Clear(all[i])
    <2>1. CASE i <= p
        <3>1. p < j
            BY <1>1, <1>2, <1>4, <1>8
        <3>2. QED
            BY <1>6, <2>1, <3>1
    <2>2. CASE ~(i <= p)
        <3> DEFINE x == i - p
        <3>1. /\ x \in 1..k /\ x \in DOMAIN todo /\ k + 1 \in DOMAIN todo /\ k < Len(todo)
              /\ p + x = i /\ p + (k + 1) <= j /\ i < p + (k + 1)
            BY <1>1, <1>2, <1>4, <1>8, <2>2
        <3>2. /\ todo[x] = all[i] /\ todo[k + 1] = all[p + (k + 1)]
              /\ p + (k + 1) \in DOMAIN all
            BY <1>1, <3>1
        <3> HIDE DEF x
        <3>3. Entry[all[p + (k + 1)]] = Entry[all[i]]
            <4> DEFINE y == p + (k + 1)
            <4>1. CASE y = j
                BY <1>3, <4>1
            <4>2. CASE y # j
                <5>1. y < j /\ i < y /\ y \in DOMAIN all
                    BY <1>1, <1>2, <1>4, <3>1, <3>2, <4>2
                <5> HIDE DEF y
                <5>2. QED
                    BY <1>3, <5>1, IdentifiersAssumption DEF all, y
            <4>3. QED
                BY <4>1, <4>2
        <3>4. Entry[todo[x]] \notin failed
            BY <1>2, <3>1, <3>2, <3>3
        <3>5. x \notin first..k
            BY <1>2, <3>4
        <3>6. i = p + 1 /\ first = 2
            BY <1>1, <1>4, <3>1, <3>5
        <3>7. QED
            BY <1>7, <3>6
    <2>3. QED
        BY <2>1, <2>2
<1>9. ASSUME p < j, j <= p + k, ~(p + first <= i)
      PROVE  Clear(all[i])
    <2>1. i <= p \/ (i = p + 1 /\ first = 2)
        BY <1>1, <1>4, <1>9
    <2>2. QED
        BY <1>6, <1>7, <1>9, <2>1
<1>10. QED
    BY <1>5, <1>8, <1>9 DEF all, p

\* The message of a pair enters the queue behind its set-up.
LEMMA QueueInOrder ==
    ASSUME QueueInv, Effect, Delivers, CarriedIsStored, CarriedIsStored',
           NEW c \in DOMAIN Calls, NEW i \in DOMAIN Calls[c], NEW j \in DOMAIN Calls[c],
           Paired(c, i, j), PairInv(c, i, j), Calls[c][j] \in Items(outbox')
    PROVE  Clear(Calls[c][i])' \/ InOrder(outbox', Calls[c][i], Calls[c][j])
<1> DEFINE s == Calls[c][i]
           m == Calls[c][j]
<1>1. s \in Relays /\ m \in Relays
    BY PairTyped
<1>2. CASE m \in Items(outbox)
    <2>1. Clear(s) \/ InOrder(outbox, s, m)
        BY <1>2 DEF PairInv
    <2>2. QED
        BY <1>1, <2>1, OrderKept
<1>3. CASE m \notin Items(outbox)
    <2>1. ~CallsStand
        BY <1>1, <1>3 DEF CallsStand
    <2>2. PICK d \in DOMAIN Calls, first \in {1, 2}, k \in Nat :
             \E f : CallPasses(d, first, k, f)
        BY <2>1 DEF Delivers
    <2>3. PICK failed : CallPasses(d, first, k, failed)
        BY <2>2
    <2> DEFINE todo == call[d].todo
               new == SubSeq(todo, first, k)
               p == Position(d)
    <2>4. /\ todo \in Seq(Relays) /\ Len(todo) \in Nat /\ DOMAIN todo = 1..Len(todo)
          /\ p \in Nat /\ \A x \in DOMAIN todo : /\ p + x \in DOMAIN Calls[d]
                                                 /\ todo[x] = Calls[d][p + x]
        BY TodoPlaces
    <2>5. k \in 1..Len(todo) /\ CallContinues(d, new, failed, SubSeq(todo, k + 1, Len(todo)))
        BY <2>3 DEF CallPasses, Passes
    <2>6. outbox' = outbox \o new
        BY <1>3, <2>5 DEF CallContinues
    <2>7. /\ new \in Seq(Relays) /\ Len(new) = IF first <= k THEN k - first + 1 ELSE 0
          /\ \A x \in 1..Len(new) : new[x] = todo[first + x - 1]
          /\ DOMAIN new = 1..Len(new)
        BY <2>4, <2>5
    <2>8. outbox \in Seq(Mutations) /\ new \in Seq(Mutations)
        BY <2>7, Queued DEF Relays
    <2> HIDE DEF new, todo, p, m, s
    <2>9. m \in Items(new)
        <3>1. Items(outbox') = Items(outbox) \cup Items(new)
            BY <2>6, <2>8, ConcatItems
        <3>2. m \in Items(outbox')
            BY DEF m
        <3>3. QED
            BY <1>3, <3>1, <3>2
    <2>10. PICK x \in DOMAIN new : m = new[x]
        BY <2>9 DEF Items
    <2> DEFINE y == first + x - 1
    <2>11. y \in DOMAIN todo /\ m = todo[y] /\ y \in 1..k /\ y \in Nat
        BY <2>4, <2>5, <2>7, <2>10
    <2> HIDE DEF y
    <2> DEFINE r == p + y
    <2>12. r \in DOMAIN Calls[d] /\ m = Calls[d][r]
        BY <2>4, <2>11
    <2> HIDE DEF r
    <2>13. c = d /\ j = r
        BY <2>12, IdentifiersAssumption DEF m
    <2>14. i \in Nat /\ j \in Nat /\ i < j
        BY PairTyped DEF Paired
    <2>15. p < j /\ j <= p + k
        BY <2>4, <2>11, <2>13 DEF r
    <2>16. Clear(s) \/ p + first <= i
        BY <2>3, <2>13, <2>15, PassedTogether DEF p, s
    <2>17. CASE Clear(s)
        BY <1>1, <2>17, ClearStays DEF s
    <2>18. CASE p + first <= i
        <3> DEFINE u == i - p
                   v == u - first + 1
        <3>1. /\ u \in DOMAIN todo /\ p + u = i /\ first <= u /\ u < y
            <4>1. i < p + y /\ p \in Nat /\ y \in 1..Len(todo)
                BY <2>4, <2>11, <2>13, <2>14 DEF r
            <4>2. QED
                BY <2>4, <2>14, <2>18, <4>1
        <3>2. v \in DOMAIN new /\ first + v - 1 = u /\ v < x
            <4>1. u \in Nat /\ x \in 1..Len(new) /\ first \in Nat /\ k \in Nat
                BY <2>4, <2>7, <2>10, <3>1
            <4>2. first <= u /\ u < first + x - 1
                BY <3>1 DEF y
            <4>3. Len(new) \in Nat /\ x \in Nat /\ x <= Len(new)
                BY <4>1, <2>7
            <4> HIDE DEF u
            <4>4. v \in Nat /\ 1 <= v /\ v < x /\ first + v - 1 = u
                BY <4>1, <4>2, <4>3
            <4>5. v \in 1..Len(new)
                BY <4>3, <4>4
            <4>6. QED
                BY <2>7, <4>4, <4>5
        <3>3. todo[u] = s
            BY <2>4, <2>13, <3>1 DEF s
        <3> HIDE DEF u
        <3>4. new[v] = s
            BY <2>7, <3>2, <3>3
        <3> HIDE DEF v
        <3>5. InOrder(new, s, m)
            BY <2>10, <3>2, <3>4 DEF InOrder
        <3>6. InOrder(outbox', s, m)
            BY <2>6, <2>8, <3>5, OrderOfConcat
        <3>7. QED
            BY <3>6 DEF s, m
    <2>19. QED
        BY <2>16, <2>17, <2>18
<1>4. QED
    BY <1>2, <1>3

\* A call does not stop between a set-up and its message with the set-up not sent.
LEMMA StopsClear ==
    ASSUME QueueInv, Effect, Delivers, CarriedIsStored,
           NEW c \in DOMAIN Calls, NEW i \in DOMAIN Calls[c], NEW j \in DOMAIN Calls[c],
           Paired(c, i, j), PairInv(c, i, j), i <= Position(c)', Position(c)' < j
    PROVE  Clear(Calls[c][i])'
<1>1. Calls[c][i] \in Relays /\ Len(Calls[c]) \in Nat /\ j \in 1..Len(Calls[c])
    BY PairTyped
<1>2. CASE call'[c].todo = call[c].todo
    <2>1. Position(c)' = Position(c)
        BY <1>2 DEF Position
    <2>2. Clear(Calls[c][i])
        BY <2>1 DEF PairInv
    <2>3. QED
        BY <1>1, <2>2, ClearStays
<1>3. CASE call'[c].todo = <<>>
    <2>1. Position(c)' = Len(Calls[c])
        BY <1>1, <1>3 DEF Position
    <2>2. QED
        BY <1>1, <2>1
<1>4. ASSUME NEW d \in DOMAIN Calls, NEW first \in {1, 2}, NEW k \in Nat, NEW failed,
             CallPasses(d, first, k, failed)
      PROVE  Clear(Calls[c][i])'
    <2>1. CASE d = c
        <3>1. Clear(Calls[c][i])
            BY <1>4, <2>1, PassedTogether
        <3>2. QED
            BY <1>1, <3>1, ClearStays
    <2>2. CASE d # c
        <3>1. call \in [DOMAIN Calls -> CallStates]
            BY QueueInvParts DEF CallsOK
        <3>2. call'[c] = call[c]
            BY <1>4, <2>2, <3>1 DEF CallPasses, Passes, CallContinues
        <3>3. QED
            BY <1>2, <3>2
    <2>3. QED
        BY <2>1, <2>2
<1>5. QED
    BY <1>2, <1>3, <1>4 DEF Delivers, CallsStand

LEMMA PairKept ==
    ASSUME QueueInv, Effect, Delivers, CarriedIsStored, CarriedIsStored', QueueInv',
           NEW c \in DOMAIN Calls, NEW i \in DOMAIN Calls[c], NEW j \in DOMAIN Calls[c],
           Paired(c, i, j), PairInv(c, i, j)
    PROVE  PairInv(c, i, j)'
<1> DEFINE s == Calls[c][i]
           m == Calls[c][j]
<1>1. s \in Relays /\ m \in Relays /\ i < j
    BY PairTyped DEF Paired
<1>2. m \in Items(mailbox') =>
         Refused(s)' \/ s \in retracted' \/ InOrder(mailbox', s, m)
    BY <1>1, MailboxInOrder
<1>3. UnderWay(m) => Clear(s)'
    BY <1>1, UnderWayIsClear, ClearStays
<1>4. m \in stray' => Clear(s)'
    BY <1>3 DEF Delivers
<1>5. m \in Items(outbox') => Clear(s)' \/ InOrder(outbox', s, m)
    BY QueueInOrder
<1>6. ASSUME NEW t \in Tabs, replay'[t].at = "sent", replay'[t].mutation = m
      PROVE  Clear(s)'
    <2>1. CASE replay'[t] = replay[t]
        BY <1>3, <1>6, <2>1 DEF UnderWay
    <2>2. CASE outbox' # <<>> /\ m = Head(outbox')
        <3>1. outbox' \in Seq(Mutations) /\ Unique(outbox')
            BY DEF QueueInv, TypeInv, TypeOK, Owned
        <3>2. m \in Items(outbox')
            <4>1. 1 \in DOMAIN outbox' /\ m = outbox'[1]
                BY <2>2, <3>1, EmptySeq
            <4>2. QED
                BY <4>1 DEF Items
        <3>3. ~InOrder(outbox', s, m)
            BY <2>2, <3>1, HeadIsFirst
        <3>4. QED
            BY <1>5, <3>2, <3>3
    <2>3. QED
        BY <1>6, <2>1, <2>2, QueueInvParts DEF Effect, ReplayMoves, Idle, Replays
<1>7. i <= Position(c)' /\ Position(c)' < j => Clear(s)'
    BY StopsClear
<1>8. QED
    BY <1>2, <1>4, <1>5, <1>6, <1>7 DEF PairInv

LEMMA InitPairs ==
    ASSUME Init
    PROVE  PairsInv
<1>1. Items(mailbox) = {} /\ Items(outbox) = {}
    BY DEF Init, Items
<1>2. CarriedIsStored
    BY DEF Init, CarriedIsStored
<1>3. ASSUME NEW c \in DOMAIN Calls, NEW i \in DOMAIN Calls[c], NEW j \in DOMAIN Calls[c]
      PROVE  PairInv(c, i, j)
    <2>1. call[c].todo = Calls[c]
        BY DEF Init
    <2>2. Len(Calls[c]) \in Nat /\ i \in Nat /\ i >= 1
        BY PairTyped
    <2>3. ~(i <= Position(c))
        BY <2>1, <2>2 DEF Position
    <2>4. QED
        BY <1>1, <2>3 DEF PairInv, Init, Idle
<1>4. QED
    BY <1>2, <1>3 DEF PairsInv

LEMMA PairsKept ==
    ASSUME QueueInv, PairsInv, [Next]_vars
    PROVE  PairsInv'
<1>1. Effect /\ Delivers /\ QueueInv'
    BY StepEffect, StepDelivers, EffectKeeps
<1>2. CarriedIsStored'
    BY <1>1, CarriedKept DEF PairsInv
<1>3. ASSUME NEW c \in DOMAIN Calls, NEW i \in DOMAIN Calls[c], NEW j \in DOMAIN Calls[c],
             Paired(c, i, j)
      PROVE  PairInv(c, i, j)'
    <2>1. PairInv(c, i, j) /\ CarriedIsStored
        BY <1>3 DEF PairsInv
    <2>2. QED
        BY <1>1, <1>2, <1>3, <2>1, PairKept
<1>4. QED
    BY <1>2, <1>3 DEF PairsInv, Paired

\* The set-up of a session is in the mailbox before the message that needs it, whichever
\* of them is sent directly, queued, replayed by another tab or left behind by a reload;
\* or the server refused the set-up for good, or it was taken back (the pairing rule of
\* the loop of stelleZu).
THEOREM SetupFirst == Spec => []SetupBeforeItsMessage
<1>1. Init => PairsInv
    BY InitPairs
<1>2. QueueInv /\ PairsInv /\ [Next]_vars => PairsInv'
    BY PairsKept
<1>3. PairsInv => SetupBeforeItsMessage
    BY DEF PairsInv, PairInv, Paired, InOrder, SetupBeforeItsMessage
<1>4. QED
    BY <1>1, <1>2, <1>3, Invariance, PTL DEF Spec

-----------------------------------------------------------------------------
(* An entry whose creation is queued.  Nobody hears of it before it was    *)
(* saved, so nobody deletes it before.                                     *)

\* Nothing is heard of that was not heard of.
Quiet ==
    /\ cache' \subseteq cache /\ decrypting' \subseteq decrypting /\ stream' \subseteq stream
    /\ \A a \in Accounts : server'[a] \subseteq server[a]
    /\ \A t \in Tabs : /\ load'[t].found \subseteq load[t].found
                      /\ redecrypt'[t].read \subseteq redecrypt[t].read
    /\ \A w \in Mutations \ Relays : author'[w] = author[w]

LEMMA QuietUnheard ==
    ASSUME Quiet, NEW e, Unheard(e)
    PROVE  Unheard(e)'
BY DEF Quiet, Unheard, Relays

LEMMA UnderWayAuthored ==
    ASSUME QueueInv, CreationsInv, NEW w \in Mutations \ Relays, UnderWay(w)
    PROVE  author[w] # NoOne
<1>1. CASE w \in stray
    BY <1>1 DEF CreationsInv
<1>2. ASSUME NEW t \in Tabs, replay[t].at = "sent", replay[t].mutation = w
      PROVE  author[w] # NoOne
    BY <1>2, QueueInvParts, OfflineAssumption DEF HeadsSent
<1>3. ASSUME NEW c \in DOMAIN Calls, call[c].at = "sent", w = Head(call[c].todo)
      PROVE  FALSE
    <2>1. call[c].todo \in Seq(Relays) /\ call[c].todo # <<>>
        BY <1>3, QueueInvParts DEF CallsOK, CallStates
    <2>2. QED
        BY <1>3, <2>1
<1>4. QED
    BY <1>1, <1>2, <1>3 DEF UnderWay

\* The loop of a call makes an author of envelopes only.
LEMMA PassesEnvelopes ==
    ASSUME QueueInv, NEW c \in DOMAIN Calls, RelayAnswered(c) \/ SendGoesOn(c)
    PROVE  \A w \in Mutations \ Relays : author'[w] = author[w]
<1>1. /\ call[c].todo \in Seq(Relays) /\ call[c].todo # <<>>
      /\ author \in [Mutations -> Accounts \cup {NoOne}]
    BY QueueInvParts DEF CallsOK, CallStates, RelayAnswered, SendGoesOn
<1>2. ASSUME NEW first \in {1, 2}, NEW k \in 1..Len(call[c].todo), NEW failed,
             Passes(c, first, k, failed)
      PROVE  \A w \in Mutations \ Relays : author'[w] = author[w]
    <2> DEFINE new == SubSeq(call[c].todo, first, k)
    <2>1. author' = [w \in Mutations |-> IF w \in Items(new) THEN konto' ELSE author[w]]
        BY <1>2 DEF Passes, CallContinues
    <2>2. new \in Seq(Relays)
        BY <1>1
    <2>3. Items(new) \subseteq Relays
        BY <2>2, ItemsTyped
    <2>4. QED
        BY <1>1, <2>1, <2>3
<1>3. CASE UNCHANGED author
    BY <1>3
<1>4. CASE SendGoesOn(c)
    BY <1>1, <1>2, <1>4, SuccessPasses
<1>5. CASE RelayFailed(c)
    BY <1>1, <1>2, <1>5, FailedPasses
<1>6. QED
    BY <1>3, <1>4, <1>5 DEF RelayAnswered

\* A request for another entry tells nobody of e.
LEMMA CarryUnheard ==
    ASSUME NEW w \in Mutations, NEW a \in Accounts \cup {NoOne}, RemoteOK, Carry(w, a),
           NEW e, Kind[w] = "create" => Entry[w] # e,
           \A b \in Accounts : e \notin server[b], <<e, "created">> \notin stream
    PROVE  (\A b \in Accounts : e \notin server'[b]) /\ <<e, "created">> \notin stream'
<1>1. Kind[w] \in {"create", "change", "delete", "relay"}
    BY OfflineAssumption
<1>2. CASE Kind[w] = "create"
    <2>1. Entry[w] # e /\ CreateEntry(a, Entry[w])
        BY <1>2 DEF Carry
    <2>2. QED
        BY <2>1 DEF CreateEntry, Published, RemoteOK
<1>3. CASE Kind[w] = "delete"
    <2>1. DeleteEntry(a, Entry[w])
        BY <1>3 DEF Carry
    <2>2. QED
        BY <2>1 DEF DeleteEntry, Published, RemoteOK
<1>4. CASE Kind[w] \in {"relay", "change"}
    BY <1>4 DEF Carry
<1>5. QED
    BY <1>1, <1>2, <1>3, <1>4

LEMMA RespondUnheard ==
    ASSUME NEW w \in Mutations, NEW a \in Accounts \cup {NoOne}, NEW end, RemoteOK,
           Respond(w, a, end),
           NEW e, Kind[w] = "create" => Entry[w] # e,
           \A b \in Accounts : e \notin server[b], <<e, "created">> \notin stream
    PROVE  (\A b \in Accounts : e \notin server'[b]) /\ <<e, "created">> \notin stream'
<1>1. CASE Carry(w, a)
    BY <1>1, CarryUnheard
<1>2. CASE UNCHANGED server /\ stream' \subseteq stream
    BY <1>2
<1>3. QED
    BY <1>1, <1>2 DEF Respond, Expire, remote

\* The steps that tell of nothing.
LEMMA QuietSteps ==
    ASSUME QueueInv,
           \/ UNCHANGED vars
           \/ \E t \in Tabs, w \in Mutations : SaveChange(t, w)
           \/ \E w \in Mutations : Discard(w) \/ StrayLost(w)
           \/ \E c \in DOMAIN Calls : SendStarts(c) \/ SendGoesOn(c)
           \/ logout \/ SessionEnds \/ \E a \in Accounts : SignIn(a)
           \/ \E t \in Tabs : Tick(t) \/ ReplayGoesOn(t) \/ Reload(t)
           \/ \E e \in Entries, action \in {"created", "deleted"} : EventLost(e, action)
    PROVE  Quiet \/ \E t \in Tabs, w \in Mutations : SaveChange(t, w)
<1>1. CASE \/ UNCHANGED vars
           \/ \E w \in Mutations : Discard(w) \/ StrayLost(w)
           \/ \E c \in DOMAIN Calls : SendStarts(c)
           \/ \E t \in Tabs : Tick(t) \/ ReplayGoesOn(t)
    BY <1>1 DEF Quiet, vars, decryptions, storage, remote, observed, Discard, StrayLost,
                SendStarts, Tick, ReplayGoesOn
<1>2. ASSUME NEW c \in DOMAIN Calls, SendGoesOn(c)
      PROVE  Quiet
    <2>1. UNCHANGED <<cache, decryptions, stream, server, load>>
        BY <1>2 DEF SendGoesOn, remote
    <2>2. QED
        BY <1>2, <2>1, PassesEnvelopes DEF Quiet, decryptions
<1>3. CASE logout \/ SessionEnds \/ \E a \in Accounts : SignIn(a)
    BY <1>3 DEF Quiet, storage, remote, observed, logout, SessionEnds, SignIn, Emptied, Expire,
                decryptions
<1>4. ASSUME NEW t \in Tabs, Reload(t)
      PROVE  Quiet
    <2>1. load \in [Tabs -> Loads] /\ redecrypt \in [Tabs -> Redecryptions]
        BY QueueInvParts DEF RestOK
    <2>2. /\ load' = [load EXCEPT ![t] = NoLoad]
          /\ redecrypt' = [redecrypt EXCEPT ![t] = NoRedecryption]
          /\ UNCHANGED <<cache, decrypting, stream, server, author>>
        BY <1>4 DEF Reload, storage, remote, observed
    <2>3. QED
        BY <2>1, <2>2 DEF Quiet, NoLoad, NoRedecryption
<1>5. CASE \E e \in Entries, action \in {"created", "deleted"} : EventLost(e, action)
    BY <1>5 DEF Quiet, storage, observed, EventLost, decryptions
<1>6. QED
    BY <1>1, <1>2, <1>3, <1>4, <1>5

LEMMA PersonUnheard ==
    ASSUME QueueInv, NEW e, Unheard(e), NEW t \in Tabs, NEW w \in Mutations,
           SaveNew(t, w) \/ SaveChange(t, w) \/ Delete(t, w), Kind[w] = "create" => Entry[w] # e
    PROVE  Unheard(e)'
<1>1. /\ UNCHANGED <<server, stream, decryptions, load>>
      /\ enqueueMutation(w) \/ UNCHANGED author
    BY DEF SaveNew, SaveChange, Delete, remote
<1>2. w \in Mutations \ Relays
    BY DEF SaveNew, SaveChange, Delete, Relays
<1>3. \A v \in Mutations : v # w => author'[v] = author[v]
    BY <1>1, <1>2, EnqueuesNoEnvelope
<1>4. Kind[w] = "delete" => Entry[w] # e
    BY DEF SaveNew, SaveChange, Delete, Unheard
<1>5. e \notin cache'
    BY DEF SaveNew, SaveChange, Delete, WriteCache, Unheard
<1>6. \A v \in Mutations : Kind[v] = "delete" /\ Entry[v] = e => author'[v] = NoOne
    BY <1>3, <1>4 DEF Unheard
<1>7. QED
    BY <1>1, <1>5, <1>6 DEF Unheard, decryptions

LEMMA ListsUnheard ==
    ASSUME QueueInv, NEW e, Unheard(e),
           \/ \E t \in Tabs, list \in DOMAIN Lists : LoadAnswered(t, list)
           \/ \E t \in Tabs : LoadMerged(t)
           \/ \E d \in Entries, action \in {"created", "deleted"} : EventArrives(d, action)
           \/ \E d \in Entries : EventDecrypted(d)
           \/ \E t \in Tabs : Redecrypted(t)
           \/ \E t \in Tabs, list \in DOMAIN Lists : Redecrypt(t, list)
    PROVE  Unheard(e)'
<1> USE DEF Unheard
<1>0. /\ load \in [Tabs -> Loads] /\ konto \in Accounts \cup {NoOne}
      /\ redecrypt \in [Tabs -> Redecryptions]
    BY QueueInvParts DEF RestOK
<1>1. ASSUME NEW t \in Tabs, NEW list \in DOMAIN Lists, LoadAnswered(t, list)
      PROVE  Unheard(e)'
    <2> DEFINE l == [at |-> "answered", list |-> list, found |-> server[konto] \cap Lists[list]]
    <2>1. /\ load' = [load EXCEPT ![t] = l] /\ konto \in Accounts
          /\ UNCHANGED <<cache, server, stream, decryptions, author>>
        BY <1>0, <1>1 DEF LoadAnswered, storage, remote, observed
    <2>2. e \notin l.found
        BY <2>1
    <2> HIDE DEF l
    <2>3. QED
        BY <1>0, <2>1, <2>2 DEF decryptions
<1>2. ASSUME NEW t \in Tabs, LoadMerged(t)
      PROVE  Unheard(e)'
    <2>1. /\ load' = [load EXCEPT ![t] = NoLoad]
          /\ UNCHANGED <<server, stream, decryptions, author>>
        BY <1>2 DEF LoadMerged, remote, observed
    <2>2. cache' \subseteq cache \cup load[t].found
        BY <1>2 DEF LoadMerged, WriteCache, mergeNotesWithServer, mergeCalendarWithServer
    <2>3. QED
        BY <1>0, <2>1, <2>2 DEF NoLoad, decryptions
<1>3. ASSUME NEW d \in Entries, NEW action \in {"created", "deleted"}, EventArrives(d, action)
      PROVE  Unheard(e)'
    <2>1. /\ <<d, action>> \in stream /\ stream' \subseteq stream
          /\ UNCHANGED <<server, load, redecrypt, author>>
          /\ cache' \subseteq cache \/ (action = "created" /\ cache' \subseteq cache \cup {d})
          /\ \/ decrypting' = decrypting
             \/ action = "created" /\ decrypting' = decrypting \cup {d}
        BY <1>3 DEF EventArrives, observed, WriteCache
    <2>2. QED
        BY <2>1
<1>4. ASSUME NEW d \in Entries, EventDecrypted(d)
      PROVE  Unheard(e)'
    BY <1>4 DEF EventDecrypted, remote, observed, WriteCache
<1>5. ASSUME NEW list \in DOMAIN Lists
      PROVE  e \notin Reading(list).read
    BY DEF Reading
<1>6. ASSUME NEW t \in Tabs, NEW list \in DOMAIN Lists, Redecrypt(t, list)
      PROVE  Unheard(e)'
    <2>1. /\ redecrypt' = [redecrypt EXCEPT ![t] = Reading(list)]
          /\ UNCHANGED <<cache, server, stream, decrypting, load, author>>
        BY <1>6 DEF Redecrypt, storage, remote, observed
    <2>2. QED
        BY <1>0, <1>5, <2>1
<1>7. ASSUME NEW t \in Tabs, Redecrypted(t)
      PROVE  Unheard(e)'
    <2>1. /\ \/ redecrypt' = [redecrypt EXCEPT ![t] = NoRedecryption]
             \/ redecrypt' = [redecrypt EXCEPT ![t] = Reading("events")]
          /\ cache' \subseteq cache \cup redecrypt[t].read
          /\ UNCHANGED <<server, stream, decrypting, load, author>>
        BY <1>7 DEF Redecrypted, WriteCache, remote, observed
    <2>2. e \notin Reading("events").read /\ e \notin NoRedecryption.read
        BY <1>5 DEF Lists, NoRedecryption
    <2>3. \A u \in Tabs : e \notin redecrypt'[u].read
        BY <1>0, <2>1, <2>2
    <2>4. QED
        BY <2>1, <2>3
<1>8. QED
    BY <1>1, <1>2, <1>3, <1>4, <1>6, <1>7

LEMMA WorldUnheard ==
    ASSUME QueueInv, NEW e, Unheard(e),
           \A w \in Mutations : UnderWay(w) /\ Kind[w] = "create" => Entry[w] # e,
           NEW m \in Mutations, Kind[m] = "create", Entry[m] = e,
           \/ \E t \in Tabs : ReplayAnswered(t)
           \/ \E c \in DOMAIN Calls : RelayAnswered(c)
           \/ \E w \in Mutations : StrayArrives(w)
           \/ \E a \in Accounts, d \in Entries : OtherDevice(a, d)
    PROVE  Unheard(e)'
<1>0. /\ RemoteOK /\ \A b \in Accounts : e \notin server[b]
      /\ <<e, "created">> \notin stream
      /\ author \in [Mutations -> Accounts \cup {NoOne}]
    BY QueueInvParts DEF RestOK, Unheard
<1>1. ASSUME (\A b \in Accounts : e \notin server'[b]) /\ <<e, "created">> \notin stream',
             UNCHANGED <<cache, decryptions, load>>,
             \A w \in Mutations \ Relays : author'[w] = author[w]
      PROVE  Unheard(e)'
    BY <1>1 DEF Unheard, Relays, decryptions
<1>2. ASSUME NEW t \in Tabs, ReplayAnswered(t)
      PROVE  Unheard(e)'
    <2>1. /\ replay[t].at = "sent" /\ UNCHANGED <<cache, decryptions, load, author>>
          /\ \E end \in Ends : Respond(replay[t].mutation, replay[t].konto, end)
        BY <1>2 DEF ReplayAnswered, observed
    <2>2. replay[t].mutation \in Mutations /\ replay[t].konto \in Accounts
        BY <2>1, QueueInvParts
    <2>3. UnderWay(replay[t].mutation)
        BY <2>1 DEF UnderWay
    <2>4. (\A b \in Accounts : e \notin server'[b]) /\ <<e, "created">> \notin stream'
        BY <1>0, <2>1, <2>2, <2>3, RespondUnheard
    <2>5. QED
        BY <1>1, <2>1, <2>4
<1>3. ASSUME NEW c \in DOMAIN Calls, RelayAnswered(c)
      PROVE  Unheard(e)'
    <2>1. /\ call[c].at = "sent" /\ UNCHANGED <<cache, decryptions, load>>
          /\ \E end \in Ends : Respond(Head(call[c].todo), call[c].konto, end)
        BY <1>3 DEF RelayAnswered
    <2>2. /\ call[c].konto \in Accounts \cup {NoOne}
          /\ call[c].todo \in Seq(Relays) /\ call[c].todo # <<>>
        BY <2>1, QueueInvParts DEF CallsOK, CallStates
    <2>3. Head(call[c].todo) \in Mutations /\ UnderWay(Head(call[c].todo))
        BY <2>1, <2>2 DEF Relays, UnderWay
    <2>4. (\A b \in Accounts : e \notin server'[b]) /\ <<e, "created">> \notin stream'
        BY <1>0, <2>1, <2>2, <2>3, RespondUnheard
    <2>5. QED
        BY <1>1, <1>3, <2>1, <2>4, PassesEnvelopes
<1>4. ASSUME NEW w \in Mutations, StrayArrives(w)
      PROVE  Unheard(e)'
    <2>1. w \in stray /\ Carry(w, author[w]) /\ UNCHANGED <<cache, decryptions, load, author>>
        BY <1>4 DEF StrayArrives, storage, observed
    <2>2. UnderWay(w) /\ author[w] \in Accounts \cup {NoOne}
        BY <1>0, <2>1 DEF UnderWay
    <2>3. (\A b \in Accounts : e \notin server'[b]) /\ <<e, "created">> \notin stream'
        BY <1>0, <2>1, <2>2, CarryUnheard
    <2>4. QED
        BY <1>1, <2>1, <2>3
<1>5. ASSUME NEW a \in Accounts, NEW d \in Entries, OtherDevice(a, d)
      PROVE  Unheard(e)'
    <2>1. /\ UNCHANGED <<cache, decryptions, load, author>>
          /\ \/ DeleteEntry(a, d)
             \/ CreateEntry(a, d) /\ d # e
        BY <1>5 DEF OtherDevice, storage, observed
    <2>2. (\A b \in Accounts : e \notin server'[b]) /\ <<e, "created">> \notin stream'
        BY <1>0, <2>1 DEF DeleteEntry, CreateEntry, Published, RemoteOK
    <2>3. QED
        BY <1>1, <2>1, <2>2
<1>6. QED
    BY <1>2, <1>3, <1>4, <1>5

LEMMA UnheardKept ==
    ASSUME QueueInv, CreationsInv, [Next]_vars,
           NEW m \in Mutations, Kind[m] = "create", author'[m] = NoOne
    PROVE  Unheard(Entry[m])'
<1> SUFFICES ASSUME NEW e, e = Entry[m]
             PROVE  Unheard(e)'
    OBVIOUS
<1>1. author[m] = NoOne
    BY StepEffect, AuthoredStays DEF Effect
<1>2. Unheard(e)
    BY <1>1 DEF CreationsInv
<1>3. \A w \in Mutations : Kind[w] = "create" /\ Entry[w] = e => w = m
    BY IdentifiersAssumption
<1>4. \A w \in Mutations : UnderWay(w) /\ Kind[w] = "create" => Entry[w] # e
    BY <1>1, <1>3, UnderWayAuthored DEF Relays
<1>5. ASSUME NEW t \in Tabs, NEW w \in Mutations,
             SaveNew(t, w) \/ SaveChange(t, w) \/ Delete(t, w)
      PROVE  Unheard(e)'
    <2>1. SaveNew(t, w) => author'[w] # NoOne
        BY QueueInvParts DEF SaveNew, enqueueMutation
    <2>2. Kind[w] = "create" => SaveNew(t, w)
        BY <1>5 DEF SaveChange, Delete
    <2>3. Kind[w] = "create" => Entry[w] # e
        BY <1>3, <2>1, <2>2
    <2>4. QED
        BY <1>2, <1>5, <2>3, PersonUnheard
<1>6. CASE \/ UNCHANGED vars
           \/ \E w \in Mutations : Discard(w) \/ StrayLost(w)
           \/ \E c \in DOMAIN Calls : SendStarts(c) \/ SendGoesOn(c)
           \/ logout \/ SessionEnds \/ \E a \in Accounts : SignIn(a)
           \/ \E t \in Tabs : Tick(t) \/ ReplayGoesOn(t) \/ Reload(t)
           \/ \E d \in Entries, action \in {"created", "deleted"} : EventLost(d, action)
    <2>1. Quiet \/ \E t \in Tabs, w \in Mutations : SaveChange(t, w)
        BY <1>6, QuietSteps
    <2>2. QED
        BY <1>2, <1>5, <2>1, QuietUnheard
<1>7. CASE \/ \E t \in Tabs, list \in DOMAIN Lists : LoadAnswered(t, list)
           \/ \E t \in Tabs : LoadMerged(t)
           \/ \E d \in Entries, action \in {"created", "deleted"} : EventArrives(d, action)
           \/ \E d \in Entries : EventDecrypted(d)
           \/ \E t \in Tabs : Redecrypted(t)
           \/ \E t \in Tabs, list \in DOMAIN Lists : Redecrypt(t, list)
    BY <1>2, <1>7, ListsUnheard
<1>8. CASE \/ \E t \in Tabs : ReplayAnswered(t)
           \/ \E c \in DOMAIN Calls : RelayAnswered(c)
           \/ \E w \in Mutations : StrayArrives(w)
           \/ \E a \in Accounts, d \in Entries : OtherDevice(a, d)
    BY <1>2, <1>4, <1>8, WorldUnheard
<1>9. QED
    BY <1>5, <1>6, <1>7, <1>8 DEF Next, Person, Client, World

\* No creation waits together with the deletion of its entry.
NoQueuedConflict ==
    \A m, w \in Items(outbox) : Kind[m] = "create" /\ Kind[w] = "delete" => Entry[m] # Entry[w]

LEMMA StillShown ==
    ASSUME QueueInv, Effect, CreationsInv, \A w \in Mutations \ Relays : author'[w] = author[w],
           \A m \in Items(outbox) : Kind[m] = "create" /\ Entry[m] \in cache =>
              Entry[m] \in cache' \/ Overwritten(Entry[m])
    PROVE  CreationStays /\ NoQueuedConflict'
<1>1. Items(outbox') \subseteq Mutations
    BY OwnedKept, ItemsTyped
<1>2. \A m \in Items(outbox') : m \notin Relays => m \in Items(outbox)
    BY <1>1, OldInQueue
<1>3. \A m \in Items(outbox') : Kind[m] \in {"create", "delete"} => m \in Items(outbox)
    BY <1>2 DEF Relays
<1>4. QED
    BY <1>3 DEF CreationStays, NoQueuedConflict, CreationsInv

LEMMA SavedShown ==
    ASSUME QueueInv, Effect, CreationsInv, NEW t \in Tabs, NEW w \in Mutations,
           SaveNew(t, w) \/ SaveChange(t, w) \/ (Delete(t, w) /\ ~Pending({"create"}, Entry[w]))
    PROVE  CreationStays /\ NoQueuedConflict'
<1>1. w \in Mutations \ Relays /\ enqueueMutation(w) /\ konto # NoOne /\ author[w] = NoOne
    BY DEF SaveNew, SaveChange, Delete, Relays
<1>2. \A v \in Mutations : v # w => author'[v] = author[v]
    BY <1>1, EnqueuesNoEnvelope
<1>3. Items(outbox') \subseteq Mutations
    BY OwnedKept, ItemsTyped
<1>4. \A v \in Items(outbox') : v = w \/ v \in Items(outbox)
    BY <1>2, <1>3, OldInQueue
<1>6. NoQueuedConflict
    BY DEF CreationsInv, NoQueuedConflict
<1>7. CASE SaveNew(t, w)
    <2>1. Kind[w] = "create" /\ cache' = cache \cup {Entry[w]}
        BY <1>7 DEF SaveNew, WriteCache
    <2>2. Unheard(Entry[w])
        BY <1>1, <2>1 DEF CreationsInv
    <2>3. \A v \in Items(outbox) : author[v] # NoOne /\ v \in Mutations
        BY Queued, ItemsTyped
    <2>4. \A v \in Items(outbox) : Kind[v] = "delete" => Entry[v] # Entry[w]
        BY <2>2, <2>3 DEF Unheard
    <2>5. QED
        BY <1>4, <1>6, <2>1, <2>4 DEF CreationStays, NoQueuedConflict
<1>8. CASE SaveChange(t, w)
    <2>1. Kind[w] = "change" /\ cache' = cache
        BY <1>8 DEF SaveChange
    <2>2. QED
        BY <1>4, <1>6, <2>1 DEF CreationStays, NoQueuedConflict
<1>9. CASE Delete(t, w) /\ ~Pending({"create"}, Entry[w])
    <2>1. Kind[w] = "delete" /\ cache' = cache \ {Entry[w]}
        BY <1>9 DEF Delete, WriteCache
    <2>2. \A m \in Items(outbox) : Kind[m] = "create" => Entry[m] # Entry[w]
        BY <1>1, <1>9 DEF Pending, getOutbox
    <2>3. QED
        BY <1>4, <1>6, <2>1, <2>2 DEF CreationStays, NoQueuedConflict
<1>10. QED
    BY <1>7, <1>8, <1>9

LEMMA DroppedShown ==
    ASSUME QueueInv, CreationsInv, NEW t \in Tabs, NEW w \in Mutations,
           Delete(t, w), Pending({"create"}, Entry[w])
    PROVE  CreationStays /\ NoQueuedConflict'
<1> DEFINE about == {v \in Mutations : Entry[v] = Entry[w]}
<1>1. konto # NoOne /\ cache' = cache \ {Entry[w]} /\ outbox' = Without(outbox, about)
    BY DEF Delete, WriteCache
<1>2. outbox \in Seq(Mutations) /\ Items(outbox) \subseteq Mutations
    BY Queued, ItemsTyped
<1>3. Items(outbox') = Items(outbox) \ about
    BY <1>1, <1>2, WithoutItems
<1>4. \A m \in Items(outbox') : m \in Items(outbox) /\ Entry[m] # Entry[w]
    BY <1>2, <1>3
<1>5. QED
    BY <1>1, <1>4 DEF CreationStays, NoQueuedConflict, CreationsInv

\* Merging a list or an event leaves alone what has a creation in the queue.
LEMMA MergedShown ==
    ASSUME QueueInv, CreationsInv,
           \/ \E t \in Tabs : LoadMerged(t)
           \/ \E d \in Entries, action \in {"created", "deleted"} : EventArrives(d, action)
           \/ \E d \in Entries : EventDecrypted(d)
    PROVE  UNCHANGED <<outbox, author>>
           /\ \A m \in Items(outbox) : Kind[m] = "create" /\ Entry[m] \in cache =>
                 Entry[m] \in cache'
<1>1. UNCHANGED <<outbox, author>>
    BY DEF LoadMerged, EventArrives, EventDecrypted, observed
<1>2. cache \subseteq Entries
    BY QueueInvParts DEF RestOK
<1>3. ASSUME NEW m \in Items(outbox), Kind[m] = "create", Entry[m] \in cache
      PROVE  Entry[m] \in cache'
    <2> DEFINE e == Entry[m]
    <2>1. e \in cache /\ e \in Notes \cup Events
        BY <1>2, <1>3 DEF Entries
    <2>2. konto # NoOne => Pending(PendingAny, e) /\ ~Pending({"delete"}, e)
        BY <1>3 DEF Pending, PendingAny, getOutbox, CreationsInv
    <2>3. CASE konto = NoOne
        BY <2>1, <2>3 DEF LoadMerged, EventArrives, EventDecrypted, WriteCache
    <2>4. CASE konto # NoOne
        <3> HIDE DEF e
        <3>1. ASSUME NEW t \in Tabs, LoadMerged(t)
              PROVE  e \in cache'
            <4>1. e \in Notes =>
                     e \in mergeNotesWithServer(load[t].found)
                BY <2>1, <2>2, <2>4 DEF mergeNotesWithServer
            <4>2. e \in Events =>
                     e \in mergeCalendarWithServer(load[t].found)
                BY <2>1, <2>2, <2>4 DEF mergeCalendarWithServer
            <4>3. QED
                BY <2>1, <2>4, <3>1, <4>1, <4>2 DEF LoadMerged, WriteCache
        <3>2. ASSUME NEW d \in Entries, NEW action \in {"created", "deleted"},
                     EventArrives(d, action)
              PROVE  e \in cache'
            <4>1. cache' = cache \/ cache' = cache \cup {d}
                  \/ (cache' = cache \ {d} /\ ~Pending(PendingAny, d))
                BY <2>4, <3>2 DEF EventArrives, WriteCache
            <4>2. QED
                BY <2>1, <2>2, <2>4, <4>1
        <3>3. ASSUME NEW d \in Entries, EventDecrypted(d)
              PROVE  e \in cache'
            BY <2>1, <2>4, <3>3 DEF EventDecrypted, WriteCache
        <3>4. QED
            BY <3>1, <3>2, <3>3 DEF e
    <2>5. QED
        BY <2>3, <2>4
<1>4. QED
    BY <1>1, <1>3

\* A re-decryption takes from the cache only what it had not read.
LEMMA WrittenBack ==
    ASSUME QueueInv, NEW t \in Tabs, Redecrypted(t)
    PROVE  UNCHANGED <<outbox, author>>
           /\ \A e \in cache : e \in cache' \/ Overwritten(e)
<1>1. redecrypt \in [Tabs -> Redecryptions] /\ redecrypt[t].at # "idle"
    BY QueueInvParts DEF RestOK, Redecrypted
<1>2. redecrypt'[t].at # redecrypt[t].at
    BY <1>1 DEF Redecrypted, Reading, NoRedecryption
<1>3. \A e \in cache : e \in cache' \/ e \notin redecrypt[t].read
    BY DEF Redecrypted, WriteCache
<1>4. QED
    BY <1>1, <1>2, <1>3 DEF Redecrypted, Overwritten, observed

LEMMA ShownKept ==
    ASSUME QueueInv, CreationsInv, [Next]_vars
    PROVE  CreationStays /\ NoQueuedConflict'
<1>0. Effect
    BY StepEffect
<1>1. CASE UNCHANGED cache /\ \A w \in Mutations \ Relays : author'[w] = author[w]
    BY <1>0, <1>1, StillShown
<1>2. CASE outbox' = <<>>
    <2>1. Items(outbox') = {}
        BY <1>2 DEF Items
    <2>2. QED
        BY <2>1 DEF CreationStays, NoQueuedConflict
<1>3. CASE \/ UNCHANGED vars
           \/ \E w \in Mutations : Discard(w) \/ StrayLost(w) \/ StrayArrives(w)
           \/ \E c \in DOMAIN Calls : SendStarts(c)
           \/ \E t \in Tabs : Tick(t) \/ ReplayGoesOn(t) \/ Reload(t) \/ ReplayAnswered(t)
           \/ SessionEnds
           \/ \E t \in Tabs, list \in DOMAIN Lists : LoadAnswered(t, list) \/ Redecrypt(t, list)
           \/ \E a \in Accounts, d \in Entries : OtherDevice(a, d)
           \/ \E d \in Entries, action \in {"created", "deleted"} : EventLost(d, action)
    <2>1. UNCHANGED <<cache, author>>
        BY <1>3 DEF vars, storage, observed, Discard, StrayLost, StrayArrives, SendStarts, Tick,
                    ReplayGoesOn, Reload, ReplayAnswered, SessionEnds, LoadAnswered, Redecrypt,
                    OtherDevice, EventLost
    <2>2. QED
        BY <1>1, <2>1
<1>4. ASSUME NEW c \in DOMAIN Calls, RelayAnswered(c) \/ SendGoesOn(c)
      PROVE  CreationStays /\ NoQueuedConflict'
    <2>1. UNCHANGED cache
        BY <1>4 DEF RelayAnswered, SendGoesOn
    <2>2. QED
        BY <1>1, <1>4, <2>1, PassesEnvelopes
<1>5. CASE logout \/ \E a \in Accounts : SignIn(a)
    <2>1. outbox' = <<>> \/ UNCHANGED <<cache, author>>
        BY <1>5 DEF logout, SignIn, Emptied
    <2>2. QED
        BY <1>1, <1>2, <2>1
<1>6. ASSUME NEW t \in Tabs, NEW w \in Mutations,
             SaveNew(t, w) \/ SaveChange(t, w) \/ Delete(t, w)
      PROVE  CreationStays /\ NoQueuedConflict'
    BY <1>0, <1>6, SavedShown, DroppedShown
<1>7. CASE \/ \E t \in Tabs : LoadMerged(t)
           \/ \E d \in Entries, action \in {"created", "deleted"} : EventArrives(d, action)
           \/ \E d \in Entries : EventDecrypted(d)
    BY <1>0, <1>7, MergedShown, StillShown
<1>8. ASSUME NEW t \in Tabs, Redecrypted(t)
      PROVE  CreationStays /\ NoQueuedConflict'
    BY <1>0, <1>8, WrittenBack, StillShown
<1>9. QED
    BY <1>3, <1>4, <1>5, <1>6, <1>7, <1>8 DEF Next, Person, Client, World

LEMMA CreationsKept ==
    ASSUME QueueInv, CreationsInv, [Next]_vars
    PROVE  CreationsInv'
<1>1. \A m \in Mutations : Kind[m] = "create" /\ author'[m] = NoOne => Unheard(Entry[m])'
    BY UnheardKept
<1>2. ASSUME NEW m \in stray' \ Relays
      PROVE  author'[m] # NoOne
    <2>1. Effect /\ Delivers
        BY StepEffect, StepDelivers
    <2>2. m \in Mutations
        BY <2>1 DEF Effect, RestOK
    <2>3. UnderWay(m)
        BY <2>1 DEF Delivers
    <2>4. author[m] # NoOne
        BY <2>2, <2>3, UnderWayAuthored
    <2>5. QED
        BY <2>1, <2>2, <2>4, AuthoredStays DEF Effect
<1>3. NoQueuedConflict'
    BY ShownKept
<1>4. QED
    BY <1>1, <1>2, <1>3 DEF CreationsInv, NoQueuedConflict

\* A note or event is on the device as soon as its creation is queued, and leaves it with
\* its creation still queued in one step only, whatever lists and events are merged into
\* the cache and whoever signs out and in: the write-back of a re-decryption that read the
\* list before the entry was saved (mergeNotesWithServer, mergeCalendarWithServer,
\* handleIncomingSyncEvent, redecryptPendingOfflineNotesAndCalendar).
THEOREM CreationShown == Spec => QueuedCreationStays
<1>1. Init => CreationsInv
    <2> SUFFICES ASSUME Init
                 PROVE  CreationsInv
        OBVIOUS
    <2>1. Items(outbox) = {}
        BY DEF Init, Items
    <2>2. \A e : Unheard(e)
        BY DEF Init, Unheard, NoLoad, NoRedecryption
    <2>3. QED
        BY <2>1, <2>2 DEF CreationsInv, Init
<1>2. QueueInv /\ CreationsInv /\ [Next]_vars => CreationsInv'
    BY CreationsKept
<1>3. QueueInv /\ CreationsInv /\ [Next]_vars => CreationStays
    BY ShownKept
<1>4. QED
    BY <1>1, <1>2, <1>3, Invariance, PTL DEF Spec, QueuedCreationStays

-----------------------------------------------------------------------------
(* The outbox implements the abstract queue.                               *)

Accepted == {m \in Mutations : author[m] # NoOne}

\* The abstract queue filters as the outbox does.
LEMMA SameItems ==
    \A q : Queue!Items(q) = Items(q) /\ (Queue!Unique(q) <=> Unique(q))
BY DEF Queue!Items, Items, Queue!Unique, Unique

LEMMA SameWithout ==
    ASSUME NEW q, NEW gone
    PROVE  Queue!Without(q, gone) = Without(q, gone)
<1>1. Queue!Kept(q, gone) = Kept(q, gone)
    BY DEF Queue!Kept, Kept
<1>2. ASSUME NEW places, NEW i
      PROVE  Queue!Rank(places, i) = Rank(places, i)
    BY DEF Queue!Rank, Rank, Queue!Cardinality, Cardinality
<1>3. ASSUME NEW places, NEW i
      PROVE  Queue!Nth(places, i) = Nth(places, i)
    BY <1>2 DEF Queue!Nth, Nth
<1>4. QED
    BY <1>1, <1>3 DEF Queue!Without, Without, Queue!Cardinality, Cardinality

LEMMA InitRefined ==
    ASSUME Init
    PROVE  Queue!Init
<1>1. MaxTries \in Nat
    BY OfflineAssumption
<1>2. QED
    BY <1>1 DEF Init, Queue!Init, Settled, Refused

LEMMA StepRefined ==
    ASSUME QueueInv, [Next]_vars
    PROVE  [Queue!Next]_(Queue!queueVars)
<1>1. QueueMoves /\ outbox \in Seq(Mutations) /\ Unique(outbox)
      /\ author \in [Mutations -> Accounts \cup {NoOne}]
    BY StepEffect, Queued, QueueInvParts DEF Effect
<1>2. CASE Stays
    <2>1. UNCHANGED <<outbox, author, retracted>>
        BY <1>2 DEF Stays
    <2>2. Accepted' = Accepted
        BY <2>1 DEF Accepted
    <2>3. CASE UNCHANGED Settled
        BY <2>1, <2>2, <2>3 DEF Queue!queueVars, Accepted
    <2>4. ASSUME NEW m \in Mutations, Settled' = Settled \cup {m}
          PROVE  Queue!Settle(m)
        BY <2>1, <2>2, <2>4 DEF Queue!Settle, Accepted
    <2>5. QED
        BY <1>2, <2>3, <2>4 DEF Stays, SettlesAtMost, Queue!Next
<1>3. ASSUME NEW new, Arrives(new)
      PROVE  Queue!Accept
    <2>1. /\ konto \in Accounts /\ konto # NoOne /\ UNCHANGED retracted
          /\ new \in Seq(Mutations) /\ Unique(new) /\ new # <<>>
          /\ \A m \in Items(new) : author[m] = NoOne
          /\ outbox' = outbox \o new
          /\ author' = [w \in Mutations |-> IF w \in Items(new) THEN konto ELSE author[w]]
          /\ Settled' \in {Settled, Settled \cup {Head(new)}}
        BY <1>3, OfflineAssumption DEF Arrives, SettlesAtMost
    <2>2. SubSeq(outbox', Len(outbox) + 1, Len(outbox')) = new
        <3>1. Len(outbox) \in Nat /\ Len(new) \in Nat
            BY <1>1, <2>1
        <3>2. QED
            BY <1>1, <2>1, <3>1
    <2>3. Items(new) \subseteq Mutations
        BY <2>1, ItemsTyped
    <2>4. Items(new) \subseteq Mutations \ Accepted
        BY <2>1, <2>3 DEF Accepted
    <2>5. Accepted' = Accepted \cup Items(new)
        BY <1>1, <2>1, <2>3 DEF Accepted
    <2>6. QED
        BY <2>1, <2>2, <2>4, <2>5, SameItems DEF Queue!Accept, Accepted
<1>4. CASE Leaves
    <2>1. /\ UNCHANGED <<author, retracted>> /\ outbox # <<>> /\ outbox' = Tail(outbox)
          /\ Head(outbox) \in Settled' /\ Settled' \in {Settled, Settled \cup {Head(outbox)}}
        BY <1>4 DEF Leaves, SettlesAtMost
    <2>2. Accepted' = Accepted
        BY <2>1 DEF Accepted
    <2>3. QED
        BY <2>1, <2>2 DEF Queue!Leave, Queue!Next, Accepted
<1>5. ASSUME NEW gone \in SUBSET Mutations, TakenBack(gone)
      PROVE  Queue!Retract(gone)
    <2>1. /\ outbox' = Without(outbox, gone) /\ retracted' = retracted \cup gone
          /\ UNCHANGED <<author, processed, refusals>>
        BY <1>5 DEF TakenBack
    <2>2. Accepted' = Accepted /\ Settled' = Settled
        BY <2>1 DEF Accepted, Settled, Refused
    <2>3. QED
        BY <2>1, <2>2, SameWithout DEF Queue!Retract, Accepted
<1>6. QED
    BY <1>1, <1>2, <1>3, <1>4, <1>5 DEF QueueMoves, Queue!Next

\* The outbox with all its tabs, lost answers, reloads and changes of account keeps the
\* promise of MutationQueue: nothing enqueued leaves unsettled, out of order or twice.
THEOREM Implements == Spec => QueuePromise
<1>1. Init => Queue!Init
    BY InitRefined
<1>2. QueueInv /\ [Next]_vars => [Queue!Next]_(Queue!queueVars)
    BY StepRefined
<1>3. QED
    BY <1>1, <1>2, Invariance, PTL DEF Spec, QueuePromise, Queue!Spec
=============================================================================
