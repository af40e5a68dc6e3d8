----------------------- MODULE DesiredStateSyncProofs -----------------------
(***************************************************************************)
(* Proofs about DesiredStateSync for any number of sessions that overlap,  *)
(* of intents, quarantines and faults: types, that a generation names one  *)
(* payload, and that a quarantine clear is not forgotten, as long as no    *)
(* session has written from a copy that another one had outdated.          *)
(*                                                                         *)
(* The argument: payloads and copies of the same generation say the same,  *)
(* and none is ahead of the row (Coherent).  The copy of the session that  *)
(* was the last to read or write the row is not behind any other copy or   *)
(* payload (Latest).  A session that writes is that one, or its copy is    *)
(* still the row; either way it counts to a generation that nobody knows.  *)
(***************************************************************************)
EXTENDS DesiredStateSync, TLAPS

\* The sessions that hold a copy of the row, and the copies.
Held == {w \in Workers : work[w].at # "idle"}
Copies == {work[w].row : w \in Held}

\* Every payload that was ever compiled and may still matter.
Known == {NoPayload, desired} \cup late \cup {work[w].payload : w \in Workers}

OnePerGeneration(known) == \A p, q \in known : p.gen = q.gen => p = q

Says(p, row) ==
    /\ p.power = row.power /\ p.suspension = row.suspension /\ p.control = row.control
    /\ p.config = row.hash

\* The columns in which rows of the same generation are equal; the first compilation
\* stores the hash in it.
Same(row, copy) ==
    /\ row.edit = copy.edit /\ row.power = copy.power
    /\ row.suspension = copy.suspension /\ row.control = copy.control

Covers(known, row) ==
    \A p \in known : p.gen <= row.gen /\ (p.gen = row.gen => Says(p, row))

Original(row, copy) ==
    /\ copy.gen <= row.gen
    /\ copy.gen = row.gen => Same(row, copy) /\ copy.hash \in {row.hash, NoHash}

Alike(a, b) ==
    a.gen = b.gen => Same(a, b) /\ (a.hash = b.hash \/ a.hash = NoHash \/ b.hash = NoHash)

Fits(p, copy) ==
    p.gen = copy.gen =>
        /\ p.power = copy.power /\ p.suspension = copy.suspension /\ p.control = copy.control
        /\ copy.hash \in {p.config, NoHash}

Coherent(known, copies, row) ==
    /\ OnePerGeneration(known)
    /\ Covers(known, row)
    /\ \A copy \in copies : Original(row, copy)
    /\ \A p \in known, copy \in copies : Fits(p, copy)
    /\ \A a, b \in copies : Alike(a, b)

\* Nobody knows a later generation than g.
UpTo(g, known, copies) == (\A p \in known : p.gen <= g) /\ (\A copy \in copies : copy.gen <= g)

\* What only power changes were written to since, if anything.
Latest(known, copies, row, copy) ==
    /\ UpTo(copy.gen, known, copies)
    /\ row.edit = copy.edit /\ row.hash = copy.hash
    /\ row.suspension = copy.suspension /\ row.control = copy.control

GenerationInv ==
    /\ Coherent(Known, Copies, db)
    /\ \A w \in Held : last = w => Latest(Known, Copies, db, work[w].row)
    /\ \A w \in Workers : work[w].answer # "conflict"

\* A clean report is about the quarantine the clear was asked for, or a later one came,
\* if the session may write on it.
ClearFits(w) ==
    /\ work[w].at = "observed" /\ work[w].clean /\ work[w].row.control # 0
    /\ ~Outdated(w)
    => runtime.quarantine = 0 \/ runtime.quarantine > meant

ClearInv ==
    /\ runtime.quarantine <= quarantines /\ meant <= quarantines
    /\ \A w \in Workers : ClearFits(w)

IInv == TypeOK /\ (raced \/ (GenerationInv /\ ClearInv))

-----------------------------------------------------------------------------
(* Types.                                                                  *)

\* The types of all but the observers of a race.
CoreTypes ==
    /\ db \in DbRows
    /\ db.gen # 0
    /\ blueprint \in Numbers
    /\ work \in [Workers -> Sessions]
    /\ late \subseteq Payloads
    /\ desired \in Payloads
    /\ runtime \in [quarantine: 0..MaxQuarantines, lastClear: Numbers]
    /\ intents \in Numbers
    /\ quarantines \in 0..MaxQuarantines
    /\ faults \in 0..MaxFaults
    /\ meant \in 0..MaxQuarantines
    /\ \A w \in Workers :
           /\ work[w].at = "idle" => work[w] = Ended(w)
           /\ work[w].at \in {"loaded", "compiled", "posted"} => work[w].answer = "none"
           /\ work[w].answer \in {"updated", "unchanged"} => desired.gen >= work[w].payload.gen

LEMMA ConstantsInRange ==
    MaxIntents \in Nat /\ MaxQuarantines \in Nat /\ MaxFaults \in Nat
BY SyncAssumption DEF SyncAssumption

LEMMA InitialRecords ==
    /\ NewRow \in DbRows /\ NoPayload \in Payloads /\ IdleSession \in Sessions
    /\ NoPayload.gen = 0 /\ NewRow.gen = 1
    /\ IdleSession.at = "idle" /\ IdleSession.answer = "none"
    /\ IdleSession.payload = NoPayload
<1>1. NewRow \in DbRows /\ NoPayload \in Payloads /\ NoPayload.gen = 0 /\ NewRow.gen = 1
  BY ConstantsInRange DEF NewRow, DbRows, NoPayload, Payloads, Numbers, Powers, Configs, NoHash
<1>2. IdleSession \in Sessions
  BY <1>1, ConstantsInRange DEF IdleSession, Sessions, Stages, Answers, Numbers
<1> QED  BY <1>1, <1>2 DEF IdleSession

\* The session w becomes s, and the others stay.
Becomes(w, s) ==
    /\ work' \in [Workers -> Sessions]
    /\ work'[w] = s /\ \A v \in Workers : v # w => work'[v] = work[v]

LEMMA BecomesFacts ==
    ASSUME work \in [Workers -> Sessions], NEW w \in Workers, NEW s \in Sessions,
           work' = [work EXCEPT ![w] = s]
    PROVE  Becomes(w, s)
BY DEF Becomes

\* A session between two requests is one that keeps its lease only.
LEMMA EndedFacts ==
    ASSUME TypeOK, NEW w \in Workers, NEW lease \in Numbers
    PROVE  /\ [IdleSession EXCEPT !.lease = lease] \in Sessions
           /\ [IdleSession EXCEPT !.lease = lease].at = "idle"
           /\ [IdleSession EXCEPT !.lease = lease].answer = "none"
           /\ [IdleSession EXCEPT !.lease = lease].payload = NoPayload
           /\ [IdleSession EXCEPT !.lease = lease].lease = lease
           /\ Ended(w) \in Sessions /\ Ended(w).at = "idle" /\ Ended(w).answer = "none"
           /\ Ended(w).payload = NoPayload /\ Ended(w).lease = work[w].lease
<1>1. work[w] \in Sessions
  BY DEF TypeOK
<1>2. work[w].lease \in Numbers
  BY <1>1 DEF Sessions
<1> QED  BY <1>2, InitialRecords DEF Ended, IdleSession, Sessions, Stages, Answers

\* The clause of the type invariant about a session.
SessionFits(v) ==
    /\ work[v].at = "idle" => work[v] = Ended(v)
    /\ work[v].at \in {"loaded", "compiled", "posted"} => work[v].answer = "none"
    /\ work[v].answer \in {"updated", "unchanged"} => desired.gen >= work[v].payload.gen

\* When one session moves to a place that fits, and what the agent has does not go back,
\* every session fits.
LEMMA SessionsFit ==
    ASSUME TypeOK, desired' \in Payloads, desired'.gen >= desired.gen,
           NEW w \in Workers, NEW s \in Sessions, work' = [work EXCEPT ![w] = s],
           s.at = "idle" => s = [IdleSession EXCEPT !.lease = s.lease],
           s.at \in {"loaded", "compiled", "posted"} => s.answer = "none",
           s.answer \in {"updated", "unchanged"} => desired'.gen >= s.payload.gen
    PROVE  work' \in [Workers -> Sessions] /\ \A v \in Workers : SessionFits(v)'
<1>1. Becomes(w, s)
  BY BecomesFacts DEF TypeOK
<1>2. SUFFICES ASSUME NEW v \in Workers PROVE SessionFits(v)'
  BY <1>1 DEF Becomes
<1>3. CASE v = w
  BY <1>1, <1>3 DEF Becomes, SessionFits, Ended
<1>4. CASE v # w
  <2>1. work[v] \in Sessions /\ SessionFits(v) /\ work'[v] = work[v]
    BY <1>1, <1>4 DEF TypeOK, SessionFits, Becomes
  <2>2. work[v].payload.gen \in Nat /\ desired.gen \in Nat /\ desired'.gen \in Nat
    BY <2>1 DEF Sessions, Payloads, TypeOK
  <2> QED  BY <2>1, <2>2 DEF SessionFits, Ended
<1> QED  BY <1>3, <1>4

\* The types of what is not a session.
RestTypes ==
    /\ db \in DbRows /\ db.gen # 0 /\ blueprint \in Numbers
    /\ late \subseteq Payloads /\ desired \in Payloads
    /\ runtime \in [quarantine: 0..MaxQuarantines, lastClear: Numbers]
    /\ intents \in Numbers /\ quarantines \in 0..MaxQuarantines
    /\ faults \in 0..MaxFaults /\ meant \in 0..MaxQuarantines

LEMMA TypeParts ==
    ASSUME RestTypes', work' \in [Workers -> Sessions], \A v \in Workers : SessionFits(v)'
    PROVE  CoreTypes'
BY DEF CoreTypes, RestTypes, SessionFits

\* Nothing of a session or of what the agent has changes.
LEMMA SessionsStay ==
    ASSUME TypeOK, UNCHANGED <<work, desired>>
    PROVE  work' \in [Workers -> Sessions] /\ \A v \in Workers : SessionFits(v)'
BY DEF TypeOK, SessionFits, Ended

LEMMA NumberedFacts ==
    ASSUME TypeOK, NEW n, Numbered(n)
    PROVE  n \in Numbers /\ n # 0 /\ intents' \in Numbers
BY ConstantsInRange DEF Numbered, TypeOK, Numbers

LEMMA RowFacts ==
    ASSUME TypeOK, NEW w \in Workers
    PROVE  /\ work[w] \in Sessions /\ work[w].row \in DbRows /\ work[w].payload \in Payloads
           /\ work[w].lease \in Numbers /\ Counted(w) \in Nat /\ Counted(w) # 0
           /\ Counted(w) = work[w].row.gen + 1 /\ work[w].row.gen \in Nat
<1>1. work[w] \in Sessions
  BY DEF TypeOK
<1>2. work[w].row \in DbRows /\ work[w].payload \in Payloads /\ work[w].lease \in Numbers
  BY <1>1 DEF Sessions
<1>3. work[w].row.gen \in Nat
  BY <1>2 DEF DbRows
<1> QED  BY <1>1, <1>2, <1>3 DEF Counted

\* A commit of a loaded row keeps the types if what it writes has them.
LEMMA CommitTypes ==
    ASSUME TypeOK, NEW w \in Workers, NEW row \in DbRows, row.gen # 0, NEW lease \in Numbers,
           Commits(w, row, lease), intents' \in Numbers, meant' \in 0..MaxQuarantines
    PROVE  CoreTypes'
<1>1. RestTypes'
  BY DEF Commits, TypeOK, RestTypes, agentVars
<1>2. work' \in [Workers -> Sessions] /\ \A v \in Workers : SessionFits(v)'
  <2> DEFINE s == [IdleSession EXCEPT !.lease = lease]
  <2>1. s \in Sessions /\ s.at = "idle" /\ s.answer = "none" /\ s.lease = lease
    BY EndedFacts
  <2>2. work' = [work EXCEPT ![w] = s] /\ desired' = desired
    BY DEF Commits, agentVars
  <2>3. desired' \in Payloads /\ desired'.gen >= desired.gen
    BY <2>2 DEF TypeOK, Payloads
  <2> HIDE DEF s
  <2>4. s = [IdleSession EXCEPT !.lease = s.lease]
    BY <2>1 DEF s
  <2> QED  BY <2>1, <2>2, <2>3, <2>4, SessionsFit
<1> QED  BY <1>1, <1>2, TypeParts

LEMMA IntentTypes ==
    ASSUME TypeOK, NEW w \in Workers, Intent(w)
    PROVE  CoreTypes'
<1>1. db \in DbRows /\ runtime.quarantine \in 0..MaxQuarantines /\ intents \in Numbers
      /\ meant \in 0..MaxQuarantines /\ 0 \in Numbers
  BY ConstantsInRange DEF TypeOK, Numbers
<1>2. CASE EditConfiguration(w)
  <2> DEFINE row(n) == [db EXCEPT !.edit = n, !.hash = NoHash, !.gen = Counted(w)]
  <2>1. PICK n : Numbered(n) /\ Commits(w, row(n), work[w].lease) /\ meant' = meant
    BY <1>2 DEF EditConfiguration
  <2>2. row(n) \in DbRows /\ row(n).gen # 0
    BY <1>1, <2>1, NumberedFacts, RowFacts DEF DbRows
  <2> HIDE DEF row
  <2> QED  BY <1>1, <2>1, <2>2, NumberedFacts, RowFacts, CommitTypes
<1>3. CASE SetRecoverySuspension(w)
  <2> DEFINE row(n) == [db EXCEPT !.suspension = n, !.gen = Counted(w)]
  <2>1. PICK n : Numbered(n) /\ Commits(w, row(n), n) /\ meant' = meant
    BY <1>3 DEF SetRecoverySuspension
  <2>2. row(n) \in DbRows /\ row(n).gen # 0
    BY <1>1, <2>1, NumberedFacts, RowFacts DEF DbRows
  <2> HIDE DEF row
  <2> QED  BY <1>1, <2>1, <2>2, NumberedFacts, CommitTypes
<1>4. CASE ClearRecoverySuspension(w)
  <2> DEFINE row == [db EXCEPT !.suspension = 0, !.gen = Counted(w)]
  <2>1. Commits(w, row, 0) /\ meant' = meant /\ intents' = intents
    BY <1>4 DEF ClearRecoverySuspension
  <2>2. row \in DbRows /\ row.gen # 0
    BY <1>1, RowFacts DEF DbRows
  <2> HIDE DEF row
  <2> QED  BY <1>1, <2>1, <2>2, CommitTypes
<1>5. CASE PrepareQuarantineClear(w)
  <2> DEFINE row(n) == [db EXCEPT !.control = n, !.gen = Counted(w)]
  <2>1. PICK n : /\ Numbered(n) /\ Commits(w, row(n), work[w].lease)
                 /\ meant' = runtime.quarantine
    BY <1>5 DEF PrepareQuarantineClear
  <2>2. row(n) \in DbRows /\ row(n).gen # 0
    BY <1>1, <2>1, NumberedFacts, RowFacts DEF DbRows
  <2> HIDE DEF row
  <2> QED  BY <1>1, <2>1, <2>2, NumberedFacts, RowFacts, CommitTypes
<1> QED  BY <1>2, <1>3, <1>4, <1>5 DEF Intent

\* What compiling leaves: fresh is the row the payload is made from.
Fresh(w) == IF work[w].row.hash = Effective(work[w].row) THEN work[w].row ELSE db'

LEMMA CompileFacts ==
    ASSUME TypeOK, NEW w \in Workers, Compile(w)
    PROVE  /\ db' \in DbRows /\ db'.gen # 0 /\ Fresh(w) \in DbRows
           /\ Payload(Fresh(w)) \in Payloads
           /\ work' = [work EXCEPT ![w] = [@ EXCEPT !.at = "compiled", !.row = Fresh(w),
                                                    !.payload = Payload(Fresh(w))]]
<1>1. db \in DbRows /\ db.gen # 0 /\ work[w].row \in DbRows /\ blueprint \in Numbers
  BY RowFacts DEF TypeOK
<1>2. Effective(work[w].row) \in Configs
  BY <1>1 DEF Effective, DbRows, Configs
<1>3. Hashed(work[w].row) \in DbRows /\ Hashed(work[w].row).gen # 0
  <2> DEFINE gen == IF work[w].row.hash = NoHash THEN db.gen ELSE db.gen + 1
  <2>1. gen \in Nat /\ gen # 0
    BY <1>1 DEF DbRows
  <2>2. Hashed(work[w].row) = [db EXCEPT !.hash = Effective(work[w].row), !.gen = gen]
    BY <1>1 DEF Hashed, DbRows
  <2> HIDE DEF gen
  <2> QED  BY <1>1, <1>2, <2>1, <2>2 DEF DbRows
<1>4. db' \in DbRows /\ db'.gen # 0
  BY <1>1, <1>3 DEF Compile
<1>5. Fresh(w) \in DbRows
  BY <1>1, <1>4 DEF Fresh
<1>6. Payload(Fresh(w)) \in Payloads
  BY <1>1, <1>5 DEF Payload, Effective, DbRows, Payloads, Configs
<1>7. work' = [work EXCEPT ![w] = [@ EXCEPT !.at = "compiled", !.row = Fresh(w),
                                            !.payload = Payload(Fresh(w))]]
  BY DEF Compile, Fresh
<1> QED  BY <1>4, <1>5, <1>6, <1>7

LEMMA AcceptFacts ==
    ASSUME TypeOK, NEW p \in Payloads, Accept(p)
    PROVE  /\ desired' \in Payloads /\ desired'.gen >= desired.gen /\ desired' \in {desired, p}
           /\ runtime' \in [quarantine: 0..MaxQuarantines, lastClear: Numbers]
           /\ runtime'.quarantine \in {runtime.quarantine, 0}
           /\ Answer(p) \in Answers
           /\ Answer(p) \in {"updated", "unchanged"} => desired'.gen >= p.gen
           /\ Answer(p) = "conflict" => p.gen = desired.gen /\ p # desired
<1>1. desired \in Payloads /\ desired.gen \in Nat /\ p.gen \in Nat
  BY DEF TypeOK, Payloads
<1>2. Cleared(p) \in [quarantine: 0..MaxQuarantines, lastClear: Numbers]
      /\ Cleared(p).quarantine \in {runtime.quarantine, 0}
  <2>1. p.control \in Numbers /\ 0 \in 0..MaxQuarantines
    BY ConstantsInRange DEF Payloads
  <2> QED  BY <2>1 DEF Cleared, TypeOK
<1>3. Answer(p) \in Answers
  BY DEF Answer, Answers
<1>4. CASE Answer(p) = "updated"
  <2>1. desired' = p /\ runtime' = Cleared(p)
    BY <1>4 DEF Accept
  <2>2. p.gen > desired.gen
    BY <1>1, <1>4 DEF Answer
  <2> QED  BY <1>1, <1>2, <1>3, <1>4, <2>1, <2>2
<1>5. CASE Answer(p) # "updated"
  <2>1. desired' = desired /\ runtime' = runtime
    BY <1>5 DEF Accept
  <2>2. Answer(p) = "unchanged" => p = desired
    BY <1>1 DEF Answer
  <2>3. Answer(p) = "conflict" => p.gen = desired.gen /\ p # desired
    BY <1>1 DEF Answer
  <2>4. runtime \in [quarantine: 0..MaxQuarantines, lastClear: Numbers]
    BY DEF TypeOK
  <2> QED  BY <1>1, <1>3, <1>5, <2>1, <2>2, <2>3, <2>4
<1> QED  BY <1>4, <1>5

\* A step of a session that changes nothing of the panel's row and of the agent.
LEMMA SessionTypes ==
    ASSUME TypeOK, NEW w \in Workers, NEW s \in Sessions, work' = [work EXCEPT ![w] = s],
           s.at = "idle" => s = [IdleSession EXCEPT !.lease = s.lease],
           s.at \in {"loaded", "compiled", "posted"} => s.answer = "none",
           s.answer \in {"updated", "unchanged"} => desired'.gen >= s.payload.gen,
           desired' \in Payloads, desired'.gen >= desired.gen,
           runtime' \in [quarantine: 0..MaxQuarantines, lastClear: Numbers],
           db' \in DbRows, db'.gen # 0, late' \subseteq Payloads, faults' \in 0..MaxFaults,
           UNCHANGED <<blueprint, intents, quarantines, meant>>
    PROVE  CoreTypes'
<1>1. RestTypes'
  BY DEF TypeOK, RestTypes
<1> QED  BY <1>1, SessionsFit, TypeParts

\* The same, where the agent's files stay and the session goes on.
LEMMA WorkTypes ==
    ASSUME TypeOK, NEW w \in Workers, NEW s \in Sessions, work' = [work EXCEPT ![w] = s],
           s.at # "idle", s.at \in {"loaded", "compiled", "posted"} => s.answer = "none",
           s.answer \in {"updated", "unchanged"} => desired.gen >= s.payload.gen,
           db' \in DbRows, db'.gen # 0, late' \subseteq Payloads, faults' \in 0..MaxFaults,
           UNCHANGED <<blueprint, desired, runtime, intents, quarantines, meant>>
    PROVE  CoreTypes'
<1>1. desired' \in Payloads /\ desired'.gen >= desired.gen /\ desired' = desired
      /\ runtime' \in [quarantine: 0..MaxQuarantines, lastClear: Numbers]
  BY DEF TypeOK, Payloads
<1> QED  BY <1>1, SessionTypes

\* A session that ends is one between two requests.
LEMMA EndTypes ==
    ASSUME TypeOK, NEW w \in Workers, work' = [work EXCEPT ![w] = Ended(w)],
           db' \in DbRows, db'.gen # 0, faults' \in 0..MaxFaults,
           UNCHANGED <<blueprint, late, desired, runtime, intents, quarantines, meant>>
    PROVE  CoreTypes'
<1> DEFINE s == Ended(w)
<1>1. s \in Sessions /\ s.at = "idle" /\ s.answer = "none"
  BY EndedFacts, RowFacts
<1>2. s = [IdleSession EXCEPT !.lease = s.lease]
  BY EndedFacts, RowFacts DEF Ended
<1>3. desired' \in Payloads /\ desired'.gen >= desired.gen
      /\ runtime' \in [quarantine: 0..MaxQuarantines, lastClear: Numbers]
      /\ late' \subseteq Payloads
  BY DEF TypeOK, Payloads
<1>4. work' = [work EXCEPT ![w] = s]
  OBVIOUS
<1> HIDE DEF s
<1> QED  BY <1>1, <1>2, <1>3, <1>4, SessionTypes

LEMMA SyncTypes ==
    ASSUME TypeOK, NEW w \in Workers,
           Sync(w) \/ FinishPost(w) \/ AcceptInterrupted(w) \/ PostTimesOut(w) \/ SyncFails(w)
    PROVE  CoreTypes'
<1>1. /\ db \in DbRows /\ db.gen # 0 /\ late \subseteq Payloads /\ faults \in 0..MaxFaults
      /\ desired \in Payloads /\ desired.gen \in Nat
      /\ runtime \in [quarantine: 0..MaxQuarantines, lastClear: Numbers]
      /\ faults < MaxFaults => faults + 1 \in 0..MaxFaults
  BY ConstantsInRange DEF TypeOK, Payloads
<1>2. /\ work[w] \in Sessions /\ work[w].row \in DbRows /\ work[w].payload \in Payloads
      /\ work[w].payload.gen \in Nat
      /\ work[w].answer \in {"updated", "unchanged"} => desired.gen >= work[w].payload.gen
  BY RowFacts DEF TypeOK, Payloads
<1>3. CASE Load(w)
  <2> DEFINE s == [Ended(w) EXCEPT !.at = "loaded", !.row = db]
  <2>1. s \in Sessions /\ s.at = "loaded" /\ s.answer = "none"
    BY <1>1, EndedFacts, RowFacts DEF Sessions, Stages
  <2>2. work' = [work EXCEPT ![w] = s]
    BY <1>3 DEF Load
  <2>3. UNCHANGED <<late, faults, db, blueprint, intents, meant, desired, runtime, quarantines>>
    BY <1>3 DEF Load, panelVars, agentVars
  <2> HIDE DEF s
  <2> QED  BY <1>1, <2>1, <2>2, <2>3, WorkTypes
<1>4. CASE Compile(w)
  <2> DEFINE s == [work[w] EXCEPT !.at = "compiled", !.row = Fresh(w),
                                  !.payload = Payload(Fresh(w))]
  <2>1. /\ db' \in DbRows /\ db'.gen # 0 /\ work' = [work EXCEPT ![w] = s]
        /\ Fresh(w) \in DbRows /\ Payload(Fresh(w)) \in Payloads
    BY <1>4, CompileFacts
  <2>2. s \in Sessions /\ s.at = "compiled" /\ s.answer = work[w].answer
    BY <1>2, <2>1 DEF Sessions, Stages
  <2>3. work[w].answer = "none"
    BY <1>4 DEF Compile, TypeOK
  <2>4. UNCHANGED <<late, faults, blueprint, intents, meant, desired, runtime, quarantines>>
    BY <1>4 DEF Compile, agentVars
  <2> HIDE DEF s
  <2> QED  BY <1>1, <2>1, <2>2, <2>3, <2>4, WorkTypes
<1>5. CASE Post(w)
  <2> DEFINE s == [work[w] EXCEPT !.at = "posted"]
  <2>1. s \in Sessions /\ s.at = "posted" /\ s.answer = work[w].answer
        /\ work[w].answer = "none" /\ work' = [work EXCEPT ![w] = s]
    BY <1>2, <1>5 DEF Sessions, Stages, Post, TypeOK
  <2>2. UNCHANGED <<late, faults, db, blueprint, intents, meant, desired, runtime, quarantines>>
    BY <1>5 DEF Post, panelVars, agentVars
  <2> HIDE DEF s
  <2> QED  BY <1>1, <2>1, <2>2, WorkTypes
<1>6. CASE Deliver(w)
  <2> DEFINE p == work[w].payload
             s == [work[w] EXCEPT !.at = "answered", !.answer = Answer(p)]
  <2>1. Accept(p) /\ work' = [work EXCEPT ![w] = s]
        /\ UNCHANGED <<late, quarantines, faults, db, blueprint, intents, meant>>
    BY <1>6 DEF Deliver, panelVars
  <2>2. /\ desired' \in Payloads /\ desired'.gen >= desired.gen /\ Answer(p) \in Answers
        /\ runtime' \in [quarantine: 0..MaxQuarantines, lastClear: Numbers]
        /\ Answer(p) \in {"updated", "unchanged"} => desired'.gen >= p.gen
    BY <1>2, <2>1, AcceptFacts
  <2>3. s \in Sessions /\ s.at = "answered" /\ s.answer = Answer(p) /\ s.payload = p
    BY <1>2, <2>2 DEF Sessions, Stages
  <2> HIDE DEF s, p
  <2> QED  BY <1>1, <2>1, <2>2, <2>3, SessionTypes
<1>7. CASE AcceptInterrupted(w)
  <2> DEFINE s == [work[w] EXCEPT !.at = "answered", !.answer = "error"]
  <2>1. s \in Sessions /\ s.at = "answered" /\ s.answer = "error"
    BY <1>2 DEF Sessions, Stages, Answers
  <2>2. desired' = work[w].payload /\ desired'.gen >= desired.gen
    BY <1>1, <1>2, <1>7 DEF AcceptInterrupted, Answer
  <2>3. /\ work' = [work EXCEPT ![w] = s] /\ faults < MaxFaults /\ faults' = faults + 1
        /\ UNCHANGED <<runtime, late, quarantines, db, blueprint, intents, meant>>
    BY <1>7 DEF AcceptInterrupted, panelVars
  <2> HIDE DEF s
  <2> QED  BY <1>1, <1>2, <2>1, <2>2, <2>3, SessionTypes
<1>8. CASE PostTimesOut(w)
  <2> DEFINE s == [work[w] EXCEPT !.at = "answered", !.answer = "error"]
  <2>1. s \in Sessions /\ s.at = "answered" /\ s.answer = "error"
    BY <1>2 DEF Sessions, Stages, Answers
  <2>2. /\ work' = [work EXCEPT ![w] = s] /\ faults < MaxFaults /\ faults' = faults + 1
        /\ UNCHANGED <<desired, runtime, quarantines, db, blueprint, intents, meant>>
        /\ late' \subseteq Payloads
    BY <1>1, <1>2, <1>8 DEF PostTimesOut, panelVars, agentVars
  <2> HIDE DEF s
  <2> QED  BY <1>1, <2>1, <2>2, WorkTypes
<1>9. CASE Observe(w)
  <2> DEFINE row == IF work[w].answer \in {"updated", "unchanged"} THEN work[w].row ELSE db
             s == [work[w] EXCEPT !.at = "observed", !.row = row, !.clean = Clean(row)]
  <2>1. row \in DbRows /\ Clean(row) \in BOOLEAN
    BY <1>1, <1>2 DEF Clean
  <2>2. work' = [work EXCEPT ![w] = s]
    BY <1>9 DEF Observe
  <2>3. s \in Sessions /\ s.at = "observed" /\ s.answer = work[w].answer
        /\ s.payload = work[w].payload
    <3> HIDE DEF row
    <3> QED  BY <1>2, <2>1 DEF Sessions, Stages
  <2>4. UNCHANGED <<late, faults, db, blueprint, intents, meant, desired, runtime, quarantines>>
    BY <1>9 DEF Observe, panelVars, agentVars
  <2> HIDE DEF s
  <2> QED  BY <1>1, <1>2, <2>2, <2>3, <2>4, WorkTypes
<1>10. CASE CommitObserved(w)
  <2>1. db' \in DbRows /\ db'.gen # 0
    <3>1. 0 \in Numbers
      BY ConstantsInRange DEF Numbers
    <3> QED  BY <1>1, <1>10, <3>1, RowFacts DEF CommitObserved, DbRows
  <2> QED  BY <1>1, <1>10, <2>1, EndTypes DEF CommitObserved, agentVars
<1>11. CASE FinishPost(w) \/ SyncFails(w)
  BY <1>1, <1>11, EndTypes DEF FinishPost, SyncFails, panelVars, agentVars
<1> QED  BY <1>3, <1>4, <1>5, <1>6, <1>7, <1>8, <1>9, <1>10, <1>11 DEF Sync

LEMMA CoreTypeStep == ASSUME TypeOK, [Next]_vars PROVE CoreTypes'
<1>1. CASE \E power \in Powers : SetDesiredPowerState(power)
  <2>1. PICK power \in Powers, n \in Numbers :
            Numbered(n) /\ db' = [db EXCEPT !.power = power, !.gen = @ + 1]
    BY <1>1 DEF SetDesiredPowerState
  <2>2. db' \in DbRows /\ db'.gen # 0
    <3>1. db \in DbRows /\ db.gen \in Nat
      BY DEF TypeOK, DbRows
    <3>2. db.gen + 1 \in Nat /\ db.gen + 1 # 0
      BY <3>1
    <3> QED  BY <2>1, <3>1, <3>2 DEF DbRows
  <2>3. intents' \in Numbers
    BY <2>1, NumberedFacts
  <2>4. UNCHANGED <<blueprint, work, late, faults, meant, desired, runtime, quarantines>>
    BY <1>1 DEF SetDesiredPowerState, agentVars
  <2>5. RestTypes'
    BY <2>2, <2>3, <2>4 DEF RestTypes, TypeOK
  <2> QED  BY <2>4, <2>5, SessionsStay, TypeParts
<1>2. CASE BlueprintChanges
  <2>1. PICK n : Numbered(n) /\ blueprint' = n
    BY <1>2 DEF BlueprintChanges
  <2>2. UNCHANGED <<db, work, late, faults, meant, desired, runtime, quarantines>>
    BY <1>2 DEF BlueprintChanges, agentVars
  <2>3. RestTypes'
    BY <2>1, <2>2, NumberedFacts DEF RestTypes, TypeOK
  <2> QED  BY <2>2, <2>3, SessionsStay, TypeParts
<1>3. CASE \E w \in Workers : Intent(w)
  BY <1>3, IntentTypes
<1>4. CASE \E w \in Workers : \/ Sync(w) \/ FinishPost(w) \/ AcceptInterrupted(w)
                              \/ PostTimesOut(w) \/ SyncFails(w)
  BY <1>4, SyncTypes
<1>5. CASE DeliverLate
  <2>1. PICK p \in late : Accept(p) /\ late' = late \ {p}
    BY <1>5 DEF DeliverLate
  <2>2. p \in Payloads /\ late' \subseteq Payloads
    BY <2>1 DEF TypeOK
  <2>3. UNCHANGED <<work, quarantines, faults, db, blueprint, intents, meant>>
    BY <1>5 DEF DeliverLate, panelVars
  <2>4. /\ desired' \in Payloads /\ desired'.gen >= desired.gen
        /\ runtime' \in [quarantine: 0..MaxQuarantines, lastClear: Numbers]
    BY <2>1, <2>2, AcceptFacts
  <2>5. RestTypes'
    BY <2>2, <2>3, <2>4 DEF RestTypes, TypeOK
  <2>6. ASSUME NEW v \in Workers PROVE SessionFits(v)'
    <3>1. work[v] \in Sessions /\ SessionFits(v) /\ work'[v] = work[v]
      BY <2>3 DEF TypeOK, SessionFits
    <3>2. work[v].payload.gen \in Nat /\ desired.gen \in Nat /\ desired'.gen \in Nat
      BY <2>4, <3>1 DEF Sessions, Payloads, TypeOK
    <3> QED  BY <2>4, <3>1, <3>2 DEF SessionFits, Ended
  <2>7. work' \in [Workers -> Sessions]
    BY <2>3 DEF TypeOK
  <2> QED  BY <2>5, <2>6, <2>7, TypeParts
<1>6. CASE Quarantine
  <2>1. UNCHANGED <<work, late, desired, faults, db, blueprint, intents, meant>>
    BY <1>6 DEF Quarantine, panelVars
  <2>2. quarantines' \in 0..MaxQuarantines
        /\ runtime' \in [quarantine: 0..MaxQuarantines, lastClear: Numbers]
    BY <1>6, ConstantsInRange DEF Quarantine, TypeOK
  <2>3. RestTypes'
    BY <2>1, <2>2 DEF RestTypes, TypeOK
  <2> QED  BY <2>1, <2>3, SessionsStay, TypeParts
<1>7. CASE UNCHANGED vars
  <2>1. RestTypes' /\ UNCHANGED <<work, desired>>
    BY <1>7 DEF vars, RestTypes, TypeOK
  <2> QED  BY <2>1, SessionsStay, TypeParts
<1> QED  BY <1>1, <1>2, <1>3, <1>4, <1>5, <1>6, <1>7 DEF Next

\* A step reads or writes the row in a session, or does not touch it there.
LEMMA ReadsOrWrites ==
    ASSUME [Next]_vars
    PROVE  UNCHANGED raceVars \/ \E w \in Workers : Reads(w) \/ Writes(w)
<1>1. ASSUME NEW w \in Workers, Intent(w) \/ Sync(w)
      PROVE  Reads(w) \/ Writes(w) \/ UNCHANGED raceVars
  BY <1>1 DEF Intent, EditConfiguration, SetRecoverySuspension, ClearRecoverySuspension,
              PrepareQuarantineClear, Commits, Sync, Load, Compile, Post, Deliver, Observe,
              CommitObserved
<1>2. \/ \E w \in Workers : Intent(w) \/ Sync(w)
      \/ UNCHANGED raceVars
  BY DEF Next, SetDesiredPowerState, BlueprintChanges, FinishPost, AcceptInterrupted,
         PostTimesOut, SyncFails, DeliverLate, Quarantine, vars, raceVars
<1> QED  BY <1>1, <1>2

\* A session that reads or writes is the last to have done so.
LEMMA LastStep ==
    ASSUME TypeOK, [Next]_vars
    PROVE  last' \in Workers /\ raced' \in BOOLEAN
<1>1. last \in Workers /\ raced \in BOOLEAN
  BY DEF TypeOK
<1>2. ASSUME NEW w \in Workers, Reads(w) \/ Writes(w)
      PROVE  last' \in Workers /\ raced' \in BOOLEAN
  BY <1>1, <1>2 DEF Reads, Writes, Outdated
<1> QED  BY <1>1, <1>2, ReadsOrWrites DEF raceVars

\* What was raced once stays so.
LEMMA RaceStays == ASSUME TypeOK, [Next]_vars, raced PROVE raced'
<1>1. ASSUME NEW w \in Workers, Reads(w) \/ Writes(w) \/ UNCHANGED raceVars
      PROVE  raced'
  BY <1>1 DEF Reads, Writes, raceVars
<1> QED  BY <1>1, ReadsOrWrites DEF raceVars

LEMMA TypeStep == TypeOK /\ [Next]_vars => TypeOK'
BY CoreTypeStep, LastStep DEF TypeOK, CoreTypes

-----------------------------------------------------------------------------
(* A generation names one payload.                                         *)

LEMMA KnownTypes ==
    ASSUME TypeOK
    PROVE  Known \subseteq Payloads /\ Copies \subseteq DbRows /\ db \in DbRows
<1>1. \A w \in Workers : work[w].payload \in Payloads /\ work[w].row \in DbRows
  BY RowFacts
<1> QED  BY <1>1, InitialRecords DEF TypeOK, Known, Copies, Held

LEMMA Generations ==
    ASSUME TypeOK
    PROVE  /\ db.gen \in Nat /\ \A p \in Known : p.gen \in Nat
           /\ \A copy \in Copies : copy.gen \in Nat
BY KnownTypes DEF Payloads, DbRows

\* A row without a hash has that of no configuration.
LEMMA HashIsNone == \A c \in Configs : c # NoHash
BY DEF Configs, NoHash

\* Payloads and copies that are no longer there, and a copy of the row as it is.
LEMMA FewerCoherent ==
    ASSUME TypeOK, NEW known, NEW copies, known \subseteq Known, copies \subseteq Copies \cup {db},
           Coherent(Known, Copies, db)
    PROVE  Coherent(known, copies, db) /\ Latest(known, copies, db, db)
<1>1. OnePerGeneration(known) /\ Covers(known, db)
  BY DEF Coherent, OnePerGeneration, Covers
<1>2. Original(db, db)
  BY Generations DEF Original, Same
<1>3. \A copy \in copies : Original(db, copy)
  BY <1>2 DEF Coherent
<1>4. \A p \in known, copy \in copies : Fits(p, copy)
  BY DEF Coherent, Covers, Says, Fits
<1>5. \A a, b \in copies : Alike(a, b)
  BY <1>3 DEF Coherent, Original, Alike, Same
<1>6. UpTo(db.gen, known, copies)
  BY <1>1, <1>3 DEF UpTo, Covers, Original
<1> QED  BY <1>1, <1>3, <1>4, <1>5, <1>6 DEF Coherent, Latest

\* A row of a later generation than anybody knows.
LEMMA LaterCoherent ==
    ASSUME TypeOK, Coherent(Known, Copies, db), NEW row, NEW g \in Nat,
           UpTo(g, Known, Copies), row.gen \in Nat, row.gen > g
    PROVE  Coherent(Known, Copies, row)
<1>1. \A p \in Known : p.gen <= row.gen /\ p.gen # row.gen
  BY Generations DEF UpTo
<1>2. \A copy \in Copies : copy.gen <= row.gen /\ copy.gen # row.gen
  BY Generations DEF UpTo
<1> QED  BY <1>1, <1>2 DEF Coherent, Covers, Original

\* The copy of a session that may write is not behind any other copy or payload.
LEMMA WriterLatest ==
    ASSUME TypeOK, GenerationInv, NEW w \in Held, ~Outdated(w)
    PROVE  Latest(Known, Copies, db, work[w].row)
BY FewerCoherent DEF GenerationInv, Outdated

\* A step that leaves the row as it is: sessions go on, end, or take a copy of it.
LEMMA QuietStep ==
    ASSUME TypeOK, GenerationInv, db' = db, Known' \subseteq Known,
           \A v \in Workers : work'[v].answer # "conflict",
           \A v \in Held' : \/ v \in Held /\ work'[v].row = work[v].row
                            \/ work'[v].row = db,
           \A v \in Held' : last' = v =>
               \/ work'[v].row = db
               \/ /\ last = v /\ v \in Held /\ work'[v].row = work[v].row
                  /\ Copies' \subseteq Copies
    PROVE  GenerationInv'
<1>1. Copies' \subseteq Copies \cup {db}
  <2> SUFFICES ASSUME NEW v \in Held' PROVE work'[v].row \in Copies \cup {db}
    BY DEF Copies
  <2> QED  BY DEF Copies
<1>2. Coherent(Known', Copies', db') /\ Latest(Known', Copies', db', db)
  BY <1>1, FewerCoherent DEF GenerationInv
<1>3. ASSUME NEW v \in Held', last' = v
      PROVE  Latest(Known', Copies', db', work'[v].row)
  <2>1. CASE work'[v].row = db
    BY <1>2, <2>1
  <2>2. CASE work'[v].row # db
    <3>1. /\ last = v /\ v \in Held /\ work'[v].row = work[v].row
          /\ Copies' \subseteq Copies
      BY <1>3, <2>2
    <3>2. Latest(Known, Copies, db, work[v].row)
      BY <3>1 DEF GenerationInv
    <3> QED  BY <3>1, <3>2 DEF Latest, UpTo
  <2> QED  BY <2>1, <2>2
<1> QED  BY <1>2, <1>3 DEF GenerationInv

\* What one session does to the payloads and copies.
LEMMA OneSession ==
    ASSUME TypeOK, NEW w \in Workers, NEW s, Becomes(w, s),
           desired' \in {desired, work[w].payload}, late' \subseteq late \cup {work[w].payload}
    PROVE  /\ Known' \subseteq Known \cup {s.payload}
           /\ Copies' \subseteq Copies \cup {s.row}
           /\ s.at = "idle" => Copies' \subseteq Copies
           /\ \A v \in Held' : v # w => v \in Held /\ work'[v] = work[v]
           /\ work'[w] = s /\ (w \in Held' <=> s.at # "idle")
<1>1. \A v \in Workers : v # w => work'[v] = work[v]
  BY DEF Becomes
<1>2. work'[w] = s
  BY DEF Becomes
<1>3. \A v \in Workers : work'[v].payload \in {work[v].payload, s.payload}
  BY <1>1, <1>2
<1>4. Known' \subseteq Known \cup {s.payload}
  BY <1>3 DEF Known
<1>5. \A v \in Held' : v # w => v \in Held /\ work'[v] = work[v]
  BY <1>1 DEF Held
<1>6. w \in Held' <=> s.at # "idle"
  BY <1>2 DEF Held
<1>7. Copies' \subseteq Copies \cup {s.row}
  <2> SUFFICES ASSUME NEW v \in Held' PROVE work'[v].row \in Copies \cup {s.row}
    BY DEF Copies
  <2> QED  BY <1>2, <1>5 DEF Copies
<1>8. s.at = "idle" => Copies' \subseteq Copies
  <2> SUFFICES ASSUME s.at = "idle", NEW v \in Held' PROVE work'[v].row \in Copies
    BY DEF Copies
  <2> QED  BY <1>5, <1>6 DEF Copies
<1> QED  BY <1>2, <1>4, <1>5, <1>6, <1>7, <1>8

\* A session that goes on with its row and its payload, takes the row anew, or ends.
LEMMA QuietSession ==
    ASSUME TypeOK, GenerationInv, NEW w \in Workers, NEW s, Becomes(w, s), db' = db,
           desired' \in {desired, work[w].payload}, late' \subseteq late \cup {work[w].payload},
           s.payload \in {NoPayload, work[w].payload}, s.answer # "conflict",
           \/ s.at = "idle" /\ last' = last
           \/ work[w].at # "idle" /\ s.row = work[w].row /\ last' = last
           \/ s.row = db /\ last' = w
    PROVE  GenerationInv'
<1>1. /\ Known' \subseteq Known \cup {s.payload}
      /\ Copies' \subseteq Copies \cup {s.row}
      /\ s.at = "idle" => Copies' \subseteq Copies
      /\ \A v \in Held' : v # w => v \in Held /\ work'[v] = work[v]
      /\ work'[w] = s /\ (w \in Held' <=> s.at # "idle")
  BY OneSession
<1>2. Known' \subseteq Known
  BY <1>1 DEF Known
<1>3. \A v \in Workers : work'[v].answer # "conflict"
  BY DEF Becomes, GenerationInv
<1>4. work[w].at # "idle" => w \in Held /\ work[w].row \in Copies
  BY DEF Held, Copies
<1>5. \A v \in Held' : v # w => v \in Held /\ work'[v].row = work[v].row
  BY <1>1
<1>6. CASE s.at = "idle" /\ last' = last
  <2>1. w \notin Held' /\ Copies' \subseteq Copies
    BY <1>1, <1>6
  <2> QED  BY <1>2, <1>3, <1>5, <1>6, <2>1, QuietStep
<1>7. CASE work[w].at # "idle" /\ s.row = work[w].row /\ last' = last
  <2>1. w \in Held /\ work'[w].row = work[w].row /\ Copies' \subseteq Copies
    BY <1>1, <1>4, <1>7
  <2>2. \A v \in Held' : v \in Held /\ work'[v].row = work[v].row
    BY <1>5, <2>1
  <2> QED  BY <1>2, <1>3, <1>7, <2>1, <2>2, QuietStep
<1>8. CASE s.row = db /\ last' = w
  <2>1. work'[w].row = db
    BY <1>1, <1>8
  <2> QED  BY <1>2, <1>3, <1>5, <1>8, <2>1, QuietStep
<1> QED  BY <1>6, <1>7, <1>8

\* A session that commits counts from its copy to a generation that nobody knows.
LEMMA CountedSession ==
    ASSUME TypeOK, GenerationInv, NEW w \in Workers, NEW s,
           Becomes(w, s), s.at = "idle", s.payload = NoPayload, s.answer = "none",
           work[w].at # "idle", ~Outdated(w), last' = w,
           db'.gen = Counted(w), UNCHANGED <<desired, late>>
    PROVE  GenerationInv'
<1>1. /\ Known' \subseteq Known /\ Copies' \subseteq Copies
      /\ w \notin Held'
  <2>1. /\ Known' \subseteq Known \cup {s.payload} /\ Copies' \subseteq Copies
        /\ w \notin Held'
    BY OneSession
  <2> QED  BY <2>1 DEF Known
<1>2. w \in Held
  BY DEF Held
<1>3. UpTo(work[w].row.gen, Known, Copies)
  BY <1>2, WriterLatest DEF Latest
<1>4. db'.gen \in Nat /\ db'.gen > work[w].row.gen /\ work[w].row.gen \in Nat
  BY RowFacts
<1>5. Coherent(Known, Copies, db')
  BY <1>3, <1>4, LaterCoherent DEF GenerationInv
<1>6. Coherent(Known', Copies', db')
  BY <1>1, <1>5 DEF Coherent, OnePerGeneration, Covers
<1>7. \A v \in Workers : work'[v].answer # "conflict"
  BY DEF Becomes, GenerationInv
<1>8. \A v \in Held' : last' # v
  BY <1>1
<1> QED  BY <1>6, <1>7, <1>8 DEF GenerationInv

\* A session writes only from a copy that is not outdated, if there is no race.
LEMMA WriteFacts ==
    ASSUME NEW w, Writes(w), ~raced'
    PROVE  ~Outdated(w) /\ last' = w
BY DEF Writes

LEMMA IntentGenerations ==
    ASSUME TypeOK, GenerationInv, NEW w \in Workers, Intent(w), ~raced'
    PROVE  GenerationInv'
<1>1. ASSUME NEW row, NEW lease \in Numbers, Commits(w, row, lease), row.gen = Counted(w)
      PROVE  GenerationInv'
  <2> DEFINE s == [IdleSession EXCEPT !.lease = lease]
  <2>1. /\ s \in Sessions /\ s.at = "idle" /\ s.payload = NoPayload /\ s.answer = "none"
        /\ work' = [work EXCEPT ![w] = s]
    BY <1>1, EndedFacts DEF Commits
  <2>2. /\ work[w].at # "idle" /\ db'.gen = Counted(w) /\ UNCHANGED <<desired, late>>
        /\ work \in [Workers -> Sessions] /\ ~Outdated(w) /\ last' = w
    BY <1>1, WriteFacts DEF Commits, agentVars, TypeOK
  <2> HIDE DEF s
  <2>3. Becomes(w, s)
    BY <2>1, <2>2, BecomesFacts
  <2> QED  BY <2>1, <2>2, <2>3, CountedSession
<1>2. db \in DbRows /\ work[w].lease \in Numbers /\ 0 \in Numbers
  BY RowFacts, ConstantsInRange DEF TypeOK, Numbers
<1>3. CASE EditConfiguration(w)
  <2> DEFINE row(n) == [db EXCEPT !.edit = n, !.hash = NoHash, !.gen = Counted(w)]
  <2>1. PICK n : Commits(w, row(n), work[w].lease)
    BY <1>3 DEF EditConfiguration
  <2>2. row(n).gen = Counted(w)
    BY <1>2 DEF DbRows
  <2> HIDE DEF row
  <2> QED  BY <1>1, <1>2, <2>1, <2>2
<1>4. CASE SetRecoverySuspension(w)
  <2> DEFINE row(n) == [db EXCEPT !.suspension = n, !.gen = Counted(w)]
  <2>1. PICK n : Numbered(n) /\ Commits(w, row(n), n)
    BY <1>4 DEF SetRecoverySuspension
  <2>2. row(n).gen = Counted(w) /\ n \in Numbers
    BY <1>2, <2>1, NumberedFacts DEF DbRows
  <2> HIDE DEF row
  <2> QED  BY <1>1, <2>1, <2>2
<1>5. CASE ClearRecoverySuspension(w)
  <2> DEFINE row == [db EXCEPT !.suspension = 0, !.gen = Counted(w)]
  <2>1. Commits(w, row, 0) /\ row.gen = Counted(w)
    BY <1>2, <1>5 DEF ClearRecoverySuspension, DbRows
  <2> HIDE DEF row
  <2> QED  BY <1>1, <1>2, <2>1
<1>6. CASE PrepareQuarantineClear(w)
  <2> DEFINE row(n) == [db EXCEPT !.control = n, !.gen = Counted(w)]
  <2>1. PICK n : Commits(w, row(n), work[w].lease)
    BY <1>6 DEF PrepareQuarantineClear
  <2>2. row(n).gen = Counted(w)
    BY <1>2 DEF DbRows
  <2> HIDE DEF row
  <2> QED  BY <1>1, <1>2, <2>1, <2>2
<1> QED  BY <1>3, <1>4, <1>5, <1>6 DEF Intent

\* The payload of an old copy that needs no hash is known as it is, or new in its generation.
LEMMA OldCompileGenerations ==
    ASSUME TypeOK, GenerationInv, NEW w \in Workers, Compile(w),
           work[w].row.hash = Effective(work[w].row)
    PROVE  GenerationInv'
<1> DEFINE row == work[w].row
           p == Payload(row)
<1>1. /\ work[w].at = "loaded" /\ desired' = desired /\ late' = late /\ db' = db
      /\ last' = last /\ Fresh(w) = row
  BY DEF Compile, agentVars, raceVars, Fresh
<1>2. /\ row \in DbRows /\ p \in Payloads /\ row \in Copies /\ w \in Held
      /\ row.gen \in Nat /\ work[w] \in Sessions
  BY <1>1, CompileFacts, RowFacts DEF Copies, Held
<1>3. /\ p.gen = row.gen /\ p.power = row.power /\ p.suspension = row.suspension
      /\ p.control = row.control /\ p.config = row.hash /\ row.hash # NoHash
  <2>1. row.hash \in Configs
    BY <1>2 DEF Payload, Payloads
  <2>2. \A c \in Configs : c # NoHash
    BY HashIsNone
  <2> QED  BY <2>1, <2>2 DEF Payload
<1> DEFINE s == [work[w] EXCEPT !.at = "compiled", !.row = row, !.payload = p]
<1>4. /\ work' = [work EXCEPT ![w] = s] /\ s \in Sessions /\ s.at = "compiled"
      /\ s.row = row /\ s.payload = p /\ s.answer = work[w].answer
  <2>1. work' = [work EXCEPT ![w] = s]
    BY <1>1, CompileFacts
  <2> HIDE DEF p
  <2> QED  BY <1>2, <2>1 DEF Sessions, Stages
<1>5. Becomes(w, s)
  <2> HIDE DEF s
  <2> QED  BY <1>4, BecomesFacts DEF TypeOK
<1>6. Known' \subseteq Known \cup {p} /\ Copies' \subseteq Copies /\ Held' \subseteq Held
  <2> HIDE DEF s, p, row
  <2> QED  BY <1>1, <1>2, <1>4, <1>5, OneSession
<1>7. \A v \in Workers : work'[v].answer # "conflict" /\ work'[v].row = work[v].row
  <2> HIDE DEF s, p
  <2> QED  BY <1>4, <1>5 DEF Becomes, GenerationInv
<1> HIDE DEF p, s
<1>8. Coherent(Known, Copies, db) /\ Known \subseteq Payloads
  BY KnownTypes DEF GenerationInv
<1>9. \A q \in Known : q.gen = p.gen => q = p
  <2> SUFFICES ASSUME NEW q \in Known, q.gen = p.gen PROVE q = p
    OBVIOUS
  <2>1. Fits(q, row)
    BY <1>2, <1>8 DEF Coherent
  <2> QED  BY <1>2, <1>3, <1>8, <2>1 DEF Fits, Payloads
<1>10. Original(db, row) /\ \A copy \in Copies : Alike(row, copy)
  BY <1>2, <1>8 DEF Coherent
<1>11. p.gen <= db.gen /\ (p.gen = db.gen => Says(p, db))
  BY <1>3, <1>10 DEF Original, Says, Same
<1>12. \A copy \in Copies : Fits(p, copy)
  BY <1>3, <1>10 DEF Alike, Fits, Same
<1>13. Coherent(Known', Copies', db')
  <2>1. OnePerGeneration(Known') /\ Covers(Known', db)
    BY <1>6, <1>8, <1>9, <1>11 DEF Coherent, OnePerGeneration, Covers
  <2> QED  BY <1>1, <1>6, <1>8, <1>12, <2>1 DEF Coherent
<1>14. ASSUME NEW v \in Held', last' = v
       PROVE  Latest(Known', Copies', db', work'[v].row)
  <2>1. Latest(Known, Copies, db, work[v].row) /\ work'[v].row = work[v].row
    BY <1>1, <1>6, <1>7, <1>14 DEF GenerationInv, Held
  <2>2. p.gen <= work[v].row.gen
    BY <1>2, <1>3, <2>1 DEF Latest, UpTo
  <2> QED  BY <1>1, <1>6, <2>1, <2>2 DEF Latest, UpTo
<1> QED  BY <1>7, <1>13, <1>14 DEF GenerationInv

\* The payload of a row that stores its hash is new in its generation.
LEMMA NewCompileGenerations ==
    ASSUME TypeOK, GenerationInv, NEW w \in Workers, Compile(w), ~raced',
           work[w].row.hash # Effective(work[w].row)
    PROVE  GenerationInv'
<1> DEFINE row == work[w].row
           p == Payload(db')
<1>1. /\ work[w].at = "loaded" /\ desired' = desired /\ late' = late
      /\ last' = w /\ ~Outdated(w) /\ Fresh(w) = db' /\ w \in Held
  BY WriteFacts DEF Compile, agentVars, Fresh, Held
<1>2. /\ Latest(Known, Copies, db, row) /\ Coherent(Known, Copies, db)
      /\ Known \subseteq Payloads /\ Copies \subseteq DbRows /\ db \in DbRows
      /\ db.gen \in Nat /\ row \in DbRows /\ work[w] \in Sessions
  BY <1>1, WriterLatest, KnownTypes, Generations, RowFacts DEF GenerationInv
<1>3. /\ db' = Hashed(row) /\ db.hash = row.hash /\ db.edit = row.edit
  BY <1>2 DEF Compile, Latest
<1>4. /\ db' \in DbRows /\ p \in Payloads /\ db'.gen \in Nat
  BY <1>1, CompileFacts DEF DbRows
<1>5. /\ db'.hash = Effective(row) /\ db'.edit = db.edit /\ db'.power = db.power
      /\ db'.suspension = db.suspension /\ db'.control = db.control
      /\ db'.gen = IF row.hash = NoHash THEN db.gen ELSE db.gen + 1
  BY <1>2, <1>3 DEF Hashed, DbRows
<1>6. /\ p.gen = db'.gen /\ p.power = db'.power /\ p.suspension = db'.suspension
      /\ p.control = db'.control /\ p.config = db'.hash
  BY <1>3, <1>5 DEF Payload, Effective
<1>7. \A c \in Configs : c # NoHash
  BY HashIsNone
<1>8. \A q \in Known : q.gen <= db'.gen /\ q.gen # db'.gen
  <2> SUFFICES ASSUME NEW q \in Known PROVE q.gen <= db'.gen /\ q.gen # db'.gen
    OBVIOUS
  <2>1. /\ q.gen \in Nat /\ q.config \in Configs /\ q.gen <= db.gen
        /\ q.gen = db.gen => q.config = db.hash
    BY <1>2 DEF Payloads, Coherent, Covers, Says
  <2> QED  BY <1>2, <1>3, <1>5, <1>7, <2>1
<1>9. \A copy \in Copies : Original(db', copy) /\ (copy.gen = db'.gen => copy.hash = NoHash)
  <2> SUFFICES ASSUME NEW copy \in Copies
               PROVE  Original(db', copy) /\ (copy.gen = db'.gen => copy.hash = NoHash)
    OBVIOUS
  <2>1. Original(db, copy) /\ copy.gen \in Nat
    BY <1>2 DEF Coherent, DbRows
  <2> QED  BY <1>2, <1>3, <1>5, <2>1 DEF Original, Same
<1> DEFINE s == [work[w] EXCEPT !.at = "compiled", !.row = db', !.payload = p]
<1>10. /\ work' = [work EXCEPT ![w] = s] /\ s \in Sessions /\ s.at = "compiled"
       /\ s.row = db' /\ s.payload = p /\ s.answer = work[w].answer
  <2>1. work' = [work EXCEPT ![w] = s]
    BY <1>1, CompileFacts
  <2> HIDE DEF p
  <2> QED  BY <1>2, <1>4, <2>1 DEF Sessions, Stages
<1>11. Becomes(w, s)
  <2> HIDE DEF s
  <2> QED  BY <1>10, BecomesFacts DEF TypeOK
<1>12. Known' \subseteq Known \cup {p} /\ Copies' \subseteq Copies \cup {db'} /\ work'[w].row = db'
  <2> HIDE DEF s, p, row
  <2> QED  BY <1>1, <1>10, <1>11, OneSession
<1>13. \A v \in Workers : work'[v].answer # "conflict"
  <2> HIDE DEF s, p
  <2> QED  BY <1>10, <1>11 DEF Becomes, GenerationInv
<1> HIDE DEF p, s, row
<1>14. Coherent(Known', Copies', db')
  <2>1. OnePerGeneration(Known') /\ Covers(Known', db')
    BY <1>2, <1>4, <1>6, <1>8, <1>12 DEF Coherent, OnePerGeneration, Covers, Says
  <2>2. Original(db', db')
    BY <1>4 DEF Original, Same
  <2>3. \A copy \in Copies' : Original(db', copy)
    BY <1>9, <1>12, <2>2
  <2>4. \A q \in Known', copy \in Copies' : Fits(q, copy)
    <3> SUFFICES ASSUME NEW q \in Known', NEW copy \in Copies' PROVE Fits(q, copy)
      OBVIOUS
    <3>1. CASE q \in Known /\ copy \in Copies
      BY <1>2, <3>1 DEF Coherent
    <3>2. CASE q \in Known /\ copy = db'
      BY <1>8, <3>2 DEF Fits
    <3>3. CASE q = p /\ copy \in Copies
      BY <1>6, <1>9, <3>3 DEF Fits, Original, Same
    <3>4. CASE q = p /\ copy = db'
      BY <1>6, <3>4 DEF Fits
    <3> QED  BY <1>12, <3>1, <3>2, <3>3, <3>4
  <2>5. \A a, b \in Copies' : Alike(a, b)
    BY <1>2, <1>12, <2>3 DEF Coherent, Alike, Original, Same
  <2> QED  BY <2>1, <2>3, <2>4, <2>5 DEF Coherent
<1>15. Latest(Known', Copies', db', db')
  <2>1. \A copy \in Copies' : copy.gen <= db'.gen
    BY <1>14 DEF Coherent, Original
  <2>2. \A q \in Known' : q.gen <= db'.gen
    BY <1>14 DEF Coherent, Covers
  <2> QED  BY <2>1, <2>2 DEF Latest, UpTo
<1> QED  BY <1>1, <1>12, <1>13, <1>14, <1>15 DEF GenerationInv

LEMMA SyncGenerations ==
    ASSUME TypeOK, GenerationInv, NEW w \in Workers,
           \/ Load(w) \/ Post(w) \/ Deliver(w) \/ Observe(w) \/ CommitObserved(w)
           \/ FinishPost(w) \/ AcceptInterrupted(w) \/ PostTimesOut(w) \/ SyncFails(w),
           ~raced'
    PROVE  GenerationInv'
<1>1. /\ work \in [Workers -> Sessions] /\ work[w] \in Sessions /\ work[w].row \in DbRows
      /\ work[w].payload \in Payloads /\ db \in DbRows /\ work[w].answer # "conflict"
  BY RowFacts DEF TypeOK, GenerationInv
<1>2. ASSUME work' = [work EXCEPT ![w] = Ended(w)], UNCHANGED <<db, late, desired, last>>
      PROVE  GenerationInv'
  <2> DEFINE s == Ended(w)
  <2>1. s \in Sessions /\ s.at = "idle" /\ s.answer = "none" /\ s.payload = NoPayload
    BY EndedFacts, RowFacts
  <2>2. work' = [work EXCEPT ![w] = s]
    BY <1>2
  <2> HIDE DEF s
  <2>3. Becomes(w, s)
    BY <1>1, <2>1, <2>2, BecomesFacts
  <2> QED  BY <1>2, <2>1, <2>3, QuietSession
<1>3. CASE Load(w)
  <2> DEFINE s == [Ended(w) EXCEPT !.at = "loaded", !.row = db]
  <2>1. /\ s \in Sessions /\ s.at = "loaded" /\ s.answer = "none" /\ s.payload = NoPayload
        /\ s.row = db
    BY <1>1, EndedFacts, RowFacts DEF Sessions, Stages
  <2>2. work' = [work EXCEPT ![w] = s] /\ UNCHANGED <<db, late, desired>>
        /\ last' = w
    BY <1>3 DEF Load, Reads, panelVars, agentVars
  <2> HIDE DEF s
  <2>3. Becomes(w, s)
    BY <1>1, <2>1, <2>2, BecomesFacts
  <2> QED  BY <2>1, <2>2, <2>3, QuietSession
<1>4. CASE Post(w)
  <2> DEFINE s == [work[w] EXCEPT !.at = "posted"]
  <2>1. /\ s \in Sessions /\ s.at = "posted" /\ s.answer = work[w].answer
        /\ s.payload = work[w].payload /\ s.row = work[w].row
    BY <1>1 DEF Sessions, Stages
  <2>2. /\ work' = [work EXCEPT ![w] = s] /\ UNCHANGED <<db, late, desired, last>>
        /\ work[w].at # "idle"
    BY <1>4 DEF Post, panelVars, agentVars, raceVars
  <2> HIDE DEF s
  <2>3. Becomes(w, s)
    BY <1>1, <2>1, <2>2, BecomesFacts
  <2> QED  BY <1>1, <2>1, <2>2, <2>3, QuietSession
<1>5. ASSUME work[w].at = "posted", db' = db, last' = last, desired' \in {desired, work[w].payload},
             late' \subseteq late \cup {work[w].payload}, NEW answer \in Answers,
             answer # "conflict",
             work' = [work EXCEPT ![w] = [@ EXCEPT !.at = "answered", !.answer = answer]]
      PROVE  GenerationInv'
  <2> DEFINE s == [work[w] EXCEPT !.at = "answered", !.answer = answer]
  <2>1. /\ s \in Sessions /\ s.at = "answered" /\ s.answer = answer
        /\ s.payload = work[w].payload /\ s.row = work[w].row
    BY <1>1, <1>5 DEF Sessions, Stages
  <2>2. work' = [work EXCEPT ![w] = s]
    BY <1>5
  <2> HIDE DEF s
  <2>3. Becomes(w, s)
    BY <1>1, <2>1, <2>2, BecomesFacts
  <2> QED  BY <1>1, <1>5, <2>1, <2>3, QuietSession
<1>6. "error" \in Answers
  BY DEF Answers
<1>7. CASE Deliver(w)
  <2>1. /\ work[w].at = "posted" /\ Accept(work[w].payload) /\ UNCHANGED <<db, late, last>>
        /\ work' = [work EXCEPT ![w] = [@ EXCEPT !.at = "answered",
                                                 !.answer = Answer(work[w].payload)]]
    BY <1>7 DEF Deliver, panelVars, raceVars
  <2>2. /\ desired' \in {desired, work[w].payload} /\ Answer(work[w].payload) \in Answers
        /\ Answer(work[w].payload) = "conflict"
             => work[w].payload.gen = desired.gen /\ work[w].payload # desired
    BY <1>1, <2>1, AcceptFacts
  <2>3. Answer(work[w].payload) # "conflict"
    <3>1. work[w].payload \in Known /\ desired \in Known /\ OnePerGeneration(Known)
      BY DEF Known, GenerationInv, Coherent
    <3> QED  BY <2>2, <3>1 DEF OnePerGeneration
  <2> QED  BY <1>5, <2>1, <2>2, <2>3
<1>8. CASE AcceptInterrupted(w) \/ PostTimesOut(w)
  <2>1. /\ work[w].at = "posted" /\ db' = db /\ last' = last
        /\ desired' \in {desired, work[w].payload} /\ late' \subseteq late \cup {work[w].payload}
        /\ work' = [work EXCEPT ![w] = [@ EXCEPT !.at = "answered", !.answer = "error"]]
    BY <1>8 DEF AcceptInterrupted, PostTimesOut, panelVars, agentVars, raceVars
  <2> QED  BY <1>5, <1>6, <2>1
<1>9. CASE Observe(w)
  <2> DEFINE row == IF work[w].answer \in {"updated", "unchanged"} THEN work[w].row ELSE db
             s == [work[w] EXCEPT !.at = "observed", !.row = row, !.clean = Clean(row)]
  <2>1. /\ row \in DbRows /\ Clean(row) \in BOOLEAN
        /\ \/ row = db /\ last' = w
           \/ row = work[w].row /\ last' = last
    BY <1>1, <1>9 DEF Clean, Observe, Reads, raceVars
  <2>2. /\ work' = [work EXCEPT ![w] = s] /\ work[w].at # "idle"
        /\ UNCHANGED <<db, late, desired>>
    BY <1>9 DEF Observe, panelVars, agentVars
  <2> HIDE DEF row
  <2>3. /\ s \in Sessions /\ s.at = "observed" /\ s.answer = work[w].answer
        /\ s.payload = work[w].payload /\ s.row = row
    BY <1>1, <2>1 DEF Sessions, Stages
  <2> HIDE DEF s
  <2>4. Becomes(w, s)
    BY <1>1, <2>2, <2>3, BecomesFacts
  <2> QED  BY <1>1, <2>1, <2>2, <2>3, <2>4, QuietSession
<1>10. CASE CommitObserved(w)
  <2>1. work' = [work EXCEPT ![w] = Ended(w)] /\ UNCHANGED <<late, desired>>
        /\ work[w].at # "idle"
    BY <1>10 DEF CommitObserved, agentVars
  <2>2. CASE ~(work[w].clean /\ work[w].row.control # 0)
    BY <1>2, <1>10, <2>1, <2>2 DEF CommitObserved, raceVars
  <2>3. CASE work[w].clean /\ work[w].row.control # 0
    <3> DEFINE s == Ended(w)
    <3>1. s \in Sessions /\ s.at = "idle" /\ s.answer = "none" /\ s.payload = NoPayload
      BY EndedFacts, RowFacts
    <3>2. db'.gen = Counted(w) /\ ~Outdated(w) /\ last' = w
      BY <1>1, <1>10, <2>3, WriteFacts DEF CommitObserved, DbRows
    <3>3. work' = [work EXCEPT ![w] = s]
      BY <2>1
    <3> HIDE DEF s
    <3>4. Becomes(w, s)
      BY <1>1, <3>1, <3>3, BecomesFacts
    <3> QED  BY <2>1, <3>1, <3>2, <3>4, CountedSession
  <2> QED  BY <2>2, <2>3
<1>11. CASE FinishPost(w) \/ SyncFails(w)
  BY <1>2, <1>11 DEF FinishPost, SyncFails, panelVars, agentVars, raceVars
<1> QED  BY <1>3, <1>4, <1>7, <1>8, <1>9, <1>10, <1>11

\* A step of nobody's session.
LEMMA OutsideGenerations ==
    ASSUME TypeOK, GenerationInv, UNCHANGED <<db, work, last>>, desired' \in {desired} \cup late,
           late' \subseteq late
    PROVE  GenerationInv'
<1>1. Known' \subseteq Known /\ Held' = Held /\ Copies' = Copies
  BY DEF Known, Held, Copies
<1>2. \A v \in Workers : work'[v].answer # "conflict"
  BY DEF GenerationInv
<1>3. \A v \in Held' : v \in Held /\ work'[v].row = work[v].row
  BY <1>1
<1> QED  BY <1>1, <1>2, <1>3, QuietStep

LEMMA PowerGenerations ==
    ASSUME TypeOK, GenerationInv, NEW power \in Powers, SetDesiredPowerState(power)
    PROVE  GenerationInv'
<1>1. /\ db' = [db EXCEPT !.power = power, !.gen = @ + 1]
      /\ UNCHANGED <<work, late, desired, last>>
  BY DEF SetDesiredPowerState, agentVars, raceVars
<1>2. /\ db \in DbRows /\ db.gen \in Nat /\ Known' = Known /\ Held' = Held /\ Copies' = Copies
  BY <1>1 DEF TypeOK, DbRows, Known, Held, Copies
<1>3. /\ db'.gen = db.gen + 1 /\ db'.edit = db.edit /\ db'.hash = db.hash
      /\ db'.suspension = db.suspension /\ db'.control = db.control
  BY <1>1, <1>2 DEF DbRows
<1>4. UpTo(db.gen, Known, Copies)
  BY DEF GenerationInv, Coherent, UpTo, Covers, Original
<1>5. Coherent(Known, Copies, db')
  <2>1. Coherent(Known, Copies, db) /\ db'.gen \in Nat /\ db'.gen > db.gen
    BY <1>2, <1>3 DEF GenerationInv
  <2> QED  BY <1>2, <1>4, <2>1, LaterCoherent
<1>6. \A w \in Held : last = w => Latest(Known, Copies, db', work[w].row)
  BY <1>3 DEF GenerationInv, Latest
<1>7. \A v \in Workers : work'[v].answer # "conflict"
  BY <1>1 DEF GenerationInv
<1> QED  BY <1>1, <1>2, <1>5, <1>6, <1>7 DEF GenerationInv

LEMMA GenerationStep ==
    ASSUME TypeOK, GenerationInv, [Next]_vars, ~raced'
    PROVE  GenerationInv'
<1>1. CASE \E power \in Powers : SetDesiredPowerState(power)
  BY <1>1, PowerGenerations
<1>2. CASE BlueprintChanges \/ Quarantine \/ UNCHANGED vars
  BY <1>2, OutsideGenerations
     DEF BlueprintChanges, Quarantine, vars, agentVars, panelVars, raceVars
<1>3. CASE DeliverLate
  <2>1. PICK p \in late : Accept(p) /\ late' = late \ {p}
    BY <1>3 DEF DeliverLate
  <2>2. desired' \in {desired, p}
    BY <2>1, AcceptFacts DEF TypeOK
  <2> QED  BY <1>3, <2>1, <2>2, OutsideGenerations DEF DeliverLate, panelVars, raceVars
<1>4. ASSUME NEW w \in Workers,
             \/ Intent(w) \/ Sync(w) \/ FinishPost(w)
             \/ AcceptInterrupted(w) \/ PostTimesOut(w) \/ SyncFails(w)
      PROVE  GenerationInv'
  BY <1>4, IntentGenerations, OldCompileGenerations, NewCompileGenerations, SyncGenerations
     DEF Sync
<1> QED  BY <1>1, <1>2, <1>3, <1>4 DEF Next

-----------------------------------------------------------------------------
(* A clear is not forgotten.                                               *)

\* Whatever a session counted is unlike every copy that is held.
LEMMA CountedMoves ==
    ASSUME TypeOK, GenerationInv, NEW v \in Held, NEW w \in Held, Writes(w), ~raced',
           db'.gen = Counted(w)
    PROVE  db' # work[v].row
<1>1. work[v].row \in Copies /\ work[v].row.gen \in Nat
  BY Generations DEF Copies
<1>2. work[v].row.gen <= work[w].row.gen
  BY <1>1, WriteFacts, WriterLatest DEF Latest, UpTo
<1> QED  BY <1>1, <1>2, RowFacts DEF Held

\* Whatever is written is unlike every copy that is held.
LEMMA RowMoves ==
    ASSUME TypeOK, GenerationInv, [Next]_vars, ~raced', NEW v \in Held, db' # db
    PROVE  db' # work[v].row
<1>1. /\ work[v].row \in Copies /\ work[v].row.gen \in Nat /\ db \in DbRows /\ db.gen \in Nat
      /\ Original(db, work[v].row)
  BY Generations, KnownTypes DEF Copies, GenerationInv, Coherent
<1>2. ASSUME NEW w \in Workers, work[w].at # "idle", Writes(w), db'.gen = Counted(w)
      PROVE  db' # work[v].row
  BY <1>2, CountedMoves DEF Held
<1>3. ASSUME NEW w \in Workers, Intent(w)
      PROVE  work[w].at # "idle" /\ Writes(w) /\ db'.gen = Counted(w)
  BY <1>1, <1>3 DEF Intent, EditConfiguration, SetRecoverySuspension, ClearRecoverySuspension,
                    PrepareQuarantineClear, Commits, DbRows
<1>4. ASSUME NEW w \in Workers, CommitObserved(w)
      PROVE  work[w].at # "idle" /\ Writes(w) /\ db'.gen = Counted(w)
  BY <1>1, <1>4 DEF CommitObserved, DbRows
<1>5. ASSUME NEW w \in Workers, Compile(w)
      PROVE  db' # work[v].row
  <2> DEFINE row == work[w].row
  <2>1. w \in Held /\ row.hash # Effective(row) /\ db.hash = row.hash /\ db' = Hashed(row)
    BY <1>5 DEF Compile, Held
  <2>2. /\ db'.hash = Effective(row)
        /\ db'.gen = IF row.hash = NoHash THEN db.gen ELSE db.gen + 1
    BY <1>1, <2>1 DEF Hashed, DbRows
  <2> HIDE DEF row
  <2> QED  BY <1>1, <2>1, <2>2 DEF Original
<1>6. ASSUME NEW power \in Powers, SetDesiredPowerState(power)
      PROVE  db' # work[v].row
  <2>1. db'.gen = db.gen + 1
    BY <1>1, <1>6 DEF SetDesiredPowerState, DbRows
  <2> QED  BY <1>1, <2>1 DEF Original
<1>7. \/ \E w \in Workers : Intent(w) \/ CommitObserved(w) \/ Compile(w)
      \/ \E power \in Powers : SetDesiredPowerState(power)
  BY DEF Next, Sync, BlueprintChanges, Load, Post, Deliver, Observe, FinishPost,
         AcceptInterrupted, PostTimesOut, SyncFails, DeliverLate, Quarantine, panelVars, vars
<1> QED  BY <1>2, <1>3, <1>4, <1>5, <1>6, <1>7

\* A step that asks for no clear, and after which only those sessions have observed that had.
LEMMA ClearKept ==
    ASSUME TypeOK, TypeOK', GenerationInv, ClearInv, [Next]_vars, ~raced',
           meant' = meant, quarantines' = quarantines,
           runtime'.quarantine \in {runtime.quarantine, 0},
           \A v \in Workers : work'[v].at = "observed" =>
               work'[v] = work[v] /\ (last' = v => last = v)
    PROVE  ClearInv'
<1>1. /\ runtime.quarantine \in Nat /\ runtime'.quarantine \in Nat
      /\ quarantines \in Nat /\ meant \in Nat
  BY ConstantsInRange DEF TypeOK
<1>2. runtime'.quarantine <= quarantines' /\ meant' <= quarantines'
  BY <1>1 DEF ClearInv
<1>3. ASSUME NEW v \in Workers PROVE ClearFits(v)'
  <2> SUFFICES ASSUME /\ work'[v].at = "observed" /\ work'[v].clean
                      /\ work'[v].row.control # 0 /\ ~Outdated(v)'
               PROVE  runtime'.quarantine = 0 \/ runtime'.quarantine > meant'
    BY DEF ClearFits
  <2>1. work'[v] = work[v] /\ (last' = v => last = v) /\ v \in Held
    BY DEF Held
  <2>2. ~Outdated(v)
    BY <2>1, RowMoves DEF Outdated
  <2> QED  BY <1>1, <2>1, <2>2 DEF ClearInv, ClearFits
<1> QED  BY <1>2, <1>3 DEF ClearInv

LEMMA ClearStep ==
    ASSUME TypeOK, TypeOK', GenerationInv, ClearInv, [Next]_vars, ~raced'
    PROVE  ClearInv'
<1>1. /\ work \in [Workers -> Sessions] /\ runtime.quarantine \in Nat
      /\ runtime \in [quarantine: 0..MaxQuarantines, lastClear: Numbers]
      /\ quarantines \in Nat /\ meant \in Nat
  BY ConstantsInRange DEF TypeOK
<1> DEFINE Quiet == \A v \in Workers : work'[v].at = "observed" =>
                        work'[v] = work[v] /\ (last' = v => last = v)
<1>2. ASSUME NEW w \in Workers, NEW s, work' = [work EXCEPT ![w] = s], s.at # "observed",
             last' \in {last, w}
      PROVE  Quiet
  BY <1>1, <1>2
<1>3. CASE \/ \E power \in Powers : SetDesiredPowerState(power)
           \/ BlueprintChanges \/ UNCHANGED vars
  BY <1>3, ClearKept DEF SetDesiredPowerState, BlueprintChanges, vars, agentVars, raceVars
<1>4. ASSUME NEW w \in Workers, NEW row, NEW lease \in Numbers, Commits(w, row, lease)
      PROVE  /\ Quiet /\ quarantines' = quarantines /\ runtime' = runtime
             /\ last' = w /\ work'[w].at # "observed"
  <2>1. [IdleSession EXCEPT !.lease = lease].at # "observed"
    BY EndedFacts
  <2> QED  BY <1>1, <1>4, <2>1 DEF Commits, Writes, agentVars
<1>5. ASSUME NEW w \in Workers, Intent(w)
      PROVE  ClearInv'
  <2>1. work[w].lease \in Numbers /\ 0 \in Numbers
    BY RowFacts, ConstantsInRange DEF Numbers
  <2>2. CASE EditConfiguration(w)
    <3>1. meant' = meant /\ Commits(w, db', work[w].lease)
      BY <2>2 DEF EditConfiguration, Commits
    <3> QED  BY <2>1, <3>1, <1>4, ClearKept
  <2>3. CASE SetRecoverySuspension(w)
    <3>1. PICK n : Numbered(n) /\ meant' = meant /\ Commits(w, db', n)
      BY <2>3 DEF SetRecoverySuspension, Commits
    <3> QED  BY <3>1, <1>4, NumberedFacts, ClearKept
  <2>4. CASE ClearRecoverySuspension(w)
    <3>1. meant' = meant /\ Commits(w, db', 0)
      BY <2>4 DEF ClearRecoverySuspension, Commits
    <3> QED  BY <2>1, <3>1, <1>4, ClearKept
  <2>5. CASE PrepareQuarantineClear(w)
    <3>1. PICK n : /\ meant' = runtime.quarantine /\ Commits(w, db', work[w].lease)
                   /\ db' = [db EXCEPT !.control = n, !.gen = Counted(w)]
      BY <2>5 DEF PrepareQuarantineClear, Commits
    <3>2. /\ Quiet /\ quarantines' = quarantines /\ runtime' = runtime
          /\ last' = w /\ work'[w].at # "observed"
      BY <2>1, <3>1, <1>4
    <3>3. ASSUME NEW v \in Held PROVE db' # work[v].row
      <4>1. w \in Held /\ Writes(w) /\ db'.gen = Counted(w)
        BY <3>1 DEF Commits, Held, TypeOK, DbRows
      <4> QED  BY <4>1, CountedMoves
    <3>4. \A v \in Workers : work'[v].at = "observed" => v # w /\ v \in Held /\ work'[v] = work[v]
      BY <3>2 DEF Held
    <3>5. ASSUME NEW v \in Workers PROVE ClearFits(v)'
      <4>1. work'[v].at = "observed" => Outdated(v)'
        BY <1>1, <3>2, <3>3, <3>4 DEF Outdated, Held
      <4> QED  BY <4>1 DEF ClearFits
    <3> QED  BY <3>1, <3>2, <3>5 DEF ClearInv
  <2> QED  BY <1>5, <2>2, <2>3, <2>4, <2>5 DEF Intent
<1>6. ASSUME NEW w \in Workers,
             \/ Load(w) \/ Compile(w) \/ Post(w) \/ Deliver(w)
             \/ AcceptInterrupted(w) \/ PostTimesOut(w)
      PROVE  ClearInv'
  <2>1. /\ last' \in {last, w} /\ work'[w].at # "observed"
        /\ \A v \in Workers : v # w => work'[v] = work[v]
    <3>1. CASE Load(w)
      <4>1. work'[w] = [Ended(w) EXCEPT !.at = "loaded", !.row = db]
        BY <1>1, <3>1 DEF Load
      <4>2. work'[w].at = "loaded"
        BY <4>1, EndedFacts, RowFacts DEF Sessions
      <4> QED  BY <1>1, <3>1, <4>2 DEF Load, Reads
    <3>2. CASE Compile(w) \/ Post(w)
      BY <1>1, <3>2 DEF Compile, Post, Sessions, Writes, raceVars
    <3>3. CASE Deliver(w) \/ AcceptInterrupted(w) \/ PostTimesOut(w)
      BY <1>1, <3>3 DEF Deliver, AcceptInterrupted, PostTimesOut, Sessions, raceVars
    <3> QED  BY <1>6, <3>1, <3>2, <3>3
  <2>2. meant' = meant /\ quarantines' = quarantines
    BY <1>6 DEF Load, Compile, Post, Deliver, AcceptInterrupted, PostTimesOut, panelVars, agentVars
  <2>3. runtime'.quarantine \in {runtime.quarantine, 0}
    <3>1. CASE Deliver(w)
      BY <3>1, RowFacts, AcceptFacts DEF Deliver
    <3>2. CASE ~Deliver(w)
      BY <1>6, <3>2 DEF Load, Compile, Post, AcceptInterrupted, PostTimesOut, agentVars
    <3> QED  BY <3>1, <3>2
  <2>4. Quiet
    BY <2>1
  <2> QED  BY <2>2, <2>3, <2>4, ClearKept
<1>7. ASSUME NEW w \in Workers, Observe(w)
      PROVE  ClearInv'
  <2>1. UNCHANGED <<db, runtime, quarantines, meant>>
    BY <1>7 DEF Observe, panelVars, agentVars
  <2>2. work'[w].clean => runtime.quarantine = 0
    BY <1>1, <1>7 DEF Observe, Clean, Sessions
  <2>3. ASSUME NEW v \in Workers, v # w PROVE ClearFits(v)'
    <3>1. work'[v] = work[v] /\ last' \in {last, w}
      BY <1>1, <1>7, <2>3 DEF Observe, Reads, raceVars
    <3>2. ClearFits(v)
      BY DEF ClearInv
    <3> QED  BY <2>1, <2>3, <3>1, <3>2 DEF ClearFits, Outdated
  <2>4. ClearFits(w)'
    BY <2>1, <2>2 DEF ClearFits
  <2> QED  BY <2>1, <2>3, <2>4 DEF ClearInv
<1>8. ASSUME NEW w \in Workers, CommitObserved(w) \/ FinishPost(w) \/ SyncFails(w)
      PROVE  ClearInv'
  <2>1. Ended(w).at # "observed"
    BY EndedFacts, RowFacts
  <2>2. /\ work' = [work EXCEPT ![w] = Ended(w)] /\ last' \in {last, w}
        /\ UNCHANGED <<runtime, quarantines, meant>>
    BY <1>8 DEF CommitObserved, FinishPost, SyncFails, Writes, panelVars, agentVars, raceVars
  <2>3. Quiet
    BY <1>2, <2>1, <2>2
  <2> QED  BY <2>2, <2>3, ClearKept
<1>9. CASE DeliverLate
  <2>1. PICK p \in late : Accept(p)
    BY <1>9 DEF DeliverLate
  <2>2. runtime'.quarantine \in {runtime.quarantine, 0}
    BY <2>1, AcceptFacts DEF TypeOK
  <2> QED  BY <1>9, <2>2, ClearKept DEF DeliverLate, panelVars, raceVars
<1>10. CASE Quarantine
  <2>1. /\ quarantines' = quarantines + 1 /\ runtime'.quarantine = quarantines + 1
        /\ UNCHANGED <<db, work, meant, last>>
    BY <1>1, <1>10 DEF Quarantine, panelVars, raceVars
  <2>2. runtime'.quarantine > meant' /\ runtime'.quarantine <= quarantines'
        /\ meant' <= quarantines'
    BY <1>1, <2>1 DEF ClearInv
  <2> QED  BY <2>2 DEF ClearInv, ClearFits
<1> QED  BY <1>3, <1>5, <1>6, <1>7, <1>8, <1>9, <1>10 DEF Next, Sync

\* The only step that drops a pending clear is the commit of a clean report.
LEMMA ForgetStep ==
    ASSUME TypeOK, ClearInv, [Next]_vars, ~raced', db.control # 0, db'.control = 0
    PROVE  runtime.quarantine = 0 \/ runtime.quarantine # meant
<1>1. /\ db \in DbRows /\ db' # db /\ meant \in Nat /\ runtime.quarantine \in Nat
  BY ConstantsInRange DEF TypeOK
<1>2. ASSUME NEW w \in Workers, CommitObserved(w)
      PROVE  runtime.quarantine = 0 \/ runtime.quarantine # meant
  <2>1. /\ work[w].at = "observed" /\ work[w].clean /\ work[w].row.control # 0
        /\ ~Outdated(w)
    BY <1>1, <1>2, WriteFacts DEF CommitObserved
  <2> QED  BY <1>1, <2>1 DEF ClearInv, ClearFits
<1>3. ASSUME NEW w \in Workers, Intent(w) PROVE FALSE
  BY <1>1, <1>3, NumberedFacts
     DEF Intent, EditConfiguration, SetRecoverySuspension, ClearRecoverySuspension,
         PrepareQuarantineClear, Commits, DbRows
<1>4. ASSUME NEW w \in Workers, Compile(w) PROVE FALSE
  BY <1>1, <1>4 DEF Compile, Hashed, DbRows
<1>5. ASSUME NEW power \in Powers, SetDesiredPowerState(power) PROVE FALSE
  BY <1>1, <1>5 DEF SetDesiredPowerState, DbRows
<1>6. db' = db \/ (\E w \in Workers : CommitObserved(w) \/ Intent(w) \/ Compile(w))
               \/ (\E power \in Powers : SetDesiredPowerState(power))
  BY DEF Next, Sync, BlueprintChanges, Load, Post, Deliver, Observe, FinishPost,
         AcceptInterrupted, PostTimesOut, SyncFails, DeliverLate, Quarantine, panelVars, vars
<1> QED  BY <1>1, <1>2, <1>3, <1>4, <1>5, <1>6

-----------------------------------------------------------------------------
(* The results.                                                            *)

\* Every variable keeps its type, for any number of sessions that overlap: a session between
\* two requests keeps its lease only, and what the agent acknowledged is in its file.
THEOREM TypeCorrect == Spec => []TypeOK
<1>1. Init => TypeOK
  <2> SUFFICES ASSUME Init PROVE TypeOK
    OBVIOUS
  <2>1. /\ db \in DbRows /\ db.gen # 0 /\ blueprint \in Numbers /\ late \subseteq Payloads
        /\ desired \in Payloads /\ intents \in Numbers /\ quarantines \in 0..MaxQuarantines
        /\ faults \in 0..MaxFaults /\ meant \in 0..MaxQuarantines
        /\ runtime \in [quarantine: 0..MaxQuarantines, lastClear: Numbers]
        /\ last \in Workers
    BY InitialRecords, ConstantsInRange DEF Init, Numbers
  <2>2. work \in [Workers -> Sessions] /\ \A w \in Workers : work[w] = IdleSession
    BY InitialRecords DEF Init
  <2>3. \A w \in Workers : work[w] = Ended(w)
    BY <2>2 DEF Ended, IdleSession
  <2>4. raced \in BOOLEAN
    BY DEF Init
  <2> QED  BY <2>1, <2>2, <2>3, <2>4, InitialRecords DEF TypeOK
<1> QED  BY <1>1, TypeStep, PTL DEF Spec

\* Without a race the inductive invariant holds, whatever sessions overlap.
LEMMA Invariance == Spec => []IInv
<1>1. TypeOK /\ Init => IInv
  <2> SUFFICES ASSUME TypeOK, Init PROVE IInv
    OBVIOUS
  <2>1. /\ \A w \in Workers : work[w] = IdleSession
        /\ desired = NoPayload /\ late = {} /\ db = NewRow
        /\ runtime.quarantine = 0 /\ quarantines = 0 /\ meant = 0
    BY DEF Init
  <2>2. (\A p \in Known : p = NoPayload) /\ Held = {} /\ Copies = {}
    BY <2>1, InitialRecords DEF Known, Held, Copies
  <2>3. Coherent(Known, Copies, db)
    BY <2>1, <2>2, InitialRecords DEF Coherent, OnePerGeneration, Covers
  <2>4. GenerationInv
    BY <2>1, <2>2, <2>3, InitialRecords DEF GenerationInv
  <2>5. ClearInv
    BY <2>1, InitialRecords DEF ClearInv, ClearFits
  <2> QED  BY <2>4, <2>5 DEF IInv
<1>2. ASSUME IInv, [Next]_vars PROVE IInv'
  <2>1. TypeOK /\ TypeOK'
    BY <1>2, TypeStep DEF IInv
  <2>2. raced => raced'
    BY <1>2, <2>1, RaceStays
  <2> QED  BY <1>2, <2>1, <2>2, GenerationStep, ClearStep DEF IInv
<1> QED  BY <1>1, <1>2, TypeCorrect, PTL DEF Spec

\* A generation names one payload: the agent never answers 409 generation_conflict, however
\* often the intent changes, posts are lost, late or interrupted and sessions overlap, unless
\* a session wrote the row from a copy that another one had outdated.
THEOREM GenerationsHold == Spec => []NoGenerationConflict
<1>1. IInv => NoGenerationConflict
  BY DEF IInv, GenerationInv, NoGenerationConflict
<1> QED  BY <1>1, Invariance, PTL

\* The sync drops a quarantine clear only when the quarantine it was asked for is over, also
\* if the agent died while it accepted the clear, or was quarantined again since, or other
\* sessions asked for another clear meanwhile; unless a session wrote from an outdated copy.
THEOREM ClearsHold == Spec => ClearNotForgotten
<1>1. ASSUME IInv, [Next]_vars, db.control # 0, db'.control = 0
      PROVE  raced' \/ runtime.quarantine = 0 \/ runtime.quarantine # meant
  BY <1>1, RaceStays, ForgetStep DEF IInv
<1>2. IInv /\ [Next]_vars =>
        [db.control # 0 /\ db'.control = 0 =>
             raced' \/ runtime.quarantine = 0 \/ runtime.quarantine # meant]_vars
  BY <1>1
<1> QED  BY <1>2, Invariance, PTL DEF Spec, ClearNotForgotten
=============================================================================
