----------------------- MODULE GuardianDeliveryProofs -----------------------
(***************************************************************************)
(* Proofs about GuardianDelivery for every number of incidents, attempts,  *)
(* retained files and faults: all that its safety run checks, and that the *)
(* tables of the panel implement IncidentLog.                              *)
(*                                                                         *)
(* A sync works on its own copy of the tables, so the inductive invariant  *)
(* says of that copy what it says of the tables, and that committing it    *)
(* takes nothing away from them (InTransaction).                           *)
(***************************************************************************)
EXTENDS GuardianDelivery, FiniteSetTheorems, TLAPS

\* Rows and deliveries fit: each delivery is counted once, the incident that created a row
\* was delivered, and a delivery points to a row.
Accounted(table, deliveries) ==
    /\ \A r \in Incidents :
           table[r].occurrences = Cardinality({i \in Incidents : deliveries[i] = r})
    /\ \A r \in Incidents : table[r].status # "none" => deliveries[r] # NoDelivery
    /\ \A i \in Incidents :
           deliveries[i] # NoDelivery => table[deliveries[i]].status # "none"

\* What the open transaction has over the tables.
InTransaction ==
    /\ Accounted(sync.rows, sync.delivered)
    /\ \A i \in InBatch \ sync.todo :
           /\ sync.delivered[i] # NoDelivery
           /\ Made(sync.batch[i].attempts) \subseteq Made(sync.rows[sync.delivered[i]].attempts)
    /\ \A i \in Incidents : delivered[i] # NoDelivery => sync.delivered[i] = delivered[i]
    /\ \A i \in Incidents \ InBatch : sync.delivered[i] # NoDelivery => delivered[i] # NoDelivery
    /\ \A r \in Incidents : Made(rows[r].attempts) \subseteq Made(sync.rows[r].attempts)
    /\ \A r \in sync.found : sync.rows[r].status # "none"

DInv ==
    /\ TypeOK
    /\ CommittedBeforeAcknowledged
    /\ Accounted(rows, delivered)
    /\ CommittedIsRecorded
    /\ sync.at = "ingesting" => InTransaction

-----------------------------------------------------------------------------
(* The agent's side.                                                       *)

LEMMA ConstantsInRange ==
    /\ MaxIncidents \in Nat /\ MaxAttempts \in Nat /\ Retention \in Nat /\ MaxFaults \in Nat
    /\ "none" \notin Types
BY DeliveryAssumption DEF DeliveryAssumption

LEMMA EmptyRecords ==
    /\ NoHistory \in Histories /\ NoFile \in Files /\ NoRow \in Rows
    /\ IdleSync \in Syncs
    /\ Made(NoHistory) = {}
BY DEF NoHistory, Histories, NoFile, Files, NoRow, Rows, IdleSync, Syncs, Statuses, Made,
       Deliveries, NoDelivery

\* Incidents are opened in order, so that the next one has every earlier one before it.
LEMMA NextIncident ==
    ASSUME TypeOK, NEW i \in Incidents, i = Cardinality(Opened) + 1
    PROVE  \A j \in Incidents : j < i => kind[j] # "none"
<1> SUFFICES ASSUME NEW j \in Incidents, j < i, kind[j] = "none" PROVE FALSE
  OBVIOUS
<1>1. j \in Nat \ {0} /\ i \in Nat
  BY ConstantsInRange DEF Incidents
<1>2. Opened \in SUBSET (1..(j - 1))
  <2> SUFFICES ASSUME NEW k \in Opened PROVE k \in 1..(j - 1)
    OBVIOUS
  <2>1. k \in Incidents /\ k \in Nat \ {0} /\ kind[k] # "none"
    BY ConstantsInRange DEF Opened, Incidents
  <2>2. ~(j < k) /\ j # k
    BY <2>1 DEF TypeOK
  <2>3. QED
    BY <1>1, <2>1, <2>2
<1>3. IsFiniteSet(1..(j - 1)) /\ Cardinality(1..(j - 1)) = j - 1
  <2>1. 1 \in Int /\ j - 1 \in Int
    BY <1>1
  <2>2. /\ IsFiniteSet(1..(j - 1))
        /\ Cardinality(1..(j - 1)) = IF 1 > j - 1 THEN 0 ELSE (j - 1) - 1 + 1
    BY <2>1, FS_Interval, Zenon
  <2>3. QED
    BY <1>1, <2>2
<1>4. Cardinality(Opened) <= j - 1 /\ Cardinality(Opened) \in Nat
  <2>1. IsFiniteSet(Opened) /\ Cardinality(Opened) <= Cardinality(1..(j - 1))
    BY <1>2, <1>3, FS_Subset
  <2>2. QED
    BY <1>3, <2>1, FS_CardinalityType
<1>5. QED
  BY <1>1, <1>4

LEMMA SubjectOpens ==
    ASSUME TypeOK, NEW t \in Types, NEW i \in Incidents, Subject(t, i)
    PROVE  /\ kind' \in [Incidents -> Types \cup {"none"}]
           /\ \A j, k \in Incidents : j < k /\ kind'[k] # "none" => kind'[j] # "none"
           /\ \A j \in Incidents : kind'[j] # "none" => kind[j] # "none" \/ j = i
<1>1. CASE pass.active # 0
  BY <1>1 DEF Subject, TypeOK
<1>2. CASE pass.active = 0
  <2>1. i = Cardinality(Opened) + 1 /\ kind' = [kind EXCEPT ![i] = t]
    BY <1>2 DEF Subject
  <2>2. \A j \in Incidents : j < i => kind[j] # "none"
    BY <2>1, NextIncident
  <2>3. t # "none"
    BY ConstantsInRange
  <2>4. QED
    BY <2>1, <2>2, <2>3 DEF TypeOK
<1>3. QED
  BY <1>1, <1>2

\* A file that is written again is to be delivered again.
LEMMA UpsertQueues ==
    ASSUME TypeOK, CommittedBeforeAcknowledged,
           NEW i \in Incidents \cup {0}, NEW status \in {"open", "resolved"},
           NEW history \in Histories, Upsert(i, status, history),
           delivered' = delivered,
           \A j \in Incidents : kind'[j] # "none" => kind[j] # "none" \/ j = i
    PROVE  queue' \in [Incidents -> Files] /\ CommittedBeforeAcknowledged'
<1> DEFINE file == [status |-> status, attempts |-> history, acknowledged |-> FALSE]
<1>1. file \in Files
  BY DEF Files, Statuses
<1>2. queue \in [Incidents -> Files] /\ queue' = [queue EXCEPT ![i] = file]
  BY DEF TypeOK, Upsert
<1>3. file.status # "none" /\ ~file.acknowledged
  OBVIOUS
<1> HIDE DEF file
<1>4. \A j \in Incidents : queue'[j] = IF j = i THEN file ELSE queue[j]
  BY <1>2
<1>5. CommittedBeforeAcknowledged'
  BY <1>3, <1>4 DEF CommittedBeforeAcknowledged, Opened, Unacknowledged, Queued
<1>6. QED
  BY <1>1, <1>2, <1>5

LEMMA AgentStepHolds ==
    ASSUME DInv, UNCHANGED panelVars, sync' = sync, TypeOK', CommittedBeforeAcknowledged'
    PROVE  DInv' /\ rows' = rows
BY DEF DInv, panelVars, Accounted, CommittedIsRecorded, InTransaction, InBatch

LEMMA ReportHolds ==
    ASSUME DInv, NEW t \in Types, Report(t)
    PROVE  DInv' /\ rows' = rows
<1>1. PICK i \in Incidents :
          /\ pass.running = 0
          /\ Subject(t, i) /\ Upsert(i, "open", pass.attempts)
          /\ pass' = [pass EXCEPT !.active = i]
          /\ UNCHANGED <<disk, attempted, sync, faults>> /\ UNCHANGED panelVars
  BY DEF Report
<1>2. TypeOK /\ CommittedBeforeAcknowledged /\ pass.attempts \in Histories
  BY DEF DInv, TypeOK, Passes
<1>3. queue' \in [Incidents -> Files] /\ CommittedBeforeAcknowledged'
  BY <1>1, <1>2, SubjectOpens, UpsertQueues DEF panelVars
<1>4. pass' \in Passes
  BY <1>1, <1>2 DEF TypeOK, Passes
<1>5. TypeOK'
  BY <1>1, <1>2, <1>3, <1>4, SubjectOpens DEF TypeOK, panelVars, InBatch
<1>6. QED
  BY <1>1, <1>3, <1>5, AgentStepHolds

LEMMA StartAttemptHolds ==
    ASSUME DInv, NEW t \in Types, StartAttempt(t)
    PROVE  DInv' /\ rows' = rows
<1> DEFINE History(kept) == [a \in Attempts |->
                                 CASE a = attempted + 1 -> "running"
                                   [] a \in kept -> pass.attempts[a]
                                   [] OTHER -> "none"]
<1>1. PICK i \in Incidents, kept \in SUBSET Made(pass.attempts) :
          /\ attempted < MaxAttempts
          /\ Subject(t, i) /\ Upsert(i, "open", History(kept))
          /\ attempted' = attempted + 1
          /\ pass' = [pass EXCEPT !.active = i, !.attempts = History(kept),
                                  !.running = attempted + 1]
          /\ UNCHANGED <<disk, sync, faults>> /\ UNCHANGED panelVars
  BY DEF StartAttempt
<1>2. TypeOK /\ CommittedBeforeAcknowledged /\ pass \in Passes /\ pass.attempts \in Histories
  BY DEF DInv, TypeOK, Passes
<1>3. History(kept) \in Histories
  BY <1>2 DEF Histories
<1>4. attempted' \in 0..MaxAttempts /\ attempted + 1 \in Attempts
  BY <1>1, <1>2, ConstantsInRange DEF TypeOK, Attempts
<1> HIDE DEF History
<1>5. queue' \in [Incidents -> Files] /\ CommittedBeforeAcknowledged'
  BY <1>1, <1>2, <1>3, SubjectOpens, UpsertQueues DEF panelVars
<1>6. pass' \in Passes
  BY <1>1, <1>2, <1>3, <1>4 DEF Passes
<1>7. TypeOK'
  BY <1>1, <1>2, <1>4, <1>5, <1>6, SubjectOpens DEF TypeOK, panelVars, InBatch
<1>8. QED
  BY <1>1, <1>5, <1>7, AgentStepHolds

LEMMA FinishAttemptHolds == DInv /\ FinishAttempt => DInv' /\ rows' = rows
<1> SUFFICES ASSUME DInv, FinishAttempt PROVE DInv' /\ rows' = rows
  OBVIOUS
<1> DEFINE history == [pass.attempts EXCEPT ![pass.running] = "finished"]
<1>1. TypeOK /\ CommittedBeforeAcknowledged /\ pass \in Passes
  BY DEF DInv, TypeOK
<1>2. history \in Histories /\ pass.active \in Incidents \cup {0}
  BY <1>1 DEF Passes, Histories
<1>3. /\ Upsert(pass.active, "open", history)
      /\ pass' = [pass EXCEPT !.attempts = history, !.running = 0]
      /\ UNCHANGED <<kind, disk, attempted, sync, faults>> /\ UNCHANGED panelVars
  BY DEF FinishAttempt
<1> HIDE DEF history
<1>4. queue' \in [Incidents -> Files] /\ CommittedBeforeAcknowledged'
  BY <1>1, <1>2, <1>3, UpsertQueues DEF panelVars
<1>5. pass' \in Passes
  BY <1>1, <1>2, <1>3 DEF Passes
<1>6. TypeOK'
  BY <1>1, <1>3, <1>4, <1>5 DEF TypeOK, panelVars, InBatch
<1>7. QED
  BY <1>3, <1>4, <1>6, AgentStepHolds

LEMMA ResolveHolds == DInv /\ Resolve => DInv' /\ rows' = rows
<1> SUFFICES ASSUME DInv, Resolve PROVE DInv' /\ rows' = rows
  OBVIOUS
<1>1. TypeOK /\ CommittedBeforeAcknowledged /\ pass \in Passes
  BY DEF DInv, TypeOK
<1>2. pass.attempts \in Histories /\ pass.active \in Incidents
  BY <1>1 DEF Passes, Resolve
<1>3. /\ Upsert(pass.active, "resolved", pass.attempts)
      /\ pass' = [active |-> 0, attempts |-> NoHistory, closed |-> kind[pass.active],
                  running |-> 0]
      /\ UNCHANGED <<kind, disk, attempted, sync, faults>> /\ UNCHANGED panelVars
  BY DEF Resolve
<1>4. queue' \in [Incidents -> Files] /\ CommittedBeforeAcknowledged'
  BY <1>1, <1>2, <1>3, UpsertQueues DEF panelVars
<1>5. pass' \in Passes
  BY <1>1, <1>2, <1>3, EmptyRecords DEF Passes, TypeOK
<1>6. TypeOK'
  BY <1>1, <1>3, <1>4, <1>5 DEF TypeOK, panelVars, InBatch
<1>7. QED
  BY <1>3, <1>4, <1>6, AgentStepHolds

\* Steps that leave the queue alone.
LEMMA AgentRecordsHold ==
    DInv /\ (SaveRuntime \/ AcceptQuarantineClear \/ AgentCrash) => DInv' /\ rows' = rows
<1> SUFFICES ASSUME DInv, SaveRuntime \/ AcceptQuarantineClear \/ AgentCrash
             PROVE  DInv' /\ rows' = rows
  OBVIOUS
<1>1. TypeOK /\ CommittedBeforeAcknowledged
  BY DEF DInv
<1>2. /\ kind' = kind /\ queue' = queue /\ attempted' = attempted /\ sync' = sync
      /\ UNCHANGED panelVars
  BY DEF SaveRuntime, AcceptQuarantineClear, AgentCrash
<1>3. disk' \in Runtime /\ pass' \in Passes
  BY <1>1, EmptyRecords
  DEF SaveRuntime, AcceptQuarantineClear, AgentCrash, TypeOK, Runtime, Passes, Stored, Restarted
<1>4. faults' \in 0..MaxFaults
  BY <1>1, ConstantsInRange DEF SaveRuntime, AcceptQuarantineClear, AgentCrash, TypeOK
<1>5. TypeOK'
  BY <1>1, <1>2, <1>3, <1>4 DEF TypeOK, panelVars, InBatch
<1>6. CommittedBeforeAcknowledged'
  BY <1>1, <1>2 DEF CommittedBeforeAcknowledged, Opened, Unacknowledged, Queued, panelVars
<1>7. QED
  BY <1>2, <1>5, <1>6, AgentStepHolds

-----------------------------------------------------------------------------
(* The panel's side.                                                       *)

LEMMA ListHolds == DInv /\ List => DInv' /\ rows' = rows
<1> SUFFICES ASSUME DInv, List PROVE DInv' /\ rows' = rows
  OBVIOUS
<1> DEFINE read == [i \in Incidents |-> IF i \in Unacknowledged THEN queue[i] ELSE NoFile]
<1>1. TypeOK /\ CommittedBeforeAcknowledged /\ Accounted(rows, delivered) /\ CommittedIsRecorded
  BY DEF DInv
<1>2. /\ sync' = [at |-> "ingesting", todo |-> Unacknowledged, rows |-> rows,
                  delivered |-> delivered, found |-> Unresolved(rows), batch |-> read]
      /\ UNCHANGED <<faults>> /\ UNCHANGED agentVars /\ UNCHANGED panelVars
  BY DEF List
<1>3. read \in [Incidents -> Files]
  BY <1>1, EmptyRecords DEF TypeOK
<1>4. InBatch' = Unacknowledged
  BY <1>1, <1>2 DEF InBatch, Unacknowledged, Queued, NoFile
<1>5. sync' \in Syncs
  BY <1>1, <1>2, <1>3 DEF Syncs, TypeOK, Unacknowledged, Queued, Unresolved
<1>6. TypeOK'
  BY <1>1, <1>2, <1>4, <1>5 DEF TypeOK, agentVars, panelVars
<1>7. CommittedBeforeAcknowledged' /\ CommittedIsRecorded' /\ Accounted(rows, delivered)'
  BY <1>1, <1>2
  DEF CommittedBeforeAcknowledged, CommittedIsRecorded, Accounted, Opened, Unacknowledged, Queued,
      agentVars, panelVars
<1>8. InTransaction'
  BY <1>1, <1>2, <1>4 DEF InTransaction, Accounted, Unresolved, panelVars
<1>9. QED
  BY <1>2, <1>6, <1>7, <1>8 DEF DInv, panelVars

\* A merge keeps every attempt of both sides.
LEMMA MergeKeeps ==
    ASSUME NEW stored \in Histories, NEW new \in Histories
    PROVE  /\ MergeAttempts(stored, new) \in Histories
           /\ Made(MergeAttempts(stored, new)) = Made(stored) \cup Made(new)
BY DEF MergeAttempts, Made, Histories

\* One incident ingested into row r of the transaction's tables.
LEMMA TargetFound ==
    ASSUME DInv, sync.at = "ingesting", NEW i \in sync.todo, NEW r \in Target(i)
    PROVE  /\ i \in Incidents /\ r \in Incidents
           /\ i \in InBatch
           /\ sync.delivered[i] # NoDelivery => r = sync.delivered[i] /\ ~Counted(i)
           /\ sync.delivered[i] = NoDelivery => Counted(i)
           /\ r = i \/ sync.delivered[r] # NoDelivery
<1>1. TypeOK /\ Accounted(sync.rows, sync.delivered) /\ sync \in Syncs
  BY DEF DInv, InTransaction, TypeOK
<1>2. i \in Incidents /\ i \in InBatch /\ sync.delivered \in Deliveries
  BY <1>1 DEF TypeOK, InBatch, Syncs
<1>3. CASE sync.delivered[i] # NoDelivery
  BY <1>1, <1>2, <1>3 DEF Target, Counted, Accounted, Deliveries
<1>4. CASE sync.delivered[i] = NoDelivery
  <2>1. sync.rows[i].status = "none"
    BY <1>1, <1>2, <1>4 DEF Accounted
  <2>2. r \in OpenRows(kind[i]) \/ r = i
    BY <1>4, <2>1 DEF Target
  <2>3. r \in OpenRows(kind[i]) => r \in Incidents /\ sync.delivered[r] # NoDelivery
    BY <1>1 DEF OpenRows, Accounted, DInv, InTransaction, Syncs
  <2>4. QED
    BY <1>2, <1>4, <2>1, <2>2, <2>3 DEF Counted
<1>5. QED
  BY <1>3, <1>4

LEMMA IngestHolds == DInv /\ Ingest => DInv' /\ rows' = rows
<1> SUFFICES ASSUME DInv, Ingest PROVE DInv' /\ rows' = rows
  OBVIOUS
<1>1. /\ TypeOK /\ sync.at = "ingesting" /\ InTransaction /\ sync \in Syncs
      /\ CommittedBeforeAcknowledged /\ Accounted(rows, delivered) /\ CommittedIsRecorded
  BY DEF DInv, Ingest, TypeOK
<1>2. PICK i \in sync.todo : \E r \in Target(i) :
          sync' = [sync EXCEPT !.todo = @ \ {i}, !.rows[r] = Merged(@, i), !.delivered[i] = r,
                       !.found = Flushed(i, r)]
  BY DEF Ingest
<1>3. PICK r \in Target(i) :
          sync' = [sync EXCEPT !.todo = @ \ {i}, !.rows[r] = Merged(@, i), !.delivered[i] = r,
                       !.found = Flushed(i, r)]
  BY <1>2
<1>4. /\ i \in Incidents /\ r \in Incidents /\ i \in InBatch
      /\ sync.delivered[i] # NoDelivery => r = sync.delivered[i] /\ ~Counted(i)
      /\ sync.delivered[i] = NoDelivery => Counted(i)
      /\ r = i \/ sync.delivered[r] # NoDelivery
  BY <1>1, TargetFound
<1> DEFINE row == Merged(sync.rows[r], i)
<1>5. /\ sync.rows \in [Incidents -> Rows] /\ sync.delivered \in Deliveries
      /\ sync.batch \in [Incidents -> Files]
  BY <1>1 DEF Syncs
<1>6. /\ row \in Rows /\ row.status # "none"
      /\ row.occurrences = IF Counted(i) THEN sync.rows[r].occurrences + 1
                           ELSE sync.rows[r].occurrences
      /\ Made(row.attempts) = Made(sync.rows[r].attempts) \cup Made(sync.batch[i].attempts)
  <2>1. sync.rows[r] \in Rows /\ sync.batch[i] \in Files /\ sync.batch[i].status # "none"
    BY <1>4, <1>5 DEF InBatch
  <2>2. /\ sync.rows[r].attempts \in Histories /\ sync.rows[r].occurrences \in Nat
        /\ sync.batch[i].attempts \in Histories /\ sync.batch[i].status \in Statuses
    BY <2>1 DEF Rows, Files
  <2>3. kind[i] \in Types \cup {"none"}
    BY <1>1, <1>4 DEF TypeOK
  <2>4. QED
    BY <2>1, <2>2, <2>3, MergeKeeps DEF Merged, Rows
<1> HIDE DEF row
<1>7. /\ sync'.at = "ingesting" /\ sync'.batch = sync.batch /\ sync'.todo = sync.todo \ {i}
      /\ sync'.rows = [sync.rows EXCEPT ![r] = row]
      /\ sync'.delivered = [sync.delivered EXCEPT ![i] = r] /\ sync'.found = Flushed(i, r)
      /\ sync' \in Syncs /\ InBatch' = InBatch
  <2>1. sync' = [at |-> "ingesting", batch |-> sync.batch, todo |-> sync.todo \ {i},
                 rows |-> [sync.rows EXCEPT ![r] = row],
                 delivered |-> [sync.delivered EXCEPT ![i] = r],
                 found |-> Flushed(i, r)]
    BY <1>1, <1>3 DEF Syncs, row
  <2>2. [sync.rows EXCEPT ![r] = row] \in [Incidents -> Rows]
    BY <1>5, <1>6
  <2>3. [sync.delivered EXCEPT ![i] = r] \in Deliveries
    BY <1>4, <1>5 DEF Deliveries
  <2>4. sync.todo \ {i} \in SUBSET Incidents
    BY <1>1 DEF Syncs
  <2>5. Flushed(i, r) \in SUBSET Incidents
    BY <1>1 DEF Flushed, Unresolved, Syncs
  <2>6. QED
    BY <1>5, <2>1, <2>2, <2>3, <2>4, <2>5 DEF Syncs, InBatch
<1>8. UNCHANGED <<faults>> /\ UNCHANGED agentVars /\ UNCHANGED panelVars
  BY DEF Ingest
<1>9. /\ \A k \in Incidents : sync'.delivered[k] = IF k = i THEN r ELSE sync.delivered[k]
      /\ \A k \in Incidents : sync'.rows[k] = IF k = r THEN row ELSE sync.rows[k]
  BY <1>4, <1>5, <1>7 DEF Deliveries
<1>10. \A k \in Incidents :
           sync.delivered[k] # NoDelivery => sync'.delivered[k] = sync.delivered[k]
  BY <1>4, <1>9
<1>11. \A k \in Incidents : Made(sync.rows[k].attempts) \subseteq Made(sync'.rows[k].attempts)
  BY <1>6, <1>9
<1>12. Accounted(sync'.rows, sync'.delivered)
  <2>1. r # NoDelivery /\ i # NoDelivery
    BY <1>4 DEF NoDelivery, Incidents
  <2>2. ASSUME NEW k \in Incidents
        PROVE  sync'.rows[k].occurrences = Cardinality({j \in Incidents : sync'.delivered[j] = k})
    <3> DEFINE before == {j \in Incidents : sync.delivered[j] = k}
               after == {j \in Incidents : sync'.delivered[j] = k}
    <3>1. sync.rows[k].occurrences = Cardinality(before)
      BY <1>1 DEF InTransaction, Accounted
    <3>2. IsFiniteSet(before)
      <4>1. IsFiniteSet(Incidents)
        BY ConstantsInRange, FS_Interval DEF Incidents
      <4>2. QED
        BY <4>1, FS_Subset
    <3>3. CASE k = r /\ Counted(i)
      <4>1. i \notin before /\ after = before \cup {i}
        BY <1>4, <1>9, <2>1, <3>3 DEF Counted
      <4>2. Cardinality(after) = Cardinality(before) + 1
        BY <3>2, <4>1, FS_AddElement
      <4>3. QED
        BY <1>6, <1>9, <3>1, <3>3, <4>2
    <3>4. CASE ~(k = r /\ Counted(i))
      <4>1. k # NoDelivery
        BY DEF NoDelivery, Incidents
      <4>2. \A j \in Incidents : sync'.delivered[j] = k <=> sync.delivered[j] = k
        BY <1>4, <1>9, <3>4, <4>1 DEF Counted
      <4>3. after = before
        BY <4>2
      <4>4. QED
        BY <1>6, <1>9, <3>1, <3>4, <4>3
    <3>5. QED
      BY <3>3, <3>4
  <2>3. \A k \in Incidents : sync'.rows[k].status # "none" => sync'.delivered[k] # NoDelivery
    BY <1>1, <1>4, <1>9, <2>1 DEF InTransaction, Accounted
  <2>4. \A k \in Incidents :
            sync'.delivered[k] # NoDelivery => sync'.rows[sync'.delivered[k]].status # "none"
    <3> SUFFICES ASSUME NEW k \in Incidents, sync'.delivered[k] # NoDelivery
                 PROVE  sync'.rows[sync'.delivered[k]].status # "none"
      OBVIOUS
    <3>1. CASE k = i
      BY <1>4, <1>6, <1>9, <3>1
    <3>2. CASE k # i
      <4>1. sync'.delivered[k] = sync.delivered[k] /\ sync.delivered[k] \in Incidents
        BY <1>5, <1>9, <3>2 DEF Deliveries
      <4>2. sync.rows[sync.delivered[k]].status # "none"
        BY <1>1, <4>1 DEF InTransaction, Accounted
      <4>3. QED
        BY <1>6, <1>9, <4>1, <4>2
    <3>3. QED
      BY <3>1, <3>2
  <2>5. QED
    BY <2>2, <2>3, <2>4 DEF Accounted
<1>13. \A k \in InBatch' \ sync'.todo :
           /\ sync'.delivered[k] # NoDelivery
           /\ Made(sync'.batch[k].attempts) \subseteq Made(sync'.rows[sync'.delivered[k]].attempts)
  <2> SUFFICES ASSUME NEW k \in InBatch, k \notin sync.todo \/ k = i
               PROVE  /\ sync'.delivered[k] # NoDelivery
                      /\ Made(sync.batch[k].attempts)
                             \subseteq Made(sync'.rows[sync'.delivered[k]].attempts)
    BY <1>7
  <2>1. CASE k = i
    <3>1. r # NoDelivery
      BY <1>4 DEF NoDelivery, Incidents
    <3>2. QED
      BY <1>4, <1>6, <1>9, <2>1, <3>1
  <2>2. CASE k # i
    <3>1. /\ k \in Incidents /\ sync.delivered[k] # NoDelivery
          /\ Made(sync.batch[k].attempts) \subseteq Made(sync.rows[sync.delivered[k]].attempts)
      BY <1>1, <2>2 DEF InTransaction, InBatch
    <3>2. sync.delivered[k] \in Incidents
      BY <1>5, <3>1 DEF Deliveries
    <3>3. QED
      BY <1>10, <1>11, <3>1, <3>2
  <2>3. QED
    BY <2>1, <2>2
<1>14. /\ \A k \in Incidents : delivered[k] # NoDelivery => sync'.delivered[k] = delivered[k]
       /\ \A k \in Incidents \ InBatch :
              sync'.delivered[k] # NoDelivery => delivered[k] # NoDelivery
       /\ \A k \in Incidents : Made(rows[k].attempts) \subseteq Made(sync'.rows[k].attempts)
  BY <1>1, <1>4, <1>9, <1>10, <1>11 DEF InTransaction
<1>15. \A k \in sync'.found : sync'.rows[k].status # "none"
  <2>1. sync.found \subseteq Incidents /\ \A k \in sync.found : sync'.rows[k].status # "none"
    BY <1>1, <1>6, <1>9 DEF InTransaction, Syncs
  <2>2. Flushed(i, r) = sync.found \/ Flushed(i, r) = Unresolved(sync'.rows)
    BY <1>7 DEF Flushed, row
  <2>3. QED
    BY <1>7, <2>1, <2>2 DEF Unresolved
<1>16. InTransaction'
  BY <1>7, <1>8, <1>12, <1>13, <1>14, <1>15 DEF InTransaction, panelVars
<1>17. TypeOK'
  BY <1>1, <1>7, <1>8 DEF TypeOK, agentVars, panelVars
<1>18. CommittedBeforeAcknowledged' /\ CommittedIsRecorded' /\ Accounted(rows, delivered)'
  BY <1>1, <1>8
  DEF CommittedBeforeAcknowledged, CommittedIsRecorded, Accounted, Opened, Unacknowledged, Queued,
      agentVars, panelVars
<1>19. QED
  BY <1>8, <1>16, <1>17, <1>18 DEF DInv, panelVars

LEMMA CommitHolds ==
    DInv /\ Commit
        => DInv' /\ \A r \in Incidents : Made(rows[r].attempts) \subseteq Made(rows'[r].attempts)
<1> SUFFICES ASSUME DInv, Commit
             PROVE  DInv' /\ \A r \in Incidents :
                                 Made(rows[r].attempts) \subseteq Made(rows'[r].attempts)
  OBVIOUS
<1>1. /\ TypeOK /\ InTransaction /\ sync \in Syncs /\ sync.todo = {}
      /\ CommittedBeforeAcknowledged /\ Accounted(rows, delivered) /\ CommittedIsRecorded
  BY DEF DInv, Commit, TypeOK
<1>2. /\ rows' = sync.rows /\ delivered' = sync.delivered
      /\ committed' = [i \in Incidents |-> IF i \in InBatch THEN sync.batch[i] ELSE committed[i]]
      /\ sync' = [IdleSync EXCEPT !.at = "committed", !.batch = sync.batch]
      /\ UNCHANGED <<faults>> /\ UNCHANGED agentVars
  BY DEF Commit
<1>3. /\ sync'.at = "committed" /\ sync'.batch = sync.batch /\ sync'.todo = {}
      /\ sync' \in Syncs /\ InBatch' = InBatch
  BY <1>1, <1>2, EmptyRecords DEF IdleSync, Syncs, InBatch
<1>4. /\ rows' \in [Incidents -> Rows] /\ delivered' \in Deliveries
      /\ sync.batch \in [Incidents -> Files]
  BY <1>1, <1>2 DEF Syncs
<1>5. \A i \in InBatch :
          /\ delivered'[i] # NoDelivery
          /\ Made(sync.batch[i].attempts) \subseteq Made(rows'[delivered'[i]].attempts)
  BY <1>1, <1>2 DEF InTransaction
<1>6. TypeOK'
  <2>1. committed' \in [Incidents -> Files]
    BY <1>1, <1>2, <1>4 DEF TypeOK
  <2>2. QED
    BY <1>1, <1>2, <1>3, <1>4, <1>5, <2>1 DEF TypeOK, agentVars
<1>7. CommittedBeforeAcknowledged'
  BY <1>1, <1>2
  DEF CommittedBeforeAcknowledged, InTransaction, Opened, Unacknowledged, Queued, agentVars
<1>8. Accounted(rows, delivered)'
  BY <1>1, <1>2 DEF InTransaction, Accounted
<1>9. \A r \in Incidents : Made(rows[r].attempts) \subseteq Made(rows'[r].attempts)
  BY <1>1, <1>2 DEF InTransaction
<1>10. CommittedIsRecorded'
  <2> SUFFICES ASSUME NEW i \in Incidents, delivered'[i] # NoDelivery
               PROVE  Made(committed'[i].attempts) \subseteq Made(rows'[delivered'[i]].attempts)
    BY DEF CommittedIsRecorded
  <2>1. CASE i \in InBatch
    BY <1>2, <1>5, <2>1
  <2>2. CASE i \notin InBatch
    <3>1. delivered[i] # NoDelivery /\ delivered'[i] = delivered[i] /\ delivered[i] \in Incidents
      BY <1>1, <1>2, <2>2 DEF InTransaction, TypeOK, Deliveries
    <3>2. Made(committed[i].attempts) \subseteq Made(rows[delivered[i]].attempts)
      BY <1>1, <3>1 DEF CommittedIsRecorded
    <3>3. QED
      BY <1>2, <1>9, <2>2, <3>1, <3>2
  <2>3. QED
    BY <2>1, <2>2
<1>11. QED
  BY <1>3, <1>6, <1>7, <1>8, <1>9, <1>10 DEF DInv

\* A step of the agent's API or of the panel outside the transaction that touches neither
\* the tables nor what was committed, and takes nothing undelivered from the queue.
LEMMA QuietStepHolds ==
    ASSUME DInv, UNCHANGED panelVars, sync' = IdleSync, TypeOK', CommittedBeforeAcknowledged'
    PROVE  DInv' /\ rows' = rows
BY DEF DInv, panelVars, Accounted, CommittedIsRecorded, IdleSync

LEMMA MarkTakesNothing ==
    ASSUME DInv, sync.at = "committed", NEW S \in SUBSET InBatch
    PROVE  /\ Mark(S) \in [Incidents -> Files]
           /\ \A i \in Opened : delivered[i] = NoDelivery =>
                  i \in Unacknowledged /\ Mark(S)[i] = queue[i]
           /\ InBatch \subseteq Incidents
<1>1. TypeOK /\ CommittedBeforeAcknowledged
  BY DEF DInv
<1>2. \A i \in InBatch : delivered[i] # NoDelivery
  BY <1>1 DEF TypeOK
<1>3. Mark(S) \in [Incidents -> Files]
  <2> SUFFICES ASSUME NEW i \in Incidents
               PROVE  [queue[i] EXCEPT !.acknowledged = TRUE] \in Files /\ queue[i] \in Files
    BY DEF Mark
  <2>1. queue[i] \in Files
    BY <1>1 DEF TypeOK
  <2>2. QED
    BY <2>1 DEF Files
<1>4. QED
  BY <1>1, <1>2, <1>3 DEF CommittedBeforeAcknowledged, Mark, InBatch, Opened

LEMMA AcknowledgeHolds == DInv /\ Acknowledge => DInv' /\ rows' = rows
<1> SUFFICES ASSUME DInv, Acknowledge PROVE DInv' /\ rows' = rows
  OBVIOUS
<1> DEFINE marked == Mark(InBatch)
<1>1. TypeOK /\ CommittedBeforeAcknowledged /\ sync.at = "committed"
  BY DEF DInv, Acknowledge
<1>2. PICK S \in Surplus(marked, InBatch) :
          queue' = [i \in Incidents |-> IF i \in S THEN NoFile ELSE marked[i]]
  BY DEF Acknowledge
<1>3. /\ sync' = IdleSync
      /\ UNCHANGED <<kind, disk, pass, attempted, faults>> /\ UNCHANGED panelVars
  BY DEF Acknowledge
<1>4. /\ marked \in [Incidents -> Files]
      /\ \A i \in Opened : delivered[i] = NoDelivery =>
             i \in Unacknowledged /\ marked[i] = queue[i]
  BY <1>1, MarkTakesNothing
<1> HIDE DEF marked
<1>5. \A i \in S : marked[i].acknowledged
  BY <1>2 DEF Surplus
<1>6. queue' \in [Incidents -> Files]
  BY <1>2, <1>4, EmptyRecords
<1>7. CommittedBeforeAcknowledged'
  <2> SUFFICES ASSUME NEW i \in Opened, delivered[i] = NoDelivery
               PROVE  i \in Incidents /\ queue'[i].status # "none" /\ ~queue'[i].acknowledged
    BY <1>3 DEF CommittedBeforeAcknowledged, Opened, Unacknowledged, Queued, panelVars
  <2>1. i \in Unacknowledged /\ marked[i] = queue[i] /\ i \in Incidents
    BY <1>4 DEF Opened
  <2>2. i \notin S
    BY <1>5, <2>1 DEF Unacknowledged
  <2>3. QED
    BY <1>2, <2>1, <2>2 DEF Unacknowledged, Queued
<1>8. TypeOK'
  BY <1>1, <1>3, <1>6, EmptyRecords DEF TypeOK, IdleSync, panelVars
<1>9. QED
  BY <1>3, <1>7, <1>8, QuietStepHolds

LEMMA AcknowledgePartlyHolds == DInv /\ AcknowledgePartly => DInv' /\ rows' = rows
<1> SUFFICES ASSUME DInv, AcknowledgePartly PROVE DInv' /\ rows' = rows
  OBVIOUS
<1>1. TypeOK /\ CommittedBeforeAcknowledged /\ sync.at = "committed"
  BY DEF DInv, AcknowledgePartly
<1>2. PICK S \in SUBSET InBatch : queue' = Mark(S)
  BY DEF AcknowledgePartly
<1>3. /\ sync' = IdleSync /\ pass' = Restarted(disk) /\ faults < MaxFaults /\ faults' = faults + 1
      /\ UNCHANGED <<kind, disk, attempted>> /\ UNCHANGED panelVars
  BY DEF AcknowledgePartly
<1>4. /\ queue' \in [Incidents -> Files]
      /\ \A i \in Opened : delivered[i] = NoDelivery =>
             i \in Unacknowledged /\ queue'[i] = queue[i]
  BY <1>1, <1>2, MarkTakesNothing
<1>5. CommittedBeforeAcknowledged'
  BY <1>3, <1>4 DEF CommittedBeforeAcknowledged, Opened, Unacknowledged, Queued, panelVars
<1>6. pass' \in Passes /\ faults' \in 0..MaxFaults
  BY <1>1, <1>3, ConstantsInRange DEF TypeOK, Runtime, Passes, Restarted
<1>7. TypeOK'
  BY <1>1, <1>3, <1>4, <1>6, EmptyRecords DEF TypeOK, IdleSync, panelVars
<1>8. QED
  BY <1>3, <1>5, <1>7, QuietStepHolds

LEMMA SyncFailsHolds == DInv /\ SyncFails => DInv' /\ rows' = rows
<1> SUFFICES ASSUME DInv, SyncFails PROVE DInv' /\ rows' = rows
  OBVIOUS
<1>1. TypeOK /\ CommittedBeforeAcknowledged
  BY DEF DInv
<1>2. /\ sync' = IdleSync /\ faults < MaxFaults /\ faults' = faults + 1
      /\ UNCHANGED agentVars /\ UNCHANGED panelVars
  BY DEF SyncFails
<1>3. CommittedBeforeAcknowledged'
  BY <1>1, <1>2
  DEF CommittedBeforeAcknowledged, Opened, Unacknowledged, Queued, agentVars, panelVars
<1>4. faults' \in 0..MaxFaults
  BY <1>1, <1>2, ConstantsInRange DEF TypeOK
<1>5. TypeOK'
  BY <1>1, <1>2, <1>4, EmptyRecords DEF TypeOK, IdleSync, agentVars, panelVars
<1>6. QED
  BY <1>2, <1>3, <1>5, QuietStepHolds

LEMMA PanelResolvesHolds ==
    ASSUME DInv, NEW r \in Incidents, PanelResolves(r)
    PROVE  DInv' /\ \A k \in Incidents : Made(rows[k].attempts) \subseteq Made(rows'[k].attempts)
<1>1. /\ TypeOK /\ CommittedBeforeAcknowledged /\ sync.at # "ingesting"
      /\ Accounted(rows, delivered) /\ CommittedIsRecorded
  BY DEF DInv, PanelResolves
<1>2. /\ rows[r].status = "open" /\ rows' = [rows EXCEPT ![r].status = "resolved"]
      /\ UNCHANGED <<delivered, committed, sync, faults>> /\ UNCHANGED agentVars
  BY DEF PanelResolves
<1>3. rows' \in [Incidents -> Rows]
  <2>1. rows[r] \in Rows
    BY <1>1 DEF TypeOK
  <2>2. [rows[r] EXCEPT !.status = "resolved"] \in Rows
    BY <2>1 DEF Rows, Statuses
  <2>3. QED
    BY <1>1, <1>2, <2>2 DEF TypeOK
<1>4. \A k \in Incidents : /\ rows'[k].attempts = rows[k].attempts
                           /\ rows'[k].occurrences = rows[k].occurrences
                           /\ rows'[k].status # "none" <=> rows[k].status # "none"
  <2>1. rows[r] \in Rows
    BY <1>1 DEF TypeOK
  <2>2. QED
    BY <1>1, <1>2, <2>1 DEF TypeOK, Rows
<1>5. Accounted(rows, delivered)' /\ CommittedIsRecorded'
  <2>1. \A i \in Incidents : delivered[i] # NoDelivery => delivered[i] \in Incidents
    BY <1>1 DEF TypeOK, Deliveries
  <2>2. delivered' = delivered /\ committed' = committed
    BY <1>2
  <2>3. ASSUME NEW k \in Incidents
        PROVE  rows'[k].occurrences = Cardinality({i \in Incidents : delivered'[i] = k})
    BY <1>1, <1>4, <2>2 DEF Accounted
  <2>4. Accounted(rows', delivered')
    BY <1>1, <1>4, <2>1, <2>2, <2>3 DEF Accounted
  <2>5. CommittedIsRecorded'
    BY <1>1, <1>4, <2>1, <2>2 DEF CommittedIsRecorded
  <2>6. QED
    BY <2>4, <2>5
<1>6. CommittedBeforeAcknowledged'
  BY <1>1, <1>2 DEF CommittedBeforeAcknowledged, Opened, Unacknowledged, Queued, agentVars
<1>7. TypeOK'
  BY <1>1, <1>2, <1>3 DEF TypeOK, InBatch, agentVars
<1>8. QED
  BY <1>1, <1>2, <1>4, <1>5, <1>6, <1>7 DEF DInv

-----------------------------------------------------------------------------
(* The theorems.                                                           *)

LEMMA InitHolds == Init => DInv
<1> SUFFICES ASSUME Init PROVE DInv
  OBVIOUS
<1>1. \A r \in Incidents : Cardinality({i \in Incidents : delivered[i] = r}) = 0
  <2> SUFFICES ASSUME NEW r \in Incidents
               PROVE  Cardinality({i \in Incidents : delivered[i] = r}) = 0
    OBVIOUS
  <2>1. {i \in Incidents : delivered[i] = r} = {}
    BY DEF Init, NoDelivery, Incidents
  <2>2. QED
    BY <2>1, FS_EmptySet
<1>2. disk \in Runtime /\ pass \in Passes
  BY EmptyRecords DEF Init, Runtime, Passes, Restarted
<1>3. TypeOK
  BY <1>2, EmptyRecords, ConstantsInRange
  DEF Init, TypeOK, IdleSync, Deliveries, NoDelivery, Opened
<1>4. Accounted(rows, delivered)
  BY <1>1 DEF Init, Accounted, NoRow
<1>5. CommittedBeforeAcknowledged /\ CommittedIsRecorded /\ sync.at # "ingesting"
  BY DEF Init, CommittedBeforeAcknowledged, CommittedIsRecorded, Opened, IdleSync
<1>6. QED
  BY <1>3, <1>4, <1>5 DEF DInv

LEMMA NextHolds ==
    DInv /\ [Next]_vars
        => DInv' /\ \A r \in Incidents : Made(rows[r].attempts) \subseteq Made(rows'[r].attempts)
<1> SUFFICES ASSUME DInv, [Next]_vars
             PROVE  DInv' /\ \A r \in Incidents :
                                 Made(rows[r].attempts) \subseteq Made(rows'[r].attempts)
  OBVIOUS
<1>1. CASE AgentPass
  <2>1. ASSUME NEW t \in Types, Report(t) PROVE DInv' /\ rows' = rows
    BY <2>1, ReportHolds
  <2>2. ASSUME NEW t \in Types, StartAttempt(t) PROVE DInv' /\ rows' = rows
    BY <2>2, StartAttemptHolds
  <2>3. CASE SaveRuntime
    BY <2>3, AgentRecordsHold
  <2>4. QED
    BY <1>1, <2>1, <2>2, <2>3, FinishAttemptHolds, ResolveHolds DEF AgentPass
<1>2. CASE AcceptQuarantineClear \/ AgentCrash
  BY <1>2, AgentRecordsHold
<1>3. CASE Sync
  BY <1>3, ListHolds, IngestHolds, CommitHolds, AcknowledgeHolds DEF Sync
<1>4. CASE AcknowledgePartly \/ SyncFails
  BY <1>4, AcknowledgePartlyHolds, SyncFailsHolds
<1>5. ASSUME NEW r \in Incidents, PanelResolves(r)
      PROVE  DInv' /\ \A k \in Incidents :
                          Made(rows[k].attempts) \subseteq Made(rows'[k].attempts)
  BY <1>5, PanelResolvesHolds
<1>6. CASE UNCHANGED vars
  <2>1. UNCHANGED panelVars /\ sync' = sync
    BY <1>6 DEF vars, panelVars
  <2>2. TypeOK'
    BY <1>6 DEF DInv, TypeOK, vars, InBatch
  <2>3. CommittedBeforeAcknowledged'
    BY <1>6 DEF DInv, CommittedBeforeAcknowledged, Opened, Unacknowledged, Queued, vars
  <2>4. QED
    BY <2>1, <2>2, <2>3, AgentStepHolds
<1>7. QED
  BY <1>1, <1>2, <1>3, <1>4, <1>5, <1>6 DEF Next

(* Every reachable state satisfies the inductive invariant.                *)
THEOREM Invariance == Spec => []DInv
<1>1. Init => DInv
  BY InitHolds
<1>2. DInv /\ [Next]_vars => DInv'
  BY NextHolds
<1>3. QED
  BY <1>1, <1>2, PTL DEF Spec

(* Types, for every bound.                                                 *)
THEOREM TypeCorrect == Spec => []TypeOK
<1>1. DInv => TypeOK
  BY DEF DInv
<1>2. QED
  BY <1>1, Invariance, PTL

(* Nothing leaves the agent's queue before the panel has recorded it:      *)
(* acknowledge and prune_acknowledged against ingest_incidents_and_ack.    *)
THEOREM NothingIsLost == Spec => []CommittedBeforeAcknowledged
<1>1. DInv => CommittedBeforeAcknowledged
  BY DEF DInv
<1>2. QED
  BY <1>1, Invariance, PTL

(* ingest_incidents_and_ack counts every incident once, however often it   *)
(* is delivered.                                                           *)
THEOREM NothingIsCountedTwice == Spec => []OccurrencesCountDeliveries
<1>1. DInv => OccurrencesCountDeliveries
  BY DEF DInv, Accounted, OccurrencesCountDeliveries
<1>2. QED
  BY <1>1, Invariance, PTL

(* _merge_attempts keeps the attempts of every incident a row stands for.  *)
THEOREM AttemptsAreRecorded == Spec => []CommittedIsRecorded
<1>1. DInv => CommittedIsRecorded
  BY DEF DInv
<1>2. QED
  BY <1>1, Invariance, PTL

(* No step of either side takes an attempt out of a row's history.         *)
THEOREM HistoriesGrow == Spec => HistoryOnlyGrows
<1>1. DInv /\ [Next]_vars
          => [\A r \in Incidents : Made(rows[r].attempts) \subseteq Made(rows'[r].attempts)]_vars
  BY NextHolds
<1>2. QED
  BY <1>1, Invariance, PTL DEF Spec, HistoryOnlyGrows

-----------------------------------------------------------------------------
(* The panel's tables are a log of what happened.                          *)

\* Deliveries D agree with the kinds K of the incidents and with the rows T: an incident
\* came with all before it, to the row an incident of its kind created, no later one.
Filed(K, T, D) ==
    /\ \A r \in Incidents : T[r].status # "none" => D[r] = r /\ T[r].type = K[r]
    /\ \A i \in Incidents : D[i] # NoDelivery =>
           K[i] # "none" /\ D[i] <= i /\ K[D[i]] = K[i]
    /\ \A i, j \in Incidents : j < i /\ D[i] # NoDelivery => D[j] # NoDelivery

\* What the agent keeps and what a sync read is of incidents it opened.
Numbered ==
    /\ Queued \subseteq Opened /\ InBatch \subseteq Opened
    /\ pass.active # 0 => pass.active \in Opened
    /\ disk.active # 0 => disk.active \in Opened

\* A sync reads everything that was not delivered before.
BatchComplete ==
    \A i \in InBatch : \A j \in Incidents : j < i => j \in InBatch \/ delivered[j] # NoDelivery

LogInv ==
    /\ DInv /\ Numbered /\ Filed(kind, rows, delivered)
    /\ sync.at = "ingesting" => Filed(kind, sync.rows, sync.delivered) /\ BatchComplete

KindStays == \A j \in Incidents : kind[j] # "none" => kind'[j] = kind[j]

LEMMA NextIsNew ==
    ASSUME TypeOK, NEW i \in Incidents, i = Cardinality(Opened) + 1
    PROVE  kind[i] = "none"
<1> SUFFICES ASSUME kind[i] # "none" PROVE FALSE
  OBVIOUS
<1>0. i \in Nat \ {0} /\ 1..i \subseteq Incidents
  BY ConstantsInRange DEF Incidents
<1>1. 1..i \subseteq Opened
  <2>1. \A j \in 1..i : kind[j] # "none"
    BY <1>0, NextIncident
  <2>2. QED
    BY <1>0, <2>1 DEF Opened
<1>2. IsFiniteSet(Incidents)
  BY ConstantsInRange, FS_Interval DEF Incidents
<1>3. IsFiniteSet(Opened)
  BY <1>2, FS_Subset DEF Opened
<1>4. Cardinality(1..i) <= Cardinality(Opened) /\ Cardinality(Opened) \in Nat
  BY <1>1, <1>3, FS_Subset, FS_CardinalityType
<1>5. Cardinality(1..i) = i
  <2>1. 1 \in Int /\ i \in Int
    BY <1>0
  <2>2. Cardinality(1..i) = IF 1 > i THEN 0 ELSE i - 1 + 1
    BY <2>1, FS_Interval, Zenon
  <2>3. QED
    BY <1>0, <2>2
<1>6. QED
  BY <1>0, <1>4, <1>5

\* A new incident is the next one, and its kind stays.
LEMMA SubjectHappens ==
    ASSUME LogInv, NEW t \in Types, NEW i \in Incidents, Subject(t, i)
    PROVE  /\ KindStays /\ kind'[i] # "none"
           /\ \A j \in Opened : j \in Incidents /\ kind'[j] # "none"
           /\ \/ kind' = kind
              \/ /\ kind[i] = "none" /\ \A j \in Incidents : j < i => j \in Opened
                 /\ kind' = [kind EXCEPT ![i] = t]
<1>0. TypeOK /\ Numbered
  BY DEF LogInv, DInv
<1>1. CASE pass.active # 0
  BY <1>0, <1>1 DEF Subject, KindStays, Numbered, Opened
<1>2. CASE pass.active = 0
  <2>1. i = Cardinality(Opened) + 1 /\ kind' = [kind EXCEPT ![i] = t]
    BY <1>2 DEF Subject
  <2>2. kind[i] = "none" /\ \A j \in Incidents : j < i => kind[j] # "none"
    BY <1>0, <2>1, NextIncident, NextIsNew
  <2>3. t # "none" /\ kind \in [Incidents -> Types \cup {"none"}]
    BY <1>0, ConstantsInRange DEF TypeOK
  <2>4. QED
    BY <2>1, <2>2, <2>3 DEF KindStays, Opened
<1>3. QED
  BY <1>1, <1>2

LEMMA FiledStays ==
    ASSUME KindStays, NEW T, NEW D \in Deliveries, Filed(kind, T, D)
    PROVE  Filed(kind', T, D)
<1>1. ASSUME NEW i \in Incidents, D[i] # NoDelivery
      PROVE  kind'[i] # "none" /\ D[i] <= i /\ kind'[D[i]] = kind'[i]
  <2>1. D[i] \in Incidents /\ kind[i] # "none" /\ D[i] <= i /\ kind[D[i]] = kind[i]
    BY <1>1 DEF Filed, Deliveries
  <2>2. QED
    BY <2>1 DEF KindStays
<1>2. ASSUME NEW r \in Incidents, T[r].status # "none"
      PROVE  D[r] = r /\ T[r].type = kind'[r]
  <2>1. D[r] = r /\ T[r].type = kind[r] /\ r # NoDelivery
    BY <1>2 DEF Filed, NoDelivery, Incidents
  <2>2. QED
    BY <2>1 DEF Filed, KindStays
<1>3. QED
  BY <1>1, <1>2 DEF Filed

\* Steps of the agent.
LEMMA AgentFiles ==
    ASSUME LogInv, DInv', UNCHANGED panelVars, sync' = sync, KindStays, Numbered'
    PROVE  LogInv'
<1>1. delivered \in Deliveries /\ sync.delivered \in Deliveries
  BY DEF LogInv, DInv, TypeOK, Syncs
<1>2. Filed(kind', rows, delivered)
  BY <1>1, FiledStays DEF LogInv
<1>3. sync.at = "ingesting" => Filed(kind', sync.rows, sync.delivered)
  BY <1>1, FiledStays DEF LogInv
<1>4. rows' = rows /\ delivered' = delivered /\ InBatch' = InBatch
  BY DEF panelVars, InBatch
<1>5. BatchComplete => BatchComplete'
  BY <1>4 DEF BatchComplete
<1>6. /\ Filed(kind, rows, delivered)'
      /\ (sync.at = "ingesting" => Filed(kind, sync.rows, sync.delivered))'
  BY <1>2, <1>3, <1>4
<1>7. QED
  BY <1>5, <1>6 DEF LogInv

LEMMA UpsertNumbers ==
    ASSUME LogInv, KindStays, NEW i \in Incidents, NEW status, NEW history,
           Upsert(i, status, history), kind'[i] # "none", disk' = disk, sync' = sync,
           pass'.active = i \/ pass'.active = 0
    PROVE  Numbered'
<1>1. \A j \in Opened : j \in Incidents /\ kind'[j] # "none"
  BY DEF KindStays, Opened
<1>2. queue \in [Incidents -> Files] /\ Numbered
  BY DEF LogInv, DInv, TypeOK
<1>3. \A j \in Incidents : j # i => queue'[j] = queue[j]
  BY <1>2 DEF Upsert
<1>4. Queued' \subseteq Opened'
  BY <1>1, <1>2, <1>3 DEF Queued, Opened, Numbered
<1>5. Opened \subseteq Opened' /\ InBatch' = InBatch /\ i \in Opened'
  BY <1>1 DEF Opened, InBatch
<1>6. QED
  BY <1>2, <1>4, <1>5 DEF Numbered

LEMMA AgentQuiet ==
    ASSUME LogInv, kind' = kind, queue' = queue, sync' = sync,
           pass'.active \in {0, pass.active, disk.active},
           disk'.active \in {0, pass.active, disk.active}
    PROVE  Numbered' /\ KindStays
BY DEF LogInv, Numbered, KindStays, Queued, Opened, InBatch

\* A step of the agent's pass that writes a file.
LEMMA ReportsLog ==
    ASSUME LogInv, NEW t \in Types, Report(t) \/ StartAttempt(t)
    PROVE  LogInv' /\ \E i \in Incidents :
               \/ kind' = kind
               \/ /\ kind[i] = "none" /\ \A j \in Incidents : j < i => j \in Opened
                  /\ kind' = [kind EXCEPT ![i] = t]
<1>0. DInv /\ DInv'
  BY ReportHolds, StartAttemptHolds DEF LogInv
<1>1. PICK i \in Incidents : Subject(t, i) /\ \E history : Upsert(i, "open", history)
                             /\ pass'.active = i
  <2>1. pass \in Passes
    BY <1>0 DEF DInv, TypeOK
  <2>2. QED
    BY <2>1 DEF Report, StartAttempt, Passes
<1>2. PICK history : Upsert(i, "open", history)
  BY <1>1
<1>3. disk' = disk /\ sync' = sync /\ UNCHANGED panelVars
  BY DEF Report, StartAttempt
<1>4. KindStays /\ kind'[i] # "none"
  BY <1>1, SubjectHappens
<1>5. Numbered'
  BY <1>1, <1>2, <1>3, <1>4, UpsertNumbers
<1>6. QED
  BY <1>0, <1>1, <1>3, <1>4, <1>5, AgentFiles, SubjectHappens

LEMMA PassLogs ==
    ASSUME LogInv, FinishAttempt \/ Resolve
    PROVE  LogInv' /\ kind' = kind
<1>0. DInv /\ DInv' /\ pass \in Passes /\ Numbered
  BY FinishAttemptHolds, ResolveHolds DEF LogInv, DInv, TypeOK
<1>1. /\ kind' = kind /\ disk' = disk /\ sync' = sync /\ UNCHANGED panelVars
      /\ pass'.active \in {0, pass.active}
  <2>1. CASE FinishAttempt
    <3>1. PICK history : pass' = [pass EXCEPT !.attempts = history, !.running = 0]
      BY <2>1 DEF FinishAttempt
    <3>2. pass'.active = pass.active
      BY <1>0, <3>1 DEF Passes
    <3>3. QED
      BY <2>1, <3>2 DEF FinishAttempt
  <2>2. CASE Resolve
    BY <2>2 DEF Resolve
  <2>3. QED
    BY <2>1, <2>2
<1>2. KindStays
  BY <1>1 DEF KindStays
<1>3. Numbered'
  <2>1. CASE pass.active # 0
    <3>1. pass.active \in Incidents /\ kind[pass.active] # "none"
      BY <1>0, <2>1 DEF Numbered, Opened
    <3>2. PICK status, history : Upsert(pass.active, status, history)
      BY DEF FinishAttempt, Resolve
    <3>3. QED
      BY <1>1, <1>2, <3>1, <3>2, UpsertNumbers
  <2>2. CASE pass.active = 0
    <3>1. PICK status, history : Upsert(0, status, history)
      BY <2>2 DEF FinishAttempt, Resolve
    <3>2. queue' = queue
      BY <1>0, <3>1 DEF Upsert, DInv, TypeOK, Incidents
    <3>3. QED
      BY <1>1, <2>2, <3>2, AgentQuiet
  <2>3. QED
    BY <2>1, <2>2
<1>4. QED
  BY <1>0, <1>1, <1>2, <1>3, AgentFiles

LEMMA RecordsLog ==
    ASSUME LogInv, SaveRuntime \/ AcceptQuarantineClear \/ AgentCrash
    PROVE  LogInv' /\ kind' = kind /\ UNCHANGED panelVars
<1>0. DInv /\ DInv' /\ pass \in Passes
  BY AgentRecordsHold DEF LogInv, DInv, TypeOK
<1>1. /\ kind' = kind /\ queue' = queue /\ sync' = sync /\ UNCHANGED panelVars
      /\ pass'.active \in {0, pass.active, disk.active}
      /\ disk'.active \in {0, pass.active, disk.active}
  BY <1>0 DEF SaveRuntime, AcceptQuarantineClear, AgentCrash, Passes, Stored, Restarted
<1>2. QED
  BY <1>0, <1>1, AgentQuiet, AgentFiles

\* Steps of the sync.
LEMMA ListLogs == LogInv /\ List => LogInv' /\ UNCHANGED <<kind, panelVars>>
<1> SUFFICES ASSUME LogInv, List PROVE LogInv' /\ UNCHANGED <<kind, panelVars>>
  OBVIOUS
<1> DEFINE read == [i \in Incidents |-> IF i \in Unacknowledged THEN queue[i] ELSE NoFile]
<1>0. DInv /\ DInv' /\ TypeOK /\ Numbered /\ CommittedBeforeAcknowledged
  BY ListHolds DEF LogInv, DInv
<1>1. /\ sync' = [at |-> "ingesting", todo |-> Unacknowledged, rows |-> rows,
                  delivered |-> delivered, found |-> Unresolved(rows), batch |-> read]
      /\ UNCHANGED agentVars /\ UNCHANGED panelVars
  BY DEF List
<1>2. InBatch' = Unacknowledged
  BY <1>0, <1>1 DEF InBatch, Unacknowledged, Queued, NoFile, TypeOK
<1>3. /\ sync'.rows = rows /\ sync'.delivered = delivered
      /\ UNCHANGED <<kind, queue, pass, disk, rows, delivered>>
  BY <1>1 DEF agentVars, panelVars
<1>4. Numbered'
  BY <1>0, <1>2, <1>3 DEF Numbered, Unacknowledged, Queued, Opened
<1>5. BatchComplete'
  <2> SUFFICES ASSUME NEW i \in Unacknowledged, NEW j \in Incidents, j < i,
                      delivered[j] = NoDelivery
               PROVE  j \in Unacknowledged
    BY <1>2, <1>3 DEF BatchComplete
  <2>1. i \in Incidents /\ kind[i] # "none"
    BY <1>0 DEF Numbered, Unacknowledged, Opened
  <2>2. kind[j] # "none"
    BY <1>0, <2>1 DEF TypeOK
  <2>3. QED
    BY <1>0, <2>2 DEF CommittedBeforeAcknowledged, Opened
<1>6. Filed(kind, rows, delivered)' /\ Filed(kind, sync.rows, sync.delivered)'
  BY <1>3 DEF LogInv
<1>7. QED
  BY <1>0, <1>1, <1>3, <1>4, <1>5, <1>6 DEF LogInv, panelVars

\* What ingesting one incident makes of the transaction's tables.
LEMMA IngestedInto ==
    ASSUME DInv, Ingest
    PROVE  \E i \in sync.todo : \E r \in Target(i) :
               /\ \A j \in sync.todo : i <= j
               /\ \A k \in Incidents :
                      sync'.delivered[k] = IF k = i THEN r ELSE sync.delivered[k]
               /\ \A k \in Incidents : k # r => sync'.rows[k] = sync.rows[k]
               /\ sync'.rows[r].type = kind[i]
               /\ sync'.at = "ingesting" /\ InBatch' = InBatch
               /\ UNCHANGED agentVars /\ UNCHANGED panelVars
<1>0. sync.at = "ingesting" /\ sync \in Syncs
  BY DEF DInv, Ingest, TypeOK
<1>1. PICK i \in sync.todo :
          /\ \A j \in sync.todo : i <= j
          /\ \E r \in Target(i) :
                 sync' = [sync EXCEPT !.todo = @ \ {i}, !.rows[r] = Merged(@, i),
                                      !.delivered[i] = r, !.found = Flushed(i, r)]
  BY DEF Ingest
<1>2. PICK r \in Target(i) :
          sync' = [sync EXCEPT !.todo = @ \ {i}, !.rows[r] = Merged(@, i), !.delivered[i] = r,
                       !.found = Flushed(i, r)]
  BY <1>1
<1> DEFINE row == Merged(sync.rows[r], i)
<1>3. row.type = kind[i]
  BY DEF Merged
<1>4. sync' = [at |-> "ingesting", batch |-> sync.batch, todo |-> sync.todo \ {i},
               rows |-> [sync.rows EXCEPT ![r] = row],
               delivered |-> [sync.delivered EXCEPT ![i] = r],
               found |-> Flushed(i, r)]
  BY <1>0, <1>2 DEF Syncs
<1> HIDE DEF row
<1>5. i \in Incidents /\ r \in Incidents
  BY <1>0, TargetFound
<1>6. /\ sync.rows \in [Incidents -> Rows]
      /\ sync.delivered \in [Incidents -> Incidents \cup {NoDelivery}]
  BY <1>0 DEF Syncs, Deliveries
<1>7. /\ \A k \in Incidents : sync'.delivered[k] = IF k = i THEN r ELSE sync.delivered[k]
      /\ \A k \in Incidents : k # r => sync'.rows[k] = sync.rows[k]
      /\ sync'.rows[r].type = kind[i]
      /\ sync'.at = "ingesting" /\ sync'.batch = sync.batch
  BY <1>3, <1>4, <1>5, <1>6
<1>8. InBatch' = InBatch
  BY <1>7 DEF InBatch
<1>9. UNCHANGED agentVars /\ UNCHANGED panelVars
  BY DEF Ingest
<1>10. QED
  BY <1>1, <1>7, <1>8, <1>9

LEMMA IngestLogs == LogInv /\ Ingest => LogInv' /\ UNCHANGED <<kind, panelVars>>
<1> SUFFICES ASSUME LogInv, Ingest PROVE LogInv' /\ UNCHANGED <<kind, panelVars>>
  OBVIOUS
<1>0. /\ DInv /\ DInv' /\ Numbered /\ sync.at = "ingesting" /\ InTransaction /\ BatchComplete
      /\ Accounted(sync.rows, sync.delivered) /\ Filed(kind, sync.rows, sync.delivered)
      /\ sync.delivered \in Deliveries /\ TypeOK
  BY IngestHolds DEF LogInv, DInv, Ingest, InTransaction, TypeOK, Syncs
<1> DEFINE into(i, r) ==
          /\ \A j \in sync.todo : i <= j
          /\ \A k \in Incidents : sync'.delivered[k] = IF k = i THEN r ELSE sync.delivered[k]
          /\ \A k \in Incidents : k # r => sync'.rows[k] = sync.rows[k]
          /\ sync'.rows[r].type = kind[i]
          /\ sync'.at = "ingesting" /\ InBatch' = InBatch
          /\ UNCHANGED agentVars /\ UNCHANGED panelVars
<1>a. PICK i \in sync.todo : \E r \in Target(i) : into(i, r)
  BY <1>0, IngestedInto
<1>1. PICK r \in Target(i) : into(i, r)
  BY <1>a
<1>2. /\ i \in Incidents /\ r \in Incidents /\ i \in InBatch /\ i \in Nat
      /\ sync.delivered[i] # NoDelivery => r = sync.delivered[i]
      /\ r = i \/ sync.delivered[r] # NoDelivery
  BY <1>0, TargetFound, ConstantsInRange DEF Incidents
<1>3. kind[i] # "none" /\ r # NoDelivery /\ r \in Nat
  BY <1>0, <1>2, ConstantsInRange DEF Numbered, Opened, Incidents, NoDelivery
<1>4. r <= i /\ kind[r] = kind[i] /\ (r = i \/ sync.delivered[r] = r)
  <2>1. CASE sync.delivered[i] # NoDelivery
    <3>1. sync.rows[r].status # "none"
      BY <1>0, <1>2, <2>1 DEF Accounted
    <3>2. QED
      BY <1>0, <1>2, <2>1, <3>1 DEF Filed
  <2>2. CASE r \in OpenRows(kind[i]) /\ sync.delivered[i] = NoDelivery
    <3>1. sync.rows[r].type = kind[i] /\ sync.rows[r].status # "none"
      BY <1>0, <2>2 DEF OpenRows, InTransaction
    <3>2. sync.delivered[r] = r /\ kind[r] = kind[i]
      BY <1>0, <1>2, <3>1 DEF Filed
    <3>3. ~(i < r)
      BY <1>0, <1>2, <1>3, <2>2, <3>2 DEF Filed
    <3>4. QED
      BY <1>2, <1>3, <3>2, <3>3
  <2>3. CASE r = i
    BY <1>2, <2>3
  <2>4. QED
    <3>1. sync.delivered[i] = NoDelivery => sync.rows[i].status = "none"
      BY <1>0, <1>2 DEF Accounted
    <3>2. QED
      BY <2>1, <2>2, <2>3, <3>1 DEF Target
<1>5. ASSUME NEW j \in Incidents, j < i PROVE sync.delivered[j] # NoDelivery
  <2>1. CASE j \in InBatch
    <3>1. j \notin sync.todo
      BY <1>1, <1>2, <1>5, ConstantsInRange DEF Incidents
    <3>2. QED
      BY <1>0, <2>1, <3>1 DEF InTransaction
  <2>2. CASE delivered[j] # NoDelivery
    BY <1>0, <2>2 DEF InTransaction
  <2>3. QED
    BY <1>0, <1>2, <1>5, <2>1, <2>2 DEF BatchComplete
<1>6. Filed(kind, sync'.rows, sync'.delivered)
  <2>1. ASSUME NEW k \in Incidents, sync'.rows[k].status # "none"
        PROVE  sync'.delivered[k] = k /\ sync'.rows[k].type = kind[k]
    <3>1. CASE k = r
      BY <1>1, <1>2, <1>4, <3>1
    <3>2. CASE k # r
      <4>1. sync.delivered[k] = k /\ sync.rows[k].type = kind[k] /\ sync'.rows[k] = sync.rows[k]
        BY <1>0, <1>1, <2>1, <3>2 DEF Filed
      <4>2. k # NoDelivery
        BY DEF NoDelivery, Incidents
      <4>3. QED
        BY <1>1, <1>2, <3>2, <4>1, <4>2
    <3>3. QED
      BY <3>1, <3>2
  <2>2. ASSUME NEW k \in Incidents, sync'.delivered[k] # NoDelivery
        PROVE  /\ kind[k] # "none" /\ sync'.delivered[k] <= k
               /\ kind[sync'.delivered[k]] = kind[k]
    BY <1>0, <1>1, <1>3, <1>4, <2>2 DEF Filed
  <2>3. ASSUME NEW k \in Incidents, NEW j \in Incidents, j < k, sync'.delivered[k] # NoDelivery
        PROVE  sync'.delivered[j] # NoDelivery
    <3>1. CASE k = i
      BY <1>1, <1>3, <1>5, <2>3, <3>1
    <3>2. CASE k # i
      <4>1. sync.delivered[j] # NoDelivery
        BY <1>0, <1>1, <2>3, <3>2 DEF Filed
      <4>2. QED
        BY <1>1, <1>3, <4>1
    <3>3. QED
      BY <3>1, <3>2
  <2>4. QED
    BY <2>1, <2>2, <2>3 DEF Filed
<1>7. UNCHANGED <<kind, queue, pass, disk, rows, delivered>>
  BY <1>1 DEF agentVars, panelVars
<1>8. Filed(kind, rows, delivered)' /\ Filed(kind, sync.rows, sync.delivered)'
  BY <1>6, <1>7 DEF LogInv
<1>9. Numbered' /\ BatchComplete'
  BY <1>0, <1>1, <1>7 DEF Numbered, BatchComplete, Queued, Opened
<1>10. QED
  BY <1>0, <1>1, <1>7, <1>8, <1>9 DEF LogInv

LEMMA CommitLogs == LogInv /\ Commit => LogInv'
<1> SUFFICES ASSUME LogInv, Commit PROVE LogInv'
  OBVIOUS
<1>0. /\ DInv /\ DInv' /\ Numbered /\ sync.at = "ingesting"
      /\ Filed(kind, sync.rows, sync.delivered)
  BY CommitHolds DEF LogInv, Commit
<1>1. /\ rows' = sync.rows /\ delivered' = sync.delivered
      /\ UNCHANGED <<kind, queue, pass, disk>>
      /\ sync' = [IdleSync EXCEPT !.at = "committed", !.batch = sync.batch]
  BY DEF Commit, agentVars
<1>2. sync'.at = "committed" /\ InBatch' = InBatch
  BY <1>1 DEF IdleSync, InBatch
<1>3. Filed(kind, rows, delivered)'
  BY <1>0, <1>1
<1>4. Numbered'
  BY <1>0, <1>1, <1>2 DEF Numbered, Queued, Opened
<1>5. QED
  BY <1>0, <1>2, <1>3, <1>4 DEF LogInv

\* The end of a sync, whichever it is.
LEMMA SyncEndLogs ==
    ASSUME LogInv, Acknowledge \/ AcknowledgePartly \/ SyncFails
    PROVE  LogInv' /\ UNCHANGED <<kind, panelVars>>
<1>0. DInv /\ DInv' /\ Numbered /\ queue \in [Incidents -> Files]
  BY AcknowledgeHolds, AcknowledgePartlyHolds, SyncFailsHolds DEF LogInv, DInv, TypeOK
<1>1. /\ sync' = IdleSync /\ UNCHANGED <<kind, disk>> /\ UNCHANGED panelVars
      /\ pass' = pass \/ pass' = Restarted(disk)
  BY DEF Acknowledge, AcknowledgePartly, SyncFails, agentVars
<1>2. \A i \in Incidents : queue'[i].status # "none" => queue[i].status # "none"
  <2>1. ASSUME NEW S, NEW i \in Incidents, Mark(S)[i].status # "none"
        PROVE  queue[i].status # "none"
    BY <1>0, <2>1 DEF Mark, Queued, Files
  <2>2. QED
    BY <2>1 DEF Acknowledge, AcknowledgePartly, SyncFails, agentVars, NoFile
<1>3. InBatch' = {} /\ sync'.at = "idle"
  BY <1>1 DEF InBatch, IdleSync, NoFile
<1>4. pass'.active \in {pass.active, disk.active}
  BY <1>1 DEF Restarted
<1>5. Numbered'
  BY <1>0, <1>1, <1>2, <1>3, <1>4 DEF Numbered, Queued, Opened
<1>6. Filed(kind, rows, delivered)'
  BY <1>1 DEF LogInv, panelVars
<1>7. QED
  BY <1>0, <1>1, <1>3, <1>5, <1>6 DEF LogInv

LEMMA PanelResolvesLogs ==
    ASSUME LogInv, NEW r \in Incidents, PanelResolves(r)
    PROVE  /\ LogInv' /\ UNCHANGED <<kind, delivered>>
           /\ \A k \in Incidents : /\ rows'[k].occurrences = rows[k].occurrences
                                   /\ rows'[k].attempts = rows[k].attempts
<1>0. DInv /\ DInv' /\ Numbered /\ rows \in [Incidents -> Rows] /\ Filed(kind, rows, delivered)
  BY PanelResolvesHolds DEF LogInv, DInv, TypeOK
<1>1. /\ sync.at # "ingesting" /\ rows[r].status = "open"
      /\ rows' = [rows EXCEPT ![r].status = "resolved"]
      /\ UNCHANGED <<kind, queue, pass, disk, delivered, sync>>
  BY DEF PanelResolves, agentVars
<1>2. \A k \in Incidents : /\ rows'[k].occurrences = rows[k].occurrences
                           /\ rows'[k].attempts = rows[k].attempts
                           /\ rows'[k].type = rows[k].type
                           /\ rows'[k].status # "none" => rows[k].status # "none"
  <2>1. rows[r] \in Rows
    BY <1>0
  <2>2. QED
    BY <1>0, <1>1, <2>1 DEF Rows
<1>3. Filed(kind, rows, delivered)'
  BY <1>0, <1>1, <1>2 DEF Filed
<1>4. Numbered'
  BY <1>0, <1>1 DEF Numbered, Queued, Opened, InBatch
<1>5. QED
  BY <1>0, <1>1, <1>2, <1>3, <1>4 DEF LogInv

LEMMA InitLogs == Init => LogInv
<1> SUFFICES ASSUME Init PROVE LogInv
  OBVIOUS
<1>1. DInv
  BY InitHolds
<1>2. Numbered /\ Filed(kind, rows, delivered) /\ sync.at = "idle"
  BY DEF Init, Numbered, Filed, Queued, Opened, InBatch, IdleSync, NoFile, NoRow, NoDelivery,
         Restarted
<1>3. QED
  BY <1>1, <1>2 DEF LogInv

LEMMA StutterLogs == LogInv /\ UNCHANGED vars => LogInv'
<1> SUFFICES ASSUME LogInv, UNCHANGED vars PROVE LogInv'
  OBVIOUS
<1>1. DInv'
  BY NextHolds DEF LogInv
<1>2. Numbered' /\ KindStays
  BY AgentQuiet DEF vars
<1>3. QED
  BY <1>1, <1>2, AgentFiles DEF vars, panelVars

\* What a step of the log must leave alone, read at the panel.
LEMMA LogStutters ==
    ASSUME UNCHANGED <<kind, delivered>>,
           \A r \in Incidents : /\ rows'[r].occurrences = rows[r].occurrences
                                /\ rows'[r].attempts = rows[r].attempts
    PROVE  UNCHANGED Log!logVars
BY DEF Log!logVars, Made

\* The counts of the rows that a transaction commits.
LEMMA CommitCounts ==
    ASSUME DInv, Commit, NEW r \in Incidents
    PROVE  rows'[r].occurrences = rows[r].occurrences +
               Cardinality({i \in {j \in Incidents : delivered[j] = NoDelivery
                                                         /\ delivered'[j] # NoDelivery} :
                                delivered'[i] = r})
<1> DEFINE before == {i \in Incidents : delivered[i] = r}
           after == {i \in Incidents : delivered'[i] = r}
           new == {i \in {j \in Incidents : delivered[j] = NoDelivery
                                                /\ delivered'[j] # NoDelivery} :
                       delivered'[i] = r}
<1>1. DInv'
  BY CommitHolds
<1>2. rows[r].occurrences = Cardinality(before) /\ rows'[r].occurrences = Cardinality(after)
  BY <1>1 DEF DInv, Accounted
<1>3. \A i \in Incidents : delivered[i] # NoDelivery => delivered'[i] = delivered[i]
  BY DEF DInv, Commit, InTransaction
<1>4. r # NoDelivery
  BY DEF NoDelivery, Incidents
<1>5. after = before \cup new /\ before \cap new = {}
  BY <1>3, <1>4
<1>6. IsFiniteSet(before) /\ IsFiniteSet(new)
  <2>1. IsFiniteSet(Incidents)
    BY ConstantsInRange, FS_Interval DEF Incidents
  <2>2. QED
    BY <2>1, FS_Subset
<1> HIDE DEF before, after, new
<1>7. Cardinality(after) = Cardinality(before) + Cardinality(new)
  <2>1. Cardinality(before \cup new)
            = Cardinality(before) + Cardinality(new) - Cardinality(before \cap new)
    BY <1>6, FS_Union
  <2>2. Cardinality(before \cap new) = 0
    BY <1>5, FS_EmptySet
  <2>3. Cardinality(before) \in Nat /\ Cardinality(new) \in Nat
    BY <1>6, FS_CardinalityType
  <2>4. QED
    BY <1>5, <2>1, <2>2, <2>3
<1>8. QED
  BY <1>2, <1>7 DEF new

LEMMA CommitRecords == ASSUME LogInv, Commit PROVE Log!Record
<1> DEFINE new == {i \in Incidents : delivered[i] = NoDelivery /\ delivered'[i] # NoDelivery}
<1>0. /\ DInv /\ InTransaction /\ Filed(kind, sync.rows, sync.delivered)
      /\ Accounted(sync.rows, sync.delivered) /\ sync.delivered \in Deliveries
      /\ kind' = kind /\ delivered' = sync.delivered /\ rows' = sync.rows
  BY DEF LogInv, DInv, Commit, InTransaction, TypeOK, Syncs, agentVars
<1>1. \A i \in Incidents : delivered[i] # NoDelivery => delivered'[i] = delivered[i]
  BY <1>0 DEF InTransaction
<1>2. ASSUME NEW i \in Incidents, delivered'[i] # NoDelivery
      PROVE  /\ kind[i] # "none" /\ delivered'[i] \in Incidents /\ delivered'[i] <= i
             /\ kind[delivered'[i]] = kind[i]
             /\ delivered'[delivered'[i]] = delivered'[i]
             /\ \A j \in Incidents : j < i => delivered'[j] # NoDelivery
  <2>1. delivered'[i] \in Incidents /\ sync.rows[delivered'[i]].status # "none"
    BY <1>0, <1>2 DEF Deliveries, Accounted
  <2>2. QED
    BY <1>0, <1>2, <2>1 DEF Filed
<1>3. \A r \in Incidents : Made(rows[r].attempts) \subseteq Made(rows'[r].attempts)
  BY <1>0, CommitHolds
<1>4. \A r \in Incidents : rows'[r].occurrences =
          rows[r].occurrences + Cardinality({i \in new : delivered'[i] = r})
  BY <1>0, CommitCounts
<1>5. {i \in Log!Unrecorded : delivered'[i] # NoDelivery} = new
  BY DEF Log!Unrecorded
<1>6. Log!Happened = Opened
  BY DEF Log!Happened, Opened
<1> HIDE DEF new
<1>7. [r \in Incidents |-> rows'[r].occurrences] =
          [r \in Incidents |-> [q \in Incidents |-> rows[q].occurrences][r]
                                   + Cardinality({i \in new : delivered'[i] = r})]
  BY <1>4
<1>8. /\ new \subseteq Opened
      /\ \A i \in new : \A j \in Incidents : j < i => delivered'[j] # NoDelivery
      /\ \A i \in new : /\ delivered'[i] \in Opened /\ delivered'[i] <= i
                        /\ kind[delivered'[i]] = kind[i]
                        /\ delivered'[delivered'[i]] = delivered'[i]
  BY <1>2 DEF new, Opened
<1>9. \A i \in Incidents \ Log!Unrecorded : delivered'[i] = delivered[i]
  BY <1>1 DEF Log!Unrecorded
<1>10. \A r \in Incidents : [q \in Incidents |-> Made(rows[q].attempts)][r]
                                \subseteq [q \in Incidents |-> Made(rows'[q].attempts)][r]
  BY <1>3
<1>11. [r \in Incidents |-> Made(rows[r].attempts)]' = [r \in Incidents |-> Made(rows'[r].attempts)]
  BY DEF Made
<1>12. \A S : Log!Cardinality(S) = Cardinality(S)
  BY DEF Log!Cardinality, Cardinality
<1>13. QED
  BY <1>0, <1>5, <1>6, <1>7, <1>8, <1>9, <1>10, <1>11, <1>12 DEF Log!Record

\* An incident opened is one that happens.
LEMMA ReportHappens ==
    ASSUME LogInv, NEW t \in Types, Report(t) \/ StartAttempt(t)
    PROVE  [Log!Next]_(Log!logVars)
<1>1. PICK i \in Incidents :
          \/ kind' = kind
          \/ /\ kind[i] = "none" /\ \A j \in Incidents : j < i => j \in Opened
             /\ kind' = [kind EXCEPT ![i] = t]
  BY ReportsLog
<1>2. rows' = rows /\ delivered' = delivered
  BY DEF Report, StartAttempt, panelVars
<1>3. UNCHANGED <<delivered, [r \in Incidents |-> rows[r].occurrences],
                  [r \in Incidents |-> Made(rows[r].attempts)]>>
  BY <1>2 DEF Made
<1>4. CASE kind' = kind
  BY <1>2, <1>4, LogStutters
<1>5. CASE /\ kind[i] = "none" /\ \A j \in Incidents : j < i => j \in Opened
           /\ kind' = [kind EXCEPT ![i] = t]
  <2>1. delivered[i] = NoDelivery
    BY <1>5 DEF LogInv, Filed
  <2>2. Log!Happens(i, t)
    BY <1>3, <1>5, <2>1 DEF Log!Happens, Log!Unrecorded, Log!Happened, Opened
  <2>3. QED
    BY <2>2 DEF Log!Next
<1>6. QED
  BY <1>1, <1>4, <1>5

LEMMA LogNext ==
    ASSUME LogInv, [Next]_vars
    PROVE  LogInv' /\ [Log!Next]_(Log!logVars)
<1>1. ASSUME NEW t \in Types, Report(t) \/ StartAttempt(t)
      PROVE  LogInv' /\ [Log!Next]_(Log!logVars)
  BY <1>1, ReportsLog, ReportHappens
<1>2. ASSUME LogInv', UNCHANGED <<kind, panelVars>>
      PROVE  LogInv' /\ [Log!Next]_(Log!logVars)
  BY <1>2, LogStutters DEF panelVars
<1>3. CASE FinishAttempt \/ Resolve
  BY <1>2, <1>3, PassLogs DEF FinishAttempt, Resolve
<1>4. CASE SaveRuntime \/ AcceptQuarantineClear \/ AgentCrash
  BY <1>2, <1>4, RecordsLog
<1>5. CASE List \/ Ingest \/ Acknowledge \/ AcknowledgePartly \/ SyncFails
  BY <1>2, <1>5, ListLogs, IngestLogs, SyncEndLogs
<1>6. CASE Commit
  BY <1>6, CommitLogs, CommitRecords DEF Log!Next
<1>7. ASSUME NEW r \in Incidents, PanelResolves(r)
      PROVE  LogInv' /\ [Log!Next]_(Log!logVars)
  BY <1>7, PanelResolvesLogs, LogStutters
<1>8. CASE UNCHANGED vars
  BY <1>2, <1>8, StutterLogs DEF vars, panelVars
<1>9. QED
  BY <1>1, <1>3, <1>4, <1>5, <1>6, <1>7, <1>8 DEF Next, AgentPass, Sync

(* Crashes, lost answers and partial acknowledgements or not, the panel's  *)
(* tables are a log: what ingest_incidents_and_ack commits records every   *)
(* incident once, with its kind, and none before an earlier one.           *)
THEOREM Implements == Spec => LogPromise
<1>1. Init => LogInv
  BY InitLogs
<1>2. LogInv /\ [Next]_vars => LogInv' /\ [Log!Next]_(Log!logVars)
  BY LogNext
<1>3. Init => Log!Init
  BY DEF Init, Log!Init, NoRow, NoHistory, Made
<1>4. QED
  BY <1>1, <1>2, <1>3, PTL DEF Spec, LogPromise, Log!Spec
=============================================================================
