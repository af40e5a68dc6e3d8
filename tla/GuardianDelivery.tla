-------------------------- MODULE GuardianDelivery --------------------------
(***************************************************************************)
(* How the incidents of one server travel from the agent to the panel:     *)
(* the agent's durable queue (guardian_incident_store.py), the Guardian    *)
(* pass that writes it (guardian_service.py, whose decisions GuardianEngine *)
(* models), and the panel's sync that commits what it read before it       *)
(* acknowledges (guardian_incident_service.py).                            *)
(*                                                                         *)
(* Incidents are numbered in the order of their creation, which is the     *)
(* order the agent delivers them in; recovery attempts are numbered over   *)
(* the server's life, as (attempt, at) identifies them.  A status is       *)
(* "resolved" or, for open, recovering, verifying and quarantined, "open". *)
(***************************************************************************)
EXTENDS Naturals, FiniteSets

CONSTANTS
    Types,          \* failure classes; the fingerprint of an incident is its type
    MaxIncidents,   \* bound: incidents the agent opens
    MaxAttempts,    \* bound: recovery attempts it makes
    Retention,      \* ACKNOWLEDGED_RETENTION
    MaxFaults       \* bound: agent crashes and failed syncs

ASSUME DeliveryAssumption ==
    /\ Types # {} /\ "none" \notin Types
    /\ \A n \in {MaxIncidents, MaxAttempts, Retention, MaxFaults} : n \in Nat

VARIABLES
    kind,       \* type of each incident opened so far
    queue,      \* agent: the incident files
    disk,       \* agent: the incident part of runtime-state.json
    pass,       \* agent: the copy of it the current pass works on
    attempted,  \* agent: attempts made so far
    rows,       \* panel: the incidents table, keyed by the incident that created the row
    delivered,  \* panel: guardian_incident_deliveries, the row of each incident received
    sync,       \* panel: how far the sync of this server got
    faults,     \* crashes and failed syncs so far
    committed   \* observer: the content of each incident the panel last committed

agentVars == <<kind, queue, disk, pass, attempted>>
panelVars == <<rows, delivered, committed>>
vars == <<kind, queue, disk, pass, attempted, rows, delivered, sync, faults, committed>>

Incidents == 1..MaxIncidents
Attempts == 1..MaxAttempts
Statuses == {"none", "open", "resolved"}
Histories == [Attempts -> {"none", "running", "finished"}]

NoHistory == [a \in Attempts |-> "none"]
NoFile == [status |-> "none", attempts |-> NoHistory, acknowledged |-> FALSE]
NoRow == [type |-> "none", status |-> "none", attempts |-> NoHistory, occurrences |-> 0]
NoDelivery == 0

Files == [status: Statuses, attempts: Histories, acknowledged: BOOLEAN]
Rows == [type: Types \cup {"none"}, status: Statuses, attempts: Histories, occurrences: Nat]
Runtime == [active: Incidents \cup {0}, attempts: Histories]
\* closed: the type of the incident this pass resolved; running: the attempt whose action runs.
Passes == [active: Incidents \cup {0}, attempts: Histories,
           closed: Types \cup {"none"}, running: Attempts \cup {0}]
Deliveries == [Incidents -> Incidents \cup {NoDelivery}]
\* batch: what the sync read; todo: what of it the open transaction has yet to ingest;
\* found: the rows its queries find unresolved.
Syncs == [at: {"idle", "ingesting", "committed"}, batch: [Incidents -> Files],
          todo: SUBSET Incidents, rows: [Incidents -> Rows], delivered: Deliveries,
          found: SUBSET Incidents]

Opened == {i \in Incidents : kind[i] # "none"}
Made(history) == {a \in Attempts : history[a] # "none"}
Stored(p) == [active |-> p.active, attempts |-> p.attempts]
Restarted(d) == [active |-> d.active, attempts |-> d.attempts, closed |-> "none", running |-> 0]
Queued == {i \in Incidents : queue[i].status # "none"}
Unacknowledged == {i \in Queued : ~queue[i].acknowledged}
IdleSync == [at |-> "idle", batch |-> [i \in Incidents |-> NoFile], todo |-> {},
             rows |-> [i \in Incidents |-> NoRow],
             delivered |-> [i \in Incidents |-> NoDelivery], found |-> {}]

Init ==
    /\ kind = [i \in Incidents |-> "none"]
    /\ queue = [i \in Incidents |-> NoFile]
    /\ disk = [active |-> 0, attempts |-> NoHistory]
    /\ pass = Restarted(disk)
    /\ attempted = 0
    /\ rows = [i \in Incidents |-> NoRow]
    /\ delivered = [i \in Incidents |-> NoDelivery]
    /\ sync = IdleSync
    /\ faults = 0
    /\ committed = [i \in Incidents |-> NoFile]

-----------------------------------------------------------------------------
(* The agent's pass.  Every upsert is a durable file write of its own; the *)
(* runtime state follows in a later write.                                 *)

Upsert(i, status, history) ==
    queue' = [queue EXCEPT ![i] = [status |-> status, attempts |-> history,
                                   acknowledged |-> FALSE]]

\* The active incident, or a new one of type t with the next uuid.
Subject(t, i) ==
    IF pass.active # 0
    THEN i = pass.active /\ kind' = kind
    ELSE /\ t # pass.closed
         /\ i = Cardinality(Opened) + 1
         /\ i \in Incidents
         /\ kind' = [kind EXCEPT ![i] = t]

Report(t) == \E i \in Incidents :
    /\ pass.running = 0
    /\ Subject(t, i)
    /\ Upsert(i, "open", pass.attempts)
    /\ pass' = [pass EXCEPT !.active = i]
    /\ UNCHANGED <<disk, attempted, sync, faults>> /\ UNCHANGED panelVars

\* Attempts older than the window leave the runtime state, and so the file.
StartAttempt(t) == \E i \in Incidents, kept \in SUBSET Made(pass.attempts) :
    LET history == [a \in Attempts |->
                        CASE a = attempted + 1 -> "running"
                          [] a \in kept -> pass.attempts[a]
                          [] OTHER -> "none"]
    IN  /\ pass.running = 0
        /\ attempted < MaxAttempts
        /\ Subject(t, i)
        /\ Upsert(i, "open", history)
        /\ attempted' = attempted + 1
        /\ pass' = [pass EXCEPT !.active = i, !.attempts = history, !.running = attempted + 1]
        /\ UNCHANGED <<disk, sync, faults>> /\ UNCHANGED panelVars

\* Only an attempt that is saved as running is executed.
FinishAttempt ==
    LET history == [pass.attempts EXCEPT ![pass.running] = "finished"]
    IN  /\ pass.running # 0
        /\ disk = Stored(pass)
        /\ Upsert(pass.active, "open", history)
        /\ pass' = [pass EXCEPT !.attempts = history, !.running = 0]
        /\ UNCHANGED <<kind, disk, attempted, sync, faults>> /\ UNCHANGED panelVars

\* The server recovered, was stopped on purpose or fails in another way now.
Resolve ==
    /\ pass.active # 0
    /\ pass.running = 0
    /\ Upsert(pass.active, "resolved", pass.attempts)
    /\ pass' = [active |-> 0, attempts |-> NoHistory, closed |-> kind[pass.active], running |-> 0]
    /\ UNCHANGED <<kind, disk, attempted, sync, faults>> /\ UNCHANGED panelVars

SaveRuntime ==
    /\ disk # Stored(pass) \/ pass.closed # "none"
    /\ disk' = Stored(pass)
    /\ pass' = [pass EXCEPT !.closed = "none"]
    /\ UNCHANGED <<kind, queue, attempted, sync, faults>> /\ UNCHANGED panelVars

\* An accepted quarantine clear drops the incident between two passes.
AcceptQuarantineClear ==
    /\ pass = Restarted(disk)
    /\ disk.active # 0
    /\ disk' = [active |-> 0, attempts |-> NoHistory]
    /\ pass' = Restarted(disk')
    /\ UNCHANGED <<kind, queue, attempted, sync, faults>> /\ UNCHANGED panelVars

AgentCrash ==
    /\ faults < MaxFaults
    /\ pass # Restarted(disk)
    /\ faults' = faults + 1
    /\ pass' = Restarted(disk)
    /\ UNCHANGED <<kind, queue, disk, attempted, sync>> /\ UNCHANGED panelVars

-----------------------------------------------------------------------------
(* The panel's sync: read, commit, acknowledge.                            *)

Unresolved(table) == {r \in Incidents : table[r].status = "open"}

List ==
    /\ sync.at = "idle"
    /\ Unacknowledged # {}
    /\ sync' = [at |-> "ingesting", todo |-> Unacknowledged, rows |-> rows, delivered |-> delivered,
                found |-> Unresolved(rows),
                batch |-> [i \in Incidents |-> IF i \in Unacknowledged THEN queue[i] ELSE NoFile]]
    /\ UNCHANGED <<faults>> /\ UNCHANGED agentVars /\ UNCHANGED panelVars

\* mutant: the list of this sync is taken to be the whole history
ReplaceAttempts(stored, new) == new

\* The attempts of a sync replace the stored ones with the same key.
MergeAttempts(stored, new) ==
    [a \in Attempts |-> IF new[a] # "none" THEN new[a] ELSE stored[a]]

\* mutant: whatever is open on the server takes the incident
OpenRowsOfAnyType(t) == sync.found

OpenRows(t) == {r \in sync.found : sync.rows[r].type = t}

\* The row an incident belongs to: the one it was delivered to, the one it
\* created, an open row with its fingerprint, or a new row of its own.
Target(i) ==
    IF sync.delivered[i] # NoDelivery THEN {sync.delivered[i]}
    ELSE IF sync.rows[i].status # "none" THEN {i}
    ELSE IF OpenRows(kind[i]) # {} THEN OpenRows(kind[i])
    ELSE {i}

\* mutant: a redelivered incident counts again
CountedAgain(i) == TRUE

\* Only a uuid that was neither delivered nor stored before counts.
Counted(i) == sync.delivered[i] = NoDelivery /\ sync.rows[i].status = "none"

Merged(row, i) ==
    [type |-> kind[i],
     status |-> sync.batch[i].status,
     attempts |-> MergeAttempts(row.attempts, sync.batch[i].attempts),
     occurrences |-> IF Counted(i) THEN row.occurrences + 1 ELSE row.occurrences]

\* The session has autoflush off: its queries see a new status only after a flush, which
\* a redelivered incident and a new row bring, and a grouped incident does not.
Flushed(i, r) ==
    IF sync.delivered[i] # NoDelivery \/ sync.rows[r].status = "none"
    THEN Unresolved([sync.rows EXCEPT ![r] = Merged(@, i)])
    ELSE sync.found

Ingest ==
    /\ sync.at = "ingesting"
    /\ \E i \in sync.todo :
           /\ \A j \in sync.todo : i <= j
           /\ \E r \in Target(i) :
                  sync' = [sync EXCEPT !.todo = @ \ {i},
                                       !.rows[r] = Merged(@, i),
                                       !.delivered[i] = r, !.found = Flushed(i, r)]
    /\ UNCHANGED <<faults>> /\ UNCHANGED agentVars /\ UNCHANGED panelVars

InBatch == {i \in Incidents : sync.batch[i].status # "none"}

\* mutant: the transaction is committed before the batch is through
CommitEarly ==
    /\ sync.at = "ingesting"
    /\ rows' = sync.rows
    /\ delivered' = sync.delivered
    /\ committed' = [i \in Incidents |-> IF i \in InBatch THEN sync.batch[i] ELSE committed[i]]
    /\ sync' = [IdleSync EXCEPT !.at = "committed", !.batch = sync.batch]
    /\ UNCHANGED <<faults>> /\ UNCHANGED agentVars

Commit ==
    /\ sync.at = "ingesting"
    /\ sync.todo = {}
    /\ rows' = sync.rows
    /\ delivered' = sync.delivered
    /\ committed' = [i \in Incidents |-> IF i \in InBatch THEN sync.batch[i] ELSE committed[i]]
    /\ sync' = [IdleSync EXCEPT !.at = "committed", !.batch = sync.batch]
    /\ UNCHANGED <<faults>> /\ UNCHANGED agentVars

\* acknowledge() marks whatever file now bears the uuid, then drops the oldest
\* acknowledged files beyond the retention.
Mark(S) == [i \in Incidents |-> IF i \in S \cap Queued THEN [queue[i] EXCEPT !.acknowledged = TRUE]
                                ELSE queue[i]]

\* mutant: the retention also bounds what is still queued
SurplusOfAll(files, fresh) ==
    LET kept == {i \in Incidents : files[i].status # "none"}
    IN  {S \in SUBSET kept :
            Cardinality(kept \ S) = IF Cardinality(kept) > Retention THEN Retention
                                    ELSE Cardinality(kept)}

Surplus(files, fresh) ==
    LET done == {i \in Incidents : files[i].acknowledged}
    IN  {S \in SUBSET done :
            /\ Cardinality(done \ S) = IF Cardinality(done) > Retention THEN Retention
                                       ELSE Cardinality(done)
            /\ S \cap fresh # {} => done \ fresh \subseteq S}

\* mutant: the batch is acknowledged while its transaction is open
AcknowledgeUncommitted ==
    /\ sync.at \in {"ingesting", "committed"}
    /\ \E S \in Surplus(Mark(InBatch), InBatch) :
           queue' = [i \in Incidents |-> IF i \in S THEN NoFile ELSE Mark(InBatch)[i]]
    /\ sync' = IdleSync
    /\ UNCHANGED <<kind, disk, pass, attempted, faults>> /\ UNCHANGED panelVars

Acknowledge ==
    /\ sync.at = "committed"
    /\ \E S \in Surplus(Mark(InBatch), InBatch) :
           queue' = [i \in Incidents |-> IF i \in S THEN NoFile ELSE Mark(InBatch)[i]]
    /\ sync' = IdleSync
    /\ UNCHANGED <<kind, disk, pass, attempted, faults>> /\ UNCHANGED panelVars

\* The agent dies while it marks the files one by one; the panel sees an error.
AcknowledgePartly ==
    /\ sync.at = "committed"
    /\ faults < MaxFaults
    /\ faults' = faults + 1
    /\ \E S \in SUBSET InBatch : queue' = Mark(S)
    /\ pass' = Restarted(disk)
    /\ sync' = IdleSync
    /\ UNCHANGED <<kind, disk, attempted>> /\ UNCHANGED panelVars

\* The panel dies, its transaction fails or a request gets no answer.
SyncFails ==
    /\ sync.at # "idle"
    /\ faults < MaxFaults
    /\ faults' = faults + 1
    /\ sync' = IdleSync
    /\ UNCHANGED agentVars /\ UNCHANGED panelVars

\* A user or the lifecycle of a stopped server closes a row.
PanelResolves(r) ==
    /\ sync.at # "ingesting"
    /\ rows[r].status = "open"
    /\ rows' = [rows EXCEPT ![r].status = "resolved"]
    /\ UNCHANGED <<delivered, committed, sync, faults>> /\ UNCHANGED agentVars

-----------------------------------------------------------------------------
AgentPass == \/ \E t \in Types : Report(t) \/ StartAttempt(t)
             \/ FinishAttempt \/ Resolve \/ SaveRuntime
Sync == List \/ Ingest \/ Commit \/ Acknowledge

Next == \/ AgentPass \/ AcceptQuarantineClear \/ AgentCrash
        \/ Sync \/ AcknowledgePartly \/ SyncFails
        \/ \E r \in Incidents : PanelResolves(r)

Spec == Init /\ [][Next]_vars

\* The scheduler runs a sync of every server on an online node again and again.
FairSpec == Spec /\ WF_vars(Sync)

-----------------------------------------------------------------------------
(* Types: incidents are opened in order, an idle sync keeps nothing of the *)
(* batch before, and a committed batch was ingested to its last incident.  *)
TypeOK ==
    /\ kind \in [Incidents -> Types \cup {"none"}]
    /\ \A i, j \in Incidents : i < j /\ kind[j] # "none" => kind[i] # "none"
    /\ queue \in [Incidents -> Files]
    /\ disk \in Runtime
    /\ pass \in Passes
    /\ attempted \in 0..MaxAttempts
    /\ rows \in [Incidents -> Rows]
    /\ delivered \in Deliveries
    /\ sync \in Syncs
    /\ sync.todo \subseteq InBatch
    /\ sync.at = "idle" => sync = IdleSync
    /\ sync.at = "committed" => \A i \in InBatch : delivered[i] # NoDelivery
    /\ faults \in 0..MaxFaults
    /\ committed \in [Incidents -> Files]

(* Commit before acknowledge: an incident the panel has not recorded is    *)
(* still in the agent's queue, unacknowledged, whatever crashed in between *)
(* and whatever the retention dropped (ingest_incidents_and_ack,           *)
(* prune_acknowledged: "queued incidents are never deleted").              *)
CommittedBeforeAcknowledged ==
    \A i \in Opened : delivered[i] = NoDelivery => i \in Unacknowledged

(* A row's occurrences are the incidents delivered to it: no redelivery    *)
(* after a lost or partial acknowledgement is counted twice, no grouped    *)
(* incident is missed.                                                     *)
OccurrencesCountDeliveries ==
    \A r \in Incidents :
        rows[r].occurrences = Cardinality({i \in Incidents : delivered[i] = r})

(* Every attempt a committed incident carried is in the history of the row *)
(* it was delivered to, also when other incidents share that row.          *)
CommittedIsRecorded ==
    \A i \in Incidents : delivered[i] # NoDelivery =>
        Made(committed[i].attempts) \subseteq Made(rows[delivered[i]].attempts)

(* The agent forgets attempts older than its window; the panel's history   *)
(* never loses one (_merge_attempts).                                      *)
HistoryOnlyGrows ==
    [][\A r \in Incidents : Made(rows[r].attempts) \subseteq Made(rows'[r].attempts)]_vars

(* Every incident the agent opens is recorded by the panel in the end, once *)
(* crashes and failed syncs stop.                                          *)
EveryIncidentArrives ==
    \A i \in Incidents : kind[i] # "none" ~> delivered[i] # NoDelivery

\* What the panel shows is a log of what happened, at every moment between the agent's
\* crash, a lost answer and the next transaction (ingest_incidents_and_ack): nothing is
\* recorded before an earlier incident, under a row of another kind or a second time.
Log == INSTANCE IncidentLog WITH
    Nowhere <- NoDelivery, entry <- delivered,
    count <- [r \in Incidents |-> rows[r].occurrences],
    history <- [r \in Incidents |-> Made(rows[r].attempts)]
LogPromise == Log!Spec

(* What an acknowledged file says has reached the panel: "Was passiert     *)
(* ist, schreibt sie mit und meldet es, sobald das Panel wieder da ist"    *)
(* (README.md).  acknowledge() does not compare the file it marks with the *)
(* content the sync read.                                                  *)
AcknowledgedWasCommitted ==
    \A i \in Incidents : queue[i].acknowledged =>
        /\ queue[i].status = committed[i].status
        /\ queue[i].attempts = committed[i].attempts
=============================================================================
