-------------------------- MODULE DesiredStateSync --------------------------
(***************************************************************************)
(* How the panel's intent for one server reaches its agent: the row of the *)
(* servers table with the Guardian intent and its generation               *)
(* (guardian_state_service.py), the sync that compiles a row into a desired *)
(* state and posts it (guardian_sync_service.py), and the agent's accept    *)
(* rules (accept_desired_state in msm-agent/services/guardian_service.py). *)
(*                                                                         *)
(* A worker is a database session of the panel: an API request, a lifecycle *)
(* job or the scheduler's sync.  Between loading the row and committing, it *)
(* works on its copy.  An UPDATE statement adds one to the generation in   *)
(* the database; a session writes one more than its copy says.             *)
(*                                                                         *)
(* Every intent has a number of its own, as its operation_id or its content *)
(* makes it unlike any other.                                              *)
(***************************************************************************)
EXTENDS Naturals, FiniteSets

CONSTANTS
    Workers,        \* panel sessions that may overlap
    MaxIntents,     \* bound: intents of users, lifecycle jobs and Blueprint authors
    MaxQuarantines, \* bound: times the agent quarantines the server
    MaxFaults       \* bound: interrupted accepts and syncs that fail

ASSUME SyncAssumption ==
    \A n \in {MaxIntents, MaxQuarantines, MaxFaults} : n \in Nat

VARIABLES
    db,         \* panel: the Guardian columns of the row
    blueprint,  \* panel: the Blueprint on disk
    work,       \* panel: what each worker holds
    late,       \* posts whose sender no longer waits
    desired,    \* agent: desired-state.json
    runtime,    \* agent: the quarantine in runtime-state.json
    intents,    \* intents so far
    quarantines,\* quarantines so far
    faults,     \* faults so far
    meant,      \* observer: the quarantine the pending clear was asked for
    last,       \* observer: the session that was the last to read or write the row
    raced       \* observer: a session wrote, or tried to, from a copy that others had outdated

panelVars == <<db, blueprint, intents, meant>>
agentVars == <<desired, runtime, quarantines>>
raceVars == <<last, raced>>
vars == <<db, blueprint, work, late, desired, runtime, intents, quarantines, faults, meant,
          last, raced>>

Numbers == 0..MaxIntents
Powers == {"running", "stopped"}
Configs == Numbers \X Numbers     \* the edits of the row, the Blueprint
NoHash == << >>

\* suspension and control: the operation_id of the pending intent, 0 for none.
DbRows == [gen: Nat, power: Powers, edit: Numbers, hash: Configs \cup {NoHash},
           suspension: Numbers, control: Numbers]
Payloads == [gen: Nat, power: Powers, config: Configs, suspension: Numbers, control: Numbers]
NoPayload == [gen |-> 0, power |-> "stopped", config |-> <<0, 0>>,
              suspension |-> 0, control |-> 0]
Answers == {"none", "updated", "unchanged", "stale", "conflict", "error"}
Stages == {"idle", "loaded", "compiled", "posted", "answered", "observed"}
Sessions == [at: Stages, row: DbRows, payload: Payloads, answer: Answers,
             clean: BOOLEAN,    \* the agent reported this generation and no quarantine
             lease: Numbers]    \* the suspension its lifecycle operation took, kept in between

NewRow == [gen |-> 1, power |-> "stopped", edit |-> 0, hash |-> NoHash,
           suspension |-> 0, control |-> 0]
IdleSession == [at |-> "idle", row |-> NewRow, payload |-> NoPayload, answer |-> "none",
                clean |-> FALSE, lease |-> 0]

Init ==
    /\ db = NewRow
    /\ blueprint = 0
    /\ work = [w \in Workers |-> IdleSession]
    /\ late = {}
    /\ desired = NoPayload
    /\ runtime = [quarantine |-> 0, lastClear |-> 0]
    /\ intents = 0
    /\ quarantines = 0
    /\ faults = 0
    /\ meant = 0
    /\ last \in Workers
    /\ raced = FALSE

-----------------------------------------------------------------------------
(* Intents.                                                                *)

Numbered(n) == intents < MaxIntents /\ n = intents + 1 /\ intents' = n

\* One UPDATE statement: the row changes and is counted in the database.
SetDesiredPowerState(power) == \E n \in Numbers :
    /\ Numbered(n)
    /\ db.power # power
    /\ db' = [db EXCEPT !.power = power, !.gen = @ + 1]
    /\ UNCHANGED <<blueprint, work, late, faults, meant>>
    /\ UNCHANGED agentVars /\ UNCHANGED raceVars

BlueprintChanges == \E n \in Numbers :
    /\ Numbered(n)
    /\ blueprint' = n
    /\ UNCHANGED <<db, work, late, faults, meant>>
    /\ UNCHANGED agentVars /\ UNCHANGED raceVars

\* Another session has read or written the row since this one read it, and the row is no
\* longer what the copy says.
Outdated(w) == last # w /\ db # work[w].row

Reads(w) == last' = w /\ UNCHANGED raced
Writes(w) == last' = w /\ raced' = (raced \/ Outdated(w))

\* The session between two requests.
Ended(w) == [IdleSession EXCEPT !.lease = work[w].lease]

Load(w) ==
    /\ work[w].at = "idle"
    /\ work' = [work EXCEPT ![w] = [Ended(w) EXCEPT !.at = "loaded", !.row = db]]
    /\ Reads(w)
    /\ UNCHANGED <<late, faults>> /\ UNCHANGED panelVars /\ UNCHANGED agentVars

\* mutant: the generation of the copy is written back as it was
Uncounted(w) == work[w].row.gen

Counted(w) == work[w].row.gen + 1

\* A session that loaded the row changes columns of it and commits.
Commits(w, changed, lease) ==
    /\ work[w].at = "loaded"
    /\ db' = changed
    /\ work' = [work EXCEPT ![w] = [IdleSession EXCEPT !.lease = lease]]
    /\ Writes(w)
    /\ UNCHANGED <<blueprint, late, faults>> /\ UNCHANGED agentVars

EditConfiguration(w) == \E n \in Numbers :
    /\ Numbered(n)
    /\ Commits(w, [db EXCEPT !.edit = n, !.hash = NoHash, !.gen = Counted(w)], work[w].lease)
    /\ UNCHANGED meant

SetRecoverySuspension(w) == \E n \in Numbers :
    /\ Numbered(n)
    /\ Commits(w, [db EXCEPT !.suspension = n, !.gen = Counted(w)], n)
    /\ UNCHANGED meant

\* The lease ends with the operation that took it.
ClearRecoverySuspension(w) ==
    /\ work[w].row.suspension # 0
    /\ work[w].row.suspension = work[w].lease
    /\ Commits(w, [db EXCEPT !.suspension = 0, !.gen = Counted(w)], 0)
    /\ UNCHANGED <<intents, meant>>

PrepareQuarantineClear(w) == \E n \in Numbers :
    /\ Numbered(n)
    /\ Commits(w, [db EXCEPT !.control = n, !.gen = Counted(w)], work[w].lease)
    /\ meant' = runtime.quarantine

-----------------------------------------------------------------------------
(* The sync: compile, post, observe, commit what was observed.             *)

Effective(row) == <<row.edit, blueprint>>
Payload(row) == [gen |-> row.gen, power |-> row.power, suspension |-> row.suspension,
                 control |-> row.control, config |-> Effective(row)]

\* mutant: a changed Blueprint is stored without a new generation
HashedOnly(row) == [db EXCEPT !.hash = Effective(row)]

\* The first compilation after an edit is the baseline; any later change counts.
Hashed(row) ==
    [db EXCEPT !.hash = Effective(row),
               !.gen = IF row.hash = NoHash THEN @ ELSE @ + 1]

\* ensure_guardian_config_generation, then the payload.  The UPDATE takes
\* effect only if the hash is still the one the session read.
Compile(w) ==
    LET row == work[w].row
    IN  /\ work[w].at = "loaded"
        /\ db' = IF row.hash # Effective(row) /\ db.hash = row.hash THEN Hashed(row) ELSE db
        /\ LET fresh == IF row.hash = Effective(row) THEN row ELSE db'
           IN  work' = [work EXCEPT ![w].at = "compiled", ![w].row = fresh,
                                    ![w].payload = Payload(fresh)]
        /\ IF row.hash = Effective(row) THEN UNCHANGED raceVars ELSE Writes(w)
        /\ UNCHANGED <<blueprint, late, intents, faults, meant>> /\ UNCHANGED agentVars

Post(w) ==
    /\ work[w].at = "compiled"
    /\ work' = [work EXCEPT ![w].at = "posted"]
    /\ UNCHANGED <<late, faults>>
    /\ UNCHANGED panelVars /\ UNCHANGED agentVars /\ UNCHANGED raceVars

Answer(p) ==
    CASE p.gen < desired.gen -> "stale"
      [] p.gen = desired.gen -> IF p = desired THEN "unchanged" ELSE "conflict"
      [] OTHER -> "updated"

\* A clear is carried out once per operation_id.
Cleared(p) ==
    IF p.control # 0 /\ runtime.lastClear # p.control
    THEN [quarantine |-> 0, lastClear |-> p.control]
    ELSE runtime

\* mutant: the runtime state is written, the contract is not
AcceptUnsaved(p) ==
    IF Answer(p) = "updated"
    THEN desired' = desired /\ runtime' = Cleared(p)
    ELSE UNCHANGED <<desired, runtime>>

Accept(p) ==
    IF Answer(p) = "updated"
    THEN desired' = p /\ runtime' = Cleared(p)
    ELSE UNCHANGED <<desired, runtime>>

Deliver(w) ==
    /\ work[w].at = "posted"
    /\ Accept(work[w].payload)
    /\ work' = [work EXCEPT ![w].at = "answered", ![w].answer = Answer(work[w].payload)]
    /\ UNCHANGED <<late, quarantines, faults>> /\ UNCHANGED panelVars /\ UNCHANGED raceVars

DeliverLate == \E p \in late :
    /\ Accept(p)
    /\ late' = late \ {p}
    /\ UNCHANGED <<work, quarantines, faults>> /\ UNCHANGED panelVars /\ UNCHANGED raceVars

\* The agent dies between the two files it writes.
AcceptInterrupted(w) ==
    /\ faults < MaxFaults
    /\ faults' = faults + 1
    /\ work[w].at = "posted"
    /\ Answer(work[w].payload) = "updated"
    /\ desired' = work[w].payload
    /\ work' = [work EXCEPT ![w].at = "answered", ![w].answer = "error"]
    /\ UNCHANGED <<runtime, late, quarantines>> /\ UNCHANGED panelVars /\ UNCHANGED raceVars

\* The request times out; it may still reach the agent, or never.
PostTimesOut(w) ==
    /\ faults < MaxFaults
    /\ faults' = faults + 1
    /\ work[w].at = "posted"
    /\ \/ late' = late \cup {work[w].payload}
       \/ UNCHANGED late
    /\ work' = [work EXCEPT ![w].at = "answered", ![w].answer = "error"]
    /\ UNCHANGED panelVars /\ UNCHANGED agentVars /\ UNCHANGED raceVars

\* mutant: any quarantine report counts
CleanGeneration(row) == desired.gen = row.gen

Clean(row) == desired.gen = row.gen /\ runtime.quarantine = 0

\* A failed post was committed as an error, so that the row is loaded anew.
Observe(w) ==
    LET kept == work[w].answer \in {"updated", "unchanged"}
        row == IF kept THEN work[w].row ELSE db
    IN  /\ work[w].at = "answered"
        /\ work' = [work EXCEPT ![w].at = "observed", ![w].row = row, ![w].clean = Clean(row)]
        /\ IF kept THEN UNCHANGED raceVars ELSE Reads(w)
        /\ UNCHANGED <<late, faults>> /\ UNCHANGED panelVars /\ UNCHANGED agentVars

\* A clear the agent has accepted and no longer reports is retired.
CommitObserved(w) ==
    /\ work[w].at = "observed"
    /\ IF work[w].clean /\ work[w].row.control # 0
       THEN db' = [db EXCEPT !.control = 0, !.gen = Counted(w)] /\ Writes(w)
       ELSE UNCHANGED db /\ UNCHANGED raceVars
    /\ work' = [work EXCEPT ![w] = Ended(w)]
    /\ UNCHANGED <<blueprint, late, intents, faults, meant>> /\ UNCHANGED agentVars

\* A lifecycle job's sync ends with the answer.
FinishPost(w) ==
    /\ work[w].at = "answered"
    /\ work' = [work EXCEPT ![w] = Ended(w)]
    /\ UNCHANGED <<late, faults>>
    /\ UNCHANGED panelVars /\ UNCHANGED agentVars /\ UNCHANGED raceVars

\* The panel dies or the agent cannot be reached.
SyncFails(w) ==
    /\ faults < MaxFaults
    /\ faults' = faults + 1
    /\ work[w].at \in {"loaded", "compiled", "answered", "observed"}
    /\ work' = [work EXCEPT ![w] = Ended(w)]
    /\ UNCHANGED late
    /\ UNCHANGED panelVars /\ UNCHANGED agentVars /\ UNCHANGED raceVars

\* Recovery failed and the server is meant to run.
Quarantine ==
    /\ quarantines < MaxQuarantines
    /\ desired.gen # 0
    /\ desired.power = "running"
    /\ runtime.quarantine = 0
    /\ quarantines' = quarantines + 1
    /\ runtime' = [runtime EXCEPT !.quarantine = quarantines + 1]
    /\ UNCHANGED <<work, late, desired, faults>> /\ UNCHANGED panelVars /\ UNCHANGED raceVars

-----------------------------------------------------------------------------
Intent(w) == \/ EditConfiguration(w) \/ SetRecoverySuspension(w)
             \/ ClearRecoverySuspension(w) \/ PrepareQuarantineClear(w)
Sync(w) == \/ Load(w) \/ Compile(w) \/ Post(w) \/ Deliver(w)
           \/ Observe(w) \/ CommitObserved(w)

Next ==
    \/ \E power \in Powers : SetDesiredPowerState(power)
    \/ BlueprintChanges
    \/ \E w \in Workers : \/ Intent(w) \/ Sync(w) \/ FinishPost(w)
                          \/ AcceptInterrupted(w) \/ PostTimesOut(w) \/ SyncFails(w)
    \/ DeliverLate
    \/ Quarantine

Spec == Init /\ [][Next]_vars

\* The scheduler syncs every server of an online node again and again.
FairSpec == Spec /\ \A w \in Workers : WF_vars(Sync(w))

-----------------------------------------------------------------------------
(* Types; a session between two requests keeps its lease only, and one     *)
(* that has not posted has no answer; a generation the agent acknowledged  *)
(* is in its file.                                                         *)
TypeOK ==
    /\ db \in DbRows
    /\ db.gen # 0
    /\ blueprint \in Numbers
    /\ work \in [Workers -> Sessions]
    /\ late \subseteq Payloads
    /\ desired \in Payloads
    /\ runtime \in [quarantine: 0..MaxQuarantines, lastClear: Numbers]
    /\ intents \in Numbers
    /\ quarantines \in 0..MaxQuarantines
    /\ faults \in 0..MaxFaults
    /\ meant \in 0..MaxQuarantines
    /\ last \in Workers
    /\ raced \in BOOLEAN
    /\ \A w \in Workers :
           /\ work[w].at = "idle" => work[w] = Ended(w)
           /\ work[w].at \in {"loaded", "compiled", "posted"} => work[w].answer = "none"
           /\ work[w].answer \in {"updated", "unchanged"} => desired.gen >= work[w].payload.gen

(* The generation identifies the desired state: the agent never gets two   *)
(* different ones under the same number.  The comment at the retired clear *)
(* in guardian_sync_service.py: "Same generation + different hash is       *)
(* rejected by the Agent with HTTP 409 generation_conflict."  Sessions may *)
(* overlap in any way short of one writing from a copy that another one    *)
(* has outdated, what a version check of the row would refuse.             *)
NoGenerationConflict ==
    raced \/ \A w \in Workers : work[w].answer # "conflict"

(* The panel forgets a quarantine clear only when the quarantine it was    *)
(* asked for is over, also if the agent died while accepting it, and       *)
(* whatever other sessions do, short of that write from an outdated copy.  *)
ClearNotForgotten ==
    [][db.control # 0 /\ db'.control = 0 =>
           raced' \/ runtime.quarantine = 0 \/ runtime.quarantine # meant]_vars

(* Once nobody changes the intent any more, the agent gets what the row    *)
(* says and keeps it: posts lost, late or interrupted are made up for.     *)
DesiredReachesAgent == <>[](desired = Payload(db))

(* The same of sessions that overlap, short of a write from an outdated    *)
(* copy.                                                                   *)
DesiredReachesAgentUnlessRaced == <>[](raced \/ desired = Payload(db))
=============================================================================
