# A verification project for the Maunting Server Manager

TLA+ models of the parts of MSM that have to stay correct while processes
interleave, crash and lose messages, with TLC runs on small instances and TLAPS
proofs for every instance. Paths are relative to the repository.

## The system

MSM is a panel (Python, `backend/`) that manages game and web servers on nodes.
On every node runs an agent (`msm-agent/`), which owns the Docker containers.
The agent's Guardian keeps servers healthy without the panel; the panel keeps
the intent in its database and synchronises it with the agents. The web client
(TypeScript, `frontend/src/`) shows all of it, and has a life of its own where
it works offline (notes, calendar, messages) and where it places calls.

| Component | State | Operations | Hard part | Correct when | Here |
|---|---|---|---|---|---|
| Guardian engine, `msm-agent/services/guardian_service.py`, `guardian_action_registry.py`, `agent_operation_coordinator.py` | `desired-state.json`, `runtime-state.json`, one lock per server | accept a desired state, reconcile pass, recovery action, planned operation | passes, posts, planned operations, API calls, Docker, crashes and abandoned worker threads interleave | budget, cooldown, authorisation and quarantine hold; sick servers are treated | `GuardianEngine` |
| Incident queue and delivery, `guardian_incident_store.py`, `backend/services/guardian_incident_service.py` | incident files; tables `incidents`, `guardian_incident_deliveries` | upsert, list, ingest, commit, acknowledge, prune, resolve | at-least-once delivery over crashes on both sides | nothing lost, nothing counted twice | `GuardianDelivery`, `IncidentLog` |
| Desired-state intent and sync, `guardian_state_service.py`, `guardian_sync_service.py`, `guardian_reconciliation_service.py` | Guardian columns of `servers` | power, suspension, quarantine clear, edit, compile, post, observe | read-modify-write of the generation; lost, late and interrupted posts | a generation names one payload; the last intent arrives | `DesiredStateSync` |
| State store of the agent, `guardian_state_store.py` | JSON files, process lock | atomic write | crash between two files | a file is old or new | taken as a step per write |
| Server lifecycle, `server_lifecycle_service.py`, `server_action_service.py`, `auth_setup_service.py` | per server: slot, lock, epoch, status, login | start, stop, restart, kill, automatic restart, login and its cancellation | the kill runs beside the active worker, a login outlives its operation; the panel ends in the middle | one owner per slot and lock; a stop is not undone; tasks end | `ServerLifecycle`; its Guardian intents in `DesiredStateSync` |
| Operation tasks, `operation_task_service.py` | table of tasks | create, finish, recover | restart in the middle | each task ends | those of the lifecycle in `ServerLifecycle` |
| Scheduler, `scheduler_service.py` | timers | run jobs | overlap | a job does not overlap itself | automatic restart in `ServerLifecycle`, else an assumption |
| Offline queue and synchronisation, `frontend/src/lib/offlineSync.ts`, `offlineAblage.ts`, `services/nachrichtVersand.ts` | queue and cache in the storage all tabs share; a replay loop per tab | save, delete, send, discard, replay, load, stream event, re-decrypt, sign in and out | two tabs replay at once, answers are lost, pages reload, the account changes under a request | nothing enqueued is lost, doubled or reordered; a new entry stays visible | `OfflineSync`, `MutationQueue` |
| Direct calls, `frontend/src/stores/useCallStore.ts`, `backend/services/call_room_service.py`, `routers/social_calls.py` | call store of each client, invitation and registry at the panel, LiveKit room | dial, accept, decline, hang up, connect, time out, poll | everything may happen at every await of everything else | no line without a call, no ringing without a caller, nobody alone | `DirectCall` |
| Session state of the client, `stores/authStore.ts`, `api/client.ts` | signed-in account | sign in, sign out, expire | requests outlive their session | – | its effect on the storage in `OfflineSync` |
| Sync events, `sync_event_service.py` | streams | publish | a stream is down | – | events that arrive in order or are lost |
| Backup and restore, `backup_orchestrator.py`, `backup_restore_service.py` | archives, leases | back up, restore | restore against recovery | no recovery during a restore | lease and lock in `GuardianEngine`; archives are I/O |
| Install and update lock, `install_update_lock_service.py` | in-memory leases | acquire, release, force, expire | late release after a forced one | one job at a time | not modelled, listed as a hazard |
| Port allocation, provisioning, deletion, migration | ports, server rows, containers | create, delete, copy, compensate | one of several steps fails | nothing half-made remains | not modelled |
| AI runs, approvals, mail outbox | run, proposal and mail rows | start, approve, execute, send | retries after a crash | an approved action runs at most once | not modelled |
| Blueprint compiler and contract | Blueprints | compile, validate | – | one payload per input | abstracted to versions |
| Probes, Docker, files, enrolment, node client | – | network and disk I/O | failures, timeouts | – | nondeterministic outcomes |
| Vault synchronisation of the client, `desktop/vault/vaultStore.ts` | cache, queue of own changes, blob at the panel | save, delete, fetch, merge | two devices edit while offline | an edit of either survives | not modelled |
| Permissions, sessions, vault at the panel, mailboxes, groups, PostgreSQL studio, views of the frontend, desktop shells, sidecars, installers | own tables, views | request-local | – | – | not modelled |

The engine writes incidents into the queue (`upsert`); the panel's sync reads
and acknowledges them over HTTP. The panel posts desired states to the engine,
which answers `updated`, `unchanged` or a rejection. Lifecycle jobs, backups and
restores take a planned operation at the agent or a recovery suspension at the
panel, so that recovery keeps out of their way. The client's queue and its calls
reach the panel over HTTP and hear of others over one event stream per tab, which
may be down at any time. `PROJECT.json` lists every
component with its sources and every hazard with its line.

## The modules

### GuardianEngine

One server on one node. `desired` and `runtime` are the two files, `mem` is the
lock holder's copy of the runtime, `pc` the holder of the operation lock and its
next step, `stray` the worker threads that `asyncio.wait_for` gave up on, and
`acted` an observer: the ages of the recovery actions begun for the current
incident.

A timestamp in a file is its age in ticks, saturating where the code stops
telling ages apart; `Tick` ages all of them. The operators on a record are the
helpers of the source under similar names (`Transition`, `Settled` for
`_clear_and_resolve_incident`, `Quarantined`, `Recovery` for
`_attempt_recovery`). A pass that executes no recovery action has one durable
effect, its last `_save_runtime`, and is one step (`PassDisabled` …
`PassChecks`). A pass that does begin an action takes more: `charge` (the save
of the running attempt), `execute`, `save`. Accepting a desired state is two
steps, because it writes two files. A probe may give any verdict, logs any
failure class.

`Crash` ends the process at any step; the files stay. An orderly exit joins the
worker threads after the lock is free, so one waiting program may still run.

### IncidentLog and GuardianDelivery

The incidents of one server from the agent's files to the panel's rows. Every
`upsert` is a durable write of its own and the runtime file follows later
(`SaveRuntime`), so `AgentCrash` can fall between them. The sync is `List`,
`Ingest` (one incident after another, oldest first, on the transaction's own
copy of the tables), `Commit`, `Acknowledge`; `SyncFails`, `AgentCrash` and
`AcknowledgePartly` interrupt it. `committed` is an observer.

The agent's steps may come in any order the code allows between two passes. An
incident's row is found as in `ingest_incidents_and_ack`: by delivery, by uuid,
by an open row of the same fingerprint, else a new row. An acknowledged file may
be older or younger than what was read; the code does not compare. The panel's
sessions have autoflush off (`database.py`), so the query for an open row sees the
statuses of the last flush (`found`): a redelivered incident and a new row flush, a
grouped incident does not (`Flushed`).

`IncidentLog` is what the panel promises its reader: an incident is recorded once and
for good, after every earlier one, in an entry of its own or in that of an earlier
incident of its kind; an entry counts what was recorded in it and loses no attempt. It
knows no files, syncs or acknowledgements. The refinement takes `delivered` for the
entry of an incident, the `occurrences` of a row for its count and the attempts made
for its history; every transaction is one step of the log, everything else a stutter,
except that an incident happens when the agent first writes it.

### DesiredStateSync

The Guardian columns of one row, the panel sessions that change or send them,
and the agent's accept rules. `SetDesiredPowerState` is one UPDATE that counts
in the database; the other intents load the row, and commit one more than the
generation they loaded. `Compile` is `ensure_guardian_config_generation` with
its conditional UPDATE; `Observe` and `CommitObserved` are separate, because two
HTTP requests lie between the row that was loaded and the commit. A post that
times out may be delivered later (`DeliverLate`).

Any number of sessions overlap, as requests, lifecycle jobs and the scheduler do. The
observer `raced` is set when a session writes from a copy that another session has
outdated since (`Outdated`): the write a version check in the UPDATE would refuse. The
conditional UPDATE of `ensure_guardian_config_generation` is such a check, and a hash it
refuses counts as well, because the session goes on with its copy. `last`, the session that
was the last to read or write the row, is there to tell that.

### ServerLifecycle

One server at the panel. A step is what one thread does between two commits, two
calls of the node or two looks at memory the threads share; `job[j].at` is where
the thread of an operation stands. `Request` … `StartThread` are the HTTP request
(`request_lifecycle_operation`, `queue_lifecycle_operation`), `EnterLock` …
`_mark_job_done` the worker thread, `KillAdvance` … `KillFinish` the kill, which
runs in its request beside any worker. `AutoRestart` is the scheduler's job: it
takes the slot but no epoch and has no task. `PollRead` and `PollWrite` are a look
at the server's status, which reads the container and writes what it read.
`PanelRestarts` drops the memory, recovers the tasks and reconciles the status of
servers between two states; what was asked of the node may still be done.

A start that finds its container down because the game asks for a login succeeds and
leaves a thread behind (`_try_start_auth_setup_recovery`). `setup` is where that
thread stands: it moves the credentials away, boots the container, waits up to five
minutes for new ones, stops the container and queues a restart (`SetupMoves` …
`SetupStops`, `restart_callback`), all of it with neither slot nor lock nor epoch. `auth` is
the flag on the row and `CancelSetup` the request that clears it.

A step of the node fails, or is done without the panel hearing of it, at most
`MaxFaults` times. The wanted power state is left to `DesiredStateSync`. Ports,
backups and file updates only appear as an operation that fails; a server or
plugin that is missing is left out. The observer `last` is the operation that took
the epoch last; it is `NoJob` where the code claims nothing: beside an automatic
restart, where the node failed to take a superseded container down, and where it failed a
login that has or may have started its container.

### MutationQueue and OfflineSync

`MutationQueue` is what the offline queue promises: what was enqueued leaves in
its order, once it is settled, or taken back. `OfflineSync` is the client: the
storage (`owner`, `outbox`, `tries`, `cache`), which all tabs share, and per tab
the loop of `replayOutbox`, a load of the lists and the calls of `stelleZu`. A
step is what runs between two awaits of one tab. `Respond` is the end of a
request: carried out, carried out with its answer lost, not carried out, refused
for good (404, 400), refused for now (403, 409), or the end of the session.
`Continued` is the head of the loop, with its look at the account; `Kicked` is
`void replayOutbox()`. `Redecrypt` and `Redecrypted` are the two halves of
`redecryptPendingOfflineNotesAndCalendar`: the cache is read, and what was read is written
back after the decryptions it waits for. `Reload` drops what a tab holds and leaves those of its requests
that have a session `stray`. `Filtering` takes elements out of a queue by counting
places, because nothing can be proved of the recursion in `SelectSeq`. The refinement maps `outbox` to the queue of `MutationQueue`, and what the
server has processed or refused for good to `settled`.

An entry is in a cache or not: which of two contents wins, time stamps, and what
a server that renames an entry would change are left out (`create_note` keeps the
identifier it is sent). Which entries are ciphertext is left open: any may be whose
creation is not queued, since an entry saved here is cached in the clear. Left out are also
re-encryption jobs, which go through the queue like a change. Every envelope names its device. All tabs have one account; a refresh of
the session that ends under a later account is not modelled.

### DirectCall

Two people with one client each, the panel's invitation and registry, and the
LiveKit room. An async function that waits is a record in `frames`; the panel or
LiveKit serves it (`InviteServed`, `TokenServed`, `LineOpens`), and its going on is
a step of the client (`Dialled`, `TokenGranted`, `Connected`, `MediaReady`).
`lines` are the connections a client really has, `verbindung` the one its store
knows of. `generation` counts attempts in the code and is only compared for
equality, so the model takes a number that no frame, no line and no `verbindung` of that
client bears. Nothing keeps a person from dialling while an earlier call is still being
dialled, or from accepting again while an earlier attempt still connects. The observers
`displaced` and `untimed` say to whom that has happened: a call or connection was displaced
by another one of the same client, or the timer of a call was given up for who is heard on
an older connection. `cancel`, `reject` and
`leave` are requests nobody waits for and arrive in any order. Events arrive in
order or are lost; a poll is answered in one state and read in another.

The timers of 60 s fire at any time, except that the request for the invitation
itself takes less. Group calls, hand-over between devices, a page that is reloaded during
a call, room keys, media, and the heartbeats and expiry of registry entries are left out.

### Proofs and instances

`GuardianEngineProofs`, `GuardianDeliveryProofs`, `DesiredStateSyncProofs`,
`ServerLifecycleProofs`, `OfflineSyncProofs` and `DirectCallProofs` hold the theorems,
`FilteringProofs` lemmas about queues. The `MC…` modules give the sets TLC needs (`ServerLifecycle`
needs none); each run has a cfg of its own. Definitions that a comment calls a mutant are wrong on purpose:
each is the slip that one of the properties would catch.

## The runs

| Run | Shows | Result |
|---|---|---|
| `engine_safety` | types, `EveryActionOnRecord`, `BudgetRespected`, `LadderBelongsToIncident`, `CooldownRespected`, `RecoveryAuthorised`, `QuarantineNeedsClear` | holds |
| `engine_liveness` | `UnhealthyIsTreated` | holds |
| `engine_stop` | `DesiredStopConverges` | violated, finding 1 |
| `engine_attempt` | `AttemptConcludes` | violated, finding 2 |
| `delivery` | types, `CommittedBeforeAcknowledged`, `OccurrencesCountDeliveries`, `CommittedIsRecorded`, `HistoryOnlyGrows`, `EveryIncidentArrives`, `LogPromise` (implements `IncidentLog`) | holds |
| `delivery_acknowledge` | `AcknowledgedWasCommitted` | violated, finding 3 |
| `sync_single` | types, `NoGenerationConflict`, `ClearNotForgotten`, `DesiredReachesAgent` with one session at a time | holds |
| `sync_race` | `DesiredReachesAgent` with two sessions | violated, finding 4 |
| `offline_messages` | `QueuePromise` (implements `MutationQueue`), `MessageStoredOnce`, `SetupBeforeItsMessage`, `QueueDrains` | holds |
| `offline_entries` | types, `QueuedCreationStays`, `SentUnderItsAccount` | holds |
| `calls` | types, `EveryLineIsHeld`, `NoRingingForNobody`, `GoneMeansOver` | holds |
| `lifecycle` | types, `OwnersLive`, `DownMeansDown`, `TaskEnds`, `StatusSettles` | holds |

Some properties make an exception of a step that breaks what the code states elsewhere.
The statement without the exception is in the module, too, and a configuration shows how TLC
violates it; two more let panel sessions overlap:

| Configuration, module | Property | Result |
|---|---|---|
| `MCLifecycleKill.cfg`, `ServerLifecycle` | `KillIsFinal` | violated, 5 |
| `MCLifecycleCancel.cfg`, `ServerLifecycle` | `CancelEndsLogin` | violated, 6 |
| `MCOfflineRedecrypt.cfg`, `MCOfflineSync` | `QueuedCreationIsShown` | violated, 7 |
| `MCDirectCallLate.cfg`, `MCDirectCall` | `LateReturnsAreHarmless` | violated, 8 |
| `MCDirectCallUntimed.cfg`, `MCDirectCall` | `UnansweredCallsEnd` | violated, 9 |
| `MCDesiredStateOverlap.cfg`, `MCDesiredStateSync` | `NoGenerationConflict`, `ClearNotForgotten` | hold |
| `MCDesiredStateOverlapLiveness.cfg`, `MCDesiredStateSync` | `DesiredReachesAgentUnlessRaced` | holds |

Bounds, and why they are enough:

- Engine: a budget of two, a window of two ticks and a cooldown of one let
  attempts leave the window while others stay in it, and the budget be spent
  before, inside and after it. Two desired states cover a change of any field
  and a control that is sent twice. One ladder of two stages, one of one stage
  and failure classes without a ladder give escalation, exhaustion and
  replacement in the middle of a ladder. The liveness instance keeps every
  branch with a budget, a window and a generation of one. `MaxGeneration` is the
  only bound that the code does not have.
- Delivery: two incidents of two types are what grouping, replacement and
  retention need, one attempt tells a merged history from a replaced one (it leaves
  the window while another incident of the row comes in), and one fault may fall at
  every step. The safety properties are proved for every value of the bounds. `Retention` 1 is small so that files are
  dropped. Its bounds (`MaxIncidents`, `MaxAttempts`, `MaxFaults`) end every
  behaviour; a delivered queue with no incident left to open is a legitimate
  end, so these runs do not look for deadlock.
- Sync: three intents allow a clear, its retirement and a change that races
  either; two quarantines tell a clear of the first from one of the second; two
  faults allow a lost post after an interrupted accept. `sync_single` has one
  session, so that faults fit, and asks more: nothing is excused where nobody can outdate a
  copy. Power changes and Blueprint changes still fall between any two of its steps. Two
  sessions are in `sync_race` and in the two configurations above; the theorems are about any
  number of sessions, with faults.
- Offline messages: a set-up and its message are the smallest call the pairing rule
  is about; the second tab replays while the first sends or replays; two faults
  allow a lost answer and a reload, two switches a session that ends and an account
  that changes. A mutation is given up after one counted try instead of five, which
  shortens the way there and skips no branch. The safety properties of both instances and
  the refinement are proved for every value of the bounds.
- Offline entries: one note with its creation, change and deletion, and one event of
  another device, so that both merges meet pending and foreign entries, and re-decryptions
  of both lists. One fault lets the other device, a lost answer or a reload come in between.
  The accounts are symmetric. That a re-decryption overwrites a creation takes a second note,
  which was there before; `MCOfflineRedecrypt.cfg` has one, and the theorem covers any number.
- Calls: one invitation, and one lost request, answer, event or line at any place, or a
  second attempt to connect of a client that still connects. Both people may act at every
  await. To stay small, from a second attempt on nothing is lost and little is under way
  (`Bounded`); a connection that merely comes late and one that displaces another are both
  reached. Taking the call before for ended (`Superseded`) needs a second invitation;
  instances with two are too large to be searched through, and only `MCDirectCallUntimed.cfg`
  has them. The theorems cover any number of invitations, attempts and faults and both
  people calling each other.
- Lifecycle: two operations are a worker with the kill beside it, or one operation
  that comes after another; two failures may fall on any call of the node, on the
  start of the thread, on the lease, on a call of the login, or be the end of the panel. A login
  needs no operation of its own, so it falls beside and after the second one. The safety
  properties are proved for every number of operations and failures.
- The instances of the client and of the lifecycle end when everything was done and
  settled, so they do not look for deadlock.

Fairness:

- Engine: the loop in `start_guardian_loop` visits every server every few
  seconds and the lock is free between two holders, so a pass that can inspect
  the container happens again and again (strong fairness: other holders come in
  between); so does a waiting thread's turn, and time passes. A holder finishes
  what it began. Nothing is assumed of Docker, the probes or the panel, and the
  properties only ask for finitely many crashes.
- Delivery and sync: the scheduler syncs every server of an online node again
  and again, and a sync takes its next step (weak fairness of the sync's steps).
  Faults are bounded; nothing is assumed of users or of the agent's passes.
- Offline messages: a chat is open in some tab, whose interval of 5 s replays the
  queue (`Messenger.tsx`), and every request of the loop ends, with an answer or an
  error. Nothing is assumed of the person, of loads, of streams or of direct sending.
- Lifecycle: some thread that can go on does (weak fairness of all of them together,
  which is less than of each), calls of the node end, and somebody looks at the
  server, as every open page does. Calls have no liveness property: a call may last.

## The findings

1. **A pass that has to stop a container waits for itself.** It holds the
   operation lock as a task; the worker thread that calls `stop_container` is
   another owner, waits for the same lock, and the pass waits for the thread
   without a timeout (`guardian_service.py:893`). The branch that reports
   `desired_stop_failed` is never reached, and the loop over all servers stands
   still. The recovery actions `restart` and `graceful_restart` wait in the same
   way and end in their timeout; their threads mutate the container later.
2. **An attempt the agent died in never ends.** The state `recovering` is saved
   before the action runs, and no branch of a later pass handles it.
3. **An acknowledgement may cover what was not read.** An incident updated
   between the panel's read and its acknowledgement is marked as delivered.
4. **Two sessions can give one generation to two intents.** A session that
   loaded the row before a power change writes the generation the power change
   just used; the agent answers 409 to every later sync.

Shown by the further configurations:

5. **A kill that succeeded is undone by a login.** The thread a start leaves behind when
   the game asks for a login (`server_lifecycle_service.py:967`) boots the container
   (`auth_setup_service.py:205`) with neither slot nor lock nor epoch, also after a kill whose
   line to the console (`server_lifecycle_service.py:482`) says 'hart via Kill beendet (auch
   aus Queue/Start heraus …)'. `DownMeansDown` excuses it while the login lasts.
6. **A cancelled login goes on.** `cancel_auth_setup` says that the thread checks
   `auth_required` and ends by itself (`routers/servers.py:727`); the thread only ever writes
   the flag. Credentials that turn up make it restart the server.
7. **A re-decryption overwrites what was saved meanwhile.**
   `redecryptPendingOfflineNotesAndCalendar` writes the list it read before its awaits
   (`offlineSync.ts:528`, 560; 567, 610). A new note is gone from the device while its creation
   is in the queue, which `saveNoteOffline` takes care to rule out (1070). `QueuedCreationStays`
   excuses this step and no other.
8. **A late connection displaces the current one.** `verbinde`'s result is assigned before
   the generation is looked at (`useCallStore.ts:613`, 618). The callee accepts, hangs up and
   accepts the call that still rings; the first attempt's connection arrives last, is left, and
   the store no longer knows the second: hanging up does not close it. Line 204 says
   that late returns fizzle out. The call properties leave out who is `displaced`.
9. **The end of one call takes the timer of another.** There is one timer for outgoing
   calls (`useCallStore.ts:722`), and `raeumeAuf` clears it (670). Who dials twice before the
   first invitation has returned, and ends the first call, waits alone in the second without the
   minute that line 233 promises.

Also met while modelling, and not turned into a run:

- A crash between the two files of an accepted quarantine clear loses its effect on
  the runtime, because the repeated post is answered `unchanged`.
- `docs/blueprints.md` lets Guardian restart a server that misses its start-up
  timeout, while the contract accepts no policy for `startup_timeout`.
- The docstring of `queue_lifecycle_operation` says that a kill takes the per-server
  lock; its path does not. `DownMeansDown` shows what the epoch makes up for.
- Not made up for: the automatic restart takes no epoch, so a kill beside it does not
  keep it from booting; a start writes its intent before it takes its epoch, so that a
  kill in between leaves a running server that is wanted stopped; the removal of a
  container the kill asked for late may hit a start queued after it.
- A release of the install lock frees whatever its server holds by then
  (`install_update_lock_service.py:98`), although its docstring says that a late
  cleanup cannot clear a newer job.
- The offline queue promises an order only within one call: a set-up queued from an
  earlier message is overtaken by a later one that is sent directly. A deletion that
  finds its creation queued, but already on its way, leaves the entry on the server.
  What is enqueued after the session ended is dropped in silence. A toggle sent again
  after a lost answer undoes itself.
- `connectStream` resets `isLiveConnected` and the stream id when it ends, also when a
  successor runs (`offlineSync.ts:1833`), although `offlineSync.ts:1701` says that a
  superseded run never clears its successor.
- An invitation that comes in while an own call is being dialled (`useCallStore.ts:732`
  awaits, and the store still says `idle`) clears the timer of that call, too. A call
  dialled over one that is being connected leaves the first ringing until it expires.
  `set({ state: 'active' })` after the microphone (line 636) does not look at the generation,
  so that a call hung up meanwhile shows as active.
- A callee whose token was served before the caller hung up enters an empty room and
  stays there; an invitation whose answer was lost rings until it expires; the
  heartbeat looks for `room_token`, which an entry of the registry does not have
  (`social_calls.py:455`).

## The proofs

TLAPS checks every theorem to its last step, for all values of the constants that
the assumptions allow.

On `GuardianEngine`, for every failure class set, ladder, budget, window,
cooldown and bound allowed by `EngineAssumption` (the ranges
`guardian_contract.py` validates): `TypeCorrect`, `AttemptsDurable`,
`BudgetHolds`, `LadderHolds`, `CooldownHolds`, `AuthorisationHolds`,
`QuarantineHolds`. All follow from `Invariance`, `Spec => []IInv`.

The properties are not inductive. `IInv` adds to the types:

- `Sound` of the runtime file: without an incident there are no attempts and no
  stage; a recovery state has an incident, a quarantined state has the flag; the
  attempts inside the window are within the budget and none is younger than the
  cooldown's clock says. The budget and the cooldown are properties of the
  *record*, so they need this.
- `EveryActionOnRecord`, which carries them over to the actions really begun.
- `InFlight`: what the holder of the lock will write next is as sound as what is
  on disk, has every action begun on record, and ends a quarantine only with a
  fresh clear; before the save of a running attempt (`charge`) it holds that
  attempt, every action begun is older than the cooldown, and the authorisation
  read at the beginning of the pass still stands.

The operators of a pass are proved to turn a sound record into a sound one that
`Follows` it: nothing of the incident was dropped, or the incident went too.
Time passes for files, copy and observer alike, so `Tick` preserves the relations
between them; a crash drops the copy and keeps the file, which is why the
relations are stated on the file wherever the observer looks.

On `GuardianDelivery`, for every number of incidents, attempts, retained files
and faults (`DeliveryAssumption`): `TypeCorrect`, `NothingIsLost`,
`NothingIsCountedTwice`, `AttemptsAreRecorded` and `HistoriesGrow`, all from
`DInv`, and `Implements`, which is `Spec => LogPromise`. A sync works on its own copy of the tables, so `DInv` says of the copy
what it says of the tables (`Accounted`: an occurrence per delivery, a row's
creator was delivered, a delivery points to a row) and relates the two
(`InTransaction`: what was ingested is in the copy, committing takes nothing
away). That acknowledging and pruning lose nothing follows from one clause of the
type invariant: a committed batch was delivered to its last incident.

The refinement needs more than `DInv`, because the order in which incidents are recorded
rests on what a sync read long before it commits. `LogInv` adds `Filed`, of the tables and
of the copy (an incident was delivered after all before it, to a row that an earlier or the
same incident of its kind created), `Numbered` (files and batch are of incidents the agent
opened) and `BatchComplete` (a sync reads everything that was not delivered before, so
nothing it ingests overtakes an earlier incident). Every action is then a step of the log.

On `ServerLifecycle`, for every number of operations and faults
(`LifecycleAssumption`): `TypeCorrect`, `OwnersHold` and `DownHolds`, from
`Invariance`. That a stop is not undone is not inductive, because what undoes it is
a worker that took its epoch long before. `IInv` adds:

- `PlacesFit`: which places an operation of a kind can be in, that epochs are not
  ahead of the counter, and that a task that succeeded belongs to an operation that
  has left its critical section.
- `LastTookIt`: the operation that took the epoch last is the only worker whose
  epoch is the current one, so every other worker that boots a container finds
  itself superseded when it verifies; unless it is a kill, it is the only worker at
  all, since a claim is refused while the slot is taken (`OwnersLive`).
- `Down`: from the moment the container was taken down, not only from the success of
  the task, it stays down, a superseded worker is about to take it down, or the login of an earlier
  start holds it up (`LoginIsUp`).

On `DesiredStateSync`, for every number of overlapping sessions, intents, quarantines and
faults (`SyncAssumption`): `TypeCorrect`, `GenerationsHold` and `ClearsHold`. Nothing is
assumed of how sessions overlap. The two properties end where a session writes from a copy
that another one has outdated (`raced`), which finding 4 shows to be where they are lost; so
what is proved is that a version check on the writes is all that is missing. That a
generation names one payload is not inductive: `IInv` adds

- `Coherent`: payloads and copies of one generation say the same, down to the hash, so that
  an edit, which empties the hash, counts; and none is ahead of the row.
- `Latest`: the copy of the session that was the last to read or write the row is not
  behind any other copy or payload. A session that writes is that one, or its copy is still
  the row; either way it counts to a generation nobody knows. It may take the database back
  behind a power change, but never to a generation a payload has.
- `ClearInv`: a clean report, on which its session may still write, speaks of the quarantine
  the clear was asked for, or a later quarantine has begun since.

On `OfflineSync`, for every number of tabs, accounts, entries, messages, calls, tries,
faults and switches (`OfflineAssumption`): `TypeCorrect`, `SentHolds`, `Stored`,
`SetupFirst`, `CreationShown`, and `Implements`, which is `Spec => QueuePromise`.
`IdentifiersAssumption` says what the code's identifiers guarantee: two creations are of
two entries, since each gets a `crypto.randomUUID()`; an envelope occurs once in all calls,
since its `client_uuid` is made the same way; and a call lists the envelopes of a device
one after another, as `baueVersand` does. `Messenger.tsx` sends no empty call.

- `QueueInv` is the invariant of the queue. The properties are not inductive, because two
  tabs hold a mutation each while a third party changes the queue: it adds that what a
  loop has sent, if it still is in the queue, is its head (`HeadsSent`: nothing passes the
  head, and a second tab that removed it took it out of the queue for both), that the queue
  holds what its owner queued, once each, and nothing a call has yet to send (`Owned`), and
  how far a call has come (`WorkFits`).
- Every step is first shown to have one of few effects on the queue (`Effect`: it stays,
  new work arrives at its end, its settled head leaves, something is taken back), and every
  effect to preserve `QueueInv`. The refinement needs no case for an action any more: each
  effect is a step of `MutationQueue` or a stutter.
- For a set-up and its message, `PairsInv` follows the pair through the call, the queue, the
  requests under way and those a reload left behind: wherever the message is, the set-up is
  ahead of it, or `Clear` (stored, refused for good, or taken back).
- For a creation, `CreationsInv` says that nobody has heard of an entry whose creation
  was not queued yet (no list, no event, no deletion, no re-decryption), and that a creation
  and a deletion of one entry are never queued together; so no merge can find a reason to
  drop the entry, and only a list that was read before it was there can overwrite it.

On `DirectCall` (`CallAssumption`), for any number of invitations, attempts to connect and
faults and both people calling: `TypeCorrect`, `LinesHeld`, `NoRinging` and `GoneIsOver`.
Findings 8 and 9 and a call dialled over another one are what the properties leave out, by
the observers `displaced` and `untimed`, so each holds up to the step in which two calls
of one person get in each other's way. `NoRinging` assumes at most one fault, because cancel
and leave are the two requests that end an invitation, and both may be lost.

- `Sound` relates a client's phase, generation, connection, frames and lines: an attempt
  that still opens has no line, the one that leaves is not the current one, the connection
  the store knows of is the current one or has a frame that will leave it; and, but for the
  displaced, every line is held.
- `AttemptStands`: the current attempt has a frame or is the connection, and is in the room
  of the store; without one nobody is known to have accepted.
- `EnteredIsAnswered`: who was invited gets a token only by answering, so whoever meets the
  other in the room of an invitation finds it answered. With `OwnCall`, a caller whose
  invitation rings does not take it for accepted, and hanging up sends cancel and leave.
- `RingingHasCaller` is then inductive: the caller is in the room, has not entered it yet,
  or both requests are under way, or one after a fault.
- `Heeded` carries the half of `GoneMeansOver` that is about having met: a line on which
  somebody was met has its handlers, so has that of the current call, and on that one the
  other is gone only until the handler ends the call. With `Sound`, which leaves a client
  at rest no other line, whoever met the other in a room is not left there.
- `CallerWaits` carries the other half, the caller whom nobody answered: whose call has an
  attempt has the timer of 60 s (`Patient`), or a line of that attempt with handlers on which it
  sees the other (`Heard`). Whoever lost its timer to another call is `untimed` and left out.

Only model-checked: liveness, which is outside TLAPS here (`UnhealthyIsTreated`,
`EveryIncidentArrives`, `DesiredReachesAgent`, `TaskEnds`, `StatusSettles`, `QueueDrains`),
and the violations. Every type invariant, safety invariant, action property and refinement
that a run checks has a theorem.

## What the models leave out

Data no property distinguishes: log text and redaction, probe addresses, titles,
notification texts, observed columns that are only displayed. Corrupt files,
which the code reports and skips. Notifications after a commit, which are best
effort. In the lifecycle, a write of the task that fails at the end of an operation, which the
code logs and passes over (`server_lifecycle_service.py:636`): such a task stays running until the
panel restarts. In calls, a page that is reloaded or closed during one. The inner workings of Docker; a mutation takes effect or fails.
Several servers: nothing of one server's records is shared with another's, except
that the loop of finding 1 stops for all of them.

## Not modelled

Provisioning, deletion and migration are long sequences of I/O in which the data
decides what a failure leaves. Port allocation relies on the isolation of the
database and a unique index. Permissions, sessions, the panel's side of the vault,
mailboxes and the PostgreSQL studio are local to a request. The views of the
frontend, the desktop shells, sidecars and installers keep no state of their own
that two actors share. AI runs and their approvals, the mail outbox, the client's
synchronisation of the vault, group calls and the hand-over of a call were not
reached. The install lock is a dictionary under one mutex whose one hazard needs a
forced release.

## Plan

What is left, in the order of what it would add:

1. `ServerLifecycle` composed with the intents of `DesiredStateSync`, for the order of
   wanted state and epoch.
2. In `DirectCall`, a page that is reloaded during a call, the hand-over to another device and
   the registry's expiry.
3. The synchronisation of the vault (`vaultStore.ts`), whose cache, queue and merge of two
   devices resemble `OfflineSync`.
4. AI runs and approvals, the mail outbox.
