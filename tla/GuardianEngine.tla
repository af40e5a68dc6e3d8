--------------------------- MODULE GuardianEngine ---------------------------
(***************************************************************************)
(* The Guardian of one managed server, as the node agent runs it           *)
(* (msm-agent/services/guardian_service.py with the operation coordinator, *)
(* the action registry and the container mutations it calls).              *)
(*                                                                         *)
(* Two files survive the agent process: desired-state.json and             *)
(* runtime-state.json.  Everything else - the copy of the runtime a pass   *)
(* works on, the lock, the worker threads - is lost in a crash.  A pass of *)
(* the reconcile loop, the acceptance of a desired state and a planned     *)
(* operation exclude each other through the per-server operation lock; pc  *)
(* names the holder and how far it got.                                    *)
(*                                                                         *)
(* Timestamps in the files are modelled by their ages in ticks, saturating *)
(* where the code stops telling them apart; Tick ages all of them.         *)
(***************************************************************************)
EXTENDS Naturals, FiniteSets, Sequences

CONSTANTS
    Failures,       \* failure classes a diagnosis can return
    ProbeFailures,  \* the ones a failed health check reports
    LogFailures,    \* the ones a log parser reports
    Policy,         \* [Failures -> Seq(RecoveryActions)], the escalation ladders
    MaxAttempts,    \* recovery.max_attempts
    Window,         \* recovery.attempt_window_seconds, in ticks
    Cooldown,       \* recovery.cooldown_seconds, in ticks
    Grace,          \* startup.grace_period_seconds, in ticks
    StartTimeout,   \* startup.timeout_seconds, in ticks
    Successes,      \* verification.required_consecutive_successes
    MinHealthy,     \* verification.minimum_healthy_duration_seconds, in ticks
    VerifyTimeout,  \* verification.verification_timeout_seconds, in ticks
    PanelLease,     \* length of a recovery suspension the panel sends, in ticks
    LocalLease,     \* lease_seconds of a planned operation, in ticks
    MaxGeneration,  \* bound: desired states the panel sends
    None            \* no incident, no log finding, no timestamp

RecoveryActions == {"restart", "graceful_restart", "clear_declared_lock_files", "quarantine"}

ASSUME EngineAssumption ==
    /\ ProbeFailures \subseteq Failures /\ ProbeFailures # {}
    /\ LogFailures \subseteq Failures
    /\ {"process_not_running", "probe_failed", "startup_timeout", "startup-pattern",
        "verification_failed"} \subseteq Failures
    /\ None \notin Failures \cup Nat
    /\ Policy \in [Failures -> Seq(RecoveryActions)]
    /\ MaxAttempts \in Nat \ {0}
    /\ Cooldown \in Nat \ {0}
    /\ StartTimeout \in Nat \ {0}
    /\ \A n \in {Window, Grace, Successes, MinHealthy, VerifyTimeout, PanelLease,
                 LocalLease, MaxGeneration} : n \in Nat

VARIABLES
    desired,    \* desired-state.json
    runtime,    \* runtime-state.json
    container,  \* Docker's state of the server's container
    pc,         \* holder of the operation lock and its next step
    mem,        \* the holder's copy of the runtime state
    stray,      \* worker threads the loop gave up on: what each still has to do to the container
    acted       \* observer: ages of the recovery actions begun for the current incident

vars == <<desired, runtime, container, pc, mem, stray, acted>>

States == {"absent", "disabled", "stopped", "starting", "healthy", "degraded",
           "unhealthy", "recovering", "verifying", "quarantined"}
Containers == {"missing", "exited", "running", "restarting"}
PhaseCap == IF StartTimeout > VerifyTimeout THEN StartTimeout ELSE VerifyTimeout

\* generation 0 means that no desired state was ever accepted.
Desired == [generation: 0..MaxGeneration, power: {"running", "stopped"}, enabled: BOOLEAN,
            clearOp: 0..MaxGeneration,  \* quarantine_control.operation_id, 0 for none
            lease: 0..PanelLease]       \* what is left of recovery_suspension
NoDesired == [generation |-> 0, power |-> "stopped", enabled |-> TRUE, clearOp |-> 0, lease |-> 0]

Runtime ==
    [state: States,
     phaseAge: 0..PhaseCap,       \* of startup_started_at while starting, of
                                  \* verification_started_at while verifying
     restarting: {None} \cup 0..StartTimeout,   \* age of docker_restarting_since
     boot: {"unknown", "current", "outdated"},  \* container_started_at against Docker's
     incident: Failures \cup {None},            \* active_incident_type
     stage: Nat,                  \* recovery_stage
     attempts: SUBSET (0..Window),\* ages of the attempts inside the window
     lastRecovery: 0..Cooldown,   \* age of last_recovery_at; Cooldown when over or never
     successes: 0..Successes,     \* verification_successes
     healthyFor: 0..MinHealthy,   \* age of verification_healthy_since
     quarantine: BOOLEAN,
     cleared: 0..MaxGeneration,   \* last_quarantine_clear_operation_id
     lease: 0..LocalLease]        \* what is left of local_recovery_suspension

Blank == [state |-> "absent", phaseAge |-> 0, restarting |-> None, boot |-> "unknown",
          incident |-> None, stage |-> 0, attempts |-> {}, lastRecovery |-> Cooldown,
          successes |-> 0, healthyFor |-> 0, quarantine |-> FALSE, cleared |-> 0, lease |-> 0]

Programs == {<<"restart">>, <<"stop", "start">>, <<"start">>}

TypeOK ==
    /\ desired \in Desired
    /\ runtime \in Runtime
    /\ container \in Containers
    /\ pc \in {"idle", "save", "charge", "execute", "stop", "planned"}
    /\ mem \in Runtime
    /\ stray \subseteq Programs
    /\ acted \subseteq 0..Window

Init ==
    /\ desired = NoDesired
    /\ runtime = Blank
    /\ container = "missing"
    /\ pc = "idle"
    /\ mem = Blank
    /\ stray = {}
    /\ acted = {}

-----------------------------------------------------------------------------
(* Operators on a runtime record: the helpers of guardian_service.py.      *)

Running(c) == c \in {"running", "restarting"}   \* Docker's State.Running

PhaseIsPower(power) == power   \* mutant: the power state taken for an observed state
Phase(power) == IF power = "running" THEN "starting" ELSE "stopped"

\* The clock and the counters of a phase are read only inside the phase, so a change of
\* state may clear them.
Entering(r, s) == [r EXCEPT !.state = s, !.phaseAge = 0, !.successes = 0, !.healthyFor = 0]

Transition(r, s) == IF r.state = s THEN r ELSE Entering(r, s)

Loaded(r, d) == IF r.state = "absent" THEN Entering(r, Phase(d.power)) ELSE r

Opened(r, type) == [r EXCEPT !.incident = IF @ = None THEN type ELSE @]

ReleasedOnStage(r) == [r EXCEPT !.incident = None, !.attempts = {}]   \* mutant
Released(r) == [r EXCEPT !.incident = None, !.attempts = {}, !.stage = 0]

Settled(r) == [Released(r) EXCEPT !.lastRecovery = Cooldown]

Diagnose(logs, fallback) == IF logs = None THEN fallback ELSE logs

PanelSuspensionActive(r, d) == d.lease > 0   \* mutant: the local lease is forgotten
SuspensionActive(r, d) == d.lease > 0 \/ r.lease > 0

Quarantined(r, type) ==
    Opened([Transition(r, "quarantined") EXCEPT !.quarantine = TRUE], type)

Failed(r) == [Transition(r, "unhealthy") EXCEPT !.stage = @ + 1]

StopResolves == {"process_not_running", "container_missing", "CrashLoop", "probe_failed",
                 "startup_timeout"}

StoppedByDesire(r) ==
    Transition(IF r.incident \in StopResolves THEN Settled(r) ELSE r, "stopped")

\* The observer forgets an incident's actions when the incident is resolved or replaced.
Observed(old, new) == IF old.incident # None /\ new.incident # old.incident THEN {} ELSE acted

-----------------------------------------------------------------------------
(* Accepting a desired state: accept_desired_state writes desired-state.json *)
(* first and runtime-state.json in a step of its own, SaveRuntime.           *)

QuarantineCleared(r, d) ==
    Entering([Released(r) EXCEPT !.quarantine = FALSE, !.cleared = d.clearOp], Phase(d.power))

\* mutant: a control that was applied before is applied again
AnyQuarantineControl(r, d) == IF d.clearOp = 0 THEN r ELSE QuarantineCleared(r, d)

WithQuarantineControl(r, d) ==
    IF d.clearOp \in {0, r.cleared} THEN r ELSE QuarantineCleared(r, d)

WithDesire(r, d) ==
    CASE ~d.enabled -> Transition(Settled(r), "disabled")
      [] d.enabled /\ ~desired.enabled ->
             IF r.quarantine THEN Transition(r, "quarantined")
                             ELSE Entering(r, Phase(d.power))
      [] d.enabled /\ desired.enabled ->
             IF r.quarantine \/ (desired.generation > 0 /\ desired.power = d.power) THEN r
             ELSE IF d.power = "running" THEN Entering(r, "starting")
             ELSE StoppedByDesire(r)

AcceptDesiredState(d) ==
    /\ pc = "idle"
    /\ d.generation > desired.generation
    /\ LET old == Loaded(runtime, d)
           new == WithDesire(WithQuarantineControl(old, d), d)
       IN  /\ mem' = new
           /\ acted' = Observed(old, new)
    /\ desired' = d
    /\ pc' = "save"
    /\ UNCHANGED <<runtime, container, stray>>

SaveRuntime ==
    /\ pc = "save"
    /\ runtime' = mem
    /\ mem' = Blank
    /\ pc' = "idle"
    /\ UNCHANGED <<desired, container, stray, acted>>

\* What the panel may send next.  A quarantine control stays in the payload until the
\* panel retires it, and a lease until it expires or is cleared.
NextDesired ==
    [generation: {desired.generation + 1} \cap (0..MaxGeneration),
     power: {"running", "stopped"}, enabled: BOOLEAN,
     clearOp: {0, desired.clearOp, desired.generation + 1},
     lease: {0, desired.lease, PanelLease}]

Accept == \E d \in NextDesired : AcceptDesiredState(d)

-----------------------------------------------------------------------------
(* One pass of reconcile_server.  Unless it executes a recovery action, its *)
(* one effect here is the _save_runtime that ends it, so it is one step.   *)

Finish(new) ==
    /\ runtime' = new
    /\ acted' = Observed(Loaded(runtime, desired), new)
    /\ UNCHANGED <<desired, container, pc, mem, stray>>

PassBegins == pc = "idle" /\ desired.generation > 0

PassDisabled ==
    /\ PassBegins
    /\ ~desired.enabled
    /\ Finish(Transition(Loaded(runtime, desired), "disabled"))

\* Docker cannot be inspected: keep the last confirmed state, touch nothing.
PassInspectionFails ==
    /\ PassBegins
    /\ desired.enabled
    /\ Finish(Loaded(runtime, desired))

\* stop_container runs in a worker thread that asks for the lock this pass holds; the
\* thread is not the owner the lock remembers, and the pass waits for it without a timeout.
PassStopsContainer ==
    /\ PassBegins
    /\ desired.enabled /\ desired.power = "stopped"
    /\ Running(container)
    /\ mem' = Loaded(runtime, desired)
    /\ pc' = "stop"
    /\ UNCHANGED <<desired, runtime, container, stray, acted>>

PassStopped ==
    /\ PassBegins
    /\ desired.enabled /\ desired.power = "stopped"
    /\ ~Running(container)
    /\ Finish(StoppedByDesire(Loaded(runtime, desired)))

Supervised == PassBegins /\ desired.enabled /\ desired.power = "running"

PassQuarantined ==
    /\ Supervised
    /\ Loaded(runtime, desired).quarantine
    /\ Finish(Transition(Loaded(runtime, desired), "quarantined"))

\* Docker owns this restart: a fresh start-up phase, an incident when it takes too long.
PassDockerRestarting ==
    /\ Supervised
    /\ container = "restarting"
    /\ LET r == Loaded(runtime, desired)
           s == IF r.restarting = None
                THEN [Entering(r, "starting") EXCEPT !.restarting = 0] ELSE r
       IN  /\ ~r.quarantine
           /\ Finish(IF s.restarting >= StartTimeout
                     THEN Opened(Transition(s, "unhealthy"), "process_not_running")
                     ELSE s)

\* A start of the container that this runtime has not seen begins a fresh grace period,
\* and so does a server found stopped that should run.
Noticed(r) ==
    LET restarted == /\ container = "running" /\ r.boot = "outdated"
                     /\ r.state \notin {"starting", "recovering", "verifying"}
        s == [(IF restarted THEN Entering(r, "starting") ELSE r)
              EXCEPT !.restarting = None,
                     !.boot = IF container = "running" THEN "current" ELSE @]
    IN  IF s.state = "stopped" THEN Entering(s, "starting") ELSE s

PassContainerMissing ==
    /\ Supervised
    /\ container = "missing"
    /\ LET r == Loaded(runtime, desired)
       IN  /\ ~r.quarantine /\ r.state # "starting"
           /\ Finish([Transition(r, "stopped") EXCEPT !.restarting = None])

Verdicts == {"healthy", "degraded", "failed"}   \* _required_check_status

StartupChecked(r, verdict, ready, bad, logs) ==
    CASE r.phaseAge < Grace -> r
      [] r.phaseAge >= Grace /\ container = "running" /\ verdict = "healthy" /\ ready ->
             Transition(r, "healthy")
      [] OTHER ->
             IF bad /\ (container # "running" \/ verdict # "healthy")
             THEN Opened(Transition(r, "unhealthy"), "startup-pattern")
             ELSE IF r.phaseAge >= StartTimeout
             THEN Opened(Transition(r, "unhealthy"), Diagnose(logs, "startup_timeout"))
             ELSE r

Counted(r, verdict) ==
    IF verdict # "healthy" THEN [r EXCEPT !.successes = 0, !.healthyFor = 0]
    ELSE [r EXCEPT !.successes = IF @ < Successes THEN @ + 1 ELSE @]

VerificationChecked(r, verdict) ==
    LET s == Counted(r, verdict)
    IN  IF /\ verdict = "healthy"
           /\ s.successes >= Successes /\ s.healthyFor >= MinHealthy
        THEN Transition(Released(s), "healthy")
        ELSE IF s.phaseAge >= VerifyTimeout
        THEN Opened(Failed(s), "verification_failed")
        ELSE s

HealthChecked(r, verdict, failure, logs) ==
    IF container # "running"
    THEN Opened(Transition(r, "unhealthy"), Diagnose(logs, "process_not_running"))
    ELSE CASE verdict = "healthy" ->
                  Transition(IF r.incident # None THEN Settled(r) ELSE r, "healthy")
           [] verdict = "degraded" -> Transition(r, "degraded")
           [] verdict = "failed" ->
                  Opened(Transition(r, "unhealthy"), Diagnose(logs, failure))

BudgetOverrun(r) == Cardinality(r.attempts) > MaxAttempts   \* mutant: off by one
BudgetSpent(r) == Cardinality(r.attempts) >= MaxAttempts

NeverCoolingDown(r) == FALSE   \* mutant: the cooldown is not looked at
CoolingDown(r) == r.lastRecovery < Cooldown

\* _attempt_recovery up to its _save_runtime.
Recovery(r, logs) ==
    LET type == Diagnose(logs, IF r.incident = None THEN "probe_failed" ELSE r.incident)
        s == IF r.incident \notin {None, type} THEN Settled(r) ELSE r
    IN  IF BudgetSpent(s) THEN Quarantined(s, type)
        ELSE IF CoolingDown(s) THEN s
        ELSE IF Policy[type] = << >> THEN Opened(s, type)
        ELSE IF s.stage >= Len(Policy[type]) THEN Quarantined(s, type)
        ELSE Opened([Transition(s, "recovering") EXCEPT
                         !.attempts = @ \cup {0}, !.lastRecovery = 0], type)

\* The records the checks of a pass may leave, by the phase the server is in.
Checked(r, verdict, logs) ==
    CASE r.state = "starting" ->
             {StartupChecked(r, verdict, ready, bad, logs) : ready, bad \in BOOLEAN}
      [] r.state = "verifying" -> {VerificationChecked(r, verdict)}
      [] r.state \in {"healthy", "degraded", "unhealthy"} ->
             {HealthChecked(r, verdict, failure, logs) : failure \in ProbeFailures}
      [] OTHER -> {r}

\* What a pass does with that record: begin a recovery action, or save it and end.
Decide(old, checked, logs) ==
    LET new == IF checked.state = "unhealthy" /\ ~SuspensionActive(checked, desired)
               THEN Recovery(checked, logs) ELSE checked
    IN  /\ acted' = IF Observed(old, checked) = {} THEN {} ELSE Observed(checked, new)
        /\ IF new.state = "recovering" /\ checked.state = "unhealthy"
           THEN mem' = new /\ pc' = "charge" /\ UNCHANGED runtime
           ELSE runtime' = new /\ UNCHANGED <<mem, pc>>

PassChecks ==
    /\ Supervised
    /\ container # "restarting"
    /\ LET old == Loaded(runtime, desired)
       IN  /\ ~old.quarantine
           /\ container = "missing" => old.state = "starting"
           /\ \E logs \in LogFailures \cup {None}, verdict \in Verdicts :
                  \E checked \in Checked(Noticed(old), verdict, logs) : Decide(old, checked, logs)
    /\ UNCHANGED <<desired, container, stray>>

-----------------------------------------------------------------------------
(* The recovery action: execute_action under its timeout.                  *)

Action == Policy[mem.incident][mem.stage + 1]

\* Every container mutation asks for the operation lock from its worker thread, and the
\* pass that waits for the thread holds it: such an action can only time out.
NeedsContainerMutation ==
    \/ Action \in {"restart", "graceful_restart"}
    \/ Action = "clear_declared_lock_files" /\ Running(container)

Program == IF Action = "restart" THEN <<"restart">> ELSE <<"stop", "start">>

\* mutant: the attempt is saved only with its result
BeginActionUnsaved ==
    /\ pc = "charge"
    /\ acted' = acted \cup {0}
    /\ pc' = "execute"
    /\ UNCHANGED <<desired, runtime, container, mem, stray>>

BeginAction ==
    /\ pc = "charge"
    /\ runtime' = mem
    /\ acted' = acted \cup {0}
    /\ pc' = "execute"
    /\ UNCHANGED <<desired, container, mem, stray>>

Conclude(new) ==
    /\ mem' = new
    /\ pc' = "save"
    /\ UNCHANGED <<desired, runtime, container, acted>>

\* wait_for gives up; the thread is not cancelled and still waits for the lock.
ActionTimesOut ==
    /\ pc = "execute"
    /\ NeedsContainerMutation
    /\ stray' = stray \cup {Program}
    /\ Conclude(Failed(mem))

ClearLockFiles ==
    /\ pc = "execute"
    /\ Action = "clear_declared_lock_files" /\ ~Running(container)
    /\ stray' = stray
    /\ \/ Conclude(Entering(mem, "verifying"))
       \/ Conclude(Failed(mem))

QuarantineAction ==
    /\ pc = "execute"
    /\ Action = "quarantine"
    /\ stray' = stray
    /\ Conclude(Quarantined([mem EXCEPT !.stage = @ + 1], mem.incident))

-----------------------------------------------------------------------------
(* Everybody else who touches the container.                               *)

Outdated(r) == [r EXCEPT !.boot = IF @ = "current" THEN "outdated" ELSE @]

StartContainer ==
    /\ container' = "running"
    /\ runtime' = Outdated(runtime)
    /\ mem' = Outdated(mem)

LeaveContainer == UNCHANGED <<container, runtime, mem>>

StopContainer ==
    /\ container' = IF Running(container) THEN "exited" ELSE container
    /\ UNCHANGED <<runtime, mem>>

\* A thread whose pass gave up on it gets the lock at last and does what it was told to.
StrayThread(program) ==
    /\ pc = "idle"
    /\ LET op == Head(program)
           rest == IF Tail(program) = << >> THEN {} ELSE {Tail(program)}
       IN  \/ /\ container # "missing"
              /\ \/ op \in {"restart", "start"} /\ StartContainer
                 \/ op = "stop" /\ StopContainer
              /\ stray' = (stray \ {program}) \cup rest
           \/ LeaveContainer /\ stray' = stray \ {program}
    /\ UNCHANGED <<desired, pc, acted>>

\* The container handlers of the agent's API, each under the operation lock.
ContainerHandler ==
    /\ pc = "idle"
    /\ \/ container # "running" /\ StartContainer
       \/ Running(container) /\ StopContainer
       \/ /\ container # "missing"
          /\ container' = "missing"
          /\ UNCHANGED <<runtime, mem>>
    /\ UNCHANGED <<desired, pc, stray, acted>>

\* planned_operation: a manual restart, a backup, a restore, a source installation.
PlannedBegins ==
    /\ pc = "idle"
    /\ desired.generation > 0
    /\ runtime' = [Loaded(runtime, desired) EXCEPT !.lease = LocalLease]
    /\ pc' = "planned"
    /\ UNCHANGED <<desired, container, mem, stray, acted>>

PlannedMutates ==
    /\ pc = "planned"
    /\ container # "missing"
    /\ StartContainer \/ StopContainer
    /\ UNCHANGED <<desired, pc, stray, acted>>

PlannedEnds ==
    /\ pc = "planned"
    /\ runtime' = [runtime EXCEPT !.lease = 0]
    /\ pc' = "idle"
    /\ UNCHANGED <<desired, container, mem, stray, acted>>

\* The process in the container ends, and Docker may restart it on its own.
DockerEvent ==
    /\ \/ container = "running" /\ container' = "exited" /\ UNCHANGED <<runtime, mem>>
       \/ container = "running" /\ container' = "restarting" /\ UNCHANGED <<runtime, mem>>
       \/ container = "restarting" /\ container' = "exited" /\ UNCHANGED <<runtime, mem>>
       \/ container = "restarting" /\ StartContainer
    /\ UNCHANGED <<desired, pc, stray, acted>>

Waiting == stray \cup (IF pc = "stop" THEN {<<"stop">>} ELSE {})
                 \cup (IF pc = "execute" /\ NeedsContainerMutation THEN {Program} ELSE {})

\* The agent process ends.  An orderly exit releases the lock first and joins the worker
\* threads, so one of the waiting programs may still run.
Crash ==
    /\ \E program \in Waiting \cup {<< >>} :
           IF program = << >> \/ container = "missing" THEN UNCHANGED <<container, runtime>>
           ELSE IF program = <<"stop">>
                THEN container' = (IF Running(container) THEN "exited" ELSE container)
                     /\ UNCHANGED runtime
                ELSE container' = "running" /\ runtime' = Outdated(runtime)
    /\ pc' = "idle"
    /\ mem' = Blank
    /\ stray' = {}
    /\ UNCHANGED <<desired, acted>>

-----------------------------------------------------------------------------
(* Time.  Writing a file takes none.                                       *)

Older(a, cap) == IF a < cap THEN a + 1 ELSE cap
NoYounger(n) == n   \* mutant: a lease does not expire
Younger(n) == IF n > 0 THEN n - 1 ELSE 0
AgedSet(ages) == {a + 1 : a \in ages} \cap (0..Window)

Aged(r) ==
    [r EXCEPT !.phaseAge = IF r.state \in {"starting", "verifying"} THEN Older(@, PhaseCap) ELSE @,
              !.restarting = IF @ = None THEN None ELSE Older(@, StartTimeout),
              !.attempts = AgedSet(@),
              !.lastRecovery = Older(@, Cooldown),
              !.healthyFor = IF r.successes > 0 THEN Older(@, MinHealthy) ELSE @,
              !.lease = Younger(@)]

Tick ==
    /\ pc \in {"idle", "execute", "planned", "stop"}
    /\ runtime' = Aged(runtime)
    /\ mem' = IF pc \in {"execute", "stop"} THEN Aged(mem) ELSE mem
    /\ desired' = [desired EXCEPT !.lease = Younger(@)]
    /\ acted' = AgedSet(acted)
    /\ UNCHANGED <<container, pc, stray>>

Pass ==
    \/ PassDisabled \/ PassInspectionFails \/ PassStopsContainer \/ PassStopped
    \/ PassQuarantined \/ PassDockerRestarting \/ PassContainerMissing \/ PassChecks

Act == BeginAction \/ ActionTimesOut \/ ClearLockFiles \/ QuarantineAction

Environment ==
    \/ \E program \in stray : StrayThread(program)
    \/ ContainerHandler
    \/ PlannedBegins \/ PlannedMutates \/ PlannedEnds
    \/ DockerEvent
    \/ Tick

Next ==
    \/ Accept \/ SaveRuntime
    \/ Pass \/ Act \/ Environment
    \/ Crash

Spec == Init /\ [][Next]_vars

-----------------------------------------------------------------------------
(* Safety.                                                                 *)

\* Every recovery action that was begun for the current incident, and is still inside the
\* attempt window, is on record in runtime-state.json: a crash refunds no attempt.
\* (_attempt_recovery appends the attempt and saves before it executes the action.)
EveryActionOnRecord == acted \subseteq runtime.attempts

\* However passes, planned operations and new desired states interleave, no more
\* than max_attempts recovery actions are begun for one incident inside one window.
BudgetRespected == Cardinality(acted) <= MaxAttempts

\* Two recovery actions of one incident are at least the cooldown apart, across crashes,
\* escalation to the next stage and failed verifications.
CooldownRespected == [][BeginAction => \A age \in acted : age >= Cooldown]_vars

\* A recovery action is begun only for a server that is to run, with Guardian enabled, out
\* of quarantine and with neither the panel's nor the agent's own suspension active.
RecoveryAuthorised ==
    [][BeginAction => /\ desired.enabled /\ desired.power = "running"
                      /\ ~runtime.quarantine
                      /\ desired.lease = 0 /\ runtime.lease = 0]_vars

\* A quarantine on disk ends only through a clear operation that the desired state on disk
\* carries and that was not used before: no restart, re-enabling or power change lifts it,
\* and a control the panel sends again does not lift the next one.
QuarantineNeedsClear ==
    [][runtime.quarantine /\ ~runtime'.quarantine
           => runtime'.cleared = desired.clearOp /\ runtime'.cleared # runtime.cleared]_vars

\* Attempts and the reached stage belong to an open incident: without one the ladder starts
\* from the bottom, and an attempt in flight or under verification has one to report to.
LadderBelongsToIncident ==
    /\ runtime.incident = None => runtime.attempts = {} /\ runtime.stage = 0
    /\ runtime.state \in {"recovering", "verifying"} => runtime.incident # None
    /\ runtime.state = "quarantined" => runtime.quarantine

-----------------------------------------------------------------------------
(* Liveness.  The reconcile loop visits the server every few seconds and   *)
(* the lock is free between two holders, so a pass that is possible again  *)
(* and again happens; so does a thread's turn at the lock, and time goes   *)
(* on.  Holders finish what they began.  Nothing is assumed of Docker, of  *)
(* the probes, of the panel or of inspections that fail now and then.      *)

Inspected ==
    \/ PassDisabled \/ PassStopsContainer \/ PassStopped \/ PassQuarantined
    \/ PassDockerRestarting \/ PassContainerMissing \/ PassChecks

Fairness ==
    /\ SF_vars(Inspected)
    /\ SF_vars(Tick)
    /\ SF_vars(\E program \in stray : StrayThread(program))
    /\ WF_vars(SaveRuntime \/ Act \/ PlannedEnds)

FairSpec == Spec /\ Fairness

FinitelyManyCrashes == <>[][~Crash]_vars

Treatable ==
    /\ desired.enabled /\ desired.power = "running"
    /\ runtime.state = "unhealthy" /\ Policy[runtime.incident] # << >>
    /\ container \in {"exited", "running"}

\* A server found unhealthy, for whose failure class the Blueprint has a ladder, is treated
\* or gets well: no cooldown, spent budget or suspension - in particular not the lease of a
\* planned operation the agent died in - keeps the ladder from being climbed for ever.
UnhealthyIsTreated ==
    FinitelyManyCrashes => (Treatable ~> (pc = "execute" \/ ~Treatable))

\* "Ein stopped-Sollzustand stoppt einen trotzdem laufenden Container" (docs/blueprints.md).
DesiredStopConverges ==
    FinitelyManyCrashes =>
        ((desired.enabled /\ desired.power = "stopped" /\ desired.generation > 0)
            ~> (~Running(container) \/ ~desired.enabled \/ desired.power = "running"))

\* Guardian restarts what fails or takes it out of service (README.md), so a recovery
\* attempt comes to an end: it is verified, escalated or given up.
AttemptConcludes ==
    FinitelyManyCrashes => ((runtime.state = "recovering") ~> (runtime.state # "recovering"))
=============================================================================
