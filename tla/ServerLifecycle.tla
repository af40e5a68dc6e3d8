-------------------------- MODULE ServerLifecycle --------------------------
(***************************************************************************)
(* Start, stop, restart and kill of one server in the panel                *)
(* (backend/services/server_lifecycle_service.py): the request with its    *)
(* task (server_action_service.py, operation_task_service.py), the worker  *)
(* thread, the kill that runs beside it, the automatic restart of the      *)
(* scheduler, the login a start that failed may ask its user for           *)
(* (auth_setup_service.py), the status that is read and written back       *)
(* whenever somebody looks at the server, and the end of the panel in the  *)
(* middle of it all.                                                       *)
(*                                                                         *)
(* A step is what one thread does between two commits, two calls of the    *)
(* node or two looks at memory the threads share.  Left out: the power     *)
(* state that is wanted and its synchronisation (DesiredStateSync), what   *)
(* the Guardian does by itself (GuardianEngine), ports, backups, updates   *)
(* and their lock, of which only the failure is kept.                      *)
(***************************************************************************)
EXTENDS Naturals, FiniteSets

CONSTANTS
    MaxJobs,        \* bound: operations
    MaxFaults       \* bound: failed calls of the node and ends of the panel

ASSUME LifecycleAssumption == MaxJobs \in Nat \ {0} /\ MaxFaults \in Nat

Jobs == 1..MaxJobs
NoJob == 0

VARIABLES
    status,         \* servers.status
    container,      \* on the node
    epoch,          \* _OPERATION_EPOCHS
    active,         \* _ACTIVE_JOBS
    lock,           \* _LIFECYCLE_LOCKS: the job that holds it
    job,            \* each operation: what it is, how far it is, its epoch, its result
    task,           \* operation_tasks: the row of each operation
    poll,           \* what a request for the status has read
    setup,          \* the login thread each operation left behind, and how far it is
    auth,           \* servers.auth_required
    cancel,         \* a request to cancel the login that has still to stop the container
    last,           \* observer: the operation that took the epoch last; NoJob where an
                    \* automatic restart, which takes none, ran beside it or after it,
                    \* and where the node failed to take a superseded one down, or
                    \* failed a login that has or may have started its container
    faults

memory == <<epoch, active, lock>>
login == <<setup, auth, cancel>>
vars == <<status, container, memory, job, task, poll, login, last, faults>>

NewJob == [op |-> "none", at |-> "new", epoch |-> 0, ok |-> FALSE]
NoPoll == [status |-> "none", container |-> "none"]

Init ==
    /\ status = "stopped" /\ container = "stopped"
    /\ epoch = 0 /\ active = FALSE /\ lock = NoJob
    /\ job = [j \in Jobs |-> NewJob] /\ task = [j \in Jobs |-> "none"]
    /\ poll = NoPoll /\ last = NoJob /\ faults = 0
    /\ setup = [j \in Jobs |-> "none"] /\ auth = FALSE /\ cancel = FALSE

Operations == {"start", "stop", "restart", "kill"}
Transient == {"queued", "starting", "stopping", "restarting"}
ContainerStates == {"stopped", "running"}

Fault == faults < MaxFaults /\ faults' = faults + 1

At(j, place) == job[j].at = place
Goes(j, place) == job' = [job EXCEPT ![j].at = place]
Gone(j) == [op |-> job[j].op, at |-> "ended", epoch |-> 0, ok |-> FALSE]
Over(j) == job' = [job EXCEPT ![j] = Gone(j)]
Ends(j, ok) == job' = [job EXCEPT ![j].at = "release", ![j].ok = ok]

InFlight(j) == job[j].at \notin {"new", "ended"}

-----------------------------------------------------------------------------
(* The request, as far as the thread it starts.                            *)

\* request_lifecycle_operation: the task is on record before anything is done.
Request(j, op) ==
    /\ At(j, "new") /\ \A i \in 1..(j - 1) : ~At(i, "new")
    /\ job' = [job EXCEPT ![j].op = op, ![j].at = IF op = "kill" THEN "kill" ELSE "asked"]
    /\ task' = [task EXCEPT ![j] = "running"]
    /\ UNCHANGED <<status, container, memory, poll, login, last, faults>>

\* finish_lifecycle_task: a task that has ended is left alone.
Finished(j, ok) ==
    task' = [task EXCEPT ![j] = IF @ # "running" THEN @
                                ELSE IF ok THEN "succeeded" ELSE "failed"]

\* _mark_job_active: one operation at a time, the others are refused.
Claim(j) ==
    /\ At(j, "asked")
    /\ \/ ~active /\ active' = TRUE /\ Goes(j, "queue") /\ UNCHANGED task
       \/ active /\ Over(j) /\ Finished(j, FALSE) /\ UNCHANGED active
    /\ UNCHANGED <<status, container, epoch, lock, poll, login, last, faults>>

Queue(j) ==
    /\ At(j, "queue") /\ Goes(j, "thread") /\ status' = "queued"
    /\ UNCHANGED <<container, memory, task, poll, login, last, faults>>

_advance_operation_epoch(j) == epoch' = epoch + 1 /\ last' = j

\* mutant: a thread that does not start keeps the slot
StartThreadOrKeep(j) ==
    /\ At(j, "thread") /\ _advance_operation_epoch(j)
    /\ \/ /\ job' = [job EXCEPT ![j].at = "waiting", ![j].epoch = epoch + 1]
          /\ UNCHANGED <<status, task, faults>>
       \/ /\ Fault /\ Over(j) /\ status' = "failed" /\ Finished(j, FALSE)
    /\ UNCHANGED <<container, active, lock, poll, login>>

\* _start_lifecycle_thread, which may fail.
StartThread(j) ==
    /\ At(j, "thread") /\ _advance_operation_epoch(j)
    /\ \/ /\ job' = [job EXCEPT ![j].at = "waiting", ![j].epoch = epoch + 1]
          /\ UNCHANGED <<status, active, task, faults>>
       \/ /\ Fault /\ Over(j) /\ active' = FALSE /\ status' = "failed"
          /\ Finished(j, FALSE)
    /\ UNCHANGED <<container, lock, poll, login>>

\* _restart_server_task: no task, no epoch, and only for a server that says it runs.
AutoRestart(j) ==
    /\ At(j, "new") /\ \A i \in 1..(j - 1) : ~At(i, "new")
    /\ status = "running" /\ ~active /\ active' = TRUE
    /\ job' = [job EXCEPT ![j].op = "auto", ![j].at = "waiting"]
    /\ last' = NoJob
    /\ UNCHANGED <<status, container, epoch, lock, task, poll, login, faults>>

-----------------------------------------------------------------------------
(* The worker (_run_lifecycle_job, _restart_server_sync).                  *)

_operation_is_current(j) == job[j].op = "auto" \/ job[j].epoch = epoch

EnterLock(j) ==
    /\ At(j, "waiting") /\ lock = NoJob /\ lock' = j
    /\ IF _operation_is_current(j) THEN Goes(j, "status") ELSE Ends(j, FALSE)
    /\ UNCHANGED <<status, container, epoch, active, task, poll, login, last, faults>>

_operation_status(op) ==
    CASE op = "start" -> "starting" [] op = "stop" -> "stopping" [] OTHER -> "restarting"

SetStatus(j) ==
    /\ At(j, "status") /\ Goes(j, "lease") /\ status' = _operation_status(job[j].op)
    /\ UNCHANGED <<container, memory, task, poll, login, last, faults>>

\* The Guardian is told to keep still; if it does not confirm, nothing is done, and the
\* status stays as it is until somebody looks.
Lease(j) ==
    /\ At(j, "lease")
    /\ \/ Goes(j, IF job[j].op = "start" THEN "check" ELSE "stop") /\ UNCHANGED faults
       \/ Ends(j, FALSE) /\ Fault
    /\ UNCHANGED <<status, container, memory, task, poll, login, last>>

\* A call of the node that fails may have been carried out all the same.
Undone(target) == Fault /\ container' \in {container, target}

StopContainer(j) ==
    /\ At(j, "stop")
    /\ \/ /\ container' = "stopped" /\ Goes(j, IF job[j].op = "stop" THEN "commit" ELSE "check")
          /\ UNCHANGED <<status, faults>>
       \/ Undone("stopped") /\ Ends(j, FALSE) /\ status' = "failed"
    /\ UNCHANGED <<memory, task, poll, login, last>>

\* _ensure_operation_current, after the update and after the backup
CheckEpoch(j) ==
    /\ At(j, "check")
    /\ IF _operation_is_current(j) THEN Goes(j, "boot") ELSE Ends(j, FALSE)
    /\ UNCHANGED <<status, container, memory, task, poll, login, last, faults>>

\* A container of that name is removed first, so a start that failed may leave either.
\* Whether it went well is looked at after the epoch, unless it raised.
Boot(j) ==
    /\ At(j, "boot")
    /\ \/ /\ container' = "running" /\ job' = [job EXCEPT ![j].at = "verify", ![j].ok = TRUE]
          /\ UNCHANGED <<status, faults>>
       \/ Fault /\ container' \in ContainerStates /\ Goes(j, "verify") /\ UNCHANGED status
       \/ Fault /\ container' \in {container, "stopped"} /\ Ends(j, FALSE) /\ status' = "failed"
    /\ UNCHANGED <<memory, task, poll, login, last>>

\* mutant: no second look after the container has been started
VerifyNothing(j) ==
    /\ At(j, "verify")
    /\ \/ job[j].ok /\ Goes(j, "commit") /\ UNCHANGED status
       \/ ~job[j].ok /\ Ends(j, FALSE) /\ status' = "failed"
    /\ UNCHANGED <<container, memory, task, poll, login, last, faults>>

\* _try_start_auth_setup_recovery: a container that asked for a login before it went down
\* leaves a thread behind, and the start counts as done.
_try_start_auth_setup_recovery(j) ==
    /\ job[j].op = "start" /\ Ends(j, TRUE)
    /\ setup' = [setup EXCEPT ![j] = "move"] /\ auth' = TRUE
    /\ UNCHANGED <<status, cancel>>

\* An operation that was superseded takes its container down again, and does not ask
\* whether the node did so (docker_service.remove raises nothing).
Verify(j) ==
    /\ At(j, "verify")
    /\ \/ /\ _operation_is_current(j) /\ job[j].ok /\ Goes(j, "commit")
          /\ UNCHANGED <<status, container, login, last, faults>>
       \/ /\ _operation_is_current(j) /\ ~job[j].ok
          /\ \/ _try_start_auth_setup_recovery(j)
             \/ Ends(j, FALSE) /\ status' = "failed" /\ UNCHANGED login
          /\ UNCHANGED <<container, last, faults>>
       \/ /\ ~_operation_is_current(j) /\ Ends(j, FALSE) /\ UNCHANGED <<status, login>>
          /\ \/ container' = "stopped" /\ UNCHANGED <<last, faults>>
             \/ Fault /\ last' = NoJob /\ UNCHANGED container
    /\ UNCHANGED <<memory, task, poll>>

Commit(j) ==
    /\ At(j, "commit") /\ Ends(j, TRUE)
    /\ status' = IF job[j].op = "stop" THEN "stopped" ELSE "running"
    /\ UNCHANGED <<container, memory, task, poll, login, last, faults>>

ReleaseLock(j) ==
    /\ At(j, "release") /\ Goes(j, "finish") /\ lock' = NoJob
    /\ UNCHANGED <<status, container, epoch, active, task, poll, login, last, faults>>

\* mutant: an operation that was superseded leaves its task to the one that did
FinishUnlessSuperseded(j) ==
    /\ At(j, "finish") /\ Goes(j, "free")
    /\ IF _operation_is_current(j) THEN Finished(j, job[j].ok) ELSE UNCHANGED task
    /\ UNCHANGED <<status, container, memory, poll, login, last, faults>>

Finish(j) ==
    /\ At(j, "finish") /\ Goes(j, "free") /\ Finished(j, job[j].ok)
    /\ UNCHANGED <<status, container, memory, poll, login, last, faults>>

_mark_job_done(j) ==
    /\ At(j, "free") /\ Over(j) /\ active' = FALSE
    /\ UNCHANGED <<status, container, epoch, lock, task, poll, login, last, faults>>

-----------------------------------------------------------------------------
(* Kill: in the request itself, beside whatever the worker is doing.       *)

AutoInFlight == \E i \in Jobs : job[i].op = "auto" /\ InFlight(i)

KillAdvance(j) ==
    /\ At(j, "kill") /\ Goes(j, "remove")
    /\ epoch' = epoch + 1 /\ last' = IF AutoInFlight THEN NoJob ELSE j
    /\ UNCHANGED <<status, container, active, lock, task, poll, login, faults>>

KillRemove(j) ==
    /\ At(j, "remove")
    /\ \/ container' = "stopped" /\ Goes(j, "killed") /\ UNCHANGED <<task, faults>>
       \/ Undone("stopped") /\ Over(j) /\ Finished(j, FALSE)
    /\ UNCHANGED <<status, memory, poll, login, last>>

KillStatus(j) ==
    /\ At(j, "killed") /\ Goes(j, "told") /\ status' = "stopped"
    /\ UNCHANGED <<container, memory, task, poll, login, last, faults>>

KillFinish(j) ==
    /\ At(j, "told") /\ Over(j) /\ Finished(j, TRUE)
    /\ UNCHANGED <<status, container, memory, poll, login, last, faults>>

-----------------------------------------------------------------------------
(* The login (run_auth_setup_recovery): a thread with neither slot nor lock nor epoch.  *)

Turns(j, place) == setup' = [setup EXCEPT ![j] = place]

\* The credentials are moved away; where there are none the login is over.
SetupMoves(j) ==
    /\ setup[j] = "move"
    /\ \/ Turns(j, "boot") /\ UNCHANGED auth
       \/ Turns(j, "none") /\ auth' = FALSE
    /\ UNCHANGED <<status, container, memory, job, task, poll, cancel, last, faults>>

SetupBoots(j) ==
    /\ setup[j] = "boot"
    /\ \/ Turns(j, "wait") /\ container' = "running" /\ UNCHANGED <<auth, last, faults>>
       \/ /\ Turns(j, "none") /\ auth' = FALSE
          /\ Fault /\ container' \in ContainerStates /\ last' = NoJob
    /\ UNCHANGED <<status, memory, job, task, poll, cancel>>

\* Credentials have turned up, or the five minutes are over; a node that does not answer
\* ends the thread, and nobody stops the container.
SetupWaits(j) ==
    /\ setup[j] = "wait"
    /\ \/ Turns(j, "found") /\ UNCHANGED <<auth, last, faults>>
       \/ Turns(j, "timeout") /\ auth' = FALSE /\ UNCHANGED <<last, faults>>
       \/ Turns(j, "none") /\ auth' = FALSE /\ Fault /\ last' = NoJob
    /\ UNCHANGED <<status, container, memory, job, task, poll, cancel>>

\* Whether the node stopped the container is not asked.
SetupStops(j) ==
    /\ \/ setup[j] = "found" /\ Turns(j, "restart")
       \/ setup[j] = "timeout" /\ Turns(j, "none")
    /\ \/ container' = "stopped" /\ UNCHANGED <<last, faults>>
       \/ Fault /\ last' = NoJob /\ UNCHANGED container
    /\ UNCHANGED <<status, memory, job, task, poll, auth, cancel>>

\* restart_callback: an operation i of which there is no task.
restart_callback(j, i) ==
    /\ setup[j] = "restart" /\ Turns(j, "none") /\ auth' = FALSE
    /\ At(i, "new") /\ \A k \in 1..(i - 1) : ~At(k, "new")
    /\ job' = [job EXCEPT ![i].op = "restart", ![i].at = "asked"]
    /\ UNCHANGED <<status, container, memory, task, poll, cancel, last, faults>>

Login(j) ==
    \/ SetupMoves(j) \/ SetupBoots(j) \/ SetupWaits(j) \/ SetupStops(j)
    \/ \E i \in Jobs : restart_callback(j, i)

\* cancel_auth_setup: the flag first, then the container.
CancelSetup ==
    /\ \/ auth /\ ~cancel /\ auth' = FALSE /\ cancel' = TRUE /\ UNCHANGED <<container, faults>>
       \/ cancel /\ cancel' = FALSE /\ container' = "stopped" /\ UNCHANGED <<auth, faults>>
       \/ cancel /\ cancel' = FALSE /\ Fault /\ UNCHANGED <<container, auth>>
    /\ UNCHANGED <<status, memory, job, task, poll, setup, last>>

-----------------------------------------------------------------------------
(* Who looks at the server, and the end of the panel.                      *)

\* A look that finds status and container agree, or a failure, writes nothing back.
PollRead ==
    /\ poll = NoPoll /\ status \notin {container, "failed"}
    /\ poll' = [status |-> status, container |-> container]
    /\ UNCHANGED <<status, container, memory, job, task, login, last, faults>>

\* mutant: a status in between is kept whether or not somebody still works on it
PreservedAnyway(s) == s = "failed" \/ s \in Transient

\* should_preserve_lifecycle_status, asked of the status that was read
Preserved(s) == s = "failed" \/ (s \in Transient /\ active)

PollWrite ==
    /\ poll # NoPoll /\ poll' = NoPoll
    /\ status' = IF Preserved(poll.status) THEN status ELSE poll.container
    /\ UNCHANGED <<container, memory, job, task, login, last, faults>>

\* mutant: the error code lands in the status
RecoveredByCode == [j \in Jobs |-> IF task[j] = "running" THEN "task_interrupted" ELSE task[j]]

\* recover_interrupted_tasks
Recovered == [j \in Jobs |-> IF task[j] = "running" THEN "failed" ELSE task[j]]

\* What the node may be at: starting a container, or taking one down.
Asked(what) ==
    \E j \in Jobs : IF what = "boot" THEN At(j, "boot") \/ setup[j] = "boot"
                   ELSE \/ job[j].at \in {"stop", "remove"} \/ setup[j] \in {"found", "timeout"}
                        \/ At(j, "verify") /\ ~_operation_is_current(j)

\* The panel ends and starts again.  What it had asked of the node may still be done;
\* a server between two states takes that of its container, if the node answers.
PanelRestarts ==
    /\ Fault /\ \E j \in Jobs : InFlight(j) \/ setup[j] # "none"
    /\ epoch' = 0 /\ active' = FALSE /\ lock' = NoJob /\ poll' = NoPoll /\ last' = NoJob
    /\ setup' = [j \in Jobs |-> "none"] /\ cancel' = FALSE /\ UNCHANGED auth
    /\ job' = [j \in Jobs |-> IF InFlight(j) THEN Gone(j) ELSE job[j]]
    /\ task' = Recovered
    /\ container' \in {container} \cup (IF Asked("boot") THEN ContainerStates ELSE {})
                                  \cup (IF cancel \/ Asked("stop") THEN {"stopped"} ELSE {})
    /\ status' \in {status} \cup (IF status \in Transient THEN {container'} ELSE {})

-----------------------------------------------------------------------------
Worker(j) ==
    \/ Claim(j) \/ Queue(j) \/ StartThread(j) \/ EnterLock(j) \/ SetStatus(j) \/ Lease(j)
    \/ StopContainer(j) \/ CheckEpoch(j) \/ Boot(j) \/ Verify(j) \/ Commit(j)
    \/ ReleaseLock(j) \/ Finish(j) \/ _mark_job_done(j)

Killer(j) == KillAdvance(j) \/ KillRemove(j) \/ KillStatus(j) \/ KillFinish(j)

Next ==
    \/ \E j \in Jobs : \/ \E op \in Operations : Request(j, op)
                       \/ AutoRestart(j) \/ Worker(j) \/ Killer(j) \/ Login(j)
    \/ CancelSetup \/ PollRead \/ PollWrite \/ PanelRestarts

Spec == Init /\ [][Next]_vars

\* Some thread goes on as long as one can (which is weaker than that each does), calls of
\* the node end, and somebody looks at the server.
Fairness ==
    /\ WF_vars(\E j \in Jobs : Worker(j) \/ Killer(j))
    /\ WF_vars(PollRead \/ PollWrite)

FairSpec == Spec /\ Fairness

-----------------------------------------------------------------------------
Statuses == Transient \cup {"stopped", "running", "failed"}
Places == {"new", "asked", "queue", "thread", "waiting", "status", "lease", "stop", "check",
           "boot", "verify", "commit", "release", "finish", "free", "ended",
           "kill", "remove", "killed", "told"}
SetupPlaces == {"none", "move", "boot", "wait", "found", "timeout", "restart"}
Section == {"status", "lease", "stop", "check", "boot", "verify", "commit", "release"}
Owning == Section \cup {"queue", "thread", "waiting", "finish", "free"}

JobRecords == [op: Operations \cup {"none", "auto"}, at: Places, epoch: Nat, ok: BOOLEAN]
TaskStates == {"none", "running", "succeeded", "failed"}

LoginOK == setup \in [Jobs -> SetupPlaces] /\ auth \in BOOLEAN /\ cancel \in BOOLEAN

TypeOK ==
    /\ status \in Statuses /\ container \in ContainerStates
    /\ epoch \in Nat /\ active \in BOOLEAN /\ lock \in Jobs \cup {NoJob}
    /\ job \in [Jobs -> JobRecords] /\ task \in [Jobs -> TaskStates]
    /\ poll \in {NoPoll} \cup [status: Statuses, container: ContainerStates]
    /\ LoginOK
    /\ last \in Jobs \cup {NoJob} /\ faults \in 0..MaxFaults

\* The slot of the server and its lock always have one owner that will give them back,
\* over refused requests, threads that do not start, kills and ends of the panel.
OwnersLive ==
    /\ active <=> \E j \in Jobs : job[j].at \in Owning
    /\ \A i, j \in Jobs : job[i].at \in Owning /\ job[j].at \in Owning => i = j
    /\ lock # NoJob <=> \E j \in Jobs : job[j].at \in Section
    /\ lock # NoJob => job[lock].at \in Section

\* The last operation was to take the server down, and says that it did.
SaidDown == last # NoJob /\ task[last] = "succeeded" /\ job[last].op \in {"stop", "kill"}

\* An operation that was superseded is about to take its container down.
AboutToBeTakenDown == \E j \in Jobs : At(j, "verify") /\ job[j].epoch # epoch

\* A login keeps a container up.
LoginIsUp == \E j \in Jobs : setup[j] \in {"wait", "found", "timeout"}

\* A stop or a kill that reports success and that nothing came after: the server is
\* down, or an operation it superseded is about to take it down, or the login of a start
\* before it has brought it up again and will take it down.
DownMeansDown == SaidDown => container = "stopped" \/ AboutToBeTakenDown \/ LoginIsUp

\* The same without the login: a kill reaches a server that is queued or starting, too
\* (the line the panel writes to the console at the end of a kill).
KillIsFinal == SaidDown => container = "stopped" \/ AboutToBeTakenDown

\* A login that was cancelled restarts nothing: its thread looks at auth_required and ends
\* by itself (the docstring of cancel_auth_setup).
CancelEndsLogin ==
    [][\A j, i \in Jobs : setup[j] # setup'[j] /\ At(i, "new") /\ ~At(i, "new")' => auth]_vars

\* Whoever asked for an operation learns how it ended.
TaskEnds == (\E j \in Jobs : task[j] = "running") ~> (\A j \in Jobs : task[j] # "running")

\* No server stays between two states for good, whatever was killed or broken off.
StatusSettles == <>[](status \notin Transient)
=============================================================================
