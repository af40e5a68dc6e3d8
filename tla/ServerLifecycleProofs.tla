----------------------- MODULE ServerLifecycleProofs -----------------------
(***************************************************************************)
(* Proofs about ServerLifecycle, for any number of operations and faults:  *)
(* types, the one owner of slot and lock, and that a stop or a kill that   *)
(* reports success leaves the server down until the login of an earlier    *)
(* start brings it up again.                                               *)
(*                                                                         *)
(* The argument for the last: the operation that took the epoch last is    *)
(* the only worker whose epoch is the current one, so whatever container   *)
(* another worker boots is taken down when it verifies; and while a stop   *)
(* is the last, no other worker is under way at all.                       *)
(***************************************************************************)
EXTENDS ServerLifecycle, TLAPS

Took == {"waiting", "status", "lease", "stop", "check", "boot", "verify", "commit",
         "release", "finish", "free"}
KillPlaces == {"kill", "remove", "killed", "told", "ended"}

\* What an operation is says where it can be.
OpFits(op, at) ==
    /\ op = "none" <=> at = "new"
    /\ op = "kill" => at \in KillPlaces
    /\ op = "auto" => at \in Took \cup {"ended"}
    /\ op = "stop" => at \in (Owning \ {"check", "boot", "verify"}) \cup {"asked", "ended"}
    /\ op \in {"start", "restart"} => at \in Owning \cup {"asked", "ended"}

PlacesFit ==
    \A j \in Jobs :
        /\ OpFits(job[j].op, job[j].at)
        /\ job[j].epoch <= epoch /\ (job[j].at \notin Took => job[j].epoch = 0)
        /\ task[j] = "succeeded" => job[j].at \in {"free", "ended"}

\* While one operation counts as the last, no automatic restart is under way; the last
\* is the only worker with the current epoch, and unless it is a kill the only one at all.
LastTookIt ==
    last # NoJob =>
        /\ job[last].op \in {"start", "stop", "restart", "kill"}
        /\ job[last].at \notin {"asked", "queue", "thread", "kill"}
        /\ \A j \in Jobs : job[j].at \in Took =>
             /\ job[j].op # "auto"
             /\ job[j].epoch = epoch <=> j = last
             /\ job[last].op # "kill" => j = last

\* A stop that is past its container.
StopPast(j) ==
    \/ job[j].at = "commit"
    \/ job[j].at \in {"release", "finish"} /\ job[j].ok
    \/ task[j] = "succeeded"

\* A kill that is past its container.
KillPast(j) == job[j].at \in {"killed", "told"} \/ task[j] = "succeeded"

Down ==
    last # NoJob =>
        /\ job[last].op = "stop" /\ StopPast(last) => container = "stopped" \/ LoginIsUp
        /\ job[last].op = "kill" /\ KillPast(last) =>
             container = "stopped" \/ AboutToBeTakenDown \/ LoginIsUp

IInv == TypeOK /\ OwnersLive /\ PlacesFit /\ LastTookIt /\ Down

-----------------------------------------------------------------------------
(* What a move of one operation changes, field by field.                   *)

Becomes(j, op, at, number, ok) ==
    /\ job' \in [Jobs -> JobRecords]
    /\ job'[j].op = op /\ job'[j].at = at /\ job'[j].epoch = number /\ job'[j].ok = ok
    /\ \A i \in Jobs : i # j => job'[i] = job[i]

LEMMA GoesFacts ==
    ASSUME job \in [Jobs -> JobRecords], NEW j \in Jobs, NEW place \in Places, Goes(j, place)
    PROVE  Becomes(j, job[j].op, place, job[j].epoch, job[j].ok)
BY DEF Goes, Becomes, JobRecords

LEMMA EndsFacts ==
    ASSUME job \in [Jobs -> JobRecords], NEW j \in Jobs, NEW ok \in BOOLEAN, Ends(j, ok)
    PROVE  Becomes(j, job[j].op, "release", job[j].epoch, ok)
BY DEF Ends, Becomes, JobRecords, Places

LEMMA OverFacts ==
    ASSUME job \in [Jobs -> JobRecords], NEW j \in Jobs, Over(j)
    PROVE  Becomes(j, job[j].op, "ended", 0, FALSE)
BY DEF Over, Gone, Becomes, JobRecords, Places

LEMMA RequestFacts ==
    ASSUME job \in [Jobs -> JobRecords], NEW j \in Jobs, NEW op \in Operations, Request(j, op)
    PROVE  Becomes(j, op, IF op = "kill" THEN "kill" ELSE "asked", job[j].epoch, job[j].ok)
<1> DEFINE place == IF op = "kill" THEN "kill" ELSE "asked"
<1>1. place \in Places
  BY DEF Places
<1>2. job' = [job EXCEPT ![j].op = op, ![j].at = place]
  BY DEF Request
<1> HIDE DEF place
<1>3. Becomes(j, op, place, job[j].epoch, job[j].ok)
  BY <1>1, <1>2 DEF Becomes, JobRecords
<1> QED  BY <1>3 DEF place

LEMMA AutoRestartFacts ==
    ASSUME job \in [Jobs -> JobRecords], NEW j \in Jobs, AutoRestart(j)
    PROVE  Becomes(j, "auto", "waiting", job[j].epoch, job[j].ok)
<1>1. job' = [job EXCEPT ![j].op = "auto", ![j].at = "waiting"]
  BY DEF AutoRestart
<1>2. "waiting" \in Places
  BY DEF Places
<1> QED  BY <1>1, <1>2 DEF Becomes, JobRecords

LEMMA StartThreadFacts ==
    ASSUME job \in [Jobs -> JobRecords], epoch \in Nat, NEW j \in Jobs, StartThread(j)
    PROVE  \/ /\ Becomes(j, job[j].op, "waiting", epoch + 1, job[j].ok)
              /\ UNCHANGED <<status, active, task, faults>>
           \/ /\ Becomes(j, job[j].op, "ended", 0, FALSE)
              /\ Fault /\ active' = FALSE /\ status' = "failed" /\ Finished(j, FALSE)
<1>1. CASE job' = [job EXCEPT ![j].at = "waiting", ![j].epoch = epoch + 1]
           /\ UNCHANGED <<status, active, task, faults>>
  <2>1. "waiting" \in Places /\ epoch + 1 \in Nat
    BY DEF Places
  <2> QED  BY <1>1, <2>1 DEF Becomes, JobRecords
<1>2. CASE Fault /\ Over(j) /\ active' = FALSE /\ status' = "failed" /\ Finished(j, FALSE)
  BY <1>2, OverFacts
<1> QED  BY <1>1, <1>2 DEF StartThread

LEMMA BootFacts ==
    ASSUME job \in [Jobs -> JobRecords], NEW j \in Jobs, Boot(j)
    PROVE  \/ /\ Becomes(j, job[j].op, "verify", job[j].epoch, TRUE)
              /\ container' = "running" /\ UNCHANGED <<status, faults>>
           \/ /\ Becomes(j, job[j].op, "verify", job[j].epoch, job[j].ok)
              /\ Fault /\ container' \in ContainerStates /\ UNCHANGED status
           \/ /\ Becomes(j, job[j].op, "release", job[j].epoch, FALSE)
              /\ Fault /\ status' = "failed" /\ container' \in {container, "stopped"}
<1>1. "verify" \in Places
  BY DEF Places
<1>2. CASE /\ container' = "running" /\ job' = [job EXCEPT ![j].at = "verify", ![j].ok = TRUE]
           /\ UNCHANGED <<status, faults>>
  BY <1>1, <1>2 DEF Becomes, JobRecords
<1>3. CASE Fault /\ container' \in ContainerStates /\ Goes(j, "verify") /\ UNCHANGED status
  BY <1>1, <1>3, GoesFacts
<1>4. CASE Fault /\ container' \in {container, "stopped"} /\ Ends(j, FALSE) /\ status' = "failed"
  BY <1>4, EndsFacts
<1> QED  BY <1>2, <1>3, <1>4 DEF Boot

LEMMA CallbackFacts ==
    ASSUME job \in [Jobs -> JobRecords], NEW j \in Jobs, NEW i \in Jobs, restart_callback(j, i)
    PROVE  Becomes(i, "restart", "asked", job[i].epoch, job[i].ok)
<1>1. job' = [job EXCEPT ![i].op = "restart", ![i].at = "asked"]
  BY DEF restart_callback
<1>2. "asked" \in Places
  BY DEF Places
<1> QED  BY <1>1, <1>2 DEF Becomes, JobRecords, Operations

\* What a login does short of its restart, and who cancels it, touches no operation.
Beside ==
    \/ \E j \in Jobs : SetupMoves(j) \/ SetupBoots(j) \/ SetupWaits(j) \/ SetupStops(j)
    \/ CancelSetup

LEMMA BesideFacts ==
    ASSUME Beside
    PROVE  /\ UNCHANGED <<status, memory, job, task, poll>> /\ last' \in {last, NoJob}
           /\ faults' = faults \/ Fault
           /\ container' = container \/ container' \in ContainerStates
BY DEF Beside, SetupMoves, SetupBoots, SetupWaits, SetupStops, CancelSetup, ContainerStates

LEMMA FaultFacts ==
    ASSUME faults \in 0..MaxFaults, Fault
    PROVE  faults' \in 0..MaxFaults
BY LifecycleAssumption DEF Fault

LEMMA FinishedFacts ==
    ASSUME task \in [Jobs -> TaskStates], NEW j \in Jobs, NEW ok \in BOOLEAN, Finished(j, ok)
    PROVE  /\ task' \in [Jobs -> TaskStates]
           /\ \A i \in Jobs : i # j => task'[i] = task[i]
           /\ task'[j] = "succeeded" <=> task[j] = "succeeded" \/ (task[j] = "running" /\ ok)
BY DEF Finished, TaskStates

LEMMA Fields ==
    ASSUME job \in [Jobs -> JobRecords], NEW j \in Jobs
    PROVE  /\ job[j].op \in Operations \cup {"none", "auto"} /\ job[j].at \in Places
           /\ job[j].epoch \in Nat /\ job[j].ok \in BOOLEAN
BY DEF JobRecords

-----------------------------------------------------------------------------
(* Types.                                                                  *)

LEMMA TypeStep == TypeOK /\ [Next]_vars => TypeOK'
<1> SUFFICES ASSUME TypeOK, [Next]_vars PROVE TypeOK'
  OBVIOUS
<1> USE LifecycleAssumption
    DEF TypeOK, memory, Becomes, Statuses, Transient, ContainerStates
<1>0. UNCHANGED login => LoginOK'
  BY DEF login, LoginOK
<1>1. ASSUME NEW j \in Jobs, NEW op \in Operations, Request(j, op) PROVE TypeOK'
  BY <1>0, <1>1, RequestFacts DEF Request, TaskStates
<1>2. ASSUME NEW j \in Jobs, AutoRestart(j) PROVE TypeOK'
  BY <1>0, <1>2, AutoRestartFacts DEF AutoRestart
<1>3. ASSUME NEW j \in Jobs, Worker(j) PROVE TypeOK'
  <2>1. CASE Claim(j)
    BY <1>0, <2>1, GoesFacts, OverFacts, FinishedFacts DEF Claim, Places
  <2>2. CASE Queue(j)
    BY <1>0, <2>2, GoesFacts DEF Queue, Places
  <2>3. CASE StartThread(j)
    <3>1. job' \in [Jobs -> JobRecords] /\ status' \in Statuses /\ active' \in BOOLEAN
      BY <2>3, StartThreadFacts
    <3>2. task' \in [Jobs -> TaskStates] /\ faults' \in 0..MaxFaults
      BY <2>3, StartThreadFacts, FaultFacts, FinishedFacts
    <3> QED  BY <1>0, <2>3, <3>1, <3>2 DEF StartThread, _advance_operation_epoch
  <2>4. CASE EnterLock(j)
    BY <1>0, <2>4, GoesFacts, EndsFacts DEF EnterLock, Places
  <2>5. CASE SetStatus(j)
    BY <1>0, <2>5, GoesFacts DEF SetStatus, _operation_status, Places
  <2>6. CASE Lease(j)
    <3>1. job' \in [Jobs -> JobRecords]
      BY <2>6, GoesFacts, EndsFacts DEF Lease, Places
    <3> QED  BY <1>0, <2>6, <3>1, FaultFacts DEF Lease
  <2>7. CASE StopContainer(j)
    BY <1>0, <2>7, GoesFacts, EndsFacts, FaultFacts DEF StopContainer, Undone, Places
  <2>8. CASE CheckEpoch(j)
    BY <1>0, <2>8, GoesFacts, EndsFacts DEF CheckEpoch, Places
  <2>9. CASE Boot(j)
    <3>1. job' \in [Jobs -> JobRecords] /\ container' \in ContainerStates /\ status' \in Statuses
      BY <2>9, BootFacts DEF Undone
    <3>2. faults' \in 0..MaxFaults
      BY <2>9, BootFacts, FaultFacts DEF Undone
    <3> QED  BY <1>0, <2>9, <3>1, <3>2 DEF Boot
  <2>10. CASE Verify(j)
    <3>1. job' \in [Jobs -> JobRecords]
      BY <2>10, GoesFacts, EndsFacts DEF Verify, _try_start_auth_setup_recovery, Places
    <3>2. LoginOK'
      BY <1>0, <2>10 DEF Verify, _try_start_auth_setup_recovery, LoginOK, SetupPlaces
    <3>3. status' \in Statuses /\ container' \in ContainerStates /\ last' \in Jobs \cup {NoJob}
      BY <2>10 DEF Verify, _try_start_auth_setup_recovery
    <3>4. faults' \in 0..MaxFaults
      BY <2>10, FaultFacts DEF Verify
    <3> QED  BY <1>0, <2>10, <3>1, <3>2, <3>3, <3>4 DEF Verify
  <2>11. CASE Commit(j)
    BY <1>0, <2>11, EndsFacts DEF Commit
  <2>12. CASE ReleaseLock(j)
    BY <1>0, <2>12, GoesFacts DEF ReleaseLock, Places
  <2>13. CASE Finish(j)
    BY <1>0, <2>13, GoesFacts, FinishedFacts, Fields DEF Finish, Places
  <2>14. CASE _mark_job_done(j)
    BY <1>0, <2>14, OverFacts DEF _mark_job_done
  <2> QED  BY <1>3, <2>1, <2>2, <2>3, <2>4, <2>5, <2>6, <2>7, <2>8, <2>9, <2>10, <2>11, <2>12,
              <2>13, <2>14 DEF Worker
<1>4. ASSUME NEW j \in Jobs, Killer(j) PROVE TypeOK'
  <2>1. CASE KillAdvance(j)
    BY <1>0, <2>1, GoesFacts DEF KillAdvance, Places
  <2>2. CASE KillRemove(j)
    <3>1. job' \in [Jobs -> JobRecords]
      BY <2>2, GoesFacts, OverFacts DEF KillRemove, Places
    <3>2. task' \in [Jobs -> TaskStates]
      BY <2>2, FinishedFacts DEF KillRemove
    <3> QED  BY <1>0, <2>2, <3>1, <3>2, FaultFacts DEF KillRemove, Undone
  <2>3. CASE KillStatus(j)
    BY <1>0, <2>3, GoesFacts DEF KillStatus, Places
  <2>4. CASE KillFinish(j)
    BY <1>0, <2>4, OverFacts, FinishedFacts DEF KillFinish
  <2> QED  BY <1>4, <2>1, <2>2, <2>3, <2>4 DEF Killer
<1>5. CASE PollRead
  BY <1>0, <1>5 DEF PollRead
<1>6. CASE PollWrite
  BY <1>0, <1>6 DEF PollWrite, NoPoll
<1>7. CASE PanelRestarts
  <2>1. job' \in [Jobs -> JobRecords]
    BY <1>7, Fields DEF PanelRestarts, Gone, JobRecords, Places
  <2>2. task' \in [Jobs -> TaskStates]
    BY <1>7 DEF PanelRestarts, Recovered, TaskStates
  <2>3. LoginOK'
    BY <1>7 DEF PanelRestarts, LoginOK, SetupPlaces
  <2>4. container' \in ContainerStates /\ status' \in Statuses
    BY <1>7 DEF PanelRestarts
  <2> QED  BY <1>7, <2>1, <2>2, <2>3, <2>4, FaultFacts DEF PanelRestarts
<1>8. CASE UNCHANGED vars
  BY <1>0, <1>8 DEF vars
<1>9. ASSUME NEW j \in Jobs, NEW i \in Jobs, restart_callback(j, i) PROVE TypeOK'
  <2>1. LoginOK'
    BY <1>9 DEF restart_callback, Turns, LoginOK, SetupPlaces
  <2> QED  BY <1>9, <2>1, CallbackFacts DEF restart_callback
<1>10. CASE Beside
  <2>1. LoginOK'
    BY <1>10 DEF Beside, SetupMoves, SetupBoots, SetupWaits, SetupStops, CancelSetup, Turns,
       LoginOK,
                 SetupPlaces
  <2>2. faults' \in 0..MaxFaults
    BY <1>10, BesideFacts, FaultFacts
  <2> QED  BY <1>10, <2>1, <2>2, BesideFacts
<1> HIDE DEF TypeOK
<1> QED  BY <1>1, <1>2, <1>3, <1>4, <1>5, <1>6, <1>7, <1>8, <1>9, <1>10 DEF Next, Login, Beside

-----------------------------------------------------------------------------
(* One owner of the slot and of the lock.                                  *)

\* An operation that keeps what it owns.
LEMMA SameOwner ==
    ASSUME OwnersLive, lock \in Jobs \cup {NoJob}, NEW j \in Jobs,
           NEW op, NEW at, NEW number, NEW ok, Becomes(j, op, at, number, ok),
           job[j].at \in Owning <=> at \in Owning, job[j].at \in Section <=> at \in Section,
           UNCHANGED <<active, lock>>
    PROVE  OwnersLive'
<1>1. \A i \in Jobs : /\ job'[i].at \in Owning <=> job[i].at \in Owning
                      /\ job'[i].at \in Section <=> job[i].at \in Section
  BY DEF Becomes
<1> HIDE DEF Owning, Section
<1> QED  BY <1>1 DEF OwnersLive

\* An operation that gives everything back, or takes the slot nobody has.
LEMMA OwnerLeaves ==
    ASSUME OwnersLive, NEW j \in Jobs, NEW op, NEW at, NEW number, NEW ok,
           Becomes(j, op, at, number, ok), job[j].at \in Owning \ Section, at \notin Owning,
           ~active', UNCHANGED lock
    PROVE  OwnersLive'
<1>1. \A i \in Jobs : job'[i].at \notin Owning
  BY DEF Becomes, OwnersLive
<1>2. \A i \in Jobs : job[i].at \notin Section
  BY DEF OwnersLive, Owning
<1> QED  BY <1>1, <1>2 DEF OwnersLive, Owning

LEMMA OwnerComes ==
    ASSUME OwnersLive, ~active, NEW j \in Jobs, NEW op, NEW at, NEW number, NEW ok,
           Becomes(j, op, at, number, ok), at \in Owning \ Section, active', UNCHANGED lock
    PROVE  OwnersLive'
<1>1. \A i \in Jobs : job[i].at \notin Owning
  BY DEF OwnersLive
<1>2. \A i \in Jobs : i # j => job'[i].at \notin Owning
  BY <1>1 DEF Becomes
<1>3. job'[j].at \in Owning \ Section
  BY DEF Becomes
<1>4. \A i \in Jobs : job[i].at \notin Section /\ job'[i].at \notin Section
  BY <1>1, <1>2, <1>3 DEF Owning
<1>5. lock' = NoJob
  BY <1>4 DEF OwnersLive
<1> QED  BY <1>2, <1>3, <1>4, <1>5 DEF OwnersLive

LEMMA OwnersStep == TypeOK /\ OwnersLive /\ [Next]_vars => OwnersLive'
<1> SUFFICES ASSUME TypeOK, OwnersLive, [Next]_vars PROVE OwnersLive'
  OBVIOUS
<1>0. job \in [Jobs -> JobRecords] /\ epoch \in Nat /\ lock \in Jobs \cup {NoJob}
  BY DEF TypeOK
<1>1. ASSUME NEW j \in Jobs, NEW op \in Operations, Request(j, op) PROVE OwnersLive'
  BY <1>0, <1>1, RequestFacts, SameOwner DEF Request, At, memory, Owning, Section
<1>2. ASSUME NEW j \in Jobs, AutoRestart(j) PROVE OwnersLive'
  BY <1>0, <1>2, AutoRestartFacts, OwnerComes DEF AutoRestart, Owning, Section
<1>3. ASSUME NEW j \in Jobs, Worker(j) PROVE OwnersLive'
  <2>1. CASE Claim(j)
    <3>1. CASE active
      BY <1>0, <2>1, <3>1, OverFacts, SameOwner DEF Claim, At, Owning, Section
    <3>2. CASE ~active
      BY <1>0, <2>1, <3>2, GoesFacts, OwnerComes DEF Claim, Owning, Section, Places
    <3> QED  BY <3>1, <3>2
  <2>2. CASE Queue(j)
    BY <1>0, <2>2, GoesFacts, SameOwner DEF Queue, At, memory, Owning, Section, Places
  <2>3. CASE StartThread(j)
    <3>1. CASE Becomes(j, job[j].op, "waiting", epoch + 1, job[j].ok) /\ UNCHANGED active
      BY <1>0, <2>3, <3>1, SameOwner DEF StartThread, At, Owning, Section
    <3>2. CASE Becomes(j, job[j].op, "ended", 0, FALSE) /\ active' = FALSE
      BY <2>3, <3>2, OwnerLeaves DEF StartThread, At, Owning, Section
    <3> QED  BY <1>0, <2>3, <3>1, <3>2, StartThreadFacts
  <2>4. CASE EnterLock(j)
    <3>1. PICK at \in Section, ok \in BOOLEAN : Becomes(j, job[j].op, at, job[j].epoch, ok)
      BY <1>0, <2>4, GoesFacts, EndsFacts, Fields DEF EnterLock, Section, Places
    <3>2. job[j].at = "waiting" /\ lock = NoJob /\ lock' = j /\ active' = active
      BY <2>4 DEF EnterLock, At
    <3>3. \A i \in Jobs : job[i].at \notin Section
      BY <3>2 DEF OwnersLive
    <3>4. \A i \in Jobs : /\ job'[i].at \in Section <=> i = j
                          /\ job'[i].at \in Owning <=> job[i].at \in Owning
      BY <3>1, <3>2, <3>3 DEF Becomes, Owning
    <3>5. j # NoJob
      BY LifecycleAssumption DEF Jobs, NoJob
    <3> QED  BY <3>2, <3>4, <3>5 DEF OwnersLive
  <2>5. CASE SetStatus(j)
    BY <1>0, <2>5, GoesFacts, SameOwner DEF SetStatus, At, memory, Owning, Section, Places
  <2>6. CASE Lease(j)
    BY <1>0, <2>6, GoesFacts, EndsFacts, SameOwner DEF Lease, At, memory, Owning, Section, Places
  <2>7. CASE StopContainer(j)
    BY <1>0, <2>7, GoesFacts, EndsFacts, SameOwner DEF StopContainer, At, memory, Owning, Section,
       Places
  <2>8. CASE CheckEpoch(j)
    BY <1>0, <2>8, GoesFacts, EndsFacts, SameOwner DEF CheckEpoch, At, memory, Owning, Section,
       Places
  <2>9. CASE Boot(j)
    BY <1>0, <2>9, BootFacts, SameOwner DEF Boot, At, memory, Owning, Section, Places
  <2>10. CASE Verify(j)
    BY <1>0, <2>10, GoesFacts, EndsFacts, SameOwner DEF Verify, _try_start_auth_setup_recovery, At,
       memory, Owning, Section, Places
  <2>11. CASE Commit(j)
    BY <1>0, <2>11, EndsFacts, SameOwner DEF Commit, At, memory, Owning, Section, Places
  <2>12. CASE ReleaseLock(j)
    <3>1. Becomes(j, job[j].op, "finish", job[j].epoch, job[j].ok)
      BY <1>0, <2>12, GoesFacts DEF ReleaseLock, Places
    <3>2. job[j].at = "release" /\ lock' = NoJob /\ active' = active
      BY <2>12 DEF ReleaseLock, At
    <3>3. \A i \in Jobs : job[i].at \in Section => i = j
      BY <3>2 DEF OwnersLive, Owning, Section
    <3>4. \A i \in Jobs : /\ job'[i].at \notin Section
                          /\ job'[i].at \in Owning <=> job[i].at \in Owning
      BY <3>1, <3>2, <3>3 DEF Becomes, Owning, Section
    <3> QED  BY <3>2, <3>4 DEF OwnersLive
  <2>13. CASE Finish(j)
    BY <1>0, <2>13, GoesFacts, SameOwner DEF Finish, At, memory, Owning, Section, Places
  <2>14. CASE _mark_job_done(j)
    BY <1>0, <2>14, OverFacts, OwnerLeaves DEF _mark_job_done, At, Owning, Section
  <2> QED  BY <1>3, <2>1, <2>2, <2>3, <2>4, <2>5, <2>6, <2>7, <2>8, <2>9, <2>10, <2>11, <2>12,
              <2>13, <2>14 DEF Worker
<1>4. ASSUME NEW j \in Jobs, Killer(j) PROVE OwnersLive'
  <2>1. CASE KillAdvance(j)
    BY <1>0, <2>1, GoesFacts, SameOwner DEF KillAdvance, At, Owning, Section, Places
  <2>2. CASE KillRemove(j)
    BY <1>0, <2>2, GoesFacts, OverFacts, SameOwner DEF KillRemove, At, memory, Owning, Section,
       Places
  <2>3. CASE KillStatus(j)
    BY <1>0, <2>3, GoesFacts, SameOwner DEF KillStatus, At, memory, Owning, Section, Places
  <2>4. CASE KillFinish(j)
    BY <1>0, <2>4, OverFacts, SameOwner DEF KillFinish, At, memory, Owning, Section
  <2> QED  BY <1>4, <2>1, <2>2, <2>3, <2>4 DEF Killer
<1>5. CASE PanelRestarts
  <2>1. \A j \in Jobs : job'[j].at \in {"new", "ended"}
    BY <1>5 DEF PanelRestarts, InFlight, Gone
  <2> QED  BY <1>5, <2>1 DEF PanelRestarts, OwnersLive, Owning, Section
<1>6. CASE PollRead \/ PollWrite \/ UNCHANGED vars
  BY <1>6 DEF PollRead, PollWrite, vars, memory, OwnersLive, At
<1>7. ASSUME NEW j \in Jobs, NEW i \in Jobs, restart_callback(j, i) PROVE OwnersLive'
  BY <1>0, <1>7, CallbackFacts, SameOwner DEF restart_callback, At, memory, Owning, Section
<1>8. CASE Beside
  BY <1>8, BesideFacts DEF memory, OwnersLive
<1> QED  BY <1>1, <1>2, <1>3, <1>4, <1>5, <1>6, <1>7, <1>8 DEF Next, Login, Beside

-----------------------------------------------------------------------------
(* Where operations can be, and when they have succeeded.                  *)

LEMMA StillFits ==
    ASSUME TypeOK, PlacesFit, NEW j \in Jobs, NEW op, NEW at, NEW number, NEW ok,
           Becomes(j, op, at, number, ok), OpFits(op, at), number <= epoch',
           at \notin Took => number = 0,
           epoch' \in Nat, epoch <= epoch',
           \A i \in Jobs : i # j => task'[i] = task[i],
           task'[j] = "succeeded" => at \in {"free", "ended"}
    PROVE  PlacesFit'
<1> SUFFICES ASSUME NEW i \in Jobs
             PROVE  /\ OpFits(job'[i].op, job'[i].at)
                    /\ job'[i].epoch <= epoch' /\ (job'[i].at \notin Took => job'[i].epoch = 0)
                    /\ task'[i] = "succeeded" => job'[i].at \in {"free", "ended"}
  BY DEF PlacesFit, OpFits
<1>1. CASE i = j
  BY <1>1 DEF Becomes
<1>2. CASE i # j
  <2>1. job'[i] = job[i] /\ task'[i] = task[i]
    BY <1>2 DEF Becomes
  <2>2. job[i].epoch \in Nat /\ epoch \in Nat
    BY Fields DEF TypeOK
  <2> QED  BY <2>1, <2>2 DEF PlacesFit
<1> QED  BY <1>1, <1>2

\* The same for a step of a worker or a kill that is not the end of a task.
LEMMA StillFitsUnfinished ==
    ASSUME TypeOK, PlacesFit, NEW j \in Jobs, NEW at, NEW ok, job[j].at \notin {"free", "ended"},
           Becomes(j, job[j].op, at, job[j].epoch, ok), OpFits(job[j].op, at),
           at \in Took <=> job[j].at \in Took, UNCHANGED <<epoch, task>>
    PROVE  PlacesFit'
<1>1. task[j] # "succeeded"
  BY DEF PlacesFit
<1>2. epoch \in Nat /\ epoch <= epoch /\ epoch' \in Nat /\ epoch <= epoch'
  BY DEF TypeOK
<1>3. job[j].epoch <= epoch' /\ (at \notin Took => job[j].epoch = 0)
  BY DEF PlacesFit
<1> QED  BY <1>1, <1>2, <1>3, StillFits

\* The end of an operation.
LEMMA EndedFits ==
    ASSUME TypeOK, PlacesFit, NEW j \in Jobs, Becomes(j, job[j].op, "ended", 0, FALSE),
           OpFits(job[j].op, "ended"), epoch' \in {epoch, epoch + 1},
           \A i \in Jobs : i # j => task'[i] = task[i]
    PROVE  PlacesFit'
<1>1. epoch' \in Nat /\ 0 <= epoch' /\ epoch <= epoch'
  BY DEF TypeOK
<1> QED  BY <1>1, StillFits

\* What a worker does between waiting for the lock and giving it back.
Working(j) ==
    \/ EnterLock(j) \/ SetStatus(j) \/ Lease(j) \/ StopContainer(j) \/ CheckEpoch(j)
    \/ Boot(j) \/ Verify(j) \/ Commit(j) \/ ReleaseLock(j)

LEMMA WorkingMoves ==
    ASSUME job \in [Jobs -> JobRecords], NEW j \in Jobs, OpFits(job[j].op, job[j].at), Working(j)
    PROVE  /\ job[j].at \in Took \ {"finish", "free"} /\ UNCHANGED <<epoch, task>>
           /\ \E at \in Took, ok \in BOOLEAN :
                  Becomes(j, job[j].op, at, job[j].epoch, ok) /\ OpFits(job[j].op, at)
<1> USE DEF At, memory
<1>1. CASE EnterLock(j)
  <2>1. PICK at \in {"status", "release"}, ok \in BOOLEAN :
           Becomes(j, job[j].op, at, job[j].epoch, ok) /\ OpFits(job[j].op, at)
    BY <1>1, GoesFacts, EndsFacts, Fields DEF EnterLock, Places, OpFits, Owning, Section, Took,
       KillPlaces
  <2>2. job[j].at \in Took \ {"finish", "free"} /\ at \in Took /\ UNCHANGED <<epoch, task>>
    BY <1>1 DEF EnterLock, Took
  <2> QED  BY <2>1, <2>2
<1>2. CASE SetStatus(j)
  <2>1. PICK at \in {"lease"}, ok \in BOOLEAN :
           Becomes(j, job[j].op, at, job[j].epoch, ok) /\ OpFits(job[j].op, at)
    BY <1>2, GoesFacts, Fields DEF SetStatus, Places, OpFits, Owning, Section, Took, KillPlaces
  <2>2. job[j].at \in Took \ {"finish", "free"} /\ at \in Took /\ UNCHANGED <<epoch, task>>
    BY <1>2 DEF SetStatus, Took
  <2> QED  BY <2>1, <2>2
<1>3. CASE Lease(j)
  <2>1. PICK at \in {"check", "stop", "release"}, ok \in BOOLEAN :
           Becomes(j, job[j].op, at, job[j].epoch, ok) /\ OpFits(job[j].op, at)
    BY <1>3, GoesFacts, EndsFacts, Fields DEF Lease, Places, OpFits, Owning, Section, Took,
       KillPlaces
  <2>2. job[j].at \in Took \ {"finish", "free"} /\ at \in Took /\ UNCHANGED <<epoch, task>>
    BY <1>3 DEF Lease, Took
  <2> QED  BY <2>1, <2>2
<1>4. CASE StopContainer(j)
  <2>1. PICK at \in {"commit", "check", "release"}, ok \in BOOLEAN :
           Becomes(j, job[j].op, at, job[j].epoch, ok) /\ OpFits(job[j].op, at)
    BY <1>4, GoesFacts, EndsFacts, Fields DEF StopContainer, Places, OpFits, Owning, Section, Took,
       KillPlaces
  <2>2. job[j].at \in Took \ {"finish", "free"} /\ at \in Took /\ UNCHANGED <<epoch, task>>
    BY <1>4 DEF StopContainer, Took
  <2> QED  BY <2>1, <2>2
<1>5. CASE CheckEpoch(j)
  <2>1. PICK at \in {"boot", "release"}, ok \in BOOLEAN :
           Becomes(j, job[j].op, at, job[j].epoch, ok) /\ OpFits(job[j].op, at)
    BY <1>5, GoesFacts, EndsFacts, Fields DEF CheckEpoch, Places, OpFits, Owning, Section, Took,
       KillPlaces
  <2>2. job[j].at \in Took \ {"finish", "free"} /\ at \in Took /\ UNCHANGED <<epoch, task>>
    BY <1>5 DEF CheckEpoch, Took
  <2> QED  BY <2>1, <2>2
<1>6. CASE Boot(j)
  <2>1. PICK at \in {"verify", "release"}, ok \in BOOLEAN :
           Becomes(j, job[j].op, at, job[j].epoch, ok) /\ OpFits(job[j].op, at)
    BY <1>6, BootFacts, Fields DEF Boot, Places, OpFits, Owning, Section, Took, KillPlaces
  <2>2. job[j].at \in Took \ {"finish", "free"} /\ at \in Took /\ UNCHANGED <<epoch, task>>
    BY <1>6 DEF Boot, Took
  <2> QED  BY <2>1, <2>2
<1>7. CASE Verify(j)
  <2>1. PICK at \in {"commit", "release"}, ok \in BOOLEAN :
           Becomes(j, job[j].op, at, job[j].epoch, ok) /\ OpFits(job[j].op, at)
    BY <1>7, GoesFacts, EndsFacts, Fields DEF Verify, _try_start_auth_setup_recovery, Places,
       OpFits, Owning, Section, Took, KillPlaces
  <2>2. job[j].at \in Took \ {"finish", "free"} /\ at \in Took /\ UNCHANGED <<epoch, task>>
    BY <1>7 DEF Verify, Took
  <2> QED  BY <2>1, <2>2
<1>8. CASE Commit(j)
  <2>1. PICK at \in {"release"}, ok \in BOOLEAN :
           Becomes(j, job[j].op, at, job[j].epoch, ok) /\ OpFits(job[j].op, at)
    BY <1>8, EndsFacts, Fields DEF Commit, Places, OpFits, Owning, Section, Took, KillPlaces
  <2>2. job[j].at \in Took \ {"finish", "free"} /\ at \in Took /\ UNCHANGED <<epoch, task>>
    BY <1>8 DEF Commit, Took
  <2> QED  BY <2>1, <2>2
<1>9. CASE ReleaseLock(j)
  <2>1. PICK at \in {"finish"}, ok \in BOOLEAN :
           Becomes(j, job[j].op, at, job[j].epoch, ok) /\ OpFits(job[j].op, at)
    BY <1>9, GoesFacts, Fields DEF ReleaseLock, Places, OpFits, Owning, Section, Took, KillPlaces
  <2>2. job[j].at \in Took \ {"finish", "free"} /\ at \in Took /\ UNCHANGED <<epoch, task>>
    BY <1>9 DEF ReleaseLock, Took
  <2> QED  BY <2>1, <2>2
<1> QED  BY <1>1, <1>2, <1>3, <1>4, <1>5, <1>6, <1>7, <1>8, <1>9 DEF Working

LEMMA PlacesStep == TypeOK /\ PlacesFit /\ [Next]_vars => PlacesFit'
<1> SUFFICES ASSUME TypeOK, PlacesFit, [Next]_vars PROVE PlacesFit'
  OBVIOUS
<1>0. /\ job \in [Jobs -> JobRecords] /\ epoch \in Nat /\ task \in [Jobs -> TaskStates]
      /\ \A j \in Jobs : OpFits(job[j].op, job[j].at)
  BY DEF TypeOK, PlacesFit
<1> USE <1>0 DEF At, memory
<1>1. ASSUME NEW j \in Jobs, NEW op \in Operations, Request(j, op) PROVE PlacesFit'
  <2>1. OpFits(op, IF op = "kill" THEN "kill" ELSE "asked")
    BY DEF OpFits, Operations, Owning, Section, KillPlaces
  <2>2. epoch' = epoch /\ task'[j] = "running" /\ \A i \in Jobs : i # j => task'[i] = task[i]
    BY <1>1 DEF Request
  <2>3. job[j].epoch <= epoch /\ job[j].epoch = 0
    BY <1>1 DEF Request, PlacesFit, Took
  <2> QED  BY <1>1, <2>1, <2>2, <2>3, RequestFacts, StillFits
<1>2. ASSUME NEW j \in Jobs, AutoRestart(j) PROVE PlacesFit'
  <2>1. OpFits("auto", "waiting")
    BY DEF OpFits, Took
  <2>2. epoch' = epoch /\ task' = task /\ job[j].at = "new"
    BY <1>2 DEF AutoRestart
  <2>3. task[j] # "succeeded" /\ job[j].epoch <= epoch
    BY <2>2 DEF PlacesFit
  <2> QED  BY <1>2, <2>1, <2>2, <2>3, AutoRestartFacts, StillFits DEF Took
<1>3. ASSUME NEW j \in Jobs, Worker(j) PROVE PlacesFit'
  <2>1. CASE Claim(j)
    <3>0. job[j].at = "asked" /\ epoch' = epoch
      BY <2>1 DEF Claim
    <3>1. CASE active
      <4>1. Becomes(j, job[j].op, "ended", 0, FALSE) /\ Finished(j, FALSE)
        BY <2>1, <3>1, OverFacts DEF Claim
      <4>2. OpFits(job[j].op, "ended")
        BY <3>0 DEF OpFits, KillPlaces
      <4> QED  BY <3>0, <4>1, <4>2, FinishedFacts, EndedFits
    <3>2. CASE ~active
      <4>1. Becomes(j, job[j].op, "queue", job[j].epoch, job[j].ok) /\ UNCHANGED task
        BY <2>1, <3>2, GoesFacts DEF Claim, Places
      <4>2. OpFits(job[j].op, "queue")
        BY <3>0 DEF OpFits, KillPlaces, Owning, Section, Took
      <4> QED  BY <3>0, <4>1, <4>2, StillFitsUnfinished DEF Took
    <3> QED  BY <3>1, <3>2
  <2>2. CASE Queue(j)
    <3>1. Becomes(j, job[j].op, "thread", job[j].epoch, job[j].ok)
      BY <2>2, GoesFacts DEF Queue, Places
    <3>2. OpFits(job[j].op, "thread")
      BY <2>2 DEF Queue, OpFits, KillPlaces, Owning, Section, Took
    <3> QED  BY <2>2, <3>1, <3>2, StillFitsUnfinished DEF Queue, Took
  <2>3. CASE StartThread(j)
    <3>0. job[j].at = "thread" /\ epoch' = epoch + 1 /\ epoch' \in Nat /\ epoch <= epoch'
      BY <2>3 DEF StartThread, _advance_operation_epoch
    <3>1. CASE Becomes(j, job[j].op, "waiting", epoch + 1, job[j].ok) /\ UNCHANGED task
      <4>1. OpFits(job[j].op, "waiting")
        BY <3>0 DEF OpFits, KillPlaces, Owning, Section, Took
      <4>2. task[j] # "succeeded" /\ "waiting" \in Took /\ epoch + 1 <= epoch'
        BY <3>0 DEF PlacesFit, Took
      <4> QED  BY <3>0, <3>1, <4>1, <4>2, StillFits
    <3>2. CASE Becomes(j, job[j].op, "ended", 0, FALSE) /\ Finished(j, FALSE)
      <4>1. OpFits(job[j].op, "ended")
        BY <3>0 DEF OpFits, KillPlaces
      <4> QED  BY <3>0, <3>2, <4>1, FinishedFacts, EndedFits
    <3> QED  BY <2>3, <3>1, <3>2, StartThreadFacts
  <2>4. CASE Working(j)
    <3>1. PICK at \in Took, ok \in BOOLEAN :
             Becomes(j, job[j].op, at, job[j].epoch, ok) /\ OpFits(job[j].op, at)
      BY <2>4, WorkingMoves
    <3>2. job[j].at \in Took \ {"finish", "free"} /\ UNCHANGED <<epoch, task>>
      BY <2>4, WorkingMoves
    <3> QED  BY <3>1, <3>2, StillFitsUnfinished DEF Took
  <2>5. CASE Finish(j)
    <3>1. Becomes(j, job[j].op, "free", job[j].epoch, job[j].ok)
      BY <2>5, GoesFacts DEF Finish, Places
    <3>2. OpFits(job[j].op, "free") /\ job[j].epoch <= epoch
      BY <2>5 DEF Finish, PlacesFit, OpFits, Owning, Section, Took, KillPlaces
    <3>3. epoch' = epoch /\ \A i \in Jobs : i # j => task'[i] = task[i]
      BY <2>5, FinishedFacts, Fields DEF Finish
    <3> QED  BY <3>1, <3>2, <3>3, StillFits DEF Took
  <2>6. CASE _mark_job_done(j)
    <3>1. Becomes(j, job[j].op, "ended", 0, FALSE) /\ UNCHANGED <<epoch, task>>
      BY <2>6, OverFacts DEF _mark_job_done
    <3>2. OpFits(job[j].op, "ended")
      BY <2>6 DEF _mark_job_done, OpFits, KillPlaces
    <3> QED  BY <3>1, <3>2, EndedFits
  <2> QED  BY <1>3, <2>1, <2>2, <2>3, <2>4, <2>5, <2>6 DEF Worker, Working
<1>4. ASSUME NEW j \in Jobs, Killer(j) PROVE PlacesFit'
  <2>1. CASE KillAdvance(j)
    <3>1. Becomes(j, job[j].op, "remove", job[j].epoch, job[j].ok)
      BY <2>1, GoesFacts DEF KillAdvance, Places
    <3>2. job[j].at = "kill" /\ epoch' = epoch + 1 /\ epoch' \in Nat /\ task' = task
      BY <2>1 DEF KillAdvance
    <3>3. OpFits(job[j].op, "remove")
      BY <3>2 DEF OpFits, Owning, Section, Took, KillPlaces
    <3>4. job[j].epoch = 0 /\ task[j] # "succeeded" /\ epoch <= epoch'
      BY <3>2 DEF PlacesFit, Took
    <3>5. job[j].epoch <= epoch'
      BY <3>2, <3>4
    <3> QED  BY <3>1, <3>2, <3>3, <3>4, <3>5, StillFits
  <2>2. CASE KillRemove(j)
    <3>0. job[j].at = "remove" /\ epoch' = epoch
      BY <2>2 DEF KillRemove
    <3>1. CASE Goes(j, "killed") /\ UNCHANGED task
      <4>1. Becomes(j, job[j].op, "killed", job[j].epoch, job[j].ok)
        BY <3>1, GoesFacts DEF Places
      <4>2. OpFits(job[j].op, "killed")
        BY <3>0 DEF OpFits, Owning, Section, Took, KillPlaces
      <4> QED  BY <3>0, <3>1, <4>1, <4>2, StillFitsUnfinished DEF Took
    <3>2. CASE Over(j) /\ Finished(j, FALSE)
      <4>1. OpFits(job[j].op, "ended")
        BY <3>0 DEF OpFits, KillPlaces
      <4> QED  BY <3>0, <3>2, <4>1, OverFacts, FinishedFacts, EndedFits
    <3> QED  BY <2>2, <3>1, <3>2 DEF KillRemove
  <2>3. CASE KillStatus(j)
    <3>1. Becomes(j, job[j].op, "told", job[j].epoch, job[j].ok)
      BY <2>3, GoesFacts DEF KillStatus, Places
    <3>2. OpFits(job[j].op, "told")
      BY <2>3 DEF KillStatus, OpFits, Owning, Section, Took, KillPlaces
    <3> QED  BY <2>3, <3>1, <3>2, StillFitsUnfinished DEF KillStatus, Took
  <2>4. CASE KillFinish(j)
    <3>1. Becomes(j, job[j].op, "ended", 0, FALSE) /\ Finished(j, TRUE) /\ epoch' = epoch
      BY <2>4, OverFacts DEF KillFinish
    <3>2. OpFits(job[j].op, "ended")
      BY <2>4 DEF KillFinish, OpFits, KillPlaces
    <3> QED  BY <3>1, <3>2, FinishedFacts, EndedFits
  <2> QED  BY <1>4, <2>1, <2>2, <2>3, <2>4 DEF Killer
<1>5. CASE PanelRestarts
  <2> SUFFICES ASSUME NEW j \in Jobs
               PROVE  /\ OpFits(job'[j].op, job'[j].at)
                      /\ job'[j].epoch <= epoch' /\ (job'[j].at \notin Took => job'[j].epoch = 0)
                      /\ task'[j] = "succeeded" => job'[j].at \in {"free", "ended"}
    BY DEF PlacesFit, OpFits
  <2>1. epoch' = 0 /\ (task'[j] = "succeeded" => task[j] = "succeeded")
    BY <1>5 DEF PanelRestarts, Recovered
  <2>2. CASE InFlight(j)
    <3>1. job'[j] = Gone(j)
      BY <1>5, <2>2 DEF PanelRestarts
    <3> QED  BY <2>1, <2>2, <3>1 DEF Gone, InFlight, OpFits, KillPlaces
  <2>3. CASE ~InFlight(j)
    <3>1. job'[j] = job[j]
      BY <1>5, <2>3 DEF PanelRestarts
    <3> QED  BY <2>1, <2>3, <3>1 DEF InFlight, PlacesFit, Took
  <2> QED  BY <2>2, <2>3
<1>6. CASE PollRead \/ PollWrite \/ UNCHANGED vars
  BY <1>6 DEF PollRead, PollWrite, vars, PlacesFit, OpFits
<1>7. ASSUME NEW j \in Jobs, NEW i \in Jobs, restart_callback(j, i) PROVE PlacesFit'
  <2>1. OpFits("restart", "asked") /\ "asked" \notin Took
    BY DEF OpFits, Operations, Owning, Section, KillPlaces, Took
  <2>2. epoch' = epoch /\ task' = task /\ job[i].at = "new"
    BY <1>7 DEF restart_callback
  <2>3. job[i].epoch <= epoch /\ job[i].epoch = 0 /\ task[i] # "succeeded"
    BY <2>2 DEF PlacesFit, Took
  <2> QED  BY <1>7, <2>1, <2>2, <2>3, CallbackFacts, StillFits
<1>8. CASE Beside
  BY <1>8, BesideFacts DEF PlacesFit
<1> QED  BY <1>1, <1>2, <1>3, <1>4, <1>5, <1>6, <1>7, <1>8 DEF Next, Login, Beside

-----------------------------------------------------------------------------
(* The last operation.                                                     *)

Early == {"asked", "queue", "thread", "kill"}

LEMMA StillLast ==
    ASSUME TypeOK, LastTookIt, NEW j \in Jobs, NEW at, NEW number, NEW ok,
           Becomes(j, job[j].op, at, number, ok),
           at \in Took => job[j].at \in Took /\ number = job[j].epoch,
           at \in Early => job[j].at \in Early, UNCHANGED <<epoch, last>>
    PROVE  LastTookIt'
<1>1. CASE last # NoJob
  <2>1. last \in Jobs
    BY <1>1 DEF TypeOK
  <2>2. /\ \A i \in Jobs : job'[i].op = job[i].op
        /\ \A i \in Jobs : job'[i].at \in Took => job[i].at \in Took /\ job'[i].epoch = job[i].epoch
        /\ \A i \in Jobs : job'[i].at \in Early => job[i].at \in Early
    BY DEF Becomes
  <2> QED  BY <1>1, <2>1, <2>2 DEF LastTookIt, Early
<1> QED  BY <1>1 DEF LastTookIt

LEMMA LastStep == TypeOK /\ OwnersLive /\ PlacesFit /\ LastTookIt /\ [Next]_vars => LastTookIt'
<1> SUFFICES ASSUME TypeOK, OwnersLive, PlacesFit, LastTookIt, [Next]_vars PROVE LastTookIt'
  OBVIOUS
<1>0. /\ job \in [Jobs -> JobRecords] /\ epoch \in Nat /\ last \in Jobs \cup {NoJob}
      /\ \A j \in Jobs : OpFits(job[j].op, job[j].at)
  BY DEF TypeOK, PlacesFit
<1> USE <1>0 DEF At, memory
<1>1. ASSUME NEW j \in Jobs, NEW op \in Operations, Request(j, op) PROVE LastTookIt'
  <2>1. CASE last # NoJob
    <3>1. job[j].op = "none"
      BY <1>1 DEF Request, OpFits
    <3>2. last \in Jobs /\ last # j
      BY <2>1, <3>1 DEF LastTookIt
    <3>3. \A i \in Jobs : i # j => job'[i] = job[i]
      BY <1>1, RequestFacts DEF Becomes
    <3>4. job'[j].at \notin Took
      BY <1>1, RequestFacts DEF Becomes, Took
    <3> QED  BY <1>1, <2>1, <3>2, <3>3, <3>4 DEF LastTookIt, Request
  <2> QED  BY <1>1, <2>1 DEF Request, LastTookIt
<1>2. ASSUME NEW j \in Jobs, AutoRestart(j) PROVE LastTookIt'
  BY <1>2 DEF AutoRestart, LastTookIt
<1>3. ASSUME NEW j \in Jobs, Worker(j) PROVE LastTookIt'
  <2>1. CASE Claim(j)
    <3>1. job[j].at \in Early /\ UNCHANGED <<epoch, last>>
      BY <2>1 DEF Claim, Early
    <3>2. \/ Becomes(j, job[j].op, "queue", job[j].epoch, job[j].ok)
          \/ Becomes(j, job[j].op, "ended", 0, FALSE)
      BY <2>1, GoesFacts, OverFacts DEF Claim, Places
    <3>3. "queue" \notin Took /\ "ended" \notin Took
      BY DEF Took
    <3> QED  BY <3>1, <3>2, <3>3, StillLast
  <2>2. CASE Queue(j)
    BY <2>2, GoesFacts, StillLast DEF Queue, Places, Early, Took
  <2>3. CASE StartThread(j)
    <3>0. job[j].at = "thread" /\ epoch' = epoch + 1 /\ last' = j
      BY <2>3 DEF StartThread, _advance_operation_epoch
    <3>1. job[j].op \in {"start", "stop", "restart"}
      BY <3>0, Fields DEF OpFits, Operations, KillPlaces, Took
    <3>2. PICK at \in {"waiting", "ended"}, number \in {0, epoch + 1} :
             /\ Becomes(j, job[j].op, at, number, job'[j].ok)
             /\ at = "waiting" => number = epoch + 1
      BY <2>3, StartThreadFacts DEF Becomes
    <3>3. \A i \in Jobs : i # j => job'[i].at \notin Took
      BY <3>0, <3>2 DEF Becomes, OwnersLive, Owning, Section, Took
    <3> QED  BY <3>0, <3>1, <3>2, <3>3 DEF LastTookIt, Becomes, Took
  <2>4. CASE Working(j)
    <3>1. PICK at \in Took, ok \in BOOLEAN : Becomes(j, job[j].op, at, job[j].epoch, ok)
      BY <2>4, WorkingMoves
    <3>2. job[j].at \in Took /\ at \notin Early /\ epoch' = epoch
      BY <2>4, WorkingMoves DEF Took, Early
    <3>3. last' \in {last, NoJob}
      BY <2>4 DEF Working, EnterLock, SetStatus, Lease, StopContainer, CheckEpoch, Boot,
                  Verify, Commit, ReleaseLock
    <3> QED  BY <3>1, <3>2, <3>3, StillLast DEF LastTookIt
  <2>5. CASE Finish(j)
    BY <2>5, GoesFacts, StillLast DEF Finish, Places, Early, Took
  <2>6. CASE _mark_job_done(j)
    <3>1. Becomes(j, job[j].op, "ended", 0, FALSE) /\ UNCHANGED <<epoch, last>>
      BY <2>6, OverFacts DEF _mark_job_done
    <3> QED  BY <3>1, StillLast DEF Early, Took
  <2> QED  BY <1>3, <2>1, <2>2, <2>3, <2>4, <2>5, <2>6 DEF Worker, Working
<1>4. ASSUME NEW j \in Jobs, Killer(j) PROVE LastTookIt'
  <2>1. CASE KillAdvance(j)
    <3>1. CASE AutoInFlight
      BY <2>1, <3>1 DEF KillAdvance, LastTookIt
    <3>2. CASE ~AutoInFlight
      <4>1. job[j].at = "kill" /\ last' = j /\ epoch' = epoch + 1
        BY <2>1, <3>2 DEF KillAdvance
      <4>2. job[j].op = "kill"
        BY <4>1, Fields DEF OpFits, Operations, Owning, Section, Took
      <4>3. Becomes(j, "kill", "remove", job[j].epoch, job[j].ok)
        BY <2>1, <4>2, GoesFacts DEF KillAdvance, Places
      <4>4. ASSUME NEW i \in Jobs, job'[i].at \in Took
            PROVE  i # j /\ job'[i] = job[i] /\ job[i].op # "auto" /\ job[i].epoch # epoch'
        <5>1. i # j /\ job'[i] = job[i]
          BY <4>3, <4>4 DEF Becomes, Took
        <5>2. job[i].op # "auto"
          BY <3>2, <4>4, <5>1 DEF AutoInFlight, InFlight, Took
        <5>3. job[i].epoch \in Nat /\ job[i].epoch <= epoch
          BY Fields DEF PlacesFit
        <5> QED  BY <4>1, <5>1, <5>2, <5>3
      <4> QED  BY <4>1, <4>3, <4>4 DEF LastTookIt, Becomes
    <3> QED  BY <3>1, <3>2
  <2>2. CASE KillRemove(j) \/ KillStatus(j) \/ KillFinish(j)
    <3>1. UNCHANGED <<epoch, last>>
      BY <2>2 DEF KillRemove, KillStatus, KillFinish
    <3>2. \/ Becomes(j, job[j].op, "killed", job[j].epoch, job[j].ok)
          \/ Becomes(j, job[j].op, "told", job[j].epoch, job[j].ok)
          \/ Becomes(j, job[j].op, "ended", 0, FALSE)
      BY <2>2, GoesFacts, OverFacts DEF KillRemove, KillStatus, KillFinish, Places
    <3>3. "killed" \notin Took \cup Early /\ "told" \notin Took \cup Early /\ "ended" \notin Took \cup Early
      BY DEF Took, Early
    <3> QED  BY <3>1, <3>2, <3>3, StillLast
  <2> QED  BY <1>4, <2>1, <2>2 DEF Killer
<1>5. CASE PanelRestarts
  BY <1>5 DEF PanelRestarts, LastTookIt
<1>6. CASE PollRead \/ PollWrite \/ UNCHANGED vars
  BY <1>6 DEF PollRead, PollWrite, vars, LastTookIt
<1>7. ASSUME NEW j \in Jobs, NEW i \in Jobs, restart_callback(j, i) PROVE LastTookIt'
  <2>1. job[i].op = "none" /\ epoch' = epoch /\ last' = last
    BY <1>7 DEF restart_callback, OpFits
  <2>2. \A k \in Jobs : k # i => job'[k] = job[k]
    BY <1>7, CallbackFacts DEF Becomes
  <2>3. job'[i].at \notin Took
    BY <1>7, CallbackFacts DEF Becomes, Took
  <2> QED  BY <2>1, <2>2, <2>3 DEF LastTookIt
<1>8. CASE Beside
  BY <1>8, BesideFacts DEF LastTookIt
<1> QED  BY <1>1, <1>2, <1>3, <1>4, <1>5, <1>6, <1>7, <1>8 DEF Next, Login, Beside

-----------------------------------------------------------------------------
(* A server that was stopped or killed is down.                            *)

\* A step that leaves the container alone and takes its operation past no more than it was.
LEMMA StillDown ==
    ASSUME TypeOK, Down, NEW j \in Jobs, NEW at, NEW number, NEW ok,
           Becomes(j, job[j].op, at, number, ok), job[j].at # "verify",
           UNCHANGED <<setup, last, container, epoch>>, \A i \in Jobs : i # j => task'[i] = task[i],
           job[j].op = "stop" /\ ~StopPast(j) =>
               /\ at # "commit" /\ (at \in {"release", "finish"} => ~ok)
               /\ task'[j] # "succeeded",
           job[j].op = "kill" /\ ~KillPast(j) =>
               at \notin {"killed", "told"} /\ task'[j] # "succeeded"
    PROVE  Down'
<1> SUFFICES ASSUME last # NoJob
             PROVE  /\ job'[last].op = "stop" /\ StopPast(last)' =>
                         container = "stopped" \/ LoginIsUp
                    /\ job'[last].op = "kill" /\ KillPast(last)' =>
                         container = "stopped" \/ AboutToBeTakenDown' \/ LoginIsUp
  BY DEF Down, LoginIsUp
<1>1. last \in Jobs
  BY DEF TypeOK
<1>2. job'[last].op = job[last].op
  BY <1>1 DEF Becomes
<1>3. job[last].op = "stop" /\ StopPast(last)' => StopPast(last)
  BY <1>1 DEF StopPast, Becomes
<1>4. job[last].op = "kill" /\ KillPast(last)' => KillPast(last)
  BY <1>1 DEF KillPast, Becomes
<1>5. AboutToBeTakenDown => AboutToBeTakenDown'
  BY DEF AboutToBeTakenDown, At, Becomes
<1> QED  BY <1>2, <1>3, <1>4, <1>5 DEF Down

LEMMA StoppedIsDown == ASSUME container' = "stopped" PROVE Down'
BY DEF Down

LEMMA NoLastIsDown == ASSUME last' = NoJob PROVE Down'
BY DEF Down

\* The operation that takes the epoch is past nothing yet.
LEMMA NewLastIsDown ==
    ASSUME NEW j \in Jobs, NEW op, NEW at, NEW number, NEW ok, Becomes(j, op, at, number, ok),
           last' = j, at \in {"waiting", "ended", "remove"}, task'[j] # "succeeded"
    PROVE  Down'
BY DEF Down, Becomes, StopPast, KillPast

LEMMA DownStep == IInv /\ [Next]_vars => Down'
<1> SUFFICES ASSUME TypeOK, OwnersLive, PlacesFit, LastTookIt, Down, [Next]_vars PROVE Down'
  BY DEF IInv
<1>0. /\ job \in [Jobs -> JobRecords] /\ epoch \in Nat /\ last \in Jobs \cup {NoJob}
      /\ task \in [Jobs -> TaskStates] /\ \A j \in Jobs : OpFits(job[j].op, job[j].at)
  BY DEF TypeOK, PlacesFit
<1> USE <1>0 DEF At, memory, login
<1>1. ASSUME NEW j \in Jobs, NEW op \in Operations, Request(j, op) PROVE Down'
  <2>1. job[j].op = "none" /\ job[j].at = "new" /\ UNCHANGED <<setup, last, container, epoch>>
    BY <1>1 DEF Request, OpFits
  <2>2. CASE last # NoJob
    <3>1. last # j /\ last \in Jobs
      BY <2>1, <2>2 DEF LastTookIt
    <3>2. \A i \in Jobs : i # j => job'[i] = job[i] /\ task'[i] = task[i]
      BY <1>1, RequestFacts DEF Becomes, Request
    <3>3. AboutToBeTakenDown => AboutToBeTakenDown'
      BY <2>1, <3>2 DEF AboutToBeTakenDown
    <3> QED  BY <2>1, <2>2, <3>1, <3>2, <3>3 DEF Down, StopPast, KillPast, LoginIsUp
  <2> QED  BY <2>1, <2>2, NoLastIsDown
<1>2. ASSUME NEW j \in Jobs, AutoRestart(j) PROVE Down'
  BY <1>2, NoLastIsDown DEF AutoRestart
<1>3. ASSUME NEW j \in Jobs, Worker(j) PROVE Down'
  <2>0. job[j].op # "kill"
    BY <1>3 DEF OpFits, KillPlaces, Worker, Claim, Queue, StartThread, EnterLock, SetStatus, Lease,
       StopContainer, CheckEpoch, Boot, Verify, Commit, ReleaseLock, Finish, _mark_job_done
  <2>1. CASE Claim(j)
    <3>1. /\ job[j].at = "asked" /\ UNCHANGED <<setup, last, container, epoch>> /\ task[j] # "succeeded"
          /\ task' = task \/ Finished(j, FALSE)
      BY <2>1 DEF Claim, PlacesFit
    <3>2. task'[j] # "succeeded" /\ \A i \in Jobs : i # j => task'[i] = task[i]
      BY <3>1, FinishedFacts
    <3>3. \/ Becomes(j, job[j].op, "queue", job[j].epoch, job[j].ok)
          \/ Becomes(j, job[j].op, "ended", 0, FALSE)
      BY <2>1, GoesFacts, OverFacts DEF Claim, Places
    <3> QED  BY <2>0, <3>1, <3>2, <3>3, StillDown
  <2>2. CASE Queue(j)
    <3>1. Becomes(j, job[j].op, "thread", job[j].epoch, job[j].ok)
      BY <2>2, GoesFacts DEF Queue, Places
    <3>2. job[j].at = "queue" /\ task'[j] # "succeeded" /\ UNCHANGED <<setup, last, container, epoch, task>>
      BY <2>2 DEF Queue, PlacesFit
    <3> QED  BY <2>0, <3>1, <3>2, StillDown
  <2>3. CASE StartThread(j)
    <3>1. job[j].at = "thread" /\ last' = j /\ task[j] # "succeeded"
      BY <2>3 DEF StartThread, _advance_operation_epoch, PlacesFit
    <3>2. \/ Becomes(j, job[j].op, "waiting", epoch + 1, job[j].ok) /\ UNCHANGED task
          \/ Becomes(j, job[j].op, "ended", 0, FALSE) /\ Finished(j, FALSE)
      BY <2>3, StartThreadFacts
    <3>3. task'[j] # "succeeded"
      BY <3>1, <3>2, FinishedFacts
    <3> QED  BY <3>1, <3>2, <3>3, NewLastIsDown
  <2>4. CASE StopContainer(j) \/ Verify(j)
    <3>1. CASE container' = "stopped"
      BY <3>1, StoppedIsDown
    <3>2. CASE StopContainer(j) /\ container' # "stopped"
      <4>1. job[j].at = "stop" /\ task[j] # "succeeded" /\ UNCHANGED <<setup, last, container, epoch, task>>
        BY <3>2 DEF StopContainer, Undone, PlacesFit
      <4>2. Becomes(j, job[j].op, "release", job[j].epoch, FALSE)
        BY <3>2, EndsFacts DEF StopContainer
      <4> QED  BY <2>0, <4>1, <4>2, StillDown
    <3>3. CASE Verify(j) /\ container' # "stopped" /\ last # NoJob
      <4>1. CASE _operation_is_current(j)
        <5>1. job[j].at = "verify" /\ UNCHANGED last
          BY <3>3, <4>1 DEF Verify
        <5>2. j = last
          BY <3>3, <4>1, <5>1 DEF _operation_is_current, LastTookIt, Took
        <5>3. job[j].op \notin {"stop", "kill"}
          BY <2>0, <5>1 DEF OpFits, Owning, Section
        <5>4. job'[j].op = job[j].op
          BY <2>4, <3>3, WorkingMoves DEF Working, Becomes
        <5> QED  BY <5>1, <5>2, <5>3, <5>4 DEF Down
      <4>2. CASE ~_operation_is_current(j)
        BY <3>3, <4>2, NoLastIsDown DEF Verify
      <4> QED  BY <4>1, <4>2
    <3>4. CASE Verify(j) /\ last = NoJob
      BY <3>4, NoLastIsDown DEF Verify
    <3> QED  BY <2>4, <3>1, <3>2, <3>3, <3>4
  <2>5. CASE Boot(j)
    <3>1. job[j].at = "boot" /\ UNCHANGED <<setup, last, epoch, task>>
      BY <2>5 DEF Boot
    <3>2. PICK at \in Took, ok \in BOOLEAN : Becomes(j, job[j].op, at, job[j].epoch, ok)
      BY <2>5, WorkingMoves DEF Working
    <3>3. CASE container' = container /\ container' # "stopped"
      <4>1. at \in {"verify", "release"}
        BY <2>5, <3>2, BootFacts DEF Becomes
      <4>2. job[j].op # "stop"
        BY <3>1 DEF OpFits, Owning, Section
      <4> QED  BY <2>0, <3>1, <3>2, <3>3, <4>2, StillDown
    <3>4. CASE container' \notin {container, "stopped"}
      <4>1. at = "verify"
        BY <2>5, <3>2, <3>4, BootFacts DEF Becomes
      <4>2. CASE last # NoJob /\ job'[last].op \in {"stop", "kill"}
        <5>1. last \in Jobs /\ job'[last].op = job[last].op
          BY <3>2, <4>2 DEF Becomes
        <5>2. job[last].op = "kill" /\ j # last
          BY <2>0, <3>1, <4>2, <5>1 DEF LastTookIt, Took, OpFits, Owning, Section
        <5>3. job[j].epoch # epoch
          BY <3>1, <4>2, <5>2 DEF LastTookIt, Took
        <5>4. AboutToBeTakenDown'
          BY <3>1, <3>2, <4>1, <5>3 DEF AboutToBeTakenDown, Becomes
        <5> QED  BY <3>1, <5>1, <5>2, <5>4 DEF Down
      <4>3. CASE ~(last # NoJob /\ job'[last].op \in {"stop", "kill"})
        BY <3>1, <4>3 DEF Down
      <4> QED  BY <4>2, <4>3
    <3> QED  BY <3>3, <3>4, StoppedIsDown
  <2>6. CASE EnterLock(j) \/ SetStatus(j) \/ Lease(j) \/ CheckEpoch(j)
    <3>1. PICK at \in {"status", "lease", "check", "stop", "boot", "release"}, ok \in BOOLEAN :
             /\ Becomes(j, job[j].op, at, job[j].epoch, ok)
             /\ at = "release" => ok = FALSE
      BY <2>6, GoesFacts, EndsFacts, Fields DEF EnterLock, SetStatus, Lease, CheckEpoch, Places
    <3>2. /\ job[j].at \in {"waiting", "status", "lease", "check"}
          /\ UNCHANGED <<setup, last, container, epoch, task>>
      BY <2>6 DEF EnterLock, SetStatus, Lease, CheckEpoch
    <3>3. task'[j] # "succeeded"
      BY <3>2 DEF PlacesFit
    <3> QED  BY <2>0, <3>1, <3>2, <3>3, StillDown
  <2>7. CASE Commit(j)
    <3>1. Becomes(j, job[j].op, "release", job[j].epoch, TRUE)
      BY <2>7, EndsFacts DEF Commit
    <3>2. job[j].at = "commit" /\ UNCHANGED <<setup, last, container, epoch, task>>
      BY <2>7 DEF Commit
    <3>3. StopPast(j)
      BY <3>2 DEF StopPast
    <3> QED  BY <2>0, <3>1, <3>2, <3>3, StillDown
  <2>8. CASE ReleaseLock(j)
    <3>1. Becomes(j, job[j].op, "finish", job[j].epoch, job[j].ok)
      BY <2>8, GoesFacts DEF ReleaseLock, Places
    <3>2. job[j].at = "release" /\ UNCHANGED <<setup, last, container, epoch, task>>
      BY <2>8 DEF ReleaseLock
    <3>3. task'[j] = "succeeded" \/ job[j].ok => StopPast(j)
      BY <3>2 DEF StopPast
    <3> QED  BY <2>0, <3>1, <3>2, <3>3, StillDown
  <2>9. CASE Finish(j)
    <3>1. Becomes(j, job[j].op, "free", job[j].epoch, job[j].ok)
      BY <2>9, GoesFacts DEF Finish, Places
    <3>2. job[j].at = "finish" /\ Finished(j, job[j].ok) /\ UNCHANGED <<setup, last, container, epoch>>
      BY <2>9 DEF Finish
    <3>3. task'[j] = "succeeded" => StopPast(j)
      BY <3>2, FinishedFacts, Fields DEF StopPast
    <3>4. \A i \in Jobs : i # j => task'[i] = task[i]
      BY <3>2, FinishedFacts, Fields
    <3> QED  BY <2>0, <3>1, <3>2, <3>3, <3>4, StillDown
  <2>10. CASE _mark_job_done(j)
    <3>1. Becomes(j, job[j].op, "ended", 0, FALSE)
      BY <2>10, OverFacts DEF _mark_job_done
    <3>2. job[j].at = "free" /\ UNCHANGED <<setup, last, container, epoch, task>>
      BY <2>10 DEF _mark_job_done
    <3>3. task'[j] = "succeeded" => StopPast(j)
      BY <3>2 DEF StopPast
    <3> QED  BY <2>0, <3>1, <3>2, <3>3, StillDown
  <2> QED  BY <1>3, <2>1, <2>2, <2>3, <2>4, <2>5, <2>6, <2>7, <2>8, <2>9, <2>10 DEF Worker
<1>4. ASSUME NEW j \in Jobs, Killer(j) PROVE Down'
  <2>1. CASE KillAdvance(j)
    <3>1. Becomes(j, job[j].op, "remove", job[j].epoch, job[j].ok)
      BY <2>1, GoesFacts DEF KillAdvance, Places
    <3>2. task'[j] # "succeeded" /\ last' \in {j, NoJob}
      BY <2>1 DEF KillAdvance, PlacesFit
    <3> QED  BY <3>1, <3>2, NewLastIsDown, NoLastIsDown
  <2>2. CASE KillRemove(j)
    <3>1. CASE container' = "stopped"
      BY <3>1, StoppedIsDown
    <3>2. CASE container' # "stopped"
      <4>1. /\ Over(j) /\ Finished(j, FALSE) /\ container' = container
            /\ UNCHANGED <<setup, last, epoch>>
        BY <2>2, <3>2 DEF KillRemove, Undone
      <4>2. job[j].at = "remove" /\ job[j].op = "kill" /\ task[j] # "succeeded"
        BY <2>2, Fields DEF KillRemove, PlacesFit, OpFits, Operations, Owning, Section, Took
      <4>3. Becomes(j, job[j].op, "ended", 0, FALSE) /\ task'[j] # "succeeded"
            /\ \A i \in Jobs : i # j => task'[i] = task[i]
        BY <4>1, <4>2, OverFacts, FinishedFacts
      <4> QED  BY <4>1, <4>2, <4>3, StillDown
    <3> QED  BY <3>1, <3>2
  <2>3. CASE KillStatus(j)
    <3>1. Becomes(j, job[j].op, "told", job[j].epoch, job[j].ok)
      BY <2>3, GoesFacts DEF KillStatus, Places
    <3>2. job[j].at = "killed" /\ UNCHANGED <<setup, last, container, epoch, task>>
      BY <2>3 DEF KillStatus
    <3>3. KillPast(j) /\ job[j].op # "stop"
      BY <3>2 DEF KillPast, OpFits, Owning, Section, Took
    <3> QED  BY <3>1, <3>2, <3>3, StillDown
  <2>4. CASE KillFinish(j)
    <3>1. Becomes(j, job[j].op, "ended", 0, FALSE)
      BY <2>4, OverFacts DEF KillFinish
    <3>2. job[j].at = "told" /\ UNCHANGED <<setup, last, container, epoch>>
          /\ \A i \in Jobs : i # j => task'[i] = task[i]
      BY <2>4, FinishedFacts DEF KillFinish
    <3>3. KillPast(j) /\ job[j].op # "stop"
      BY <3>2 DEF KillPast, OpFits, Owning, Section, Took
    <3> QED  BY <3>1, <3>2, <3>3, StillDown
  <2> QED  BY <1>4, <2>1, <2>2, <2>3, <2>4 DEF Killer
<1>5. CASE PanelRestarts
  BY <1>5, NoLastIsDown DEF PanelRestarts
<1>6. CASE PollRead \/ PollWrite \/ UNCHANGED vars
  BY <1>6 DEF PollRead, PollWrite, vars, Down, StopPast, KillPast, AboutToBeTakenDown, LoginIsUp
<1>7. ASSUME NEW j \in Jobs, NEW i \in Jobs, restart_callback(j, i) PROVE Down'
  <2>1. /\ job[i].op = "none" /\ job[i].at = "new" /\ setup[j] = "restart"
        /\ UNCHANGED <<last, container, epoch, task>> /\ setup' = [setup EXCEPT ![j] = "none"]
    BY <1>7 DEF restart_callback, Turns, OpFits
  <2>2. \A k \in Jobs : k # i => job'[k] = job[k]
    BY <1>7, CallbackFacts DEF Becomes
  <2>3. CASE last # NoJob
    <3>1. last # i /\ last \in Jobs
      BY <2>1, <2>3 DEF LastTookIt
    <3>2. AboutToBeTakenDown => AboutToBeTakenDown'
      BY <2>1, <2>2 DEF AboutToBeTakenDown
    <3>3. LoginIsUp => LoginIsUp'
      BY <2>1 DEF LoginIsUp, TypeOK, LoginOK
    <3> QED  BY <2>1, <2>2, <2>3, <3>1, <3>2, <3>3 DEF Down, StopPast, KillPast
  <2> QED  BY <2>1, <2>3, NoLastIsDown
<1>8. ASSUME Beside, last' # NoJob, container' # "stopped" PROVE Down'
  <2>1. UNCHANGED <<memory, job, task, last>>
    BY <1>8, BesideFacts
  <2>2. LoginIsUp' \/ (container' = container /\ (LoginIsUp => LoginIsUp'))
    BY <1>8 DEF Beside, SetupMoves, SetupBoots, SetupWaits, SetupStops, CancelSetup, Turns,
                LoginIsUp, TypeOK, LoginOK
  <2> QED  BY <2>1, <2>2 DEF Down, StopPast, KillPast, AboutToBeTakenDown
<1>9. CASE Beside
  BY <1>8, <1>9, StoppedIsDown, NoLastIsDown
<1> QED  BY <1>1, <1>2, <1>3, <1>4, <1>5, <1>6, <1>7, <1>9 DEF Next, Login, Beside

-----------------------------------------------------------------------------
(* The results.                                                            *)

\* The inductive invariant holds in every reachable state.
THEOREM Invariance == Spec => []IInv
<1>1. Init => IInv
  <2> SUFFICES ASSUME Init PROVE IInv
    OBVIOUS
  <2>1. NewJob \in JobRecords
    BY DEF NewJob, JobRecords, Places
  <2>2. TypeOK
    <3>1. status \in Statuses /\ container \in ContainerStates
      BY DEF Init, Statuses, ContainerStates
    <3>2. epoch \in Nat /\ active \in BOOLEAN /\ lock \in Jobs \cup {NoJob}
          /\ last \in Jobs \cup {NoJob}
      BY DEF Init
    <3>3. job \in [Jobs -> JobRecords] /\ task \in [Jobs -> TaskStates]
      BY <2>1 DEF Init, TaskStates
    <3>4. poll \in {NoPoll} /\ faults \in 0..MaxFaults
      BY LifecycleAssumption DEF Init
    <3>5. LoginOK
      BY DEF Init, LoginOK, SetupPlaces
    <3> QED  BY <3>1, <3>2, <3>3, <3>4, <3>5 DEF TypeOK
  <2>3. OwnersLive
    BY DEF Init, OwnersLive, NewJob, Owning, Section
  <2>4. PlacesFit
    BY DEF Init, PlacesFit, OpFits, NewJob, KillPlaces, Took, Owning, Section
  <2>5. LastTookIt /\ Down
    BY DEF Init, LastTookIt, Down
  <2> QED  BY <2>2, <2>3, <2>4, <2>5 DEF IInv
<1>2. IInv /\ [Next]_vars => IInv'
  BY TypeStep, OwnersStep, PlacesStep, LastStep, DownStep DEF IInv
<1> QED  BY <1>1, <1>2, PTL DEF Spec

\* Every variable keeps its type: a status is one of those the panel knows, a task one of
\* its four states, over kills, failed node calls and ends of the panel.
THEOREM TypeCorrect == Spec => []TypeOK
BY Invariance, PTL DEF IInv

\* The job slot and the lock of a server always have exactly one live owner or none
\* (_ACTIVE_JOBS, _LIFECYCLE_LOCKS): no path through the code leaks either.
THEOREM OwnersHold == Spec => []OwnersLive
BY Invariance, PTL DEF IInv

\* A stop or a kill that is last and reports success leaves the server down, or a worker
\* it superseded is at the look at the epoch that takes the container down, or the login
\* thread of a start before it (run_auth_setup_recovery) holds a container up.
THEOREM DownHolds == Spec => []DownMeansDown
<1>1. IInv => DownMeansDown
  <2> SUFFICES ASSUME IInv, last # NoJob, task[last] = "succeeded", job[last].op \in {"stop", "kill"}
               PROVE  container = "stopped" \/ AboutToBeTakenDown \/ LoginIsUp
    BY DEF DownMeansDown, SaidDown
  <2>1. StopPast(last) /\ KillPast(last)
    BY DEF StopPast, KillPast
  <2> QED  BY <2>1 DEF IInv, Down
<1> QED  BY <1>1, Invariance, PTL
=============================================================================
