------------------------ MODULE GuardianEngineProofs ------------------------
(***************************************************************************)
(* Proofs about GuardianEngine for every value of its constants: the type  *)
(* invariant and all the safety properties its run checks.                 *)
(*                                                                         *)
(* None of them is inductive as it stands.  What the operators of a pass   *)
(* maintain is a property of one runtime record (Sound) and of two records *)
(* one of which follows the other (Follows); what the steps maintain in    *)
(* between is that the record the holder of the lock will write next       *)
(* (mem) is a sound successor of the one on disk (InFlight).               *)
(***************************************************************************)
EXTENDS GuardianEngine, FiniteSetTheorems, TLAPS

\* A runtime record on which the ladder can be climbed further.
Sound(r) ==
    /\ r.incident = None => r.attempts = {} /\ r.stage = 0
    /\ r.state \in {"recovering", "verifying"} => r.incident # None
    /\ r.state = "quarantined" => r.quarantine
    /\ Cardinality(r.attempts) <= MaxAttempts
    /\ \A age \in r.attempts : age >= r.lastRecovery

\* What happened to the incident and its attempts from r to s: nothing was dropped, or the
\* incident went with them.
Follows(r, s) ==
    \/ /\ r.incident \in {None, s.incident}
       /\ r.attempts \subseteq s.attempts
    \/ r.incident # None /\ s.incident # r.incident

\* What the holder of the lock will write is as sound as what is on disk.
InFlight ==
    /\ pc \in {"save", "charge", "execute"} =>
           /\ Sound(mem)
           /\ acted \subseteq mem.attempts
           /\ runtime.quarantine /\ ~mem.quarantine =>
                  mem.cleared = desired.clearOp /\ mem.cleared # runtime.cleared
    /\ pc \in {"charge", "execute"} => mem.incident # None
    /\ pc = "charge" =>
           /\ 0 \in mem.attempts
           /\ \A age \in acted : age >= Cooldown
           /\ desired.enabled /\ desired.power = "running"
           /\ ~runtime.quarantine
           /\ desired.lease = 0 /\ runtime.lease = 0

IInv == TypeOK /\ Sound(runtime) /\ EveryActionOnRecord /\ InFlight

\* What every operator of a pass does to a sound record.
Good(r) == r \in Runtime /\ Sound(r)
Advances(r, s) == Good(s) /\ Follows(r, s) /\ (r.quarantine => s.quarantine)

-----------------------------------------------------------------------------
(* Lemmas about the operators on a runtime record.                         *)

LEMMA ConstantsInRange ==
    /\ StartTimeout \in Nat \ {0} /\ VerifyTimeout \in Nat /\ PhaseCap \in Nat
    /\ StartTimeout <= PhaseCap
    /\ MaxAttempts \in Nat \ {0} /\ Cooldown \in Nat \ {0}
    /\ Window \in Nat /\ Grace \in Nat /\ Successes \in Nat /\ MinHealthy \in Nat
    /\ PanelLease \in Nat /\ LocalLease \in Nat /\ MaxGeneration \in Nat
    /\ None \notin Failures /\ None \notin Nat
<1>1. StartTimeout \in Nat \ {0} /\ MaxAttempts \in Nat \ {0} /\ Cooldown \in Nat \ {0}
  BY EngineAssumption DEF EngineAssumption
<1>2. None \notin Failures /\ None \notin Nat
  BY EngineAssumption DEF EngineAssumption
<1>3. /\ Window \in Nat /\ Grace \in Nat /\ Successes \in Nat /\ MinHealthy \in Nat
      /\ PanelLease \in Nat /\ LocalLease \in Nat /\ MaxGeneration \in Nat /\ VerifyTimeout \in Nat
  BY EngineAssumption DEF EngineAssumption
<1>4. PhaseCap \in Nat /\ StartTimeout <= PhaseCap
  BY <1>1, <1>3 DEF PhaseCap
<1>5. QED
  BY <1>1, <1>2, <1>3, <1>4

LEMMA ZeroInRange ==
    /\ 0 \in Nat /\ 0 \in 0..PhaseCap /\ 0 \in 0..StartTimeout /\ 0 \in 0..Window /\ 0 \in 0..Cooldown
    /\ 0 \in 0..Successes /\ 0 \in 0..MinHealthy /\ 0 \in 0..MaxGeneration /\ 0 \in 0..LocalLease
    /\ 0 \in 0..PanelLease /\ Cooldown \in 0..Cooldown /\ LocalLease \in 0..LocalLease
    /\ PanelLease \in 0..PanelLease
BY ConstantsInRange

LEMMA EmptyBudget == Cardinality({}) <= MaxAttempts
BY FS_EmptySet, ConstantsInRange

LEMMA BlankGood == Good(Blank) /\ Blank.attempts = {}
BY EmptyBudget, ConstantsInRange DEF Good, Sound, Blank, Runtime, States

LEMMA EnteringAdvances ==
    ASSUME NEW r, Good(r), NEW s \in States,
           s \in {"recovering", "verifying"} => r.incident # None,
           s = "quarantined" => r.quarantine
    PROVE  Advances(r, Entering(r, s)) /\ Entering(r, s).state = s
<1>1. r \in Runtime
  BY DEF Good
<1>2. Entering(r, s) \in Runtime
  BY <1>1, ZeroInRange DEF Runtime, Entering
<1>3. /\ Entering(r, s).state = s
      /\ Entering(r, s).incident = r.incident
      /\ Entering(r, s).attempts = r.attempts
      /\ Entering(r, s).quarantine = r.quarantine
  BY <1>1 DEF Runtime, Entering
<1>5. Sound(Entering(r, s))
  BY <1>3, <1>1 DEF Runtime, Entering, Good, Sound
<1>6. QED
  BY <1>1, <1>2, <1>3, <1>5 DEF Advances, Good, Sound, Follows

LEMMA TransitionAdvances ==
    ASSUME NEW r, Good(r), NEW s \in States,
           s \in {"recovering", "verifying"} => r.incident # None,
           s = "quarantined" => r.quarantine
    PROVE  /\ Advances(r, Transition(r, s))
           /\ Transition(r, s).state = s
           /\ Transition(r, s).incident = r.incident
           /\ Transition(r, s).attempts = r.attempts
           /\ Transition(r, s).lastRecovery = r.lastRecovery
           /\ Transition(r, s).quarantine = r.quarantine
           /\ Transition(r, s).lease = r.lease
           /\ Transition(r, s).stage = r.stage
           /\ Transition(r, s).cleared = r.cleared
<1>1. CASE r.state = s
  BY <1>1 DEF Advances, Good, Sound, Follows, Transition
<1>2. CASE r.state # s
  <2>1. Transition(r, s) = Entering(r, s)
    BY <1>2 DEF Transition
  <2>2. Advances(r, Entering(r, s)) /\ Entering(r, s).state = s
    BY EnteringAdvances
  <2>3. QED
    BY <2>1, <2>2 DEF Good, Runtime, Entering
<1>3. QED
  BY <1>1, <1>2

LEMMA LoadedGood ==
    ASSUME NEW r, Good(r), NEW d \in Desired
    PROVE  /\ Good(Loaded(r, d))
           /\ Loaded(r, d).incident = r.incident
           /\ Loaded(r, d).attempts = r.attempts
           /\ Loaded(r, d).quarantine = r.quarantine
           /\ Loaded(r, d).cleared = r.cleared
           /\ Loaded(r, d).lease = r.lease
<1>1. Phase(d.power) \in {"starting", "stopped"}
  BY DEF Phase
<1>2. Good(Entering(r, Phase(d.power)))
  BY <1>1, EnteringAdvances DEF Advances, States
<1>3. QED
  BY <1>2 DEF Good, Runtime, Loaded, Entering

LEMMA OpenedAdvances ==
    ASSUME NEW r, Good(r), NEW type \in Failures
    PROVE  /\ Advances(r, Opened(r, type))
           /\ Opened(r, type).incident = (IF r.incident = None THEN type ELSE r.incident)
           /\ Opened(r, type).incident # None
           /\ Opened(r, type).state = r.state
           /\ Opened(r, type).attempts = r.attempts
           /\ Opened(r, type).lastRecovery = r.lastRecovery
           /\ Opened(r, type).quarantine = r.quarantine
           /\ Opened(r, type).lease = r.lease
<1> DEFINE s == Opened(r, type)
<1>1. r \in Runtime
  BY DEF Good
<1>2. s \in Runtime
  BY <1>1 DEF Runtime, Opened
<1>3. /\ s.incident = (IF r.incident = None THEN type ELSE r.incident)
      /\ s.state = r.state
      /\ s.attempts = r.attempts
      /\ s.lastRecovery = r.lastRecovery
      /\ s.quarantine = r.quarantine
      /\ s.lease = r.lease
      /\ s.stage = r.stage
  BY <1>1 DEF Runtime, Opened
<1>4. s.incident # None
  BY <1>3, ConstantsInRange
<1> HIDE DEF s
<1>5. Sound(s)
  BY <1>3, <1>4 DEF Good, Sound
<1>6. Follows(r, s)
  BY <1>3 DEF Follows
<1>7. QED
  BY <1>2, <1>3, <1>4, <1>5, <1>6 DEF s, Advances, Good

\* Released and settled records: no incident, and so the bottom of the ladder.
Unburdened(r) == r \in Runtime /\ r.incident = None /\ r.attempts = {} /\ r.stage = 0

Calm == States \ {"recovering", "verifying", "quarantined"}

LEMMA ReleasedUnburdened ==
    ASSUME NEW r \in Runtime
    PROVE  /\ Unburdened(Released(r))
           /\ Released(r).quarantine = r.quarantine
           /\ Released(r).cleared = r.cleared
           /\ Released(r).state = r.state
BY ZeroInRange DEF Unburdened, Runtime, Released

LEMMA SettledUnburdened ==
    ASSUME NEW r \in Runtime
    PROVE  /\ Unburdened(Settled(r))
           /\ Settled(r).quarantine = r.quarantine
           /\ Settled(r).cleared = r.cleared
           /\ Settled(r).lease = r.lease
           /\ Settled(r).state = r.state
BY ZeroInRange DEF Unburdened, Runtime, Released, Settled

LEMMA UnburdenedEnters ==
    ASSUME NEW r, Unburdened(r), NEW s \in Calm
    PROVE  /\ Good(Entering(r, s)) /\ Unburdened(Entering(r, s))
           /\ Entering(r, s).quarantine = r.quarantine
           /\ Entering(r, s).cleared = r.cleared
           /\ Entering(r, s).state = s
<1> DEFINE x == Entering(r, s)
<1>1. x \in Runtime
  BY ZeroInRange DEF Unburdened, Runtime, Entering, Calm
<1>2. /\ x.incident = None /\ x.attempts = {} /\ x.stage = 0 /\ x.state = s
      /\ x.quarantine = r.quarantine /\ x.cleared = r.cleared
  BY DEF Unburdened, Runtime, Entering
<1> HIDE DEF x
<1>3. Sound(x)
  BY <1>2, EmptyBudget DEF Sound, Calm
<1>4. QED
  BY <1>1, <1>2, <1>3 DEF x, Good, Unburdened

LEMMA UnburdenedTransition ==
    ASSUME NEW r, Unburdened(r), NEW s \in Calm
    PROVE  /\ Good(Transition(r, s)) /\ Unburdened(Transition(r, s))
           /\ Transition(r, s).quarantine = r.quarantine
           /\ Transition(r, s).cleared = r.cleared
           /\ Transition(r, s).state = s
<1>1. CASE r.state = s
  <2>1. Sound(r)
    BY <1>1, EmptyBudget DEF Unburdened, Sound, Calm
  <2>2. QED
    BY <1>1, <2>1 DEF Unburdened, Good, Transition
<1>2. CASE r.state # s
  BY <1>2, UnburdenedEnters DEF Transition
<1>3. QED
  BY <1>1, <1>2

\* A clear control and a new desired state keep the incident with its attempts, or drop both.
Keeps(r, s) ==
    \/ s.incident = r.incident /\ s.attempts = r.attempts
    \/ s.incident = None /\ s.attempts = {}

LEMMA KeepsFollows ==
    ASSUME NEW r, Sound(r), NEW s, Keeps(r, s)
    PROVE  Follows(r, s)
BY DEF Keeps, Follows, Sound

LEMMA StoppedByDesireGood ==
    ASSUME NEW r, Good(r)
    PROVE  LET s == StoppedByDesire(r)
           IN  Good(s) /\ Keeps(r, s) /\ s.quarantine = r.quarantine /\ s.cleared = r.cleared
<1>1. "stopped" \in Calm /\ "stopped" \in States
  BY DEF Calm, States
<1>2. CASE r.incident \in StopResolves
  <2>1. Unburdened(Settled(r)) /\ Settled(r).quarantine = r.quarantine /\ Settled(r).cleared = r.cleared
    BY SettledUnburdened DEF Good
  <2>2. QED
    BY <1>1, <1>2, <2>1, UnburdenedTransition DEF StoppedByDesire, Keeps, Unburdened
<1>3. CASE r.incident \notin StopResolves
  BY <1>1, <1>3, TransitionAdvances DEF StoppedByDesire, Keeps, Advances
<1>4. QED
  BY <1>2, <1>3

LEMMA WithQuarantineControlGood ==
    ASSUME NEW r, Good(r), NEW d \in Desired
    PROVE  LET s == WithQuarantineControl(r, d)
           IN  /\ Good(s) /\ Keeps(r, s)
               /\ r.quarantine /\ ~s.quarantine => s.cleared = d.clearOp /\ s.cleared # r.cleared
               /\ s.quarantine => r.quarantine /\ s.cleared = r.cleared
<1>1. CASE d.clearOp \in {0, r.cleared}
  BY <1>1 DEF WithQuarantineControl, Keeps
<1>2. CASE d.clearOp \notin {0, r.cleared}
  <2> DEFINE q == [Released(r) EXCEPT !.quarantine = FALSE, !.cleared = d.clearOp]
  <2>1. Unburdened(Released(r))
    BY ReleasedUnburdened DEF Good
  <2>2. Unburdened(q) /\ q.quarantine = FALSE /\ q.cleared = d.clearOp
    BY <2>1 DEF Unburdened, Runtime, Desired
  <2>3. Phase(d.power) \in Calm
    BY DEF Phase, Calm, States
  <2>4. WithQuarantineControl(r, d) = Entering(q, Phase(d.power))
    BY <1>2 DEF WithQuarantineControl, QuarantineCleared
  <2> HIDE DEF q
  <2>5. QED
    BY <1>2, <2>2, <2>3, <2>4, UnburdenedEnters DEF Keeps, Unburdened
<1>3. QED
  BY <1>1, <1>2

LEMMA WithDesireGood ==
    ASSUME NEW r, Good(r), NEW d \in Desired, desired \in Desired
    PROVE  LET s == WithDesire(r, d)
           IN  Good(s) /\ Keeps(r, s) /\ s.quarantine = r.quarantine /\ s.cleared = r.cleared
<1> DEFINE Fine(s) == /\ Good(s) /\ Keeps(r, s)
                      /\ s.quarantine = r.quarantine /\ s.cleared = r.cleared
<1>1. d.enabled \in BOOLEAN /\ desired.enabled \in BOOLEAN
  BY DEF Desired
<1>2. Fine(Transition(Settled(r), "disabled"))
  <2>1. "disabled" \in Calm
    BY DEF Calm, States
  <2>2. Unburdened(Settled(r)) /\ Settled(r).quarantine = r.quarantine /\ Settled(r).cleared = r.cleared
    BY SettledUnburdened DEF Good
  <2>3. QED
    BY <2>1, <2>2, UnburdenedTransition DEF Keeps, Unburdened
<1>3. ASSUME r.quarantine PROVE Fine(Transition(r, "quarantined"))
  <2>1. "quarantined" \in States
    BY DEF States
  <2>2. QED
    BY <1>3, <2>1, TransitionAdvances DEF Keeps, Advances
<1>4. ASSUME NEW s \in {"starting", "stopped"} PROVE Fine(Entering(r, s))
  <2>1. s \in States
    BY DEF States
  <2>2. Good(Entering(r, s))
    BY <2>1, EnteringAdvances DEF Advances
  <2>3. QED
    BY <2>2 DEF Good, Runtime, Entering, Keeps
<1>5. Fine(StoppedByDesire(r))
  BY StoppedByDesireGood
<1>6. Fine(r)
  BY DEF Keeps
<1>7. Phase(d.power) \in {"starting", "stopped"}
  BY DEF Phase
<1> HIDE DEF Fine
<1>8. CASE ~d.enabled
  <2>1. WithDesire(r, d) = Transition(Settled(r), "disabled")
    BY <1>8 DEF WithDesire
  <2>2. QED
    BY <1>2, <2>1 DEF Fine
<1>9. CASE d.enabled /\ ~desired.enabled
  <2>1. WithDesire(r, d) = IF r.quarantine THEN Transition(r, "quarantined")
                                           ELSE Entering(r, Phase(d.power))
    BY <1>9 DEF WithDesire
  <2>2. Fine(WithDesire(r, d))
    BY <1>3, <1>4, <1>7, <2>1
  <2>3. QED
    BY <2>2 DEF Fine
<1>10. CASE d.enabled /\ desired.enabled
  <2>1. WithDesire(r, d) \in {r, Entering(r, "starting"), StoppedByDesire(r)}
    BY <1>10 DEF WithDesire
  <2>2. Fine(WithDesire(r, d))
    BY <1>4, <1>5, <1>6, <2>1
  <2>3. QED
    BY <2>2 DEF Fine
<1>11. QED
  BY <1>1, <1>8, <1>9, <1>10

-----------------------------------------------------------------------------
(* Lemmas about what a pass computes.                                      *)

LEMMA DiagnoseType ==
    ASSUME NEW logs \in LogFailures \cup {None}, NEW fallback \in Failures
    PROVE  Diagnose(logs, fallback) \in Failures
BY EngineAssumption DEF EngineAssumption, Diagnose

LEMMA KnownFailures ==
    {"process_not_running", "probe_failed", "startup_timeout", "startup-pattern",
     "verification_failed"} \subseteq Failures /\ ProbeFailures \subseteq Failures
BY EngineAssumption DEF EngineAssumption

\* The one way from a record to an unhealthy one with an open incident.
LEMMA UnhealthyAdvances ==
    ASSUME NEW r, Good(r), NEW type \in Failures
    PROVE  LET s == Opened(Transition(r, "unhealthy"), type)
           IN  Advances(r, s) /\ s.state = "unhealthy" /\ s.quarantine = r.quarantine
<1> DEFINE t == Transition(r, "unhealthy")
           s == Opened(t, type)
<1>1. "unhealthy" \in States
  BY DEF States
<1>2. Good(t) /\ t.state = "unhealthy" /\ t.incident = r.incident /\ t.attempts = r.attempts
          /\ t.quarantine = r.quarantine
  BY <1>1, TransitionAdvances DEF Advances
<1> HIDE DEF t
<1>3. /\ Good(s) /\ s.incident = (IF t.incident = None THEN type ELSE t.incident)
      /\ s.attempts = t.attempts /\ s.quarantine = t.quarantine /\ s.state = t.state
  BY <1>2, OpenedAdvances DEF Advances
<1> HIDE DEF s
<1>4. QED
  BY <1>2, <1>3 DEF s, t, Advances, Follows

LEMMA QuarantinedAdvances ==
    ASSUME NEW r, Good(r), NEW type \in Failures
    PROVE  /\ Advances(r, Quarantined(r, type))
           /\ Quarantined(r, type).state = "quarantined"
           /\ Quarantined(r, type).attempts = r.attempts
           /\ Quarantined(r, type).quarantine
           /\ Quarantined(r, type).incident = (IF r.incident = None THEN type ELSE r.incident)
<1> DEFINE e == Entering(r, "quarantined")
           q == [Transition(r, "quarantined") EXCEPT !.quarantine = TRUE]
           s == Opened(q, type)
<1>1. r \in Runtime /\ Sound(r)
  BY DEF Good
<1>2. e \in Runtime
  BY <1>1, ZeroInRange DEF Runtime, Entering, States
<1>3. q \in Runtime
  BY <1>1, <1>2 DEF Runtime, Transition
<1>4. /\ q.state = "quarantined" /\ q.quarantine = TRUE
      /\ q.incident = r.incident /\ q.attempts = r.attempts /\ q.stage = r.stage
      /\ q.lastRecovery = r.lastRecovery
  BY <1>1 DEF Runtime, Transition, Entering
<1> HIDE DEF q
<1>5. Good(q)
  BY <1>1, <1>3, <1>4 DEF Good, Sound
<1>6. /\ Good(s) /\ s.incident = (IF q.incident = None THEN type ELSE q.incident)
      /\ s.attempts = q.attempts /\ s.quarantine = q.quarantine /\ s.state = q.state
  BY <1>5, OpenedAdvances DEF Advances
<1> HIDE DEF s
<1>7. QED
  BY <1>4, <1>6 DEF s, q, Quarantined, Advances, Follows

LEMMA FailedAdvances ==
    ASSUME NEW r, Good(r), r.incident # None
    PROVE  /\ Advances(r, Failed(r))
           /\ Failed(r).state = "unhealthy"
           /\ Failed(r).incident = r.incident
           /\ Failed(r).attempts = r.attempts
           /\ Failed(r).quarantine = r.quarantine
           /\ Failed(r).cleared = r.cleared
<1> DEFINE t == Transition(r, "unhealthy")
<1>1. "unhealthy" \in States
  BY DEF States
<1>2. /\ Good(t) /\ t.state = "unhealthy" /\ t.incident = r.incident /\ t.attempts = r.attempts
      /\ t.quarantine = r.quarantine /\ t.cleared = r.cleared /\ t.lastRecovery = r.lastRecovery
  BY <1>1, TransitionAdvances DEF Advances
<1>3. Failed(r) = [t EXCEPT !.stage = t.stage + 1]
  BY DEF Failed
<1> HIDE DEF t
<1>4. t \in Runtime /\ t.stage \in Nat
  BY <1>2 DEF Good, Runtime
<1>5. t.stage + 1 \in Nat
  BY <1>4
<1>6. Failed(r) \in Runtime
  BY <1>3, <1>4, <1>5 DEF Runtime
<1>7. /\ Failed(r).state = t.state /\ Failed(r).incident = t.incident
      /\ Failed(r).attempts = t.attempts /\ Failed(r).quarantine = t.quarantine
      /\ Failed(r).cleared = t.cleared /\ Failed(r).lastRecovery = t.lastRecovery
  BY <1>3, <1>4 DEF Runtime
<1>8. QED
  BY <1>2, <1>6, <1>7 DEF Good, Sound, Advances, Follows

LEMMA NoticedAdvances ==
    ASSUME NEW r, Good(r)
    PROVE  LET s == Noticed(r)
           IN  /\ Good(s) /\ s.incident = r.incident /\ s.attempts = r.attempts
               /\ s.quarantine = r.quarantine
<1> DEFINE restarted == /\ container = "running" /\ r.boot = "outdated"
                        /\ r.state \notin {"starting", "recovering", "verifying"}
           e == IF restarted THEN Entering(r, "starting") ELSE r
           s == [e EXCEPT !.restarting = None,
                          !.boot = IF container = "running" THEN "current" ELSE e.boot]
<1>1. "starting" \in States
  BY DEF States
<1>2. Good(e) /\ e.incident = r.incident /\ e.attempts = r.attempts /\ e.quarantine = r.quarantine
  <2>1. Good(Entering(r, "starting"))
    BY <1>1, EnteringAdvances DEF Advances
  <2>2. QED
    BY <2>1 DEF Good, Runtime, Entering
<1>3. Noticed(r) = IF s.state = "stopped" THEN Entering(s, "starting") ELSE s
  BY DEF Noticed
<1> HIDE DEF e
<1>4. s \in Runtime
  BY <1>2 DEF Good, Runtime
<1>5. /\ s.incident = e.incident /\ s.attempts = e.attempts /\ s.quarantine = e.quarantine
      /\ s.state = e.state /\ s.stage = e.stage /\ s.lastRecovery = e.lastRecovery
  BY <1>2 DEF Good, Runtime
<1> HIDE DEF s
<1>6. Good(s)
  BY <1>2, <1>4, <1>5 DEF Good, Sound
<1>7. Good(Entering(s, "starting"))
  BY <1>1, <1>6, EnteringAdvances DEF Advances
<1>8. QED
  BY <1>2, <1>3, <1>5, <1>6, <1>7 DEF Good, Runtime, Entering

LEMMA StartupCheckedAdvances ==
    ASSUME NEW r, Good(r), NEW verdict, NEW ready, NEW bad, NEW logs \in LogFailures \cup {None}
    PROVE  LET s == StartupChecked(r, verdict, ready, bad, logs)
           IN  Advances(r, s) /\ s.quarantine = r.quarantine
<1> DEFINE pattern == Opened(Transition(r, "unhealthy"), "startup-pattern")
           timeout == Opened(Transition(r, "unhealthy"), Diagnose(logs, "startup_timeout"))
           ready1 == Transition(r, "healthy")
           Fine(s) == Advances(r, s) /\ s.quarantine = r.quarantine
<1>1. "healthy" \in States /\ "unhealthy" \in States
  BY DEF States
<1>2. Fine(r)
  BY DEF Advances, Follows
<1>3. Fine(ready1)
  BY <1>1, TransitionAdvances
<1>4. ASSUME NEW type \in Failures PROVE Fine(Opened(Transition(r, "unhealthy"), type))
  BY UnhealthyAdvances
<1>5. Fine(pattern) /\ Fine(timeout)
  BY <1>4, KnownFailures, DiagnoseType
<1>6. StartupChecked(r, verdict, ready, bad, logs) \in {r, ready1, pattern, timeout}
  BY DEF StartupChecked
<1> HIDE DEF Fine
<1>7. Fine(StartupChecked(r, verdict, ready, bad, logs))
  BY <1>2, <1>3, <1>5, <1>6
<1>8. QED
  BY <1>7 DEF Fine

LEMMA CountedAdvances ==
    ASSUME NEW r, Good(r), NEW verdict
    PROVE  LET s == Counted(r, verdict)
           IN  /\ Good(s) /\ s.state = r.state
               /\ s.incident = r.incident /\ s.attempts = r.attempts
               /\ s.quarantine = r.quarantine
<1> DEFINE s == Counted(r, verdict)
<1>1. r \in Runtime /\ Sound(r)
  BY DEF Good
<1>2. s \in Runtime
  <2>1. CASE verdict # "healthy"
    BY <1>1, <2>1, ZeroInRange DEF Runtime, Counted
  <2>2. CASE verdict = "healthy"
    <3> DEFINE n == IF r.successes < Successes THEN r.successes + 1 ELSE r.successes
    <3>1. r.successes \in 0..Successes
      BY <1>1 DEF Runtime
    <3>2. n \in 0..Successes
      BY <3>1, ConstantsInRange
    <3>3. s = [r EXCEPT !.successes = n]
      BY <2>2 DEF Counted
    <3> HIDE DEF n
    <3>4. QED
      BY <1>1, <3>2, <3>3 DEF Runtime
  <2>3. QED
    BY <2>1, <2>2
<1>3. /\ s.state = r.state /\ s.incident = r.incident /\ s.attempts = r.attempts
      /\ s.quarantine = r.quarantine /\ s.stage = r.stage /\ s.lastRecovery = r.lastRecovery
  BY <1>1 DEF Runtime, Counted
<1> HIDE DEF s
<1>4. QED
  BY <1>1, <1>2, <1>3 DEF s, Good, Sound

LEMMA VerificationCheckedAdvances ==
    ASSUME NEW r, Good(r), r.state = "verifying", NEW verdict
    PROVE  LET s == VerificationChecked(r, verdict)
           IN  Advances(r, s) /\ s.quarantine = r.quarantine
<1> DEFINE c == Counted(r, verdict)
           healthy == Transition(Released(c), "healthy")
           failed == Opened(Failed(c), "verification_failed")
           Fine(s) == Advances(r, s) /\ s.quarantine = r.quarantine
<1>1. /\ Good(c) /\ c.state = r.state /\ c.incident = r.incident /\ c.attempts = r.attempts
      /\ c.quarantine = r.quarantine
  BY CountedAdvances
<1>2. r.incident # None
  BY DEF Good, Sound
<1>3. VerificationChecked(r, verdict) \in {healthy, failed, c}
  BY DEF VerificationChecked
<1> HIDE DEF c
<1>4. Fine(c)
  BY <1>1 DEF Advances, Follows
<1>5. Fine(healthy)
  <2>1. "healthy" \in Calm
    BY DEF Calm, States
  <2>2. Unburdened(Released(c)) /\ Released(c).quarantine = c.quarantine
    BY <1>1, ReleasedUnburdened DEF Good
  <2>3. QED
    BY <1>1, <1>2, <2>1, <2>2, UnburdenedTransition DEF Advances, Follows, Unburdened
<1>6. Fine(failed)
  <2>1. /\ Good(Failed(c)) /\ Failed(c).incident = c.incident
        /\ Failed(c).attempts = c.attempts /\ Failed(c).quarantine = c.quarantine
    BY <1>1, <1>2, FailedAdvances DEF Advances
  <2>2. QED
    BY <1>1, <1>2, <2>1, KnownFailures, OpenedAdvances DEF Advances, Follows
<1> HIDE DEF healthy, failed, Fine
<1>7. Fine(VerificationChecked(r, verdict))
  BY <1>3, <1>4, <1>5, <1>6
<1>8. QED
  BY <1>7 DEF Fine

LEMMA HealthCheckedAdvances ==
    ASSUME NEW r, Good(r), NEW verdict \in Verdicts, NEW failure \in ProbeFailures,
           NEW logs \in LogFailures \cup {None}
    PROVE  LET s == HealthChecked(r, verdict, failure, logs)
           IN  Advances(r, s) /\ s.quarantine = r.quarantine
<1> DEFINE exited == Opened(Transition(r, "unhealthy"), Diagnose(logs, "process_not_running"))
           probed == Opened(Transition(r, "unhealthy"), Diagnose(logs, failure))
           degraded == Transition(r, "degraded")
           healthy == Transition(IF r.incident # None THEN Settled(r) ELSE r, "healthy")
           Fine(s) == Advances(r, s) /\ s.quarantine = r.quarantine
<1>1. /\ "healthy" \in States /\ "unhealthy" \in States /\ "degraded" \in States
      /\ "healthy" \in Calm
  BY DEF States, Calm
<1>2. Fine(degraded)
  BY <1>1, TransitionAdvances
<1>3. ASSUME NEW type \in Failures PROVE Fine(Opened(Transition(r, "unhealthy"), type))
  BY UnhealthyAdvances
<1>4. Fine(exited) /\ Fine(probed)
  BY <1>3, KnownFailures, DiagnoseType
<1>5. Fine(healthy)
  <2>1. CASE r.incident = None
    BY <1>1, <2>1, TransitionAdvances
  <2>2. CASE r.incident # None
    <3>1. Unburdened(Settled(r)) /\ Settled(r).quarantine = r.quarantine
      BY SettledUnburdened DEF Good
    <3>2. QED
      BY <1>1, <2>2, <3>1, UnburdenedTransition DEF Advances, Follows, Unburdened
  <2>3. QED
    BY <2>1, <2>2
<1>6. HealthChecked(r, verdict, failure, logs) \in {exited, probed, degraded, healthy}
  BY DEF HealthChecked, Verdicts
<1> HIDE DEF exited, probed, degraded, healthy, Fine
<1>7. Fine(HealthChecked(r, verdict, failure, logs))
  BY <1>2, <1>4, <1>5, <1>6
<1>8. QED
  BY <1>7 DEF Fine

LEMMA AttemptsFinite ==
    ASSUME NEW S \in SUBSET (0..Window)
    PROVE  IsFiniteSet(S) /\ Cardinality(S) \in Nat
<1>1. IsFiniteSet(0..Window)
  BY FS_Interval, ConstantsInRange
<1>2. QED
  BY <1>1, FS_Subset, FS_CardinalityType

LEMMA AttemptCounted ==
    ASSUME NEW S \in SUBSET (0..Window), Cardinality(S) < MaxAttempts
    PROVE  Cardinality(S \cup {0}) <= MaxAttempts
<1>2. IsFiniteSet(S) /\ Cardinality(S) \in Nat
  BY AttemptsFinite
<1>3. Cardinality(S \cup {0}) = IF 0 \in S THEN Cardinality(S) ELSE Cardinality(S) + 1
  BY <1>2, FS_AddElement
<1>4. QED
  BY <1>2, <1>3, ConstantsInRange

LEMMA RecoveryAdvances ==
    ASSUME NEW r, Good(r), r.state = "unhealthy", NEW logs \in LogFailures \cup {None}
    PROVE  LET s == Recovery(r, logs)
           IN  /\ Advances(r, s)
               /\ s.state = "recovering" =>
                      /\ 0 \in s.attempts /\ s.incident # None
                      /\ s.quarantine = r.quarantine
                      /\ \/ r.incident # None /\ s.incident # r.incident
                         \/ \A age \in r.attempts : age >= Cooldown
<1> DEFINE type == Diagnose(logs, IF r.incident = None THEN "probe_failed" ELSE r.incident)
           s == IF r.incident \notin {None, type} THEN Settled(r) ELSE r
           t == Transition(s, "recovering")
           a == [t EXCEPT !.attempts = t.attempts \cup {0}, !.lastRecovery = 0]
           n == Opened(a, type)
           quarantined == Quarantined(s, type)
           open == Opened(s, type)
<1>1. r \in Runtime /\ Sound(r)
  BY DEF Good
<1>2. type \in Failures /\ type # None
  <2>1. (IF r.incident = None THEN "probe_failed" ELSE r.incident) \in Failures
    BY <1>1, KnownFailures DEF Runtime
  <2>2. QED
    BY <2>1, DiagnoseType, ConstantsInRange
<1> HIDE DEF type
<1>3. /\ Good(s) /\ s.state = "unhealthy" /\ s.quarantine = r.quarantine
      /\ \/ s = r /\ r.incident \in {None, type}
         \/ Unburdened(s) /\ r.incident # None /\ type # r.incident
  <2>1. CASE r.incident \notin {None, type}
    <3>1. Unburdened(s) /\ s.state = r.state /\ s.quarantine = r.quarantine
      BY <1>1, <2>1, SettledUnburdened
    <3>2. Sound(s)
      BY <3>1, EmptyBudget DEF Unburdened, Sound
    <3>3. QED
      BY <2>1, <3>1, <3>2 DEF Good, Unburdened
  <2>2. CASE r.incident \in {None, type}
    BY <2>2
  <2>3. QED
    BY <2>1, <2>2
<1>4. Recovery(r, logs) =
          IF BudgetSpent(s) THEN quarantined
          ELSE IF CoolingDown(s) THEN s
          ELSE IF Policy[type] = << >> THEN open
          ELSE IF s.stage >= Len(Policy[type]) THEN quarantined
          ELSE n
  BY DEF Recovery, type
<1> HIDE DEF s
\* Whatever keeps or opens the incident of s follows r.
<1>5. ASSUME NEW x, Good(x), x.quarantine \/ x.quarantine = s.quarantine,
             s.attempts \subseteq x.attempts,
             x.incident = (IF s.incident = None THEN type ELSE s.incident) \/ x = s
      PROVE  Advances(r, x)
  BY <1>2, <1>3, <1>5 DEF Advances, Follows, Unburdened
<1>6. Advances(r, s)
  BY <1>3, <1>5
<1>7. Advances(r, open) /\ open.state = "unhealthy"
  BY <1>2, <1>3, <1>5, OpenedAdvances DEF Advances
<1>8. Advances(r, quarantined) /\ quarantined.state = "quarantined"
  BY <1>2, <1>3, <1>5, QuarantinedAdvances DEF Advances
<1>9. ASSUME ~BudgetSpent(s), ~CoolingDown(s)
      PROVE  /\ Advances(r, n)
             /\ 0 \in n.attempts /\ n.incident # None
             /\ n.quarantine = r.quarantine
             /\ \/ r.incident # None /\ n.incident # r.incident
                \/ \A age \in r.attempts : age >= Cooldown
  <2>1. s \in Runtime /\ Sound(s)
    BY <1>3 DEF Good
  <2>2. /\ t = Entering(s, "recovering")
        /\ Entering(s, "recovering") \in Runtime
    BY <1>3, <2>1, ZeroInRange DEF Transition, Entering, Runtime, States
  <2>3. /\ t \in Runtime /\ t.state = "recovering" /\ t.incident = s.incident
        /\ t.attempts = s.attempts /\ t.quarantine = s.quarantine /\ t.stage = s.stage
    BY <1>3, <2>1, <2>2 DEF Transition, Entering, Runtime
  <2> HIDE DEF t
  <2>4. t.attempts \cup {0} \in SUBSET (0..Window)
    BY <2>3, ZeroInRange DEF Runtime
  <2>5. /\ a \in Runtime /\ a.state = "recovering" /\ a.incident = s.incident
        /\ a.attempts = s.attempts \cup {0} /\ a.quarantine = s.quarantine
        /\ a.stage = s.stage /\ a.lastRecovery = 0
    BY <2>3, <2>4, ZeroInRange DEF Runtime
  <2> HIDE DEF a
  <2>6. /\ n \in Runtime
        /\ n.incident = (IF s.incident = None THEN type ELSE s.incident)
        /\ n.state = "recovering" /\ n.attempts = s.attempts \cup {0}
        /\ n.quarantine = s.quarantine /\ n.lastRecovery = 0
    BY <1>2, <2>5 DEF Opened, Runtime
  <2> HIDE DEF n
  <2>7. n.incident # None
    BY <1>2, <2>6
  <2>8. Cardinality(n.attempts) <= MaxAttempts
    <3>1. s.attempts \in SUBSET (0..Window)
      BY <2>1 DEF Runtime
    <3>2. Cardinality(s.attempts) \in Nat
      BY <3>1, AttemptsFinite
    <3>3. Cardinality(s.attempts) < MaxAttempts
      BY <1>9, <3>2, ConstantsInRange DEF BudgetSpent
    <3>4. QED
      BY <2>6, <3>1, <3>3, AttemptCounted
  <2>9. \A age \in n.attempts : age >= n.lastRecovery
    <3>1. s.attempts \subseteq Nat
      BY <2>1, ConstantsInRange DEF Runtime
    <3>2. QED
      BY <2>6, <3>1
  <2>10. Good(n)
    BY <2>6, <2>7, <2>8, <2>9 DEF Good, Sound
  <2>11. Advances(r, n)
    BY <1>5, <2>6, <2>10
  <2>12. \A age \in s.attempts : age >= Cooldown
    <3>1. s.attempts \subseteq Nat /\ s.lastRecovery \in Nat
      BY <2>1, ConstantsInRange DEF Runtime
    <3>2. s.lastRecovery >= Cooldown
      BY <1>9, <3>1, ConstantsInRange DEF CoolingDown
    <3>3. \A age \in s.attempts : age >= s.lastRecovery
      BY <2>1 DEF Sound
    <3>4. QED
      BY <3>1, <3>2, <3>3, ConstantsInRange
  <2>13. QED
    BY <1>2, <1>3, <2>6, <2>7, <2>11, <2>12, <2>3 DEF Unburdened
<1> HIDE DEF open, quarantined, n
<1>10. QED
  BY <1>3, <1>4, <1>6, <1>7, <1>8, <1>9

-----------------------------------------------------------------------------
(* Lemmas about time, the container and the observer.                      *)

\* Time may take attempts out of the window, and makes none.
LEMMA AgedSetSmaller ==
    ASSUME NEW S \in SUBSET (0..Window)
    PROVE  AgedSet(S) \in SUBSET (0..Window) /\ Cardinality(AgedSet(S)) <= Cardinality(S)
<1> DEFINE T == AgedSet(S)
           f == [x \in T |-> x - 1]
<1>1. T \in SUBSET (0..Window)
  BY DEF AgedSet
<1>2. \A x \in T : x \in Nat /\ x - 1 \in S
  BY ConstantsInRange DEF AgedSet
<1>3. f \in Injection(T, S)
  <2>1. f \in [T -> S]
    BY <1>2
  <2>2. \A x, y \in T : f[x] = f[y] => x = y
    BY <1>2
  <2>3. QED
    BY <2>1, <2>2 DEF Injection, IsInjective
<1>4. IsFiniteSet(S)
  BY AttemptsFinite
<1> HIDE DEF f, T
<1>5. Cardinality(T) <= Cardinality(S)
  BY <1>3, <1>4, FS_Injection
<1>6. QED
  BY <1>1, <1>5 DEF T

LEMMA OlderInRange ==
    ASSUME NEW cap \in Nat, NEW a \in 0..cap
    PROVE  Older(a, cap) \in 0..cap /\ Older(a, cap) <= a + 1
BY DEF Older

LEMMA AgedTyped == \A r \in Runtime : Aged(r) \in Runtime
<1> SUFFICES ASSUME NEW r \in Runtime PROVE Aged(r) \in Runtime
  OBVIOUS
<1>1. /\ r.phaseAge \in 0..PhaseCap
      /\ r.restarting # None => r.restarting \in 0..StartTimeout
      /\ r.attempts \in SUBSET (0..Window)
      /\ r.lastRecovery \in 0..Cooldown
      /\ r.healthyFor \in 0..MinHealthy
      /\ r.lease \in 0..LocalLease
  BY DEF Runtime
<1>2. /\ Older(r.phaseAge, PhaseCap) \in 0..PhaseCap
      /\ r.restarting # None => Older(r.restarting, StartTimeout) \in 0..StartTimeout
      /\ AgedSet(r.attempts) \in SUBSET (0..Window)
      /\ Older(r.lastRecovery, Cooldown) \in 0..Cooldown
      /\ Older(r.healthyFor, MinHealthy) \in 0..MinHealthy
  BY <1>1, OlderInRange, AgedSetSmaller, ConstantsInRange
<1>3. Younger(r.lease) \in 0..LocalLease
  BY <1>1, ConstantsInRange DEF Younger
<1>4. QED
  BY <1>2, <1>3 DEF Aged, Runtime

LEMMA AgedGood ==
    ASSUME NEW r, Good(r)
    PROVE  /\ Good(Aged(r))
           /\ Aged(r).incident = r.incident
           /\ Aged(r).attempts = AgedSet(r.attempts)
           /\ Aged(r).quarantine = r.quarantine
           /\ Aged(r).cleared = r.cleared
<1> DEFINE s == Aged(r)
<1>1. r \in Runtime /\ Sound(r)
  BY DEF Good
<1>2. r.attempts \in SUBSET (0..Window) /\ r.lastRecovery \in 0..Cooldown
  BY <1>1 DEF Runtime
<1>3. AgedSet(r.attempts) \in SUBSET (0..Window)
  BY <1>2, AgedSetSmaller
<1>5. s \in Runtime
  BY <1>1, AgedTyped
<1>6. /\ s.incident = r.incident /\ s.attempts = AgedSet(r.attempts) /\ s.state = r.state
      /\ s.quarantine = r.quarantine /\ s.cleared = r.cleared /\ s.stage = r.stage
      /\ s.lastRecovery = Older(r.lastRecovery, Cooldown)
  BY <1>1 DEF Aged, Runtime
<1> HIDE DEF s
<1>7. r.incident = None => AgedSet(r.attempts) = {}
  BY <1>1 DEF Sound, AgedSet
<1>8. Cardinality(AgedSet(r.attempts)) <= MaxAttempts
  <2>1. Cardinality(AgedSet(r.attempts)) <= Cardinality(r.attempts)
    BY <1>2, AgedSetSmaller
  <2>2. Cardinality(AgedSet(r.attempts)) \in Nat /\ Cardinality(r.attempts) \in Nat
    BY <1>2, <1>3, AttemptsFinite
  <2>3. Cardinality(r.attempts) <= MaxAttempts
    BY <1>1 DEF Sound
  <2>4. QED
    BY <2>1, <2>2, <2>3, ConstantsInRange
<1>9. \A age \in AgedSet(r.attempts) : age >= s.lastRecovery
  <2>1. /\ r.attempts \subseteq Nat
        /\ \A a \in r.attempts : a >= r.lastRecovery
    <3>1. r.attempts \subseteq Nat
      BY <1>2, ConstantsInRange
    <3>2. QED
      BY <1>1, <3>1 DEF Sound
  <2>2. s.lastRecovery <= r.lastRecovery + 1 /\ s.lastRecovery \in Nat /\ r.lastRecovery \in Nat
    <3>1. r.lastRecovery \in 0..Cooldown /\ Cooldown \in Nat
      BY <1>2, ConstantsInRange
    <3>2. /\ Older(r.lastRecovery, Cooldown) \in 0..Cooldown
          /\ Older(r.lastRecovery, Cooldown) <= r.lastRecovery + 1
      BY <3>1, OlderInRange
    <3>3. QED
      BY <1>6, <3>1, <3>2
  <2>3. QED
    BY <2>1, <2>2 DEF AgedSet
<1>10. Sound(s)
  BY <1>1, <1>6, <1>7, <1>8, <1>9 DEF Sound
<1>11. QED
  BY <1>5, <1>6, <1>10 DEF s, Good

LEMMA OutdatedGood ==
    ASSUME NEW r, r \in Runtime
    PROVE  /\ Outdated(r) \in Runtime
           /\ Sound(r) => Sound(Outdated(r))
           /\ Outdated(r).incident = r.incident /\ Outdated(r).attempts = r.attempts
           /\ Outdated(r).quarantine = r.quarantine /\ Outdated(r).cleared = r.cleared
           /\ Outdated(r).lease = r.lease
BY DEF Sound, Runtime, Outdated

LEMMA ObservedFollows ==
    ASSUME NEW r, Sound(r), NEW s, Follows(r, s), acted \subseteq r.attempts
    PROVE  Observed(r, s) \subseteq s.attempts /\ Observed(r, s) \in {{}, acted}
BY DEF Sound, Follows, Observed

-----------------------------------------------------------------------------
(* The inductive invariant, one lemma per action or group of actions.      *)

\* The step of QuarantineNeedsClear.
QuarantineKept ==
    runtime.quarantine /\ ~runtime'.quarantine
        => runtime'.cleared = desired.clearOp /\ runtime'.cleared # runtime.cleared

LEMMA InitHolds == Init => IInv
<1> SUFFICES ASSUME Init PROVE IInv
  OBVIOUS
<1>1. Good(Blank) /\ Blank.attempts = {}
  BY BlankGood
<1>2. NoDesired \in Desired
  BY ZeroInRange DEF NoDesired, Desired
<1>3. QED
  BY <1>1, <1>2 DEF Init, Good, IInv, TypeOK, EveryActionOnRecord, InFlight, Containers

LEMMA NextDesiredType ==
    ASSUME desired \in Desired, NEW d \in NextDesired
    PROVE  d \in Desired
<1>1. desired.generation + 1 = d.generation /\ d.generation \in 0..MaxGeneration
  BY DEF NextDesired
<1>2. d.clearOp \in 0..MaxGeneration
  BY <1>1, ZeroInRange DEF NextDesired, Desired
<1>3. d.lease \in 0..PanelLease
  BY ZeroInRange DEF NextDesired, Desired
<1>4. QED
  BY <1>1, <1>2, <1>3 DEF NextDesired, Desired

LEMMA AcceptHolds == IInv /\ Accept => IInv' /\ QuarantineKept
<1> SUFFICES ASSUME IInv, NEW d \in NextDesired, AcceptDesiredState(d)
             PROVE  IInv' /\ QuarantineKept
  BY DEF Accept
<1> DEFINE old == Loaded(runtime, d)
           mid == WithQuarantineControl(old, d)
           new == WithDesire(mid, d)
<1>1. TypeOK /\ Good(runtime) /\ acted \subseteq runtime.attempts
  BY DEF IInv, TypeOK, Good, EveryActionOnRecord
<1>2. d \in Desired
  BY <1>1, NextDesiredType DEF TypeOK
<1>3. /\ Good(old) /\ old.attempts = runtime.attempts
      /\ old.quarantine = runtime.quarantine /\ old.cleared = runtime.cleared
  BY <1>1, <1>2, LoadedGood
<1>4. /\ mem' = new /\ acted' = Observed(old, new)
      /\ desired' = d /\ pc' = "save"
      /\ runtime' = runtime /\ container' = container /\ stray' = stray
  BY DEF AcceptDesiredState
<1> HIDE DEF old
<1>5. /\ Good(mid) /\ Keeps(old, mid)
      /\ old.quarantine /\ ~mid.quarantine => mid.cleared = d.clearOp /\ mid.cleared # old.cleared
  BY <1>2, <1>3, WithQuarantineControlGood
<1> HIDE DEF mid
<1>6. /\ Good(new) /\ Keeps(mid, new) /\ new.quarantine = mid.quarantine
      /\ new.cleared = mid.cleared
  BY <1>1, <1>2, <1>5, WithDesireGood DEF TypeOK
<1> HIDE DEF new
<1>7. Keeps(old, new)
  BY <1>5, <1>6 DEF Keeps, Good, Sound
<1>8. Observed(old, new) \subseteq new.attempts /\ Observed(old, new) \in {{}, acted}
  BY <1>1, <1>3, <1>7, KeepsFollows, ObservedFollows DEF Good
<1>9. TypeOK'
  BY <1>1, <1>2, <1>4, <1>6, <1>8 DEF TypeOK, Good
<1>10. InFlight'
  BY <1>3, <1>4, <1>5, <1>6, <1>8 DEF InFlight, Good
<1>11. QED
  BY <1>1, <1>4, <1>8, <1>9, <1>10 DEF IInv, EveryActionOnRecord, Good, QuarantineKept

LEMMA SaveHolds == IInv /\ SaveRuntime => IInv' /\ QuarantineKept
BY BlankGood DEF Good, IInv, TypeOK, EveryActionOnRecord, InFlight, SaveRuntime, QuarantineKept

\* Every pass that ends without an action.
LEMMA FinishHolds ==
    ASSUME IInv, PassBegins, NEW new, Finish(new), Advances(Loaded(runtime, desired), new)
    PROVE  IInv' /\ QuarantineKept
<1> DEFINE old == Loaded(runtime, desired)
<1>1. TypeOK /\ Good(runtime) /\ acted \subseteq runtime.attempts
  BY DEF IInv, TypeOK, Good, EveryActionOnRecord
<1>2. Good(old) /\ old.attempts = runtime.attempts /\ old.quarantine = runtime.quarantine
  BY <1>1, LoadedGood DEF TypeOK
<1>3. /\ runtime' = new /\ acted' = Observed(old, new) /\ pc' = "idle" /\ desired' = desired
      /\ container' = container /\ mem' = mem /\ stray' = stray
  BY DEF Finish, PassBegins
<1> HIDE DEF old
<1>4. Observed(old, new) \subseteq new.attempts /\ Observed(old, new) \in {{}, acted}
  BY <1>1, <1>2, ObservedFollows DEF Advances, Good, old
<1>5. Good(new) /\ (runtime.quarantine => new.quarantine)
  BY <1>2 DEF Advances, old
<1> HIDE DEF Advances
<1>6. QED
  BY <1>1, <1>3, <1>4, <1>5 DEF IInv, TypeOK, EveryActionOnRecord, InFlight, Good, QuarantineKept

LEMMA SimplePassesHold ==
    ASSUME IInv,
           \/ PassDisabled \/ PassInspectionFails \/ PassStopped \/ PassQuarantined
           \/ PassDockerRestarting \/ PassContainerMissing
    PROVE  IInv' /\ QuarantineKept
<1> DEFINE old == Loaded(runtime, desired)
<1>1. TypeOK /\ Good(runtime) /\ Good(old)
  <2>1. TypeOK /\ Good(runtime)
    BY DEF IInv, TypeOK, Good
  <2>2. QED
    BY <2>1, LoadedGood DEF TypeOK
<1>2. {"disabled", "stopped", "quarantined", "starting", "unhealthy"} \subseteq States
  BY DEF States
<1> HIDE DEF old
<1>3. CASE PassDisabled
  <2>1. Advances(old, Transition(old, "disabled"))
    BY <1>1, <1>2, TransitionAdvances
  <2>2. QED
    BY <1>3, <2>1, FinishHolds DEF PassDisabled, old
<1>4. CASE PassInspectionFails
  <2>1. Advances(old, old)
    BY <1>1 DEF Advances, Follows
  <2>2. QED
    BY <1>4, <2>1, FinishHolds DEF PassInspectionFails, old
<1>5. CASE PassStopped
  <2>1. Good(StoppedByDesire(old)) /\ Keeps(old, StoppedByDesire(old))
        /\ StoppedByDesire(old).quarantine = old.quarantine
    BY <1>1, StoppedByDesireGood
  <2>2. Advances(old, StoppedByDesire(old))
    BY <1>1, <2>1, KeepsFollows DEF Advances, Good
  <2>3. QED
    BY <1>5, <2>2, FinishHolds DEF PassStopped, old
<1>6. CASE PassQuarantined
  <2>1. Advances(old, Transition(old, "quarantined"))
    BY <1>1, <1>2, <1>6, TransitionAdvances DEF PassQuarantined, old
  <2>2. QED
    BY <1>6, <2>1, FinishHolds DEF PassQuarantined, Supervised, old
<1>7. CASE PassDockerRestarting
  <2> DEFINE e == Entering(old, "starting")
             s == IF old.restarting = None THEN [e EXCEPT !.restarting = 0] ELSE old
             new == IF s.restarting >= StartTimeout
                    THEN Opened(Transition(s, "unhealthy"), "process_not_running") ELSE s
  <2>1. Good(e) /\ e.incident = old.incident /\ e.attempts = old.attempts
        /\ e.quarantine = old.quarantine
    <3>1. Good(e)
      BY <1>1, <1>2, EnteringAdvances DEF Advances
    <3>2. QED
      BY <1>1, <3>1 DEF Good, Runtime, Entering
  <2>2. Finish(new) /\ PassBegins
    BY <1>7 DEF PassDockerRestarting, Supervised, old
  <2> HIDE DEF e
  <2>3. Good(s) /\ s.incident = old.incident /\ s.attempts = old.attempts
        /\ s.quarantine = old.quarantine
    BY <1>1, <2>1, ZeroInRange DEF Good, Runtime, Sound
  <2> HIDE DEF s
  <2>4. Advances(s, Opened(Transition(s, "unhealthy"), "process_not_running"))
    BY <2>3, KnownFailures, UnhealthyAdvances
  <2>5. Advances(old, new)
    BY <2>3, <2>4 DEF Advances, Follows
  <2>6. QED
    BY <2>2, <2>5, FinishHolds DEF old
<1>8. CASE PassContainerMissing
  <2> DEFINE t == Transition(old, "stopped")
             new == [t EXCEPT !.restarting = None]
  <2>1. Advances(old, t)
    BY <1>1, <1>2, TransitionAdvances
  <2> HIDE DEF t
  <2>2. Advances(old, new)
    BY <2>1 DEF Advances, Follows, Good, Runtime, Sound
  <2>3. Finish(new) /\ PassBegins
    BY <1>8 DEF PassContainerMissing, Supervised, old, t
  <2>4. QED
    BY <2>2, <2>3, FinishHolds DEF old
<1>9. QED
  BY <1>3, <1>4, <1>5, <1>6, <1>7, <1>8

LEMMA PassStopsContainerHolds == IInv /\ PassStopsContainer => IInv' /\ QuarantineKept
<1> SUFFICES ASSUME IInv, PassStopsContainer PROVE IInv' /\ QuarantineKept
  OBVIOUS
<1>1. TypeOK /\ Good(runtime)
  BY DEF IInv, TypeOK, Good
<1>2. Good(Loaded(runtime, desired))
  BY <1>1, LoadedGood DEF TypeOK
<1>3. QED
  BY <1>2 DEF IInv, TypeOK, EveryActionOnRecord, InFlight, PassStopsContainer, QuarantineKept, Good

\* A pass that goes through the checks: it reaches a verdict on the record, and may go on
\* to recover from it.
LEMMA DecidedHolds ==
    ASSUME IInv, PassBegins, Supervised, ~runtime.quarantine,
           NEW checked, Advances(Loaded(runtime, desired), checked),
           ~checked.quarantine, checked.lease = runtime.lease,
           NEW logs \in LogFailures \cup {None},
           Decide(Loaded(runtime, desired), checked, logs),
           UNCHANGED <<desired, container, stray>>
    PROVE  IInv' /\ QuarantineKept
<1> DEFINE old == Loaded(runtime, desired)
           new == IF checked.state = "unhealthy" /\ ~SuspensionActive(checked, desired)
                  THEN Recovery(checked, logs) ELSE checked
<1>0. /\ acted' = IF Observed(old, checked) = {} THEN {} ELSE Observed(checked, new)
      /\ IF new.state = "recovering" /\ checked.state = "unhealthy"
         THEN mem' = new /\ pc' = "charge" /\ UNCHANGED runtime
         ELSE runtime' = new /\ UNCHANGED <<mem, pc>>
  BY DEF Decide
<1>1. TypeOK /\ Good(runtime) /\ acted \subseteq runtime.attempts
  BY DEF IInv, TypeOK, Good, EveryActionOnRecord
<1>2. Good(old) /\ old.attempts = runtime.attempts /\ old.quarantine = runtime.quarantine
  BY <1>1, LoadedGood DEF TypeOK
<1> HIDE DEF old
<1>3. Good(checked) /\ Follows(old, checked)
  BY DEF Advances, old
<1>4. Observed(old, checked) \subseteq checked.attempts /\ Observed(old, checked) \in {{}, acted}
  BY <1>1, <1>2, <1>3, ObservedFollows DEF Good
<1>5. /\ Advances(checked, new)
      /\ new.state = "recovering" /\ checked.state = "unhealthy" =>
             /\ 0 \in new.attempts /\ new.incident # None
             /\ ~new.quarantine
             /\ ~SuspensionActive(checked, desired)
             /\ \/ checked.incident # None /\ new.incident # checked.incident
                \/ \A age \in checked.attempts : age >= Cooldown
  <2>1. CASE checked.state = "unhealthy" /\ ~SuspensionActive(checked, desired)
    BY <1>3, <2>1, RecoveryAdvances
  <2>2. CASE ~(checked.state = "unhealthy" /\ ~SuspensionActive(checked, desired))
    BY <1>3, <2>2 DEF Advances, Follows
  <2>3. QED
    BY <2>1, <2>2
<1> HIDE DEF new
<1>6. acted' \subseteq new.attempts /\ acted' \in {{}, acted}
  <2>1. CASE Observed(old, checked) = {}
    BY <1>0, <2>1
  <2>2. CASE Observed(old, checked) # {}
    <3>1. acted \subseteq checked.attempts
      BY <1>4, <2>2
    <3>2. Observed(checked, new) \subseteq new.attempts /\ Observed(checked, new) \in {{}, acted}
      BY <1>3, <1>5, <3>1, ObservedFollows DEF Good, Advances
    <3>3. QED
      BY <1>0, <2>2, <3>2
  <2>3. QED
    BY <2>1, <2>2
<1>7. Good(new)
  BY <1>5 DEF Advances
<1>8. CASE new.state = "recovering" /\ checked.state = "unhealthy"
  <2>1. mem' = new /\ pc' = "charge" /\ runtime' = runtime
    BY <1>0, <1>8
  <2>2. \A age \in acted' : age >= Cooldown
    <3>1. CASE acted' = {}
      BY <3>1
    <3>2. CASE acted' # {}
      <4>1. Observed(old, checked) = acted /\ Observed(checked, new) # {}
        BY <1>0, <1>4, <3>2
      <4>2. ~(checked.incident # None /\ new.incident # checked.incident)
        BY <4>1 DEF Observed
      <4>3. acted' \subseteq checked.attempts
        BY <1>4, <1>6, <4>1
      <4>4. QED
        BY <1>5, <1>8, <4>2, <4>3
    <3>3. QED
      BY <3>1, <3>2
  <2>3. desired.lease = 0 /\ runtime.lease = 0
    <3>1. desired.lease \in Nat /\ runtime.lease \in Nat
      BY <1>1, ConstantsInRange DEF TypeOK, Desired, Runtime
    <3>2. QED
      BY <1>5, <1>8, <3>1 DEF SuspensionActive
  <2>4. TypeOK'
    BY <1>1, <1>6, <1>7, <2>1 DEF TypeOK, Good
  <2>5. InFlight'
    BY <1>5, <1>6, <1>7, <1>8, <2>1, <2>2, <2>3 DEF InFlight, Good, Supervised
  <2>6. QED
    BY <1>1, <1>6, <2>1, <2>4, <2>5 DEF IInv, EveryActionOnRecord, Good, QuarantineKept
<1>9. CASE ~(new.state = "recovering" /\ checked.state = "unhealthy")
  <2>1. runtime' = new /\ mem' = mem /\ pc' = "idle"
    BY <1>0, <1>9 DEF PassBegins
  <2>2. QED
    BY <1>1, <1>6, <1>7, <2>1
    DEF IInv, TypeOK, EveryActionOnRecord, InFlight, Good, QuarantineKept
<1>10. QED
  BY <1>8, <1>9

\* Only a planned operation and the clock write the agent's own suspension.
LEMMA LeaseKept ==
    ASSUME NEW r \in Runtime
    PROVE  /\ Noticed(r).lease = r.lease
           /\ \A verdict, ready, bad, logs :
                  StartupChecked(r, verdict, ready, bad, logs).lease = r.lease
           /\ \A verdict : VerificationChecked(r, verdict).lease = r.lease
           /\ \A verdict \in Verdicts : \A failure, logs :
                  HealthChecked(r, verdict, failure, logs).lease = r.lease
<1>1. Noticed(r).lease = r.lease
  BY DEF Noticed, Entering, Runtime
<1>2. ASSUME NEW verdict, NEW ready, NEW bad, NEW logs
      PROVE  StartupChecked(r, verdict, ready, bad, logs).lease = r.lease
  BY DEF StartupChecked, Opened, Transition, Entering, Runtime
<1>3. ASSUME NEW verdict PROVE VerificationChecked(r, verdict).lease = r.lease
  BY DEF VerificationChecked, Counted, Released, Failed, Opened, Transition, Entering, Runtime
<1>4. ASSUME NEW verdict \in Verdicts, NEW failure, NEW logs
      PROVE  HealthChecked(r, verdict, failure, logs).lease = r.lease
  BY DEF HealthChecked, Verdicts, Settled, Released, Opened, Transition, Entering, Runtime
<1>5. QED
  BY <1>1, <1>2, <1>3, <1>4

LEMMA CheckedAdvances ==
    ASSUME NEW r, Good(r), NEW verdict \in Verdicts, NEW logs \in LogFailures \cup {None},
           NEW checked \in Checked(r, verdict, logs)
    PROVE  Advances(r, checked) /\ checked.quarantine = r.quarantine /\ checked.lease = r.lease
<1>1. r \in Runtime
  BY DEF Good
<1>2. CASE r.state = "starting"
  <2>1. PICK ready \in BOOLEAN, bad \in BOOLEAN :
             checked = StartupChecked(r, verdict, ready, bad, logs)
    BY <1>2 DEF Checked
  <2>2. QED
    BY <1>1, <2>1, StartupCheckedAdvances, LeaseKept
<1>3. CASE r.state = "verifying"
  <2>1. checked = VerificationChecked(r, verdict)
    BY <1>3 DEF Checked
  <2>2. QED
    BY <1>1, <1>3, <2>1, VerificationCheckedAdvances, LeaseKept
<1>4. CASE r.state \in {"healthy", "degraded", "unhealthy"}
  <2>1. PICK failure \in ProbeFailures : checked = HealthChecked(r, verdict, failure, logs)
    BY <1>4 DEF Checked
  <2>2. QED
    BY <1>1, <2>1, HealthCheckedAdvances, LeaseKept
<1>5. CASE r.state \notin {"starting", "verifying", "healthy", "degraded", "unhealthy"}
  <2>1. checked = r
    BY <1>5 DEF Checked
  <2>2. QED
    BY <2>1 DEF Advances, Follows
<1>6. QED
  BY <1>2, <1>3, <1>4, <1>5

LEMMA PassChecksHolds == IInv /\ PassChecks => IInv' /\ QuarantineKept
<1> SUFFICES ASSUME IInv, PassChecks PROVE IInv' /\ QuarantineKept
  OBVIOUS
<1> DEFINE old == Loaded(runtime, desired)
           r == Noticed(old)
<1>1. PICK logs \in LogFailures \cup {None}, verdict \in Verdicts :
          \E checked \in Checked(r, verdict, logs) : Decide(old, checked, logs)
  BY DEF PassChecks
<1>2. PICK checked \in Checked(r, verdict, logs) : Decide(old, checked, logs)
  BY <1>1
<1>3. PassBegins /\ Supervised /\ ~old.quarantine /\ UNCHANGED <<desired, container, stray>>
  BY DEF PassChecks, Supervised
<1>4. TypeOK /\ Good(runtime)
  BY DEF IInv, TypeOK, Good
<1>5. Good(old) /\ old.quarantine = runtime.quarantine /\ old.lease = runtime.lease
  BY <1>4, LoadedGood DEF TypeOK
<1> HIDE DEF old
<1>6. /\ Good(r) /\ r.incident = old.incident /\ r.attempts = old.attempts
      /\ r.quarantine = old.quarantine
  BY <1>5, NoticedAdvances
<1>7. r.lease = old.lease
  BY <1>5, LeaseKept DEF Good
<1> HIDE DEF r
<1>8. Advances(r, checked) /\ checked.quarantine = r.quarantine /\ checked.lease = r.lease
  BY <1>6, CheckedAdvances
<1>9. Advances(old, checked)
  BY <1>6, <1>8 DEF Advances, Follows
<1>10. QED
  BY <1>2, <1>3, <1>5, <1>6, <1>7, <1>8, <1>9, DecidedHolds DEF old

LEMMA BeginActionHolds == IInv /\ BeginAction => IInv' /\ QuarantineKept
BY ZeroInRange DEF IInv, TypeOK, EveryActionOnRecord, InFlight, BeginAction, QuarantineKept

LEMMA ProgramTyped == Program \in Programs
BY DEF Program, Programs

\* What an action makes of the record is written by the next step.
LEMMA ConcludeHolds ==
    ASSUME IInv, pc = "execute", NEW new, Good(new), Conclude(new),
           new.attempts = mem.attempts,
           mem.quarantine => new.quarantine,
           ~new.quarantine => new.cleared = mem.cleared,
           stray' \subseteq Programs
    PROVE  IInv' /\ QuarantineKept
BY DEF IInv, TypeOK, EveryActionOnRecord, InFlight, Conclude, QuarantineKept, Good

LEMMA ActHolds ==
    ASSUME IInv, ActionTimesOut \/ ClearLockFiles \/ QuarantineAction
    PROVE  IInv' /\ QuarantineKept
<1>1. pc = "execute" /\ Good(mem) /\ mem.incident # None /\ stray \subseteq Programs
  BY DEF IInv, TypeOK, InFlight, Good, ActionTimesOut, ClearLockFiles, QuarantineAction
<1> DEFINE failed == Failed(mem)
           verifying == Entering(mem, "verifying")
           bumped == [mem EXCEPT !.stage = mem.stage + 1]
           quarantined == Quarantined(bumped, mem.incident)
<1>2. /\ Good(failed) /\ failed.attempts = mem.attempts
      /\ failed.quarantine = mem.quarantine /\ failed.cleared = mem.cleared
  BY <1>1, FailedAdvances DEF Advances
<1>3. /\ Good(verifying) /\ verifying.attempts = mem.attempts
      /\ verifying.quarantine = mem.quarantine /\ verifying.cleared = mem.cleared
  <2>1. "verifying" \in States
    BY DEF States
  <2>2. Good(verifying)
    BY <1>1, <2>1, EnteringAdvances DEF Advances
  <2>3. QED
    BY <1>1, <2>2 DEF Good, Runtime, Entering
<1>4. Good(quarantined) /\ quarantined.attempts = mem.attempts /\ quarantined.quarantine
  <2>1. mem \in Runtime /\ mem.stage + 1 \in Nat
    BY <1>1 DEF Good, Runtime
  <2>2. /\ bumped \in Runtime /\ bumped.attempts = mem.attempts /\ bumped.state = mem.state
        /\ bumped.incident = mem.incident /\ bumped.quarantine = mem.quarantine
        /\ bumped.lastRecovery = mem.lastRecovery
    BY <2>1 DEF Runtime
  <2> HIDE DEF bumped
  <2>3. Good(bumped)
    BY <1>1, <2>2 DEF Good, Sound
  <2>4. mem.incident \in Failures
    BY <1>1 DEF Good, Runtime
  <2>5. QED
    BY <2>2, <2>3, <2>4, QuarantinedAdvances DEF Advances
<1>5. CASE ActionTimesOut
  <2>1. Conclude(failed) /\ stray' \subseteq Programs
    BY <1>1, <1>5, ProgramTyped DEF ActionTimesOut
  <2> HIDE DEF failed
  <2>2. QED
    BY <1>1, <1>2, <2>1, ConcludeHolds
<1>6. CASE ClearLockFiles
  <2>1. stray' \subseteq Programs /\ (Conclude(verifying) \/ Conclude(failed))
    BY <1>1, <1>6 DEF ClearLockFiles
  <2> HIDE DEF failed, verifying
  <2>2. CASE Conclude(verifying)
    BY <1>1, <1>3, <2>1, <2>2, ConcludeHolds
  <2>3. CASE Conclude(failed)
    BY <1>1, <1>2, <2>1, <2>3, ConcludeHolds
  <2>4. QED
    BY <2>1, <2>2, <2>3
<1>7. CASE QuarantineAction
  <2>1. Conclude(quarantined) /\ stray' \subseteq Programs
    BY <1>1, <1>7 DEF QuarantineAction
  <2> HIDE DEF quarantined
  <2>2. QED
    BY <1>1, <1>4, <2>1, ConcludeHolds
<1>8. QED
  BY <1>5, <1>6, <1>7

\* A step of the container: the records learn that it was started again, or nothing.
ContainerMoves ==
    /\ container' \in Containers
    /\ \/ runtime' = runtime /\ mem' = mem
       \/ runtime' = Outdated(runtime) /\ mem' = Outdated(mem)
    /\ UNCHANGED <<desired, pc, acted>>
    /\ stray' \subseteq Programs

LEMMA ContainerMovesHolds == IInv /\ ContainerMoves => IInv' /\ QuarantineKept
<1> SUFFICES ASSUME IInv, ContainerMoves PROVE IInv' /\ QuarantineKept
  OBVIOUS
<1>1. runtime \in Runtime /\ mem \in Runtime
  BY DEF IInv, TypeOK
<1>2. CASE runtime' = runtime /\ mem' = mem
  BY <1>2 DEF IInv, TypeOK, EveryActionOnRecord, InFlight, ContainerMoves, QuarantineKept
<1>3. CASE runtime' = Outdated(runtime) /\ mem' = Outdated(mem)
  <2>1. /\ Outdated(runtime) \in Runtime
        /\ Sound(runtime) => Sound(Outdated(runtime))
        /\ Outdated(runtime).attempts = runtime.attempts
        /\ Outdated(runtime).quarantine = runtime.quarantine
        /\ Outdated(runtime).cleared = runtime.cleared
        /\ Outdated(runtime).lease = runtime.lease
    BY <1>1, OutdatedGood
  <2>2. /\ Outdated(mem) \in Runtime
        /\ Sound(mem) => Sound(Outdated(mem))
        /\ Outdated(mem).attempts = mem.attempts /\ Outdated(mem).incident = mem.incident
        /\ Outdated(mem).quarantine = mem.quarantine /\ Outdated(mem).cleared = mem.cleared
    BY <1>1, OutdatedGood
  <2>3. QED
    BY <1>3, <2>1, <2>2
    DEF IInv, TypeOK, EveryActionOnRecord, InFlight, ContainerMoves, QuarantineKept
<1>4. QED
  BY <1>2, <1>3 DEF ContainerMoves

LEMMA ProgramRest ==
    ASSUME NEW program \in Programs, Tail(program) # << >>
    PROVE  Tail(program) \in Programs
<1>1. CASE program = <<"restart">>
  BY <1>1
<1>2. CASE program = <<"start">>
  BY <1>2
<1>3. CASE program = <<"stop", "start">>
  <2>1. Tail(program) = <<"start">>
    BY <1>3
  <2>2. QED
    BY <2>1 DEF Programs
<1>4. QED
  BY <1>1, <1>2, <1>3 DEF Programs

LEMMA ContainerStepsHold ==
    ASSUME IInv,
           (\E program \in stray : StrayThread(program)) \/ ContainerHandler \/ DockerEvent
           \/ PlannedMutates
    PROVE  IInv' /\ QuarantineKept
<1>1. stray \subseteq Programs /\ container \in Containers
  BY DEF IInv, TypeOK
<1>2. ASSUME StartContainer \/ StopContainer \/ LeaveContainer
      PROVE  /\ container' \in Containers
             /\ \/ runtime' = runtime /\ mem' = mem
                \/ runtime' = Outdated(runtime) /\ mem' = Outdated(mem)
  BY <1>1, <1>2 DEF StartContainer, StopContainer, LeaveContainer, Containers
<1>3. CASE \E program \in stray : StrayThread(program)
  <2>1. PICK program \in stray : StrayThread(program)
    BY <1>3
  <2>2. stray' \subseteq Programs
    <3>1. \/ stray' \subseteq stray
          \/ stray' = (stray \ {program}) \cup {Tail(program)} /\ Tail(program) # << >>
      BY <2>1 DEF StrayThread
    <3>2. Tail(program) # << >> => Tail(program) \in Programs
      BY <1>1, ProgramRest
    <3>3. QED
      BY <1>1, <3>1, <3>2
  <2>3. /\ StartContainer \/ StopContainer \/ LeaveContainer
        /\ UNCHANGED <<desired, pc, acted>>
    BY <2>1 DEF StrayThread
  <2>4. QED
    BY <1>2, <2>2, <2>3, ContainerMovesHolds DEF ContainerMoves
<1>4. CASE ContainerHandler
  <2>1. \/ StartContainer \/ StopContainer
        \/ container' = "missing" /\ UNCHANGED <<runtime, mem>>
    BY <1>4 DEF ContainerHandler
  <2>2. QED
    BY <1>1, <1>2, <1>4, <2>1, ContainerMovesHolds
    DEF ContainerHandler, ContainerMoves, Containers
<1>5. CASE DockerEvent
  <2>1. \/ StartContainer
        \/ container' \in {"exited", "restarting"} /\ UNCHANGED <<runtime, mem>>
    BY <1>5 DEF DockerEvent
  <2>2. QED
    BY <1>1, <1>2, <1>5, <2>1, ContainerMovesHolds DEF DockerEvent, ContainerMoves, Containers
<1>6. CASE PlannedMutates
  BY <1>1, <1>2, <1>6, ContainerMovesHolds DEF PlannedMutates, ContainerMoves
<1>7. QED
  BY <1>3, <1>4, <1>5, <1>6

LEMMA PlannedHolds ==
    ASSUME IInv, PlannedBegins \/ PlannedEnds
    PROVE  IInv' /\ QuarantineKept
<1>1. TypeOK /\ Good(runtime) /\ acted \subseteq runtime.attempts
  BY DEF IInv, TypeOK, Good, EveryActionOnRecord
<1>2. ASSUME NEW r, Good(r), NEW lease \in 0..LocalLease
      PROVE  LET s == [r EXCEPT !.lease = lease]
             IN  /\ Good(s) /\ s.attempts = r.attempts
                 /\ s.quarantine = r.quarantine
  BY <1>2 DEF Good, Runtime, Sound
<1>3. CASE PlannedBegins
  <2> DEFINE old == Loaded(runtime, desired)
             new == [old EXCEPT !.lease = LocalLease]
  <2>1. Good(old) /\ old.attempts = runtime.attempts /\ old.quarantine = runtime.quarantine
    BY <1>1, LoadedGood DEF TypeOK
  <2>2. /\ runtime' = new /\ pc' = "planned"
        /\ UNCHANGED <<desired, container, mem, stray, acted>>
    BY <1>3 DEF PlannedBegins
  <2> HIDE DEF old
  <2>3. Good(new) /\ new.attempts = runtime.attempts /\ new.quarantine = runtime.quarantine
    BY <1>2, <2>1, ZeroInRange
  <2> HIDE DEF new
  <2>4. QED
    BY <1>1, <2>2, <2>3
    DEF IInv, TypeOK, EveryActionOnRecord, InFlight, Good, QuarantineKept
<1>4. CASE PlannedEnds
  <2> DEFINE new == [runtime EXCEPT !.lease = 0]
  <2>1. /\ runtime' = new /\ pc' = "idle"
        /\ UNCHANGED <<desired, container, mem, stray, acted>>
    BY <1>4 DEF PlannedEnds
  <2>2. Good(new) /\ new.attempts = runtime.attempts /\ new.quarantine = runtime.quarantine
    BY <1>1, <1>2, ZeroInRange
  <2> HIDE DEF new
  <2>3. QED
    BY <1>1, <2>1, <2>2
    DEF IInv, TypeOK, EveryActionOnRecord, InFlight, Good, QuarantineKept
<1>5. QED
  BY <1>3, <1>4

LEMMA TickHolds == IInv /\ Tick => IInv' /\ QuarantineKept
<1> SUFFICES ASSUME IInv, Tick PROVE IInv' /\ QuarantineKept
  OBVIOUS
<1>1. TypeOK /\ Good(runtime) /\ acted \subseteq runtime.attempts
  BY DEF IInv, TypeOK, Good, EveryActionOnRecord
<1>2. /\ Good(Aged(runtime)) /\ Aged(runtime).attempts = AgedSet(runtime.attempts)
      /\ Aged(runtime).quarantine = runtime.quarantine
      /\ Aged(runtime).cleared = runtime.cleared
  BY <1>1, AgedGood
<1>3. /\ desired' \in Desired
      /\ desired'.clearOp = desired.clearOp
  <2>1. Younger(desired.lease) \in 0..PanelLease
    BY <1>1, ConstantsInRange DEF TypeOK, Desired, Younger
  <2>2. desired' = [desired EXCEPT !.lease = Younger(desired.lease)]
    BY DEF Tick
  <2>3. QED
    BY <1>1, <2>1, <2>2 DEF TypeOK, Desired
<1>4. /\ acted' = AgedSet(acted) /\ AgedSet(acted) \in SUBSET (0..Window)
      /\ \A S \in SUBSET (0..Window) : acted \subseteq S => AgedSet(acted) \subseteq AgedSet(S)
  BY <1>1, AgedSetSmaller DEF Tick, TypeOK, AgedSet
<1>5. /\ runtime.attempts \in SUBSET (0..Window)
      /\ mem \in Runtime /\ mem.attempts \in SUBSET (0..Window)
  BY <1>1 DEF TypeOK, Runtime
<1>6. /\ runtime' = Aged(runtime) /\ pc' = pc /\ container' = container /\ stray' = stray
      /\ pc \in {"idle", "execute", "planned", "stop"}
  BY DEF Tick
<1>7. AgedSet(acted) \subseteq runtime'.attempts
  BY <1>1, <1>2, <1>4, <1>5, <1>6
<1>8. CASE pc = "execute"
  <2>1. Good(mem) /\ acted \subseteq mem.attempts /\ mem.incident # None
        /\ (runtime.quarantine /\ ~mem.quarantine =>
                mem.cleared = desired.clearOp /\ mem.cleared # runtime.cleared)
    BY <1>5, <1>8 DEF IInv, InFlight, Good
  <2>2. /\ mem' = Aged(mem)
        /\ Good(Aged(mem)) /\ Aged(mem).attempts = AgedSet(mem.attempts)
        /\ Aged(mem).incident = mem.incident
        /\ Aged(mem).quarantine = mem.quarantine /\ Aged(mem).cleared = mem.cleared
    BY <1>8, <2>1, AgedGood DEF Tick
  <2>3. AgedSet(acted) \subseteq Aged(mem).attempts
    BY <1>4, <1>5, <2>1, <2>2
  <2>4. QED
    BY <1>1, <1>2, <1>3, <1>4, <1>6, <1>7, <1>8, <2>1, <2>2, <2>3
    DEF IInv, TypeOK, EveryActionOnRecord, InFlight, Good, QuarantineKept
<1>9. CASE pc # "execute"
  <2>1. mem' \in Runtime
    <3>1. \A r \in Runtime : Aged(r) \in Runtime
      BY AgedTyped
    <3>2. QED
      BY <1>5, <3>1 DEF Tick
  <2>2. QED
    BY <1>1, <1>2, <1>3, <1>4, <1>6, <1>7, <1>9, <2>1
    DEF IInv, TypeOK, EveryActionOnRecord, InFlight, Good, QuarantineKept
<1>10. QED
  BY <1>8, <1>9

LEMMA CrashHolds == IInv /\ Crash => IInv' /\ QuarantineKept
<1> SUFFICES ASSUME IInv, Crash PROVE IInv' /\ QuarantineKept
  OBVIOUS
<1>1. TypeOK /\ Good(runtime) /\ acted \subseteq runtime.attempts
  BY DEF IInv, TypeOK, Good, EveryActionOnRecord
<1>2. /\ container' \in Containers
      /\ runtime' \in {runtime, Outdated(runtime)}
  BY <1>1 DEF Crash, TypeOK, Containers
<1>3. /\ Good(runtime') /\ runtime'.attempts = runtime.attempts
      /\ runtime'.quarantine = runtime.quarantine
  BY <1>1, <1>2, OutdatedGood DEF Good
<1>4. /\ pc' = "idle" /\ mem' = Blank /\ stray' = {} /\ desired' = desired /\ acted' = acted
  BY DEF Crash
<1>5. QED
  BY <1>1, <1>2, <1>3, <1>4, BlankGood
  DEF IInv, TypeOK, EveryActionOnRecord, InFlight, Good, QuarantineKept

LEMMA NextHolds == IInv /\ [Next]_vars => IInv' /\ (QuarantineKept \/ UNCHANGED vars)
<1> SUFFICES ASSUME IInv, [Next]_vars PROVE IInv' /\ (QuarantineKept \/ UNCHANGED vars)
  OBVIOUS
<1>1. CASE Accept
  BY <1>1, AcceptHolds
<1>2. CASE SaveRuntime
  BY <1>2, SaveHolds
<1>3. CASE Pass
  BY <1>3, SimplePassesHold, PassStopsContainerHolds, PassChecksHolds DEF Pass
<1>4. CASE Act
  BY <1>4, BeginActionHolds, ActHolds DEF Act
<1>5. CASE Environment
  BY <1>5, ContainerStepsHold, PlannedHolds, TickHolds DEF Environment
<1>6. CASE Crash
  BY <1>6, CrashHolds
<1>7. CASE UNCHANGED vars
  BY <1>7 DEF IInv, TypeOK, EveryActionOnRecord, InFlight, Sound, vars
<1>8. QED
  BY <1>1, <1>2, <1>3, <1>4, <1>5, <1>6, <1>7 DEF Next

-----------------------------------------------------------------------------
(* The theorems.                                                           *)

\* The inductive invariant holds in every state a Guardian can be in.
THEOREM Invariance == Spec => []IInv
<1>1. Init => IInv
  BY InitHolds
<1>2. IInv /\ [Next]_vars => IInv'
  BY NextHolds
<1>3. QED
  BY <1>1, <1>2, PTL DEF Spec

\* Type correctness: runtime-state.json, the copy of it a pass works on and the desired
\* state stay within their types, whatever the lengths of ladders, leases and windows are.
THEOREM TypeCorrect == Spec => []TypeOK
<1>1. IInv => TypeOK
  BY DEF IInv
<1>2. QED
  BY <1>1, Invariance, PTL

\* Crash safety of the attempt record: for every policy, window and budget, no recovery
\* action that was begun for the current incident is missing from runtime-state.json.
THEOREM AttemptsDurable == Spec => []EveryActionOnRecord
<1>1. IInv => EveryActionOnRecord
  BY DEF IInv
<1>2. QED
  BY <1>1, Invariance, PTL

\* The budget: at most max_attempts actions are begun for one incident in one window.
THEOREM BudgetHolds == Spec => []BudgetRespected
<1>1. IInv => BudgetRespected
  <2> SUFFICES ASSUME IInv PROVE BudgetRespected
    OBVIOUS
  <2>1. /\ runtime.attempts \in SUBSET (0..Window) /\ acted \in SUBSET runtime.attempts
        /\ Cardinality(runtime.attempts) <= MaxAttempts
    BY DEF IInv, TypeOK, Runtime, Sound, EveryActionOnRecord
  <2>2. /\ IsFiniteSet(runtime.attempts) /\ Cardinality(runtime.attempts) \in Nat
    BY <2>1, AttemptsFinite
  <2>3. Cardinality(acted) <= Cardinality(runtime.attempts) /\ Cardinality(acted) \in Nat
    BY <2>1, <2>2, FS_Subset, FS_CardinalityType
  <2>4. QED
    BY <2>1, <2>2, <2>3, ConstantsInRange DEF BudgetRespected
<1>2. QED
  BY <1>1, Invariance, PTL

\* Without an incident the ladder is at its bottom, an attempt under way has an incident to
\* report to, and a server shown as quarantined is.
THEOREM LadderHolds == Spec => []LadderBelongsToIncident
<1>1. IInv => LadderBelongsToIncident
  BY DEF IInv, Sound, LadderBelongsToIncident
<1>2. QED
  BY <1>1, Invariance, PTL

\* The cooldown holds between any two actions of one incident, across crashes, stages and
\* failed verifications.
THEOREM CooldownHolds == Spec => CooldownRespected
<1>1. IInv /\ [Next]_vars => [BeginAction => \A age \in acted : age >= Cooldown]_vars
  BY DEF IInv, InFlight, BeginAction
<1>2. QED
  BY <1>1, Invariance, PTL DEF Spec, CooldownRespected

\* No action is begun for a server that is suspended, quarantined, disabled or to be stopped.
THEOREM AuthorisationHolds == Spec => RecoveryAuthorised
<1>1. IInv /\ [Next]_vars
          => [BeginAction => /\ desired.enabled /\ desired.power = "running"
                             /\ ~runtime.quarantine
                             /\ desired.lease = 0 /\ runtime.lease = 0]_vars
  BY DEF IInv, InFlight, BeginAction
<1>2. QED
  BY <1>1, Invariance, PTL DEF Spec, RecoveryAuthorised

\* A quarantine ends only through a fresh clear operation.
THEOREM QuarantineHolds == Spec => QuarantineNeedsClear
<1>1. IInv /\ [Next]_vars
          => [runtime.quarantine /\ ~runtime'.quarantine
                  => runtime'.cleared = desired.clearOp /\ runtime'.cleared # runtime.cleared]_vars
  BY NextHolds DEF QuarantineKept
<1>2. QED
  BY <1>1, Invariance, PTL DEF Spec, QuarantineNeedsClear
=============================================================================
