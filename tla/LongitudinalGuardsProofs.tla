---------------------- MODULE LongitudinalGuardsProofs ----------------------
(***************************************************************************)
(* Proofs about the two guards on the car's speed: the cruise controller,  *)
(* for all timeouts, integral limits and sets of tracks, and the           *)
(* standing-start guard, for all speeds, thresholds, dwell times, attempt  *)
(* bounds and caps.                                                        *)
(***************************************************************************)
EXTENDS CruiseControllerHistory, HfiLaunchGuardHistory, TLAPS

-----------------------------------------------------------------------------
(* The cruise controller.                                                    *)

USE CruiseTimeoutAssumption, CruiseLimitAssumption, CruiseIdAssumption, MixedAssumption

\* Whatever is not a timer cycle of the control law, the observer follows the integral.
LEMMA NoFollowContributor ==
    ASSUME contributor' = Contributor, ~(OnTimer /\ Follow)
    PROVE  contributor' = IF integral' = 0 THEN NoId ELSE contributor
BY DEF Contributor

\* The control law keeps the integral within its clamp.
LEMMA IntegrateType ==
    ASSUME NEW e \in -1..1, integral \in -IntegralLimit..IntegralLimit
    PROVE  Integrate(e) \in -IntegralLimit..IntegralLimit
BY DEF Integrate

LEMMA CruiseInitInductive == CHInit => CruiseInv
<1>1. SUFFICES ASSUME CHInit PROVE CruiseInv
  OBVIOUS
<1>2. trackKnown \in BOOLEAN /\ cruise \in BOOLEAN /\ engaged \in BOOLEAN
  BY <1>1 DEF CHInit, CruiseInit
<1>3. /\ egoAge \in 0..EgoTimeout + 1 /\ stateAge \in 0..StateTimeout + 1
      /\ targetAge \in 0..OpponentTimeout + 1 /\ emptyAge \in NotEmpty..ClearConfirm
      /\ integral \in -IntegralLimit..IntegralLimit
  BY <1>1 DEF CHInit, CruiseInit, NotEmpty
<1>4. CruiseTypeOK
  BY <1>1, <1>2, <1>3 DEF CHInit, CruiseInit, CruiseTypeOK
<1>5. EmptyRunIsYounger
  BY <1>1 DEF CHInit, CruiseInit, EmptyRunIsYounger
<1> QED
  BY <1>1, <1>4, <1>5 DEF CHInit, CruiseInit, CruiseInv, IntegralIsOfTarget

\* Inputs that do not concern the target.
LEMMA EgoInductive ==
    ASSUME CruiseInv, OnCruiseGlobal \/ OnEgoFrenet, contributor' = Contributor,
           ~(OnTimer /\ Follow)
    PROVE  CruiseInv'
<1>1. /\ UNCHANGED <<cruise, stateAge, target, targetAge, engaged, emptyAge, integral, limit>>
      /\ gap' \in Gap
  BY DEF OnCruiseGlobal, OnEgoFrenet, following
<1>2. trackKnown' \in BOOLEAN
  BY DEF OnCruiseGlobal, OnEgoFrenet, CruiseInv, CruiseTypeOK
<1>3. egoAge' \in 0..EgoTimeout + 1
  BY DEF OnCruiseGlobal, OnEgoFrenet, CruiseInv, CruiseTypeOK
<1>4. CruiseTypeOK'
  BY <1>1, <1>2, <1>3 DEF CruiseInv, CruiseTypeOK
<1>5. contributor' \in {contributor, NoId}
  BY NoFollowContributor
<1> QED
  BY <1>1, <1>4, <1>5, NoFollowContributor DEF CruiseInv, IntegralIsOfTarget,
     EmptyRunIsYounger

\* The opponent callback: an empty array starts an empty run, a valid opponent ends
\* it and resets the integral unless it is the target already followed.
LEMMA OpponentInductive ==
    ASSUME CruiseInv, OnOpponentEmpty \/ OnOpponentTarget, contributor' = Contributor,
           ~(OnTimer /\ Follow)
    PROVE  CruiseInv'
<1>1. contributor' = IF integral' = 0 THEN NoId ELSE contributor
  BY NoFollowContributor
<1>2. CASE OnOpponentEmpty
  <2>1. UNCHANGED <<trackKnown, egoAge, cruise, stateAge, target, targetAge, engaged, gap,
                    integral, limit>>
    BY <1>2 DEF OnOpponentEmpty, ego
  <2>2. emptyAge' = IF engaged /\ emptyAge = NotEmpty THEN 0 ELSE emptyAge
    BY <1>2 DEF OnOpponentEmpty
  <2>3. emptyAge' = emptyAge \/ (engaged /\ emptyAge' = 0)
    BY <2>2 DEF CruiseInv, CruiseTypeOK
  <2>4. emptyAge' \in NotEmpty..ClearConfirm
    BY <2>3 DEF CruiseInv, CruiseTypeOK, NotEmpty
  <2>5. CruiseTypeOK'
    BY <2>1, <2>4 DEF CruiseInv, CruiseTypeOK
  <2>6. EmptyRunIsYounger'
    BY <2>1, <2>3 DEF CruiseInv, CruiseTypeOK, EmptyRunIsYounger
  <2> QED
    BY <1>1, <2>1, <2>5, <2>6 DEF CruiseInv, IntegralIsOfTarget
<1>3. CASE OnOpponentTarget
  <2> PICK id \in OpponentIds :
        /\ integral' = Acquired(id) /\ target' = id /\ gap' \in Gap
        /\ targetAge' = 0 /\ engaged' = TRUE /\ emptyAge' = NotEmpty
        /\ UNCHANGED <<trackKnown, egoAge, cruise, stateAge, limit>>
    BY <1>3 DEF OnOpponentTarget, EmptyAfterTarget, ego
  <2>1. integral' = 0 \/ (integral' = integral /\ engaged /\ target' = target)
    BY DEF Acquired
  <2>2. integral' \in -IntegralLimit..IntegralLimit
    BY <2>1 DEF CruiseInv, CruiseTypeOK
  <2>3. CruiseTypeOK'
    BY <2>2 DEF CruiseInv, CruiseTypeOK, NotEmpty
  <2>4. EmptyRunIsYounger'
    BY DEF EmptyRunIsYounger, NotEmpty
  <2>5. contributor' # NoId => cruise' /\ engaged' /\ contributor' = target'
    BY <1>1, <2>1 DEF CruiseInv
  <2>6. IntegralIsOfTarget'
    BY <1>1, <2>1 DEF CruiseInv, IntegralIsOfTarget
  <2> QED
    BY <1>1, <2>3, <2>4, <2>5, <2>6 DEF CruiseInv
<1> QED
  BY <1>2, <1>3

LEMMA StateInductive ==
    ASSUME CruiseInv, OnState, contributor' = Contributor, ~(OnTimer /\ Follow)
    PROVE  CruiseInv'
<1>1. contributor' = IF integral' = 0 THEN NoId ELSE contributor
  BY NoFollowContributor
<1> PICK isCruise \in BOOLEAN :
      /\ cruise' = isCruise /\ stateAge' = 0
      /\ integral' = AfterState(isCruise)
      /\ UNCHANGED <<trackKnown, egoAge, target, targetAge, engaged, emptyAge, gap, limit>>
  BY DEF OnState, ego, following
<1>2. integral' = 0 \/ (integral' = integral /\ cruise' = cruise)
  BY DEF AfterState, CruiseInv, CruiseTypeOK
<1>3. integral' \in -IntegralLimit..IntegralLimit
  BY <1>2 DEF CruiseInv, CruiseTypeOK
<1>4. cruise' \in BOOLEAN
  OBVIOUS
<1>5. stateAge' \in 0..StateTimeout + 1
  OBVIOUS
<1>6. CruiseTypeOK'
  BY <1>3, <1>4, <1>5 DEF CruiseInv, CruiseTypeOK
<1>7. contributor' # NoId => cruise' /\ engaged' /\ contributor' = target'
  BY <1>1, <1>2 DEF CruiseInv
<1>8. IntegralIsOfTarget'
  BY <1>1, <1>2 DEF CruiseInv, IntegralIsOfTarget
<1> QED
  BY <1>1, <1>6, <1>7, <1>8 DEF CruiseInv, EmptyRunIsYounger

\* The timer: only the control law adds to the integral, on the target followed.
LEMMA TimerInductive ==
    ASSUME CruiseInv, OnTimer, contributor' = Contributor
    PROVE  CruiseInv'
<1>1. UNCHANGED <<trackKnown, egoAge, cruise, stateAge, target, targetAge, gap>>
  BY DEF OnTimer, ego
<1>2. CASE Follow
  <2>1. /\ cruise /\ engaged
        /\ integral' = Integrate(gap.error)
        /\ limit' \in {"stop", "follow"}
        /\ UNCHANGED <<engaged, emptyAge>>
    BY <1>2 DEF Follow
  <2>2. gap.error \in -1..1
    BY DEF CruiseInv, CruiseTypeOK, Gap
  <2>3. integral' \in -IntegralLimit..IntegralLimit
    BY <2>1, <2>2, IntegrateType DEF CruiseInv, CruiseTypeOK
  <2>4. contributor' = target
    BY <1>2 DEF Contributor, CruiseInv
  <2>5. CruiseTypeOK'
    BY <1>1, <2>1, <2>3 DEF CruiseInv, CruiseTypeOK
  <2> QED
    BY <1>1, <2>1, <2>4, <2>5 DEF CruiseInv, CruiseTypeOK, IntegralIsOfTarget,
       EmptyRunIsYounger
<1>3. CASE ~Follow
  <2>1. contributor' = IF integral' = 0 THEN NoId ELSE contributor
    BY <1>3, NoFollowContributor
  <2>2. \/ UNCHANGED <<engaged, emptyAge, integral>>
        \/ engaged' = FALSE /\ emptyAge' = NotEmpty /\ integral' = 0
    BY <1>3 DEF OnTimer, NotCruising, StateLost, DropTarget, FollowBlind
  <2>3. limit' \in {"maximum", "blind"}
    BY <1>3 DEF OnTimer, NotCruising, StateLost, DropTarget, FollowBlind
  <2>4. engaged' \in BOOLEAN
    BY <2>2 DEF CruiseInv, CruiseTypeOK
  <2>5. /\ emptyAge' \in NotEmpty..ClearConfirm
        /\ integral' \in -IntegralLimit..IntegralLimit
    BY <2>2 DEF CruiseInv, CruiseTypeOK, NotEmpty
  <2>6. CruiseTypeOK'
    BY <1>1, <2>3, <2>4, <2>5 DEF CruiseInv, CruiseTypeOK
  <2>7. EmptyRunIsYounger'
    BY <1>1, <2>2 DEF CruiseInv, CruiseTypeOK, EmptyRunIsYounger, NotEmpty
  <2> QED
    BY <1>1, <2>1, <2>2, <2>6, <2>7 DEF CruiseInv, IntegralIsOfTarget
<1> QED
  BY <1>2, <1>3

LEMMA TimeInductive ==
    ASSUME CruiseInv, CruiseElapse, contributor' = Contributor, ~(OnTimer /\ Follow)
    PROVE  CruiseInv'
<1>1. UNCHANGED <<trackKnown, cruise, target, engaged, gap, integral, limit>>
  BY DEF CruiseElapse
<1>2. /\ egoAge' \in 0..EgoTimeout + 1
      /\ stateAge' \in 0..StateTimeout + 1
      /\ targetAge' \in 0..OpponentTimeout + 1
      /\ emptyAge' \in NotEmpty..ClearConfirm
  BY DEF CruiseElapse, Grow, CruiseInv, CruiseTypeOK, NotEmpty
<1>3. CruiseTypeOK'
  BY <1>1, <1>2 DEF CruiseInv, CruiseTypeOK
<1>4. emptyAge' # NotEmpty => engaged'
  BY <1>1 DEF CruiseElapse, CruiseInv, EmptyRunIsYounger
<1>5. targetAge' <= OpponentTimeout => emptyAge' <= targetAge'
  BY DEF CruiseElapse, Grow, CruiseInv, CruiseTypeOK, EmptyRunIsYounger, NotEmpty
<1> QED
  BY <1>1, <1>3, <1>4, <1>5, NoFollowContributor DEF CruiseInv, IntegralIsOfTarget,
     EmptyRunIsYounger

LEMMA CruiseNextInductive == CruiseInv /\ [CHNext]_chvars => CruiseInv'
<1>1. SUFFICES ASSUME CruiseInv, [CHNext]_chvars PROVE CruiseInv'
  OBVIOUS
<1>2. CASE UNCHANGED chvars
  BY <1>1, <1>2 DEF chvars, cvars, ego, following, CruiseInv, CruiseTypeOK,
     IntegralIsOfTarget, EmptyRunIsYounger
<1>3. CASE OnTimer /\ contributor' = Contributor
  BY <1>1, <1>3, TimerInductive
<1>4. CASE ~OnTimer /\ CHNext
  BY <1>1, <1>4, EgoInductive, OpponentInductive, StateInductive, TimeInductive
     DEF CHNext, CruiseNext
<1> QED
  BY <1>1, <1>2, <1>3, <1>4 DEF CHNext

LEMMA CruiseInvariance == CHSpec => []CruiseInv
<1>1. CHInit => CruiseInv
  BY CruiseInitInductive
<1>2. CruiseInv /\ [CHNext]_chvars => CruiseInv'
  BY CruiseNextInductive
<1> QED
  BY <1>1, <1>2, PTL DEF CHSpec

-----------------------------------------------------------------------------
\* The type invariant, including the anti-windup bound of the gap integral.
THEOREM CruiseTypeCorrect == CHSpec => []CruiseTypeOK
<1>1. CruiseInv => CruiseTypeOK
  BY DEF CruiseInv
<1> QED
  BY CruiseInvariance, <1>1, PTL

\* The integral never holds the errors of another target or of an earlier visit.
THEOREM IntegralNotCarriedOver == CHSpec => []IntegralIsOfTarget
<1>1. CruiseInv => IntegralIsOfTarget
  BY DEF CruiseInv
<1> QED
  BY CruiseInvariance, <1>1, PTL

\* Dropping a target never takes away a measurement younger than opponent_timeout.
THEOREM OnlyStaleTargetsDropped == CHSpec => DroppedTargetIsStale
<1>1. CruiseInv /\ [CHNext]_chvars => [engaged /\ ~engaged' => targetAge >= OpponentTimeout]_chvars
  <2>1. SUFFICES ASSUME CruiseInv, CHNext, engaged, ~engaged'
                 PROVE  targetAge >= OpponentTimeout
    OBVIOUS
  <2>2. OnTimer /\ DropTarget
    BY <2>1 DEF CHNext, CruiseNext, OnCruiseGlobal, OnEgoFrenet, OnOpponentEmpty,
       OnOpponentTarget, OnState, CruiseElapse, OnTimer, NotCruising, StateLost,
       FollowBlind, Follow, following
  <2>3. emptyAge >= ClearConfirm
    BY <2>2 DEF DropTarget, Cleared
  <2> QED
    BY <2>1, <2>3 DEF CruiseInv, CruiseTypeOK, EmptyRunIsYounger
<1> QED
  BY CruiseInvariance, <1>1, PTL DEF CHSpec, DroppedTargetIsStale

\* Both together: what TLC checks of the target on a small instance.
THEOREM TargetKept == CHSpec => TargetIsKept
BY CruiseTypeCorrect, IntegralNotCarriedOver, OnlyStaleTargetsDropped, PTL DEF TargetIsKept

-----------------------------------------------------------------------------
(* The standing-start guard.                                                 *)

USE SpeedAssumption, DwellAssumption, AttemptAssumption, RestAssumption

-----------------------------------------------------------------------------
(* Lemmas about the helpers.                                                *)

LEMMA TickType ==
    ASSUME NEW b \in Nat, NEW t \in 0..b
    PROVE  /\ Tick(t, b) \in 0..b /\ Tick(t, b) >= t
           /\ t < b => Tick(t, b) = t + 1
           /\ Tick(t, b) < b => Tick(t, b) = t + 1
           /\ Tick(t, b) \in {t, t + 1}
BY DEF Tick

LEMMA TickIfType ==
    ASSUME NEW b \in Nat, NEW t \in 0..b, NEW holds \in BOOLEAN
    PROVE  TickIf(holds, t, b) \in 0..b /\ (holds => TickIf(holds, t, b) = Tick(t, b))
           /\ (~holds => TickIf(holds, t, b) = 0)
BY TickType DEF TickIf

\* Every speed is an integer.
LEMMA SpeedInt == ASSUME NEW v \in Speeds PROVE v \in Int
<1>1. CASE v \in ForwardSpeeds
  BY <1>1
<1>2. CASE v \in {-u : u \in BackwardSpeeds}
  <2> PICK u \in BackwardSpeeds : v = -u
    BY <1>2
  <2> QED
    OBVIOUS
<1> QED
  BY <1>1, <1>2 DEF Speeds

\* What a cycle senses has its type, whatever the speed, the filter and the leak.
LEMMA SenseType ==
    ASSUME HfiTypeOK, NEW v \in Speeds, Sense(v)
    PROVE  /\ standstill' \in BOOLEAN
           /\ filtered' \in Int /\ filtered' >= Uninitialised
           /\ settle' \in -SettleBound..SettleBound
<1>1. v \in Int
  BY SpeedInt
<1>2. Abs(v) \in Nat
  BY <1>1 DEF Abs
<1>3. filtered \in Int /\ filtered >= Uninitialised /\ standstill \in BOOLEAN
  BY DEF HfiTypeOK
<1> PICK f \in IF filtered = Uninitialised THEN {Abs(v)} ELSE Between(filtered, Abs(v)) :
      filtered' = f /\ standstill' = SchmittNext(v, f)
  BY DEF Sense
<1>4. f \in Int /\ f >= Uninitialised
  BY <1>2, <1>3 DEF Between, Uninitialised
<1>5. standstill' \in BOOLEAN
  <2>1. CASE filtered = Uninitialised
    <3>1. standstill' = (Abs(v) < StandstillEnter)
      BY <2>1 DEF SchmittNext
    <3> QED
      BY <3>1, <1>2
  <2>2. CASE filtered # Uninitialised /\ standstill
    BY <2>2, Zenon DEF SchmittNext
  <2>3. CASE filtered # Uninitialised /\ ~standstill
    BY <2>3, Zenon DEF SchmittNext
  <2> QED
    BY <1>3, <2>1, <2>2, <2>3
<1>6. settle' \in -SettleBound..SettleBound
  <2>1. settle + v \in Int
    BY <1>1 DEF HfiTypeOK
  <2>2. Clamp(settle + v, SettleBound) \in -SettleBound..SettleBound
    BY <2>1 DEF Clamp
  <2>3. PICK leak \in {0, 1} :
          settle' = IF Clamp(settle + v, SettleBound) > 0
                    THEN Clamp(settle + v, SettleBound) - leak
                    ELSE IF Clamp(settle + v, SettleBound) < 0
                         THEN Clamp(settle + v, SettleBound) + leak ELSE 0
    BY DEF Sense
  <2> QED
    BY <2>2, <2>3
<1> QED
  BY <1>4, <1>5, <1>6

LEMMA SettledBoolean == ASSUME standstill' \in BOOLEAN PROVE Settled \in BOOLEAN
BY DEF Settled

-----------------------------------------------------------------------------
(* The observer.                                                            *)

ObserverStep ==
    /\ restRun' = IF active' THEN 0 ELSE RestRun
    /\ rested' = (RestRun >= Rest \/ (rested /\ ~(active /\ ~active')))

\* What the observer makes of a fresh cycle: rest grows by a tick or starts anew, and
\* not having rested means that the run is still short.
LEMMA ObserverType ==
    ASSUME HfiInv, Settled \in BOOLEAN, ObserverStep
    PROVE  /\ restRun' \in 0..Rest /\ rested' \in BOOLEAN
           /\ active' => restRun' = 0
           /\ ~rested' => RestRun < Rest /\ (~active \/ active' => ~rested)
           /\ ~active' => restRun' = RestRun
           /\ RestRun \in 0..Rest
<1>1. restRun \in 0..Rest /\ rested \in BOOLEAN
  BY DEF HfiInv
<1>2. Tick(restRun, Rest) \in 0..Rest
  BY <1>1, TickType
<1>3. RestRun \in 0..Rest
  BY <1>2 DEF RestRun
<1>4. (RestRun >= Rest) \in BOOLEAN
  BY <1>3
<1>5. rested' \in BOOLEAN
  BY <1>4, Zenon DEF ObserverStep
<1>6. restRun' \in 0..Rest
  BY <1>3 DEF ObserverStep
<1>7. ~rested' => ~(RestRun >= Rest) /\ ~(rested /\ ~(active /\ ~active'))
  BY Zenon DEF ObserverStep
<1>8. ~rested' => RestRun < Rest /\ (~active \/ active' => ~rested)
  BY <1>3, <1>7
<1> QED
  BY <1>3, <1>5, <1>6, <1>8 DEF ObserverStep

\* A cycle in which the guard holds the command: the run grows with the settled car.
LEMMA RunGrows ==
    ASSUME HfiInv, Settled, Stopping(demand') \/ (~active /\ command' # "target")
    PROVE  RestRun = Tick(restRun, Rest) /\ RestRun >= restRun
           /\ (restRun < Rest => RestRun = restRun + 1)
<1>1. RestRun = Tick(restRun, Rest)
  BY DEF RestRun
<1>2. restRun \in 0..Rest
  BY DEF HfiInv
<1> QED
  BY <1>1, <1>2, TickType

\* A cycle that pushes or lets the target through is no rest.
LEMMA RunBroken ==
    ASSUME demand' = "go", active \/ command' = "target"
    PROVE  RestRun = 0
BY DEF RestRun, Stopping

-----------------------------------------------------------------------------
(* One lemma per branch.                                                    *)

\* Waiting for the dwell a stop request asked for, at zero.
LEMMA RelatchHoldInductive ==
    ASSUME HfiInv, NEW v \in Speeds, RelatchHold(v), demand' = "go", ObserverStep
    PROVE  HfiInv'
<1>1. Sense(v)
  BY DEF RelatchHold
<1>2. /\ standstill' \in BOOLEAN
      /\ filtered' \in Int /\ filtered' >= Uninitialised
      /\ settle' \in -SettleBound..SettleBound
  BY <1>1, SenseType DEF HfiInv
<1>3. Settled \in BOOLEAN
  BY <1>2, SettledBoolean
<1>4. UNCHANGED <<armed, active, retryWaiting, relatchPending, failureLatched, elapsed,
                  exitHold, distance, reverseElapsed, stallElapsed, cooldownElapsed,
                  latchElapsed, capNow, attempt>>
  BY DEF RelatchHold, progress
<1>5. /\ relatchPending /\ bypassElapsed' = 0 /\ command' = "zero"
      /\ relatchElapsed' = TickIf(Settled, relatchElapsed, RelatchTime)
      /\ ~RelatchDue(1)
  BY DEF RelatchHold, RelatchWaits
<1>6. /\ relatchElapsed' \in 0..RelatchTime
      /\ Settled => relatchElapsed' = Tick(relatchElapsed, RelatchTime)
      /\ ~Settled => relatchElapsed' = 0
  <2>1. relatchElapsed \in 0..RelatchTime /\ RelatchTime \in Nat
    BY DwellAssumption DEF HfiInv, HfiTypeOK
  <2> QED
    BY ONLY <1>3, <1>5, <2>1, TickIfType
<1>7. HfiTypeOK'
  <2>1. /\ armed' \in BOOLEAN /\ active' \in BOOLEAN /\ retryWaiting' \in BOOLEAN
        /\ relatchPending' \in BOOLEAN /\ failureLatched' \in BOOLEAN
    BY <1>4 DEF HfiInv, HfiTypeOK
  <2>2. /\ elapsed' \in Nat /\ exitHold' \in 0..ExitHold
        /\ cooldownElapsed' \in 0..RetryCooldown /\ reverseElapsed' \in 0..ReverseHold
        /\ stallElapsed' \in 0..EscalateDelay /\ latchElapsed' \in 0..LatchReleaseTime
        /\ distance' \in Int /\ capNow' \in 0..CapMax /\ attempt' \in 0..MaxAttempts
    BY <1>4 DEF HfiInv, HfiTypeOK
  <2>3. bypassElapsed' \in 0..BypassHold /\ demand' \in Demands /\ command' \in {"target", "capped", "zero"}
    BY <1>5, DwellAssumption DEF Demands
  <2> QED
    BY <1>2, <1>6, <2>1, <2>2, <2>3 DEF HfiTypeOK
<1>8. ~active /\ ~retryWaiting
  BY <1>5 DEF HfiInv, PhasesExclusive
<1>9. relatchElapsed' < RelatchTime
  BY <1>5, <1>6 DEF RelatchDue
<1>10. /\ restRun' \in 0..Rest /\ rested' \in BOOLEAN
       /\ ~rested' => RestRun < Rest /\ ~rested
       /\ restRun' = RestRun
  BY <1>3, <1>4, <1>8, ObserverType
<1>11. cooldownElapsed = 0 /\ latchElapsed = 0
  BY <1>5, <1>8 DEF HfiInv, HfiTypeOK, DwellsCovered
<1>12. DwellsCovered'
  <2>1. CASE Settled
    <3>1. RestRun >= restRun /\ (restRun < Rest => RestRun = restRun + 1)
      BY <2>1, <1>5, <1>8, RunGrows
    <3>2. relatchElapsed' = relatchElapsed + 1
      BY <2>1, <1>6, <1>9, TickType DEF HfiInv, HfiTypeOK
    <3> QED
      BY <1>4, <1>8, <1>9, <1>10, <1>11, <3>1, <3>2 DEF HfiInv, HfiTypeOK, DwellsCovered
  <2>2. CASE ~Settled
    <3>1. relatchElapsed' = 0
      BY <1>6, <2>2
    <3> QED
      BY <1>4, <1>8, <1>9, <1>10, <1>11, <3>1 DEF HfiInv, HfiTypeOK, DwellsCovered
  <2> QED
    BY <2>1, <2>2
<1> QED
  BY <1>4, <1>7, <1>10, <1>12 DEF HfiInv, PhasesExclusive, CapFresh

\* The dwell is over: the next attempt.
LEMMA RelatchStartInductive ==
    ASSUME HfiInv, NEW v \in Speeds, RelatchStart(v), demand' = "go", ObserverStep
    PROVE  HfiInv'
<1>1. Sense(v)
  BY DEF RelatchStart
<1>2. /\ standstill' \in BOOLEAN
      /\ filtered' \in Int /\ filtered' >= Uninitialised
      /\ settle' \in -SettleBound..SettleBound
  BY <1>1, SenseType DEF HfiInv
<1>3. Settled \in BOOLEAN
  BY <1>2, SettledBoolean
<1>4. UNCHANGED <<retryWaiting, latchElapsed>>
  BY DEF RelatchStart, RelatchWaits
<1>5. /\ active' = TRUE /\ armed' = FALSE
      /\ elapsed' = 0 /\ exitHold' = 0 /\ distance' = 0 /\ reverseElapsed' = 0
      /\ stallElapsed' = 0 /\ cooldownElapsed' = 0 /\ command' = "capped"
      /\ relatchPending' = FALSE /\ failureLatched' = FALSE /\ attempt' = 1
      /\ relatchElapsed' = 0 /\ bypassElapsed' = 0 /\ capNow' = RaisedCap
      /\ relatchPending
  BY DEF RelatchStart, StartAttempt, RelatchWaits
<1>6. ~retryWaiting /\ latchElapsed = 0
  BY <1>5 DEF HfiInv, HfiTypeOK, PhasesExclusive, DwellsCovered
<1>7. capNow' \in 0..CapMax
  BY <1>5 DEF RaisedCap, HfiInv, HfiTypeOK
<1>8. HfiTypeOK'
  <2>1. /\ armed' \in BOOLEAN /\ active' \in BOOLEAN /\ retryWaiting' \in BOOLEAN
        /\ relatchPending' \in BOOLEAN /\ failureLatched' \in BOOLEAN
    BY <1>4, <1>5, <1>6, <1>7 DEF HfiInv, HfiTypeOK
  <2>2. /\ elapsed' \in Nat /\ exitHold' \in 0..ExitHold /\ distance' \in Int
        /\ relatchElapsed' \in 0..RelatchTime /\ bypassElapsed' \in 0..BypassHold
        /\ cooldownElapsed' \in 0..RetryCooldown /\ reverseElapsed' \in 0..ReverseHold
        /\ stallElapsed' \in 0..EscalateDelay /\ latchElapsed' \in 0..LatchReleaseTime
        /\ capNow' \in 0..CapMax /\ attempt' \in 0..MaxAttempts
    BY <1>4, <1>5, <1>6, <1>7 DEF HfiInv, HfiTypeOK
  <2>3. demand' \in Demands /\ command' \in {"target", "capped", "zero"}
    BY <1>4, <1>5, <1>6, <1>7 DEF Demands
  <2> QED
    BY <1>2, <2>1, <2>2, <2>3 DEF HfiTypeOK
<1>9. /\ restRun' \in 0..Rest /\ rested' \in BOOLEAN /\ restRun' = 0
      /\ ~rested' => RestRun < Rest /\ ~rested
  BY <1>3, <1>5, ObserverType
<1>10. DwellsCovered'
  BY <1>4, <1>5, <1>6, <1>9 DEF HfiInv, HfiTypeOK, DwellsCovered
<1> QED
  BY <1>4, <1>5, <1>6, <1>8, <1>9, <1>10 DEF HfiInv, PhasesExclusive, CapFresh

\* The latched failure opens: a first attempt at the lowest cap.
LEMMA FailureReleaseInductive ==
    ASSUME HfiInv, NEW v \in Speeds, FailureRelease(v), demand' = "go", ObserverStep
    PROVE  HfiInv'
<1>1. Sense(v)
  BY DEF FailureRelease
<1>2. /\ standstill' \in BOOLEAN
      /\ filtered' \in Int /\ filtered' >= Uninitialised
      /\ settle' \in -SettleBound..SettleBound
  BY <1>1, SenseType DEF HfiInv
<1>3. Settled \in BOOLEAN
  BY <1>2, SettledBoolean
<1>4. UNCHANGED <<retryWaiting, relatchPending>>
  BY DEF FailureRelease, NoRelatch
<1>5. /\ active' = TRUE /\ armed' = FALSE
      /\ elapsed' = 0 /\ exitHold' = 0 /\ distance' = 0 /\ reverseElapsed' = 0
      /\ stallElapsed' = 0 /\ cooldownElapsed' = 0 /\ command' = "capped"
      /\ failureLatched' = FALSE /\ attempt' = 1 /\ latchElapsed' = 0
      /\ relatchElapsed' = 0 /\ bypassElapsed' = 0 /\ capNow' = SpeedCap
      /\ failureLatched /\ ~relatchPending
  BY DEF FailureRelease, StartAttempt, NoRelatch
<1>6. ~retryWaiting
  BY <1>5 DEF HfiInv, PhasesExclusive
<1>7. capNow' \in 0..CapMax
  BY <1>5 DEF RaisedCap, HfiInv, HfiTypeOK
<1>8. HfiTypeOK'
  <2>1. /\ armed' \in BOOLEAN /\ active' \in BOOLEAN /\ retryWaiting' \in BOOLEAN
        /\ relatchPending' \in BOOLEAN /\ failureLatched' \in BOOLEAN
    BY <1>4, <1>5, <1>6, <1>7 DEF HfiInv, HfiTypeOK
  <2>2. /\ elapsed' \in Nat /\ exitHold' \in 0..ExitHold /\ distance' \in Int
        /\ relatchElapsed' \in 0..RelatchTime /\ bypassElapsed' \in 0..BypassHold
        /\ cooldownElapsed' \in 0..RetryCooldown /\ reverseElapsed' \in 0..ReverseHold
        /\ stallElapsed' \in 0..EscalateDelay /\ latchElapsed' \in 0..LatchReleaseTime
        /\ capNow' \in 0..CapMax /\ attempt' \in 0..MaxAttempts
    BY <1>4, <1>5, <1>6, <1>7 DEF HfiInv, HfiTypeOK
  <2>3. demand' \in Demands /\ command' \in {"target", "capped", "zero"}
    BY <1>4, <1>5, <1>6, <1>7 DEF Demands
  <2> QED
    BY <1>2, <2>1, <2>2, <2>3 DEF HfiTypeOK
<1>9. /\ restRun' \in 0..Rest /\ rested' \in BOOLEAN /\ restRun' = 0
      /\ ~rested' => RestRun < Rest /\ ~rested
  BY <1>3, <1>5, ObserverType
<1>10. DwellsCovered'
  BY <1>4, <1>5, <1>6, <1>9 DEF HfiInv, HfiTypeOK, DwellsCovered
<1> QED
  BY <1>4, <1>5, <1>6, <1>8, <1>9, <1>10 DEF HfiInv, PhasesExclusive, CapFresh

\* The cooldown is over: the next attempt of the same request.
LEMMA RetryStartInductive ==
    ASSUME HfiInv, NEW v \in Speeds, RetryStart(v), demand' = "go", ObserverStep
    PROVE  HfiInv'
<1>1. Sense(v)
  BY DEF RetryStart
<1>2. /\ standstill' \in BOOLEAN
      /\ filtered' \in Int /\ filtered' >= Uninitialised
      /\ settle' \in -SettleBound..SettleBound
  BY <1>1, SenseType DEF HfiInv
<1>3. Settled \in BOOLEAN
  BY <1>2, SettledBoolean
<1>4. UNCHANGED <<relatchPending, failureLatched, latchElapsed>>
  BY DEF RetryStart, NoRelatch, RetryCap
<1>5. /\ active' = TRUE /\ armed' = FALSE
      /\ elapsed' = 0 /\ exitHold' = 0 /\ distance' = 0 /\ reverseElapsed' = 0
      /\ stallElapsed' = 0 /\ cooldownElapsed' = 0 /\ command' = "capped"
      /\ retryWaiting' = FALSE /\ attempt' = attempt + 1
      /\ relatchElapsed' = 0 /\ bypassElapsed' = 0 /\ capNow' = RaisedCap
      /\ retryWaiting /\ ~relatchPending /\ ~failureLatched
  BY DEF RetryStart, StartAttempt, NoRelatch, RetryCap
<1>6. attempt' \in 0..MaxAttempts
  BY <1>5 DEF HfiInv, HfiTypeOK
<1>7. capNow' \in 0..CapMax
  BY <1>5 DEF RaisedCap, HfiInv, HfiTypeOK
<1>8. HfiTypeOK'
  <2>1. /\ armed' \in BOOLEAN /\ active' \in BOOLEAN /\ retryWaiting' \in BOOLEAN
        /\ relatchPending' \in BOOLEAN /\ failureLatched' \in BOOLEAN
    BY <1>4, <1>5, <1>6, <1>7 DEF HfiInv, HfiTypeOK
  <2>2. /\ elapsed' \in Nat /\ exitHold' \in 0..ExitHold /\ distance' \in Int
        /\ relatchElapsed' \in 0..RelatchTime /\ bypassElapsed' \in 0..BypassHold
        /\ cooldownElapsed' \in 0..RetryCooldown /\ reverseElapsed' \in 0..ReverseHold
        /\ stallElapsed' \in 0..EscalateDelay /\ latchElapsed' \in 0..LatchReleaseTime
        /\ capNow' \in 0..CapMax /\ attempt' \in 0..MaxAttempts
    BY <1>4, <1>5, <1>6, <1>7 DEF HfiInv, HfiTypeOK
  <2>3. demand' \in Demands /\ command' \in {"target", "capped", "zero"}
    BY <1>4, <1>5, <1>6, <1>7 DEF Demands
  <2> QED
    BY <1>2, <2>1, <2>2, <2>3 DEF HfiTypeOK
<1>9. /\ restRun' \in 0..Rest /\ rested' \in BOOLEAN /\ restRun' = 0
      /\ ~rested' => RestRun < Rest /\ ~rested
  BY <1>3, <1>5, ObserverType
<1>10. DwellsCovered'
  BY <1>4, <1>5, <1>6, <1>9 DEF HfiInv, HfiTypeOK, DwellsCovered
<1> QED
  BY <1>4, <1>5, <1>6, <1>8, <1>9, <1>10 DEF HfiInv, PhasesExclusive, CapFresh

\* The armed guard meets a standing car.
LEMMA FirstStartInductive ==
    ASSUME HfiInv, NEW v \in Speeds, FirstStart(v), demand' = "go", ObserverStep
    PROVE  HfiInv'
<1>1. Sense(v)
  BY DEF FirstStart
<1>2. /\ standstill' \in BOOLEAN
      /\ filtered' \in Int /\ filtered' >= Uninitialised
      /\ settle' \in -SettleBound..SettleBound
  BY <1>1, SenseType DEF HfiInv
<1>3. Settled \in BOOLEAN
  BY <1>2, SettledBoolean
<1>4. UNCHANGED <<retryWaiting, relatchPending, failureLatched, latchElapsed>>
  BY DEF FirstStart, Unguarded, NoRelatch
<1>5. /\ active' = TRUE /\ armed' = FALSE
      /\ elapsed' = 0 /\ exitHold' = 0 /\ distance' = 0 /\ reverseElapsed' = 0
      /\ stallElapsed' = 0 /\ cooldownElapsed' = 0 /\ command' = "capped"
      /\ attempt' = 1 /\ armed
      /\ relatchElapsed' = 0 /\ bypassElapsed' = 0 /\ capNow' = SpeedCap
      /\ ~retryWaiting /\ ~relatchPending /\ ~failureLatched
  BY DEF FirstStart, StartAttempt, Unguarded, NoRelatch
<1>6. attempt' \in 0..MaxAttempts
  BY <1>5
<1>7. capNow' \in 0..CapMax
  BY <1>5 DEF RaisedCap, HfiInv, HfiTypeOK
<1>8. HfiTypeOK'
  <2>1. /\ armed' \in BOOLEAN /\ active' \in BOOLEAN /\ retryWaiting' \in BOOLEAN
        /\ relatchPending' \in BOOLEAN /\ failureLatched' \in BOOLEAN
    BY <1>4, <1>5, <1>6, <1>7 DEF HfiInv, HfiTypeOK
  <2>2. /\ elapsed' \in Nat /\ exitHold' \in 0..ExitHold /\ distance' \in Int
        /\ relatchElapsed' \in 0..RelatchTime /\ bypassElapsed' \in 0..BypassHold
        /\ cooldownElapsed' \in 0..RetryCooldown /\ reverseElapsed' \in 0..ReverseHold
        /\ stallElapsed' \in 0..EscalateDelay /\ latchElapsed' \in 0..LatchReleaseTime
        /\ capNow' \in 0..CapMax /\ attempt' \in 0..MaxAttempts
    BY <1>4, <1>5, <1>6, <1>7 DEF HfiInv, HfiTypeOK
  <2>3. demand' \in Demands /\ command' \in {"target", "capped", "zero"}
    BY <1>4, <1>5, <1>6, <1>7 DEF Demands
  <2> QED
    BY <1>2, <2>1, <2>2, <2>3 DEF HfiTypeOK
<1>9. /\ restRun' \in 0..Rest /\ rested' \in BOOLEAN /\ restRun' = 0
      /\ ~rested' => RestRun < Rest /\ ~rested
  BY <1>3, <1>5, ObserverType
<1>10. DwellsCovered'
  BY <1>4, <1>5, <1>6, <1>9 DEF HfiInv, HfiTypeOK, DwellsCovered
<1> QED
  BY <1>4, <1>5, <1>6, <1>8, <1>9, <1>10 DEF HfiInv, PhasesExclusive, CapFresh

\* Standing still in the failure latch.
LEMMA FailureHoldInductive ==
    ASSUME HfiInv, NEW v \in Speeds, FailureHold(v), demand' = "go", ObserverStep
    PROVE  HfiInv'
<1>1. Sense(v)
  BY DEF FailureHold
<1>2. /\ standstill' \in BOOLEAN
      /\ filtered' \in Int /\ filtered' >= Uninitialised
      /\ settle' \in -SettleBound..SettleBound
  BY <1>1, SenseType DEF HfiInv
<1>3. Settled \in BOOLEAN
  BY <1>2, SettledBoolean
<1>4. UNCHANGED <<armed, active, retryWaiting, relatchPending, failureLatched, elapsed,
                  exitHold, distance, reverseElapsed, stallElapsed, cooldownElapsed,
                  capNow, attempt>>
  BY DEF FailureHold, progress
<1>5. /\ relatchElapsed' = 0 /\ bypassElapsed' = 0 /\ command' = "zero"
      /\ latchElapsed' = IF LatchReleaseTime = 0 THEN latchElapsed
                         ELSE TickIf(Settled, latchElapsed, LatchReleaseTime)
      /\ failureLatched /\ ~relatchPending
  BY DEF FailureHold, NoRelatch
<1>6. /\ ~active /\ ~armed /\ ~retryWaiting
      /\ cooldownElapsed = 0
  BY <1>5 DEF HfiInv, HfiTypeOK, PhasesExclusive, DwellsCovered
<1>7. /\ latchElapsed' \in 0..LatchReleaseTime
      /\ Settled => latchElapsed' \in {latchElapsed, latchElapsed + 1}
      /\ ~Settled => latchElapsed' = 0
  <2>1. latchElapsed \in 0..LatchReleaseTime /\ LatchReleaseTime \in Nat
    BY DEF HfiInv, HfiTypeOK
  <2>2. CASE Settled
    <3>1. TickIf(TRUE, latchElapsed, LatchReleaseTime) = Tick(latchElapsed, LatchReleaseTime)
      BY <2>1, TickIfType
    <3>2. Tick(latchElapsed, LatchReleaseTime) \in {latchElapsed, latchElapsed + 1}
      BY <2>1, TickType
    <3>3. Tick(latchElapsed, LatchReleaseTime) \in 0..LatchReleaseTime
      BY <2>1, TickType
    <3> QED
      BY <1>5, <2>1, <2>2, <3>1, <3>2, <3>3 DEF TickIf
  <2>3. CASE ~Settled
    BY <1>5, <2>1, <2>3 DEF TickIf
  <2> QED
    BY <2>2, <2>3
<1>8. HfiTypeOK'
  <2>1. /\ armed' \in BOOLEAN /\ active' \in BOOLEAN /\ retryWaiting' \in BOOLEAN
        /\ relatchPending' \in BOOLEAN /\ failureLatched' \in BOOLEAN
    BY <1>4, <1>5, <1>6, <1>7 DEF HfiInv, HfiTypeOK
  <2>2. /\ elapsed' \in Nat /\ exitHold' \in 0..ExitHold /\ distance' \in Int
        /\ relatchElapsed' \in 0..RelatchTime /\ bypassElapsed' \in 0..BypassHold
        /\ cooldownElapsed' \in 0..RetryCooldown /\ reverseElapsed' \in 0..ReverseHold
        /\ stallElapsed' \in 0..EscalateDelay /\ latchElapsed' \in 0..LatchReleaseTime
        /\ capNow' \in 0..CapMax /\ attempt' \in 0..MaxAttempts
    BY <1>4, <1>5, <1>6, <1>7 DEF HfiInv, HfiTypeOK
  <2>3. demand' \in Demands /\ command' \in {"target", "capped", "zero"}
    BY <1>4, <1>5, <1>6, <1>7 DEF Demands
  <2> QED
    BY <1>2, <2>1, <2>2, <2>3 DEF HfiTypeOK
<1>9. /\ restRun' \in 0..Rest /\ rested' \in BOOLEAN /\ restRun' = RestRun
      /\ ~rested' => RestRun < Rest /\ ~rested
  BY <1>3, <1>4, <1>6, ObserverType
<1>10. DwellsCovered'
  <2>1. CASE Settled
    <3>1. RestRun >= restRun /\ (restRun < Rest => RestRun = restRun + 1)
      BY <2>1, <1>5, <1>6, RunGrows
    <3> QED
      BY <1>4, <1>5, <1>6, <1>7, <1>9, <3>1 DEF HfiInv, HfiTypeOK, DwellsCovered
  <2>2. CASE ~Settled
    BY <1>4, <1>5, <1>6, <1>7, <1>9, <2>2 DEF HfiInv, HfiTypeOK, DwellsCovered
  <2> QED
    BY <2>1, <2>2
<1> QED
  BY <1>4, <1>5, <1>6, <1>8, <1>9, <1>10 DEF HfiInv, PhasesExclusive, CapFresh

\* Standing still between two attempts.
LEMMA RetryHoldInductive ==
    ASSUME HfiInv, NEW v \in Speeds, RetryHold(v), demand' = "go", ObserverStep
    PROVE  HfiInv'
<1>1. Sense(v)
  BY DEF RetryHold
<1>2. /\ standstill' \in BOOLEAN
      /\ filtered' \in Int /\ filtered' >= Uninitialised
      /\ settle' \in -SettleBound..SettleBound
  BY <1>1, SenseType DEF HfiInv
<1>3. Settled \in BOOLEAN
  BY <1>2, SettledBoolean
<1>4. UNCHANGED <<armed, active, retryWaiting, relatchPending, failureLatched, elapsed,
                  exitHold, distance, reverseElapsed, stallElapsed, latchElapsed,
                  capNow, attempt>>
  BY DEF RetryHold, progress
<1>5. /\ relatchElapsed' = 0 /\ bypassElapsed' = 0 /\ command' = "zero"
      /\ cooldownElapsed' = TickIf(Settled, cooldownElapsed, RetryCooldown)
      /\ retryWaiting /\ ~failureLatched /\ ~relatchPending
  BY DEF RetryHold, NoRelatch
<1>6. /\ ~active /\ ~armed
      /\ latchElapsed = 0
  BY <1>5 DEF HfiInv, HfiTypeOK, PhasesExclusive, DwellsCovered
<1>7. /\ cooldownElapsed' \in 0..RetryCooldown
      /\ Settled => cooldownElapsed' \in {cooldownElapsed, cooldownElapsed + 1}
      /\ ~Settled => cooldownElapsed' = 0
  <2>1. cooldownElapsed \in 0..RetryCooldown /\ RetryCooldown \in Nat
    BY DEF HfiInv, HfiTypeOK
  <2>2. CASE Settled
    <3>1. TickIf(TRUE, cooldownElapsed, RetryCooldown) = Tick(cooldownElapsed, RetryCooldown)
      BY <2>1, TickIfType
    <3>2. Tick(cooldownElapsed, RetryCooldown) \in {cooldownElapsed, cooldownElapsed + 1}
      BY <2>1, TickType
    <3>3. Tick(cooldownElapsed, RetryCooldown) \in 0..RetryCooldown
      BY <2>1, TickType
    <3> QED
      BY <1>5, <2>1, <2>2, <3>1, <3>2, <3>3 DEF TickIf
  <2>3. CASE ~Settled
    BY <1>5, <2>1, <2>3 DEF TickIf
  <2> QED
    BY <2>2, <2>3
<1>8. HfiTypeOK'
  <2>1. /\ armed' \in BOOLEAN /\ active' \in BOOLEAN /\ retryWaiting' \in BOOLEAN
        /\ relatchPending' \in BOOLEAN /\ failureLatched' \in BOOLEAN
    BY <1>4, <1>5, <1>6, <1>7 DEF HfiInv, HfiTypeOK
  <2>2. /\ elapsed' \in Nat /\ exitHold' \in 0..ExitHold /\ distance' \in Int
        /\ relatchElapsed' \in 0..RelatchTime /\ bypassElapsed' \in 0..BypassHold
        /\ cooldownElapsed' \in 0..RetryCooldown /\ reverseElapsed' \in 0..ReverseHold
        /\ stallElapsed' \in 0..EscalateDelay /\ latchElapsed' \in 0..LatchReleaseTime
        /\ capNow' \in 0..CapMax /\ attempt' \in 0..MaxAttempts
    BY <1>4, <1>5, <1>6, <1>7 DEF HfiInv, HfiTypeOK
  <2>3. demand' \in Demands /\ command' \in {"target", "capped", "zero"}
    BY <1>4, <1>5, <1>6, <1>7 DEF Demands
  <2> QED
    BY <1>2, <2>1, <2>2, <2>3 DEF HfiTypeOK
<1>9. /\ restRun' \in 0..Rest /\ rested' \in BOOLEAN /\ restRun' = RestRun
      /\ ~rested' => RestRun < Rest /\ ~rested
  BY <1>3, <1>4, <1>6, ObserverType
<1>10. DwellsCovered'
  <2>1. CASE Settled
    <3>1. RestRun >= restRun /\ (restRun < Rest => RestRun = restRun + 1)
      BY <2>1, <1>5, <1>6, RunGrows
    <3> QED
      BY <1>4, <1>5, <1>6, <1>7, <1>9, <3>1 DEF HfiInv, HfiTypeOK, DwellsCovered
  <2>2. CASE ~Settled
    BY <1>4, <1>5, <1>6, <1>7, <1>9, <2>2 DEF HfiInv, HfiTypeOK, DwellsCovered
  <2> QED
    BY <2>1, <2>2
<1> QED
  BY <1>4, <1>5, <1>6, <1>8, <1>9, <1>10 DEF HfiInv, PhasesExclusive, CapFresh

\* Rolling forward through a pending dwell.
LEMMA BypassInductive ==
    ASSUME HfiInv, NEW v \in Speeds, Bypass(v), demand' = "go", ObserverStep
    PROVE  HfiInv'
<1>1. Sense(v)
  BY DEF Bypass
<1>2. /\ standstill' \in BOOLEAN
      /\ filtered' \in Int /\ filtered' >= Uninitialised
      /\ settle' \in -SettleBound..SettleBound
  BY <1>1, SenseType DEF HfiInv
<1>3. Settled \in BOOLEAN
  BY <1>2, SettledBoolean
<1>4. UNCHANGED <<active, retryWaiting, failureLatched, elapsed, exitHold, distance,
                  reverseElapsed, cooldownElapsed, latchElapsed, attempt>>
  BY DEF Bypass
<1>5. relatchPending /\ relatchElapsed' = 0 /\ command' = "target"
  BY DEF Bypass, RelatchWaits
<1>6. \/ /\ relatchPending' = FALSE /\ armed' = FALSE /\ bypassElapsed' = 0
         /\ stallElapsed' = 0 /\ capNow' = SpeedCap
      \/ /\ UNCHANGED <<relatchPending, armed, stallElapsed, capNow>>
         /\ bypassElapsed' = Tick(bypassElapsed, BypassHold)
  BY DEF Bypass
<1>7. bypassElapsed' \in 0..BypassHold /\ stallElapsed' \in 0..EscalateDelay
      /\ capNow' \in 0..CapMax
  <2>1. /\ bypassElapsed \in 0..BypassHold /\ stallElapsed \in 0..EscalateDelay
        /\ capNow \in 0..CapMax
    BY DEF HfiInv, HfiTypeOK
  <2>2. Tick(bypassElapsed, BypassHold) \in 0..BypassHold
    BY <2>1, TickType
  <2> QED
    BY <1>6, <2>1, <2>2
<1>8. HfiTypeOK'
  <2>1. /\ armed' \in BOOLEAN /\ active' \in BOOLEAN /\ retryWaiting' \in BOOLEAN
        /\ relatchPending' \in BOOLEAN /\ failureLatched' \in BOOLEAN
    BY <1>4, <1>5, <1>6 DEF HfiInv, HfiTypeOK
  <2>2. /\ elapsed' \in Nat /\ exitHold' \in 0..ExitHold /\ distance' \in Int
        /\ relatchElapsed' \in 0..RelatchTime /\ bypassElapsed' \in 0..BypassHold
        /\ cooldownElapsed' \in 0..RetryCooldown /\ reverseElapsed' \in 0..ReverseHold
        /\ stallElapsed' \in 0..EscalateDelay /\ latchElapsed' \in 0..LatchReleaseTime
        /\ capNow' \in 0..CapMax /\ attempt' \in 0..MaxAttempts
    BY <1>4, <1>5, <1>7 DEF HfiInv, HfiTypeOK
  <2>3. demand' \in Demands /\ command' \in {"target", "capped", "zero"}
    BY <1>4, <1>5, <1>6 DEF Demands
  <2> QED
    BY <1>2, <2>1, <2>2, <2>3 DEF HfiTypeOK
<1>9. ~active /\ ~retryWaiting /\ cooldownElapsed = 0 /\ latchElapsed = 0
  BY <1>5 DEF HfiInv, HfiTypeOK, PhasesExclusive, DwellsCovered
<1>10. /\ restRun' = 0 /\ rested' \in BOOLEAN
       /\ ~rested' => ~rested
  BY <1>3, <1>4, <1>5, <1>9, ObserverType, RunBroken
<1>11. DwellsCovered'
  <2>1. armed' => armed
    BY <1>6
  <2> QED
    BY <1>4, <1>5, <1>9, <1>10, <2>1 DEF HfiInv, HfiTypeOK, DwellsCovered
<1>12. CapFresh'
  BY <1>6 DEF HfiInv, HfiTypeOK, CapFresh
<1> QED
  BY <1>4, <1>6, <1>8, <1>10, <1>11, <1>12 DEF HfiInv, PhasesExclusive

\* What every push does, before its outcome is known.
LEMMA PushType ==
    ASSUME HfiInv, NEW v \in Speeds, Push(v)
    PROVE  /\ active /\ ~armed /\ ~retryWaiting /\ ~failureLatched /\ ~relatchPending
           /\ elapsed' \in Nat /\ distance' \in Int
           /\ reverseElapsed' \in 0..ReverseHold /\ stallElapsed' \in 0..EscalateDelay
           /\ capNow' \in 0..CapMax
           /\ relatchElapsed' = 0 /\ bypassElapsed' = 0
           /\ UNCHANGED <<relatchPending, cooldownElapsed, latchElapsed, attempt>>
           /\ cooldownElapsed = 0 /\ latchElapsed = 0
           /\ ExitRun(v) \in 0..ExitHold
<1>1. v \in Int
  BY SpeedInt
<1>2. /\ (v <= -ReverseSpeed) \in BOOLEAN /\ (v < ProgressSpeed) \in BOOLEAN
      /\ (v >= ExitSpeed) \in BOOLEAN
  BY <1>1
<1>3. active /\ ~retryWaiting /\ ~failureLatched /\ ~relatchPending
  BY DEF Push, NoRelatch
<1>4. ~armed /\ cooldownElapsed = 0 /\ latchElapsed = 0
  BY <1>3 DEF HfiInv, HfiTypeOK, PhasesExclusive, DwellsCovered
<1>5. /\ reverseElapsed' \in 0..ReverseHold
      /\ stallElapsed' \in 0..EscalateDelay
      /\ ExitRun(v) \in 0..ExitHold
  BY <1>2, TickIfType DEF Push, ExitRun, HfiInv, HfiTypeOK
<1>6. elapsed' \in Nat /\ distance' \in Int
  BY <1>1 DEF Push, HfiInv, HfiTypeOK
<1>7. capNow' \in 0..CapMax
  BY <1>5 DEF Push, Escalated, RaisedCap, HfiInv, HfiTypeOK
<1> QED
  BY <1>3, <1>4, <1>5, <1>6, <1>7 DEF Push, NoRelatch

\* The launch is captured.
LEMMA ReleaseInductive ==
    ASSUME HfiInv, NEW v \in Speeds, Release(v), demand' = "go", ObserverStep
    PROVE  HfiInv'
<1>1. Sense(v)
  BY DEF Release, Push
<1>2. /\ standstill' \in BOOLEAN
      /\ filtered' \in Int /\ filtered' >= Uninitialised
      /\ settle' \in -SettleBound..SettleBound
  BY <1>1, SenseType DEF HfiInv
<1>3. Settled \in BOOLEAN
  BY <1>2, SettledBoolean
<1>4. Push(v)
  BY DEF Release
<1>5. /\ exitHold' = ExitRun(v) /\ active' = FALSE /\ armed' = FALSE /\ command' = "target"
      /\ UNCHANGED <<retryWaiting, failureLatched>>
  BY DEF Release
<1>6. /\ active /\ ~armed /\ ~retryWaiting /\ ~failureLatched /\ ~relatchPending
      /\ elapsed' \in Nat /\ distance' \in Int
      /\ reverseElapsed' \in 0..ReverseHold /\ stallElapsed' \in 0..EscalateDelay
      /\ capNow' \in 0..CapMax
      /\ relatchElapsed' = 0 /\ bypassElapsed' = 0
      /\ UNCHANGED <<relatchPending, cooldownElapsed, latchElapsed, attempt>>
      /\ cooldownElapsed = 0 /\ latchElapsed = 0
      /\ ExitRun(v) \in 0..ExitHold
  BY <1>4, PushType
<1>7. exitHold' \in 0..ExitHold
  BY <1>5, <1>6
<1>8. HfiTypeOK'
  <2>1. /\ armed' \in BOOLEAN /\ active' \in BOOLEAN /\ retryWaiting' \in BOOLEAN
        /\ relatchPending' \in BOOLEAN /\ failureLatched' \in BOOLEAN
    BY <1>5, <1>6, <1>7 DEF HfiInv, HfiTypeOK
  <2>2. /\ elapsed' \in Nat /\ exitHold' \in 0..ExitHold /\ distance' \in Int
        /\ relatchElapsed' \in 0..RelatchTime /\ bypassElapsed' \in 0..BypassHold
        /\ cooldownElapsed' \in 0..RetryCooldown /\ reverseElapsed' \in 0..ReverseHold
        /\ stallElapsed' \in 0..EscalateDelay /\ latchElapsed' \in 0..LatchReleaseTime
        /\ capNow' \in 0..CapMax /\ attempt' \in 0..MaxAttempts
    BY <1>5, <1>6, <1>7 DEF HfiInv, HfiTypeOK
  <2>3. demand' \in Demands /\ command' \in {"target", "capped", "zero"}
    BY <1>5, <1>6, <1>7 DEF Demands
  <2> QED
    BY <1>2, <2>1, <2>2, <2>3 DEF HfiTypeOK
<1>9. /\ restRun' = 0 /\ rested' \in BOOLEAN
      /\ ~rested' => ~active' \/ ~rested
  BY <1>3, <1>6, ObserverType, RunBroken
<1>10. DwellsCovered'
  BY <1>5, <1>6, <1>7, <1>9 DEF HfiInv, HfiTypeOK, DwellsCovered
<1> QED
  BY <1>5, <1>6, <1>7, <1>8, <1>9, <1>10 DEF HfiInv, HfiTypeOK, PhasesExclusive, CapFresh

\* The attempt goes on.
LEMMA KeepPushingInductive ==
    ASSUME HfiInv, NEW v \in Speeds, KeepPushing(v), demand' = "go", ObserverStep
    PROVE  HfiInv'
<1>1. Sense(v)
  BY DEF KeepPushing, Push
<1>2. /\ standstill' \in BOOLEAN
      /\ filtered' \in Int /\ filtered' >= Uninitialised
      /\ settle' \in -SettleBound..SettleBound
  BY <1>1, SenseType DEF HfiInv
<1>3. Settled \in BOOLEAN
  BY <1>2, SettledBoolean
<1>4. Push(v)
  BY DEF KeepPushing
<1>5. /\ exitHold' = ExitRun(v) /\ command' = "capped"
      /\ UNCHANGED <<armed, active, retryWaiting, failureLatched>>
  BY DEF KeepPushing
<1>6. /\ active /\ ~armed /\ ~retryWaiting /\ ~failureLatched /\ ~relatchPending
      /\ elapsed' \in Nat /\ distance' \in Int
      /\ reverseElapsed' \in 0..ReverseHold /\ stallElapsed' \in 0..EscalateDelay
      /\ capNow' \in 0..CapMax
      /\ relatchElapsed' = 0 /\ bypassElapsed' = 0
      /\ UNCHANGED <<relatchPending, cooldownElapsed, latchElapsed, attempt>>
      /\ cooldownElapsed = 0 /\ latchElapsed = 0
      /\ ExitRun(v) \in 0..ExitHold
  BY <1>4, PushType
<1>7. exitHold' \in 0..ExitHold
  BY <1>5, <1>6
<1>8. HfiTypeOK'
  <2>1. /\ armed' \in BOOLEAN /\ active' \in BOOLEAN /\ retryWaiting' \in BOOLEAN
        /\ relatchPending' \in BOOLEAN /\ failureLatched' \in BOOLEAN
    BY <1>5, <1>6, <1>7 DEF HfiInv, HfiTypeOK
  <2>2. /\ elapsed' \in Nat /\ exitHold' \in 0..ExitHold /\ distance' \in Int
        /\ relatchElapsed' \in 0..RelatchTime /\ bypassElapsed' \in 0..BypassHold
        /\ cooldownElapsed' \in 0..RetryCooldown /\ reverseElapsed' \in 0..ReverseHold
        /\ stallElapsed' \in 0..EscalateDelay /\ latchElapsed' \in 0..LatchReleaseTime
        /\ capNow' \in 0..CapMax /\ attempt' \in 0..MaxAttempts
    BY <1>5, <1>6, <1>7 DEF HfiInv, HfiTypeOK
  <2>3. demand' \in Demands /\ command' \in {"target", "capped", "zero"}
    BY <1>5, <1>6, <1>7 DEF Demands
  <2> QED
    BY <1>2, <2>1, <2>2, <2>3 DEF HfiTypeOK
<1>9. /\ restRun' = 0 /\ rested' \in BOOLEAN
      /\ ~rested' => ~active' \/ ~rested
  BY <1>3, <1>6, ObserverType, RunBroken
<1>10. DwellsCovered'
  BY <1>5, <1>6, <1>7, <1>9 DEF HfiInv, HfiTypeOK, DwellsCovered
<1> QED
  BY <1>5, <1>6, <1>7, <1>8, <1>9, <1>10 DEF HfiInv, HfiTypeOK, PhasesExclusive, CapFresh

\* The attempt failed: retry, or latch the failure.
LEMMA GiveUpInductive ==
    ASSUME HfiInv, NEW v \in Speeds, GiveUp(v), demand' = "go", ObserverStep
    PROVE  HfiInv'
<1>1. Sense(v)
  BY DEF GiveUp, Push
<1>2. /\ standstill' \in BOOLEAN
      /\ filtered' \in Int /\ filtered' >= Uninitialised
      /\ settle' \in -SettleBound..SettleBound
  BY <1>1, SenseType DEF HfiInv
<1>3. Settled \in BOOLEAN
  BY <1>2, SettledBoolean
<1>4. Push(v)
  BY DEF GiveUp
<1>5. /\ exitHold' = 0 /\ active' = FALSE /\ armed' = FALSE /\ command' = "zero"
      /\ retryWaiting' = (attempt < MaxAttempts)
      /\ failureLatched' = (attempt >= MaxAttempts)
  BY DEF GiveUp
<1>6. /\ active /\ ~armed /\ ~retryWaiting /\ ~failureLatched /\ ~relatchPending
      /\ elapsed' \in Nat /\ distance' \in Int
      /\ reverseElapsed' \in 0..ReverseHold /\ stallElapsed' \in 0..EscalateDelay
      /\ capNow' \in 0..CapMax
      /\ relatchElapsed' = 0 /\ bypassElapsed' = 0
      /\ UNCHANGED <<relatchPending, cooldownElapsed, latchElapsed, attempt>>
      /\ cooldownElapsed = 0 /\ latchElapsed = 0
      /\ ExitRun(v) \in 0..ExitHold
  BY <1>4, PushType
<1>7. /\ retryWaiting' \in BOOLEAN /\ failureLatched' \in BOOLEAN
      /\ retryWaiting' => ~failureLatched' /\ attempt < MaxAttempts
  <2>1. attempt \in 0..MaxAttempts
    BY DEF HfiInv, HfiTypeOK
  <2>2. CASE attempt < MaxAttempts
    <3>1. (attempt < MaxAttempts) = TRUE /\ (attempt >= MaxAttempts) = FALSE
      BY <2>1, <2>2
    <3> QED
      BY <1>5, <2>2, <3>1, Zenon
  <2>3. CASE attempt >= MaxAttempts
    <3>1. (attempt < MaxAttempts) = FALSE /\ (attempt >= MaxAttempts) = TRUE
      BY <2>1, <2>3
    <3> QED
      BY <1>5, <2>3, <3>1, Zenon
  <2> QED
    BY <2>1, <2>2, <2>3
<1>8. HfiTypeOK'
  <2>1. /\ armed' \in BOOLEAN /\ active' \in BOOLEAN /\ retryWaiting' \in BOOLEAN
        /\ relatchPending' \in BOOLEAN /\ failureLatched' \in BOOLEAN
    BY <1>5, <1>6, <1>7 DEF HfiInv, HfiTypeOK
  <2>2. /\ elapsed' \in Nat /\ exitHold' \in 0..ExitHold /\ distance' \in Int
        /\ relatchElapsed' \in 0..RelatchTime /\ bypassElapsed' \in 0..BypassHold
        /\ cooldownElapsed' \in 0..RetryCooldown /\ reverseElapsed' \in 0..ReverseHold
        /\ stallElapsed' \in 0..EscalateDelay /\ latchElapsed' \in 0..LatchReleaseTime
        /\ capNow' \in 0..CapMax /\ attempt' \in 0..MaxAttempts
    BY <1>5, <1>6, <1>7 DEF HfiInv, HfiTypeOK
  <2>3. demand' \in Demands /\ command' \in {"target", "capped", "zero"}
    BY <1>5, <1>6, <1>7 DEF Demands
  <2> QED
    BY <1>2, <2>1, <2>2, <2>3 DEF HfiTypeOK
<1>9. /\ restRun' = 0 /\ rested' \in BOOLEAN
      /\ ~rested' => ~active' \/ ~rested
  BY <1>3, <1>6, ObserverType, RunBroken
<1>10. DwellsCovered'
  BY <1>5, <1>6, <1>7, <1>9 DEF HfiInv, HfiTypeOK, DwellsCovered
<1> QED
  BY <1>5, <1>6, <1>7, <1>8, <1>9, <1>10 DEF HfiInv, HfiTypeOK, PhasesExclusive, CapFresh

\* Nothing to guard.
LEMMA FreeInductive ==
    ASSUME HfiInv, NEW v \in Speeds, Free(v), demand' = "go", ObserverStep
    PROVE  HfiInv'
<1>1. Sense(v)
  BY DEF Free, Unguarded, NoRelatch
<1>2. /\ standstill' \in BOOLEAN
      /\ filtered' \in Int /\ filtered' >= Uninitialised
      /\ settle' \in -SettleBound..SettleBound
  BY <1>1, SenseType DEF HfiInv
<1>3. Settled \in BOOLEAN
  BY <1>2, SettledBoolean
<1>4. UNCHANGED <<armed, active, retryWaiting, relatchPending, failureLatched, elapsed,
                  exitHold, distance, reverseElapsed, stallElapsed, cooldownElapsed,
                  latchElapsed, capNow, attempt>>
  BY DEF Free, progress
<1>5. /\ relatchElapsed' = 0 /\ bypassElapsed' = 0 /\ command' = "target"
      /\ ~relatchPending /\ ~failureLatched /\ ~retryWaiting /\ ~active
  BY DEF Free, Unguarded, NoRelatch
<1>6. HfiTypeOK'
  <2>1. /\ armed' \in BOOLEAN /\ active' \in BOOLEAN /\ retryWaiting' \in BOOLEAN
        /\ relatchPending' \in BOOLEAN /\ failureLatched' \in BOOLEAN
    BY <1>4, <1>5 DEF HfiInv, HfiTypeOK
  <2>2. /\ elapsed' \in Nat /\ exitHold' \in 0..ExitHold /\ distance' \in Int
        /\ relatchElapsed' \in 0..RelatchTime /\ bypassElapsed' \in 0..BypassHold
        /\ cooldownElapsed' \in 0..RetryCooldown /\ reverseElapsed' \in 0..ReverseHold
        /\ stallElapsed' \in 0..EscalateDelay /\ latchElapsed' \in 0..LatchReleaseTime
        /\ capNow' \in 0..CapMax /\ attempt' \in 0..MaxAttempts
    BY <1>4, <1>5 DEF HfiInv, HfiTypeOK
  <2>3. demand' \in Demands /\ command' \in {"target", "capped", "zero"}
    BY <1>4, <1>5 DEF Demands
  <2> QED
    BY <1>2, <2>1, <2>2, <2>3 DEF HfiTypeOK
<1>7. cooldownElapsed = 0 /\ latchElapsed = 0
  BY <1>5 DEF HfiInv, HfiTypeOK, DwellsCovered
<1>8. /\ restRun' = 0 /\ rested' \in BOOLEAN
      /\ ~rested' => ~rested
  BY <1>3, <1>4, <1>5, ObserverType, RunBroken
<1>9. DwellsCovered'
  BY <1>4, <1>5, <1>7, <1>8 DEF HfiInv, HfiTypeOK, DwellsCovered
<1> QED
  BY <1>4, <1>5, <1>6, <1>8, <1>9 DEF HfiInv, PhasesExclusive, CapFresh

-----------------------------------------------------------------------------
(* A stop request, with and without a wheel speed.                          *)

\* The next value of the re-arming dwell of a stop request.
RelatchAfter(dt) ==
    IF ~Settled THEN 0
    ELSE IF dt = 0 THEN relatchElapsed ELSE Tick(relatchElapsed, RelatchTime)

LEMMA ResetType ==
    ASSUME HfiInv, NEW v \in Int, NEW dt \in {0, 1}, NEW d \in {"none", "held"},
           Settled \in BOOLEAN, standstill' \in BOOLEAN, Reset(v, dt, d)
    PROVE  /\ active' = FALSE /\ retryWaiting' = FALSE
           /\ armed' \in BOOLEAN /\ relatchPending' \in BOOLEAN
           /\ failureLatched' \in BOOLEAN
           /\ elapsed' = 0 /\ exitHold' = 0 /\ distance' = 0 /\ reverseElapsed' = 0
           /\ stallElapsed' = 0 /\ cooldownElapsed' = 0 /\ latchElapsed' = 0
           /\ attempt' = 0 /\ capNow' = SpeedCap
           /\ relatchElapsed' = RelatchAfter(dt) /\ relatchElapsed' \in 0..RelatchTime
           /\ bypassElapsed' \in 0..BypassHold
           /\ armed' => relatchElapsed' = RelatchTime \/ armed
           /\ ~armed' => relatchElapsed' < RelatchTime
           /\ armed' => ~failureLatched'
<1>1. /\ relatchElapsed \in 0..RelatchTime /\ bypassElapsed \in 0..BypassHold
      /\ Tick(relatchElapsed, RelatchTime) \in 0..RelatchTime
      /\ Tick(bypassElapsed, BypassHold) \in 0..BypassHold
  BY TickType DEF HfiInv, HfiTypeOK
<1>2. relatchElapsed' = RelatchAfter(dt) /\ relatchElapsed' \in 0..RelatchTime
  BY <1>1 DEF Reset, RelatchAfter
<1>3. RelatchDue(dt) <=> Settled /\ relatchElapsed' >= RelatchTime
  BY <1>2 DEF RelatchDue, RelatchAfter
<1>4. RelatchDue(dt) \in BOOLEAN
  BY Zenon DEF RelatchDue
<1>5. /\ armed' = (RelatchDue(dt) \/ (Settled /\ armed))
      /\ relatchPending' = (~RelatchDue(dt) /\ (relatchPending \/ ~armed \/ ~standstill'))
      /\ failureLatched' = (~RelatchDue(dt) /\ failureLatched)
  BY DEF Reset
<1>6. /\ armed' \in BOOLEAN /\ relatchPending' \in BOOLEAN /\ failureLatched' \in BOOLEAN
      /\ armed' => RelatchDue(dt) \/ armed
      /\ ~armed' => ~RelatchDue(dt)
      /\ failureLatched' => ~RelatchDue(dt) /\ failureLatched
  BY <1>5, Zenon
<1>7. armed => ~failureLatched
  BY DEF HfiInv, PhasesExclusive
<1>8. armed' => ~failureLatched'
  BY <1>6, <1>7, Zenon
<1>9. armed' => relatchElapsed' = RelatchTime \/ armed
  BY <1>2, <1>3, <1>6
<1>10. ~armed' => relatchElapsed' < RelatchTime
  <2>1. SUFFICES ASSUME ~armed' PROVE relatchElapsed' < RelatchTime
    OBVIOUS
  <2>2. ~(Settled /\ relatchElapsed' >= RelatchTime)
    BY <1>3, <1>6, <2>1
  <2>3. CASE Settled
    BY <1>2, <2>2, <2>3
  <2>4. CASE ~Settled
    BY <1>2, <2>4 DEF RelatchAfter
  <2> QED
    BY <2>3, <2>4
<1>11. bypassElapsed' \in 0..BypassHold
  BY <1>1 DEF Reset
<1> QED
  BY <1>2, <1>6, <1>8, <1>9, <1>10, <1>11 DEF Reset

\* The part of the invariant that a stop request re-establishes by itself.
LEMMA ResetKeeps ==
    ASSUME HfiInv, NEW v \in Int, NEW dt \in {0, 1}, NEW d \in {"none", "held"},
           Settled \in BOOLEAN, standstill' \in BOOLEAN,
           filtered' \in Int, filtered' >= Uninitialised,
           settle' \in -SettleBound..SettleBound,
           Reset(v, dt, d), demand' = d, command' \in {"target", "zero"}
    PROVE  HfiTypeOK' /\ (retryWaiting' => attempt' < MaxAttempts)
           /\ PhasesExclusive' /\ CapFresh'
<1>1. /\ active' = FALSE /\ retryWaiting' = FALSE
      /\ armed' \in BOOLEAN /\ relatchPending' \in BOOLEAN
      /\ failureLatched' \in BOOLEAN
      /\ elapsed' = 0 /\ exitHold' = 0 /\ distance' = 0 /\ reverseElapsed' = 0
      /\ stallElapsed' = 0 /\ cooldownElapsed' = 0 /\ latchElapsed' = 0
      /\ attempt' = 0 /\ capNow' = SpeedCap
      /\ relatchElapsed' \in 0..RelatchTime /\ bypassElapsed' \in 0..BypassHold
      /\ armed' => ~failureLatched'
  BY ResetType
<1>2. HfiTypeOK'
  <2>1. /\ armed' \in BOOLEAN /\ active' \in BOOLEAN /\ retryWaiting' \in BOOLEAN
        /\ relatchPending' \in BOOLEAN /\ failureLatched' \in BOOLEAN
    BY <1>1
  <2>2. /\ elapsed' \in Nat /\ exitHold' \in 0..ExitHold /\ distance' \in Int
        /\ relatchElapsed' \in 0..RelatchTime /\ bypassElapsed' \in 0..BypassHold
        /\ cooldownElapsed' \in 0..RetryCooldown /\ reverseElapsed' \in 0..ReverseHold
        /\ stallElapsed' \in 0..EscalateDelay /\ latchElapsed' \in 0..LatchReleaseTime
        /\ capNow' \in 0..CapMax /\ attempt' \in 0..MaxAttempts
    BY <1>1
  <2> QED
    BY <2>1, <2>2 DEF HfiTypeOK, Demands
<1> QED
  BY <1>1, <1>2 DEF PhasesExclusive, CapFresh

LEMMA ResetFreshInductive ==
    ASSUME HfiInv, NEW v \in Speeds, NEW d \in {"none", "held"}, ResetFresh(v, d),
           demand' = d, ObserverStep
    PROVE  HfiInv'
<1>1. /\ standstill' \in BOOLEAN
      /\ filtered' \in Int /\ filtered' >= Uninitialised
      /\ settle' \in -SettleBound..SettleBound
  BY SenseType DEF ResetFresh, HfiInv
<1>2. Settled \in BOOLEAN /\ v \in Int /\ Stopping(demand')
  BY <1>1, SettledBoolean, SpeedInt DEF Stopping
<1>3. Reset(v, 1, d) /\ command' \in {"target", "zero"}
  BY DEF ResetFresh
<1>4. HfiTypeOK' /\ (retryWaiting' => attempt' < MaxAttempts) /\ PhasesExclusive' /\ CapFresh'
  BY <1>1, <1>2, <1>3, ResetKeeps
<1>5. /\ active' = FALSE /\ retryWaiting' = FALSE
      /\ cooldownElapsed' = 0 /\ latchElapsed' = 0
      /\ relatchElapsed' = RelatchAfter(1) /\ relatchElapsed' \in 0..RelatchTime
      /\ armed' => relatchElapsed' = RelatchTime \/ armed
      /\ ~armed' => relatchElapsed' < RelatchTime
  BY <1>1, <1>2, <1>3, ResetType
<1>6. /\ restRun' \in 0..Rest /\ rested' \in BOOLEAN /\ restRun' = RestRun
      /\ ~rested' => RestRun < Rest /\ (~active => ~rested)
  BY <1>2, <1>5, ObserverType
<1>7. ~rested' => relatchElapsed' <= restRun' /\ ~armed'
  <2>1. SUFFICES ASSUME ~rested' PROVE relatchElapsed' <= restRun' /\ ~armed'
    OBVIOUS
  <2>2. relatchElapsed <= restRun /\ ~armed
    BY <1>6, <2>1 DEF HfiInv, HfiTypeOK, DwellsCovered, PhasesExclusive
  <2>3. relatchElapsed' <= restRun'
    <3>1. CASE Settled
      <4>1. RestRun >= restRun /\ (restRun < Rest => RestRun = restRun + 1)
        BY <1>2, <3>1, RunGrows
      <4>2. relatchElapsed' \in {relatchElapsed, relatchElapsed + 1}
        BY <1>5, <3>1, TickType DEF RelatchAfter, HfiInv, HfiTypeOK
      <4> QED
        BY <1>6, <2>1, <2>2, <4>1, <4>2 DEF HfiInv, HfiTypeOK
    <3>2. CASE ~Settled
      BY <1>5, <1>6, <3>2 DEF RelatchAfter
    <3> QED
      BY <3>1, <3>2
  <2> QED
    BY <1>5, <1>6, <2>1, <2>2, <2>3
<1>8. DwellsCovered'
  BY <1>5, <1>6, <1>7 DEF DwellsCovered
<1> QED
  BY <1>4, <1>6, <1>8 DEF HfiInv

\* What the observer does in a cycle without a wheel speed.
StaleObserverStep ==
    /\ restRun' = IF active \/ (demand' = "none" /\ ~Settled) THEN 0 ELSE restRun
    /\ rested' = (rested /\ ~(active /\ ~active'))

LEMMA ResetStaleInductive ==
    ASSUME HfiInv, SenseNothing, Reset(StandstillExit, 0, "none"), demand' = "none",
           command' \in {"target", "zero"}, StaleObserverStep
    PROVE  HfiInv'
<1>0. StandstillExit \in Int
  BY SpeedAssumption
<1>1. standstill' \in BOOLEAN
  <2>1. CASE filtered = Uninitialised
    <3>1. standstill' = (StandstillExit < StandstillEnter)
      BY <2>1 DEF SenseNothing
    <3> QED
      BY <3>1
  <2>2. CASE filtered # Uninitialised
    BY <2>2 DEF SenseNothing, HfiInv, HfiTypeOK
  <2> QED
    BY <2>1, <2>2
<1>2. /\ filtered' \in Int /\ filtered' >= Uninitialised
      /\ settle' \in -SettleBound..SettleBound
  BY <1>0, SpeedAssumption DEF SenseNothing, HfiInv, HfiTypeOK, Uninitialised
<1>3. Settled \in BOOLEAN
  BY <1>1, SettledBoolean
<1>4. HfiTypeOK' /\ (retryWaiting' => attempt' < MaxAttempts) /\ PhasesExclusive' /\ CapFresh'
  BY <1>0, <1>1, <1>2, <1>3, ResetKeeps
<1>5. /\ active' = FALSE /\ retryWaiting' = FALSE
      /\ cooldownElapsed' = 0 /\ latchElapsed' = 0
      /\ relatchElapsed' = RelatchAfter(0) /\ relatchElapsed' \in 0..RelatchTime
      /\ armed' => relatchElapsed' = RelatchTime \/ armed
      /\ ~armed' => relatchElapsed' < RelatchTime
  BY <1>0, <1>1, <1>3, ResetType
<1>6. restRun' \in 0..Rest
  BY RestAssumption DEF StaleObserverStep, HfiInv
<1>7. rested' = (rested /\ ~active)
  BY <1>5, Zenon DEF StaleObserverStep
<1>8. rested' \in BOOLEAN
  BY <1>7
<1>9. ~rested' => /\ relatchElapsed' <= restRun' /\ ~armed' /\ restRun' < Rest
  <2>1. SUFFICES ASSUME ~rested'
                 PROVE  relatchElapsed' <= restRun' /\ ~armed' /\ restRun' < Rest
    OBVIOUS
  <2>2. ~armed
    BY <1>7, <2>1 DEF HfiInv, DwellsCovered, PhasesExclusive
  <2>3. relatchElapsed \in 0..RelatchTime /\ relatchElapsed < RelatchTime
    BY <2>2 DEF HfiInv, HfiTypeOK, DwellsCovered
  <2>4. relatchElapsed' \in {0, relatchElapsed}
    BY <1>5 DEF RelatchAfter
  <2>5. ~armed'
    BY <1>5, <2>2, <2>3, <2>4, DwellAssumption, RestAssumption
  <2>6. relatchElapsed' <= restRun' /\ restRun' < Rest
    <3>1. CASE active
      <4>1. relatchElapsed = 0
        BY <3>1 DEF HfiInv, DwellsCovered
      <4>2. restRun' = 0 /\ relatchElapsed' = 0
        BY <2>4, <3>1, <4>1 DEF StaleObserverStep
      <4> QED
        BY <4>2, RestAssumption
    <3>2. CASE ~active
      <4>1. relatchElapsed <= restRun /\ restRun < Rest
        BY <1>7, <2>1, <3>2 DEF HfiInv, DwellsCovered
      <4>2. CASE Settled
        BY <1>5, <2>3, <3>2, <4>1, <4>2 DEF StaleObserverStep, RelatchAfter, HfiInv
      <4>3. CASE ~Settled
        <5>1. restRun' = 0 /\ relatchElapsed' = 0
          BY <1>5, <4>3 DEF StaleObserverStep, RelatchAfter
        <5> QED
          BY <5>1, RestAssumption
      <4> QED
        BY <4>2, <4>3
    <3> QED
      BY <3>1, <3>2
  <2> QED
    BY <2>5, <2>6
<1>10. DwellsCovered'
  <2>1. ~rested' => /\ cooldownElapsed' <= restRun' /\ latchElapsed' <= restRun'
    BY <1>5, <1>6
  <2> QED
    BY <1>5, <1>9, <2>1 DEF DwellsCovered
<1> QED
  BY <1>4, <1>6, <1>8, <1>10 DEF HfiInv

LEMMA StaleIdleInductive ==
    ASSUME HfiInv, UNCHANGED <<armed, active, retryWaiting, relatchPending, failureLatched,
                        motion, progress, relatchElapsed, bypassElapsed,
                        cooldownElapsed, latchElapsed, capNow, attempt>>,
           demand' \in Demands, demand' # "none",
           command' \in {"target", "zero"}, StaleObserverStep
    PROVE  HfiInv'
<1>1. UNCHANGED <<armed, active, retryWaiting, relatchPending, failureLatched,
                  standstill, filtered, settle, elapsed, exitHold, distance,
                  reverseElapsed, stallElapsed, relatchElapsed, bypassElapsed,
                  cooldownElapsed, latchElapsed, capNow, attempt>>
  BY DEF motion, progress
<1>2. HfiTypeOK'
  BY <1>1 DEF HfiInv, HfiTypeOK
<1>3. rested' = rested /\ rested' \in BOOLEAN
  BY <1>1 DEF StaleObserverStep, HfiInv
<1>4. restRun' = restRun
  BY DEF StaleObserverStep, HfiInv, DwellsCovered
<1>5. PhasesExclusive' /\ CapFresh'
  BY <1>1 DEF HfiInv, PhasesExclusive, CapFresh
<1>6. DwellsCovered'
  BY <1>1, <1>3, <1>4 DEF HfiInv, DwellsCovered
<1> QED
  BY <1>1, <1>2, <1>3, <1>4, <1>5, <1>6 DEF HfiInv

-----------------------------------------------------------------------------
(* The invariant of the guard.                                              *)

LEMMA InitInductive == HHInit => HfiInv
<1>1. SUFFICES ASSUME HHInit PROVE HfiInv
  OBVIOUS
<1>2. HfiTypeOK
  <2>1. /\ armed \in BOOLEAN /\ active \in BOOLEAN /\ retryWaiting \in BOOLEAN
        /\ relatchPending \in BOOLEAN /\ failureLatched \in BOOLEAN
        /\ standstill \in BOOLEAN
        /\ demand \in Demands /\ command \in {"target", "capped", "zero"}
    BY <1>1 DEF HHInit, HfiInit, Demands
  <2>2. /\ filtered \in Int /\ filtered >= Uninitialised
        /\ settle \in -SettleBound..SettleBound
    BY <1>1, SpeedAssumption DEF HHInit, HfiInit, Uninitialised
  <2>3. /\ elapsed \in Nat /\ exitHold \in 0..ExitHold
        /\ relatchElapsed \in 0..RelatchTime /\ bypassElapsed \in 0..BypassHold
        /\ cooldownElapsed \in 0..RetryCooldown /\ reverseElapsed \in 0..ReverseHold
        /\ stallElapsed \in 0..EscalateDelay /\ latchElapsed \in 0..LatchReleaseTime
        /\ distance \in Int
    BY <1>1, DwellAssumption DEF HHInit, HfiInit
  <2>4. capNow \in 0..CapMax /\ attempt \in 0..MaxAttempts
    BY <1>1, AttemptAssumption DEF HHInit, HfiInit
  <2> QED
    BY <2>1, <2>2, <2>3, <2>4 DEF HfiTypeOK
<1>3. restRun \in 0..Rest /\ rested \in BOOLEAN
  BY <1>1, RestAssumption DEF HHInit
<1>4. (retryWaiting => attempt < MaxAttempts) /\ PhasesExclusive
  BY <1>1 DEF HHInit, HfiInit, PhasesExclusive
<1>5. DwellsCovered
  BY <1>1 DEF HHInit, HfiInit, DwellsCovered
<1>6. CapFresh
  BY <1>1, AttemptAssumption DEF HHInit, HfiInit, CapFresh
<1> QED
  BY <1>2, <1>3, <1>4, <1>5, <1>6 DEF HfiInv

LEMMA GoInductive ==
    ASSUME HfiInv, NEW v \in Speeds, GoBranch(v), demand' = "go", ObserverStep
    PROVE  HfiInv'
<1>1. CASE Bypass(v)
  BY <1>1, BypassInductive
<1>2. CASE RelatchHold(v)
  BY <1>2, RelatchHoldInductive
<1>3. CASE RelatchStart(v)
  BY <1>3, RelatchStartInductive
<1>4. CASE FailureHold(v)
  BY <1>4, FailureHoldInductive
<1>5. CASE FailureRelease(v)
  BY <1>5, FailureReleaseInductive
<1>6. CASE RetryHold(v)
  BY <1>6, RetryHoldInductive
<1>7. CASE RetryStart(v)
  BY <1>7, RetryStartInductive
<1>8. CASE Release(v)
  BY <1>8, ReleaseInductive
<1>9. CASE KeepPushing(v)
  BY <1>9, KeepPushingInductive
<1>10. CASE GiveUp(v)
  BY <1>10, GiveUpInductive
<1>11. CASE FirstStart(v)
  BY <1>11, FirstStartInductive
<1>12. CASE Free(v)
  BY <1>12, FreeInductive
<1> QED
  BY <1>1, <1>2, <1>3, <1>4, <1>5, <1>6, <1>7, <1>8, <1>9, <1>10, <1>11, <1>12
  DEF GoBranch

LEMMA FreshInductive == HfiInv /\ ObservedFresh => HfiInv'
<1>1. SUFFICES ASSUME HfiInv, ObservedFresh PROVE HfiInv'
  OBVIOUS
<1>2. ObserverStep
  BY <1>1 DEF ObservedFresh, ObserverStep
<1>3. PICK v \in Speeds, d \in Demands :
        demand' = d /\ IF Stopping(d) THEN ResetFresh(v, d) ELSE GoBranch(v)
  BY <1>1 DEF ObservedFresh, FreshCycle
<1>4. CASE d = "go"
  BY <1>1, <1>2, <1>3, <1>4, GoInductive DEF Stopping
<1>5. CASE d # "go"
  BY <1>1, <1>2, <1>3, <1>5, ResetFreshInductive DEF Stopping, Demands
<1> QED
  BY <1>4, <1>5

LEMMA StaleInductive == HfiInv /\ ObservedStale => HfiInv'
<1>1. SUFFICES ASSUME HfiInv, ObservedStale PROVE HfiInv'
  OBVIOUS
<1>2. StaleObserverStep
  BY <1>1 DEF ObservedStale, StaleObserverStep
<1>3. command' \in {"target", "zero"}
  BY <1>1 DEF ObservedStale, StaleCycle
<1>4. PICK d \in Demands :
        /\ demand' = d
        /\ IF d = "none"
           THEN SenseNothing /\ Reset(StandstillExit, 0, d)
           ELSE UNCHANGED <<armed, active, retryWaiting, relatchPending, failureLatched,
                            motion, progress, relatchElapsed, bypassElapsed,
                            cooldownElapsed, latchElapsed, capNow, attempt>>
  BY <1>1 DEF ObservedStale, StaleCycle
<1>5. CASE d = "none"
  BY <1>1, <1>2, <1>3, <1>4, <1>5, ResetStaleInductive
<1>6. CASE d # "none"
  BY <1>1, <1>2, <1>3, <1>4, <1>6, StaleIdleInductive
<1> QED
  BY <1>5, <1>6

LEMMA StutterInductive == HfiInv /\ UNCHANGED hhvars => HfiInv'
<1>1. SUFFICES ASSUME HfiInv, UNCHANGED hhvars PROVE HfiInv'
  OBVIOUS
<1>2. UNCHANGED <<armed, active, retryWaiting, relatchPending, failureLatched,
                  standstill, filtered, settle, elapsed, exitHold, distance,
                  reverseElapsed, stallElapsed, relatchElapsed, bypassElapsed,
                  cooldownElapsed, latchElapsed, capNow, attempt, demand, command,
                  restRun, rested>>
  BY <1>1 DEF hhvars, hvars, motion, progress
<1>3. HfiTypeOK'
  BY <1>1, <1>2 DEF HfiInv, HfiTypeOK
<1>4. PhasesExclusive' /\ CapFresh'
  BY <1>1, <1>2 DEF HfiInv, PhasesExclusive, CapFresh
<1>5. DwellsCovered'
  BY <1>1, <1>2 DEF HfiInv, DwellsCovered
<1> QED
  BY <1>1, <1>2, <1>3, <1>4, <1>5 DEF HfiInv

LEMMA GuardInvariance == HHSpec => []HfiInv
<1>1. HHInit => HfiInv
  BY InitInductive
<1>2. HfiInv /\ [HHNext]_hhvars => HfiInv'
  BY FreshInductive, StaleInductive, StutterInductive DEF HHNext
<1> QED
  BY <1>1, <1>2, PTL DEF HHSpec

-----------------------------------------------------------------------------
(* What the guard promises.                                                 *)

\* The state of the guard keeps its type: no timer, attempt counter or cap leaves the
\* range of the threshold it is compared with.
THEOREM HfiTypeCorrect == HHSpec => []HfiTypeOK
<1>1. HfiInv => HfiTypeOK
  BY DEF HfiInv
<1> QED
  BY <1>1, GuardInvariance, PTL

\* The five Booleans of the guard only ever form the phases of one launch.
THEOREM PhasesExclude == HHSpec => []PhasesExclusive
<1>1. HfiInv => PhasesExclusive
  BY DEF HfiInv
<1> QED
  BY <1>1, GuardInvariance, PTL

-----------------------------------------------------------------------------
(* Rest before torque.                                                      *)

\* Each of the three dwells that start an attempt on their own ends in a car that
\* has rested; `dwell` is the timer of the branch and `threshold` its parameter.
LEMMA DwellIsRest ==
    ASSUME HfiInv, ObserverStep, Settled, ~active, command' = "capped",
           NEW threshold \in Nat, NEW dwell \in 0..threshold,
           Rest <= threshold, ~rested => dwell <= restRun,
           Tick(dwell, threshold) >= threshold
    PROVE  rested'
<1>1. SUFFICES ASSUME ~rested' PROVE FALSE
  OBVIOUS
<1>2. RestRun < Rest /\ ~rested
  BY <1>1, ObserverType
<1>3. restRun \in 0..Rest /\ restRun < Rest
  BY <1>2 DEF HfiInv, DwellsCovered
<1>4. RestRun = restRun + 1
  BY <1>3, RunGrows
<1>5. dwell <= restRun
  BY <1>2
<1>6. Tick(dwell, threshold) \in {dwell, dwell + 1}
  BY TickType
<1>7. threshold <= restRun + 1
  BY <1>3, <1>5, <1>6
<1> QED
  BY <1>2, <1>3, <1>4, <1>7

LEMMA StartRested ==
    ASSUME HfiInv, NEW v \in Speeds, GoBranch(v), ObserverStep, ~active, active'
    PROVE  rested'
<1>1. RelatchStart(v) \/ FailureRelease(v) \/ RetryStart(v) \/ FirstStart(v)
  <2>1. /\ Bypass(v) \/ RelatchHold(v) => active' = active
        /\ FailureHold(v) \/ RetryHold(v) => active' = active
        /\ Release(v) \/ KeepPushing(v) \/ GiveUp(v) => active
        /\ Free(v) => active' = active
    BY DEF Bypass, RelatchHold, FailureHold, RetryHold, Release, KeepPushing, GiveUp,
           Push, Free
  <2> QED
    BY <2>1 DEF GoBranch
<1>2. CASE RelatchStart(v)
  <2>1. Settled /\ command' = "capped" /\ Tick(relatchElapsed, RelatchTime) >= RelatchTime
    BY <1>2 DEF RelatchStart, RelatchDue, StartAttempt
  <2>2. relatchElapsed \in 0..RelatchTime /\ (~rested => relatchElapsed <= restRun)
    BY DEF HfiInv, HfiTypeOK, DwellsCovered
  <2> QED
    BY <2>1, <2>2, DwellIsRest
<1>3. CASE FailureRelease(v)
  <2>1. /\ LatchReleaseTime > 0 /\ command' = "capped"
        /\ TickIf(Settled, latchElapsed, LatchReleaseTime) >= LatchReleaseTime
    BY <1>3 DEF FailureRelease, StartAttempt
  <2>2. Settled /\ Tick(latchElapsed, LatchReleaseTime) >= LatchReleaseTime
    BY <2>1 DEF TickIf
  <2>3. latchElapsed \in 0..LatchReleaseTime /\ (~rested => latchElapsed <= restRun)
    BY DEF HfiInv, HfiTypeOK, DwellsCovered
  <2> QED
    BY <2>1, <2>2, <2>3, DwellIsRest
<1>4. CASE RetryStart(v)
  <2>1. Settled /\ command' = "capped" /\ Tick(cooldownElapsed, RetryCooldown) >= RetryCooldown
    BY <1>4 DEF RetryStart, RetryDue, StartAttempt
  <2>2. cooldownElapsed \in 0..RetryCooldown /\ (~rested => cooldownElapsed <= restRun)
    BY DEF HfiInv, HfiTypeOK, DwellsCovered
  <2> QED
    BY <2>1, <2>2, DwellIsRest
<1>5. CASE FirstStart(v)
  <2>1. Settled \in BOOLEAN
    <3>1. standstill' \in BOOLEAN
      BY <1>5, SenseType DEF FirstStart, HfiInv
    <3> QED
      BY <3>1, SettledBoolean
  <2>2. armed
    BY <1>5 DEF FirstStart
  <2>3. rested
    BY <2>2 DEF HfiInv, DwellsCovered
  <2> QED
    BY <2>1, <2>3, ObserverType
<1> QED
  BY <1>1, <1>2, <1>3, <1>4, <1>5

\* After a release, a failure or a stop request, the guard starts the next attempt
\* only on a car that has been settled without torque for Rest cycles in a row.
THEOREM RestBeforeTorque == HHSpec => TorqueNeedsRest
<1>1. HfiInv /\ [HHNext]_hhvars => [~active /\ active' => rested']_hhvars
  <2>1. SUFFICES ASSUME HfiInv, HHNext, ~active, active' PROVE rested'
    OBVIOUS
  <2>2. CASE ObservedFresh
    <3>1. ObserverStep
      BY <2>2 DEF ObservedFresh, ObserverStep
    <3>2. PICK v \in Speeds, d \in Demands :
            IF Stopping(d) THEN ResetFresh(v, d) ELSE GoBranch(v)
      BY <2>2 DEF ObservedFresh, FreshCycle
    <3>3. ~ResetFresh(v, d)
      BY <2>1 DEF ResetFresh, Reset
    <3>4. GoBranch(v)
      BY <3>2, <3>3
    <3> QED
      BY <2>1, <3>1, <3>4, StartRested
  <2>3. CASE ObservedStale
    <3>1. active' \in {FALSE, active}
      BY <2>3 DEF ObservedStale, StaleCycle, Reset
    <3> QED
      BY <2>1, <3>1
  <2> QED
    BY <2>1, <2>2, <2>3 DEF HHNext
<1> QED
  BY <1>1, GuardInvariance, PTL DEF HHSpec, TorqueNeedsRest

-----------------------------------------------------------------------------
(* The torque cap and the stale wheel speed.                                *)

\* No branch of a launch request lowers the cap, unless a latched failure opens.
LEMMA CapNotLowered ==
    ASSUME HfiInv, NEW v \in Speeds, GoBranch(v), ~failureLatched
    PROVE  ~(capNow' < capNow)
<1>1. capNow \in 0..CapMax
  BY DEF HfiInv, HfiTypeOK
<1>2. RaisedCap >= capNow /\ RaisedCap \in 0..CapMax
  BY <1>1 DEF RaisedCap
<1>3. CASE Bypass(v)
  <2>1. capNow <= SpeedCap
    BY <1>3 DEF Bypass, RelatchWaits, HfiInv, CapFresh
  <2>2. capNow' \in {SpeedCap, capNow}
    BY <1>3 DEF Bypass
  <2> QED
    BY <1>1, <2>1, <2>2
<1>4. CASE RelatchHold(v) \/ FailureHold(v) \/ RetryHold(v) \/ Free(v)
  <2>1. capNow' = capNow
    BY <1>4 DEF RelatchHold, FailureHold, RetryHold, Free
  <2> QED
    BY <1>1, <2>1
<1>5. CASE RelatchStart(v) \/ RetryStart(v)
  <2>1. capNow' = RaisedCap
    BY <1>5 DEF RelatchStart, RetryStart, StartAttempt, RetryCap
  <2> QED
    BY <1>1, <1>2, <2>1
<1>6. CASE FirstStart(v)
  <2>1. capNow <= SpeedCap /\ capNow' = SpeedCap
    BY <1>6 DEF FirstStart, StartAttempt, HfiInv, CapFresh
  <2> QED
    BY <1>1, <2>1
<1>7. CASE Release(v) \/ KeepPushing(v) \/ GiveUp(v)
  <2>1. capNow' = Escalated(stallElapsed')
    BY <1>7 DEF Release, KeepPushing, GiveUp, Push
  <2>2. Escalated(stallElapsed') >= capNow /\ Escalated(stallElapsed') \in Int
    BY <1>1, <1>2 DEF Escalated
  <2> QED
    BY <1>1, <2>1, <2>2
<1>8. ~FailureRelease(v)
  BY DEF FailureRelease
<1> QED
  BY <1>3, <1>4, <1>5, <1>6, <1>7, <1>8 DEF GoBranch

\* Over the attempts and retries of one launch request the cap never comes down.
THEOREM CapMonotone == HHSpec => CapKeptWithinRequest
<1>1. HfiInv /\ [HHNext]_hhvars
      => [capNow' < capNow => demand' # "go" \/ failureLatched]_hhvars
  <2>1. SUFFICES ASSUME HfiInv, HHNext, demand' = "go", ~failureLatched
                 PROVE  ~(capNow' < capNow)
    OBVIOUS
  <2>2. CASE ObservedFresh
    <3>1. PICK v \in Speeds, d \in Demands :
            demand' = d /\ IF Stopping(d) THEN ResetFresh(v, d) ELSE GoBranch(v)
      BY <2>2 DEF ObservedFresh, FreshCycle
    <3>2. GoBranch(v)
      BY <2>1, <3>1 DEF Stopping
    <3> QED
      BY <2>1, <3>2, CapNotLowered
  <2>3. CASE ObservedStale
    <3>1. capNow' = capNow
      BY <2>1, <2>3 DEF ObservedStale, StaleCycle
    <3>2. capNow \in Int
      BY <2>1 DEF HfiInv, HfiTypeOK
    <3> QED
      BY <3>1, <3>2
  <2> QED
    BY <2>1, <2>2, <2>3 DEF HHNext
<1> QED
  BY <1>1, GuardInvariance, PTL DEF HHSpec, CapKeptWithinRequest

\* A cycle without a wheel speed never arms the guard: the dwell is complete only
\* when it was completed by a cycle with one.
THEOREM StaleNeverRearms == HHSpec => StaleSpeedNeverRearms
<1>1. HfiInv /\ [HHNext]_hhvars => [StaleCycle /\ ~armed => ~armed']_hhvars
  <2>1. SUFFICES ASSUME HfiInv, StaleCycle, ~armed PROVE ~armed'
    OBVIOUS
  <2>2. relatchElapsed \in 0..RelatchTime /\ relatchElapsed < RelatchTime
    BY <2>1 DEF HfiInv, HfiTypeOK, DwellsCovered
  <2>3. ~(relatchElapsed >= RelatchTime)
    BY <2>2
  <2>4. ~RelatchDue(0)
    BY <2>3 DEF RelatchDue
  <2>5. PICK d \in Demands :
          IF d = "none"
          THEN SenseNothing /\ Reset(StandstillExit, 0, d)
          ELSE UNCHANGED <<armed, active, retryWaiting, relatchPending, failureLatched,
                           motion, progress, relatchElapsed, bypassElapsed,
                           cooldownElapsed, latchElapsed, capNow, attempt>>
    BY <2>1 DEF StaleCycle
  <2>6. CASE d = "none"
    <3>1. armed' = (RelatchDue(0) \/ (Settled /\ armed))
      BY <2>5, <2>6 DEF Reset
    <3> QED
      BY <2>1, <2>4, <3>1, Zenon
  <2>7. CASE d # "none"
    BY <2>1, <2>5, <2>7
  <2> QED
    BY <2>6, <2>7
<1> QED
  BY <1>1, GuardInvariance, PTL DEF HHSpec, StaleSpeedNeverRearms

\* A new launch is earned: the phases exclude each other, an attempt follows a rest
\* that was measured, and time without a measurement re-arms nothing.
THEOREM LaunchesAreEarned == HHSpec => LaunchIsEarned
  BY PhasesExclude, RestBeforeTorque, StaleNeverRearms, PTL DEF LaunchIsEarned
=============================================================================
