---------------------------- MODULE HfiLaunchGuard ----------------------------
(***************************************************************************)
(* The standing-start guard of control_map_node (src/f1tenth_control):     *)
(* update_hfi_launch_guard, called once per control cycle with the wheel   *)
(* speed, and the code around the call that turns its decision into the    *)
(* published speed command.                                                *)
(*                                                                         *)
(* A control cycle is one action.  It reads a fresh wheel speed, or finds  *)
(* the speed source stale.  Speeds are small integers against the node's   *)
(* thresholds, a cycle with a fresh speed lasts one tick, and elapsed      *)
(* times saturate at the threshold they are compared with.                 *)
(***************************************************************************)
EXTENDS Integers

CONSTANTS
    ForwardSpeeds,     \* wheel speeds a cycle can read going forward
    BackwardSpeeds,    \* and, as magnitudes, going backward
    StandstillEnter,   \* standstill_speed
    StandstillExit,    \* standstill_exit_speed
    ExitSpeed,         \* exit_speed
    BypassSpeed,       \* moving_bypass_speed
    ReverseSpeed,      \* reverse_abort_speed
    ProgressSpeed,     \* escalate_progress_speed
    MinDistance,       \* no_progress_min_distance
    SettleBound,       \* the leaky displacement is kept within this bound
    Timeout, NoProgressTimeout, ExitHold, RelatchTime, BypassHold,
    RetryCooldown, ReverseHold, EscalateDelay, LatchReleaseTime,  \* in ticks
    MaxAttempts,       \* max_attempts
    SpeedCap,          \* speed_cap
    CapMax,            \* escalate_cap_max
    CapStep            \* escalate_rate times one tick

\* What the node's constructor clamps its parameters to.
ASSUME SpeedAssumption ==
    /\ ForwardSpeeds \subseteq Nat /\ BackwardSpeeds \subseteq Nat
    /\ StandstillEnter \in Nat /\ StandstillExit \in Nat /\ ExitSpeed \in Nat
    /\ BypassSpeed \in Nat /\ ReverseSpeed \in Nat /\ ProgressSpeed \in Nat
    /\ StandstillEnter <= StandstillExit /\ StandstillExit <= ExitSpeed
    /\ ExitSpeed <= BypassSpeed /\ 0 < BypassSpeed /\ 0 < ReverseSpeed
    /\ MinDistance \in Nat /\ SettleBound \in Nat /\ MinDistance < SettleBound
ASSUME DwellAssumption ==
    /\ Timeout \in Nat /\ NoProgressTimeout \in Nat /\ ExitHold \in Nat
    /\ RelatchTime \in Nat /\ BypassHold \in Nat /\ RetryCooldown \in Nat
    /\ ReverseHold \in Nat /\ EscalateDelay \in Nat /\ LatchReleaseTime \in Nat
ASSUME AttemptAssumption ==
    /\ MaxAttempts \in Nat \ {0}
    /\ SpeedCap \in Nat \ {0} /\ CapMax \in Nat /\ CapStep \in Nat /\ SpeedCap <= CapMax

Speeds == ForwardSpeeds \cup {-v : v \in BackwardSpeeds}

\* What the planner and the driver ask of the cycle: nothing (disengaged, or a
\* target of at most 0.1 m/s), a positive target on a path that ends in a stop
\* (launch_allowed is FALSE), or a launch.  A disengaged cycle on a path that ends
\* in a stop is as "held" with a wheel speed and as "none" without one.
Demands == {"none", "held", "go"}

VARIABLES
    armed, active, retryWaiting, relatchPending, failureLatched,
    standstill,       \* standstill_latched
    filtered,         \* standstill_filtered_speed, Uninitialised at first
    settle,           \* settle_distance
    elapsed, exitHold, relatchElapsed, bypassElapsed, cooldownElapsed,
    reverseElapsed, stallElapsed, latchElapsed,
    distance,         \* launch_signed_distance
    capNow,           \* cap_now
    attempt,
    demand,           \* the demand of the last cycle
    command           \* what the last cycle published: the target, a cap or zero

Uninitialised == -1

motion   == <<standstill, filtered, settle>>
progress == <<elapsed, exitHold, distance, reverseElapsed, stallElapsed>>
hvars    == <<armed, active, retryWaiting, relatchPending, failureLatched, motion,
              progress, relatchElapsed, bypassElapsed, cooldownElapsed, latchElapsed,
              capNow, attempt, demand, command>>

HfiTypeOK ==
    /\ armed \in BOOLEAN /\ active \in BOOLEAN /\ retryWaiting \in BOOLEAN
    /\ relatchPending \in BOOLEAN /\ failureLatched \in BOOLEAN
    /\ standstill \in BOOLEAN
    /\ filtered \in Int /\ filtered >= Uninitialised
    /\ settle \in -SettleBound..SettleBound
    /\ elapsed \in Nat /\ exitHold \in 0..ExitHold
    /\ relatchElapsed \in 0..RelatchTime /\ bypassElapsed \in 0..BypassHold
    /\ cooldownElapsed \in 0..RetryCooldown /\ reverseElapsed \in 0..ReverseHold
    /\ stallElapsed \in 0..EscalateDelay /\ latchElapsed \in 0..LatchReleaseTime
    /\ distance \in Int
    /\ capNow \in 0..CapMax
    /\ attempt \in 0..MaxAttempts
    /\ demand \in Demands
    /\ command \in {"target", "capped", "zero"}

HfiInit ==
    /\ armed = TRUE /\ active = FALSE /\ retryWaiting = FALSE
    /\ relatchPending = FALSE /\ failureLatched = FALSE
    /\ standstill = TRUE /\ filtered = Uninitialised /\ settle = 0
    /\ elapsed = 0 /\ exitHold = 0 /\ distance = 0 /\ reverseElapsed = 0
    /\ stallElapsed = 0 /\ relatchElapsed = 0 /\ bypassElapsed = 0
    /\ cooldownElapsed = 0 /\ latchElapsed = 0
    /\ capNow = 0 /\ attempt = 0
    /\ demand = "none" /\ command = "target"

-----------------------------------------------------------------------------
(* Is the car standing, and is it going anywhere?                           *)

Abs(v)        == IF v < 0 THEN -v ELSE v
Between(a, b) == IF a <= b THEN a..b ELSE b..a
Clamp(x, bound) == IF x > bound THEN bound ELSE IF x < -bound THEN -bound ELSE x
\* One more tick of a timer that is compared with `threshold`.
Tick(t, threshold) == IF t < threshold THEN t + 1 ELSE t
TickIf(holds, t, threshold) == IF holds THEN Tick(t, threshold) ELSE 0

\* The Schmitt trigger: the raw speed or the filtered one crosses a threshold.
SchmittNext(v, f) ==
    IF filtered = Uninitialised THEN Abs(v) < StandstillEnter
    ELSE IF standstill
         THEN Abs(v) < StandstillExit /\ f < StandstillExit
         ELSE Abs(v) < StandstillEnter \/ f < StandstillEnter

\* The low-pass filter moves any part of the way to the raw speed, and the
\* displacement leaks a part of itself.
Sense(v) ==
    /\ \E f \in IF filtered = Uninitialised THEN {Abs(v)} ELSE Between(filtered, Abs(v)) :
          filtered' = f /\ standstill' = SchmittNext(v, f)
    /\ \E leak \in {0, 1} :
          LET moved == Clamp(settle + v, SettleBound)
          IN  settle' = IF moved > 0 THEN moved - leak
                        ELSE IF moved < 0 THEN moved + leak ELSE 0

\* Without a fresh speed the guard is called with dt = 0: nothing moves.
SenseNothing ==
    /\ filtered' = IF filtered = Uninitialised THEN StandstillExit ELSE filtered
    /\ standstill' = IF filtered = Uninitialised THEN StandstillExit < StandstillEnter
                     ELSE standstill
    /\ UNCHANGED settle

\* Mutant of Settled: a car that rolls is settled as well.
SettledAlways == TRUE

\* Standing, or rocking on the spot.
Settled == standstill' \/ Abs(settle') <= MinDistance

Stopping(d) == d # "go"

-----------------------------------------------------------------------------
(* The branches of update_hfi_launch_guard, in order.  A branch of a fresh  *)
(* cycle takes the speed v; dt is 1 there and 0 in a cycle without a speed. *)

\* At least the configured cap: a cap already raised is kept.
RaisedCap == IF capNow < SpeedCap THEN SpeedCap ELSE capNow

StartAttempt(n, cap) ==
    /\ active' = TRUE /\ armed' = FALSE
    /\ elapsed' = 0 /\ exitHold' = 0 /\ distance' = 0 /\ reverseElapsed' = 0
    /\ stallElapsed' = 0 /\ cooldownElapsed' = 0
    /\ attempt' = n
    /\ capNow' = cap
    /\ command' = "capped"

\* Mutant of RelatchDue: a cycle without a speed counts as well.
RelatchDueTimed(dt) == Settled /\ Tick(relatchElapsed, RelatchTime) >= RelatchTime

\* The dwell has lasted long enough for a stop request to re-arm.
RelatchDue(dt) ==
    Settled /\ (IF dt = 0 THEN relatchElapsed ELSE Tick(relatchElapsed, RelatchTime))
                    >= RelatchTime

Reset(v, dt, d) ==
    /\ Stopping(d)
    /\ active' = FALSE /\ retryWaiting' = FALSE
    /\ elapsed' = 0 /\ exitHold' = 0 /\ distance' = 0 /\ reverseElapsed' = 0
    /\ stallElapsed' = 0 /\ cooldownElapsed' = 0 /\ latchElapsed' = 0
    /\ attempt' = 0
    /\ capNow' = SpeedCap
    /\ relatchElapsed' = IF ~Settled THEN 0
                         ELSE IF dt = 0 THEN relatchElapsed
                         ELSE Tick(relatchElapsed, RelatchTime)
    /\ armed' = (RelatchDue(dt) \/ (Settled /\ armed))
    /\ relatchPending' = (~RelatchDue(dt) /\ (relatchPending \/ ~armed \/ ~standstill'))
    /\ failureLatched' = (~RelatchDue(dt) /\ failureLatched)
    /\ bypassElapsed' = IF RelatchDue(dt) \/ v < BypassSpeed THEN 0
                        ELSE IF dt = 0 THEN bypassElapsed
                        ELSE Tick(bypassElapsed, BypassHold)

ResetFresh(v, d) ==
    /\ Sense(v)
    /\ Reset(v, 1, d)
    /\ command' = IF d = "held" /\ (standstill' \/ Abs(v) < StandstillEnter)
                  THEN "zero" ELSE "target"

RelatchWaits == relatchPending

\* Already rolling forward: hand the command over without a stop.
Bypass(v) ==
    /\ RelatchWaits /\ ~failureLatched /\ v >= BypassSpeed
    /\ Sense(v)
    /\ relatchElapsed' = 0
    /\ command' = "target"
    /\ IF Tick(bypassElapsed, BypassHold) >= BypassHold
       THEN /\ relatchPending' = FALSE /\ armed' = FALSE
            /\ bypassElapsed' = 0 /\ stallElapsed' = 0
            /\ capNow' = SpeedCap
       ELSE /\ bypassElapsed' = Tick(bypassElapsed, BypassHold)
            /\ UNCHANGED <<relatchPending, armed, stallElapsed, capNow>>
    /\ UNCHANGED <<active, retryWaiting, failureLatched, elapsed, exitHold, distance,
                   reverseElapsed, cooldownElapsed, latchElapsed, attempt>>

RelatchHold(v) ==
    /\ RelatchWaits /\ (failureLatched \/ v < BypassSpeed)
    /\ Sense(v)
    /\ ~RelatchDue(1)
    /\ relatchElapsed' = TickIf(Settled, relatchElapsed, RelatchTime)
    /\ bypassElapsed' = 0
    /\ command' = "zero"
    /\ UNCHANGED <<armed, active, retryWaiting, relatchPending, failureLatched, progress,
                   cooldownElapsed, latchElapsed, capNow, attempt>>

\* Mutant of RelatchStart: the failure stays latched.
RelatchStartLatched(v) ==
    /\ RelatchWaits /\ (failureLatched \/ v < BypassSpeed)
    /\ Sense(v)
    /\ RelatchDue(1)
    /\ StartAttempt(1, RaisedCap)
    /\ relatchPending' = FALSE
    /\ relatchElapsed' = 0 /\ bypassElapsed' = 0
    /\ UNCHANGED <<retryWaiting, latchElapsed, failureLatched>>

\* The guard itself published the zeros of this dwell.
RelatchStart(v) ==
    /\ RelatchWaits /\ (failureLatched \/ v < BypassSpeed)
    /\ Sense(v)
    /\ RelatchDue(1)
    /\ StartAttempt(1, RaisedCap)
    /\ relatchPending' = FALSE /\ failureLatched' = FALSE
    /\ relatchElapsed' = 0 /\ bypassElapsed' = 0
    /\ UNCHANGED <<retryWaiting, latchElapsed>>

NoRelatch ==
    /\ ~relatchPending
    /\ relatchElapsed' = 0 /\ bypassElapsed' = 0

\* Mutant of FailureHold: the release timer does not run.
FailureHoldFrozen(v) ==
    /\ NoRelatch /\ failureLatched
    /\ Sense(v)
    /\ command' = "zero"
    /\ UNCHANGED <<armed, active, retryWaiting, relatchPending, failureLatched, progress,
                   cooldownElapsed, latchElapsed, capNow, attempt>>

FailureHold(v) ==
    /\ NoRelatch /\ failureLatched
    /\ Sense(v)
    /\ latchElapsed' = IF LatchReleaseTime = 0 THEN latchElapsed
                       ELSE TickIf(Settled, latchElapsed, LatchReleaseTime)
    /\ LatchReleaseTime > 0 => latchElapsed' < LatchReleaseTime
    /\ command' = "zero"
    /\ UNCHANGED <<armed, active, retryWaiting, relatchPending, failureLatched, progress,
                   cooldownElapsed, capNow, attempt>>

\* Mutant of FailureRelease: the latch opens by time, moving or not.
FailureReleaseTimed(v) ==
    /\ NoRelatch /\ failureLatched
    /\ Sense(v)
    /\ LatchReleaseTime > 0
    /\ Tick(latchElapsed, LatchReleaseTime) >= LatchReleaseTime
    /\ StartAttempt(1, SpeedCap)
    /\ failureLatched' = FALSE
    /\ latchElapsed' = 0
    /\ UNCHANGED <<retryWaiting, relatchPending>>

\* A latched failure opens by itself after standing long enough.
FailureRelease(v) ==
    /\ NoRelatch /\ failureLatched
    /\ Sense(v)
    /\ LatchReleaseTime > 0
    /\ TickIf(Settled, latchElapsed, LatchReleaseTime) >= LatchReleaseTime
    /\ StartAttempt(1, SpeedCap)
    /\ failureLatched' = FALSE
    /\ latchElapsed' = 0
    /\ UNCHANGED <<retryWaiting, relatchPending>>

RetryDue == Settled /\ Tick(cooldownElapsed, RetryCooldown) >= RetryCooldown

RetryHold(v) ==
    /\ NoRelatch /\ ~failureLatched /\ retryWaiting
    /\ Sense(v)
    /\ ~RetryDue
    /\ cooldownElapsed' = TickIf(Settled, cooldownElapsed, RetryCooldown)
    /\ command' = "zero"
    /\ UNCHANGED <<armed, active, retryWaiting, relatchPending, failureLatched, progress,
                   latchElapsed, capNow, attempt>>

\* Mutant of RetryCap: a retry begins again at the bottom.
RetryCapReset == SpeedCap

\* A retry keeps the cap the last attempt had reached.
RetryCap == RaisedCap

RetryStart(v) ==
    /\ NoRelatch /\ ~failureLatched /\ retryWaiting
    /\ Sense(v)
    /\ RetryDue
    /\ retryWaiting' = FALSE
    /\ StartAttempt(attempt + 1, RetryCap)
    /\ UNCHANGED <<relatchPending, failureLatched, latchElapsed>>

-----------------------------------------------------------------------------
(* An attempt: push at the cap, raise it while stalled, release on sustained *)
(* forward speed, give up on reverse, no progress or a timeout.             *)

Escalated(stall) ==
    IF stall < EscalateDelay THEN RaisedCap
    ELSE IF RaisedCap + CapStep > CapMax THEN CapMax ELSE RaisedCap + CapStep

Push(v) ==
    /\ NoRelatch /\ ~failureLatched /\ ~retryWaiting /\ active
    /\ Sense(v)
    /\ elapsed' = elapsed + 1
    /\ distance' = distance + v
    /\ reverseElapsed' = TickIf(v <= -ReverseSpeed, reverseElapsed, ReverseHold)
    /\ stallElapsed' = TickIf(v < ProgressSpeed, stallElapsed, EscalateDelay)
    /\ capNow' = Escalated(stallElapsed')
    /\ UNCHANGED <<relatchPending, cooldownElapsed, latchElapsed, attempt>>

ExitRun(v) == TickIf(v >= ExitSpeed, exitHold, ExitHold)
Captured(v) == v >= ExitSpeed /\ ExitRun(v) >= ExitHold

\* Failed, in the state after the push: the three ways of giving up.
GaveUp(v) ==
    \/ ReverseHold > 0 /\ reverseElapsed' >= ReverseHold
    \/ NoProgressTimeout > 0 /\ elapsed' >= NoProgressTimeout /\ distance' < MinDistance
    \/ Timeout > 0 /\ elapsed' >= Timeout /\ ExitRun(v) = 0

Release(v) ==
    /\ Push(v)
    /\ Captured(v)
    /\ exitHold' = ExitRun(v)
    /\ active' = FALSE /\ armed' = FALSE
    /\ command' = "target"
    /\ UNCHANGED <<retryWaiting, failureLatched>>

KeepPushing(v) ==
    /\ Push(v)
    /\ ~Captured(v) /\ ~GaveUp(v)
    /\ exitHold' = ExitRun(v)
    /\ command' = "capped"
    /\ UNCHANGED <<armed, active, retryWaiting, failureLatched>>

\* Mutant of GiveUp: the failed attempt is repeated without a pause.
GiveUpAtOnce(v) ==
    /\ Push(v)
    /\ ~Captured(v) /\ GaveUp(v)
    /\ exitHold' = 0
    /\ active' = FALSE
    /\ armed' = TRUE
    /\ command' = "zero"
    /\ UNCHANGED <<retryWaiting, failureLatched>>

GiveUp(v) ==
    /\ Push(v)
    /\ ~Captured(v) /\ GaveUp(v)
    /\ exitHold' = 0
    /\ active' = FALSE /\ armed' = FALSE
    /\ retryWaiting' = (attempt < MaxAttempts)
    /\ failureLatched' = (attempt >= MaxAttempts)
    /\ command' = "zero"

Unguarded == NoRelatch /\ ~failureLatched /\ ~retryWaiting /\ ~active

FirstStart(v) ==
    /\ Unguarded
    /\ Sense(v)
    /\ armed /\ standstill'
    /\ StartAttempt(1, SpeedCap)
    /\ UNCHANGED <<retryWaiting, relatchPending, failureLatched, latchElapsed>>

Free(v) ==
    /\ Unguarded
    /\ Sense(v)
    /\ ~(armed /\ standstill')
    /\ command' = "target"
    /\ UNCHANGED <<armed, active, retryWaiting, relatchPending, failureLatched, progress,
                   cooldownElapsed, latchElapsed, capNow, attempt>>

-----------------------------------------------------------------------------
(* The control cycle of control_map_node.                                   *)

GoBranch(v) ==
    \/ Bypass(v)
    \/ RelatchHold(v)
    \/ RelatchStart(v)
    \/ FailureHold(v)
    \/ FailureRelease(v)
    \/ RetryHold(v)
    \/ RetryStart(v)
    \/ Release(v)
    \/ KeepPushing(v)
    \/ GiveUp(v)
    \/ FirstStart(v)
    \/ Free(v)

FreshCycle == \E v \in Speeds, d \in Demands :
    /\ demand' = d
    /\ IF Stopping(d) THEN ResetFresh(v, d) ELSE GoBranch(v)

\* The speed source is silent: a stop request is remembered, no time passes, and
\* whatever would need the speed is answered with zero.
StaleCycle == \E d \in Demands :
    /\ demand' = d
    /\ IF d = "none"
       THEN SenseNothing /\ Reset(StandstillExit, 0, d)
       ELSE UNCHANGED <<armed, active, retryWaiting, relatchPending, failureLatched,
                        motion, progress, relatchElapsed, bypassElapsed,
                        cooldownElapsed, latchElapsed, capNow, attempt>>
    /\ command' = IF active' \/ retryWaiting' \/ relatchPending' \/ failureLatched'
                     \/ (armed' /\ d # "none")
                  THEN "zero" ELSE "target"

HfiNext == FreshCycle \/ StaleCycle

HfiSpec == HfiInit /\ [][HfiNext]_hvars

\* The control timer keeps firing and the wheel speed keeps arriving.
HfiFairness == WF_hvars(FreshCycle)

-----------------------------------------------------------------------------
\* No deadlock at zero: while a launch is demanded of a car that stands and whose
\* speed is known, the guard does not go on publishing zero.
DemandEventuallyPushed ==
    <>[](demand = "go" /\ standstill) => []<>(command # "zero")
=============================================================================
