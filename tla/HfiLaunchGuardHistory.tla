------------------------- MODULE HfiLaunchGuardHistory -------------------------
(***************************************************************************)
(* The standing-start guard with an observer of the rest the motor has had *)
(* since the last attempt.  The guard keeps three dwell timers, in three   *)
(* branches; the observer knows none of them.                              *)
(***************************************************************************)
EXTENDS HfiLaunchGuard

CONSTANT Rest  \* no longer than any of the three configured dwells

ASSUME RestAssumption ==
    /\ Rest \in Nat \ {0}
    /\ Rest <= RelatchTime /\ Rest <= RetryCooldown
    /\ LatchReleaseTime > 0 => Rest <= LatchReleaseTime

VARIABLES
    restRun,  \* consecutive settled cycles without torque
    rested    \* restRun has reached Rest since the last attempt ended

hhvars == <<hvars, restRun, rested>>

\* A cycle of rest: settled, and asked to stop or held by the guard.
RestRun == IF Settled /\ (Stopping(demand') \/ (~active /\ command' # "target"))
           THEN Tick(restRun, Rest) ELSE 0

ObservedFresh ==
    /\ FreshCycle
    /\ restRun' = IF active' THEN 0 ELSE RestRun
    /\ rested' = (RestRun >= Rest \/ (rested /\ ~(active /\ ~active')))

\* No time passes for the guard without a speed, but a stop request ends an attempt.
ObservedStale ==
    /\ StaleCycle
    /\ restRun' = IF active \/ (demand' = "none" /\ ~Settled) THEN 0 ELSE restRun
    /\ rested' = (rested /\ ~(active /\ ~active'))

HHInit == HfiInit /\ restRun = 0 /\ rested = TRUE
HHNext == ObservedFresh \/ ObservedStale
HHSpec == HHInit /\ [][HHNext]_hhvars
HHFairSpec == HHSpec /\ HfiFairness

-----------------------------------------------------------------------------
\* The phases of a launch exclude each other: armed, pushing, waiting to retry and
\* failed; nothing pushes or waits to retry while a stop request has still to dwell.
PhasesExclusive ==
    /\ armed => ~active /\ ~retryWaiting /\ ~failureLatched
    /\ active => ~retryWaiting /\ ~failureLatched
    /\ retryWaiting => ~failureLatched
    /\ active \/ retryWaiting => ~relatchPending

\* Torque is never re-applied to a car that has not come to rest: after an attempt
\* ended, by release, failure or stop request, the next one starts only when the car
\* has been settled, without torque, for as long as Rest in one run.
TorqueNeedsRest == [][~active /\ active' => rested']_hhvars

\* The cap of a launch request only goes up, over its attempts and retries; it comes
\* down with a new request or with the automatic release of a latched failure.
CapKeptWithinRequest ==
    [][capNow' < capNow => demand' # "go" \/ failureLatched]_hhvars

\* A stop request that arrives while the wheel speed is stale is remembered, but
\* cannot complete the dwell that re-arms the guard.
StaleSpeedNeverRearms == [][StaleCycle /\ ~armed => ~armed']_hhvars

\* A new launch is earned by a rest that was measured: no torque and no re-arming
\* without it, in phases that exclude each other.
LaunchIsEarned == []PhasesExclusive /\ TorqueNeedsRest /\ StaleSpeedNeverRearms

\* The inductive invariant: each dwell timer is covered by the observed rest until
\* the car has rested, and belongs to its own phase.
DwellsCovered ==
    /\ active => restRun = 0 /\ relatchElapsed = 0
    /\ cooldownElapsed > 0 => retryWaiting
    /\ latchElapsed > 0 => failureLatched /\ ~relatchPending
    /\ ~rested =>
        /\ ~armed
        /\ restRun < Rest
        /\ relatchElapsed <= restRun
        /\ cooldownElapsed <= restRun
        /\ latchElapsed <= restRun
    /\ ~armed => relatchElapsed < RelatchTime

CapFresh == armed \/ relatchPending => capNow <= SpeedCap

HfiInv ==
    /\ HfiTypeOK
    /\ restRun \in 0..Rest /\ rested \in BOOLEAN
    /\ retryWaiting => attempt < MaxAttempts
    /\ PhasesExclusive
    /\ DwellsCovered
    /\ CapFresh
=============================================================================
