--------------------------- MODULE CruiseController ---------------------------
(***************************************************************************)
(* The cruise controller node (src/f1tenth_control): while /state says     *)
(* CRUISE it follows the opponent of /opp_obs and publishes a speed limit, *)
(* falling back to a blind limit when an input is stale or missing.        *)
(*                                                                         *)
(* Callbacks and the wall timer share one single-threaded executor, so     *)
(* each is one action.  Stamps are ages in ticks that stop growing just    *)
(* past their threshold.  A speed is only the rule that chose it.          *)
(***************************************************************************)
EXTENDS Integers

CONSTANTS
    OpponentTimeout,  \* opponent_timeout, in ticks
    EgoTimeout,       \* ego_timeout, in ticks
    StateTimeout,     \* state_timeout, in ticks
    ClearConfirm,     \* clear_confirm_sec, in ticks
    IntegralLimit,    \* integral_limit, in gap-error steps
    OpponentIds,      \* track ids /opp_obs can carry
    NoId              \* no track yet

\* The constructor raises clear_confirm_sec to opponent_timeout.
ASSUME CruiseTimeoutAssumption ==
    /\ OpponentTimeout \in Nat /\ EgoTimeout \in Nat /\ StateTimeout \in Nat
    /\ ClearConfirm \in Nat /\ ClearConfirm >= OpponentTimeout
ASSUME CruiseLimitAssumption == IntegralLimit \in Nat
ASSUME CruiseIdAssumption == NoId \notin OpponentIds

\* What the control law sees of the gap for the held ego pose, opponent and track:
\* the sign of raw_gap - desired_gap, and whether the gap less its uncertainty is
\* within emergency_stop_distance.
Gap == [error : -1..1, critical : BOOLEAN]

VARIABLES
    trackKnown,   \* track_length_ has a value
    egoAge,       \* age of ego_time_ (stale until ego_seen_)
    cruise,       \* the last /state received is STATE_CRUISE
    stateAge,     \* age of state_time_
    target,       \* opponent_.id
    gap,          \* the gap to opponent_
    targetAge,    \* age of opponent_time_
    engaged,      \* opponent_active_
    emptyAge,     \* age of empty_since_, NotEmpty while ~empty_seen_
    integral,     \* controller_.gap_integral_
    limit         \* the rule that chose the last /cruise_speed_limit

NotEmpty == -1

ego       == <<trackKnown, egoAge>>
following == <<target, targetAge, engaged, emptyAge>>
cvars == <<ego, cruise, stateAge, following, gap, integral, limit>>

CruiseTypeOK ==
    /\ trackKnown \in BOOLEAN
    /\ egoAge \in 0..EgoTimeout + 1
    /\ cruise \in BOOLEAN
    /\ stateAge \in 0..StateTimeout + 1
    /\ target \in OpponentIds \cup {NoId}
    /\ gap \in Gap
    /\ targetAge \in 0..OpponentTimeout + 1
    /\ engaged \in BOOLEAN
    /\ emptyAge \in NotEmpty..ClearConfirm
    /\ integral \in -IntegralLimit..IntegralLimit
    /\ limit \in {"none", "maximum", "blind", "stop", "follow"}

CruiseInit ==
    /\ trackKnown = FALSE
    /\ egoAge = EgoTimeout + 1
    /\ cruise = FALSE
    /\ stateAge = StateTimeout + 1
    /\ target = NoId
    /\ gap \in Gap
    /\ targetAge = OpponentTimeout + 1
    /\ engaged = FALSE
    /\ emptyAge = NotEmpty
    /\ integral = 0
    /\ limit = "none"

-----------------------------------------------------------------------------
(* Input callbacks.  Replacing the pose, the opponent or the track replaces *)
(* the gap.  Messages with non-finite fields change nothing.                *)

\* Only an array that closes into a loop longer than a metre is taken.
OnCruiseGlobal ==
    /\ trackKnown' = TRUE
    /\ gap' \in Gap
    /\ UNCHANGED <<egoAge, cruise, stateAge, following, integral, limit>>

OnEgoFrenet ==
    /\ egoAge' = 0
    /\ gap' \in Gap
    /\ UNCHANGED <<trackKnown, cruise, stateAge, following, integral, limit>>

\* Only the first empty message of a run is stamped.
OnOpponentEmpty ==
    /\ emptyAge' = IF engaged /\ emptyAge = NotEmpty THEN 0 ELSE emptyAge
    /\ UNCHANGED <<ego, cruise, stateAge, target, targetAge, engaged, gap, integral, limit>>

\* Mutant of Acquired: the integral survives a change of target.
AcquiredKeepingIntegral(id) == integral

\* The integral once opponent `id` has been stored.
Acquired(id) == IF ~engaged \/ id # target THEN 0 ELSE integral

\* Mutant of EmptyAfterTarget: a valid opponent does not end the empty run.
EmptyAfterTargetKept == emptyAge

EmptyAfterTarget == NotEmpty

\* The first obstacle of the message, dynamic and finite.
OnOpponentTarget == \E id \in OpponentIds :
    /\ integral' = Acquired(id)
    /\ target' = id
    /\ gap' \in Gap
    /\ targetAge' = 0
    /\ engaged' = TRUE
    /\ emptyAge' = EmptyAfterTarget
    /\ UNCHANGED <<ego, cruise, stateAge, limit>>

\* Mutant of AfterState: the integral is kept when the mode changes.
AfterStateKept(isCruise) == integral

\* The integral once /state has arrived: entering and leaving CRUISE reset it.
AfterState(isCruise) == IF cruise # isCruise THEN 0 ELSE integral

OnState == \E isCruise \in BOOLEAN :
    /\ cruise' = isCruise
    /\ stateAge' = 0
    /\ integral' = AfterState(isCruise)
    /\ UNCHANGED <<ego, following, gap, limit>>

-----------------------------------------------------------------------------
(* The publication timer: one disjunct per way out of onTimer.              *)

StateFresh  == stateAge <= StateTimeout
EgoFresh    == egoAge <= EgoTimeout
TargetFresh == targetAge <= OpponentTimeout
InputsFresh == TargetFresh /\ EgoFresh /\ trackKnown

NotCruising ==
    /\ ~cruise
    /\ limit' = "maximum"
    /\ UNCHANGED <<engaged, emptyAge, integral>>

\* Mutant of StaleState: the heartbeat of /state is not looked at.
StaleStateNever == FALSE

StaleState == ~StateFresh

StateLost ==
    /\ cruise /\ StaleState
    /\ limit' = "blind"
    /\ UNCHANGED <<engaged, emptyAge, integral>>

\* The target is dropped once the empty run is old enough.
Cleared == engaged /\ emptyAge # NotEmpty /\ emptyAge >= ClearConfirm

DropTarget ==
    /\ cruise /\ ~StaleState
    /\ Cleared
    /\ engaged' = FALSE
    /\ emptyAge' = NotEmpty
    /\ integral' = 0
    /\ limit' = "blind"

FollowBlind ==
    /\ cruise /\ ~StaleState
    /\ ~Cleared
    /\ ~engaged \/ ~InputsFresh
    /\ limit' = "blind"
    /\ UNCHANGED <<engaged, emptyAge, integral>>

\* One step of the gap integral, clamped to +-integral_limit.
Integrate(e) ==
    LET sum == integral + e
    IN  IF sum > IntegralLimit THEN IntegralLimit
        ELSE IF sum < -IntegralLimit THEN -IntegralLimit ELSE sum

\* controller_.update: the integral moves even when the gap is critical.
Follow ==
    /\ cruise /\ ~StaleState
    /\ ~Cleared /\ engaged /\ InputsFresh
    /\ integral' = Integrate(gap.error)
    /\ limit' = IF gap.critical THEN "stop" ELSE "follow"
    /\ UNCHANGED <<engaged, emptyAge>>

OnTimer ==
    /\ NotCruising \/ StateLost \/ DropTarget \/ FollowBlind \/ Follow
    /\ UNCHANGED <<ego, cruise, stateAge, target, targetAge, gap>>

\* One tick passes.
Grow(age, threshold) == IF age <= threshold THEN age + 1 ELSE age

CruiseElapse ==
    /\ egoAge' = Grow(egoAge, EgoTimeout)
    /\ stateAge' = Grow(stateAge, StateTimeout)
    /\ targetAge' = Grow(targetAge, OpponentTimeout)
    /\ emptyAge' = IF emptyAge = NotEmpty THEN NotEmpty
                   ELSE Grow(emptyAge, ClearConfirm - 1)
    /\ UNCHANGED <<trackKnown, cruise, target, engaged, gap, integral, limit>>

CruiseNext ==
    \/ OnCruiseGlobal
    \/ OnEgoFrenet
    \/ OnOpponentEmpty
    \/ OnOpponentTarget
    \/ OnState
    \/ OnTimer
    \/ CruiseElapse

CruiseSpec == CruiseInit /\ [][CruiseNext]_cvars

\* The executor keeps serving its wall timer.
CruiseFairness == WF_cvars(OnTimer)

-----------------------------------------------------------------------------
\* Losing any input of CRUISE -- the /state heartbeat, the opponent, the ego pose
\* -- brings the limit down to the blind one, and it stays there while it is lost.
InputLossIsBlind ==
    <>[](cruise /\ ~(StateFresh /\ TargetFresh /\ EgoFresh)) => <>[](limit = "blind")
=============================================================================
