----------------------------- MODULE SafeStopLatch -----------------------------
(***************************************************************************)
(* The safe-stop latch of the local planner: once the planner has found no *)
(* way round an obstacle it brakes, remembers the danger region, and keeps *)
(* publishing the stop until one of four release conditions is confirmed   *)
(* (src/local_planning, SafeStopLifecycle and handleSafeStopLatch).        *)
(*                                                                         *)
(* Lengths are counted in cells of a closed track; what the latch measures *)
(* is the distance driven since it was activated.  One planning cycle is   *)
(* one action.                                                             *)
(***************************************************************************)
EXTENDS Integers

CONSTANTS
    Lap,            \* track length, in cells
    Buffer,         \* safe_stop_buffer_m, in cells
    MaxDanger,      \* bound of the model: farthest end of a danger region
    ReleaseCycles,  \* safe_stop_release_cycles
    BlindCycles     \* blind_release_sec in planning cycles, 0: disabled

ASSUME LatchAssumption ==
    /\ Lap \in Nat \ {0} /\ Buffer \in Nat /\ MaxDanger \in Nat
    /\ ReleaseCycles \in Nat \ {0} /\ BlindCycles \in Nat

VARIABLES
    latch,       \* safe_stop_lifecycle_
    driven,      \* distance ego has driven since the activation, modulo Lap
    stopped,     \* |ego speed| is below the stopped threshold
    frame,       \* what static_obstacles_ shows of the corridor ahead
    present,     \* a latched obstacle is in static_obstacles_
    selectable,  \* /state is STATE_AVOID
    output       \* what the last planning cycle published

vars == <<latch, driven, stopped, frame, present, selectable, output>>
world == <<driven, stopped, frame, present, selectable>>

\* Nothing seen; obstacles, but none near ahead; or one near ahead.
Frames == {"empty", "clear", "blocked"}

\* The verdicts of a new plan for the latched situation.
Plans == {"avoidance", "noObstacle", "safeStop", "noSafePath"}

\* fresh: a frame was received after the activation.  clearCounted, blindCounted:
\* the frame held now has been counted already (last_counted_*_sequence_).
Latches == [active : BOOLEAN, dangerEnd : 0..MaxDanger, fresh : BOOLEAN,
            feasible : 0..ReleaseCycles, clear : 0..ReleaseCycles,
            blind : 0..BlindCycles,
            clearCounted : BOOLEAN, blindCounted : BOOLEAN]

LatchTypeOK ==
    /\ latch \in Latches
    /\ driven \in 0..Lap - 1
    /\ stopped \in BOOLEAN
    /\ frame \in Frames
    /\ present \in BOOLEAN
    /\ selectable \in BOOLEAN
    /\ output \in {"none", "stop", "avoidance", "handoff"}

-----------------------------------------------------------------------------
(* SafeStopLifecycle *)

\* activate: every counter starts anew at the frame held now.
Activated(dangerEnd) ==
    [active |-> TRUE, dangerEnd |-> dangerEnd, fresh |-> FALSE,
     feasible |-> 0, clear |-> 0, blind |-> 0,
     clearCounted |-> FALSE, blindCounted |-> FALSE]

\* reset
Idle == [Activated(0) EXCEPT !.active = FALSE]

\* Mutant of BeforeOneLap: any driven distance is taken for progress.
AnyDistance == TRUE

\* Past half a lap the driven distance no longer tells ahead from behind.
BeforeOneLap == 2 * driven < Lap

Behind == BeforeOneLap /\ driven >= latch.dangerEnd
Passed == BeforeOneLap /\ driven >= latch.dangerEnd + Buffer

\* Mutant of ClearEvidence: an empty frame counts wherever the danger is.
ClearEvidenceAnywhere ==
    /\ stopped
    /\ latch.fresh
    /\ frame # "blocked"

\* An empty frame is evidence only behind the danger region; a frame with
\* obstacles is evidence when none of them is near ahead.
ClearEvidence ==
    /\ stopped
    /\ latch.fresh
    /\ IF frame = "empty" THEN Behind ELSE frame = "clear"

BlindEvidence ==
    /\ stopped
    /\ latch.fresh
    /\ frame = "empty"
    /\ ~Behind

UpTo(bound, n) == IF n < bound THEN n + 1 ELSE bound

\* A streak over distinct frames.
Streak(evidence, counted, n, bound) ==
    IF ~evidence THEN 0
    ELSE IF counted THEN n
    ELSE UpTo(bound, n)

\* The counters after one evaluation; `escape` says the plan is a valid avoidance
\* of the latched obstacle.
Evaluated(escape) ==
    [latch EXCEPT
        !.feasible     = IF escape THEN UpTo(ReleaseCycles, latch.feasible) ELSE 0,
        !.clear        = Streak(ClearEvidence, latch.clearCounted, latch.clear,
                                ReleaseCycles),
        !.clearCounted = ClearEvidence,
        !.blind        = Streak(BlindEvidence, latch.blindCounted, latch.blind,
                                BlindCycles),
        !.blindCounted = BlindEvidence]

\* Mutant of Reason: no release out of a blind spot.
ReasonNeverBlind(evaluated) ==
    IF Passed THEN "passed"
    ELSE IF evaluated.feasible = ReleaseCycles /\ selectable THEN "avoidance"
    ELSE IF evaluated.clear = ReleaseCycles THEN "clear"
    ELSE "none"

\* The release reason, the first that applies.
Reason(evaluated) ==
    IF Passed THEN "passed"
    ELSE IF evaluated.feasible = ReleaseCycles /\ selectable THEN "avoidance"
    ELSE IF evaluated.clear = ReleaseCycles THEN "clear"
    ELSE IF BlindCycles > 0 /\ evaluated.blind = BlindCycles THEN "blind"
    ELSE "none"

-----------------------------------------------------------------------------
(* The node around it. *)

LatchInit ==
    /\ latch = Idle
    /\ driven = 0
    /\ stopped \in BOOLEAN
    /\ frame = "empty" /\ present = FALSE
    /\ selectable = FALSE
    /\ output = "none"

\* A detector message: the obstacle sequence advances.
OnObstacles ==
    /\ frame' \in Frames
    /\ present' \in IF frame' = "empty" THEN {FALSE} ELSE BOOLEAN
    /\ latch' = [latch EXCEPT !.fresh = latch.active,
                              !.clearCounted = FALSE, !.blindCounted = FALSE]
    /\ UNCHANGED <<driven, stopped, selectable, output>>

\* wrapS, for a position at most one lap out.
WrapS(s) == IF s < 0 THEN s + Lap ELSE IF s >= Lap THEN s - Lap ELSE s

\* Ego moves by at most a cell, backwards too (pose noise); obstacles that are held
\* may thereby come near or leave.
OnFrenetOdometry(step) ==
    /\ driven' = IF latch.active THEN WrapS(driven + step) ELSE 0
    /\ stopped' \in BOOLEAN
    /\ frame' \in IF frame = "empty" THEN {"empty"} ELSE {"clear", "blocked"}
    /\ UNCHANGED <<latch, present, selectable, output>>

OnState ==
    /\ selectable' \in BOOLEAN
    /\ UNCHANGED <<latch, driven, stopped, frame, present, output>>

\* clearCommitment, called when another race line is loaded.
OnGlobalWaypoints ==
    /\ latch' = Idle
    /\ driven' = 0
    /\ UNCHANGED <<stopped, frame, present, selectable, output>>

\* latchSafeStop on an inactive latch, at the present pose and frame.
Activate(dangerEnd) ==
    /\ latch' = Activated(dangerEnd)
    /\ driven' = 0
    /\ present' \in IF frame = "empty" THEN {FALSE} ELSE BOOLEAN

\* A cycle of the planner that finds no way on.  Evaluating a latch that has just
\* been activated changes none of its counters.
LatchSafeStop ==
    /\ ~latch.active
    /\ \E dangerEnd \in 0..MaxDanger : Activate(dangerEnd)
    /\ output' = "stop"
    /\ UNCHANGED <<stopped, frame, selectable>>

Release(to) ==
    /\ latch' = Idle
    /\ driven' = 0
    /\ output' = to
    /\ UNCHANGED <<stopped, frame, present, selectable>>

(* handleSafeStopLatch: the plan, the evaluation, and one disjunct per way out. *)

\* Mutant of ReleaseToAvoidance: a passed obstacle frees the way to any avoidance.
ReleaseToUnselectable(plan, reason) ==
    /\ \/ reason = "avoidance"
       \/ reason = "passed" /\ plan = "avoidance"
    /\ Release("avoidance")

ReleaseToAvoidance(plan, reason) ==
    /\ \/ reason = "avoidance"
       \/ reason = "passed" /\ plan = "avoidance" /\ selectable
    /\ Release("avoidance")

ReleaseToHandoff(plan, reason) ==
    /\ reason \in {"passed", "clear", "blind"}
    /\ plan = "noObstacle"
    /\ Release("handoff")

\* The old danger is behind but the new plan is a stop: another latch replaces it.
Relatch(plan, reason) ==
    /\ reason = "passed" /\ plan = "safeStop"
    /\ \E dangerEnd \in 0..MaxDanger : Activate(dangerEnd)
    /\ output' = "stop"
    /\ UNCHANGED <<stopped, frame, selectable>>

\* A release that the new plan does not support is not executed, nor forgotten.
KeepStop(plan, reason, evaluated) ==
    /\ \/ reason = "none"
       \/ reason = "passed" /\ plan = "noSafePath"
       \/ reason = "passed" /\ plan = "avoidance" /\ ~selectable
       \/ reason \in {"clear", "blind"} /\ plan # "noObstacle"
    /\ latch' = evaluated
    /\ output' = "stop"
    /\ UNCHANGED world

\* An avoidance counts as an escape when it targets the latched obstacle or that
\* one is no longer seen.
HandleSafeStopLatch(plan) ==
    /\ latch.active
    /\ \E targets \in BOOLEAN :
           LET escape    == plan = "avoidance" /\ (targets \/ ~present)
               evaluated == Evaluated(escape)
               reason    == Reason(evaluated)
           IN  \/ ReleaseToAvoidance(plan, reason)
               \/ ReleaseToHandoff(plan, reason)
               \/ Relatch(plan, reason)
               \/ KeepStop(plan, reason, evaluated)

LatchNext ==
    \/ OnObstacles
    \/ \E step \in {-1, 0, 1} : OnFrenetOdometry(step)
    \/ OnState
    \/ OnGlobalWaypoints
    \/ LatchSafeStop
    \/ \E plan \in Plans : HandleSafeStopLatch(plan)

LatchSpec == LatchInit /\ [][LatchNext]_vars

\* The planning timer is served and the detector keeps publishing.
LatchFairness ==
    /\ WF_vars(\E plan \in Plans : HandleSafeStopLatch(plan))
    /\ WF_vars(OnObstacles)

-----------------------------------------------------------------------------
(* The promise, as an abstract specification. *)

Promise == INSTANCE SafeStopPromise WITH
    latched <- latch.active,
    passed  <- Passed

\* Being latched means publishing stops; the latch is left for an avoidance only
\* while /state is AVOID, and for the race line only past the danger or standing.
KeepsPromise == Promise!PromiseSpec

\* No permanent stop in a blind spot: a car that stands at one place and sees
\* nothing, and whose plans find no obstacle again and again, is not held by the
\* latch for ever (the deadlocks told in the comments of evaluate).
BlindStopIsLeft ==
    /\ []<><<HandleSafeStopLatch("noObstacle")>>_vars
    /\ \E place \in 0..Lap - 1 :
           <>[](latch.active => stopped /\ frame = "empty" /\ driven = place)
    => []<>(~latch.active)
=============================================================================
