---------------------------- MODULE SpeedProfile ----------------------------
(***************************************************************************)
(* The speed profiles of the local planner's paths                         *)
(* (raceline_spline_planner.cpp): the passes that shape a P3 candidate or  *)
(* the handoff loop, the raw slow-down overlay put on at publication, the  *)
(* stop profiles built on a published path when an obstacle turns up on    *)
(* it, and a car that follows what was published.                          *)
(*                                                                         *)
(* A path is the speeds of the cells 1..N ahead of ego, one waypoint each; *)
(* ego is at cell 0.  Speeds are kinetic energies (v*v/2 per cell): a      *)
(* constant acceleration over a cell adds a constant, and the square roots *)
(* of the code become additions.                                           *)
(***************************************************************************)
EXTENDS Integers

CONSTANTS
    N,           \* waypoints of a path
    LineSpeeds,  \* what the curvature and the race line leave of a waypoint's speed
    EgoSpeeds,   \* measured speeds
    HandoffCap,  \* flat cap of the handoff loop
    Launch,      \* longitudinal_launch_speed_floor_mps
    Knee,        \* the table of velocity_limits.csv has two bins, split here:
    SlowAccel, FastAccel,  \*   its acceleration column
    SlowDecel, FastDecel,  \*   its deceleration column
    Floor,       \* avoidance_minimum_speed_mps
    Comfort, RampMax,      \* approach_feasibility_decel_mps2 and its maximum
    Delay,       \* cells driven at a fast speed within confirmed_speed_response_delay_sec
    PostHold,    \* confirmed_speed_post_hold and raw_slowdown_post_hold distances
    RawDecel,    \* deceleration of the raw slow-down
    StopDecel,   \* safe_stop_deceleration_mps2
    Buffer,      \* safe_stop_buffer_m
    Brakes       \* what the car's brakes take off per cell

ASSUME SpeedProfileAssumption ==
    /\ N \in Nat \ {0, 1} /\ LineSpeeds \subseteq Nat /\ EgoSpeeds \subseteq Nat
    /\ \E top \in LineSpeeds : \A e \in LineSpeeds : e <= top
    /\ {HandoffCap, Launch, Knee, Floor, Delay, PostHold} \subseteq Nat
    /\ {SlowAccel, FastAccel, SlowDecel, FastDecel, Comfort, RampMax,
        RawDecel, StopDecel, Buffer} \subseteq Nat \ {0}
    /\ FastDecel <= SlowDecel  \* the column falls with speed (comment of the backward pass)
    /\ StopDecel <= Brakes /\ Brakes \in Nat

Cells == 1..N
Nowhere == N + 1

VARIABLES
    pass,    \* the pass that comes next; OUT once published
    path,     \* speed of each waypoint
    line,     \* the speeds before the passes
    ego,      \* measured speed
    first,    \* first cell of the obstacle the path passes, Nowhere without one
    last,     \* its last cell
    room,     \* fastest speed whose tracking reserve fits beside it, -1 when none does
    raw,      \* the raw slow-down: the obstacle's front cell (0 without one) and its cap
    contact,  \* cell where an obstacle found later is hit, Nowhere without one
    car,      \* the cell the car has reached
    moving    \* the car's speed

profileVars == <<pass, path, line, ego, first, last, room, raw, contact, car, moving>>
road  == <<line, ego, first, last, room>>
drive == <<contact, car, moving>>

AtMost(a, b)  == IF a < b THEN a ELSE b
AtLeast(a, b) == IF a < b THEN b ELSE a

Highest == CHOOSE e \in LineSpeeds : \A other \in LineSpeeds : other <= e

SpeedTypeOK ==
    /\ pass \in {"CAP", "HOLD", "RAMP", "ACCEL", "DECEL", "PUBLISH", "OUT",
                  "COMMITTED", "LASTPATH", "STOPPING"}
    /\ path \in [Cells -> 0..Highest] /\ line \in [Cells -> LineSpeeds]
    /\ ego \in EgoSpeeds
    /\ first \in 1..Nowhere /\ last \in first..Nowhere /\ room \in -1..Highest
    /\ raw \in [front : 0..N, cap : LineSpeeds]
    /\ contact \in 1..Nowhere
    /\ car \in 0..N /\ moving \in 0..AtLeast(Highest, ego)

-----------------------------------------------------------------------------
AccelLimitAt(e) == IF e < Knee THEN SlowAccel ELSE FastAccel
DecelLimitAt(e) == IF e < Knee THEN SlowDecel ELSE FastDecel

\* Mutant of GapLimited: without the floor.
GapUnfloored(e) == AtMost(e, room)

\* Beside an obstacle: as fast as the reserve that is left admits, never below the floor.
GapLimited(e) == IF e <= Floor THEN e ELSE AtMost(e, AtLeast(Floor, room))

Avoiding == first # Nowhere

NoRaw == [front |-> 0, cap |-> Highest]

\* applyAvoidanceVelocityLimit, per waypoint: the span of the obstacle, gaps included.
CapBySideRoom ==
    /\ pass = "CAP" /\ Avoiding
    /\ path' = [i \in Cells |-> IF i \in first..last THEN GapLimited(path[i]) ELSE path[i]]
    /\ pass' = "HOLD"
    /\ UNCHANGED <<road, raw, drive>>

\* buildGlobalHandoffPath: the whole loop at the flat cap, shaped like a manoeuvre.
HandoffLoop ==
    /\ pass = "CAP" /\ ~Avoiding
    /\ path' = [i \in Cells |-> AtMost(path[i], HandoffCap)]
    /\ pass' = "ACCEL"
    /\ UNCHANGED <<road, raw, drive>>

\* The slowest speed the geometry asks for between the entry and the end of the cluster.
Critical == CHOOSE e \in {line[i] : i \in 1..last} : \A i \in 1..last : e <= line[i]

\* It is held while the obstacle is passed, and for the post-hold distance.
HoldCriticalSpeed ==
    /\ pass = "HOLD"
    /\ path' = [i \in Cells |-> IF i \in first..(last + PostHold)
                                THEN AtMost(path[i], Critical) ELSE path[i]]
    /\ pass' = "RAMP"
    /\ UNCHANGED <<road, raw, drive>>

\* Mutant of HoldStart: the response delay is not reserved.
HoldStartAtSpan == first

\* Where the command must have reached the target: the response delay ahead of the span.
HoldStart == AtLeast(0, first - (IF ego < Knee THEN 0 ELSE Delay))

\* As gentle as the distance allows, as steep as the table does.
RampDecel ==
    LET excess  == AtLeast(0, ego - path[first])
        steep   == AtLeast(Comfort, AtMost(RampMax, DecelLimitAt(ego)))
        \* rounded up: the ramp is never gentler than the code's
        needed  == IF HoldStart = 0 THEN (IF excess = 0 THEN 0 ELSE steep)
                   ELSE (excess + HoldStart - 1) \div HoldStart
    IN AtLeast(Comfort, AtMost(needed, steep))

\* applyApproachFeasibilityRamp.
ApproachRamp ==
    /\ pass = "RAMP"
    /\ path' = [i \in Cells |->
          IF i >= first THEN path[i]
          ELSE AtMost(path[i], path[first] + RampDecel * AtLeast(0, HoldStart - i))]
    /\ pass' = "ACCEL"
    /\ UNCHANGED <<road, raw, drive>>

\* Speeds that acceleration alone can reach, cell by cell, from the car as it is.
Forward[i \in 0..N] ==
    IF i = 0 THEN AtLeast(Launch, ego)
    ELSE AtMost(path[i], Forward[i - 1] + AccelLimitAt(Forward[i - 1]))

\* applyLongitudinalFeasibility and shapeGlobalHandoffSpeed, the forward pass.
AccelerationPass ==
    /\ pass = "ACCEL"
    /\ path' = [i \in Cells |-> Forward[i]]
    /\ pass' = "DECEL"
    /\ UNCHANGED <<road, raw, drive>>

\* Mutants of Braked: the table is read at the later speed; the earlier caps are dropped.
BrakedAnew(e, later) == later + DecelLimitAt(AtLeast(e, later))
BrakedAtLater(e, later) == AtMost(e, later + DecelLimitAt(later))

\* What a waypoint may keep of its speed e before one with the speed `later`.
Braked(e, later) == AtMost(e, later + DecelLimitAt(AtLeast(e, later)))

Backward[i \in Cells] == IF i = N THEN path[N] ELSE Braked(path[i], Backward[i + 1])

\* The backward pass: every deceleration becomes one the car can brake.
BrakingPass ==
    /\ pass = "DECEL"
    /\ path' = [i \in Cells |-> Backward[i]]
    /\ pass' = "PUBLISH"
    /\ UNCHANGED <<road, raw, drive>>

\* Mutant of Released: the line speed is back right behind the hold.
ReleasedAtOnce(before) == Highest

\* Behind the hold the speed comes back as fast as the table accelerates.
Released(before) == before + AccelLimitAt(before)

\* applyRawSlowdownProfile over p: brake to the cap, hold it over the span and the
\* post-hold distance, release it.
Overlay(p, slow) ==
    LET hold == slow.front + PostHold
        limit[i \in Cells] == IF i <= slow.front THEN slow.cap + RawDecel * (slow.front - i)
                              ELSE IF i <= hold THEN slow.cap
                              ELSE Released(IF i = 1 THEN slow.cap
                                            ELSE AtMost(p[i - 1], limit[i - 1]))
    IN [i \in Cells |-> AtMost(p[i], limit[i])]

\* publishResult puts the overlay on whatever it publishes, when the detector's raw
\* boxes ask for it.
Publish ==
    /\ pass = "PUBLISH"
    /\ \/ UNCHANGED <<path, raw>>
       \/ \E front \in Cells, cap \in LineSpeeds \ {0} :
             /\ raw' = [front |-> front, cap |-> cap]
             /\ path' = Overlay(path, raw')
    /\ pass' = "OUT"
    /\ UNCHANGED <<road, drive>>
-----------------------------------------------------------------------------
(* An obstacle turns up on the published path: the ladder of stop profiles. *)

\* firstCollisionForward on the published path.
ObstacleAppears ==
    /\ pass = "OUT"
    /\ contact' \in 1..Nowhere
    /\ pass' = "COMMITTED"
    /\ line' = [i \in Cells |-> Highest] /\ first' = Nowhere /\ last' = Nowhere
    /\ room' = 0 /\ raw' = NoRaw
    /\ UNCHANGED <<path, ego, car, moving>>

\* Publish speeds that brake to zero at waypoint `end`.  The steering geometry that
\* extendStopGeometry appends behind it has speed zero.
StopAt(end, speeds) ==
    /\ path' = [i \in Cells |-> IF i < end THEN speeds[i] ELSE 0]
    /\ pass' = "STOPPING" /\ moving' = ego
    /\ UNCHANGED <<road, raw, contact, car>>

\* Mutant of PrefixEnd: without room for the buffer, up to the contact itself.
PrefixEndAtContact == IF contact - Buffer >= 2 THEN contact - Buffer ELSE contact

\* The last waypoint of the braking prefix: the buffer short of the contact or, when
\* that leaves no path, the last one before it.
PrefixEnd == IF contact - Buffer >= 2 THEN contact - Buffer ELSE contact - 1

\* The backward pass of buildCommittedPathStop.
Brake[i \in 1..Nowhere] == IF i >= PrefixEnd THEN 0 ELSE AtMost(path[i], Brake[i + 1] + StopDecel)

CommittedPathStop ==
    /\ pass = "COMMITTED" /\ contact # Nowhere /\ PrefixEnd >= 2
    /\ StopAt(PrefixEnd, Brake)

\* There is nothing to stop for on this path, no prefix, or the entry check or the
\* validator rejects it.
CommittedPathRejected ==
    /\ pass = "COMMITTED"
    /\ pass' = "LASTPATH"
    /\ UNCHANGED <<path, road, raw, drive>>

\* Mutant of Included: the nominal braking distance alone.
IncludedNominally == {i \in Cells : (i - 1) * StopDecel <= ego}

\* The waypoints within the braking distance and before the contact.
Included == {i \in Cells : (i - 1) * StopDecel <= ego /\ i < contact}

LastIncluded == CHOOSE i \in Included : \A other \in Included : other <= i

LastPathBrake ==
    /\ pass = "LASTPATH" /\ {1, 2} \subseteq Included
    /\ StopAt(LastIncluded, [i \in Cells |-> AtMost(path[i], StopDecel * (LastIncluded - i))])

\* Fewer than two waypoints before the contact: speed zero everywhere.
EmergencyStop ==
    /\ pass = "LASTPATH" /\ ~({1, 2} \subseteq Included)
    /\ StopAt(1, path)

\* The car follows the commands as well as its brakes allow.
Drive ==
    /\ pass = "STOPPING" /\ car < N
    /\ LET command == path[car + 1]
       IN /\ moving > 0 \/ command > 0
          /\ moving' = IF command >= moving
                       THEN AtMost(command, moving + AccelLimitAt(moving))
                       ELSE AtLeast(command, moving - Brakes)
    /\ car' = car + 1
    /\ UNCHANGED <<pass, path, road, raw, contact>>

SpeedProfileInit ==
    /\ pass = "CAP"
    /\ line \in [Cells -> LineSpeeds] /\ path = line
    /\ ego \in EgoSpeeds
    /\ \/ first = Nowhere /\ last = Nowhere /\ room = 0
       \/ first \in Cells /\ last \in first..N /\ room \in -1..Highest
    /\ raw = NoRaw
    /\ contact = Nowhere /\ car = 0 /\ moving = 0

SpeedProfileNext ==
    \/ CapBySideRoom \/ HandoffLoop \/ HoldCriticalSpeed \/ ApproachRamp
    \/ AccelerationPass \/ BrakingPass \/ Publish
    \/ ObstacleAppears \/ CommittedPathStop \/ CommittedPathRejected
    \/ LastPathBrake \/ EmergencyStop \/ Drive

SpeedProfileSpec == SpeedProfileInit /\ [][SpeedProfileNext]_profileVars
-----------------------------------------------------------------------------
\* inspectVelocityFeasibility finds nothing on a published path: no acceleration beyond
\* the table, from the car's own speed on, and no deceleration beyond the table or the
\* one the slow-down is built with, although six passes and the overlay wrote it.  (The
\* step from the car to the first waypoint may ask for more braking; the code says so.)
ProfileIsDrivable ==
    pass = "OUT" => \A i \in Cells :
        LET before == IF i = 1 THEN AtLeast(Launch, ego) ELSE path[i - 1]
        IN /\ path[i] <= before + AccelLimitAt(before)
           /\ i > 1 => before - path[i] <= AtLeast(DecelLimitAt(before), RawDecel)

\* An obstacle is passed at a speed its side room admits and the geometry of the whole
\* manoeuvre allows, and the command has come down to it the response delay ahead.
PassesSlowly ==
    pass = "OUT" /\ Avoiding => \A i \in Cells :
        i \in (first - (IF ego < Knee THEN 0 ELSE Delay))..last =>
            path[i] <= AtLeast(Floor, room) /\ path[i] <= Critical

\* No pass, overlay or stop profile commands more than there was: a pass never undoes
\* the cap of an earlier one, and a slow-down never revives a stop.
NeverRaised == [][\A i \in Cells : path'[i] <= path[i]]_profileVars

\* A car that can physically stop before the obstacle does, whichever stop profile the
\* ladder ends with: no profile commands a speed at the contact or behind it.
RestsBeforeContact == (contact - 1) * Brakes >= ego => car < contact

\* A published profile can be driven, slows for what it passes and stops for what it cannot.
ProfileFits ==
    [](SpeedTypeOK /\ ProfileIsDrivable /\ PassesSlowly /\ RestsBeforeContact) /\ NeverRaised
=============================================================================
