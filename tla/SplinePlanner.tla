--------------------------- MODULE SplinePlanner ---------------------------
(***************************************************************************)
(* The race-line planner (RacelineSplinePlanner): what it sees of the      *)
(* static obstacles, which of them it answers together, on which side and  *)
(* how far out it may pass them, what its validator accepts, and where it  *)
(* stops when nothing is accepted; with a car that follows the answers on  *)
(* a closed track and is planned for again at every waypoint.              *)
(*                                                                         *)
(* One waypoint per cell of a ring; lateral offsets are lanes, left of the *)
(* race line (lane 0) positive.  A side is +1 (left) or -1: multiplied by  *)
(* it, an offset becomes a distance out.  Paths start at the car.          *)
(***************************************************************************)
EXTENDS Integers, Sequences, FiniteSets, FiniteSetsExt

CONSTANTS
    Ring,         \* waypoints of the reference
    Bends,        \* those where the race line is slow
    Narrows,      \* those where the track is narrow
    Half, NarrowHalf,    \* track half width less the wall reserve
    Body,         \* vehicle_half_width_m
    Corner,       \* how much further out a corner of a turned car reaches
    HalfSpan,     \* half length of an obstacle, padding included
    Extents,      \* lateral extents of the obstacles: [right, left]
    Starts,       \* where the first obstacle can be
    Lookahead,    \* detection_lookahead_m
    ClusterGap,   \* obstacle_cluster_gap_m
    Clearance,    \* obstacleBaseClearance: half width and safety margin
    FastReserve, SlowReserve,  \* avoidanceTrackingErrorReserve at the line's and a low speed
    KeptReserve,  \* what a committed path must still keep of it
    MinOffset, MaxOffset,      \* of a target
    Rates,        \* lanes per cell of the entries and exits that are generated
    Slope,        \* maximum_lateral_slope
    Budget,       \* entry_discontinuity_min_budget_m
    PostMerge,    \* post_merge_lookahead_m
    MinPoints,    \* minimum_path_points
    StopBuffer,   \* safe_stop_buffer_m
    Probes,       \* safe_stop_escape_max_retreats
    BrakingFast,  \* braking distance from which a waypoint is passed fast
    SeenBy        \* an obstacle is seen at least this far ahead

ASSUME SplinePlannerAssumption ==
    /\ Ring \in Nat \ {0} /\ Bends \subseteq 0..(Ring - 1) /\ Narrows \subseteq 0..(Ring - 1)
    /\ {Half, NarrowHalf, Body, Corner, HalfSpan, Lookahead, ClusterGap, Clearance, FastReserve,
        SlowReserve, KeptReserve, MinOffset, MaxOffset, Slope, Budget, PostMerge, MinPoints, StopBuffer,
        Probes, BrakingFast, SeenBy} \subseteq Nat
    /\ SlowReserve <= FastReserve /\ Body <= Half /\ NarrowHalf <= Half
    /\ Starts \subseteq 0..(Ring - 1) /\ Rates \subseteq Nat \ {0}
    /\ \A e \in Extents : e.right \in Int /\ e.left \in Int /\ e.right <= e.left

\* What is left of the lookahead to look for a stop in, after i probes.
Halved[i \in 0..Probes] == IF i = 0 THEN Lookahead ELSE (Halved[i - 1] + 1) \div 2

\* The probes get down to safe_stop_escape_retreat_step_m, a cell.
ASSUME RetreatAssumption == Halved[Probes] <= 1

Cell      == 0..(Ring - 1)
Obstacles == {1, 2}
Lane      == (Body - Half)..(Half - Body)
Sides     == {1, -1}
Free      == 0    \* no side is preferred, or the switch is allowed

VARIABLES
    box,      \* the obstacles: cell of the centre and lateral extent
    seen,     \* those the detector has reported
    pose,     \* the car: its cell and lane
    answer,   \* the result of the planner that is published
    fresh,    \* it was computed, or kept, at this cell
    slipped   \* the car has left its path once

splineVars == <<box, seen, pose, answer, fresh, slipped>>

Waypoints == [d : Lane, fast : BOOLEAN]
Kinds == {"LINE", "AVOIDANCE", "MARGIN", "STOP", "PREPARATION", "NO_PATH"}

SplineTypeOK ==
    /\ box \in [Obstacles -> [at : Cell, right : Int, left : Int]]
    /\ seen \subseteq Obstacles
    /\ pose \in [s : Cell, d : Lane]
    /\ answer.kind \in Kinds /\ answer.side \in Sides \cup {Free}
    /\ Len(answer.path) <= Ring /\ \A i \in DOMAIN answer.path : answer.path[i] \in Waypoints
    /\ answer.ids \subseteq Obstacles /\ answer.end \in Cell /\ answer.verified \in BOOLEAN
    /\ answer.known \subseteq Obstacles
    /\ fresh \in BOOLEAN /\ slipped \in BOOLEAN

-----------------------------------------------------------------------------
(* What is seen from a cell. *)

Ahead(from, to) == (to - from) % Ring
HalfAt(cell) == IF cell \in Narrows THEN NarrowHalf ELSE Half

\* maximumReferenceTrackingErrorReserve over a span ahead of s.
ReserveOver(s, start, end) ==
    IF \E k \in Max({0, start})..end : (s + k) % Ring \notin Bends THEN FastReserve ELSE SlowReserve

\* An obstacle in distances ahead of s.  Its centre is wrapped into one lap: one that
\* the centre of the car has just passed is almost a lap ahead.
Expanded(s, i) ==
    LET centre == Ahead(s, box[i].at)
    IN [id |-> i, start |-> centre - HalfSpan, end |-> centre + HalfSpan,
        right |-> box[i].right, left |-> box[i].left,
        strict |-> Clearance + ReserveOver(s, centre - HalfSpan, centre + HalfSpan)]

\* expandVisibleObstacles.
Visible(s, known) == {o \in {Expanded(s, i) : i \in known} : o.end >= 0 /\ o.start <= Lookahead}

Straddles(o, reach) == o.right - reach <= 0 /\ o.left + reach >= 0

\* isBlockingRaceline; physicallyBlocksRaceline leaves the tracking reserve out.
Blocking(o)   == Straddles(o, o.strict)
Physically(o) == Straddles(o, Clearance)

PhysicallyBlocked(obstacles) == \E o \in obstacles : Physically(o)

FirstOf(obstacles) == CHOOSE o \in obstacles : \A other \in obstacles : o.start <= other.start
EndOf(obstacles)   == Max({o.end : o \in obstacles})

\* nearestCluster: the first blocking obstacle and those that follow it with no gap the
\* car could use in between, blocking or not.
Cluster(visible) ==
    LET blocking == {o \in visible : Blocking(o)}
        first == FirstOf(blocking)
        behind == {o \in visible \ {first} : o.start >= first.start}
        next == FirstOf(behind)
    IN IF blocking = {} THEN {}
       ELSE IF behind = {} \/ next.start > first.end + ClusterGap THEN {first}
       ELSE {first, next}

\* maneuverScopeEnd: a manoeuvre answers for its own cluster and, behind it, up to
\* the last waypoint before the next obstacle begins (none lies exactly on its edge).
ScopeEnd(visible, ids, end) ==
    LET others == {o.start : o \in {v \in visible : v.id \notin ids /\ v.start > end}}
    IN IF others = {} THEN end + PostMerge ELSE Max({end, Min({end + PostMerge, Min(others) - 1})})
-----------------------------------------------------------------------------
(* The validator. *)

Distance(a, b) == IF a <= b THEN b - a ELSE a - b

\* Mutant of ClearanceOf: without half width and margin, the tracking reserve of the waypoint's speed alone.
ReserveOf(w) == IF w.fast THEN FastReserve ELSE SlowReserve

\* obstacleSafetyClearance at the speed of the waypoint.
ClearanceOf(w) == Clearance + (IF w.fast THEN FastReserve ELSE SlowReserve)

\* The retention band: a committed path is held while it keeps a part of the reserve.
RetainedOf(w) == Min({ClearanceOf(w), Clearance + KeptReserve})

Hits(w, forward, o, clearance) ==
    /\ o.start <= forward /\ forward <= o.end
    /\ o.right - clearance < w.d /\ w.d < o.left + clearance

\* Mutant of FootprintFits: the centre of the car alone.
CentreFits(s, path, i) == Distance(path[i].d, 0) <= HalfAt((s + i - 1) % Ring)

\* measureFootprintTrackBound: every corner of the car is inside the track.
Turned(path, i) == \/ i > 1 /\ path[i].d # path[i - 1].d
                   \/ i < Len(path) /\ path[i].d # path[i + 1].d
FootprintFits(s, path, i) ==
    Distance(path[i].d, 0) + Body + (IF Turned(path, i) THEN Corner ELSE 0)
        <= HalfAt((s + i - 1) % Ring)

\* Mutant of EntryContinuous: the path may start anywhere.
EntryAnywhere(d, path) == TRUE

\* The first waypoint ahead is where the car is, within its tracking error, or far
\* enough for the car to get there.
EntryContinuous(d, path) ==
    Len(path) > 1 => \/ Distance(path[2].d, d) <= Budget
                     \/ Distance(path[2].d, d) <= Slope

\* validateCandidate, of a new path or of one that is kept.  Obstacles count up to the
\* horizon, walls and shape all the way.
Valid(from, path, visible, horizon, points, kept) ==
    /\ Len(path) >= points
    /\ EntryContinuous(from.d, path)
    /\ \A i \in DOMAIN path :
          /\ FootprintFits(from.s, path, i)
          /\ i > 1 => Distance(path[i].d, path[i - 1].d) <= Slope
          /\ i - 1 <= horizon =>
                \A o \in visible :
                    ~Hits(path[i], i - 1, o,
                          IF kept THEN RetainedOf(path[i]) ELSE ClearanceOf(path[i]))
-----------------------------------------------------------------------------
(* The candidates. *)

\* How far out the outer edge of an obstacle is on a side.
Edge(o, side) == IF side = 1 THEN o.left ELSE -o.right

Nearest(cluster, side, relaxed) ==
    Max({MinOffset} \cup {Edge(o, side) + (IF relaxed THEN Clearance + SlowReserve ELSE o.strict)
                          : o \in cluster})
Farthest(s, cluster) ==
    Min({MaxOffset} \cup {HalfAt((s + k) % Ring) - Body
                          : k \in Max({0, FirstOf(cluster).start})..EndOf(cluster)})

\* computeSideTargetRange: how far out a pass of the cluster may be.  When the clearance
\* at the speed of the line does not fit, the one at the lowest speed may.
TargetRange(s, cluster, side, relaxed) ==
    LET near == Nearest(cluster, side, relaxed)
        slow == Nearest(cluster, side, TRUE)
        far  == Farthest(s, cluster)
    IN IF near > MaxOffset THEN {}
       ELSE IF near <= far THEN near..far
       ELSE IF slow <= far THEN slow..far ELSE {}

\* Mutant of Toward: past the goal.
TowardAndPast(a, b, step) == IF a <= b THEN a + step ELSE a - step

\* From a one step nearer to b.
Toward(a, b, step) == IF a <= b THEN Min({b, a + step}) ELSE Max({b, a - step})

\* A candidate: out to the target, along the cluster, back to the line.  Beside an
\* obstacle it is slow where its reserve at the speed of the line does not fit.
Manoeuvre(from, target, entry, exit, cluster, visible) ==
    LET end  == EndOf(cluster)
        size == Min({Ring - 1, end + 2 + (Distance(target, 0) + exit - 1) \div exit})
        lane(k) == IF k <= end THEN Toward(from.d, target, entry * k)
                   ELSE Toward(Toward(from.d, target, entry * end), 0, exit * (k - end))
        full(k) == [d |-> lane(k), fast |-> (from.s + k) % Ring \notin Bends]
    IN [i \in 1..size |->
           [full(i - 1) EXCEPT !.fast = @ /\ 
                  \A o \in visible : ~Hits(full(i - 1), i - 1, o, ClearanceOf(full(i - 1)))]]

\* The ends of the target range, every entry and exit: what the evaluator samples
\* (module P3Search), and what of it the validator passes.
Passes(from, visible, cluster, relaxed) ==
    LET end == EndOf(cluster)
        scope == ScopeEnd(visible, {o.id : o \in cluster}, end)
        targets(side) == LET range == TargetRange(from.s, cluster, side, relaxed)
                         IN IF range = {} THEN {} ELSE {Min(range), Max(range)}
    IN {c \in UNION {{[side |-> side,
                       path |-> Manoeuvre(from, side * target, entry, exit, cluster, visible)]
                      : target \in targets(side), entry \in Rates, exit \in Rates}
                     : side \in Sides} :
          Valid(from, c.path, visible, scope, MinPoints, FALSE)}

FirstOffer(offer, fallback) == IF offer # {} THEN offer ELSE fallback

\* generateP3Candidates, unrestricted: the relaxed gate when the strict one leaves nothing.
Feasible(from, visible, cluster) ==
    FirstOffer(Passes(from, visible, cluster, FALSE), Passes(from, visible, cluster, TRUE))
-----------------------------------------------------------------------------
(* The stops. *)

GetsAway(from, visible) == Cluster(visible) # {} => Feasible(from, visible, Cluster(visible)) # {}

\* Mutant of Escapable: the obstacles as they are seen from the car (the comment there).
EscapableFromHere(from, forward, known) ==
    GetsAway(from, Visible(from.s, known))

\* anyFeasibleCandidateFrom at a stop `forward` cells ahead, with the obstacles expanded
\* anew from there.
Escapable(from, forward, known) ==
    LET there == [from EXCEPT !.s = (@ + forward) % Ring]
    IN GetsAway(there, Visible(there.s, known))

\* The bracket of the bisection: the car gets away from its first stop, not from its second.
Bracket(from, known, requested) ==
    LET bracket[i \in 0..Probes] ==
            IF i = 0 THEN <<0, requested>>
            ELSE LET b == bracket[i - 1]
                     middle == (b[1] + b[2]) \div 2
                 IN IF b[2] - b[1] <= 1 THEN b
                    ELSE IF Escapable(from, middle, known) THEN <<middle, b[2]>>
                    ELSE <<b[1], middle>>
    IN bracket[Probes]

\* Mutant of Retreated: halving until the car gets away.
RetreatedByHalves(from, known, requested) ==
    Max({0} \cup {stop \in {requested \div (2 ^ k) : k \in 1..Probes} : Escapable(from, stop, known)})

\* The latest stop from which the car gets away again.
Retreated(from, known, requested) == Bracket(from, known, requested)[1]

Requested(cluster) == Max({0, FirstOf(cluster).start - StopBuffer})

Unanswered(kind, known) ==
    [kind |-> kind, side |-> Free, path |-> <<>>, ids |-> {}, end |-> 0,
     verified |-> FALSE, known |-> known]

\* Where to stop, and whether the car gets away from there.
StopPoint(from, known, requested) ==
    IF Escapable(from, requested, known) THEN [at |-> requested, verified |-> TRUE]
    ELSE IF requested > 0 /\ Escapable(from, 0, known)
         THEN [at |-> Retreated(from, known, requested), verified |-> TRUE]
         ELSE [at |-> requested, verified |-> FALSE]

\* Brake in the lane the car is in.
StopPath(from, stop) ==
    [i \in 1..(stop + 1) |->
        [d |-> from.d, fast |-> (from.s + i - 1) % Ring \notin Bends /\ stop - (i - 1) >= BrakingFast]]

\* buildSafeStop.
StopAnswer(from, known, visible, cluster, kind, stop) ==
    IF stop.at >= 1 /\ Valid(from, StopPath(from, stop.at), visible, Ring, 2, FALSE)
    THEN [Unanswered(kind, known) EXCEPT !.path = StopPath(from, stop.at),
                                         !.verified = stop.verified, !.ids = {o.id : o \in cluster}]
    ELSE [Unanswered("NO_PATH", known) EXCEPT !.ids = {o.id : o \in cluster}]

SafeStop(from, known, visible, cluster, kind) ==
    StopAnswer(from, known, visible, cluster, kind, StopPoint(from, known, Requested(cluster)))

\* buildMarginSlowPass: along the line at the cap, past the end of the cluster.
MarginPass(from, known, cluster) ==
    [Unanswered("MARGIN", known) EXCEPT
        !.path = [i \in 1..Min({Ring - 1, EndOf(cluster) + StopBuffer + 1}) |->
                     [d |-> 0, fast |-> FALSE]],
        !.ids = {o.id : o \in cluster}, !.end = (from.s + EndOf(cluster)) % Ring]

Selected(from, known, cluster, c) ==
    [Unanswered("AVOIDANCE", known) EXCEPT
        !.side = c.side, !.path = c.path, !.ids = {o.id : o \in cluster},
        !.end = (from.s + EndOf(cluster)) % Ring]

\* The line itself may still be drivable; if not, stop.
WithoutCandidate(from, known, visible, cluster, kind) ==
    IF ~PhysicallyBlocked(cluster) THEN MarginPass(from, known, cluster)
    ELSE SafeStop(from, known, visible, cluster, kind)

Selections(from, known, cluster, feasible) ==
    {Selected(from, known, cluster, c) : c \in feasible}

\* plan: the answers it can give (which feasible candidate ranks first is left open).
PlanAround(from, known, side, visible, cluster) ==
    IF cluster = {} THEN {Unanswered("LINE", known)}
    ELSE FirstOffer(Selections(from, known, cluster,
                               {c \in Feasible(from, visible, cluster) : side \in {Free, c.side}}),
                    {WithoutCandidate(from, known, visible, cluster, "STOP")})

PlanAmong(from, known, side, visible) == PlanAround(from, known, side, visible, Cluster(visible))

Plan(from, known, side) == PlanAmong(from, known, side, Visible(from.s, known))

\* buildPreparationStop.
Prepare(from, known) ==
    LET visible == Visible(from.s, known)
        cluster == Cluster(visible)
    IN IF cluster = {} THEN Unanswered("LINE", known)
       ELSE WithoutCandidate(from, known, visible, cluster, "PREPARATION")
-----------------------------------------------------------------------------
(* The car and its planning cycle. *)

Committed == answer.kind \in {"AVOIDANCE", "MARGIN"} /\ Len(answer.path) > 1

\* The end of the committed cluster lies behind the car.
Cleared == 2 * Ahead(pose.s, answer.end) > Ring

\* Mutant of CommittedEnd: up to where the manoeuvre is back on the line (as it was before).
CommittedEndAtMerge == Len(answer.path) - 1

\* maneuverCollisionHorizon: nothing of a cluster that has been passed.
CommittedEnd == IF Cleared THEN 0 ELSE Ahead(pose.s, answer.end)

\* How far ahead the committed path is back on the line; Ring once it is.
MergeAhead ==
    LET offset == {i \in DOMAIN answer.path : answer.path[i].d # 0}
    IN IF answer.kind = "MARGIN" THEN Len(answer.path) - 1
       ELSE IF offset = {} THEN Ring ELSE Max(offset)

\* buildCurrentManeuverInput: what begins behind the merge belongs to the next manoeuvre.
Current == {i \in seen : \/ ~Committed \/ i \in answer.ids \/ 2 * MergeAhead >= Ring
                          \/ Expanded(pose.s, i).start <= MergeAhead}

\* validatePath of what is left of the committed path, which the retention band holds;
\* a margin pass only asks whether the line is still physically clear.
StillValid ==
    LET visible == Visible(pose.s, Current)
    IN IF answer.kind = "MARGIN" THEN ~PhysicallyBlocked(visible)
       ELSE Valid(pose, answer.path, visible, ScopeEnd(visible, answer.ids, CommittedEnd), 1,
                  TRUE)

\* tryEarlyChainedManeuver: the next manoeuvre, as soon as there is one.
Chained ==
    IF answer.kind = "AVOIDANCE" /\ Committed /\ Cleared
    THEN {a \in Plan(pose, seen \ answer.ids, Free) : a.kind \in {"AVOIDANCE", "MARGIN"}}
    ELSE {}

Chain ==
    /\ ~fresh /\ answer' \in Chained
    /\ fresh' = TRUE
    /\ UNCHANGED <<box, seen, pose, slipped>>

\* The manoeuvre is back on the line: it is over.
Merged == Committed /\ Cleared /\ pose.d = 0 /\ \A i \in DOMAIN answer.path : answer.path[i].d = 0

Merge ==
    /\ ~fresh /\ Merged /\ Chained = {}
    /\ answer' = Unanswered("LINE", seen)
    /\ UNCHANGED <<box, seen, pose, fresh, slipped>>

Keep ==
    /\ ~fresh /\ Committed /\ ~Merged /\ Chained = {} /\ StillValid
    /\ fresh' = TRUE
    /\ UNCHANGED <<box, seen, pose, answer, slipped>>

\* A path that is no longer valid, or none: plan.  The side of a manoeuvre under way may
\* be locked; its tail is kept when nothing blocks the line any more.
Replan ==
    /\ ~fresh /\ ~Merged /\ Chained = {} /\ ~(Committed /\ StillValid)
    /\ \E side \in {Free} \cup (IF Committed THEN {answer.side} ELSE {}) :
       \E found \in Plan(pose, Current, side) :
          answer' = IF Committed /\ found.kind = "LINE" THEN answer ELSE found
    /\ fresh' = TRUE
    /\ UNCHANGED <<box, seen, pose, slipped>>

\* While the obstacles settle: brake first.
Stabilize ==
    /\ ~fresh /\ ~Committed
    /\ answer' = Prepare(pose, seen)
    /\ fresh' = TRUE
    /\ UNCHANGED <<box, seen, pose, slipped>>

\* A latched stop is replaced by a stop that is planned from here, and otherwise kept
\* until it is released (module SafeStopLatch).
HoldStop ==
    /\ ~fresh /\ answer.kind = "STOP" /\ Len(answer.path) >= 1
    /\ \E found \in Plan(pose, seen, Free) : found.kind # "STOP"
    /\ fresh' = TRUE
    /\ UNCHANGED <<box, seen, pose, answer, slipped>>

\* The car gets to the next waypoint, or as near as its steering lets it.
Follow ==
    /\ fresh /\ Len(answer.path) > 1
    /\ pose' = [s |-> (pose.s + 1) % Ring, d |-> Toward(pose.d, answer.path[2].d, Slope)]
    /\ answer' = [answer EXCEPT !.path = Tail(@)]
    /\ fresh' = FALSE
    /\ UNCHANGED <<box, seen, slipped>>

\* A free line is followed by a car that is on it.
FollowLine ==
    /\ fresh /\ answer.kind = "LINE" /\ pose.d = 0
    /\ pose' = [pose EXCEPT !.s = (@ + 1) % Ring]
    /\ fresh' = FALSE
    /\ UNCHANGED <<box, seen, answer, slipped>>

\* A car at rest is planned for again.
Rest ==
    /\ fresh /\ Len(answer.path) <= 1 /\ ~(answer.kind = "LINE" /\ pose.d = 0)
    /\ fresh' = FALSE
    /\ UNCHANGED <<box, seen, pose, answer, slipped>>

\* The second obstacle is reported, SeenBy ahead at the latest.
See ==
    /\ 2 \notin seen /\ Ahead(pose.s, box[2].at) \in SeenBy..(Ring \div 2)
    /\ seen' = Obstacles
    /\ fresh' = FALSE
    /\ UNCHANGED <<box, pose, answer, slipped>>

Beside(i) == LET behind == Ahead(box[i].at, pose.s) IN behind <= HalfSpan \/ Ring - behind <= HalfSpan

\* Once, away from the obstacles, the car is somewhere else than on its path.
Slip ==
    /\ ~slipped /\ fresh /\ \A i \in Obstacles : ~Beside(i)
    /\ \E lane \in {pose.d - 2, pose.d + 2} : /\ Distance(lane, 0) + Body <= HalfAt(pose.s)
                                              /\ pose' = [pose EXCEPT !.d = lane]
    /\ slipped' = TRUE /\ fresh' = FALSE
    /\ UNCHANGED <<box, seen, answer>>

Touches(i) == /\ Beside(i)
              /\ box[i].right - Clearance < pose.d /\ pose.d < box[i].left + Clearance

SplineInit ==
    /\ pose = [s |-> 0, d |-> 0]
    /\ \E first \in Starts, second \in Cell, e1 \in Extents, e2 \in Extents :
          box = [i \in Obstacles |-> [at    |-> IF i = 1 THEN first ELSE second,
                                      right |-> IF i = 1 THEN e1.right ELSE e2.right,
                                      left  |-> IF i = 1 THEN e1.left ELSE e2.left]]
    /\ \A i \in Obstacles : ~Touches(i)
    /\ seen \in {{1}, Obstacles}
    /\ answer = Unanswered("LINE", {})
    /\ fresh = FALSE /\ slipped = FALSE

SplineNext == Chain \/ Merge \/ Keep \/ Replan \/ Stabilize \/ HoldStop \/ Follow \/ FollowLine \/ Rest \/ See \/ Slip

SplineSpec == SplineInit /\ [][SplineNext]_splineVars
-----------------------------------------------------------------------------
\* The car never drives onto an obstacle it knows of: not on a manoeuvre around it,
\* whatever it met and was told on the way, not on the way to a stop, not along the line.
\* What the planner leaves open is left open here: a manoeuvre does not answer for the
\* obstacles behind its own cluster, which are left to a chained plan that may not exist,
\* and a margin pass is not validated on its way to the line.
DrivesClear ==
    [][\A i \in seen : ~Touches(i) /\ Touches(i)' =>
          \/ answer.kind = "AVOIDANCE" /\ i \notin answer.ids
          \/ answer.kind = "MARGIN" /\ pose.d # 0]_splineVars

\* Nothing the planner did not know of has happened since.
Undisturbed == answer.known = seen /\ ~slipped

\* What safe_stop_escape_verified promises: once the car rests at the stop, the plan from
\* there, with both sides allowed, is not another stop.
VerifiedStopIsLeft ==
    answer.kind = "STOP" /\ answer.verified /\ Len(answer.path) = 1 /\ Undisturbed
        => \A a \in Plan(pose, seen, Free) : a.kind \notin {"STOP", "NO_PATH"}

\* A stop that was moved back was moved back no further than it had to be: one cell
\* further on the car would not get away any more.
StopIsTheLatest ==
    answer.kind \in {"STOP", "PREPARATION"} /\ answer.verified /\ fresh /\ Undisturbed =>
        LET stop == Len(answer.path) - 1
        IN stop < Requested(Cluster(Visible(pose.s, seen))) => ~Escapable(pose, stop + 1, seen)

\* The planner and the validation of a commitment judge by the same scope: a path that
\* was selected or kept is not rejected at once (the replanning loop of the comment at
\* maneuverCollisionHorizon).  Without an obstacle ahead a tail is kept as it is.
SelectedIsKept ==
    fresh /\ answer.kind = "AVOIDANCE" /\ Len(answer.path) > 1 /\ Undisturbed =>
        StillValid \/ Cluster(Visible(pose.s, Current)) = {}

\* What the planner answers is safe to follow: the car meets nothing it knows of, and its
\* body stays inside the track, in the narrow places too, which lie before and behind the
\* span the target was chosen for.
KeepsClear ==
    /\ DrivesClear
    /\ [](SplineTypeOK /\ Body - HalfAt(pose.s) <= pose.d /\ pose.d <= HalfAt(pose.s) - Body)

\* What an answer says of itself is true at the next plan, although that is made from
\* another place: a stop can be left, is not too early, and a manoeuvre is kept.
AnswersHold == VerifiedStopIsLeft /\ StopIsTheLatest /\ SelectedIsKept
=============================================================================
