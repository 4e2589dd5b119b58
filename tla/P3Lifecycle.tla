----------------------------- MODULE P3Lifecycle -----------------------------
(***************************************************************************)
(* The P3 manoeuvre of the local planner: how a planning cycle forms the   *)
(* conservative geometry it selects on (prepareP3InitialSelectionSnapshot),*)
(* freezes a selected path with its obstacle guards as a record            *)
(* (selectFresh), and keeps, completes or invalidates that record          *)
(* (continueCurrent).                                                      *)
(*                                                                         *)
(* An obstacle is its track id, the place on the line where it stands, and *)
(* its extent: the larger, the more of the corridor it takes.  Extent 0 is *)
(* absent.  A path is its reach: it is valid with the full reserve against *)
(* every extent up to `reach`, with the retention reserve up to            *)
(* `reach + Retention`.  It is compared with what stands ahead of the car, *)
(* in sight, and up to a collision horizon: a manoeuvre answers for its    *)
(* cluster and post_merge_lookahead behind it, and what stands further on  *)
(* is left to the next one.  Which obstacles block the line, whether the   *)
(* evaluator finds a path, and whether a path fails for a reason other     *)
(* than an obstacle are choices.                                           *)
(***************************************************************************)
EXTENDS Integers

CONSTANTS
    Ids,         \* track ids
    Extents,     \* the extents a detector reports, 0 among them
    Inflation,   \* the largest uncertainty inflation of a guard
    Retention,   \* what the retention reserve releases of the full one
    Lap,         \* cells of the race line
    Lookahead,   \* post_merge_lookahead_m, in cells
    Sight,       \* detection_lookahead_m, in cells
    Far          \* bound: the stretch of the line with the car and the obstacles

ASSUME P3Assumption ==
    /\ Extents \subseteq Nat /\ 0 \in Extents /\ Inflation \in Nat /\ Retention \in Nat
    /\ Lookahead \in Nat /\ Sight \in Nat /\ Far \in Nat \ {0} /\ Lap \in Nat
    /\ 2 * Far < Lap /\ Sight + Far < Lap

Guards == {extent + sigma : extent \in Extents, sigma \in 0..Inflation}
Places == 0..Far
States == {"IDLE", "FRESH", "COMMITTED", "CONTINUING", "INVALIDATED", "COMPLETE"}

VARIABLES
    place,      \* where each obstacle stands; static, and no id is given twice
    ego,        \* the car's pose on the line
    obstacles,  \* static_obstacles_: the extent of each id in the last message
    drained,    \* a message was accepted since the last cycle
    counted,    \* p3_selection_last_sequence_ is the current message
    union,      \* p3_selection_envelope_union_
    record,     \* record_ (NoRecord: no value)
    state,      \* state_
    decision,   \* the decision of a planning cycle; silent after any other step
    stop,       \* safe_stop_lifecycle_.active()
    seen        \* history: the extents selection has been shown of this cluster

scene == <<place, ego>>
vars  == <<place, ego, obstacles, drained, counted, union, record, state, decision, stop, seen>>

Nothing  == [id \in Ids |-> 0]
NoRecord == [ids |-> {}, guards |-> Nothing, reach |-> 0, from |-> 0, end |-> 0,
             index |-> 0, committed |-> FALSE, current |-> TRUE]

\* `from` is creation_ego_s and `end` expanded_cluster_end_s; `current` says that
\* neither the source epoch nor the race line changed since the record was made.
Record == [ids : SUBSET Ids, guards : [Ids -> Guards], reach : Guards,
           from : Places, end : Places, index : Places,
           committed : BOOLEAN, current : BOOLEAN]

P3TypeOK ==
    /\ place \in [Ids -> Places] /\ ego \in Places
    /\ obstacles \in [Ids -> Extents] /\ union \in [Ids -> Extents]
    /\ seen \in [Ids -> Extents]
    /\ drained \in BOOLEAN /\ counted \in BOOLEAN /\ stop \in BOOLEAN
    /\ record \in Record /\ state \in States
    /\ decision \in {"silent", "output", "invalidated", "complete"}

Active == record.ids # {}

Present(extents) == {id \in Ids : extents[id] > 0}

\* mergeObstacleEnvelopes
Larger(a, b)     == IF a < b THEN b ELSE a
Merged(a, b)     == [id \in Ids |-> Larger(a[id], b[id])]

\* buildGuardedObstacles: what is there grows by the uncertainty of this cycle.
Guarded(extents, sigma) ==
    [id \in Ids |-> IF extents[id] = 0 THEN 0 ELSE extents[id] + sigma]

\* obstacleEnvelopeContained
Contained(extent, guard) == extent <= guard

\* forwardDistance: round the line, from the car.
Forward(s) == (s - ego) % Lap

\* expandVisibleObstacles: ahead of the car, not further than it looks.
InSight(id)      == Forward(place[id]) <= Sight
Visible(extents) == {id \in Present(extents) : InSight(id)}

\* The obstacle check of validateCandidate: nothing up to the horizon is touched.
Clears(reach, extents, horizon) ==
    \A id \in Ids : InSight(id) /\ Forward(place[id]) <= horizon => extents[id] <= reach

\* nearestCluster: visible obstacles one behind the other, no visible one left out
\* between them.  Which of them blocks the line is a choice.
Clusters(extents) ==
    {ids \in SUBSET Visible(extents) :
        \A id \in Visible(extents) \ ids, first, last \in ids :
            ~(place[first] < place[id] /\ place[id] < place[last])}

-----------------------------------------------------------------------------
P3Init ==
    /\ place \in [Ids -> Places \ {0}] /\ ego = 0
    /\ obstacles = Nothing /\ drained = FALSE /\ counted = FALSE
    /\ union = Nothing /\ seen = Nothing
    /\ record = NoRecord /\ state = "IDLE" /\ decision = "silent"
    /\ stop = FALSE

\* Mutant of EpochAdvanced: the record is left to the lineage checks.
EpochAdvancedOnly ==
    /\ record' = IF Active THEN [record EXCEPT !.current = FALSE] ELSE record
    /\ union' = Nothing /\ seen' = Nothing
    /\ counted' = FALSE /\ UNCHANGED state

\* A new source epoch: the record and the selection envelope are reset with it.
EpochAdvanced ==
    /\ record' = NoRecord /\ state' = "IDLE"
    /\ union' = Nothing /\ seen' = Nothing
    /\ counted' = FALSE

OnGlobalWaypoints ==
    /\ EpochAdvanced
    /\ decision' = "silent"
    /\ UNCHANGED <<scene, obstacles, drained, stop>>

\* acceptObstacles, at most once per cycle: the ingress buffer keeps the newest
\* message only.  A stamp 0.5 s back is a restarted source.
OnObstacles == \E restarted \in BOOLEAN :
    /\ ~drained
    /\ drained' = TRUE
    /\ obstacles' \in [Ids -> Extents]
    /\ counted' = FALSE
    /\ IF restarted THEN EpochAdvanced
                    ELSE UNCHANGED <<union, record, state, seen>>
    /\ decision' = "silent"
    /\ UNCHANGED <<scene, stop>>

\* The car moves, or its pose jumps back.
OnFrenetOdometry == \E step \in {-1, 1} :
    /\ ego + step \in Places
    /\ ego' = ego + step
    /\ decision' = "silent"
    /\ UNCHANGED <<place, obstacles, drained, counted, union, record, state, stop, seen>>

-----------------------------------------------------------------------------
(* prepareP3InitialSelectionSnapshot: the union of what selection was shown   *)
(* of the cluster, and the conservative geometry the planner works on.        *)

\* The blocking cluster shares no obstacle with the one accumulated so far.
Restarts(cluster) == Present(union) \cap cluster = {}

\* Mutant of UnionAfter: an obstacle missing from this message is dropped.
UnionOfPresent(cluster, fresh) ==
    [id \in Ids |->
        IF id \notin Present(obstacles) THEN 0
        ELSE LET before == IF Restarts(cluster) THEN 0 ELSE union[id]
             IN  IF fresh /\ id \in cluster THEN Larger(before, obstacles[id]) ELSE before]

UnionAfter(cluster, fresh) ==
    LET before == IF Restarts(cluster) THEN Nothing ELSE union
    IN  [id \in Ids |-> IF fresh /\ id \in cluster
                        THEN Larger(before[id], obstacles[id]) ELSE before[id]]

\* What selection has been shown: each message counts once, with the cluster of its
\* first cycle.
SeenAfter(cluster) ==
    LET another == Present(seen) \cap cluster = {}
    IN  [id \in Ids |-> IF id \in cluster /\ (another \/ ~counted)
                        THEN Larger(IF another THEN 0 ELSE seen[id], obstacles[id])
                        ELSE IF another THEN 0 ELSE seen[id]]

\* What blocks the line is asked for only while no record is active.
BlockingClusters == IF Active THEN {{}} ELSE Clusters(obstacles)

\* While a record is active the union is left as it was; without a blocking
\* cluster there is nothing to remember.
Prepared(cluster) ==
    \/ /\ Active
       /\ UNCHANGED <<union, counted, seen>>
    \/ /\ ~Active /\ cluster = {}
       /\ union' = Nothing /\ seen' = Nothing
       /\ counted' = FALSE
    \/ /\ ~Active /\ cluster # {}
       /\ union' = UnionAfter(cluster, Restarts(cluster) \/ ~counted)
       /\ seen' = SeenAfter(cluster)
       /\ counted' = TRUE

-----------------------------------------------------------------------------
(* selectFresh.                                                              *)

\* Where a cluster ends: at its last obstacle.
EndOf(ids) == {place[last] : last \in {id \in ids : \A other \in ids : place[other] <= place[id]}}

\* A path the evaluator found on `live`: it avoids a cluster of it.  It is certified
\* up to the end of that cluster and not beyond the front of the next obstacle
\* (maneuverScopeEnd).
Fresh(live) ==
    {path \in UNION {[ids : {ids}, end : EndOf(ids), reach : Guards] : ids \in Clusters(live)} :
        Clears(path.reach, live, Forward(path.end))}

\* What selectFresh asks of it besides: a cluster that ends ahead, every id of it
\* measured in this very message, and the path valid against the raw geometry, here
\* for the whole of what the manoeuvre answers for.
Selectable(path) ==
    /\ Forward(path.end) > 0
    /\ path.ids \subseteq Present(obstacles)
    /\ Clears(path.reach, obstacles, Forward(path.end) + Lookahead)

Selected(path, live) ==
    /\ record' = [NoRecord EXCEPT
                    !.ids = path.ids, !.reach = path.reach,
                    !.from = ego, !.end = path.end,
                    !.guards = [id \in Ids |-> IF id \in path.ids THEN live[id] ELSE 0]]
    /\ state' = "FRESH"
    /\ decision' = "output"

\* The evaluator has nothing, or what it has may not own the output: the record, if
\* there was one, is gone, and in the second case the decision does not say so.
NoFresh(live) ==
    /\ \E path \in Fresh(live) : ~Selectable(path)
    /\ record' = NoRecord
    /\ state' = IF Active THEN "INVALIDATED" ELSE "IDLE"
    /\ decision' = "silent"

SelectFresh(live) == \E path \in Fresh(live) :
    Selectable(path) /\ Selected(path, live)

-----------------------------------------------------------------------------
(* continueCurrent.                                                          *)

Progress == (ego - record.from) % Lap

Backwards == 2 * Progress > Lap

\* Mutant of Passed: the distance round the line is taken as progress.
PassedAnyway == Progress >= record.end - record.from

Passed == ~Backwards /\ Progress >= record.end - record.from

\* An empty message is a dropout of the detector, a different one a conflict.
SameIds(live) == Present(live) = {} \/ record.ids \subseteq Present(live)

\* Mutant of ValidationGuards: the frozen guard is used without the containment test.
FrozenGuards(live) ==
    [id \in Ids |-> IF id \in record.ids THEN record.guards[id] ELSE live[id]]

\* The frozen guard speaks for an obstacle while the live one stays inside it.
ValidationGuards(live) ==
    IF Present(live) = {} THEN record.guards
    ELSE [id \in Ids |-> IF id \in record.ids /\ Contained(live[id], record.guards[id])
                         THEN record.guards[id] ELSE live[id]]

\* Mutant of Horizon: the lookahead is counted from the car.
HorizonOfCar == Lookahead

\* What this manoeuvre answers for, from the car: to the end of its cluster and
\* post_merge_lookahead behind it.
Horizon == Forward(record.end) + Lookahead

\* The suffix is valid against the guards, else against the raw geometry, else
\* against the raw geometry with the retention reserve.
SuffixHolds(live) ==
    \/ Clears(record.reach, ValidationGuards(live), Horizon)
    \/ Clears(record.reach, obstacles, Horizon)
    \/ Clears(record.reach + Retention, obstacles, Horizon)

\* Mutant of Continuable: the suffix may start behind the one before.
ContinuableBackwards(live) ==
    /\ record.current /\ ~stop
    /\ ~Backwards /\ ~Passed
    /\ SameIds(live)
    /\ SuffixHolds(live)

\* Everything that must hold for the record to go on.
Continuable(live) ==
    /\ record.current /\ ~stop
    /\ ~Backwards /\ ~Passed
    /\ SameIds(live)
    /\ Progress >= record.index
    /\ SuffixHolds(live)

Continued ==
    /\ record' = [record EXCEPT !.index = Progress, !.committed = TRUE]
    /\ state' = IF record.committed THEN "CONTINUING" ELSE "COMMITTED"
    /\ decision' = "output"

Completed ==
    /\ record' = NoRecord /\ state' = "COMPLETE"
    /\ decision' = "complete"

Invalidated ==
    /\ record' = NoRecord /\ state' = "INVALIDATED"
    /\ decision' = "invalidated"

-----------------------------------------------------------------------------
(* advanceP3Lifecycle on a ready snapshot, and the cycle around it.          *)

\* A valid suffix may still fail for a reason the model does not see (a track bound,
\* a curvature): then, as for every other failure, the evaluator is asked once.
\* Without a blocking cluster it has nothing to do.
Advanced(cluster, live) ==
    \/ /\ Active /\ Continuable(live)
       /\ Continued
    \/ /\ Active /\ record.current /\ ~stop /\ Passed
       /\ Completed
    \/ /\ Active /\ ~(record.current /\ ~stop /\ Passed)
       /\ Invalidated \/ SelectFresh(live) \/ NoFresh(live)
    \/ /\ ~Active /\ cluster # {}
       /\ SelectFresh(live) \/ NoFresh(live)
    \/ /\ ~Active
       /\ record' = NoRecord /\ state' = "IDLE" /\ decision' = "silent"

\* A snapshot that is not ready ends a record.
NotReady ==
    /\ IF Active THEN Invalidated
                 ELSE record' = NoRecord /\ state' = "IDLE" /\ decision' = "silent"
    /\ UNCHANGED <<union, counted, seen>>

\* A pose whose stamp went back: everything of P3 is reset, the cycle is skipped.
StampRegressed ==
    /\ EpochAdvanced
    /\ decision' = "silent"
    /\ UNCHANGED <<scene, obstacles, stop>>
    /\ drained' = FALSE

\* The latch is P0's, which runs only in a cycle without a P3 path.
LatchAfterP0 == stop' \in IF decision' = "output" THEN {stop} ELSE BOOLEAN

ReadyCycle ==
    \E sigma \in 0..Inflation, cluster \in BlockingClusters :
        /\ ~stop
        /\ Prepared(cluster)
        /\ \E live \in {Guarded(Merged(obstacles, union'), sigma)} : Advanced(cluster, live)
        /\ LatchAfterP0
        /\ drained' = FALSE /\ UNCHANGED <<scene, obstacles>>

UnreadyCycle ==
    /\ NotReady
    /\ LatchAfterP0
    /\ drained' = FALSE /\ UNCHANGED <<scene, obstacles>>

PlanningTimer == ReadyCycle \/ UnreadyCycle \/ StampRegressed

Next == OnGlobalWaypoints \/ OnObstacles \/ OnFrenetOdometry \/ PlanningTimer

Spec == P3Init /\ [][Next]_vars

-----------------------------------------------------------------------------
(* Properties.                                                                *)

\* What stands ahead of the car and in sight, on the line itself.
AheadTo(end) == {id \in Ids : /\ ego <= place[id] /\ place[id] <= ego + Sight
                              /\ place[id] <= end}

\* No path is published that an obstacle of this cycle's own message breaks by more
\* than the retention band, up to post_merge_lookahead behind the cluster of the
\* manoeuvre, whatever the record's frozen guards say and wherever the car is.  An
\* obstacle further on may break it: it is the next manoeuvre's.
OutputClears ==
    [][decision' = "output"
        => \A id \in AheadTo(record'.end + Lookahead) :
              obstacles[id] <= record'.reach + Retention]_vars

\* A new path clears, up to the end of the cluster it avoids, every extent selection
\* has been shown since this cluster began to block: an obstacle that flickers is not
\* forgotten between two attempts.
FreshRespectsMemory ==
    [][decision' = "output" /\ state' = "FRESH"
        => \A id \in AheadTo(record'.end) : seen'[id] <= record'.reach]_vars

\* What leaves the node clears what it answers for, of this cycle and of the cluster.
PublishedClears == OutputClears /\ FreshRespectsMemory

\* While one record goes on, what is published of its path never grows backwards.
OutputsAdvance ==
    [][Active /\ record'.ids # {} /\ state' # "FRESH"
        => record'.index >= record.index]_vars

\* A manoeuvre is complete only when the car really is past its cluster: a jump back
\* of the pose across the end of the record does not look like the far end.
CompleteMeansPassed ==
    [][decision' = "complete" => ego >= record.end]_vars

\* No record of another epoch or another line is ever held.
RecordOfCurrentLine == record.current

\* A record lives on its own line, goes forward, and ends behind its cluster.
RecordRunsItsCourse == []RecordOfCurrentLine /\ OutputsAdvance /\ CompleteMeansPassed
=============================================================================
