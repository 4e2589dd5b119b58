----------------------------- MODULE LocalPlanner -----------------------------
(***************************************************************************)
(* The planning cycle of the local planner (src/local_planning), with the  *)
(* P3 planner active (p3_mode TEST_ACTIVE).  Every period the node asks    *)
(* the P3 lifecycle for a path; without one it runs the hold gate, which   *)
(* refuses to give up a manoeuvre whose obstacle is still ahead, and then  *)
(* the P0 pipeline (commitment, handoff loop, safe-stop latch, initial     *)
(* stabilisation).  Exactly one path, or an empty one, leaves the node.    *)
(*                                                                         *)
(* What each planner function finds in the geometry (a feasible avoidance, *)
(* a valid tail, a blocking cluster) is a choice; what the node does with  *)
(* the answer, in which order, and what it remembers, is the code's.  The  *)
(* release ladder inside the latch is the module SafeStopLatch; here its   *)
(* verdict is a choice among the releases the ladder permits.              *)
(***************************************************************************)
EXTENDS Naturals

CONSTANTS
    ClearFrames,   \* maneuver_memory_clear_frames
    States         \* what /state can say

ASSUME PlannerAssumption ==
    /\ ClearFrames \in Nat \ {0}
    /\ {"GLOBAL", "AVOID"} \subseteq States /\ "none" \notin States

VARIABLES
    planner,    \* the members of LocalPlannerNode, see Planner
    reference,  \* has_global_waypoints_
    odometry,   \* latest_odometry_: its age, or that its stamp went back
    source,     \* age of static_obstacles_
    state       \* current_state_ ("none": has_state_ is FALSE)

vars == <<planner, reference, odometry, source, state>>

(***************************************************************************)
(* The paths the node can publish: the normal avoidance, the closed global *)
(* loop, the preparation, the latched stop, and the zero-speed hold of a   *)
(* stale pose.  `mark` is ot_line = raceline_global_handoff.               *)
(***************************************************************************)
Paths   == {"none", "empty", "avoid", "loop", "prepare", "stop", "hold"}
Guides  == {"none", "avoid", "loop"}
Planner == [commit   : Guides,    \* committed_result_ (has_commitment_: not "none")
            handoff  : BOOLEAN,   \* merge_geometry_confirmed_, handoff_active_
            observed : BOOLEAN,   \* avoid_state_observed_
            latched  : BOOLEAN,   \* safe_stop_lifecycle_.active()
            p3       : BOOLEAN,   \* p3_maneuver_lifecycle_.active()
            rear     : {"none", "away", "ahead"},  \* maneuver_obstacle_rear_s_
            gone     : 0..ClearFrames,             \* empty_maneuver_frames_
            deferred : {"none", "running", "expired"}, \* completion_deferred_since_
            guidance : Guides,    \* last_valid_guidance_result_
            out      : [path : Paths, mark : BOOLEAN]] \* the last publication

PlannerTypeOK ==
    /\ planner \in Planner
    /\ reference \in BOOLEAN
    /\ odometry \in {"none", "fresh", "stale", "regressed"}
    /\ source \in {"none", "fresh", "stale"}
    /\ state \in States \cup {"none"}

-----------------------------------------------------------------------------
(* What the members become, one operator per helper of the node.            *)

InAvoid == state = "AVOID"

Published(p, path) ==
    [p EXCEPT !.out = [path |-> path,
                       mark |-> path \in {"avoid", "loop"} /\ p.handoff],
              !.guidance = IF path \in {"avoid", "loop"} THEN path ELSE @]

\* A path owned by P3 never carries the handoff marker.
PublishedByP3(p) ==
    [p EXCEPT !.p3 = TRUE, !.guidance = "avoid",
              !.out = [path |-> "avoid", mark |-> FALSE]]

Silent(p) == [p EXCEPT !.out = [path |-> "empty", mark |-> FALSE]]

Invalidated(p) ==
    [p EXCEPT !.commit = "none", !.handoff = FALSE, !.observed = FALSE]

Cleared(p) ==
    [Invalidated(p) EXCEPT !.rear = "none", !.deferred = "none", !.latched = FALSE]

Committed(p) ==
    [p EXCEPT !.commit = "avoid", !.handoff = FALSE, !.latched = FALSE,
              !.observed = @ \/ InAvoid]

HandedOff(p) ==
    [p EXCEPT !.commit = "loop", !.handoff = TRUE, !.latched = FALSE,
              !.observed = @ \/ InAvoid]

\* Mutant of Latched: the loop stays marked under the stop.
LatchedMarked(p) == [p EXCEPT !.latched = TRUE]

Latched(p) == [p EXCEPT !.latched = TRUE, !.handoff = FALSE]

ResetForChained(p) ==
    [p EXCEPT !.commit = "none", !.handoff = FALSE, !.latched = FALSE,
              !.observed = IF state = "none" THEN @ ELSE InAvoid]

\* A new blocking cluster: swap to a feasible avoidance, or start from scratch.
Chained(p) == {Committed(ResetForChained(p)), ResetForChained(p)}

\* Mutant of RearsForgotten: the memory is looked after only while there is a
\* manoeuvre, so nothing ends it once the manoeuvre is gone.
RearsKeptWhenGone(p) == p

\* No manoeuvre in this cycle: its obstacles are forgotten after ClearFrames.
RearsForgotten(p) ==
    LET gone == IF p.gone < ClearFrames THEN p.gone + 1 ELSE p.gone
    IN  [p EXCEPT !.gone = gone,
                  !.rear = IF gone = ClearFrames THEN "none" ELSE @]

RearsRemembered(p, rear) == [p EXCEPT !.gone = 0, !.rear = rear]

-----------------------------------------------------------------------------
PlannerInit ==
    /\ planner = [commit |-> "none", handoff |-> FALSE, observed |-> FALSE,
                  latched |-> FALSE, p3 |-> FALSE, rear |-> "none", gone |-> 0,
                  deferred |-> "none", guidance |-> "none",
                  out |-> [path |-> "none", mark |-> FALSE]]
    /\ reference = FALSE
    /\ odometry = "none"
    /\ source = "none"
    /\ state = "none"

\* A different race line, accepted or rejected, ends every manoeuvre.
OnGlobalWaypoints ==
    /\ reference' \in BOOLEAN
    /\ planner' = [Cleared(planner) EXCEPT !.p3 = FALSE]
    /\ UNCHANGED <<odometry, source, state>>

\* A sample; its stamp may be far behind the last planned one (a restarted
\* source).  The pose moves relative to the remembered obstacles.
OnFrenetOdometry ==
    /\ odometry' \in {"fresh"} \cup IF odometry = "none" THEN {} ELSE {"regressed"}
    /\ \E rear \in IF planner.rear = "none" THEN {"none"} ELSE {"away", "ahead"} :
            planner' = [planner EXCEPT !.rear = rear]
    /\ UNCHANGED <<reference, source, state>>

OnState ==
    /\ state' \in States
    /\ planner' = [planner EXCEPT
                      !.observed = @ \/ (planner.commit # "none" /\ state' = "AVOID")]
    /\ UNCHANGED <<reference, odometry, source>>

\* Any of the three timeouts may run out.
Elapse ==
    /\ odometry' \in {odometry} \cup IF odometry = "fresh" THEN {"stale"} ELSE {}
    /\ source' \in {source} \cup IF source = "fresh" THEN {"stale"} ELSE {}
    /\ \E deferred \in {planner.deferred}
                \cup IF planner.deferred = "running" THEN {"expired"} ELSE {} :
            planner' = [planner EXCEPT !.deferred = deferred]
    /\ UNCHANGED <<reference, state>>

-----------------------------------------------------------------------------
(* The safe-stop latch: keep the stop, or leave it by a release the ladder   *)
(* permits (an avoidance the FSM selects, or the handoff loop).              *)
HandleSafeStopLatch(p) ==
    \/ planner' = Published(p, "stop")
    \/ InAvoid /\ planner' = Published(Committed(p), "avoid")
    \/ planner' = Published(HandedOff(p), "loop")

LatchSafeStop(p) == planner' = Published(Latched(p), "stop")

(* The hold gate: this cycle has no P3 path, and the rear of an obstacle of  *)
(* the manoeuvre is still ahead.  It lets go after completion_defer_max_sec. *)
HoldsOn(p) == p.rear = "ahead" /\ p.deferred # "expired"

\* Mutant of Held: the latch is not asked first.
HeldWithoutLatchCheck(p) ==
    \/ p.commit # "none" /\ planner' = Published(p, p.commit)
    \/ p.guidance # "none" /\ planner' = Published(p, p.guidance)
    \/ LatchSafeStop(p)

\* The latch, else the valid one of committed path and last guidance, else stop.
Held(p) ==
    \/ p.latched /\ HandleSafeStopLatch(p)
    \/ ~p.latched /\ p.commit # "none" /\ planner' = Published(p, p.commit)
    \/ ~p.latched /\ p.guidance # "none" /\ planner' = Published(p, p.guidance)
    \/ ~p.latched /\ LatchSafeStop(p)

NotHeld(p) ==
    [p EXCEPT !.deferred = "none", !.rear = IF p.rear = "ahead" THEN "none" ELSE @]

-----------------------------------------------------------------------------
(* The P0 pipeline.                                                          *)

\* Mutant of TrackClear: silence also while /state is AVOID.
TrackClearSilent(p) ==
    \/ planner' = Published(p, "prepare")
    \/ planner' = Silent(Cleared(p))

\* Nothing blocks the line: a raw hint, else hand AVOID back, else be silent.
TrackClear(p) ==
    \/ planner' = Published(p, "prepare")
    \/ InAvoid /\ planner' = Published(HandedOff(p), "loop")
    \/ ~InAvoid /\ planner' = Silent(Cleared(p))

Plan(p) ==
    \/ planner' = Published(Committed(p), "avoid")
    \/ LatchSafeStop(p)
    \/ TrackClear(p)

\* No commitment: a blocking cluster is watched before it is planned around.
Stabilise(p) ==
    \/ Plan(p)
    \/ /\ source' = "fresh"
       /\ \/ LatchSafeStop(p)
          \/ planner' = Published(p, "prepare")
          \/ planner' = Published(p, "avoid")
          \/ /\ p.out.path \notin {"none", "empty"}
             /\ planner' = Published(HandedOff(p), "loop")

\* A committed avoidance is kept, replaced, handed off behind its tail, or stopped on.
Follow(p) ==
    \/ planner' = Published(p, "avoid")
    \/ planner' = Published(Committed(p), "avoid")
    \/ planner' = Published(HandedOff(p), "loop")
    \/ LatchSafeStop(p)

FollowOrStabilise(p) ==
    \/ p.commit # "none" /\ Follow(p)
    \/ p.commit = "none" /\ Stabilise(p)

MergeCompletion(p) ==
    \/ \E q \in Chained(p) : FollowOrStabilise(q)
    \/ planner' = Published(HandedOff(p), "loop")

EarlyChain(p) == planner' = Published(Committed(ResetForChained(p)), "avoid")

\* Mutant of Unlooped: a commitment is chained before the latch is asked.
UnloopedLatchLate(p) ==
    \/ p.latched /\ HandleSafeStopLatch(p)
    \/ p.commit # "none" /\ (EarlyChain(p) \/ MergeCompletion(p))
    \/ ~p.latched /\ FollowOrStabilise(p)

Unlooped(p) ==
    \/ p.latched /\ HandleSafeStopLatch(p)
    \/ ~p.latched /\ p.commit # "none" /\ (EarlyChain(p) \/ MergeCompletion(p))
    \/ ~p.latched /\ FollowOrStabilise(p)

\* Mutant of LoopConfirmed: a GLOBAL that has not been through AVOID confirms, and
\* the AVOID that followed the loop does not let it go.
LoopConfirmedUnobserved(p) == ~p.observed /\ state = "GLOBAL"

LoopConfirmed(p) == p.observed /\ state = "GLOBAL"

\* A committed handoff loop: a new cluster chains, /state GLOBAL releases it.
Looped(p) ==
    \/ \E q \in Chained(p) : Unlooped(q)
    \/ /\ LoopConfirmed(p)
       /\ planner' = Silent(Cleared(p))
    \/ ~LoopConfirmed(p) /\ planner' = Published(p, "loop")

\* The gates on the inputs, and the handoff loop before the latch.
RunP0(p) ==
    \/ /\ ~reference \/ odometry = "none"
       /\ planner' = Silent(p)
    \/ /\ reference /\ odometry = "stale"
       /\ planner' = Published(p, "hold")
    \/ /\ reference /\ odometry = "fresh" /\ source' = "none"
       /\ planner' = Silent(p)
    \/ /\ reference /\ odometry = "fresh" /\ source' # "none"
       /\ IF p.handoff THEN Looped(p) ELSE Unlooped(p)

-----------------------------------------------------------------------------
(* onPlanningTimer.                                                          *)

\* The obstacle buffer keeps the newest message only, so what the callbacks of
\* the ingress group did since the last cycle is a choice made at the drain: no
\* message, a newer one, or one of a restarted source, which ends P3's record.
Drained(p, restarted) == IF restarted THEN [p EXCEPT !.p3 = FALSE] ELSE p

\* captureP3CallbackSnapshot: what makes a snapshot ready.
P3Ready(p) ==
    /\ reference
    /\ odometry = "fresh"
    /\ source' = "fresh"
    /\ ~p.latched

WithoutP3Path(p, complete) ==
    \/ HoldsOn(p) /\ Held([p EXCEPT !.deferred = "running"])
    \/ /\ ~HoldsOn(p)
       /\ RunP0(IF complete THEN HandedOff(Cleared(NotHeld(p))) ELSE NotHeld(p))

\* The outcomes of advanceP3Lifecycle.  A completed or invalidated record names its
\* obstacles; one that is lost (invalidated inside, then not reselected) does not.
P3Path(p) == P3Ready(p) /\ planner' = PublishedByP3(p)

P3Complete(p) == \E rear \in {"none", "away", "ahead"} :
    /\ p.p3 /\ P3Ready(p)
    /\ WithoutP3Path(RearsRemembered([p EXCEPT !.p3 = FALSE], rear), TRUE)

P3Invalidated(p) == \E rear \in {"none", "away", "ahead"} :
    /\ p.p3
    /\ WithoutP3Path(Invalidated(RearsRemembered([p EXCEPT !.p3 = FALSE], rear)), FALSE)

P3Nothing(p) ==
    /\ p.p3 => P3Ready(p)
    /\ WithoutP3Path(RearsForgotten([p EXCEPT !.p3 = FALSE]), FALSE)

PlanningTimer == \E ingress \in {"none", "newer", "restarted"} :
    LET p == Drained(planner, ingress = "restarted" /\ source # "none")
    IN  /\ source' \in IF ingress = "none" THEN {source} ELSE {"fresh", "stale"}
        /\ UNCHANGED <<reference, state>>
        /\ \/ /\ odometry = "regressed"
              /\ odometry' \in {"fresh", "stale"}
              /\ planner' = [p EXCEPT !.p3 = FALSE]
           \/ /\ odometry # "regressed"
              /\ UNCHANGED odometry
              /\ P3Path(p) \/ P3Complete(p) \/ P3Invalidated(p) \/ P3Nothing(p)

Next ==
    \/ OnGlobalWaypoints
    \/ OnFrenetOdometry
    \/ OnState
    \/ Elapse
    \/ PlanningTimer

Spec == PlannerInit /\ [][Next]_vars

-----------------------------------------------------------------------------
(* Properties.                                                              *)

\* One authority at a time: the loop is marked exactly while it is committed and
\* no stop is latched, and P3 keeps no manoeuvre under a latched stop.
HandoffOwnsLoop ==
    /\ planner.handoff => planner.commit = "loop" /\ ~planner.latched
    /\ planner.commit = "loop" /\ ~planner.latched => planner.handoff

StopSilencesP3 == planner.latched => ~planner.p3
OneAuthority   == HandoffOwnsLoop /\ StopSilencesP3

\* Under a latched stop the node publishes nothing that drives: the stop, or the
\* zero-speed hold of a stale pose, whichever branch of the cycle ends first.
LatchedMeansStop == planner.latched => planner.out.path \in {"stop", "hold"}

\* The path has one owner, and what is published is the owner's.
PathHasOneOwner == OneAuthority /\ LatchedMeansStop

\* A latched stop is left only by a release of the ladder, an avoidance that the
\* state machine selects or the marked loop, or with the race line it was made for.
LatchIsReleased ==
    [][planner.latched /\ ~planner'.latched =>
          \/ planner'.out = [path |-> "loop", mark |-> TRUE]
          \/ planner'.out.path = "avoid" /\ state = "AVOID"
          \/ planner'.commit = "none" /\ ~planner'.p3 /\ planner'.out = planner.out]_vars

\* The memory of a manoeuvre does not outlive it for ever: without P3 manoeuvres
\* its obstacles are forgotten, and with them the hold that republishes old paths.
HoldMemoryEnds ==
    <>[](~planner.p3 /\ odometry # "regressed") => <>[](planner.rear = "none")

\* local_planner.md: with a stale Frenet pose the planner publishes a hold whose
\* speeds are all zero.
StalePoseStops ==
    [][PlanningTimer /\ odometry = "stale" =>
          planner'.out.path \in {"empty", "hold", "stop"}]_vars
=============================================================================
