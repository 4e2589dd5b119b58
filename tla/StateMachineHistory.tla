-------------------------- MODULE StateMachineHistory --------------------------
(***************************************************************************)
(* The driving-mode node with history variables.  They observe the node    *)
(* and never constrain it: what the node promises about a mode change is a *)
(* statement about what it has been told since some earlier moment, and    *)
(* the history variables record exactly that, independently of the windows *)
(* and timers the node itself keeps.                                       *)
(***************************************************************************)
EXTENDS StateMachine

VARIABLES
    requests,      \* avoid requests since start-up or the last stopped exit
    mergeRun,      \* age of the current unbroken run of mergeable AVOID cycles
    clearsSeen,    \* cycles of this CRUISE visit without interference
    measured       \* opponent measured in the way, and interfering ever since

history == <<requests, mergeRun, clearsSeen, measured>>
hvars   == <<vars, history>>

HistoryTypeOK ==
    /\ requests \in 0..MinHits
    /\ mergeRun \in Unset..EnterGlobalTime
    /\ clearsSeen \in 0..CruiseMinHits
    /\ measured \in OpponentIds \cup {NoId}

\* Count up to a bound.
Counted(n, event, bound) == IF event /\ n < bound THEN n + 1 ELSE n

\* What the docs require of a cycle for it to count towards the merge: the
\* planner's marker is on the path, and ego is on both lines at its tail.
Mergeable ==
    /\ mode = "AVOID"
    /\ avoidMsg = [line |-> "handoff", profile |-> "drive"]
    /\ aligned /\ globalValid /\ frenetAge <= FrenetTimeout

StoppedExit == mode = "AVOID" /\ AvoidPathIsFullStop

ObserveAvoidWaypoints ==
    /\ OnAvoidWaypoints
    /\ requests' = Counted(requests, avoidMsg'.line = "avoid" /\ avoidMsg'.profile # "stop",
                           MinHits)
    /\ UNCHANGED <<mergeRun, clearsSeen, measured>>

ObserveElapse ==
    /\ Elapse
    /\ mergeRun' = IF mergeRun = Unset THEN Unset
                   ELSE Counted(mergeRun, TRUE, EnterGlobalTime)
    /\ UNCHANGED <<requests, clearsSeen, measured>>

ObserveOther ==
    /\ OnFrenetOdom \/ OnGlobalWaypoints \/ OnOpponent
    /\ UNCHANGED history

ObserveCycle ==
    /\ PublishStateCycle
    /\ requests' = IF StoppedExit THEN 0 ELSE requests
    /\ mergeRun' = IF ~Mergeable THEN Unset
                   ELSE IF mergeRun = Unset THEN 0 ELSE mergeRun
    /\ clearsSeen' = IF mode # "CRUISE" THEN 0
                     ELSE Counted(clearsSeen, latchedId' = NoId, CruiseMinHits)
    /\ measured' = IF latchedId' = NoId THEN NoId
                   ELSE IF selected.visible /\ threat = "enter" THEN selected.id
                   ELSE IF measured = selected.id THEN measured
                   ELSE NoId

HInit ==
    /\ Init
    /\ requests = 0
    /\ mergeRun = Unset
    /\ clearsSeen = 0
    /\ measured = NoId

HNext ==
    \/ ObserveAvoidWaypoints
    \/ ObserveElapse
    \/ ObserveOther
    \/ ObserveCycle

HSpec     == HInit /\ [][HNext]_hvars
HFairSpec == HSpec /\ Fairness

-----------------------------------------------------------------------------
(* The inductive invariant: how the node's own windows, timer and latch are *)
(* covered by what the history variables saw.                               *)

VotesCovered  == requests < MinHits => Hits(avoidHistory) <= requests
TimerCovered  == mode = "AVOID" => mergeTimer <= mergeRun
ClearsCovered == mode = "CRUISE" /\ clearsSeen < CruiseMinHits
                    => Hits(clearHistory) <= clearsSeen
LatchMeasured == latchedId # NoId => measured = latchedId
PathRemembered ==
    /\ IsNonEmpty(avoidMsg) => lastNonEmpty = avoidMsg
    /\ DefaultState # "AVOID" /\ mode = "AVOID" => lastNonEmpty \in Path

-----------------------------------------------------------------------------
(* Properties.                                                              *)

\* No flapping back into a hold: whatever was voted before, entering AVOID takes
\* MinHits avoid requests received after start-up or after the planner's last
\* full-stop path took the node out of AVOID (resolve_requested_state clears the
\* window there; handoff loops and full-stop paths are no votes).
AvoidEntryNeedsNewRequests ==
    [][mode # "AVOID" /\ mode' = "AVOID" => requests >= MinHits]_hvars

\* The merge debounce cannot be skipped: AVOID ends without a full-stop path only
\* when every cycle of the last EnterGlobalTime ticks saw the planner's handoff
\* marker with ego on both lines, however the marker came and went before.
MergeNeedsUnbrokenHandoff ==
    [][(mode = "AVOID" /\ mode' # "AVOID" /\ ~StoppedExit)
        => mergeRun' >= EnterGlobalTime]_hvars

\* A gap in the detections does not lift the cruise cap: CRUISE returns to GLOBAL
\* only after CruiseMinHits cycles of this same visit saw no interference.
CruiseExitNeedsClearVotes ==
    [][mode = "CRUISE" /\ mode' = "GLOBAL" => clearsSeen' >= CruiseMinHits]_hvars

\* No ghost starts CRUISE: when it starts, from GLOBAL or from AVOID, the opponent
\* was measured in the way (is_visible) and has interfered in every cycle since.
CruiseStartsOnMeasurement ==
    [][mode # "CRUISE" /\ mode' = "CRUISE" => measured' # NoId]_hvars

\* Once AVOID has been entered by a transition, its waypoints are never replaced
\* by the global line: an empty path keeps the last one with points.
AvoidNeverPublishesGlobal ==
    DefaultState # "AVOID" => ~(output.mode = "AVOID" /\ output.source = "global")

IndInv ==
    /\ TypeOK
    /\ HistoryTypeOK
    /\ VotesCovered
    /\ TimerCovered
    /\ ClearsCovered
    /\ LatchMeasured
    /\ PathRemembered
    /\ AvoidNeverPublishesGlobal
=============================================================================
