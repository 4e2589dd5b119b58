----------------------- MODULE PlannerAndStateMachine -----------------------
(***************************************************************************)
(* The one feedback loop of the stack: the local planner publishes its     *)
(* path on /avoid_waypoints, the state machine answers with its mode on    *)
(* /state, and each waits for the other to end a manoeuvre.  Both topics   *)
(* keep the newest message only, so a publication overwrites one that has  *)
(* not been taken, and either node may act on what the other has already   *)
(* left behind.                                                            *)
(*                                                                         *)
(* `together` says whether the two nodes run over the topics, on a known   *)
(* race line with poses that keep coming and no opponent, or the planner   *)
(* runs alone, with every fault of its inputs and any /state.              *)
(***************************************************************************)
EXTENDS LocalPlanner, Integers, Sequences

CONSTANTS WindowSize, MinHits   \* the state machine's confirmation of a path

VARIABLES mode, avoidHistory, clearHistory, avoidMsg, lastNonEmpty, globalValid,
          frenetAge, aligned, opponentAge, selected, threat, latchedId,
          mergeTimer, evalMode, output

FSM == INSTANCE StateMachine WITH
    CruiseWindow <- 1, CruiseMinHits <- 1, FrenetTimeout <- 0, OpponentTimeout <- 0,
    EnterGlobalTime <- 0, AllowAvoid <- TRUE, AllowCruise <- FALSE,
    DefaultState <- "GLOBAL", OpponentIds <- {}, NoId <- 0

VARIABLES
    together,  \* both nodes run
    sentPath,  \* planner.out is on /avoid_waypoints and has not been taken
    sentState  \* output.mode is on /state and has not been taken

fsmVars  == <<mode, avoidHistory, clearHistory, avoidMsg, lastNonEmpty, globalValid,
              frenetAge, aligned, opponentAge, selected, threat, latchedId,
              mergeTimer, evalMode, output>>
loopVars == <<vars, fsmVars, together, sentPath, sentState>>
topics   == <<sentPath, sentState>>

-----------------------------------------------------------------------------
(* What the state machine makes of the planner's publication: the marker of  *)
(* its line, and the profile.  A stop brakes until all of it is zero; a       *)
(* preparation is the race line, slower or not.                              *)

Marker(out) == IF out.mark THEN "handoff" ELSE "avoid"

Profiles(out) ==
    CASE out.path = "stop" -> {"brake", "stop"}
      [] out.path = "hold" -> {"stop"}
      [] out.path = "prepare" -> {"drive", "brake"}
      [] OTHER -> {"drive"}

Received(out) ==
    IF out.path = "empty" THEN {FSM!EmptyPath}
    ELSE {[line |-> Marker(out), profile |-> profile] : profile \in Profiles(out)}

-----------------------------------------------------------------------------
\* Both nodes have been told of the race line and of the pose, and of nothing else.
Together ==
    /\ together = TRUE
    /\ planner = [commit |-> "none", handoff |-> FALSE, observed |-> FALSE,
                  latched |-> FALSE, p3 |-> FALSE, rear |-> "none", gone |-> 0,
                  deferred |-> "none", guidance |-> "none",
                  out |-> [path |-> "none", mark |-> FALSE]]
    /\ reference = TRUE /\ odometry = "fresh" /\ source = "none" /\ state = "none"
    /\ globalValid = TRUE /\ frenetAge = 0

LoopInit ==
    /\ mode = "GLOBAL" /\ output = [mode |-> "GLOBAL", source |-> "none"]
    /\ avoidHistory = <<>> /\ clearHistory = <<>>
    /\ avoidMsg = FSM!NoPath /\ lastNonEmpty = FSM!NoPath /\ aligned = FALSE
    /\ opponentAge = 1 /\ selected = FSM!NoOpponent /\ threat = "clear" /\ latchedId = 0
    /\ mergeTimer = FSM!Unset /\ evalMode = "GLOBAL"
    /\ sentPath = FALSE /\ sentState = FALSE
    /\ \/ Together
       \/ together = FALSE /\ PlannerInit /\ globalValid = FALSE /\ frenetAge = 1

\* The planner on its own (LocalPlanner).
Alone == ~together /\ Next /\ UNCHANGED <<fsmVars, together, topics>>

\* A cycle of the planner publishes, whatever the state machine has taken before.
PlannerCycles ==
    /\ together
    /\ source' = "fresh" /\ PlanningTimer
    /\ sentPath' = TRUE
    /\ UNCHANGED <<fsmVars, together, sentState>>

PlannerLearnsState ==
    /\ together /\ sentState
    /\ state' = output.mode /\ OnState
    /\ sentState' = FALSE
    /\ UNCHANGED <<fsmVars, together, sentPath>>

\* A pose reaches the two nodes at different times; the detector may go silent.
PlannerMoves ==
    /\ together
    /\ OnFrenetOdometry \/ Elapse
    /\ odometry' = "fresh" /\ source' = source
    /\ UNCHANGED <<fsmVars, together, topics>>

StateMachineMoves ==
    /\ together
    /\ FSM!OnFrenetOdom
    /\ UNCHANGED <<vars, together, topics>>

StateMachineLearnsPath ==
    /\ together /\ sentPath
    /\ avoidMsg' \in Received(planner.out) /\ FSM!OnAvoidWaypoints
    /\ sentPath' = FALSE
    /\ UNCHANGED <<vars, together, sentState>>

StateMachineCycles ==
    /\ together
    /\ FSM!PublishStateCycle
    /\ sentState' = TRUE
    /\ UNCHANGED <<vars, together, sentPath>>

LoopNext ==
    \/ Alone
    \/ PlannerCycles
    \/ PlannerLearnsState
    \/ PlannerMoves
    \/ StateMachineMoves
    \/ StateMachineLearnsPath
    \/ StateMachineCycles

LoopSpec == LoopInit /\ [][LoopNext]_loopVars

\* The timers of both nodes are served and their topics are taken, over and over:
\* whenever nothing is under way to the other node, a cycle brings something.
LoopFairSpec ==
    /\ LoopSpec
    /\ WF_vars(~together /\ PlanningTimer)
    /\ together => /\ []<>sentPath /\ []<>~sentPath
                   /\ []<>sentState /\ []<>~sentState

-----------------------------------------------------------------------------
(* Properties of the loop.                                                   *)

\* Neither waits for the other for ever: an AVOID whose planner has nothing to
\* say is ended, although the planner falls silent on what it knows of the mode
\* and the state machine keeps AVOID on an empty path (TrackClear, StayAvoid).
AvoidIsNotOrphaned ==
    together => ~<>[](mode = "AVOID" /\ planner.out.path \in {"none", "empty"})

\* A loop offered to a state machine that has been in AVOID, with the car settled
\* on it, is taken and given up: the marker ends AVOID, and GLOBAL ends the loop.
LoopIsTakenBack ==
    together => ~<>[](/\ planner.out = [path |-> "loop", mark |-> TRUE]
                      /\ planner.observed
                      /\ aligned)

\* A stop that brakes is driven: as long as the planner latches it, the state machine
\* confirms AVOID and sends its path to the controller, not the race line.
BrakingStopIsDriven ==
    together =>
        (<>[](planner.latched /\ avoidMsg.profile = "brake")
            => <>[](output = [mode |-> "AVOID", source |-> "newest"]))

\* local_planner.md and safe_stop_latch_pipeline_test.py: the state machine keeps AVOID
\* while the safe stop it has been sent is latched.
StopKeepsAvoid ==
    [][together /\ planner.latched /\ planner.out.path = "stop" /\ ~sentPath /\ mode = "AVOID"
        => mode' = "AVOID"]_loopVars
=============================================================================
