----------------------------- MODULE StateMachine -----------------------------
(***************************************************************************)
(* The driving-mode node of the stack (src/state_machine): it caches the   *)
(* newest message of each input topic and, on a wall timer, resolves one   *)
(* transition of the GLOBAL / AVOID / CRUISE machine, publishes /state and *)
(* republishes the waypoints the mode selects.                             *)
(*                                                                         *)
(* The node runs on a single-threaded executor: every callback is one      *)
(* atomic action.  Time is counted in ticks; a stamp is represented by its *)
(* age, which stops growing just past the only threshold it is compared    *)
(* with.                                                                   *)
(***************************************************************************)
EXTENDS VoteWindow

CONSTANTS
    WindowSize,       \* local_path_confirmation_window_size
    MinHits,          \* local_path_confirmation_min_hits
    CruiseWindow,     \* cruise_exit_window_size
    CruiseMinHits,    \* cruise_exit_min_hits
    FrenetTimeout,    \* frenet_stale_timeout_sec, in ticks
    OpponentTimeout,  \* opponent_stale_timeout_sec, in ticks
    EnterGlobalTime,  \* enter_global_sec, in ticks
    AllowAvoid,       \* allow_avoid_transition
    AllowCruise,      \* allow_cruise_transition
    DefaultState,     \* default_state
    OpponentIds,      \* track ids /opp_obs can carry
    NoId              \* the "not latched" id (-1)

Modes == {"GLOBAL", "AVOID", "CRUISE"}

\* The constructor clamps the two M-of-N pairs and rejects negative timeouts.
ASSUME ConfirmationAssumption ==
    /\ WindowSize \in Nat \ {0} /\ MinHits \in 1..WindowSize
    /\ CruiseWindow \in Nat \ {0} /\ CruiseMinHits \in 1..CruiseWindow
ASSUME TimeoutAssumption ==
    /\ FrenetTimeout \in Nat /\ OpponentTimeout \in Nat
    /\ EnterGlobalTime \in Nat
ASSUME ModeAssumption ==
    /\ AllowAvoid \in BOOLEAN /\ AllowCruise \in BOOLEAN
    /\ DefaultState \in Modes
    /\ NoId \notin OpponentIds

(***************************************************************************)
(* An avoid path is what the FSM tells apart in an OTWpntArray: its line   *)
(* marker, and a velocity profile that drives to its end, that brakes (or  *)
(* is shorter than three points), or that is zero at every point.          *)
(***************************************************************************)
Path      == [line : {"avoid", "handoff"}, profile : {"drive", "brake", "stop"}]
EmptyPath == [line |-> "none", profile |-> "empty"]
NoPath    == [line |-> "none", profile |-> "none"]

Opponent   == [id : OpponentIds, visible : BOOLEAN]
NoOpponent == [id |-> NoId, visible |-> FALSE]

\* How threatening the selected opponent is for the held ego pose and track:
\* "enter" is close_enough or p >= p_on, "hold" is p_off < p < p_on, else "clear".
Threats == {"clear", "hold", "enter"}

VARIABLES
    mode,          \* committed_state_
    avoidHistory,  \* avoid_path_history_
    clearHistory,  \* cruise_clear_history_
    avoidMsg,      \* avoid_wpnts_msg_ (has_avoid_wpnts_: it is a Path)
    lastNonEmpty,  \* last_non_empty_avoid_wpnts_msg_
    globalValid,   \* has_global_ (the message is kept exactly when it is TRUE)
    frenetAge,     \* age of last_frenet_time_
    aligned,       \* ego is at the tail of the held path and on both lines
    opponentAge,   \* age of last_opponent_time_
    selected,      \* selected_opponent_
    threat,        \* the band interferenceProbability and the gap fall in
    latchedId,     \* interference_probabilistic_latched_id_ (NoId: not latched)
    mergeTimer,    \* age of enter_global_ok_since_, Unset when it has no value
    evalMode,      \* enter_global_eval_state_
    output         \* the last /state published and the source of its waypoints

inputs == <<globalValid, frenetAge, opponentAge, selected, threat>>
path   == <<avoidHistory, avoidMsg, lastNonEmpty, aligned>>
fsm    == <<mode, clearHistory, latchedId, mergeTimer, evalMode, output>>
vars   == <<inputs, path, fsm>>

Unset == -1

TypeOK ==
    /\ mode \in Modes
    /\ avoidHistory \in Seq(BOOLEAN) /\ Len(avoidHistory) <= WindowSize
    /\ clearHistory \in Seq(BOOLEAN) /\ Len(clearHistory) <= CruiseWindow
    /\ avoidMsg \in Path \cup {EmptyPath, NoPath}
    /\ lastNonEmpty \in Path \cup {NoPath}
    /\ globalValid \in BOOLEAN
    /\ frenetAge \in 0..FrenetTimeout + 1
    /\ aligned \in BOOLEAN
    /\ opponentAge \in 0..OpponentTimeout + 1
    /\ selected \in Opponent \cup {NoOpponent}
    /\ threat \in Threats
    /\ latchedId \in OpponentIds \cup {NoId}
    /\ mergeTimer \in Unset..EnterGlobalTime
    /\ evalMode \in {"GLOBAL", "AVOID"}
    /\ output \in [mode : Modes, source : {"none", "global", "newest", "held"}]

-----------------------------------------------------------------------------
(* Predicates of the node. *)

FrenetFresh   == frenetAge <= FrenetTimeout
OpponentFresh == opponentAge <= OpponentTimeout

IsNonEmpty(p)    == p \in Path
IsFullStop(p)    == IsNonEmpty(p) /\ p.profile = "stop"
IsHandoff(p)     == IsNonEmpty(p) /\ p.line = "handoff"
\* Mutant of IsRequest: only a path that drives is one.
IsRequestDriving(p) == IsNonEmpty(p) /\ ~IsHandoff(p) /\ p.profile = "drive"

\* What on_avoid_wpnts counts as a request to enter AVOID.
IsRequest(p)     == IsNonEmpty(p) /\ ~IsHandoff(p) /\ ~IsFullStop(p)

HasAvoid       == IsNonEmpty(avoidMsg)
HandoffOffered == IsHandoff(avoidMsg)

\* The path AVOID publishes: the newest if it has points, else the last that had.
HeldPath == IF HasAvoid THEN avoidMsg ELSE lastNonEmpty

\* Mutant of AvoidPathIsFullStop: only the newest message is looked at, and a
\* handoff marker hides the hold.
NewestUnmarkedIsFullStop == IsFullStop(avoidMsg) /\ ~IsHandoff(avoidMsg)

AvoidPathIsFullStop == IsFullStop(HeldPath)

CanEnterAvoid ==
    /\ AllowAvoid
    /\ ~HandoffOffered
    /\ ~IsFullStop(avoidMsg)
    /\ HasAvoid
    /\ Hits(avoidHistory) >= MinHits

\* Mutant of Interfering: a latch on any opponent is taken for this one.
InterferingAnyLatch(id) ==
    /\ AllowCruise
    /\ OpponentFresh
    /\ selected # NoOpponent
    /\ FrenetFresh
    /\ globalValid
    /\ IF id # NoId THEN threat # "clear"
                    ELSE selected.visible /\ threat = "enter"

\* Mutant of Interfering: a stale opponent goes on interfering.
InterferingWhenStale(id) ==
    /\ AllowCruise
    /\ selected # NoOpponent
    /\ FrenetFresh
    /\ globalValid
    /\ IF id = selected.id THEN threat # "clear"
                           ELSE selected.visible /\ threat = "enter"

\* The interference verdict when the latch holds `id`: a latched opponent needs
\* only stay above p_off, another must be measured in this frame above p_on.
Interfering(id) ==
    /\ AllowCruise
    /\ OpponentFresh
    /\ selected # NoOpponent
    /\ FrenetFresh
    /\ globalValid
    /\ IF id = selected.id THEN threat # "clear"
                           ELSE selected.visible /\ threat = "enter"

Latch(verdict) == IF verdict THEN selected.id ELSE NoId

-----------------------------------------------------------------------------
(* The merge gate from AVOID to GLOBAL. *)

\* Every condition of evaluate_enter_to_global but the dwell time.
MergeReady ==
    /\ HandoffOffered
    /\ FrenetFresh
    /\ globalValid
    /\ avoidMsg.profile = "drive"
    /\ aligned

\* Mutant of TimerAfter: the marker test short-circuits the evaluation, and the
\* timer survives the cycles in which the marker is absent.
TimerShortCircuited ==
    IF ~HandoffOffered THEN mergeTimer
    ELSE IF ~MergeReady THEN Unset
    ELSE IF evalMode # "AVOID" \/ mergeTimer = Unset THEN 0
    ELSE mergeTimer

\* Mutant of TimerAfter: every evaluation starts the dwell time again.
TimerRestarted == IF MergeReady THEN 0 ELSE Unset

\* enter_global_ok_since_ after one evaluation.
TimerAfter ==
    IF ~MergeReady THEN Unset
    ELSE IF evalMode # "AVOID" \/ mergeTimer = Unset THEN 0
    ELSE mergeTimer

MergedToGlobal == MergeReady /\ TimerAfter >= EnterGlobalTime

-----------------------------------------------------------------------------
Init ==
    /\ mode = DefaultState
    /\ avoidHistory = <<>> /\ clearHistory = <<>>
    /\ avoidMsg = NoPath /\ lastNonEmpty = NoPath
    /\ globalValid = FALSE
    /\ frenetAge = FrenetTimeout + 1
    /\ aligned = FALSE
    /\ opponentAge = OpponentTimeout + 1
    /\ selected = NoOpponent
    /\ threat = "clear"
    /\ latchedId = NoId
    /\ mergeTimer = Unset
    /\ evalMode = "GLOBAL"
    /\ output = [mode |-> DefaultState, source |-> "none"]

(* The pose, the track and the held path decide the geometry: whichever of  *)
(* them is replaced, the two geometric verdicts may become anything that    *)
(* makes sense (no opponent is no threat, no path has no tail).             *)
AlignmentMayChange ==
    aligned' \in IF HeldPath' = NoPath THEN {FALSE} ELSE BOOLEAN
ThreatMayChange ==
    threat' \in IF selected' = NoOpponent THEN {"clear"} ELSE Threats

OnFrenetOdom ==
    /\ frenetAge' = 0
    /\ UNCHANGED <<globalValid, opponentAge, selected>>
    /\ UNCHANGED <<avoidHistory, avoidMsg, lastNonEmpty, fsm>>
    /\ AlignmentMayChange /\ ThreatMayChange

\* An array that fails validation discards the one held before.
OnGlobalWaypoints ==
    /\ globalValid' \in BOOLEAN
    /\ UNCHANGED <<frenetAge, opponentAge, selected>>
    /\ UNCHANGED <<avoidHistory, avoidMsg, lastNonEmpty, fsm>>
    /\ AlignmentMayChange /\ ThreatMayChange

OnAvoidWaypoints == \E p \in Path \cup {EmptyPath} :
    /\ avoidHistory' = Slide(avoidHistory, IsRequest(p), WindowSize)
    /\ avoidMsg' = p
    /\ lastNonEmpty' = IF IsNonEmpty(p) THEN p ELSE lastNonEmpty
    /\ UNCHANGED <<inputs, fsm>>
    /\ AlignmentMayChange

\* The first finite dynamic obstacle of the message, or none.
OnOpponent == \E opponent \in Opponent \cup {NoOpponent} :
    /\ selected' = opponent
    /\ opponentAge' = 0
    /\ UNCHANGED <<globalValid, frenetAge, path, fsm>>
    /\ ThreatMayChange

\* One tick passes; ages saturate just past the threshold they are held to.
Elapse ==
    /\ frenetAge' = IF FrenetFresh THEN frenetAge + 1 ELSE frenetAge
    /\ opponentAge' = IF OpponentFresh THEN opponentAge + 1 ELSE opponentAge
    /\ mergeTimer' = IF mergeTimer \in 0..EnterGlobalTime - 1
                     THEN mergeTimer + 1 ELSE mergeTimer
    /\ UNCHANGED <<globalValid, selected, threat, path>>
    /\ UNCHANGED <<mode, clearHistory, latchedId, evalMode, output>>

-----------------------------------------------------------------------------
(* resolve_requested_state: one disjunct per way out of the switch.         *)
(* `cruise` is this cycle's verdict, `clears` the window it was pushed in.  *)

EnterAvoid ==
    /\ mode \in {"GLOBAL", "CRUISE"}
    /\ CanEnterAvoid
    /\ mode' = "AVOID"
    /\ mergeTimer' = Unset
    /\ UNCHANGED <<path, evalMode>>

EnterCruise(cruise) ==
    /\ mode = "GLOBAL"
    /\ ~CanEnterAvoid
    /\ cruise
    /\ mode' = "CRUISE"
    /\ mergeTimer' = Unset
    /\ UNCHANGED <<path, evalMode>>

StayGlobal(cruise) ==
    /\ mode = "GLOBAL"
    /\ ~CanEnterAvoid
    /\ ~cruise
    /\ UNCHANGED <<mode, mergeTimer, path, evalMode>>

LeaveCruise(clears) ==
    /\ mode = "CRUISE"
    /\ ~CanEnterAvoid
    /\ Hits(clears) >= CruiseMinHits
    /\ mode' = "GLOBAL"
    /\ UNCHANGED <<mergeTimer, path, evalMode>>

StayCruise(clears) ==
    /\ mode = "CRUISE"
    /\ ~CanEnterAvoid
    /\ Hits(clears) < CruiseMinHits
    /\ UNCHANGED <<mode, mergeTimer, path, evalMode>>

EvaluateMerge ==
    /\ mode = "AVOID"
    /\ evalMode' = "AVOID"
    /\ mergeTimer' = TimerAfter

ModeAfterAvoid(cruise) == IF cruise THEN "CRUISE" ELSE "GLOBAL"

StayAvoid ==
    /\ EvaluateMerge
    /\ ~MergedToGlobal
    /\ ~AvoidPathIsFullStop
    /\ UNCHANGED <<mode, path>>

LeaveAvoidMerged(cruise) ==
    /\ EvaluateMerge
    /\ MergedToGlobal
    /\ ~AvoidPathIsFullStop
    /\ mode' = ModeAfterAvoid(cruise)
    /\ UNCHANGED path

\* Mutant of LeaveAvoidStopped: the votes that opened AVOID are kept.
LeaveAvoidStoppedKeepingVotes(cruise) ==
    /\ EvaluateMerge
    /\ AvoidPathIsFullStop
    /\ mode' = ModeAfterAvoid(cruise)
    /\ avoidMsg' = NoPath /\ lastNonEmpty' = NoPath
    /\ aligned' = FALSE
    /\ UNCHANGED avoidHistory

\* The planner commands a hold in place: leave at once and forget its path.
LeaveAvoidStopped(cruise) ==
    /\ EvaluateMerge
    /\ AvoidPathIsFullStop
    /\ mode' = ModeAfterAvoid(cruise)
    /\ avoidHistory' = <<>>
    /\ avoidMsg' = NoPath /\ lastNonEmpty' = NoPath
    /\ aligned' = FALSE

Resolve(cruise, clears) ==
    \/ EnterAvoid
    \/ EnterCruise(cruise)
    \/ StayGlobal(cruise)
    \/ LeaveCruise(clears)
    \/ StayCruise(clears)
    \/ StayAvoid
    \/ LeaveAvoidMerged(cruise)
    \/ LeaveAvoidStopped(cruise)

\* Mutant of SelectedSource: an empty path falls back to the global line.
SelectedSourceNoHeld(m, newest, held) ==
    IF ~FrenetFresh \/ ~globalValid THEN "none"
    ELSE IF m = "AVOID" /\ IsNonEmpty(newest) THEN "newest"
    ELSE "global"

\* select_waypoints, behind the two gates of publish_selected_waypoints.
SelectedSource(m, newest, held) ==
    IF ~FrenetFresh \/ ~globalValid THEN "none"
    ELSE IF m # "AVOID" THEN "global"
    ELSE IF IsNonEmpty(newest) THEN "newest"
    ELSE IF IsNonEmpty(held) THEN "held"
    ELSE "global"

\* Mutant of ClearsKept: the votes of the mode left behind are kept.
ClearsAlwaysKept(clears) == clears

\* A mode change starts the cruise-exit window anew.
ClearsKept(clears) == IF mode' # mode THEN <<>> ELSE clears

\* The throttled "FSM inputs" warning evaluates the verdict once more.
DiagnosticDue ==
    ~globalValid \/ ~FrenetFresh \/ ((AllowAvoid \/ mode = "AVOID") /\ ~HasAvoid)

LatchAfterDiagnostic(diagnosed) ==
    IF diagnosed THEN Latch(Interfering(latchedId)) ELSE latchedId

PublishStateCycle == \E diagnosed \in {FALSE, DiagnosticDue} :
    LET cruise == Interfering(LatchAfterDiagnostic(diagnosed))
        clears == Slide(clearHistory, ~cruise, CruiseWindow)
    IN  /\ latchedId' = Latch(cruise)
        /\ Resolve(cruise, clears)
        /\ clearHistory' = ClearsKept(clears)
        /\ output' = [mode   |-> mode',
                      source |-> SelectedSource(mode', avoidMsg', lastNonEmpty')]
        /\ UNCHANGED inputs

Next ==
    \/ OnFrenetOdom
    \/ OnGlobalWaypoints
    \/ OnAvoidWaypoints
    \/ OnOpponent
    \/ Elapse
    \/ PublishStateCycle

Spec == Init /\ [][Next]_vars

\* The executor keeps serving its wall timer, and time keeps passing.
Fairness == WF_vars(PublishStateCycle) /\ WF_vars(Elapse)
FairSpec == Spec /\ Fairness

-----------------------------------------------------------------------------
(* Liveness.                                                                *)

\* A hold is not an avoidance: while the planner commands nothing but full-stop
\* paths the node leaves AVOID and does not come back (no AVOID flapping).
StopPathsEndAvoid ==
    <>[](IsFullStop(avoidMsg) \/ avoidMsg = NoPath) => <>[](mode # "AVOID")

\* The handoff is taken: a marked, driveable path with ego settled on its tail and
\* on the global line, and fresh inputs, ends AVOID for good.
HandoffEndsAvoid ==
    <>[](/\ avoidMsg = [line |-> "handoff", profile |-> "drive"]
         /\ aligned /\ FrenetFresh /\ globalValid)
        => <>[](mode # "AVOID")

\* AVOID ends when the planner has ended it, by holding the car or by handing it back.
AvoidEnds == StopPathsEndAvoid /\ HandoffEndsAvoid

\* A detector that goes silent cannot hold CRUISE: the stale opponent stops
\* interfering and the confirmed exit follows.
SilentOpponentEndsCruise == <>[](~OpponentFresh) => <>[](mode # "CRUISE")
=============================================================================
