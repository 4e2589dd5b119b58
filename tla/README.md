# Verification of the F1TENTH driving stack

TLA+ models of the decision-making nodes of this repository, the TLC
configurations that check them on small instances, and theorems about them that
TLAPS proves for every value of the constants.  Paths below are relative to the
repository root; its ROS 2 packages are in `src/`.

The stack drives a 1:10 race car round a closed track, past static obstacles and
behind (or past) an opponent.  What it decides is spread over nodes that see each
other only through topics, each with its own timer, memory, confirmation windows
and timeouts.  The code comments tell of incidents on the car: a latch dropped in
one frame without detections, an AVOID mode nobody left, an old path published
again, a motor that sang at standstill, a scanner that stopped for eight seconds.
These are sequences of legal messages in an order nobody wrote a test for, and they
are what the models are about.  Where the code is numeric (splines, Kalman filters,
scan matching), a model keeps its control and takes the verdicts of the arithmetic
as choices, or replaces the arithmetic by a small grid on which it can be compared
with what it is for.

## 1. Inventory

### 1.1 How the components interact

```
 /scan ─┬─ obstacle_detector ──/static_obs, /confirmed_static_obs──► local_planning
        │         ▲     │                                             │    ▲
        │    pose │     └──────/opp_obs──────┐        /avoid_waypoints│    │/state
        ▼         │                          ▼                        ▼    │
 localization ────┴► frenet odometry ─► (all)     ┌────────────► state_machine
   ▲ wheel odometry                               │                │  /state, /local_waypoints
 global_planning ──/global_waypoints──► (all)     │                ▼
                             cruise_controller ◄──┴──/state   control_map_node ─► /drive
                                     └──/cruise_speed_limit────────►│
                                                    wheel speed ────┘
```

There are no services or shared memory between these nodes: a topic delivers the
newest message, a message can be lost or late, and every consumer keeps the time
of the last one.  There is one feedback loop, local_planning ⇄ state_machine: the
planner's path puts `/state` into AVOID, the planner watches `/state` to know that
its path is driven, and hands the race line back by a *marked* path
(`ot_line = raceline_global_handoff`).

### 1.2 Components

| component | state | operations | hard behaviours | correct when | status |
|---|---|---|---|---|---|
| **state_machine** (`state_machine_node.cpp`) | mode; newest Frenet pose, race line, avoid path (and the last one with points), opponent; two M-of-N vote windows; threat latch with track id; merge timer | 4 input callbacks; timer cycle: resolve one transition, publish `/state`, select waypoints | votes of an earlier episode; timer over a vanishing marker; detection gaps; latch evaluated twice per cycle | no mode change on old or partial evidence; AVOID always has its path; no hold lasts for ever when the inputs end it | modelled, proved |
| **local_planning, planning cycle** (`local_planner_node.cpp`) | commitment, handoff loop, P3 record, memory of the manoeuvre's obstacles, last guidance, hold timer, latch | callbacks of three callback groups; planning timer: P3, hold gate, P0 pipeline | many early returns, each publishing and forgetting something else; obstacle ingress beside the cycle | one owner of the path; a latched stop is the only thing published; AVOID is answered | modelled, proved, composed with the state machine |
| **local_planning, safe-stop latch** (`safe_stop_lifecycle.cpp`) | latched danger region, four streaks, frame bookkeeping | activate, evaluate, reset; four releases, relatch | wrapped distances, frames vs. cycles, blind spots | a stop ends only on evidence gathered since it began; it does end | modelled, proved |
| **local_planning, P3 lifecycle** (`p3_maneuver_lifecycle.cpp`) | frozen record with guards, epochs, envelope union | select, continue, complete, invalidate | flicker between attempts; growing obstacles; lap wrap; new lines | a record clears what it was shown and ends behind its cluster | modelled, proved |
| **local_planning, P3 evaluator** (`p3_shadow.cpp`) | the search of one call | bisection per side, extension, M1, relaxed retry | four families share a budget; aborts | it ends, in its budget, with the best it found | modelled, proved |
| **local_planning, spline planner, speed profile** (`raceline_spline_planner.cpp`) | none between calls | cluster, offer, validate, stop; five speed passes | validated here, driven there; three horizons; pass order | what is driven is clear, drivable and stops in time | control and grid geometry; proved but for the clearance |
| **f1tenth_control, cruise controller** | target, its age, empty run, gap integral, CRUISE flag | 4 callbacks; timer: blind, clear or following limit | resets spread over callbacks; ages around three timeouts | no target or integral survives what ended it; input loss is noticed | modelled, proved |
| **f1tenth_control, HFI launch guard** (`longitudinal_safety.hpp`) | phase flags, three dwells, attempts, cap | one update per control cycle, with or without wheel speed | 15 branches with their own timers and early returns | no torque without rest; demand is served | modelled, proved |
| **f1tenth_control, map controller** (`control_map_node.cpp`) | newest paths, indices, caps, ramp, sector scales, trim | path, cap, table, state and odometry callbacks; 50 Hz loop; timers | each input may stop; scales baked into arrays; trim persisted over restarts | bounded command; silence costs speed; the index is the car's | speed command, sector scales, path tracking; proved |
| **obstacle_detector** (`obstacle_tracker.cpp`, node) | tracks with votes and windows, dormant identities, interference latch | per scan: associate, classify, retire, publish three layers | dropouts, pose jumps, fragments, held unmeasured tracks | a box is not an opponent nor the reverse; a name is one box; ghosts end | decisions modelled; motion and output layer proved |
| **kinematic_localization** (`localization_node.cpp`) | ICP seed, last output, pending scan, odometry window, watchdog clocks, validation | initial pose, start-line pose, scan, odometry, watchdog | hand-over between scans and watchdog; judging a pose over many frames | motion is counted once; unjudged poses stay inside | decisions modelled, proved |
| lap_referee, lap_timer, lap counter | gate state | pose in, laps out | jitter at the line | one lap per crossing | not modelled |
| global_planning, Frenet odometry, offline generator | the race line | load, publish, project | numeric | – | not modelled |
| new_map_con, simulator, calibration, launch scripts, messages, vendored code | – | operator tools, plants | – | – | not modelled |

Every hazard this code is exposed to is listed in `PROJECT.json` at the line where
it bites, with the properties that would catch it.

## 2. Modules

| module | models | extended or used by |
|---|---|---|
| `VoteWindow` | the M-of-N window: `Slide`, `Hits` | `StateMachine` |
| `StateMachine`, `StateMachineHistory` | the driving-mode node; what was received since | `StateMachineProofs`, the loop |
| `CruiseController`, `CruiseControllerHistory` | the cruise node; whose errors the integral holds | `LongitudinalGuards`, `LongitudinalGuardsProofs` |
| `HfiLaunchGuard`, `HfiLaunchGuardHistory` | the launch guard and its call site; the rest the motor has had | `LongitudinalGuards`, `LongitudinalGuardsProofs` |
| `SafeStopPromise` | abstract: what a safe stop promises | refined by `SafeStopLatch` |
| `SafeStopLatch`, `SafeStopLatchHistory` | the latch and the cycle around it; what car and frames did since | `SafeStopLatchProofs` |
| `LocalPlanner` | the planning cycle | the loop |
| `PlannerAndStateMachine` | planner and state machine over `/avoid_waypoints` and `/state` | `LocalPlannerProofs` |
| `P3Lifecycle` | the P3 record, its guards and the union it is selected on | `P3LifecycleMC`, `P3LifecycleProofs` |
| `P3Search`, `SplinePlanner`, `SpeedProfile` | the evaluator's search; the race-line planner; the speed passes | `LocalPaths`, `LocalPathsProofs` |
| `SpeedCommand`, `SectorScale`, `PathTracker` | the command and the trim; the sector scales; the index search | `MapController`, `MapControllerProofs` |
| `TrackMotion`, `TrackIdentity`, `OpponentLayer` | what is believed of one obstacle; public ids; `/opp_obs` | `Perception`, `PerceptionProofs` (not `TrackIdentity`) |
| `Localization` | poses, scans, odometry and watchdog of the localization | `Perception`, `PerceptionProofs` |
| `LongitudinalGuards`, `MapController`, `LocalPaths`, `Perception` | no code of their own: instances for TLC (below) | – |
| `*Proofs` | theorems and proofs, one module for a component or for a group that is run together | – |

Conventions.  *Time*: a stamp is represented by its age in ticks, which stops
growing one past the largest threshold it is compared with, so ages are finite and
no behaviour is lost.  A callback reads one time throughout.  *Counters* saturate at
the threshold they are compared with.  *Messages the code drops* (non-finite,
wrong frame, invalid array) are no action at all.  *History variables* observe the
code and never constrain it; a property that says what happened "since" some
moment is stated about them and not about the counters of the code, which it would
otherwise merely repeat.  *Mutants*: operators commented "Mutant of X" are not
part of the model; put in the place of X they show that a property can fail.

Two kinds of composition.  `PlannerAndStateMachine` is a real one: `together`, the
two nodes interact over their topics.  `LongitudinalGuards`, `MapController`,
`LocalPaths` and `Perception` put components side by side that share no state in the
code, or that take what the others decide as a choice of their own: every behaviour
chooses one `part` and leaves the others at rest.  They exist so that one run checks
several small components; nothing is claimed of an interaction they do not have.

### 2.1 StateMachine

One action per callback (`OnFrenetOdom`, `OnGlobalWaypoints`, `OnAvoidWaypoints`,
`OnOpponent`), `Elapse` for time, and `PublishStateCycle` for the timer, which is
`Resolve` (one disjunct per way through `resolve_requested_state`), the diagnostic
evaluation of the latch when it is due, and `SelectedSource`.  The node runs on a
single-threaded executor, so a callback is atomic.

An avoid path is what the node tells apart in an `OTWpntArray`: unmarked, handoff
or empty, with a profile that drives, brakes or is zero throughout.
`has_avoid_wpnts_` is folded into the message, the Boolean and the id of the
interference latch into `latchedId`, `track_length > 0` into a valid race line.
Geometry is two verdicts, chosen again whenever a message they depend on arrives:
ego is aligned with both lines at the tail (`aligned`), and the opponent is within
the entry band, the release band or neither (`threat`).  Failure texts and
diagnostic counters are left out.

### 2.2 CruiseController and HfiLaunchGuard

*Cruise controller.*  `/global_waypoints`, `/car_state/frenet/odom`, `/opp_obs`
(with and without a target) and `/state` are actions; `OnTimer` has a disjunct per
early return.  `*_seen_` flags are folded into ages that begin stale.  The last
`/state` is a Boolean (CRUISE or not); `opponent_active_` is `engaged`.  The control
law is the rule that chose the limit and the clamped integral of the sign of the
gap error.

*Launch guard.*  One action per control cycle: `FreshCycle` runs
`update_hfi_launch_guard` with the guard enabled, `StaleCycle` the fallback of
`control_loop` without a wheel speed.  Each return of the function is a disjunct
(`Bypass`, `RelatchHold`, `RelatchStart`, `FailureHold`, `RetryStart`, `Release`,
`GiveUp`, …).  Speeds are small integers against the thresholds; the low-pass filter
and the leaky displacement are choices within their bounds.  `escalate_enable =
false` is `CapStep = 0`; a disabled guard only resets.

### 2.3 SafeStopLatch

`activate`, `evaluate` and `reset` are `Activated`, `Evaluated`/`Reason` and
`Idle`; a planning cycle under the latch is `HandleSafeStopLatch(plan)`, for each
verdict of the new plan.  The track has `Lap` cells and ego moves by at most a cell
per sample in either direction, so the latch sees the driven distance only modulo a
lap, as the code does.  Obstacle sequence numbers become the flags "received after
the activation" and "already counted", which is all they are compared for.
`SafeStopPromise` is the abstract view: while latched only stops are published, and
the ways out are an avoidance that `/state` selects, the race line for a car that
has passed or stands, and a new race line.

### 2.4 LocalPlanner and PlannerAndStateMachine

The callbacks, `Elapse`, and `PlanningTimer`, which is `onPlanningTimer` with
`p3_mode: TEST_ACTIVE` (the shipped configuration):

1. drain the obstacle buffer, which holds the newest message only (`Drained`);
2. a pose whose stamp went back: P3 is reset and the cycle ends;
3. `advanceP3Lifecycle`: a path (`P3Path`), a completed, an invalidated, a lost or
   no record (`P3Complete`, `P3Invalidated`, `P3Nothing`);
4. without a path, the hold gate (`HoldsOn`, `Held`, `NotHeld`);
5. then the P0 pipeline (`RunP0`): input gates, committed handoff loop (`Looped`),
   safe-stop latch, early and ordinary chaining (`Unlooped`), stabilisation of a
   new cluster (`Stabilise`), validation and replacement of a commitment (`Follow`),
   a new plan (`Plan`), or a clear track (`TrackClear`).

The state is a record, and each helper of the node (`commitAvoidance`,
`activateGlobalHandoff`, `latchSafeStop`, `clearCommitment`, …) an operator on it,
so that a branch is the composition of helpers that the code calls.
`has_commitment_` is `commit # "none"`; `merge_geometry_confirmed_` and
`handoff_active_` are always assigned together and are one flag; the degraded
perception flag is "source stale"; "the last publication was not empty" is read off
the last publication.  Every geometric verdict is a choice, as is the verdict of
the latch's ladder among the releases it permits (their conditions are
`SafeStopLatch`).  Stamp regressions below 0.5 s are dropped by the code and no
action; `maneuver_memory_clear_frames` is positive (0 disables the clearing).
`activateGlobalHandoff` succeeds whenever a race line is held (an empty loop needs a
non-finite pose or non-positive parameters), and `plan()` names an obstacle whenever
it finds no safe path: both were read off the code and are what keeps the branches
of `TrackClear` from falling silent.

The executor has three threads and three mutually exclusive callback groups
(planning with race line and `/state`, Frenet odometry, obstacle ingress).  The
planning group is serial, the pose is copied once per cycle under its mutex and the
ingress callback only stores into a buffer with its own lock, so one cycle is one
action and what the other groups did meanwhile is a choice at its start.

`PlannerAndStateMachine` INSTANCEs the state machine beside the planner.  Each
publication replaces what the other node has not taken (`sentPath`, `sentState`),
so either may act on what the other has already left behind.  `Marker` and
`Profiles` say what the state machine makes of a publication.  In the loop the race
line is known and poses keep coming, there is no opponent (no CRUISE), the merge
time is 0 and the window 2 of 2; the planner alone is checked with every fault of
its inputs.  Not modelled: p3_mode OFF and SHADOW, the lockstep replay mode,
markers, audits, timing topics, and the early return by
`committedObstacleWithinLatch` (`local_planner_node.cpp:4170`), which needs a
commitment where the branches before it have returned for every commitment.

### 2.5 P3Lifecycle and LocalPaths

*P3Lifecycle* is the record behind step 3 above.  An obstacle is its id and its
extent at a place on the line, a path the extent it clears, so that "this path clears
that obstacle" is a comparison.  What is compared is what stands ahead of the car, in
`Sight`, and up to the collision horizon of the check: the certificate of a fresh path
reaches to the end of its cluster (`maneuverScopeEnd` cuts it before the next obstacle),
the raw check of `selectFresh` and the revalidation of `continueCurrent` reach
`Lookahead` (`post_merge_lookahead_m`) behind it.  An obstacle beyond the horizon is
ignored, as the code does on purpose (`p3_maneuver_lifecycle.cpp:452-467`).  `Prepared`
is `prepareP3InitialSelectionSnapshot` with the envelope union, `SelectFresh` freezes
the guards, and `Continued`, `Completed` and `Invalidated` are `continueCurrent`;
`Advanced` is the node's cycle around them.  Progress is counted along the record and
wraps after `Lap` cells, as the code's does.  `Far` bounds the stretch of the line on
which car and obstacles are.  The length of a box and its drift along the line are left
out: a box is one cell that stays.

*P3Search* is `P3ShadowEvaluator::run`: both sides with their bisection, the
baseline, the M0 extension, M1, the budgets, the aborts and the relaxed retry.  A
candidate is its verdict; `terrain` is what the validator would say of each entry
scale, so that a bisection can be right or wrong about it.

*SplinePlanner* puts the race-line planner on a ring of waypoints with lanes, and a
car that follows its answers and is planned for again at every waypoint: what is
visible, clustered, offered and validated, and where it stops.  Ranking, curvature
and the quintic's shape are left out: which feasible candidate comes first is a
choice.  Two obstacles, one of which is seen late.

*SpeedProfile* is the passes of a P3 candidate or handoff loop, the raw slow-down
overlay and the stop profiles, and a car that follows what was published.  Speeds
are kinetic energies, so the square roots of the code become additions.

### 2.6 MapController

*SpeedCommand* is `control_loop` for the speed: safe stops, cruise cap, ramp with
lead clamp, engage gate, launch kick, the guard's verdict (a choice), and the trim,
learnt while driving, saved by a slow timer when enough samples have changed it, and
read by the next process (`Restart`) if the pipeline and the age of the file fit
(`Loadable`).  `HalfDayPasses` is `steering_trim_persist_max_age`.  A write that fails
for half a day, and a drift back to the very value saved last, are left out.
*SectorScale* is the table of raised lateral accelerations that callbacks bake into the
two waypoint arrays, with the deadman timer that takes them out.  *PathTracker* is the choice between local and global path and the windowed
index search on a track whose two legs run side by side in opposite directions.
The lookahead, curvature and grip laws and the steering angle are functions without
decisions and are not modelled.

### 2.7 Perception

*TrackMotion* follows one obstacle from scan to scan: confirmation, motion votes and
translation windows, hold, refutation and retirement.  What the Kalman filter's
velocity test answers is a choice in every scan.  Samples are held by their age, so
that the pruned deque of the code is a set of them.  The pose estimate may jump
forwards or backwards along the drive (`PoseJump`), two jumps at least two translation
windows apart (`JumpGap`); section 4 says what two closer ones do, section 3.2 what one
against the drive does.  *TrackIdentity* is association, fragments, public ids and their
memory.  *OpponentLayer* is the choice of the opponent and the interference latch.

*Localization* is the shipped path (`odom_window_at_scan_end: false`, smoothing on,
frozen map): `OnInitialPose` and `OnGlobalWaypoints` give a pose, right or wrong;
`OnScan` processes the *previous* scan (`ProcessScan`: no odometry, not finite,
held, rejected or published); `OnOdom`; `OnWatchdog`, which goes on from the last
output by wheel odometry and reseeds (`Reseed`).  The car drives one unit a tick, so
that a place is an age too ("where the car was that long ago") and a prediction can
be compared with the truth.  Scan matching finds the car when the prediction is
within `Basin` of it, or does not; a place nobody can account for is `Unknown`, and
so is what was predicted over the far end of the odometry history.  The gate is
folded into "not found".

## 3. Runs

| run | instance | shows |
|---|---|---|
| `fsm_avoid` (`StateMachineHistory`) | 2-of-3 window (the shipped one), pose timeout 1, opponent timeout 0, merge time 1, one opponent; 429 408 states | AVOID never publishes the global line (`AvoidNeverPublishesGlobal`), is entered only on new requests (`AvoidEntryNeedsNewRequests`) and left without a stop only after an unbroken handoff (`MergeNeedsUnbrokenHandoff`); stop paths and settled handoffs end it (`AvoidEnds`); a silent detector ends CRUISE (`SilentOpponentEndsCruise`) |
| `fsm_cruise` (`StateMachineHistory`) | 2-of-3 exit window, two opponents, opponent timeout 1; 0.9 M states | CRUISE starts on a measured opponent only (`CruiseStartsOnMeasurement`) and ends on clear votes of the same visit (`CruiseExitNeedsClearVotes`) |
| `speed_guards` (`LongitudinalGuards`) | two opponents, each timeout crossed; speeds 0–3 and −2, every dwell 1–4, two attempts; 63 086 states | `TargetIsKept`: the integral is of the target followed now and only a stale target is dropped; `InputLossIsBlind`; `LaunchIsEarned`: exclusive phases, rest before torque, no re-arming without a speed; the cap of a request never falls (`CapKeptWithinRequest`); a demanded launch is not held at zero for ever (`DemandEventuallyPushed`) |
| `latch_release` (`SafeStopLatchHistory`) | lap of 6 cells, buffer 1, clear after 2, blind after 3 frames; 224 k states | the latch implements `SafeStopPromise` (`KeepsPromise`); passed means past (`PassedMeansPast`); handoffs are stood for (`HandoffIsStoodFor`); blind stops end (`BlindStopIsLeft`) |
| `planner_loop` (`PlannerAndStateMachine`) | clear after 2 frames, window 2 of 2; 274 623 states | `PathHasOneOwner`; a latch is left by a release only (`LatchIsReleased`); the hold's memory ends (`HoldMemoryEnds`); AVOID is not left to itself (`AvoidIsNotOrphaned`); a handoff loop is taken back (`LoopIsTakenBack`); a stop that brakes is driven (`BrakingStopIsDriven`) |
| `p3_lifecycle` (`P3LifecycleMC`) | two obstacles anywhere on four cells (extents 0, 1, 3), sight 3, lookahead 1, lap 10; 629 640 states | `PublishedClears`: an output clears the cycle's own obstacles up to the lookahead behind its cluster, a fresh one what selection has been shown up to the end of its cluster; `RecordRunsItsCourse`: own line, forward only, completed behind the cluster |
| `local_paths` (`LocalPaths`) | search: two exits, roots and ranks, caps 7/5/10; planner: ring of 16, two obstacles of three shapes, a bend and a narrow; profile: 6 cells; 1 745 824 states | `SearchIsSound`: in budget, bracket kept, best offered, ends; `KeepsClear`: the driven car meets nothing it knows of and stays inside; `AnswersHold`: a verified stop can be left, stops are the latest possible, a selected path survives its next validation; `ProfileFits`: drivable, slow beside obstacles, at rest before contact, never raised by a later pass |
| `map_controller` (`MapController`) | speeds 0–3, one launch kick, two lines, ring of 6; 265 170 states | `CommandIsRamped`: the command does not surge; `TrimIsEarned`: what a process starts its trim from was learnt here, from enough samples and not too long ago; `ScalesFit` their line and state; a silent source costs speed (`SilenceIsSafe`); `IndexIsRight`: the index is the car's |
| `perception` (`Perception`) | windows 2–3 scans, hold 4, two boxes of up to two fragments, ring of 8; scan timeout 1, dead reckoning 3, odometry history 5 ticks; 233 415 states | `MotionIsTold`, `HoldIsRight`, `NamesAreKept`, `OpponentIsEarned` of the detector; `MotionIsCountedOnce`, `InitIsJudged`, `DeadReckoningEnds` of the localization |
| `planner_stale` ✗ (`LocalPlanner`) | the planner alone | finding 1 |
| `stop_keeps_avoid` ✗ (`PlannerAndStateMachine`) | the loop | finding 2 |
| `returning_scans` ✗ (`Localization`) | as in `perception` | finding 3 |

(✗: TLC must find the property violated; the counterexample is the finding.)

Several properties are conjunctions of named parts, which state one promise
together; each part has a mutant of its own in `PROJECT.json`.  The type invariants
of `TrackMotion`, `TrackIdentity`, `P3Search`, `SplinePlanner`, `SpeedProfile`,
`PathTracker` and `Localization` are parts of such properties.  Every module's type
invariant is a theorem but that of `TrackIdentity`.

**Why the bounds suffice.**  A threshold n matters as "below, reached, passed", so
1 to 4 ticks with saturating ages meet every order of events.  Windows have the
shipped shape (2 of 3) where their contents matter and the smallest shape where
another run covers them.  Two track ids are enough for "the same or another
opponent", two boxes for "the same or another name".  Laps of 6 to 16 cells have
positions before, in and behind the danger, half a lap, and wrap-around both ways.  In
`p3_lifecycle` an obstacle can stand in the cluster, within the lookahead behind it,
beyond the horizon though in sight (where a published path does break it), and behind
the car; one ahead but out of sight is left to the proofs.
Wheel speeds have one value in each band between the guard's thresholds, and one
backwards.  The candidate caps let each family of the search exhaust what another
left, and none exhaust all.  In `Localization` the dead reckoning (3) is longer than
the scan timeout (1) and shorter than the history (5), as 2 s, 0.15 s and 8 s are;
`Basin` (3) is the reach of OdomAt over each end, the lag of the smoothed output and
one rounding, the smallest value at which what the code loses by design is tolerated.

**Deadlock** is checked except in `P3LifecycleMC`, `MapController`, `LocalPaths` and
`Perception`: a P3 record, a search, a driven path and an obstacle that has left the
track are episodes that end.

**Fairness.**  Weak fairness of the timers and sensors whose executors keep serving
them, and no more:

* state machine: `PublishStateCycle`, and `Elapse` (time passes);
* cruise controller: `OnTimer`; launch guard: `FreshCycle`, for without a wheel
  speed the guard must *not* make progress (`StaleSpeedNeverRearms`);
* latch: `HandleSafeStopLatch`, and `OnObstacles` (the detector publishes every scan);
* planner alone: `PlanningTimer`; in the loop, each of the two topics is sent and
  taken infinitely often, which is what the two timers do;
* P3 search: its next step (it is one call);
* map controller: `ControlLoop`, `Deadman` and `LocalExpires` (timers and time),
  `FollowPath`, and `OnGlobalPath`, for the race line is published periodically;
* perception: `EmptyScan` (an obstacle that is gone is not measured by the scans that
  follow), and in the localization `OnScan` and `Elapse`.

No fairness is assumed of any other message.  The liveness properties name the
circumstances that must persist instead (`<>[]premise => <>[]conclusion`); for each
one a mutant shows that its premise is met by some behaviour.

### 3.1 Findings checked by a run

1. `StalePoseStops`: the hold gate comes before the stale-pose check
   (`local_planner_node.cpp:3639`), so a cycle with a stale pose publishes the last
   guidance instead of the zero-speed hold of `local_planner.md:1011-1013`.
2. `StopKeepsAvoid`: a latched stop that has become zero throughout ends AVOID
   (`state_machine_node.cpp:671`, documented in `state_machine_node.md:68-77`), so the
   race line is published under a latched stop until the stop path brakes again.
   `local_planner.md:867-869` says that AVOID is kept.  While the profile is zero
   there is no AVOID request, so the latch's escape release cannot fire either;
   `local_planner.md:386-391` counts on the mode flapping.
3. `OnlyOldScansAreDropped`: after a scan gap the watchdog resets `pending_scan_` on
   every tick (`localization_node.cpp:1292`).  A returning scan is processed only when
   its successor finds it pending, so with a watchdog as fast as the scanner each one
   is dropped before that, until the gap exceeds `max_dead_reckoning_sec` and the
   watchdog stops.  The comment there says that the first scan after the gap re-fills
   the pipeline.  `DeadReckoningEnds` shows that it does, but only at that limit.

### 3.2 Disagreements and limits met while modelling

These were read off the code while it was translated.  The models reproduce them (a
property is worded so that it does not deny them) but no run is spent on them.

*State machine and planner.*  An AVOID whose path disappears is kept, while
`state_machine_node.md` (section 6) merges at the tail of the last path.  Empty
frames alone release a standing car (the blind timeout), and the escape release asks
for STATE_AVOID in its last cycle only, unlike `local_planner.md`.  Of two detector
messages within a cycle the latch sees the second only (`local_planner_node.cpp:942`),
so an obstacle that reappears in the first breaks no streak, and the blind timeout, in
seconds, is counted in frames (2703).  Pose jitter at the end of a danger swaps the two
kinds of empty-frame evidence (`safe_stop_lifecycle.cpp:137`).  A P3 manoeuvre that
starts from a committed loop leaves `handoff_active_` set (4385), and a record
invalidated without its flag keeps the last guidance (3262).  A planner that falls silent
keeps AVOID (`state_machine_node.cpp:663`).

*P3 and splines.*  A published P3 path may conflict with an obstacle of the message
beyond its collision horizon, by design (`p3_maneuver_lifecycle.cpp:452-467`);
`PublishedClears` claims nothing there.  A later conflict ends a record although the comment at
`p3_maneuver_lifecycle.cpp:397-401` expects the union to have covered it.  RIGHT's
validated candidate is lost when LEFT aborts (`p3_shadow.cpp:126-128` says otherwise);
with two roots per exit only one midpoint fits the frozen cap; epsilon ties make the
"strict weak ordering" of the ranking not transitive.  An obstacle whose centre has
just been passed counts as almost a lap ahead (`raceline_spline_planner.cpp:742`),
which hides its rear half; a retreat close to the car leaves fewer than two waypoints
(3361); the margin pass is not validated on the way back to the line (3606).
`KeepsClear` is therefore about what lies ahead of the car's own cluster.  The
deceleration column of the limits file is not validated to fall with speed, although
the backward pass relies on it (an assumption of `SpeedProfile`).

*Control.*  The `/state` heartbeat is looked at in CRUISE only
(`cruise_controller_node.cpp:228`), and an opponent just behind the car is a lap ahead
(277).  The catch-up at the end of a launch kick (`control_map_node.cpp:1841`) has no
effect.  The drive-mode gate opens on silence, while the launch guard closes.  The guard
is not updated during safe stops, whose launch timers run on.  Re-arming dwells over
motion that stays small in the leaky displacement (`longitudinal_safety.hpp:252`).  A
raised local array survives a change of the line until the next local message.

*Detector.*  After a dropout the age gate counts time without a measurement while the
translation window holds one sample, so a driving opponent may be STATIC two scans
after it is found again; `DrivingIsNotStatic` says "measured without a gap" for that
reason.  A jump of the pose estimate against the drive cancels the translation of every
sample from before it (`obstacle_tracker.cpp:780-800`, `928-948`): until the samples
since then span `dynamic_min_translation_m`, `classify` may make a driving opponent
STATIC.  Nothing like the persistence of a dynamic vote guards this side, and
`DrivingIsNotStatic` excepts exactly those scans (`DriveIsMasked`; one scan fewer, and
the run fails).  A fragment retired in the same scan overwrites the dormant entry with an older
stamp, a new track beside a live box takes its id, and a merged obstacle takes the
smallest id, so the hysteresis of the other is lost.

*Localization.*  A frame without odometry at both ends of its window is published
before the start-line pose has been judged, and starts the watchdog
(`localization_node.cpp:961`).  A pose given by hand during the judgement does not end
it, although the configuration says that a manual pose is never gated.  A frame with a
residual of zero is not counted, so a judgement may never be taken.  A frame that is
not finite moves the window on, and its motion is lost.  A scan that arrives late after
watchdog output has an older stamp than what was published.  An outage longer than the
odometry history restarts from the old place with a fresh stamp.

*lap_referee.*  Jitter backwards over a waypoint is ignored, but moves `last_index_`,
so that the progress counts the same stretch again.

## 4. Theorems

TLAPS proves them for all values of the constants that satisfy the named
assumptions.  These are what the constructors enforce (windows with
1 ≤ hits ≤ size, natural timeouts, `clear_confirm_sec ≥ opponent_timeout`, ordered
speed thresholds), what a model value must satisfy (ids distinct from "no id"), or a
bound of the model (`Far` in `P3Lifecycle`, less than half a lap).  These say something of the car or
the configuration, and the proofs use them:

* `TrackMotion`: an opponent drives as far within the window as
  `dynamic_min_translation_m` asks for, and one scan is no refutation
  (`static_hold_freespace_refute_frames` is 3);
* `SplinePlanner`: the probes of the retreat get down to its step
  (`RetreatAssumption`), or the stop found is not the latest: the 8 probes and the step
  of 0.30 m that are shipped cover a bracket of 77 m; the car is no wider than the track;
* `SpeedProfile`: the deceleration table falls with speed, the stop profile brakes no
  harder than the car can, and `safe_stop_buffer_m` is positive (1.20 m; with 0 a stop
  profile would end at the contact itself);
* `Localization`: scan matching reaches over what `OdomAt` may leave out at the two
  ends of the history (`2 * Clamp <= Basin`), and a message is not late by more than the
  history.

| module | theorems | inductive invariant, and why |
|---|---|---|
| `StateMachineProofs` | `TypeCorrect`, `AvoidKeepsItsPath`, `EntryNeedsRequests`, `MergeNeedsHandoff`, `ExitNeedsClearVotes`, `StartsOnMeasurement`, `SlideProperties` | `IndInv`: the windows hold no more hits than the history saw since the last reset (`VotesCovered`, `ClearsCovered`), the timer is no older than the unbroken run (`TimerCovered`), the latched id is the measured one, the last path is remembered.  The properties compare the code's counters with history, so the relation of the two must be part of the induction |
| `LongitudinalGuardsProofs`, cruise controller | `CruiseTypeCorrect`, `IntegralNotCarriedOver`, `OnlyStaleTargetsDropped`, together `TargetKept` | `CruiseInv`: also, an empty run is younger than the measurement before it |
| `LongitudinalGuardsProofs`, launch guard | `HfiTypeCorrect`, `PhasesExclude`, `RestBeforeTorque`, `StaleNeverRearms`, together `LaunchesAreEarned`; `CapMonotone` | `HfiInv` with `DwellsCovered`: each of the three dwell timers is bounded by the observed rest and runs in its own phase only, and until the car has rested the guard is not armed |
| `SafeStopLatchProofs` | `LatchTypeCorrect`, `LatchKeepsPromise`, `PassedIsPast`, `HandoffStoodFor` | `LatchInv`: the wrapped distance is the travelled one modulo a lap; a streak is bounded by the frames stood through.  `LatchKeepsPromise` is the refinement of `SafeStopPromise`, step by step |
| `LocalPlannerProofs` | `PlannerTypes`, `OneAuthorityAlways`, `LatchedMeansStopAlways`, together `PathHasOneOwnerAlways`; `LatchReleased`, `PlannerInvariance`; in the loop `LoopStepsAreThePlanners`, `LoopStepsAreTheStateMachines`, `LoopKeepsAuthority`, `LoopReleasesLatch` | `PlannerInv`: also, what has been planned (manoeuvre, memory, stop) has its inputs, or the cycle could fall silent under a stop.  `Settled` carries the argument through the branches: a cycle ends in a good record, with a stop published if one is latched, and having left a latch by a release.  The loop's theorems follow because each of its steps is a step of the planner or leaves it alone |
| `P3LifecycleProofs` | `P3TypeCorrect`, `RecordIsOfCurrentLine`, `OutputsClear`, `FreshPathsRespectMemory`, `OutputsOnlyAdvance`, `CompletionIsPassing`, together `WhatIsPublishedClears` and `RecordsRunTheirCourse`; clearing is claimed up to the horizon of the check only | `P3Inv`: also, the union covers what selection has been shown, and a record is of the line and epoch held |
| `LocalPathsProofs`, speed passes | `ProfileInvariant`, `ProfilesFit` | `ProfileInv`: each pass leaves a shape that the later ones only lower (`Lowers`): capped beside the obstacle, capped at the critical place, approached by the ramp, reachable and brakable from cell to cell.  `Stopping`: what the car drives under a stop can be braked to rest before the contact, which is what a step of the car uses up |
| `LocalPathsProofs`, race-line planner | `SplineInvariant`, `SplineTypeCorrect`, `PlannedAnswersHold` | `SplineInv`: a stop called verified can be left from where the car is on every cell up to it (`StopHeld`).  It is kept because one cell on, every distance to what is ahead is one less (`RequestedMoved`, `EscapableMoved`), and because the bisection's bracket halves (`RetreatIs`).  The selected path is kept because the guards it is validated with only shrink (`SelectionKept`) |
| `LocalPathsProofs`, P3 search | `SearchStaysSound` | `SearchInv`: what each family may have spent when it is its turn (`InBudget`), where the bracket can lie at each point of the bisection (`Bracketing`), and where the best found so far is held while sides and families take over from one another (`Offering`) |
| `MapControllerProofs` | `SectorTypeCorrect`, `ScalesAreOfTheLine`, `AvoidanceIsUnscaled`, together `ScalesAlwaysFit`; `SpeedTypeCorrect`, `TrimFileIsEarned`, `CommandsDoNotSurge`, `CommandsComeDown`, together `CommandsAreRamped`; `TrackerNeverAstray` | `SectorInv`: the flags computed from an overwritten state agree with what lies in the arrays.  `SpeedInv`: the ramp is led by at most `Lead` over the speed, samples are learnt before they are saved, and the stamp of the file is no younger than its value (`TrimStands`).  `TrackerNeverAstray` needs no strengthening: whatever index came before, the fallback, the scan or the second look finds one that faces along the car |
| `PerceptionProofs`, output layer | `LayerTypeCorrect`, `HysteresisEarned`, `OpponentAhead`, together `OpponentsAreEarned` | `LayerInv`: whoever is latched has earned it |
| `PerceptionProofs`, motion of a track | `MotionToldRight`, `HeldBoxesStay` | `MotionInv`.  `Stands`: of a box, every sample since the last jump is one of its two shapes, and the corroboration clock is younger than that jump unless a window has passed since.  `Drives`: of an opponent measured at every scan there is a sample of every scan since its status, each as far behind as it is old, or, across a jump, off by that jump, which against the drive is the exception of the property; so when the age gate lets STATIC through the translation is provable.  `Hides`: the streaks of the track are no longer than the runs of the world |
| `PerceptionProofs`, localization | `LocalizationTypeCorrect`, `MotionCountedOnce`, `InitsAreJudged` | `LocInv`: window and anchor are of one time, seed and output lie at most one clamp behind it (`Aligned`, `Placed`), whoever moved the window on: a scan, the watchdog or a pose.  `Counted`: the residuals held are those of this pose |

`MotionToldRight`, `ProfilesFit`, `PlannedAnswersHold`, `MotionCountedOnce` and
`InitsAreJudged` state the whole property of the run.  `HeldBoxesStay`,
`SearchStaysSound` and `TrackerNeverAstray` state the safety half of `HoldIsRight`,
`SearchIsSound` and `IndexIsRight`; the other half is a liveness property.

**Induction over data.**  The library's induction theorems take an operator as a
parameter, which no installed prover can instantiate.  `LocalPathsProofs` has the
principle for a *set* instead (`SetInduction`, by its least exception), and recursion
for a step that is a function (`Recursion`, `Runs`): this gives the passes of a profile,
the halving of the retreat and the prefix of the overlay their recursion equations for
every length of path.

**What the proofs changed.**

* The world of `TrackMotion` used to keep two pose jumps just over one translation
  window apart.  `Stands` is not inductive there, and with a window of 3 scans, a
  persistence of 4 and one dynamic vote TLC confirms it: two jumps 5 scans apart, with a
  short dropout before the second, carry the corroboration clock over, and a box becomes
  DYNAMIC.  The corroboration (`obstacle_tracker.cpp:780`) thus tells one jump from
  motion and not two; the models now say two windows (`JumpGap`).  At the window of 2 of
  the run the behaviours are the same.
* The assumptions on `MinTranslation`, `RefuteFrames`, `RetreatAssumption`, `Body`,
  `Buffer`, `Basin` and `Late` were met by every instance but not stated.

**Model-checked only.**

* All liveness properties (`AvoidEnds`, `SilentOpponentEndsCruise`, `InputLossIsBlind`,
  `DemandEventuallyPushed`, `BlindStopIsLeft`, `HoldMemoryEnds`, `AvoidIsNotOrphaned`,
  `LoopIsTakenBack`, `BrakingStopIsDriven`, `SearchEnds`, `SilenceIsSafe`, `CarIsFound`,
  `GhostEnds`, `DeadReckoningEnds`): the prover handles neither fairness nor ENABLED.
* `NamesAreKept` (`TrackIdentity`): association and ids are folds over the tracks, whose
  step has yet to be put as a function.
* `KeepsClear` (`SplinePlanner`): the type invariant in it is a theorem
  (`SplineTypeCorrect`); that the driven car meets nothing depends on how obstacles,
  narrow places, clearances and reserves of the instance go together, and the
  assumptions that make it true have not been isolated.

No module declares a RECURSIVE operator, so every module can be proved about.

## 5. What is not modelled

* Floating-point work: curvature and the shape of splines, clustering of scan points,
  Kalman filters, scan matching, Frenet projection, offline optimisation, steering.
  Models take their results as choices, so a property here holds for whatever they
  answer, but says nothing about them.
* In the planner: p3_mode OFF and SHADOW, lockstep replay.  In the localization: the
  scan-end path, SLAM mode, tilt compensation, covariance and diagnostics.  In the
  detector: the wall filter and the merging of boxes.
* `lap_referee`, `lap_timer` and the lap counter: they observe the stack and feed
  nothing back to it.
* Node start-up order, parameters changed at run time, and the ROS transport
  beyond "the newest message, late or never".
* Operator tools, the simulator, launch scripts, messages, vendored libraries: no
  protocol state of their own.

## 6. Plan

Modelled so far: mode, path authority, stop, torque, the P3 record and its search, the
planner's geometry on a grid, the speed command, the detector's decisions and the
localization's hand-overs; the one feedback loop is composed.  Next, in this order:

1. `NamesAreKept`: the folds of `TrackIdentity` by `SetInduction`, over an invariant that
   live and dormant ids are disjoint and that each track's cells are of one box.
2. The assumptions on obstacles and reserves under which `KeepsClear` holds on every
   ring, and its proof; its bound by the track first, which needs the narrow places only.
3. The loop as a refinement of "one owner of the path", stated without the planner's
   members; the cruise controller beside the map controller over `/cruise_speed_limit`,
   the abstract view being "the newest fresh cap".
4. The scan-end path of the localization (`scan_odom_sync.hpp`), when it is switched on.
