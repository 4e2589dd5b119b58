---------------------------- MODULE SpeedCommand ----------------------------
(***************************************************************************)
(* The longitudinal half of control_map_node: the 20 ms control loop that  *)
(* turns the speed of the followed path into the published one - safe      *)
(* stops, the cruise limit, the ramp with its lead clamp, the engage gate, *)
(* the launch kick and the HFI guard's verdict - and the steering trim,    *)
(* which is learnt while driving and outlives the process in a file.       *)
(*                                                                         *)
(* Speeds are small integers, a control cycle is the unit of time.  A      *)
(* source of messages is fresh or stale; it may turn stale at any time.    *)
(* The speed the path asks for (waypoint, curvature limit, grip clamp) and *)
(* the decision of HfiLaunchGuard are choices.                             *)
(***************************************************************************)
EXTENDS Integers

CONSTANTS
    Top,          \* fastest speed a path asks for or the car drives
    Caps,         \* what the cruise controller may publish
    StaleCap,     \* cruise_stale_speed
    Accel, Decel, \* base_max_accel and base_max_decel, per cycle
    Lead,         \* ramp_lead_max, 0 to disable it
    Boost,        \* launch_boost_speed
    BoostTime,    \* launch_boost_time
    RelatchTime,  \* launch_relatch_time, 0 to disable it
    Still, Exit,  \* launch_standstill_speed and launch_exit_speed
    LearnSpeed,   \* steering_trim_min_speed
    MinSamples    \* samples before the trim is saved

ASSUME SpeedCommandAssumption ==
    /\ {Top, StaleCap, Lead, Boost, BoostTime, RelatchTime, Still, Exit,
        LearnSpeed} \subseteq Nat
    /\ Caps \subseteq Nat
    /\ {Accel, Decel, MinSamples} \subseteq Nat \ {0}

NoLimit == -1    \* no cruise message, or a stale one
NoFile  == "none"

VARIABLES
    odom,     \* unseen, fresh or stale
    v,        \* current_speed_
    mode,     \* the last drive mode: unseen, on (autonomous) or off
    heard,    \* it is younger than drive_mode_timeout
    limit,    \* the cruise limit, NoLimit when there is no fresh one
    ramp,     \* last_target_speed_
    out,      \* last_published_speed_
    target,   \* history: target_speed of the last cycle
    by,       \* history: what wrote `out`
    basis,    \* history: the larger of `out` and the measured speed of that cycle
    kick,     \* launch_active_
    spent,    \* launch_time_
    gaveUp,   \* launch_latched_off_
    rested,   \* launch_relatch_timer_
    samples,  \* steering_trim_samples_, up to MinSamples
    unsaved,  \* the trim is not steering_trim_saved_
    sound,    \* history: steering_trim_init_ is the parameter's, or the file it was
              \* loaded from was learnt here, from enough samples, and not too long ago
    file,     \* the persisted trim: none, or of this steering pipeline or another
    old,      \* its stamp is older than steering_trim_persist_max_age
    earned,   \* history: samples in the current trim value
    idle,     \* history: the last of them is older than steering_trim_persist_max_age
    worth,    \* history: samples in the value of the file
    dated     \* history: the last of them is older than steering_trim_persist_max_age

inputs == <<odom, v, mode, heard, limit>>
launch == <<kick, spent, gaveUp, rested>>
speed  == <<ramp, out, target, by, basis>>
trim   == <<samples, unsaved, sound, file, old, earned, idle, worth, dated>>
saved  == <<sound, file, old, worth, dated>>
speedVars   == <<inputs, speed, launch, trim>>

AtMost(a, b)  == IF a < b THEN a ELSE b
AtLeast(a, b) == IF a < b THEN b ELSE a

SpeedCommandTypeOK ==
    /\ odom \in {"unseen", "fresh", "stale"} /\ v \in 0..Top
    /\ mode \in {"unseen", "on", "off"} /\ heard \in BOOLEAN
    /\ limit \in Caps \cup {NoLimit}
    /\ ramp \in 0..Top /\ target \in 0..Top
    /\ out \in 0..AtLeast(Top, Boost) /\ basis \in 0..AtLeast(Top, Boost)
    /\ by \in {"start", "stop", "off", "ramp", "kick", "hfi"}
    /\ kick \in BOOLEAN /\ spent \in 0..BoostTime
    /\ gaveUp \in BOOLEAN /\ rested \in 0..RelatchTime
    /\ samples \in 0..MinSamples /\ earned \in 0..MinSamples /\ worth \in 0..MinSamples
    /\ file \in {NoFile, "own", "other"} /\ sound \in BOOLEAN
    /\ unsaved \in BOOLEAN /\ old \in BOOLEAN /\ idle \in BOOLEAN /\ dated \in BOOLEAN
    /\ mode = "unseen" => ~heard

-----------------------------------------------------------------------------
(* The callbacks. *)

OnOdom ==
    /\ odom' = "fresh" /\ v' \in {v - 1, v, v + 1} \cap 0..Top
    /\ UNCHANGED <<mode, heard, limit, speed, launch, trim>>

OdomExpires ==
    /\ odom = "fresh" /\ odom' = "stale"
    /\ UNCHANGED <<v, mode, heard, limit, speed, launch, trim>>

OnDriveMode ==
    /\ mode' \in {"on", "off"} /\ heard' = TRUE
    /\ UNCHANGED <<odom, v, limit, speed, launch, trim>>

DriveModeExpires ==
    /\ heard /\ heard' = FALSE
    /\ UNCHANGED <<odom, v, mode, limit, speed, launch, trim>>

OnCruiseLimit ==
    /\ limit' \in Caps
    /\ UNCHANGED <<odom, v, mode, heard, speed, launch, trim>>

CruiseExpires ==
    /\ limit # NoLimit /\ limit' = NoLimit
    /\ UNCHANGED <<odom, v, mode, heard, speed, launch, trim>>

\* The engage gate holds only on a fresh message: silence opens it.
Disengaged == heard /\ mode = "off"

-----------------------------------------------------------------------------
(* The control loop. *)

\* Mutant of StopRamp: the ramp keeps the last target over a safe stop.
StopRampKept == ramp

\* What a safe stop leaves in the ramp: the measured speed, so that driving resumes there.
StopRamp == v

\* publish_safe_stop: without odometry, on a stale one, or without any path.
SafeStop ==
    /\ ramp' = StopRamp /\ out' = 0 /\ basis' = v
    /\ target' = 0 /\ by' = "stop"
    /\ UNCHANGED <<inputs, launch, trim>>

\* Mutant of CruiseCap: the full speed until a first message and after the last one.
CruiseCapOpen == IF limit = NoLimit THEN Top ELSE limit

\* Fail closed: without a fresh limit the car keeps to the stale speed.
CruiseCap == IF limit = NoLimit THEN StaleCap ELSE limit

\* Mutant of RateLimited: there is no way down.
RateLimitedUp(from, to) == IF to > from THEN AtMost(to, from + Accel) ELSE from

\* rate_limit_speed_command.
RateLimited(from, to) == IF to > from THEN AtMost(to, from + Accel) ELSE AtLeast(to, from - Decel)

\* The ramp leads the measured speed by Lead at most.
Led(final) == IF Lead > 0 THEN AtMost(final, v + Lead) ELSE final

Moving   == v > Exit
Standing == v < Still

\* The launch kick of a cycle: what becomes of the latch, the timers and the kick, and
\* the speed it publishes.
Launch(goal, final) ==
    LET off      == gaveUp /\ ~Moving
        counting == RelatchTime > 0 /\ off /\ Standing
        again    == counting /\ rested + 1 >= RelatchTime
        starts   == ~kick /\ Standing /\ (~off \/ again)
        time     == IF starts THEN 1 ELSE spent + 1
        pushes   == (kick \/ starts) /\ ~Moving /\ time <= BoostTime
        fails    == (kick \/ starts) /\ ~Moving /\ time > BoostTime
    IN IF goal = 0
       THEN [kick |-> FALSE, spent |-> 0, gaveUp |-> off, rested |-> 0, out |-> final]
       ELSE [kick   |-> pushes,
             spent  |-> IF pushes THEN time ELSE 0,
             gaveUp |-> (off /\ ~again) \/ fails,
             rested |-> IF counting /\ ~again THEN rested + 1 ELSE 0,
             out    |-> IF pushes THEN AtLeast(final, Boost) ELSE final]

\* The HFI guard's decision: none, a stop, or a cap (update_hfi_launch_guard).
Decisions == {NoLimit} \cup 0..Top

\* Both the published speed and the ramp obey it.
Guarded(e, decision) == IF decision = NoLimit THEN e ELSE AtMost(e, decision)

\* A sample of the trim estimator: driving, straight enough (a choice) and not launching.
\* It may move the trim (a drift back to the saved value, which only puts off a save,
\* is left out).
Learns == /\ ~Disengaged /\ ~kick /\ v >= LearnSpeed
          /\ samples' = AtMost(samples + 1, MinSamples)
          /\ earned' = AtMost(earned + 1, MinSamples) /\ idle' = FALSE
          /\ unsaved' \in {unsaved, TRUE}

Drive ==
    /\ ~Disengaged
    /\ \E asked \in 0..Top, decision \in Decisions :
        LET goal  == AtMost(asked, CruiseCap)
            final == Led(RateLimited(ramp, goal))
            next  == Launch(goal, final)
        IN /\ ramp' = Guarded(final, decision)
           /\ out' = Guarded(next.out, decision)
           /\ target' = goal /\ basis' = AtLeast(out', v)
           /\ by' = IF next.kick THEN "kick" ELSE IF decision # NoLimit THEN "hfi" ELSE "ramp"
           /\ kick' = next.kick /\ spent' = next.spent
           /\ gaveUp' = next.gaveUp /\ rested' = next.rested
    /\ Learns \/ UNCHANGED <<samples, unsaved, earned, idle>>
    /\ UNCHANGED <<inputs, saved>>

\* Mutant of Relearnt: the samples outlive the value they belong to.
RelearntNever == UNCHANGED samples

\* The samples start over with the value.
Relearnt == samples' = 0

\* The autonomous command is not driven: the ramp waits at the measured speed, the
\* trim falls back to its start value.
Hold ==
    /\ Disengaged
    /\ \E decision \in Decisions :
        /\ ramp' = Guarded(v, decision) /\ out' = Guarded(v, decision)
    /\ target' = 0 /\ basis' = v /\ by' = "off"
    /\ kick' = FALSE /\ spent' = 0 /\ rested' = 0 /\ UNCHANGED gaveUp
    /\ Relearnt /\ earned' = 0 /\ idle' = FALSE /\ unsaved' = TRUE
    /\ UNCHANGED <<inputs, saved>>

\* control_loop.
ControlLoop ==
    \/ SafeStop
    \/ odom = "fresh" /\ (Drive \/ Hold)

-----------------------------------------------------------------------------
(* The persisted trim. *)

\* Mutant of Earned: the value is saved again and again.
EarnedOnce == samples >= MinSamples

\* Whether the value is worth a file: enough samples since it was a start value, and
\* not the value saved last.
Earned == samples >= MinSamples /\ unsaved

\* save_persisted_trim, the 5 s timer, when the write and the rename succeed.
SaveTrim ==
    /\ Earned
    /\ file' = "own" /\ old' = FALSE /\ unsaved' = FALSE
    /\ worth' = earned /\ dated' = idle
    /\ UNCHANGED <<inputs, speed, launch, samples, sound, earned, idle>>

\* steering_trim_persist_max_age passes without a sample.  What is worth a file has
\* been saved by then: a write that fails for as long is left out.
HalfDayPasses ==
    /\ ~(samples = MinSamples /\ unsaved)
    /\ old' = (file # NoFile) /\ dated' = (file # NoFile) /\ idle' = (earned > 0)
    /\ UNCHANGED <<inputs, speed, launch, samples, unsaved, sound, earned, file, worth>>

\* Mutants of Loadable: the file of any pipeline, and a file of any age.
LoadableAnyones(found) == found # NoFile /\ ~old
LoadableAnytime(found) == found = "own"

\* load_persisted_trim takes the value: fingerprint and age fit.
Loadable(found) == found = "own" /\ ~old

\* The process dies and is started again, with the same or another steering pipeline.
Restart ==
    /\ odom' = "unseen" /\ v' = 0 /\ mode' = "unseen" /\ heard' = FALSE /\ limit' = NoLimit
    /\ ramp' = 0 /\ out' = 0 /\ target' = 0 /\ by' = "start" /\ basis' = 0
    /\ kick' = FALSE /\ spent' = 0 /\ gaveUp' = FALSE /\ rested' = 0
    /\ samples' = 0 /\ unsaved' = TRUE /\ earned' = 0 /\ idle' = FALSE
    /\ file' \in (IF file = NoFile THEN {NoFile} ELSE {"own", "other"})
    /\ sound' = (Loadable(file') => file' = "own" /\ worth = MinSamples /\ ~dated)
    /\ UNCHANGED <<old, worth, dated>>

SpeedCommandInit ==
    /\ odom = "unseen" /\ v = 0 /\ mode = "unseen" /\ heard = FALSE /\ limit = NoLimit
    /\ ramp = 0 /\ out = 0 /\ target = 0 /\ by = "start" /\ basis = 0
    /\ kick = FALSE /\ spent = 0 /\ gaveUp = FALSE /\ rested = 0
    /\ samples = 0 /\ unsaved = TRUE /\ earned = 0 /\ idle = FALSE /\ sound = TRUE
    /\ file = NoFile /\ old = FALSE /\ worth = 0 /\ dated = FALSE

SpeedCommandNext ==
    \/ OnOdom \/ OdomExpires \/ OnDriveMode \/ DriveModeExpires
    \/ OnCruiseLimit \/ CruiseExpires
    \/ SafeStop \/ (odom = "fresh" /\ Drive) \/ (odom = "fresh" /\ Hold)
    \/ SaveTrim \/ HalfDayPasses \/ Restart

\* The wall timer runs the control loop again and again.
SpeedCommandSpec ==
    SpeedCommandInit /\ [][SpeedCommandNext]_speedVars /\ WF_speedVars(ControlLoop)
-----------------------------------------------------------------------------
\* No sudden start: without a kick, a command exceeds the last one, the speed measured
\* with it and the speed measured now by one acceleration step at most - over outages,
\* over missing paths, and when the driver hands over.
NoSurge == [][by' = "kick" \/ out' <= AtLeast(basis, v) + Accel]_<<out, basis, by>>

\* A command above the target is on its way down: nothing (a kick that ended, a ramp
\* that was held) keeps the car faster than what is asked of it.
OverspeedShrinks ==
    [][by' = "ramp" /\ out' > target' => out' < basis]_<<out, basis, by>>

\* The command moves towards the target by one step at a time, up and down.
CommandIsRamped == NoSurge /\ OverspeedShrinks

\* A cruise controller that stays silent slows the car to the stale speed, as long as
\* the loop drives.
SilenceSlows ==
    <>[](limit = NoLimit /\ by \in {"ramp", "kick", "hfi"}) => <>[](out <= StaleCap \/ by = "kick")

\* The stamp of the file says when its value was learnt, from enough samples, and not
\* when it was last written (save_persisted_trim).
FileIsEarned == file # NoFile => worth = MinSamples /\ (dated => old)

\* What a process starts its trim from is the parameter's, or was learnt on this very
\* steering pipeline, from enough samples and not longer ago than it may be, over any
\* number of restarts, engagements and days: no start value is written back as if it
\* had been learnt, none is stamped anew (load_persisted_trim).
TrimIsEarned == sound /\ FileIsEarned
=============================================================================
