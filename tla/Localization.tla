---------------------------- MODULE Localization ----------------------------
(***************************************************************************)
(* kinematic_localization: how the node pairs scans with wheel odometry,   *)
(* what it publishes when scans fail to come, and how it is given a pose   *)
(* (localization_node.cpp, one scan of lag, frozen map: the shipped        *)
(* configuration).                                                         *)
(*                                                                         *)
(* A stamp is its age in ticks.  The car drives one unit a tick, so that a *)
(* place is an age too: the place where the car was that long ago.  Scan   *)
(* matching is a choice: it finds the car when the prediction is within    *)
(* Basin of it, or does not.  A place nobody can account for is Unknown.   *)
(***************************************************************************)
EXTENDS Integers

CONSTANTS
    ScanTimeout,    \* scan_timeout_sec
    MaxDead,        \* max_dead_reckoning_sec
    Clamp,          \* how far OdomAt reaches over an end of the odometry history
    History,        \* how far back odom_history_ goes
    Late,           \* bound: how old a message is when it arrives
    Basin,          \* from how far scan matching finds the car
    ValidateFrames  \* auto_init_validate_frames

ASSUME LocalizationAssumption ==
    /\ {ScanTimeout, MaxDead, Clamp, History, Late, Basin} \subseteq Nat
    /\ ScanTimeout < MaxDead /\ MaxDead <= History /\ Late <= History
    /\ 2 * Clamp <= Basin  \* scan matching reaches over what OdomAt may leave out
    /\ ValidateFrames \in Nat \ {0}

VARIABLES
    init,       \* initialized_, manual_init_done_, auto_init_done_,
                \* validating_auto_init_ and the good and bad validate_residuals_
    scan,       \* age of the newest scan's header
    pending,    \* pending_scan_ holds it
    odom,       \* age of the newest wheel odometry
    window,     \* last_odom_window_end_
    anchor,     \* last_scan_stamp_
    processed,  \* last_scan_processed_time_
    seed,       \* the pose ICP starts from
    out,        \* last_out_
    hasOut,     \* has_last_out_
    sent,       \* what came of the last step
    rated,      \* history: residuals of frames since the pose was given
    refused,    \* history: a pose was rejected and none has been given by hand since
    miss        \* history: how far the last step's prediction was off

stamps  == <<scan, pending, odom, window, anchor, processed>>
places  == <<seed, out, hasOut>>
locVars == <<init, stamps, places, sent, rated, refused, miss>>

Never   == -1
Oldest  == History + 3 * Clamp + 1
Unknown == Oldest + 1
Ages    == Never..Oldest
Places  == -Oldest..Unknown
NoMiss  == [first |-> FALSE, behind |-> 0]
Events  == {"nothing", "scan", "watchdog", "held", "refused", "dropped"}

Inits   == [initialized : BOOLEAN, manual : BOOLEAN, auto : BOOLEAN,
            validating : BOOLEAN, good : 0..ValidateFrames, bad : 0..ValidateFrames]

LocalizationTypeOK ==
    /\ init \in Inits
    /\ {scan, odom, window, anchor, processed} \subseteq Ages /\ pending \in BOOLEAN
    /\ seed \in Places /\ out \in Places /\ hasOut \in BOOLEAN
    /\ sent \in Events /\ rated \in 0..ValidateFrames /\ refused \in BOOLEAN

Ageing(age) == IF age = Never \/ age >= Oldest THEN age ELSE age + 1

LocalizationInit ==
    /\ init = [initialized |-> FALSE, manual |-> FALSE, auto |-> FALSE,
               validating |-> FALSE, good |-> 0, bad |-> 0]
    /\ scan = Never /\ pending = FALSE /\ odom = Never
    /\ window = Never /\ anchor = Never /\ processed = Never
    /\ seed = Unknown /\ out = Unknown /\ hasOut = FALSE
    /\ sent = "nothing" /\ rated = 0 /\ refused = FALSE /\ miss = NoMiss

-----------------------------------------------------------------------------
(* A pose is given, right or wrong.                                          *)

\* Mutant of ApplyInitialPose: the end of the odometry window is kept.
ApplyInitialPoseKeepingWindow(right) ==
    /\ seed' = IF right THEN 0 ELSE Unknown
    /\ out' = Unknown /\ hasOut' = FALSE
    /\ pending' = FALSE /\ processed' = Never
    /\ sent' = "nothing" /\ rated' = 0 /\ miss' = NoMiss
    /\ UNCHANGED <<scan, odom, window, anchor>>

ApplyInitialPose(right) ==
    /\ seed' = IF right THEN 0 ELSE Unknown
    /\ out' = Unknown /\ hasOut' = FALSE
    /\ pending' = FALSE /\ window' = Never /\ processed' = Never
    /\ sent' = "nothing" /\ rated' = 0 /\ miss' = NoMiss
    /\ UNCHANGED <<scan, odom, anchor>>

\* Mutant of OnInitialPose: the residuals collected so far are kept.
OnInitialPoseKeepingResiduals ==
    /\ \E right \in BOOLEAN : ApplyInitialPose(right)
    /\ init' = [init EXCEPT !.initialized = TRUE, !.manual = TRUE]
    /\ refused' = FALSE

OnInitialPose ==
    /\ \E right \in BOOLEAN : ApplyInitialPose(right)
    /\ init' = [init EXCEPT !.initialized = TRUE, !.manual = TRUE, !.good = 0, !.bad = 0]
    /\ refused' = FALSE

OnGlobalWaypoints ==
    /\ ~init.auto /\ ~init.manual
    /\ \E right \in BOOLEAN : ApplyInitialPose(right)
    /\ init' = [init EXCEPT !.initialized = TRUE, !.auto = TRUE, !.validating = TRUE,
                            !.good = 0, !.bad = 0]
    /\ UNCHANGED refused

-----------------------------------------------------------------------------
(* Wheel odometry.                                                           *)

OnOdom ==
    /\ odom' \in 0..Late /\ (odom = Never \/ odom' < odom)
    /\ sent' = "nothing" /\ miss' = NoMiss
    /\ UNCHANGED <<init, scan, pending, window, anchor, processed, places, rated, refused>>

\* The stamp OdomAt answers for, Never when it answers nothing.
OdomAt(age) ==
    IF odom = Never \/ age > History + Clamp \/ odom - age > Clamp THEN Never
    ELSE IF age < odom THEN odom
    ELSE IF age > History THEN History
    ELSE age

\* Over the far end of the history, how much of the motion is missed depends on
\* what is left of it.
Moved(place, from, to) ==
    IF place = Unknown \/ from > History \/ to > History THEN Unknown
    ELSE place - (OdomAt(from) - OdomAt(to))

-----------------------------------------------------------------------------
(* A scan is processed when the next one arrives.                            *)

Begin(s)            == IF window = Never THEN s ELSE window
HasOdometry(s)         == OdomAt(Begin(s)) # Never /\ OdomAt(s) # Never
Predicted(place, s) == Moved(place, Begin(s), s)

WindowMoves(s) == window' = s /\ anchor' = s

Publish(place) ==
    /\ out' = place /\ hasOut' = TRUE
    /\ processed' = 0 /\ sent' = "scan"

\* Without odometry at both ends the frame is published unregistered.
Unregistered(s) ==
    /\ ~HasOdometry(s)
    /\ seed' = Unknown /\ Publish(Unknown) /\ miss' = NoMiss
    /\ UNCHANGED <<init, rated, refused>>

\* A pose or an output that is not finite is rolled back.
NonFinite(s) ==
    /\ HasOdometry(s)
    /\ seed' = Unknown /\ out' = Unknown
    /\ sent' = "dropped" /\ miss' = NoMiss
    /\ UNCHANGED <<init, hasOut, processed, rated, refused>>

\* Matching finds the car, or it does not (nor does it when the gate rejects).
Estimates(s) ==
    LET predicted == Predicted(seed, s) IN
    {Unknown} \cup
    IF predicted = Unknown \/ predicted - s \in -Basin..Basin THEN {s} ELSE {}

\* The output goes half way from its own prediction to the estimate.
Smoothed(s, estimate) ==
    LET predicted == Predicted(out, s) IN
    CASE ~hasOut -> {estimate}
      [] hasOut /\ estimate = Unknown -> {Unknown}
      [] hasOut /\ estimate # Unknown /\ predicted = Unknown -> {Unknown} \cup s..(s + Clamp)
      [] OTHER -> {s + (predicted - s + 1) \div 2}

Rated(residual) ==
    CASE residual = "good" -> [init EXCEPT !.good = @ + 1]
      [] residual = "bad"  -> [init EXCEPT !.bad = @ + 1]
      [] OTHER -> init

Total(judged) == judged.good + judged.bad

\* The median of the residuals is over the limit.
Bad(judged) == judged.good <= Total(judged) \div 2

Judged(judged) == [judged EXCEPT !.validating = FALSE, !.good = 0, !.bad = 0]

\* HoldForAutoInitValidation.
Held(judged) ==
    /\ init.validating /\ Total(judged) < ValidateFrames
    /\ init' = judged /\ sent' = "held"
    /\ UNCHANGED <<out, hasOut, processed, refused>>

\* Mutant of Rejected: the last output stays, and the node initialised.
RejectedStayingInitialized(judged) ==
    /\ init.validating /\ Total(judged) >= ValidateFrames /\ Bad(judged)
    /\ init' = Judged(judged) /\ sent' = "refused" /\ refused' = TRUE
    /\ UNCHANGED <<out, hasOut, processed>>

Rejected(judged) ==
    /\ init.validating /\ Total(judged) >= ValidateFrames /\ Bad(judged)
    /\ init' = [Judged(judged) EXCEPT !.initialized = FALSE, !.auto = TRUE]
    /\ hasOut' = FALSE /\ sent' = "refused" /\ refused' = TRUE
    /\ UNCHANGED <<out, processed>>

Accepted(s, judged, estimate) ==
    /\ init.validating => Total(judged) >= ValidateFrames /\ ~Bad(judged)
    /\ init' = IF init.validating THEN Judged(judged) ELSE init
    /\ \E place \in Smoothed(s, estimate) : Publish(place)
    /\ UNCHANGED refused

Registered(s) ==
    /\ HasOdometry(s)
    /\ miss' = IF Predicted(seed, s) = Unknown THEN NoMiss
               ELSE [first |-> window = Never, behind |-> Predicted(seed, s) - s]
    /\ \E estimate \in Estimates(s), residual \in {"none", "good", "bad"} :
         /\ residual = "none" => estimate = Unknown
         /\ seed' = estimate
         /\ rated' = IF residual = "none" \/ rated = ValidateFrames THEN rated ELSE rated + 1
         /\ LET judged == Rated(residual) IN
            Held(judged) \/ Rejected(judged) \/ Accepted(s, judged, estimate)

ProcessScan(s) ==
    /\ WindowMoves(s)
    /\ Unregistered(s) \/ NonFinite(s) \/ Registered(s)

Arrives(age) == age \in 0..Late /\ (scan = Never \/ age < scan)

OnScan ==
    /\ init.initialized
    /\ Arrives(scan') /\ pending' = TRUE /\ UNCHANGED odom
    /\ \/ pending /\ ProcessScan(scan)
       \/ /\ ~pending /\ sent' = "nothing" /\ miss' = NoMiss
          /\ UNCHANGED <<init, window, anchor, processed, places, rated, refused>>

-----------------------------------------------------------------------------
(* The watchdog takes over when no scan has been processed for ScanTimeout.  *)

\* Mutant of Overdue: dead reckoning has no limit.
OverdueForEver == processed > ScanTimeout

Overdue == processed > ScanTimeout /\ processed <= MaxDead

\* Output, anchor and seed go on together.
\* Mutants of Reseed: the window, or the seed, is left behind.
ReseedKeepingWindow(place, stamp) ==
    /\ out' = place /\ seed' = place /\ anchor' = stamp
    /\ pending' = FALSE /\ UNCHANGED window
ReseedKeepingSeed(place, stamp) ==
    /\ out' = place /\ anchor' = stamp /\ window' = stamp
    /\ pending' = FALSE /\ UNCHANGED seed

Reseed(place, stamp) ==
    /\ out' = place /\ seed' = place
    /\ anchor' = stamp /\ window' = stamp
    /\ pending' = FALSE

OnWatchdog ==
    /\ init.initialized /\ hasOut /\ Overdue
    /\ odom # Never /\ odom < anchor /\ OdomAt(anchor) # Never
    /\ Reseed(Moved(out, anchor, odom), odom)
    /\ sent' = "watchdog" /\ miss' = NoMiss
    /\ UNCHANGED <<init, scan, odom, processed, hasOut, rated, refused>>

Elapse ==
    /\ scan' = Ageing(scan) /\ odom' = Ageing(odom) /\ window' = Ageing(window)
    /\ anchor' = Ageing(anchor)
    /\ processed' = IF processed > MaxDead THEN processed ELSE Ageing(processed)
    /\ seed' = IF seed < Oldest THEN seed + 1 ELSE seed
    /\ out' = IF out < Oldest THEN out + 1 ELSE out
    /\ sent' = "nothing" /\ miss' = NoMiss
    /\ UNCHANGED <<init, pending, hasOut, rated, refused>>

LocalizationNext ==
    OnInitialPose \/ OnGlobalWaypoints \/ OnOdom \/ OnScan \/ OnWatchdog \/ Elapse

LocalizationSpec ==
    /\ LocalizationInit /\ [][LocalizationNext]_locVars
    /\ WF_locVars(OnScan) /\ WF_locVars(Elapse)

-----------------------------------------------------------------------------
(* Properties.                                                               *)

\* Once scan matching has found the car, no prediction of a later frame is ahead of
\* it or beyond the basin behind it, over scan gaps, watchdog output and the scans
\* that come back: what the wheels did is counted once.  A pose given by hand or from
\* the start line is not moved by what the wheels did before.
MotionIsCountedOnce ==
    IF miss.first THEN miss.behind >= -Late ELSE miss.behind \in 0..Basin

\* A pose from the start line is judged on as many residuals as the window asks for,
\* all of them its own; after a rejection nothing is published before a pose is given
\* by hand.
InitIsJudged ==
    /\ [][init.validating /\ ~init'.validating => rated' = ValidateFrames]_locVars
    /\ [](refused => sent \notin {"scan", "watchdog"} /\ LocalizationTypeOK)

\* Dead reckoning ends: the watchdog does not publish for ever without a scan, and
\* scans that keep coming are processed again.
DeadReckoningEnds ==
    /\ []<>(sent = "watchdog") => []<>(sent = "scan")
    /\ <>[](init.initialized /\ ~init.validating) /\ <>[][~OnInitialPose]_locVars
         => []<>(sent \in {"scan", "dropped"})

\* The watchdog drops only a scan from before the gap (comment in OnWatchdog).
OnlyOldScansAreDropped == [][OnWatchdog /\ pending => scan >= processed]_locVars
=============================================================================
