-------------------------- MODULE PerceptionProofs --------------------------
(***************************************************************************)
(* Proofs about what the car knows of itself and of the others.            *)
(*                                                                         *)
(* The opponent topic, for every ring, gap, distance and timeout: what is  *)
(* sent as the opponent is ahead of the car, and the hysteresis of the     *)
(* interference check is its own.                                          *)
(*                                                                         *)
(* The pose, for every timeout, history, clamp, delay and basin that       *)
(* LocalizationAssumption allows: what the wheels did is counted once, and *)
(* a pose from the start line is judged in full.                           *)
(*                                                                         *)
(* What is believed of one obstacle, for every window, persistence and     *)
(* hold that TrackMotionAssumption allows: an obstacle that drives is not  *)
(* called static, one that stands is not called dynamic however the pose   *)
(* jumps, and the box of an obstacle out of sight stays where it was.      *)
(***************************************************************************)
EXTENDS TrackMotion, OpponentLayer, Localization, FiniteSetTheorems, TLAPS

-----------------------------------------------------------------------------
(* The opponent topic.                                                       *)

\* The latch holds the opponent whose flag has been earned: what the code keeps
\* of the past scans is exactly what the history says of them.
LatchIsEarned == latch = earned

LayerInv == OpponentLayerTypeOK /\ LatchIsEarned /\ HysteresisIsEarned

-----------------------------------------------------------------------------
\* No public ID is the ID of nobody.
LEMMA NobodyHasNoId == Nobody \notin OpponentIds
  BY OpponentLayerAssumption DEF Nobody

\* What a scan selects is one of the movers, and ahead if the car knows its station.
LEMMA SelectedIsAhead ==
  ASSUME NEW movers \in MoverSets, NEW m \in SelectableOpponents(movers)
  PROVE  m \in Movers /\ (egoS # NoStation => IsAhead(m.s))
  <1>1. movers \subseteq Movers
    BY DEF MoverSets
  <1> QED
    BY <1>1 DEF SelectableOpponents, Candidates

\* The gap is an integer.
LEMMA GapIsInt ==
  ASSUME OpponentLayerTypeOK, NEW m \in Movers
  PROVE  /\ ForwardDistance(m.s, egoS) \in Int
         /\ PredictedGap(m) \in Int
  <1>1. m.s \in Int /\ egoS \in Int /\ m.closure \in Int
    BY OpponentLayerAssumption DEF OpponentLayerTypeOK, Movers, Stations, NoStation
  <1>2. RingLength \in Nat \ {0} /\ FrontOffset \in Int
    BY OpponentLayerAssumption
  <1>3. ForwardDistance(m.s, egoS) \in Int
    BY <1>1, <1>2 DEF ForwardDistance
  <1> QED
    BY <1>1, <1>2, <1>3 DEF PredictedGap, RearGap

\* The age of the car's station stays within its bound.
LEMMA OlderIsBounded ==
  OpponentLayerTypeOK => Older \in 0..(MotionTimeout + 1)
  <1>1. MotionTimeout \in Nat
    BY OpponentLayerAssumption
  <1> QED
    BY <1>1 DEF OpponentLayerTypeOK, Older

-----------------------------------------------------------------------------
LEMMA LayerInitInv == OpponentLayerInit => LayerInv
  <1>1. MotionTimeout \in Nat
    BY OpponentLayerAssumption
  <1> QED
    BY <1>1 DEF OpponentLayerInit, LayerInv, OpponentLayerTypeOK, LatchIsEarned,
                HysteresisIsEarned, Silence

\* A scan with an opponent: the flag is the entry's or that of the latch, which
\* has been earned.
LEMMA ScanOpponentInv ==
  ASSUME LayerInv, NEW m \in Movers, LayerScanOpponent(m)
  PROVE  LayerInv'
  <1>1. m.id \in OpponentIds /\ m.id # Nobody
    BY NobodyHasNoId DEF Movers
  <1>2. PredictedGap(m) \in Int /\ EnterDistance \in Int
    BY GapIsInt, OpponentLayerAssumption DEF LayerInv
  <1>3. /\ latch = earned /\ latch \in OpponentIds \cup {Nobody}
        /\ egoS \in Stations \cup {NoStation}
    BY DEF LayerInv, LatchIsEarned, OpponentLayerTypeOK
  <1>4. IsInterfering(m) => PredictedGap(m) <= EnterDistance \/ earned = m.id
    BY <1>3 DEF IsInterfering, DistanceThreshold
  <1>5. latch' = IF EgoFresh /\ IsInterfering(m) THEN m.id ELSE Nobody
    BY DEF LayerScanOpponent, LatchAfter
  <1>6. earned' = IF EgoFresh /\ IsInterfering(m) THEN m.id ELSE Nobody
    BY <1>4 DEF LayerScanOpponent
  <1>7. OpponentLayerTypeOK'
    <2>1. egoAge' \in 0..(MotionTimeout + 1)
      BY OlderIsBounded DEF LayerScanOpponent, LayerInv
    <2>2. {latch', earned'} \subseteq OpponentIds \cup {Nobody}
      BY <1>1, <1>5, <1>6
    <2>3. egoS' \in Stations \cup {NoStation}
      BY <1>3 DEF LayerScanOpponent
    <2>4. published'.kind \in {"none", "silent", "opponent"}
      BY DEF LayerScanOpponent, Silence
    <2> QED
      BY <2>1, <2>2, <2>3, <2>4 DEF OpponentLayerTypeOK, Stations
  <1>8. HysteresisIsEarned'
    <2>1. CASE EgoFresh
      <3>1. /\ published'.gap = PredictedGap(m) /\ published'.id = m.id
            /\ published'.interfering = IsInterfering(m)
        BY <2>1 DEF LayerScanOpponent
      <3> QED
        BY <2>1, <3>1, <1>4, <1>6 DEF HysteresisIsEarned
    <2>2. CASE ~EgoFresh
      BY <2>2 DEF LayerScanOpponent, Silence, HysteresisIsEarned
    <2> QED
      BY <2>1, <2>2
  <1> QED
    BY <1>5, <1>6, <1>7, <1>8 DEF LayerInv, LatchIsEarned

LEMMA LayerNextInv == LayerInv /\ [OpponentLayerNext]_layerVars => LayerInv'
  <1> SUFFICES ASSUME LayerInv, [OpponentLayerNext]_layerVars PROVE LayerInv'
    OBVIOUS
  <1>1. ASSUME NEW movers \in MoverSets, NEW m \in SelectableOpponents(movers),
               LayerScanOpponent(m)
        PROVE  LayerInv'
    BY <1>1, SelectedIsAhead, ScanOpponentInv
  <1>2. CASE LayerScanEmpty
    <2>1. egoAge' \in 0..(MotionTimeout + 1)
      BY <1>2, OlderIsBounded DEF LayerScanEmpty, LayerInv
    <2> QED
      BY <1>2, <2>1 DEF LayerScanEmpty, LayerInv, OpponentLayerTypeOK, LatchIsEarned,
                        HysteresisIsEarned, NoOpponent, Silence, Stations
  <1>3. CASE DroppedScan
    <2>1. egoAge' \in 0..(MotionTimeout + 1)
      BY <1>3, OlderIsBounded DEF DroppedScan, LayerInv
    <2> QED
      BY <1>3, <2>1 DEF DroppedScan, LayerInv, OpponentLayerTypeOK, LatchIsEarned,
                        HysteresisIsEarned, Stations
  <1>4. CASE EgoOdometry
    <2>1. 0 \in 0..(MotionTimeout + 1)
      BY OpponentLayerAssumption
    <2> QED
      BY <1>4, <2>1 DEF EgoOdometry, LayerInv, OpponentLayerTypeOK, LatchIsEarned,
                        HysteresisIsEarned, Stations
  <1>5. CASE NewReference
    <2>1. 0 \in 0..(MotionTimeout + 1)
      BY OpponentLayerAssumption
    <2> QED
      BY <1>5, <2>1 DEF NewReference, LayerInv, OpponentLayerTypeOK, LatchIsEarned,
                        HysteresisIsEarned, Silence, Stations
  <1>6. CASE UNCHANGED layerVars
    BY <1>6 DEF layerVars, LayerInv, OpponentLayerTypeOK, LatchIsEarned,
                HysteresisIsEarned, Stations
  <1>7. CASE LayerScan
    BY <1>1, <1>2, <1>7 DEF LayerScan
  <1> QED
    BY <1>3, <1>4, <1>5, <1>6, <1>7 DEF OpponentLayerNext

LEMMA LayerInvariance == OpponentLayerSpec => []LayerInv
  <1>1. OpponentLayerInit => LayerInv
    BY LayerInitInv
  <1>2. LayerInv /\ [OpponentLayerNext]_layerVars => LayerInv'
    BY LayerNextInv
  <1> QED
    BY <1>1, <1>2, PTL DEF OpponentLayerSpec

-----------------------------------------------------------------------------
\* The station's age, the latch and the topic keep their types.
THEOREM LayerTypeCorrect == OpponentLayerSpec => []OpponentLayerTypeOK
  <1>1. LayerInv => OpponentLayerTypeOK
    BY DEF LayerInv
  <1> QED
    BY <1>1, LayerInvariance, PTL

\* Beyond the entry distance only the opponent that was flagged at every scan
\* since it was within it is flagged (isOpponentInterfering).
THEOREM HysteresisEarned == OpponentLayerSpec => []HysteresisIsEarned
  <1>1. LayerInv => HysteresisIsEarned
    BY DEF LayerInv
  <1> QED
    BY <1>1, LayerInvariance, PTL

\* Whatever is sent as the opponent is ahead of the car, in the nearer half of
\* the lap, by a station that is known and fresh (selectOpponent).
THEOREM OpponentAhead == OpponentLayerSpec => OpponentIsAhead
  <1> DEFINE Ahead ==
        (published' # published /\ published'.kind = "opponent") =>
          /\ egoS # NoStation /\ egoAge <= MotionTimeout
          /\ published'.ahead > 0 /\ 2 * published'.ahead < RingLength
  <1>1. ASSUME NEW movers \in MoverSets, NEW m \in SelectableOpponents(movers),
               LayerScanOpponent(m)
        PROVE  Ahead
    <2>1. CASE EgoFresh
      <3>1. published'.ahead = ForwardDistance(m.s, egoS)
        BY <1>1, <2>1 DEF LayerScanOpponent
      <3>2. egoS # NoStation /\ egoAge <= MotionTimeout /\ IsAhead(m.s)
        BY <2>1, SelectedIsAhead DEF EgoFresh
      <3> QED
        BY <3>1, <3>2 DEF IsAhead
    <2>2. CASE ~EgoFresh
      BY <1>1, <2>2 DEF LayerScanOpponent, Silence
    <2> QED
      BY <2>1, <2>2
  <1>2. ASSUME LayerScanEmpty PROVE Ahead
    <2>1. published' = NoOpponent \/ published' = Silence
      BY <1>2 DEF LayerScanEmpty
    <2>2. published'.kind # "opponent"
      BY <2>1 DEF NoOpponent, Silence
    <2> QED
      BY <2>2
  <1> HIDE DEF Ahead
  <1>3. [OpponentLayerNext]_layerVars => [Ahead]_layerVars
    <2> SUFFICES ASSUME OpponentLayerNext PROVE Ahead
      OBVIOUS
    <2>1. CASE LayerScan
      BY <1>1, <1>2, <2>1 DEF LayerScan
    <2>2. CASE DroppedScan \/ EgoOdometry
      BY <2>2 DEF DroppedScan, EgoOdometry, Ahead
    <2>3. CASE NewReference
      BY <2>3 DEF NewReference, Silence, Ahead
    <2> QED
      BY <2>1, <2>2, <2>3 DEF OpponentLayerNext
  <1> QED
    BY <1>3, PTL DEF OpponentLayerSpec, OpponentIsAhead, Ahead

\* The one that is sent as the opponent is the one in front, flagged for what it did.
THEOREM OpponentsAreEarned == OpponentLayerSpec => OpponentIsEarned
  BY HysteresisEarned, OpponentAhead, PTL DEF OpponentIsEarned

-----------------------------------------------------------------------------
(* The pose.  A frame counts the wheels from the end of the window, so that  *)
(* window, anchor and places have to be known to be of one time.             *)

\* What a frame's residuals are counted for, and what is true after a rejection.
Counted ==
  /\ init.validating => rated = Total(init) /\ Total(init) < ValidateFrames
  /\ ~init.validating => Total(init) = 0
  /\ refused => ~init.initialized /\ init.auto /\ sent \notin {"scan", "watchdog"}

\* Window and anchor are of one time; odometry or scan has gone on since.
Aligned ==
  /\ pending => scan # Never
  /\ hasOut => window # Never
  /\ window # Never => window = anchor
  /\ window # Never /\ window <= History =>
       \/ odom # Never /\ odom <= window
       \/ scan # Never /\ scan <= window /\ (pending => scan < window)

\* How far a place lies behind the end of the window.
Near(place) ==
  place # Unknown /\ window # Never /\ window <= History => place - window \in 0..Clamp

Placed ==
  /\ seed >= 0 /\ out >= 0
  /\ Near(seed) /\ Near(out)
  /\ window = Never \/ init.validating => out = Unknown
  /\ window = Never /\ pending /\ seed # Unknown => seed - scan >= -Late

LocInv == LocalizationTypeOK /\ Counted /\ Aligned /\ Placed /\ MotionIsCountedOnce
-----------------------------------------------------------------------------
\* Where the wheels are known to have been, they are off by the clamp at most.
LEMMA OdomReach ==
  ASSUME LocalizationTypeOK, NEW age \in Nat, age <= History, OdomAt(age) # Never
  PROVE  /\ odom \in Nat /\ odom - age <= Clamp
         /\ OdomAt(age) = IF age < odom THEN odom ELSE age
  BY LocalizationAssumption DEF LocalizationTypeOK, OdomAt, Ages, Never

\* A prediction does not fall behind by more than the clamp and not ahead at all.
LEMMA PredictionLag ==
  ASSUME LocalizationTypeOK, Aligned, pending, window # Never, HasOdometry(scan),
         NEW place \in Places, Near(place), Predicted(place, scan) # Unknown
  PROVE  /\ place # Unknown /\ place - window \in 0..Clamp
         /\ Predicted(place, scan) - scan \in (place - window)..(place - window + Clamp)
  <1>1. window \in Nat /\ scan \in Nat /\ Clamp \in Nat /\ History \in Nat /\ place \in Int
    BY LocalizationAssumption DEF LocalizationTypeOK, Aligned, Ages, Never, Places, Unknown, Oldest
  <1>2. /\ place # Unknown /\ window <= History /\ scan <= History
        /\ Predicted(place, scan) = place - (OdomAt(window) - OdomAt(scan))
    BY <1>1 DEF Predicted, Begin, Moved
  <1>3. place - window \in 0..Clamp
    BY <1>2 DEF Near
  <1>4. OdomAt(window) # Never /\ OdomAt(scan) # Never
    BY DEF HasOdometry, Begin
  <1>5. /\ odom \in Nat /\ odom - window <= Clamp /\ odom - scan <= Clamp
        /\ OdomAt(window) = IF window < odom THEN odom ELSE window
        /\ OdomAt(scan) = IF scan < odom THEN odom ELSE scan
    BY <1>1, <1>2, <1>4, OdomReach
  <1>6. odom <= window \/ scan < window
    BY <1>2 DEF Aligned
  <1> QED
    BY <1>1, <1>2, <1>3, <1>5, <1>6

\* The output stays within the clamp of the car, by halves.
LEMMA SmoothedLag ==
  ASSUME LocInv, pending, HasOdometry(scan), ~init.validating \/ out = Unknown,
         NEW estimate \in {scan, Unknown}, NEW place \in Smoothed(scan, estimate)
  PROVE  place = Unknown \/ place \in scan..(scan + Clamp)
  <1>1. scan \in Nat /\ Clamp \in Nat
    BY LocalizationAssumption DEF LocInv, LocalizationTypeOK, Aligned, Ages, Never
  <1>2. CASE ~hasOut
    BY <1>1, <1>2 DEF Smoothed
  <1>3. CASE hasOut /\ estimate = Unknown
    BY <1>3 DEF Smoothed
  <1>4. CASE hasOut /\ estimate # Unknown /\ Predicted(out, scan) = Unknown
    <2>1. place = Unknown \/ place \in scan..(scan + Clamp)
      BY <1>4 DEF Smoothed
    <2> QED
      BY <2>1, <1>1
  <1>5. CASE hasOut /\ estimate # Unknown /\ Predicted(out, scan) # Unknown
    <2>1. place = scan + (Predicted(out, scan) - scan + 1) \div 2
      BY <1>5 DEF Smoothed
    <2>2. window # Never /\ Near(out) /\ out \in Places
      BY <1>5 DEF LocInv, Aligned, Placed, LocalizationTypeOK
    <2>3. out - window \in 0..Clamp /\ Predicted(out, scan) - scan \in (out - window)..(out - window + Clamp)
      BY <1>5, <2>2, PredictionLag DEF LocInv
    <2>4. Predicted(out, scan) - scan \in 0..(2 * Clamp)
      BY <2>3, <1>1
    <2> DEFINE lag == Predicted(out, scan) - scan
    <2>5. (lag + 1) \div 2 \in 0..Clamp
      <3> HIDE DEF lag
      <3> QED BY <2>4, <1>1 DEF lag
    <2> QED
      BY <2>1, <2>5, <1>1
  <1> QED
    BY <1>2, <1>3, <1>4, <1>5

-----------------------------------------------------------------------------
\* A record of what a pose went through, and what an update of it leaves alone.
LEMMA InitRecord ==
  ASSUME NEW a \in BOOLEAN, NEW b \in BOOLEAN, NEW c \in BOOLEAN, NEW d \in BOOLEAN,
         NEW e \in 0..ValidateFrames, NEW f \in 0..ValidateFrames
  PROVE  [initialized |-> a, manual |-> b, auto |-> c, validating |-> d,
          good |-> e, bad |-> f] \in Inits
  BY DEF Inits

LEMMA LocInitInv == LocalizationInit => LocInv
  <1> SUFFICES ASSUME LocalizationInit PROVE LocInv
    OBVIOUS
  <1>1. LocalizationTypeOK
    <2>1. 0 \in 0..ValidateFrames
      BY LocalizationAssumption
    <2>2. init \in Inits
      BY <2>1, InitRecord DEF LocalizationInit
    <2>3. Oldest \in Nat
      BY LocalizationAssumption DEF Oldest
    <2>4. /\ {scan, odom, window, anchor, processed} \subseteq Ages
          /\ seed \in Places /\ out \in Places
      BY <2>3 DEF LocalizationInit, Ages, Places, Unknown, Never
    <2>5. /\ pending \in BOOLEAN /\ hasOut \in BOOLEAN /\ refused \in BOOLEAN
          /\ sent \in Events /\ rated = 0
      BY DEF LocalizationInit, Events
    <2> QED
      BY <2>1, <2>2, <2>4, <2>5 DEF LocalizationTypeOK
  <1>2. Counted /\ MotionIsCountedOnce
    BY LocalizationAssumption DEF LocalizationInit, Counted, Total, MotionIsCountedOnce, NoMiss
  <1>3. Aligned /\ Placed
    BY LocalizationAssumption DEF LocalizationInit, Aligned, Placed, Near, Unknown, Oldest
  <1> QED
    BY <1>1, <1>2, <1>3 DEF LocInv

\* The pose begins a new window; what was judged or refused is not touched by it.
LEMMA PoseGiven ==
  ASSUME LocInv, NEW right \in BOOLEAN, ApplyInitialPose(right)
  PROVE  /\ Aligned' /\ MotionIsCountedOnce'
         /\ seed' \in Places /\ seed' >= 0 /\ out' = Unknown /\ window' = Never /\ pending' = FALSE
         /\ {scan', odom', window', anchor', processed'} \subseteq Ages
         /\ hasOut' = FALSE /\ sent' = "nothing" /\ rated' = 0
  BY LocalizationAssumption
     DEF LocInv, LocalizationTypeOK, ApplyInitialPose, Aligned, MotionIsCountedOnce, NoMiss,
         Ages, Places, Unknown, Oldest, Never

LEMMA InitialPoseInv == LocInv /\ OnInitialPose => LocInv'
  <1> SUFFICES ASSUME LocInv, NEW right \in BOOLEAN, ApplyInitialPose(right),
                      init' = [init EXCEPT !.initialized = TRUE, !.manual = TRUE,
                                           !.good = 0, !.bad = 0],
                      refused' = FALSE
               PROVE  LocInv'
    BY DEF OnInitialPose
  <1>0. /\ Aligned' /\ MotionIsCountedOnce'
        /\ seed' \in Places /\ seed' >= 0 /\ out' = Unknown /\ window' = Never /\ pending' = FALSE
        /\ {scan', odom', window', anchor', processed'} \subseteq Ages
        /\ hasOut' = FALSE /\ sent' = "nothing" /\ rated' = 0
    BY PoseGiven
  <1>1. LocalizationTypeOK'
    <2>1. init' \in Inits
      <3>1. init' = [initialized |-> TRUE, manual |-> TRUE, auto |-> init.auto,
                     validating |-> init.validating, good |-> 0, bad |-> 0]
        BY DEF LocInv, LocalizationTypeOK, Inits
      <3>2. init.manual \in BOOLEAN /\ init.auto \in BOOLEAN /\ init.validating \in BOOLEAN
        BY DEF LocInv, LocalizationTypeOK, Inits
      <3>3. 0 \in 0..ValidateFrames
        BY LocalizationAssumption
      <3> QED
        BY ONLY <3>1, <3>2, <3>3, InitRecord
    <2>2. seed' \in Places /\ out' \in Places /\ rated' \in 0..ValidateFrames
      BY <1>0, LocalizationAssumption DEF Places, Unknown, Oldest
    <2>3. refused' \in BOOLEAN
      BY DEF LocInv, LocalizationTypeOK
    <2> QED
      BY <1>0, <2>1, <2>2, <2>3 DEF LocInv, LocalizationTypeOK, Events
  <1>2. Counted'
    BY <1>0, LocalizationAssumption DEF LocInv, LocalizationTypeOK, Inits, Counted, Total
  <1>3. Placed'
    BY <1>0, LocalizationAssumption DEF Placed, Near, Unknown, Oldest
  <1> QED
    BY <1>0, <1>1, <1>2, <1>3 DEF LocInv

LEMMA GlobalWaypointsInv == LocInv /\ OnGlobalWaypoints => LocInv'
  <1> SUFFICES ASSUME LocInv, ~init.auto, NEW right \in BOOLEAN, ApplyInitialPose(right),
                      init' = [init EXCEPT !.initialized = TRUE, !.auto = TRUE,
                                           !.validating = TRUE, !.good = 0, !.bad = 0],
                      UNCHANGED refused
               PROVE  LocInv'
    BY DEF OnGlobalWaypoints
  <1>0. /\ Aligned' /\ MotionIsCountedOnce'
        /\ seed' \in Places /\ seed' >= 0 /\ out' = Unknown /\ window' = Never /\ pending' = FALSE
        /\ {scan', odom', window', anchor', processed'} \subseteq Ages
        /\ hasOut' = FALSE /\ sent' = "nothing" /\ rated' = 0
    BY PoseGiven
  <1>1. LocalizationTypeOK'
    <2>1. init' \in Inits
      <3>1. init' = [initialized |-> TRUE, manual |-> init.manual, auto |-> TRUE,
                     validating |-> TRUE, good |-> 0, bad |-> 0]
        BY DEF LocInv, LocalizationTypeOK, Inits
      <3>2. init.manual \in BOOLEAN /\ init.auto \in BOOLEAN /\ init.validating \in BOOLEAN
        BY DEF LocInv, LocalizationTypeOK, Inits
      <3>3. 0 \in 0..ValidateFrames
        BY LocalizationAssumption
      <3> QED
        BY ONLY <3>1, <3>2, <3>3, InitRecord
    <2>2. seed' \in Places /\ out' \in Places /\ rated' \in 0..ValidateFrames
      BY <1>0, LocalizationAssumption DEF Places, Unknown, Oldest
    <2>3. refused' \in BOOLEAN
      BY DEF LocInv, LocalizationTypeOK
    <2> QED
      BY <1>0, <2>1, <2>2, <2>3 DEF LocInv, LocalizationTypeOK, Events
  <1>2. Counted'
    BY <1>0, LocalizationAssumption DEF LocInv, LocalizationTypeOK, Inits, Counted, Total
  <1>3. Placed'
    BY <1>0, LocalizationAssumption DEF Placed, Near, Unknown, Oldest
  <1> QED
    BY <1>0, <1>1, <1>2, <1>3 DEF LocInv

LEMMA OdomInv == LocInv /\ OnOdom => LocInv'
  <1> SUFFICES ASSUME LocInv, OnOdom PROVE LocInv'
    OBVIOUS
  <1>1. odom' \in Nat /\ odom' \in Ages /\ (odom = Never \/ odom' < odom)
    <2>1. odom' \in 0..Late /\ Late \in Nat /\ Late <= Oldest /\ Oldest \in Nat
          /\ (odom = Never \/ odom' < odom)
      BY LocalizationAssumption DEF OnOdom, LocInv, LocalizationTypeOK, Ages, Oldest
    <2> QED
      BY <2>1 DEF Ages, Never
  <1>2. LocalizationTypeOK'
    BY <1>1 DEF OnOdom, LocInv, LocalizationTypeOK, places, Places, Unknown, Events
  <1>3. Counted'
    BY DEF OnOdom, LocInv, Counted, Total
  <1>4. Aligned'
    BY <1>1, LocalizationAssumption
       DEF OnOdom, LocInv, LocalizationTypeOK, Aligned, places, Ages, Never
  <1>5. Placed'
    BY DEF OnOdom, LocInv, Placed, Near, places
  <1>6. MotionIsCountedOnce'
    BY LocalizationAssumption DEF OnOdom, MotionIsCountedOnce, NoMiss
  <1> QED
    BY <1>2, <1>3, <1>4, <1>5, <1>6 DEF LocInv

\* Time: what is compared below the end of the history ages together.
LEMMA ElapseInv == LocInv /\ Elapse => LocInv'
  <1> SUFFICES ASSUME LocInv, Elapse PROVE LocInv'
    OBVIOUS
  <1>1. /\ {scan, odom, window, anchor, processed} \subseteq Never..Oldest
        /\ Clamp \in Nat /\ History \in Nat /\ Oldest = History + 3 * Clamp + 1
        /\ seed \in Places /\ out \in Places /\ Late \in Nat /\ MaxDead \in Nat
    BY LocalizationAssumption DEF LocInv, LocalizationTypeOK, Ages, Oldest
  <1>2. {scan', odom', window', anchor', processed'} \subseteq Never..Oldest
    BY <1>1 DEF Elapse, Ageing, Never
  <1>3. LocalizationTypeOK'
    BY <1>1, <1>2 DEF Elapse, LocInv, LocalizationTypeOK, Ages, Places, Unknown, Events
  <1>4. Counted'
    BY DEF Elapse, LocInv, Counted, Total
  <1>5. Aligned'
    BY <1>1 DEF Elapse, LocInv, Aligned, Ageing, Never
  <1>6. Placed'
    <2>1. seed' >= 0 /\ out' >= 0
      BY <1>1 DEF Elapse, LocInv, Placed, Places, Unknown
    <2>2. ASSUME NEW p \in Places, p >= 0, Near(p), NEW q,
                 q = IF p < Oldest THEN p + 1 ELSE p, q # Unknown,
                 window' # Never, window' <= History
          PROVE  q - window' \in 0..Clamp
      <3>1. window \in Nat /\ window + 1 = window' /\ p # Unknown
        BY <1>1, <2>2 DEF Elapse, Ageing, Never, Places, Unknown
      <3> QED
        BY <1>1, <2>2, <3>1 DEF Near, Places, Unknown, Never
    <2>3. Near(seed)' /\ Near(out)'
      BY <1>1, <2>2 DEF Elapse, LocInv, Placed, Near
    <2>4. window' = Never \/ init'.validating => out' = Unknown
      BY <1>1 DEF Elapse, LocInv, Placed, Ageing, Never, Unknown
    <2>5. window' = Never /\ pending' /\ seed' # Unknown => seed' - scan' >= -Late
      BY <1>1 DEF Elapse, LocInv, Placed, Aligned, Ageing, Never, Unknown, Places
    <2> QED
      BY <2>1, <2>3, <2>4, <2>5 DEF Placed
  <1>7. MotionIsCountedOnce'
    BY LocalizationAssumption DEF Elapse, MotionIsCountedOnce, NoMiss
  <1> QED
    BY <1>3, <1>4, <1>5, <1>6, <1>7 DEF LocInv
-----------------------------------------------------------------------------
(* A scan.                                                                   *)

\* The newest scan is younger than the one before, and no window reaches it.
LEMMA ArrivalAlignment ==
  ASSUME LocInv, Arrives(scan')
  PROVE  scan' \in Nat /\ scan' \in Ages /\ scan' <= Late /\ (scan = Never \/ scan' < scan)
  <1>1. /\ scan' \in 0..Late /\ Late \in Nat /\ Late <= Oldest /\ Oldest \in Nat
        /\ (scan = Never \/ scan' < scan)
    BY LocalizationAssumption DEF Arrives, Oldest
  <1> QED
    BY <1>1 DEF Ages, Never

LEMMA FirstScanInv ==
  ASSUME LocInv, Arrives(scan'), pending' = TRUE, odom' = odom, ~pending, sent' = "nothing",
         miss' = NoMiss, UNCHANGED <<init, window, anchor, processed, places, rated, refused>>
  PROVE  LocInv'
  <1>1. scan' \in Nat /\ scan' \in Ages /\ scan' <= Late /\ (scan = Never \/ scan' < scan)
    BY ArrivalAlignment
  <1>2. LocalizationTypeOK'
    BY <1>1 DEF LocInv, LocalizationTypeOK, places, Events
  <1>3. Counted'
    BY DEF LocInv, Counted, Total
  <1>4. Aligned'
    BY <1>1 DEF LocInv, LocalizationTypeOK, Aligned, places, Ages, Never
  <1>5. Placed'
    BY <1>1, LocalizationAssumption
       DEF LocInv, LocalizationTypeOK, Placed, Near, places, Places, Unknown, Never
  <1>6. MotionIsCountedOnce'
    BY LocalizationAssumption DEF MotionIsCountedOnce, NoMiss
  <1> QED
    BY <1>2, <1>3, <1>4, <1>5, <1>6 DEF LocInv

\* The window ends at the scan that was processed, and a younger scan waits.
LEMMA WindowMovesOn ==
  ASSUME LocInv, pending, pending' = TRUE, odom' = odom, Arrives(scan'), WindowMoves(scan),
         seed' \in {scan, Unknown},
         out' = Unknown \/ (scan <= History + Clamp /\ out' \in scan..(scan + Clamp)),
         init'.validating => out' = Unknown
  PROVE  /\ Aligned' /\ Placed' /\ seed' \in Places /\ out' \in Places
         /\ {scan', odom', window', anchor'} \subseteq Ages
  <1>1. scan' \in Nat /\ scan' \in Ages /\ scan' <= Late /\ (scan = Never \/ scan' < scan)
    BY ArrivalAlignment
  <1>2. /\ scan \in Nat /\ scan \in Ages /\ odom \in Ages /\ scan <= Oldest
        /\ window' = scan /\ anchor' = scan /\ Oldest \in Nat /\ Clamp \in Nat
    BY LocalizationAssumption
       DEF LocInv, LocalizationTypeOK, Aligned, Ages, Never, WindowMoves, Oldest
  <1>3. scan' < scan
    BY <1>1, <1>2 DEF Never
  <1>4. Aligned'
    BY <1>1, <1>2, <1>3 DEF Aligned, Never
  <1>5. out' # Unknown =>
         out' \in Int /\ out' >= 0 /\ out' <= Oldest /\ out' - scan \in 0..Clamp
    BY <1>2, LocalizationAssumption DEF Oldest
  <1>6. seed' >= 0 /\ out' >= 0
    BY <1>2, <1>5 DEF Unknown
  <1>7. Near(seed)' /\ Near(out)'
    <2>1. seed' # Unknown => seed' - window' \in 0..Clamp
      <3>1. seed' # Unknown => seed' = scan
        OBVIOUS
      <3> QED
        BY <3>1, <1>2
    <2>2. out' # Unknown => out' - window' \in 0..Clamp
      BY <1>2, <1>5
    <2> QED
      BY <2>1, <2>2 DEF Near, Unknown, Oldest
  <1>8. Placed'
    BY <1>2, <1>6, <1>7 DEF Placed, Never
  <1>9. seed' \in Places /\ out' \in Places
    BY <1>2, <1>5 DEF Places, Unknown
  <1> QED
    BY <1>1, <1>2, <1>4, <1>8, <1>9
\* What a frame's residual makes of the judgement, and what the judgement is reset to.
LEMMA RatedRecord ==
  ASSUME LocInv, NEW residual \in {"none", "good", "bad"},
         rated' = IF residual = "none" \/ rated = ValidateFrames THEN rated ELSE rated + 1,
         NEW judged, judged = Rated(residual), NEW reset, reset = Judged(judged)
  PROVE  /\ rated' \in 0..ValidateFrames
         /\ init.validating => judged \in Inits /\ judged.validating /\ Total(judged) = rated'
         /\ judged.initialized = init.initialized /\ judged.manual = init.manual
         /\ judged.auto = init.auto /\ judged.validating = init.validating
         /\ reset \in Inits /\ Total(reset) = 0
         /\ reset = [initialized |-> init.initialized, manual |-> init.manual,
                     auto |-> init.auto, validating |-> FALSE, good |-> 0, bad |-> 0]
  <1>1. /\ ValidateFrames \in Nat /\ ValidateFrames > 0 /\ rated \in 0..ValidateFrames
        /\ init \in Inits
        /\ init.validating => rated = init.good + init.bad /\ rated < ValidateFrames
    BY LocalizationAssumption DEF LocInv, LocalizationTypeOK, Counted, Total
  <1>2. rated' \in 0..ValidateFrames
    BY <1>1
  <1>3. /\ init.initialized \in BOOLEAN /\ init.manual \in BOOLEAN /\ init.auto \in BOOLEAN
        /\ init.validating \in BOOLEAN /\ init.good \in 0..ValidateFrames
        /\ init.bad \in 0..ValidateFrames
    BY <1>1 DEF Inits
  <1>4. /\ judged.initialized = init.initialized /\ judged.manual = init.manual
        /\ judged.auto = init.auto /\ judged.validating = init.validating
        /\ judged.good = IF residual = "good" THEN init.good + 1 ELSE init.good
        /\ judged.bad = IF residual = "bad" THEN init.bad + 1 ELSE init.bad
        /\ judged = [initialized |-> judged.initialized, manual |-> judged.manual,
                     auto |-> judged.auto, validating |-> judged.validating,
                     good |-> judged.good, bad |-> judged.bad]
    BY <1>1 DEF Rated, Inits
  <1>5. ASSUME init.validating
        PROVE  judged \in Inits /\ judged.validating /\ judged.good + judged.bad = rated'
    <2>1. /\ judged.good \in 0..ValidateFrames /\ judged.bad \in 0..ValidateFrames
          /\ judged.good + judged.bad = rated'
      BY <1>1, <1>3, <1>4, <1>5
    <2>2. judged \in Inits
      BY <1>3, <1>4, <2>1, InitRecord
    <2> QED
      BY <1>4, <1>5, <2>1, <2>2
  <1>6. reset = [initialized |-> init.initialized, manual |-> init.manual,
                          auto |-> init.auto, validating |-> FALSE, good |-> 0, bad |-> 0]
    <2>1. judged \in [initialized : BOOLEAN, manual : BOOLEAN, auto : BOOLEAN,
                      validating : BOOLEAN, good : Nat, bad : Nat]
      BY <1>1, <1>3, <1>4
    <2>2. reset = [initialized |-> judged.initialized, manual |-> judged.manual,
                            auto |-> judged.auto, validating |-> FALSE, good |-> 0, bad |-> 0]
      BY <2>1 DEF Judged
    <2> QED
      BY ONLY <2>2, <1>4
  <1>7. reset \in Inits
    <2>1. 0 \in 0..ValidateFrames
      BY <1>1
    <2>2. FALSE \in BOOLEAN
      OBVIOUS
    <2> QED
      BY ONLY <1>3, <1>6, <2>1, <2>2, InitRecord
  <1>8. Total(reset) = 0
    BY <1>6 DEF Total
  <1> QED
    BY <1>2, <1>4, <1>5, <1>6, <1>7, <1>8 DEF Total
\* A frame without odometry at both ends, and one that is not finite.
LEMMA UnregisteredInv ==
  ASSUME LocInv, pending, pending' = TRUE, odom' = odom, Arrives(scan'), init.initialized,
         WindowMoves(scan), Unregistered(scan) \/ NonFinite(scan)
  PROVE  LocInv'
  <1>1. /\ seed' = Unknown /\ out' = Unknown /\ miss' = NoMiss /\ sent' \in Events
        /\ UNCHANGED <<init, rated, refused>> /\ processed' \in {0, processed}
        /\ hasOut' \in {TRUE, hasOut}
    BY DEF Unregistered, NonFinite, Publish, Events
  <1>2. Aligned' /\ Placed' /\ seed' \in Places /\ out' \in Places
        /\ {scan', odom', window', anchor'} \subseteq Ages
    BY <1>1, WindowMovesOn
  <1>3. processed' \in Ages
    <2>1. Oldest \in Nat
      BY LocalizationAssumption DEF Oldest
    <2> QED
      BY <1>1, <2>1 DEF LocInv, LocalizationTypeOK, Ages, Never
  <1>4. LocalizationTypeOK'
    BY <1>1, <1>2, <1>3 DEF LocInv, LocalizationTypeOK
  <1>5. Counted'
    BY <1>1 DEF LocInv, Counted, Total
  <1>6. MotionIsCountedOnce'
    BY <1>1, LocalizationAssumption DEF MotionIsCountedOnce, NoMiss
  <1> QED
    BY <1>2, <1>4, <1>5, <1>6 DEF LocInv

\* How far off a prediction is: as far as a frame fell behind, or as a pose was late.
LEMMA MissBounded ==
  ASSUME LocInv, pending, HasOdometry(scan),
         miss' = IF Predicted(seed, scan) = Unknown THEN NoMiss
                 ELSE [first |-> window = Never, behind |-> Predicted(seed, scan) - scan]
  PROVE  MotionIsCountedOnce'
  <1>1. /\ scan \in Nat /\ Clamp \in Nat /\ Basin \in Nat /\ Late \in Nat /\ History \in Nat
        /\ 2 * Clamp <= Basin
    BY LocalizationAssumption DEF LocInv, LocalizationTypeOK, Aligned, Ages, Never
  <1>2. CASE Predicted(seed, scan) = Unknown
    BY <1>1, <1>2 DEF MotionIsCountedOnce, NoMiss
  <1>3. CASE Predicted(seed, scan) # Unknown /\ window # Never
    <2>1. seed - window \in 0..Clamp
          /\ Predicted(seed, scan) - scan \in (seed - window)..(seed - window + Clamp)
      BY <1>3, PredictionLag DEF LocInv, LocalizationTypeOK, Placed
    <2>2. Predicted(seed, scan) - scan \in 0..Basin
      BY <2>1, <1>1
    <2> QED
      BY <2>2, <1>3 DEF MotionIsCountedOnce
  <1>4. CASE Predicted(seed, scan) # Unknown /\ window = Never
    <2>1. seed # Unknown /\ seed \in Int
          /\ Predicted(seed, scan) = seed - (OdomAt(scan) - OdomAt(scan))
      BY <1>4, LocalizationAssumption
         DEF Predicted, Begin, Moved, LocInv, LocalizationTypeOK, Places, Unknown, Oldest
    <2>2. OdomAt(scan) \in Int
      BY <1>1, LocalizationAssumption
         DEF OdomAt, LocInv, LocalizationTypeOK, Ages, Never, Oldest
    <2>3. Predicted(seed, scan) - scan >= -Late
      BY <2>1, <2>2, <1>4, <1>1 DEF LocInv, Placed
    <2> QED
      BY <2>3, <1>4 DEF MotionIsCountedOnce
  <1> QED
    BY <1>2, <1>3, <1>4

LEMMA RegisteredInv ==
  ASSUME LocInv, pending, pending' = TRUE, odom' = odom, Arrives(scan'), init.initialized,
         WindowMoves(scan), Registered(scan)
  PROVE  LocInv'
  <1>1. MotionIsCountedOnce'
    BY MissBounded DEF Registered
  <1>2. PICK estimate \in Estimates(scan), residual \in {"none", "good", "bad"} :
          /\ seed' = estimate
          /\ rated' = IF residual = "none" \/ rated = ValidateFrames THEN rated ELSE rated + 1
          /\ \/ Held(Rated(residual)) \/ Rejected(Rated(residual))
             \/ Accepted(scan, Rated(residual), estimate)
    BY DEF Registered
  <1>a. PICK judged : judged = Rated(residual)
    OBVIOUS
  <1>b. PICK reset : reset = Judged(judged)
    OBVIOUS
  <1>3. /\ rated' \in 0..ValidateFrames
        /\ init.validating => judged \in Inits /\ judged.validating /\ Total(judged) = rated'
        /\ judged.initialized = init.initialized /\ judged.manual = init.manual
        /\ judged.auto = init.auto /\ judged.validating = init.validating
        /\ reset \in Inits /\ Total(reset) = 0
        /\ reset = [initialized |-> init.initialized, manual |-> init.manual,
                    auto |-> init.auto, validating |-> FALSE, good |-> 0, bad |-> 0]
    BY <1>2, <1>a, <1>b, RatedRecord
  <1>4. Held(judged) \/ Rejected(judged) \/ Accepted(scan, judged, estimate)
    BY <1>2, <1>a
  <1>5. HasOdometry(scan) /\ seed' \in {scan, Unknown} /\ estimate \in {scan, Unknown}
    BY <1>2 DEF Registered, Estimates
  <1>6. init \in Inits /\ ~refused /\ init.validating \in BOOLEAN
    BY DEF LocInv, LocalizationTypeOK, Counted, Inits
  <1>7. 0 \in Ages /\ processed \in Ages
    BY LocalizationAssumption DEF LocInv, LocalizationTypeOK, Ages, Never, Oldest
  <1>8. CASE Held(judged)
    <2>1. /\ init.validating /\ Total(judged) < ValidateFrames /\ init' = judged
          /\ sent' = "held" /\ UNCHANGED <<out, hasOut, processed, refused>>
      BY <1>8 DEF Held
    <2>2. out' = Unknown
      BY <2>1 DEF LocInv, Placed
    <2>3. /\ Aligned' /\ Placed' /\ seed' \in Places /\ out' \in Places
          /\ {scan', odom', window', anchor'} \subseteq Ages
      BY <1>5, <2>2, WindowMovesOn
    <2>4. Counted'
      BY <1>3, <1>6, <2>1 DEF Counted
    <2>5. LocalizationTypeOK'
      BY <1>3, <1>7, <2>1, <2>3 DEF LocInv, LocalizationTypeOK, Events
    <2> QED
      BY <1>1, <2>3, <2>4, <2>5 DEF LocInv
  <1>9. CASE Rejected(judged)
    <2>1. /\ init.validating /\ init' = [reset EXCEPT !.initialized = FALSE, !.auto = TRUE]
          /\ hasOut' = FALSE /\ sent' = "refused" /\ refused' = TRUE
          /\ UNCHANGED <<out, processed>>
      BY <1>9, <1>b DEF Rejected
    <2>2. out' = Unknown
      BY <2>1 DEF LocInv, Placed
    <2>3. /\ Aligned' /\ Placed' /\ seed' \in Places /\ out' \in Places
          /\ {scan', odom', window', anchor'} \subseteq Ages
      BY <1>5, <2>2, WindowMovesOn
    <2>4. init' = [initialized |-> FALSE, manual |-> init.manual, auto |-> TRUE,
                   validating |-> FALSE, good |-> 0, bad |-> 0]
      <3>1. init' = [initialized |-> FALSE, manual |-> reset.manual, auto |-> TRUE,
                     validating |-> reset.validating, good |-> reset.good, bad |-> reset.bad]
        BY <1>3, <2>1 DEF Inits
      <3>2. /\ reset.manual = init.manual /\ reset.validating = FALSE
            /\ reset.good = 0 /\ reset.bad = 0
        BY <1>3
      <3> QED
        BY ONLY <3>1, <3>2
    <2>5. init' \in Inits
      <3>1. FALSE \in BOOLEAN /\ TRUE \in BOOLEAN /\ init.manual \in BOOLEAN
            /\ 0 \in 0..ValidateFrames
        BY <1>6, LocalizationAssumption DEF Inits
      <3> QED
        BY ONLY <2>4, <3>1, InitRecord
    <2>6. Counted'
      <3>1. /\ init'.initialized = FALSE /\ init'.auto = TRUE /\ init'.validating = FALSE
            /\ init'.good = 0 /\ init'.bad = 0
        BY <2>4
      <3> QED
        BY <2>1, <3>1 DEF Counted, Total
    <2>7. LocalizationTypeOK'
      BY <1>3, <1>7, <2>1, <2>3, <2>5 DEF LocInv, LocalizationTypeOK, Events
    <2> QED
      BY <1>1, <2>3, <2>6, <2>7 DEF LocInv
  <1>10. CASE Accepted(scan, judged, estimate)
    <2>1. /\ init' = IF init.validating THEN reset ELSE init
          /\ out' \in Smoothed(scan, estimate) /\ hasOut' = TRUE
          /\ processed' = 0 /\ sent' = "scan" /\ UNCHANGED refused
      BY <1>10, <1>b DEF Accepted, Publish
    <2>2. out' = Unknown \/ out' \in scan..(scan + Clamp)
      <3>1. ~init.validating \/ out = Unknown
        BY DEF LocInv, Placed
      <3> QED
        BY <1>5, <2>1, <3>1, SmoothedLag
    <2>3. ~init'.validating /\ init' \in Inits /\ Total(init') = 0
      BY <1>3, <1>6, <2>1 DEF LocInv, Counted
    <2>4. scan <= History + Clamp
      <3>1. scan \in Nat
        BY DEF LocInv, LocalizationTypeOK, Aligned, Ages, Never
      <3> QED
        BY <1>5, <3>1, LocalizationAssumption DEF HasOdometry, OdomAt
    <2>5. out' = Unknown \/ (scan <= History + Clamp /\ out' \in scan..(scan + Clamp))
      BY <2>2, <2>4
    <2>6. /\ Aligned' /\ Placed' /\ seed' \in Places /\ out' \in Places
          /\ {scan', odom', window', anchor'} \subseteq Ages
      BY <1>5, <2>3, <2>5, WindowMovesOn
    <2>7. Counted'
      BY <1>6, <2>1, <2>3 DEF Counted
    <2>8. LocalizationTypeOK'
      BY <1>3, <1>6, <1>7, <2>1, <2>3, <2>6 DEF LocInv, LocalizationTypeOK, Events
    <2> QED
      BY <1>1, <2>6, <2>7, <2>8 DEF LocInv
  <1> QED
    BY <1>4, <1>8, <1>9, <1>10
LEMMA ScanInv == LocInv /\ OnScan => LocInv'
  <1> SUFFICES ASSUME LocInv, OnScan PROVE LocInv'
    OBVIOUS
  <1>1. init.initialized /\ Arrives(scan') /\ pending' = TRUE /\ odom' = odom
    BY DEF OnScan
  <1>2. CASE pending /\ ProcessScan(scan)
    BY <1>1, <1>2, UnregisteredInv, RegisteredInv DEF ProcessScan
  <1>3. CASE /\ ~pending /\ sent' = "nothing" /\ miss' = NoMiss
             /\ UNCHANGED <<init, window, anchor, processed, places, rated, refused>>
    BY <1>1, <1>3, FirstScanInv
  <1> QED
    BY <1>2, <1>3 DEF OnScan

\* The watchdog moves output, seed and window on by the same odometry.
LEMMA WatchdogInv == LocInv /\ OnWatchdog => LocInv'
  <1> SUFFICES ASSUME LocInv, OnWatchdog PROVE LocInv'
    OBVIOUS
  <1>1. /\ init.initialized /\ hasOut /\ odom # Never /\ odom < anchor /\ OdomAt(anchor) # Never
        /\ out' = Moved(out, anchor, odom) /\ seed' = out'
        /\ anchor' = odom /\ window' = odom /\ pending' = FALSE /\ sent' = "watchdog"
        /\ miss' = NoMiss /\ UNCHANGED <<init, scan, odom, processed, hasOut, rated, refused>>
    BY DEF OnWatchdog, Reseed
  <1>2. /\ Clamp \in Nat /\ History \in Nat /\ Oldest \in Nat /\ Oldest = History + 3 * Clamp + 1
        /\ odom \in Nat /\ odom <= Oldest /\ out \in Places /\ out >= 0
        /\ anchor = window /\ window \in Nat
    BY <1>1, LocalizationAssumption
       DEF LocInv, LocalizationTypeOK, Aligned, Placed, Ages, Never, Oldest
  <1>3. out' # Unknown => out' \in Int /\ out' - odom \in 0..Clamp
    <2> SUFFICES ASSUME out' # Unknown PROVE out' \in Int /\ out' - odom \in 0..Clamp
      OBVIOUS
    <2>1. /\ out # Unknown /\ window <= History /\ odom <= History
          /\ out' = out - (OdomAt(window) - OdomAt(odom))
      BY <1>1, <1>2 DEF Moved
    <2>2. OdomAt(window) = window /\ OdomAt(odom) = odom
      BY <1>1, <1>2, <2>1 DEF OdomAt, Never
    <2>3. out - window \in 0..Clamp /\ out \in Int
      BY <1>2, <2>1 DEF LocInv, Placed, Near, Never, Places, Unknown
    <2> QED
      BY <1>2, <2>1, <2>2, <2>3
  <1>4. /\ out' \in Places /\ out' >= 0
        /\ window' <= History /\ out' # Unknown => out' - window' \in 0..Clamp
    BY <1>1, <1>2, <1>3 DEF Moved, Places, Unknown
  <1>5. LocalizationTypeOK'
    BY <1>1, <1>2, <1>4 DEF LocInv, LocalizationTypeOK, Events
  <1>6. Counted'
    BY <1>1 DEF LocInv, Counted, Total
  <1>7. Aligned'
    BY <1>1, <1>2 DEF LocInv, Aligned, Never
  <1>8. Placed'
    <2>1. init.validating => out' = Unknown
      BY <1>1 DEF LocInv, Placed, Moved
    <2> QED
      BY <1>1, <1>2, <1>4, <2>1 DEF Placed, Near, Never
  <1>9. MotionIsCountedOnce'
    BY <1>1, LocalizationAssumption DEF MotionIsCountedOnce, NoMiss
  <1> QED
    BY <1>5, <1>6, <1>7, <1>8, <1>9 DEF LocInv

LEMMA LocStutterInv == LocInv /\ UNCHANGED locVars => LocInv'
  BY DEF LocInv, LocalizationTypeOK, Counted, Total, Aligned, Placed, Near, MotionIsCountedOnce,
         locVars, stamps, places

LEMMA LocNextInv == LocInv /\ [LocalizationNext]_locVars => LocInv'
  BY InitialPoseInv, GlobalWaypointsInv, OdomInv, ScanInv, WatchdogInv, ElapseInv, LocStutterInv
     DEF LocalizationNext

LEMMA LocInvariance == LocalizationSpec => []LocInv
  <1>1. LocalizationInit => LocInv
    BY LocInitInv
  <1>2. LocInv /\ [LocalizationNext]_locVars => LocInv'
    BY LocNextInv
  <1> QED
    BY <1>1, <1>2, PTL DEF LocalizationSpec

\* The state of kinematic_localization keeps its type.
THEOREM LocalizationTypeCorrect == LocalizationSpec => []LocalizationTypeOK
  <1>1. LocInv => LocalizationTypeOK
    BY DEF LocInv
  <1> QED
    BY <1>1, LocInvariance, PTL

\* Over scan gaps, watchdog output and scans that come back, a prediction once scan
\* matching has found the car is not ahead of it and not beyond the basin behind it.
THEOREM MotionCountedOnce == LocalizationSpec => []MotionIsCountedOnce
  <1>1. LocInv => MotionIsCountedOnce
    BY DEF LocInv
  <1> QED
    BY <1>1, LocInvariance, PTL

\* A judgement ends with the frames the window asks for.
LEMMA JudgementIsFull ==
  ASSUME LocInv, [LocalizationNext]_locVars, init.validating, ~init'.validating
  PROVE  rated' = ValidateFrames
  <1>1. init \in Inits
    BY DEF LocInv, LocalizationTypeOK
  <1>2. ASSUME OnInitialPose PROVE FALSE
    <2>1. init'.validating = init.validating
      BY <1>1, <1>2 DEF OnInitialPose, Inits
    <2> QED
      BY <2>1
  <1>3. ASSUME OnGlobalWaypoints PROVE FALSE
    <2>1. init'.validating = TRUE
      BY <1>1, <1>3 DEF OnGlobalWaypoints, Inits
    <2> QED
      BY <2>1
  <1>4. CASE OnScan
    <2>1. pending /\ Registered(scan)
      BY <1>4 DEF OnScan, ProcessScan, Unregistered, NonFinite
    <2>2. PICK residual \in {"none", "good", "bad"} :
            /\ rated' = IF residual = "none" \/ rated = ValidateFrames THEN rated ELSE rated + 1
            /\ \E estimate : \/ Held(Rated(residual)) \/ Rejected(Rated(residual))
                             \/ Accepted(scan, Rated(residual), estimate)
      BY <2>1 DEF Registered
    <2>3. PICK judged : judged = Rated(residual)
      OBVIOUS
    <2>4. PICK reset : reset = Judged(judged)
      OBVIOUS
    <2>5. rated' \in 0..ValidateFrames /\ judged.validating = init.validating
          /\ Total(judged) = rated'
      BY <2>2, <2>3, <2>4, RatedRecord
    <2>6. ~Held(judged)
      BY <2>5 DEF Held
    <2>7. Total(judged) >= ValidateFrames
      BY <2>2, <2>3, <2>6 DEF Rejected, Accepted
    <2> QED
      BY <2>5, <2>7, LocalizationAssumption
  <1>5. ASSUME UNCHANGED init PROVE FALSE
    BY <1>5
  <1> QED
    BY <1>2, <1>3, <1>4, <1>5 DEF LocalizationNext, OnOdom, OnWatchdog, Elapse, locVars

\* A pose from the start line is judged on as many residuals as the window asks for,
\* and after a rejection nothing is published before a pose is given by hand.
THEOREM InitsAreJudged == LocalizationSpec => InitIsJudged
  <1>1. LocInv /\ [LocalizationNext]_locVars
          => [init.validating /\ ~init'.validating => rated' = ValidateFrames]_locVars
    BY JudgementIsFull
  <1>2. LocInv => (refused => sent \notin {"scan", "watchdog"} /\ LocalizationTypeOK)
    BY DEF LocInv, Counted
  <1> QED
    BY <1>1, <1>2, LocInvariance, PTL DEF LocalizationSpec, InitIsJudged
-----------------------------------------------------------------------------
(* What is believed of one obstacle.                                         *)

\* A sample of a box that has been standing since it was taken.
IsOfBox(q, edge) == \/ q.lo = 0 /\ q.hi = 1
                    \/ edge = "rear" /\ q.lo = -1 /\ q.hi = 1
                    \/ edge = "front" /\ q.lo = 0 /\ q.hi = 2

\* Of a box that stands, the proof of a translation is younger than the last jump of the
\* pose, and what is left of the samples from before the jump dies with the window.
Stands(t, w) ==
  ~w.opponent /\ t.alive =>
    /\ \A q \in t.samples : q.age <= w.sinceJump => IsOfBox(q, w.edge)
    /\ t.corroborated # None =>
         /\ t.corroborated <= w.sinceJump \/ w.sinceJump >= TranslationWindow \/ t.samples = {}
         /\ \A q \in t.samples : q.age > w.sinceJump - TranslationWindow
    /\ \A i \in DOMAIN t.votes : t.votes[i] # "dynamic"
    /\ t.motion # "dynamic"

\* Of an opponent that drives and has been measured at every scan, there is a sample of
\* every scan since its status, and each lies as far behind as it is old, those from
\* before a jump of the pose against the drive excepted.
LiesBehind(q, w) == ~w.against \/ q.age <= w.sinceJump => q.lo <= -q.age /\ q.hi <= 1 - q.age

Drives(t, w, missed) ==
  w.opponent =>
    /\ w.edge = "none"
    /\ ~w.stopped /\ t.alive /\ ~missed =>
         /\ \A q \in t.samples : LiesBehind(q, w)
         /\ \A n \in 0..TranslationWindow : n <= t.statusAge => \E q \in t.samples : q.age = n

\* The streaks of the track are no longer than the runs of the world that make them.
Hides(t, w) ==
  t.alive =>
    /\ t.motion # "unknown" => t.status = "confirmed"
    /\ t.rearBlind <= w.blindRun
    /\ ~w.gone /\ ~w.opponent => t.refuted <= 1 /\ (t.refuted = 1 => w.noisy)

MotionInv == TrackMotionTypeOK /\ Stands(track, world) /\ Drives(track, world, gapped) /\ Hides(track, world)

LEMMA MotionConstants ==
  /\ TranslationWindow \in Nat /\ TranslationWindow >= 1 /\ Persistence \in Nat /\ Persistence > TranslationWindow
  /\ MinTranslation \in Nat /\ MinTranslation >= 1 /\ MinTranslation <= TranslationWindow
  /\ ConfirmationWindow \in Nat /\ ConfirmationWindow >= 1
  /\ DynamicVoteWindow \in Nat /\ DynamicVoteWindow >= 1 /\ DynamicVoteRequired \in Nat /\ DynamicVoteRequired >= 1
  /\ StaticVoteWindow \in Nat /\ StaticVoteWindow >= 1
  /\ StaticMinObservations \in Nat /\ StaticMinObservations >= 1
  /\ StaticMinObservation \in Nat /\ StaticMinObservation > TranslationWindow
  /\ ReentryObservations \in Nat /\ ReentryObservations >= 1
  /\ LostHold \in Nat /\ LostHold >= 1
  /\ TtlStatic \in Nat /\ TtlStatic >= 1 /\ TtlDynamic \in Nat /\ TtlDynamic >= 1
  /\ RefuteFrames \in Nat /\ RefuteFrames >= 2 /\ RearBlindFrames \in Nat /\ RearBlindFrames >= 1
  /\ StabilityFrames \in Nat /\ StabilityFrames >= 1 /\ PoseJump \in Nat /\ PoseJump >= 1
  /\ JumpGap \in Nat /\ JumpGap >= TranslationWindow /\ JumpGap = 2 * TranslationWindow - 1
  BY TrackMotionAssumption DEF JumpGap

LEMMA AgedIs ==
  ASSUME NEW cap \in Nat, NEW age \in None..cap
  PROVE  /\ Aged(age, cap) \in None..cap
         /\ age # None => Aged(age, cap) \in 0..cap /\ Aged(age, cap) <= age + 1
         /\ age # None /\ age < cap => Aged(age, cap) = age + 1
         /\ age = None => Aged(age, cap) = None
  BY DEF Aged, Capped, Lesser, None

LEMMA CappedIs ==
  ASSUME NEW cap \in Nat, NEW n \in Nat
  PROVE  Capped(n, cap) \in 0..cap /\ Capped(n, cap) <= n /\ (n <= cap => Capped(n, cap) = n)
         /\ (n >= cap => Capped(n, cap) = cap)
  BY DEF Capped, Lesser

\* The newest entries of a sequence are entries of it.
LEMMA LastOfIs ==
  ASSUME NEW S, NEW s \in Seq(S), NEW w \in Nat \ {0}
  PROVE  LastOf(w, s) \in Seq(S) /\ \A i \in DOMAIN LastOf(w, s) : \E j \in DOMAIN s : LastOf(w, s)[i] = s[j]
  <1>1. PICK m \in Nat : m = Greater(1, Len(s) - w + 1) /\ m >= 1 /\ m <= Len(s) + 1
    BY DEF Greater
  <1>2. Len(s) \in Nat /\ SubSeq(s, m, Len(s)) \in Seq(S)
    BY <1>1
  <1>3. \A i \in DOMAIN SubSeq(s, m, Len(s)) : SubSeq(s, m, Len(s))[i] = s[m + i - 1] /\ m + i - 1 \in DOMAIN s
    BY <1>1
  <1> QED
    BY <1>1, <1>2, <1>3 DEF LastOf

\* A vote that was never cast is not counted.
LEMMA NotCounted ==
  ASSUME NEW S, NEW s \in Seq(S), NEW x, \A i \in DOMAIN s : s[i] # x
  PROVE  CountOf(x, s) = 0
  <1>1. {i \in DOMAIN s : s[i] = x} = {}
    OBVIOUS
  <1> QED
    BY <1>1, FS_EmptySet DEF CountOf

SampleSet == [age : 0..TranslationWindow, lo : Int, hi : Int]

\* What is carried over: every sample that is young enough, older and further back.
LEMMA CarriedIs ==
  ASSUME NEW samples \in SUBSET SampleSet, NEW travel \in Int
  PROVE  /\ Carried(samples, travel) \in SUBSET SampleSet
         /\ \A q \in Carried(samples, travel) : \E p \in samples :
               /\ p.age < TranslationWindow
               /\ q.age = p.age + 1 /\ q.lo = p.lo - travel /\ q.hi = p.hi - travel
         /\ \A p \in samples : p.age < TranslationWindow =>
               \E q \in Carried(samples, travel) :
                  q.age = p.age + 1 /\ q.lo = p.lo - travel /\ q.hi = p.hi - travel
  <1> DEFINE Shift(p) == [age |-> p.age + 1, lo |-> p.lo - travel, hi |-> p.hi - travel]
  <1>1. \A p \in samples : p.age < TranslationWindow => Shift(p) \in SampleSet
    BY MotionConstants DEF SampleSet
  <1>2. Carried(samples, travel) = {Shift(q) : q \in {p \in samples : p.age < TranslationWindow}}
    BY DEF Carried
  <1>3. \A p \in samples : p.age \in Int /\ p.lo \in Int /\ p.hi \in Int
    BY DEF SampleSet
  <1>4. \A p \in samples : Shift(p).age = p.age + 1 /\ Shift(p).lo = p.lo - travel /\ Shift(p).hi = p.hi - travel
    OBVIOUS
  <1> HIDE DEF Shift
  <1>5. Carried(samples, travel) \in SUBSET SampleSet
    BY <1>1, <1>2
  <1>6. \A q \in Carried(samples, travel) : \E p \in samples :
               /\ p.age < TranslationWindow
               /\ q.age = p.age + 1 /\ q.lo = p.lo - travel /\ q.hi = p.hi - travel
    BY <1>2, <1>4
  <1>7. \A p \in samples : p.age < TranslationWindow => Shift(p) \in Carried(samples, travel)
    BY <1>2
  <1> QED
    BY <1>4, <1>5, <1>6, <1>7

LEMMA ProvableIs ==
  ASSUME NEW samples, NEW box
  PROVE  /\ ProvableTranslation(samples, box) \in {"none", "still", "moved"}
         /\ ProvableTranslation(samples, box) = "moved" <=>
              \E q \in samples : AnchoredAxisTranslation(q, box) >= MinTranslation
  BY DEF ProvableTranslation

LEMMA CorroboratedIs ==
  ASSUME NEW t, t.corroborated \in None..Persistence, NEW provable
  PROVE  /\ CorroboratedFor(t, provable) \in None..Persistence
         /\ provable # "moved" => CorroboratedFor(t, provable) = None
         /\ provable = "moved" /\ t.corroborated = None => CorroboratedFor(t, provable) = 0
         /\ provable = "moved" /\ t.corroborated # None =>
              CorroboratedFor(t, provable) \in 0..Persistence /\ CorroboratedFor(t, provable) <= t.corroborated + 1
  <1>1. Persistence \in Nat /\ 0 \in None..Persistence /\ None \in None..Persistence
    BY MotionConstants DEF None
  <1>2. PICK age \in None..Persistence : age = t.corroborated
    OBVIOUS
  <1> QED
    BY <1>1, <1>2, AgedIs DEF CorroboratedFor, None

LEMMA StatusIs ==
  ASSUME NEW t, t.status \in Statuses, NEW confirmation, NEW hits, NEW measured
  PROVE  StatusAfter(t, confirmation, hits, measured) \in Statuses
         /\ (t.status = "confirmed" => StatusAfter(t, confirmation, hits, measured) = "confirmed")
  BY DEF StatusAfter, Statuses

LEMMA BoxIs ==
  ASSUME NEW edge \in {"none", "front", "rear"}
  PROVE  /\ MeasuredBox(edge).lo \in Int /\ MeasuredBox(edge).hi \in Int
         /\ IsOfBox(MeasuredBox(edge), edge)
         /\ edge = "none" => MeasuredBox(edge).lo = 0 /\ MeasuredBox(edge).hi = 1
  BY DEF MeasuredBox, IsOfBox

LEMMA TravelIs ==
  ASSUME TrackMotionTypeOK, NEW jump \in {-PoseJump, 0, PoseJump}
  PROVE  /\ Travel(jump) \in Int
         /\ Moving /\ jump >= 0 => Travel(jump) >= 1
         /\ ~world.opponent /\ jump = 0 => Travel(jump) = 0
  BY MotionConstants DEF Travel, Moving, TrackMotionTypeOK, Worlds

Votings == [status : Statuses, motion : Motions, votes : Seq(Evidence), statusAge : None..StaticMinObservation]

\* The fields of a live track.
LEMMA LiveIs ==
  ASSUME NEW t \in Live
  PROVE  /\ t.alive /\ t.status \in Statuses /\ t.motion \in Motions /\ t.confirmation \in Seq(BOOLEAN)
         /\ t.hits \in 1..2 /\ t.votes \in Seq(Evidence) /\ t.samples \in SUBSET SampleSet
         /\ t.provable \in {"none", "still", "moved"} /\ t.corroborated \in None..Persistence
         /\ t.statusAge \in None..StaticMinObservation /\ t.observations \in 0..ReentryObservations
         /\ t.positions \in 1..StaticMinObservations /\ t.ttl \in 1..Greater(TtlStatic, TtlDynamic)
         /\ t.unseen \in 0..LostHold /\ t.refuted \in 0..(RefuteFrames - 1)
         /\ t.rearBlind \in 0..(RearBlindFrames - 1) /\ t.stable \in 0..StabilityFrames
  BY DEF Live, SampleSet

LEMMA MotionLive ==
  ASSUME TrackMotionTypeOK, track.alive
  PROVE  track \in Live
  BY DEF TrackMotionTypeOK, NoTrack

LEMMA MeasuredIs ==
  ASSUME NEW t \in Live, NEW box, box.lo \in Int, box.hi \in Int, NEW travel \in Int, NEW settled \in BOOLEAN,
         NEW m, m = Measured(t, box, travel, settled)
  PROVE  /\ m \in Live /\ m.motion = t.motion /\ m.votes = t.votes
         /\ m.samples = Carried(t.samples, travel) \cup {[age |-> 0, lo |-> box.lo, hi |-> box.hi]}
         /\ m.provable = ProvableTranslation(Carried(t.samples, travel), box)
         /\ m.corroborated = CorroboratedFor(t, m.provable)
         /\ m.statusAge = Aged(t.statusAge, StaticMinObservation)
         /\ t.status = "confirmed" => m.status = "confirmed"
         /\ m.rearBlind = 0 /\ m.refuted = 0 /\ m.unseen = 0
  <1>1. PICK samples \in SUBSET SampleSet : samples = Carried(t.samples, travel)
    BY LiveIs, CarriedIs
  <1>2. PICK sampled \in SUBSET SampleSet : sampled = samples \cup {[age |-> 0, lo |-> box.lo, hi |-> box.hi]}
    <2>1. [age |-> 0, lo |-> box.lo, hi |-> box.hi] \in SampleSet
      BY MotionConstants DEF SampleSet
    <2> QED
      BY <2>1
  <1>3. PICK provable \in {"none", "still", "moved"} : provable = ProvableTranslation(samples, box)
    BY ProvableIs
  <1>4. PICK since \in None..Persistence : since = CorroboratedFor(t, provable)
    BY LiveIs, CorroboratedIs
  <1>5. PICK confirmation \in Seq(BOOLEAN) : confirmation = LastOf(ConfirmationWindow, Append(t.confirmation, TRUE))
    <2>1. Append(t.confirmation, TRUE) \in Seq(BOOLEAN)
      BY LiveIs
    <2>2. ConfirmationWindow \in Nat \ {0}
      BY MotionConstants
    <2>3. LastOf(ConfirmationWindow, Append(t.confirmation, TRUE)) \in Seq(BOOLEAN)
      BY <2>1, <2>2, LastOfIs
    <2> QED
      BY <2>3
  <1>6. PICK hits \in 1..2 : hits = Capped(t.hits + 1, 2)
    BY LiveIs DEF Capped, Lesser
  <1>7. PICK status \in Statuses : status = StatusAfter(t, confirmation, hits, TRUE)
           /\ (t.status = "confirmed" => status = "confirmed")
    BY LiveIs, StatusIs
  <1>8. PICK age \in None..StaticMinObservation : age = Aged(t.statusAge, StaticMinObservation)
    BY LiveIs, AgedIs, MotionConstants
  <1>9. PICK positions \in 1..StaticMinObservations : positions = Capped(t.positions + 1, StaticMinObservations)
    BY LiveIs, MotionConstants DEF Capped, Lesser
  <1>10. PICK stable \in 0..StabilityFrames : stable = IF settled THEN Capped(t.stable + 1, StabilityFrames) ELSE 0
    BY LiveIs, MotionConstants DEF Capped, Lesser
  <1>11. m = [t EXCEPT !.samples = sampled, !.provable = provable, !.corroborated = since,
                       !.confirmation = confirmation, !.hits = hits, !.status = status,
                       !.statusAge = age, !.positions = positions, !.stable = stable,
                       !.unseen = 0, !.refuted = 0, !.rearBlind = 0]
    BY <1>1, <1>2, <1>3, <1>4, <1>5, <1>6, <1>7, <1>8, <1>9, <1>10 DEF Measured
  <1>12. 0 \in 0..LostHold /\ 0 \in 0..(RefuteFrames - 1) /\ 0 \in 0..(RearBlindFrames - 1)
    BY MotionConstants
  <1>13. /\ m \in Live /\ m.motion = t.motion /\ m.votes = t.votes /\ m.samples = sampled
         /\ m.provable = provable /\ m.corroborated = since /\ m.statusAge = age /\ m.status = status
         /\ m.rearBlind = 0 /\ m.refuted = 0 /\ m.unseen = 0
    BY ONLY <1>11, <1>12, t \in Live, sampled \in SUBSET SampleSet, provable \in {"none", "still", "moved"},
       since \in None..Persistence, confirmation \in Seq(BOOLEAN), hits \in 1..2, status \in Statuses,
       age \in None..StaticMinObservation, positions \in 1..StaticMinObservations,
       stable \in 0..StabilityFrames DEF Live, SampleSet
  <1> QED
    BY <1>1, <1>2, <1>3, <1>4, <1>7, <1>8, <1>13

\* A vote is evidence; it is dynamic only on a translation that persists.
LEMMA VoteIs ==
  ASSUME NEW t, NEW vote \in Votes(t)
  PROVE  vote \in Evidence /\ (vote = "dynamic" => Persistent(t))
  <1>1. PICK mapEvidence \in Evidence, frenetDynamic \in BOOLEAN, egoTransient \in BOOLEAN :
          vote = VotedEvidence(CombinedEvidence(mapEvidence, frenetDynamic), Persistent(t), egoTransient)
    BY DEF Votes
  <1> QED
    BY <1>1 DEF VotedEvidence, CombinedEvidence, Evidence

\* classify, and the TTL that goes with what it says.
LEMMA MatchedIs ==
  ASSUME NEW m \in Live, NEW vote \in Evidence, NEW rmsSmall \in BOOLEAN,
         NEW t, t = Matched(m, vote, rmsSmall)
  PROVE  /\ t \in Live /\ t.samples = m.samples /\ t.corroborated = m.corroborated /\ t.status = m.status
         /\ t.rearBlind = m.rearBlind /\ t.refuted = m.refuted /\ t.unseen = m.unseen
         /\ \A i \in DOMAIN t.votes : t.votes[i] = vote \/ \E j \in DOMAIN m.votes : t.votes[i] = m.votes[j]
         /\ t.motion # "unknown" => t.status = "confirmed"
         /\ t.motion = "dynamic" =>
              m.motion = "dynamic" \/ \E i \in DOMAIN t.votes : t.votes[i] = "dynamic"
         /\ t.statusAge \in {None, 0, m.statusAge}
         /\ t.motion = "static" => m.motion = "static" \/ StaticAdmissible(m)
  <1> DEFINE done == Classified(m, vote, rmsSmall)
  <1>1. done \in Live =>
          /\ t \in Live /\ t.motion = done.motion /\ t.statusAge = done.statusAge /\ t.votes = done.votes
          /\ t.samples = done.samples /\ t.corroborated = done.corroborated /\ t.status = done.status
          /\ t.rearBlind = done.rearBlind /\ t.refuted = done.refuted /\ t.unseen = done.unseen
    <2>1. t = [done EXCEPT !.ttl = TtlOf(done.motion)]
      BY DEF Matched
    <2> HIDE DEF done
    <2>2. PICK ttl \in 1..Greater(TtlStatic, TtlDynamic) : ttl = TtlOf(done.motion)
      BY MotionConstants DEF TtlOf, Greater
    <2>3. t = [done EXCEPT !.ttl = ttl]
      BY <2>1, <2>2
    <2> QED
      BY ONLY <2>2, <2>3 DEF Live
  <1>2. CASE m.status # "confirmed"
    <2>1. PICK unknown \in Motions : unknown = "unknown"
      BY DEF Motions
    <2>2. PICK none \in None..StaticMinObservation : none = None
      BY MotionConstants DEF None
    <2>3. done = [m EXCEPT !.motion = unknown, !.statusAge = none]
      BY <1>2, <2>1, <2>2 DEF Classified
    <2> HIDE DEF done
    <2>4. /\ done \in Live /\ done.motion = unknown /\ done.statusAge = none /\ done.samples = m.samples
          /\ done.corroborated = m.corroborated /\ done.status = m.status /\ done.votes = m.votes
          /\ done.rearBlind = m.rearBlind /\ done.refuted = m.refuted /\ done.unseen = m.unseen
      BY ONLY <2>3, m \in Live, unknown \in Motions, none \in None..StaticMinObservation DEF Live
    <2>5. /\ t \in Live /\ t.motion = unknown /\ t.statusAge = none /\ t.samples = m.samples
          /\ t.corroborated = m.corroborated /\ t.status = m.status /\ t.votes = m.votes
          /\ t.rearBlind = m.rearBlind /\ t.refuted = m.refuted /\ t.unseen = m.unseen
      BY ONLY <1>1, <2>4
    <2> QED
      BY <2>1, <2>2, <2>5
  <1>3. CASE m.status = "confirmed"
    <2>1. PICK age \in None..StaticMinObservation : age = IF m.statusAge = None THEN 0 ELSE m.statusAge
      BY LiveIs, MotionConstants DEF None
    <2>2. PICK votes \in Seq(Evidence) :
             /\ votes = LastOf(Greater(DynamicVoteWindow, StaticVoteWindow), Append(m.votes, vote))
             /\ \A i \in DOMAIN votes : votes[i] = vote \/ \E j \in DOMAIN m.votes : votes[i] = m.votes[j]
      <3>1. Append(m.votes, vote) \in Seq(Evidence)
            /\ \A j \in DOMAIN Append(m.votes, vote) :
                  Append(m.votes, vote)[j] = vote
                  \/ (j \in DOMAIN m.votes /\ Append(m.votes, vote)[j] = m.votes[j])
        BY LiveIs
      <3>2. Greater(DynamicVoteWindow, StaticVoteWindow) \in Nat \ {0}
        BY MotionConstants DEF Greater
      <3>3. PICK cast \in Seq(Evidence) : cast = Append(m.votes, vote)
        BY <3>1
      <3>4. PICK size \in Nat \ {0} : size = Greater(DynamicVoteWindow, StaticVoteWindow)
        BY <3>2
      <3>5. LastOf(size, cast) \in Seq(Evidence)
            /\ \A i \in DOMAIN LastOf(size, cast) : \E j \in DOMAIN cast : LastOf(size, cast)[i] = cast[j]
        BY LastOfIs
      <3>6. \A j \in DOMAIN cast : cast[j] = vote \/ (j \in DOMAIN m.votes /\ cast[j] = m.votes[j])
        BY <3>1, <3>3
      <3>7. \A i \in DOMAIN LastOf(size, cast) :
               LastOf(size, cast)[i] = vote \/ \E j \in DOMAIN m.votes : LastOf(size, cast)[i] = m.votes[j]
        BY <3>5, <3>6
      <3> QED
        BY <3>3, <3>4, <3>5, <3>7
    <2>3. PICK observations \in 0..ReentryObservations :
             observations = Capped(m.observations + 1, ReentryObservations)
      BY LiveIs, MotionConstants DEF Capped, Lesser
    <2>4. PICK voted : voted = [m EXCEPT !.statusAge = age, !.votes = votes, !.observations = observations]
      OBVIOUS
    <2>5. /\ voted \in Live /\ voted.motion = m.motion /\ voted.statusAge = age /\ voted.votes = votes
          /\ voted.samples = m.samples /\ voted.corroborated = m.corroborated /\ voted.status = m.status
          /\ voted.rearBlind = m.rearBlind /\ voted.refuted = m.refuted /\ voted.unseen = m.unseen
          /\ voted.provable = m.provable
      BY ONLY <2>4, m \in Live, age \in None..StaticMinObservation, votes \in Seq(Evidence),
         observations \in 0..ReentryObservations DEF Live
    <2>6. PICK motion \in Motions : motion = MotionAfter(voted, rmsSmall)
      BY <2>5, LiveIs DEF MotionAfter, Motions
    <2>7. motion = "dynamic" => m.motion = "dynamic" \/ DynamicVotes(voted) >= DynamicVoteRequired
      BY <2>5, <2>6 DEF MotionAfter
    <2>8. motion = "static" => m.motion = "static" \/ StaticAdmissible(voted)
      BY <2>5, <2>6 DEF MotionAfter
    <2>9. StaticAdmissible(voted) => StaticAdmissible(m)
      BY <2>1, <2>5, MotionConstants DEF StaticAdmissible, None
    <2>10. DynamicVotes(voted) >= DynamicVoteRequired => \E i \in DOMAIN votes : votes[i] = "dynamic"
      <3> SUFFICES ASSUME \A i \in DOMAIN votes : votes[i] # "dynamic"
                   PROVE  ~(DynamicVotes(voted) >= DynamicVoteRequired)
        OBVIOUS
      <3>1. LastOf(DynamicVoteWindow, votes) \in Seq(Evidence)
            /\ \A i \in DOMAIN LastOf(DynamicVoteWindow, votes) : LastOf(DynamicVoteWindow, votes)[i] # "dynamic"
        BY LastOfIs, MotionConstants
      <3>2. CountOf("dynamic", LastOf(DynamicVoteWindow, votes)) = 0
        BY <3>1, NotCounted
      <3> QED
        BY <2>5, <3>2, MotionConstants DEF DynamicVotes
    <2>11. done = IF motion = voted.motion THEN voted
                  ELSE [voted EXCEPT !.motion = motion, !.observations = 0, !.statusAge = 0]
      BY <1>3, <2>1, <2>2, <2>3, <2>4, <2>6 DEF Classified
    <2>12. 0 \in 0..ReentryObservations /\ 0 \in None..StaticMinObservation
      BY MotionConstants DEF None
    <2> HIDE DEF done
    <2>13. /\ done \in Live /\ done.motion = motion /\ done.statusAge \in {age, 0} /\ done.votes = votes
           /\ done.samples = m.samples /\ done.corroborated = m.corroborated /\ done.status = m.status
           /\ done.rearBlind = m.rearBlind /\ done.refuted = m.refuted /\ done.unseen = m.unseen
      <3>1. CASE motion = voted.motion
        BY <2>5, <2>11, <3>1
      <3>2. CASE motion # voted.motion
        <4>1. done = [voted EXCEPT !.motion = motion, !.observations = 0, !.statusAge = 0]
          BY <2>11, <3>2
        <4>2. /\ done \in Live /\ done.motion = motion /\ done.statusAge = 0 /\ done.votes = voted.votes
              /\ done.samples = voted.samples /\ done.corroborated = voted.corroborated
              /\ done.status = voted.status /\ done.rearBlind = voted.rearBlind
              /\ done.refuted = voted.refuted /\ done.unseen = voted.unseen
          BY ONLY <4>1, <2>5, <2>12, motion \in Motions DEF Live
        <4> QED
          BY ONLY <2>5, <4>2
      <3> QED
        BY ONLY <3>1, <3>2
    <2>14. /\ t \in Live /\ t.motion = motion /\ t.statusAge \in {age, 0} /\ t.votes = votes
           /\ t.samples = m.samples /\ t.corroborated = m.corroborated /\ t.status = m.status
           /\ t.rearBlind = m.rearBlind /\ t.refuted = m.refuted /\ t.unseen = m.unseen
      BY ONLY <1>1, <2>13
    <2> QED
      BY <1>3, <2>1, <2>2, <2>7, <2>8, <2>9, <2>10, <2>14
  <1> QED
    BY <1>2, <1>3

\* A scan that misses the obstacle: the track is held, ages, or is retired.
LEMMA UnmatchedIs ==
  ASSUME NEW t \in Live, NEW travel \in Int, NEW refutes \in BOOLEAN, NEW blind \in BOOLEAN,
         NEW u, u = Unmatched(t, travel, refutes, blind)
  PROVE  /\ u = NoTrack \/ (u \in Live /\ u.alive)
         /\ u.alive =>
              /\ u.motion = t.motion /\ u.votes = t.votes /\ u.samples = Carried(t.samples, travel)
              /\ u.corroborated = Aged(t.corroborated, Persistence)
              /\ t.status = "confirmed" => u.status = "confirmed"
              /\ u.rearBlind = 0 \/ (blind /\ u.rearBlind = t.rearBlind + 1)
              /\ u.refuted = 0 \/ (refutes /\ u.refuted = t.refuted + 1)
              /\ HoldEligible(t) /\ t.unseen + 1 < LostHold => u.stable = t.stable
         /\ HoldEligible(t) /\ t.unseen + 1 < LostHold /\ ~u.alive =>
              \/ refutes /\ t.refuted + 1 >= RefuteFrames
              \/ blind /\ t.rearBlind + 1 >= RearBlindFrames
  <1>1. PICK samples \in SUBSET SampleSet : samples = Carried(t.samples, travel)
    BY LiveIs, CarriedIs
  <1>2. PICK unseen \in 0..LostHold : unseen = Capped(t.unseen + 1, LostHold)
           /\ (t.unseen + 1 < LostHold => unseen = t.unseen + 1)
    <2>1. t.unseen + 1 \in Nat /\ LostHold \in Nat
      BY LiveIs, MotionConstants
    <2> QED
      BY <2>1, CappedIs
  <1>3. PICK aged : aged = [t EXCEPT !.unseen = unseen, !.samples = samples]
    OBVIOUS
  <1>4. /\ aged \in Live /\ aged.motion = t.motion /\ aged.votes = t.votes /\ aged.samples = samples
        /\ aged.status = t.status /\ aged.provable = t.provable /\ aged.unseen = unseen
        /\ aged.stable = t.stable /\ aged.refuted = t.refuted /\ aged.rearBlind = t.rearBlind
    BY ONLY <1>3, t \in Live, unseen \in 0..LostHold, samples \in SUBSET SampleSet DEF Live, SampleSet
  <1>5. HoldEligible(t) /\ t.unseen + 1 < LostHold => HoldCandidate(aged)
    BY <1>2, <1>4 DEF HoldCandidate, HoldEligible
  <1>6. PICK refuted \in Nat : /\ refuted = RefutedStreak(aged, refutes)
                               /\ refuted = 0 \/ (refutes /\ refuted = t.refuted + 1)
    BY <1>4, LiveIs DEF RefutedStreak
  <1>7. PICK rearBlind \in Nat : /\ rearBlind = RearBlindStreak(aged, blind)
                                 /\ rearBlind = 0 \/ (blind /\ rearBlind = t.rearBlind + 1)
    BY <1>4, LiveIs DEF RearBlindStreak
  <1>8. PICK evicted \in BOOLEAN : evicted <=> refuted >= RefuteFrames \/ rearBlind >= RearBlindFrames
    OBVIOUS
  <1>9. PICK held \in BOOLEAN : held <=> HoldCandidate(aged) /\ ~evicted
    OBVIOUS
  <1>10. PICK ttl \in Int : ttl = CASE evicted -> 0 [] held -> Greater(t.ttl - 1, 1) [] OTHER -> t.ttl - 1
    <2>1. t.ttl \in Int /\ Greater(t.ttl - 1, 1) \in Int
      BY LiveIs, MotionConstants DEF Greater
    <2>2. CASE evicted
      <3>1. (CASE evicted -> 0 [] held -> Greater(t.ttl - 1, 1) [] OTHER -> t.ttl - 1) = 0
        BY <1>9, <2>2
      <3> QED
        BY <3>1
    <2>3. CASE ~evicted /\ held
      <3>1. (CASE evicted -> 0 [] held -> Greater(t.ttl - 1, 1) [] OTHER -> t.ttl - 1) = Greater(t.ttl - 1, 1)
        BY <2>3
      <3> QED
        BY <2>1, <3>1
    <2>4. CASE ~evicted /\ ~held
      <3>1. (CASE evicted -> 0 [] held -> Greater(t.ttl - 1, 1) [] OTHER -> t.ttl - 1) = t.ttl - 1
        BY <2>4
      <3> QED
        BY <2>1, <3>1
    <2> QED
      BY <2>2, <2>3, <2>4
  <1>11. PICK confirmation \in Seq(BOOLEAN) : confirmation = LastOf(ConfirmationWindow, Append(t.confirmation, FALSE))
    <2>1. Append(t.confirmation, FALSE) \in Seq(BOOLEAN)
      BY LiveIs
    <2>2. ConfirmationWindow \in Nat \ {0}
      BY MotionConstants
    <2>3. LastOf(ConfirmationWindow, Append(t.confirmation, FALSE)) \in Seq(BOOLEAN)
      BY <2>1, <2>2, LastOfIs
    <2> QED
      BY <2>3
  <1>12. PICK status \in Statuses : status = StatusAfter(t, confirmation, t.hits, FALSE)
           /\ (t.status = "confirmed" => status = "confirmed")
    BY LiveIs, StatusIs
  <1>13. PICK since \in None..Persistence : since = Aged(t.corroborated, Persistence)
    BY LiveIs, AgedIs, MotionConstants
  <1>14. PICK age \in None..StaticMinObservation : age = Aged(t.statusAge, StaticMinObservation)
    BY LiveIs, AgedIs, MotionConstants
  <1>15. PICK stable \in 0..StabilityFrames : stable = StableAfter(t, held) /\ (held => stable = t.stable)
    <2>1. t.stable \in 0..StabilityFrames /\ 0 \in 0..StabilityFrames
      BY LiveIs, MotionConstants
    <2>2. StableAfter(t, held) = IF held THEN t.stable ELSE 0
      BY DEF StableAfter
    <2> QED
      BY ONLY <2>1, <2>2, held \in BOOLEAN
  <1>16. u = IF ttl <= 0 THEN NoTrack
             ELSE [aged EXCEPT !.ttl = ttl, !.confirmation = confirmation, !.status = status,
                               !.stable = stable, !.refuted = refuted, !.rearBlind = rearBlind,
                               !.corroborated = since, !.statusAge = age]
    <2>1. evicted = (refuted >= RefuteFrames \/ rearBlind >= RearBlindFrames)
      BY <1>8
    <2>2. held = (HoldCandidate(aged) /\ ~evicted)
      BY <1>9 DEF HoldCandidate
    <2> QED
      BY <1>1, <1>2, <1>3, <1>6, <1>7, <1>10, <1>11, <1>12, <1>13, <1>14, <1>15, <2>1, <2>2 DEF Unmatched
  <1>17. ~NoTrack.alive
    BY DEF NoTrack
  <1>18. CASE ttl <= 0
    <2>1. u = NoTrack
      BY <1>16, <1>18
    <2>2. HoldCandidate(aged) => evicted
      BY <1>9, <1>10, <1>18, LiveIs DEF Greater
    <2>3. HoldCandidate(aged) =>
            \/ refutes /\ t.refuted + 1 >= RefuteFrames
            \/ blind /\ t.rearBlind + 1 >= RearBlindFrames
      BY <1>6, <1>7, <1>8, <2>2, MotionConstants
    <2> QED
      BY <1>5, <1>17, <2>1, <2>3
  <1>19. CASE ~(ttl <= 0)
    <2>1. ~evicted
      BY <1>9, <1>10, <1>19
    <2>2. refuted \in 0..(RefuteFrames - 1) /\ rearBlind \in 0..(RearBlindFrames - 1)
      BY <1>8, <2>1, MotionConstants
    <2>3. ttl \in 1..Greater(TtlStatic, TtlDynamic)
      <3>1. t.ttl \in 1..Greater(TtlStatic, TtlDynamic) /\ Greater(TtlStatic, TtlDynamic) \in Nat
        BY LiveIs, MotionConstants DEF Greater
      <3>2. ttl = Greater(t.ttl - 1, 1) \/ ttl = t.ttl - 1
        BY <1>10, <2>1
      <3>3. Greater(t.ttl - 1, 1) = t.ttl - 1 \/ Greater(t.ttl - 1, 1) = 1
        BY DEF Greater
      <3> QED
        BY <1>19, <3>1, <3>2, <3>3
    <2>4. u = [aged EXCEPT !.ttl = ttl, !.confirmation = confirmation, !.status = status,
                           !.stable = stable, !.refuted = refuted, !.rearBlind = rearBlind,
                           !.corroborated = since, !.statusAge = age]
      BY <1>16, <1>19
    <2>5. /\ u \in Live /\ u.motion = aged.motion /\ u.votes = aged.votes /\ u.samples = aged.samples
          /\ u.corroborated = since /\ u.status = status /\ u.rearBlind = rearBlind /\ u.refuted = refuted
          /\ u.stable = stable /\ u.alive
      BY ONLY <1>4, <2>2, <2>3, <2>4, confirmation \in Seq(BOOLEAN), status \in Statuses,
         stable \in 0..StabilityFrames, since \in None..Persistence,
         age \in None..StaticMinObservation DEF Live
    <2>6. HoldCandidate(aged) => u.stable = t.stable
      BY <1>9, <1>15, <2>1, <2>5
    <2> QED
      BY <1>1, <1>4, <1>5, <1>6, <1>7, <1>12, <1>13, <2>5, <2>6
  <1> QED
    BY <1>18, <1>19

LEMMA SpawnedIs ==
  ASSUME NEW box, NEW t, t = Spawned(box)
  PROVE  /\ t \in Live /\ t.alive /\ t.samples = {} /\ t.corroborated = None /\ t.statusAge = None
         /\ t.motion = "unknown" /\ t.votes = <<>> /\ t.rearBlind = 0 /\ t.refuted = 0
  <1>1. PICK status \in Statuses : status = StatusAfter([status |-> "raw"], <<TRUE>>, 1, TRUE)
    BY DEF StatusAfter, Statuses
  <1>2. t = [alive |-> TRUE, status |-> status,
             motion |-> "unknown", confirmation |-> <<TRUE>>, hits |-> 1, votes |-> <<>>,
             samples |-> {}, provable |-> "none", corroborated |-> None,
             statusAge |-> None, observations |-> 0, positions |-> 1, ttl |-> TtlStatic,
             unseen |-> 0, refuted |-> 0, rearBlind |-> 0, stable |-> 0]
    BY <1>1 DEF Spawned
  <1>3. /\ None \in None..Persistence /\ None \in None..StaticMinObservation
        /\ 0 \in 0..ReentryObservations /\ 1 \in 1..StaticMinObservations
        /\ TtlStatic \in 1..Greater(TtlStatic, TtlDynamic) /\ 0 \in 0..LostHold
        /\ 0 \in 0..(RefuteFrames - 1) /\ 0 \in 0..(RearBlindFrames - 1) /\ 0 \in 0..StabilityFrames
    BY MotionConstants DEF None, Greater
  <1>4. <<TRUE>> \in Seq(BOOLEAN) /\ <<>> \in Seq(Evidence)
    OBVIOUS
  <1>5. "unknown" \in Motions
    BY DEF Motions
  <1> QED
    BY ONLY <1>2, <1>3, <1>4, <1>5, status \in Statuses DEF Live

\* The world after a scan.
LEMMA WorldIs ==
  ASSUME TrackMotionTypeOK, NEW edge \in Edges, NEW jump \in Jumps, NEW noisy \in BOOLEAN, NEW blind \in BOOLEAN,
         WorldScan(edge, jump, noisy, blind)
  PROVE  /\ world' \in Worlds /\ world'.opponent = world.opponent /\ world'.stopped = world.stopped
         /\ world'.gone = world.gone /\ world'.edge = edge /\ world'.noisy = noisy
         /\ jump \in {-PoseJump, 0, PoseJump} /\ edge \in {"none", "front", "rear"}
         /\ world.edge # "none" \/ world.opponent => edge = world.edge
         /\ jump # 0 => world'.sinceJump = 0 /\ world.sinceJump = JumpGap
         /\ jump = 0 => /\ world.sinceJump < JumpGap => world'.sinceJump = world.sinceJump + 1
                        /\ world.sinceJump = JumpGap => world'.sinceJump = JumpGap
         /\ jump < 0 => world'.against
         /\ jump = 0 /\ ~world'.against => ~world.against \/ world.sinceJump = JumpGap
         /\ blind => world'.blindRun = world.blindRun + 1 \/ world'.blindRun = RearBlindFrames
  <1>1. world \in Worlds /\ edge \in {"none", "front", "rear"} /\ jump \in {-PoseJump, 0, PoseJump}
    BY DEF TrackMotionTypeOK, Worlds, Edges, Jumps
  <1>2. world.sinceJump \in 0..JumpGap /\ world.blindRun \in 0..RearBlindFrames
    BY <1>1 DEF Worlds
  <1>3. PICK since \in 0..JumpGap :
          /\ since = IF jump # 0 THEN 0 ELSE Capped(world.sinceJump + 1, JumpGap)
          /\ jump = 0 => /\ world.sinceJump < JumpGap => since = world.sinceJump + 1
                         /\ world.sinceJump = JumpGap => since = JumpGap
    BY <1>2, MotionConstants DEF Capped, Lesser
  <1>4. PICK run \in 0..RearBlindFrames :
          /\ run = IF blind THEN Capped(world.blindRun + 1, RearBlindFrames) ELSE 0
          /\ blind => run = world.blindRun + 1 \/ run = RearBlindFrames
    BY <1>2, MotionConstants DEF Capped, Lesser
  <1>5. PICK against \in BOOLEAN : against = (jump < 0 \/ (jump = 0 /\ ~CanJump /\ world.against))
    BY <1>1 DEF Worlds
  <1>6. world' = [world EXCEPT !.edge = edge, !.noisy = noisy, !.sinceJump = since, !.against = against,
                               !.blindRun = run]
    BY <1>3, <1>4, <1>5 DEF WorldScan
  <1>7. /\ world' \in Worlds /\ world'.opponent = world.opponent /\ world'.stopped = world.stopped
        /\ world'.gone = world.gone /\ world'.edge = edge /\ world'.noisy = noisy
        /\ world'.sinceJump = since /\ world'.against = against /\ world'.blindRun = run
    BY ONLY <1>1, <1>6, noisy \in BOOLEAN, against \in BOOLEAN, since \in 0..JumpGap,
       run \in 0..RearBlindFrames DEF Worlds
  <1>8. world.edge # "none" \/ world.opponent => edge = world.edge
    BY DEF Edges
  <1>9. jump # 0 => world.sinceJump = JumpGap
    BY DEF Jumps, CanJump
  <1>10. /\ jump < 0 => against
         /\ jump = 0 /\ ~against => ~world.against \/ world.sinceJump = JumpGap
    BY <1>5 DEF CanJump
  <1> QED
    BY <1>1, <1>3, <1>4, <1>7, <1>8, <1>9, <1>10

\* The samples of a standing box, a scan later.
LEMMA SamplesStand ==
  ASSUME TrackMotionTypeOK, track \in Live, Stands(track, world), ~world.opponent,
         NEW edge \in Edges, NEW jump \in Jumps, NEW noisy \in BOOLEAN, NEW blind \in BOOLEAN,
         WorldScan(edge, jump, noisy, blind)
  PROVE  /\ \A q \in Carried(track.samples, Travel(jump)) :
               q.age <= world'.sinceJump => IsOfBox(q, edge)
         /\ track.corroborated # None =>
              /\ \A q \in Carried(track.samples, Travel(jump)) : q.age > world'.sinceJump - TranslationWindow
              /\ jump # 0 => Carried(track.samples, Travel(jump)) = {}
  <1>1. jump \in {-PoseJump, 0, PoseJump} /\ edge \in {"none", "front", "rear"}
    BY WorldIs
  <1>2. Travel(jump) \in Int /\ (jump = 0 => Travel(jump) = 0)
    BY <1>1, TravelIs
  <1>3. \A q \in Carried(track.samples, Travel(jump)) : \E p \in track.samples :
           p.age < TranslationWindow /\ q.age = p.age + 1 /\ q.lo = p.lo - Travel(jump) /\ q.hi = p.hi - Travel(jump)
    <2>1. PICK travel \in Int : travel = Travel(jump)
      BY <1>2
    <2>2. PICK samples \in SUBSET SampleSet : samples = track.samples
      BY LiveIs
    <2>3. \A q \in Carried(samples, travel) : \E p \in samples :
             /\ p.age < TranslationWindow
             /\ q.age = p.age + 1 /\ q.lo = p.lo - travel /\ q.hi = p.hi - travel
      BY CarriedIs
    <2> QED
      BY <2>1, <2>2, <2>3
  <1>4. \A p \in track.samples : p.age \in Nat /\ p.lo \in Int /\ p.hi \in Int
    BY LiveIs DEF SampleSet
  <1>5. world.sinceJump \in Nat /\ world.sinceJump <= JumpGap /\ world'.sinceJump \in Nat
        /\ world'.sinceJump <= JumpGap
    BY WorldIs, MotionConstants DEF TrackMotionTypeOK, Worlds
  <1>6. CASE jump # 0
    <2>1. world'.sinceJump = 0 /\ world.sinceJump = JumpGap
      BY <1>6, WorldIs
    <2>2. \A q \in Carried(track.samples, Travel(jump)) : ~(q.age <= world'.sinceJump)
      BY <1>3, <1>4, <2>1
    <2>3. ASSUME track.corroborated # None PROVE Carried(track.samples, Travel(jump)) = {}
      <3> SUFFICES ASSUME NEW q \in Carried(track.samples, Travel(jump)) PROVE FALSE
        OBVIOUS
      <3>1. PICK p \in track.samples : p.age < TranslationWindow
        BY <1>3
      <3>2. p.age > world.sinceJump - TranslationWindow
        BY <2>3, LiveIs DEF Stands
      <3> QED
        BY <1>4, <2>1, <3>1, <3>2, MotionConstants
    <2> QED
      BY <2>2, <2>3
  <1>7. CASE jump = 0
    <2>1. world'.sinceJump = world.sinceJump + 1 \/ (world.sinceJump = JumpGap /\ world'.sinceJump = JumpGap)
      BY <1>5, <1>7, WorldIs, MotionConstants
    <2>2. ASSUME NEW q \in Carried(track.samples, Travel(jump)), q.age <= world'.sinceJump
          PROVE  IsOfBox(q, edge)
      <3>1. PICK p \in track.samples :
              p.age < TranslationWindow /\ q.age = p.age + 1 /\ q.lo = p.lo /\ q.hi = p.hi
        BY <1>2, <1>3, <1>4, <1>7
      <3>2. p.age <= world.sinceJump
        BY <1>4, <1>5, <2>1, <2>2, <3>1, MotionConstants
      <3>3. IsOfBox(p, world.edge)
        BY <3>2, LiveIs DEF Stands
      <3>4. world.edge = "none" \/ world.edge = edge
        BY WorldIs
      <3> QED
        BY <3>1, <3>3, <3>4 DEF IsOfBox
    <2>3. ASSUME track.corroborated # None, NEW q \in Carried(track.samples, Travel(jump))
          PROVE  q.age > world'.sinceJump - TranslationWindow
      <3>1. PICK p \in track.samples : q.age = p.age + 1
        BY <1>3
      <3>2. p.age > world.sinceJump - TranslationWindow
        BY <2>3, LiveIs DEF Stands
      <3> QED
        BY <1>4, <1>5, <2>1, <3>1, <3>2, MotionConstants
    <2> QED
      BY <1>7, <2>2, <2>3
  <1> QED
    BY <1>6, <1>7

\* A standing box that seems to have moved was sampled before the last jump.
LEMMA MovedByJump ==
  ASSUME NEW edge \in {"none", "front", "rear"}, NEW q, IsOfBox(q, edge)
  PROVE  ~(AnchoredAxisTranslation(q, MeasuredBox(edge)) >= MinTranslation)
  BY MotionConstants DEF IsOfBox, AnchoredAxisTranslation, MeasuredBox, Lesser

\* Measured again, the standing box still stands, and casts no dynamic vote.
LEMMA MeasuredStands ==
  ASSUME TrackMotionTypeOK, track \in Live, Stands(track, world), ~world.opponent,
         NEW edge \in Edges, NEW jump \in Jumps, NEW noisy \in BOOLEAN, NEW blind \in BOOLEAN,
         NEW settled \in BOOLEAN,
         WorldScan(edge, jump, noisy, blind), NEW m, m = Measured(track, MeasuredBox(edge), Travel(jump), settled)
  PROVE  /\ \A q \in m.samples : q.age <= world'.sinceJump => IsOfBox(q, edge)
         /\ m.corroborated # None =>
              /\ m.corroborated <= world'.sinceJump
              /\ \A q \in m.samples : q.age > world'.sinceJump - TranslationWindow
         /\ ~Persistent(m)
  <1>1. jump \in {-PoseJump, 0, PoseJump} /\ edge \in {"none", "front", "rear"}
        /\ world'.sinceJump \in Nat /\ world.sinceJump \in Nat
    BY WorldIs, MotionConstants DEF TrackMotionTypeOK, Worlds
  <1>2. Travel(jump) \in Int /\ MeasuredBox(edge).lo \in Int /\ MeasuredBox(edge).hi \in Int
        /\ IsOfBox(MeasuredBox(edge), edge)
    BY <1>1, TravelIs, BoxIs
  <1>3. PICK carried : carried = Carried(track.samples, Travel(jump))
    OBVIOUS
  <1>4. PICK now : now = [age |-> 0, lo |-> MeasuredBox(edge).lo, hi |-> MeasuredBox(edge).hi]
    OBVIOUS
  <1>5. /\ m.samples = carried \cup {now}
        /\ m.provable = ProvableTranslation(carried, MeasuredBox(edge))
        /\ m.corroborated = CorroboratedFor(track, m.provable)
    BY <1>2, <1>3, <1>4, MeasuredIs
  <1>6. now.age = 0 /\ IsOfBox(now, edge)
    BY <1>2, <1>4 DEF IsOfBox
  <1>7. /\ \A q \in carried : q.age <= world'.sinceJump => IsOfBox(q, edge)
        /\ track.corroborated # None =>
              /\ \A q \in carried : q.age > world'.sinceJump - TranslationWindow
              /\ jump # 0 => carried = {}
    BY <1>3, SamplesStand
  <1>8. \A q \in carried : q.age \in Nat /\ q.age <= TranslationWindow
    <2>1. carried \in SUBSET SampleSet
      BY <1>2, <1>3, LiveIs, CarriedIs
    <2> QED
      BY <2>1, MotionConstants DEF SampleSet
  <1>9. track.corroborated \in None..Persistence
    BY LiveIs
  <1>10. CASE m.provable # "moved"
    <2>1. m.corroborated = None
      BY <1>5, <1>9, <1>10, CorroboratedIs
    <2> QED
      BY <1>5, <1>6, <1>7, <2>1 DEF Persistent
  <1>11. CASE m.provable = "moved"
    <2>1. PICK q \in carried : AnchoredAxisTranslation(q, MeasuredBox(edge)) >= MinTranslation
      BY <1>5, <1>11, ProvableIs
    <2>2. q.age > world'.sinceJump
      BY <1>1, <1>7, <1>8, <2>1, MovedByJump
    <2>3. world'.sinceJump < TranslationWindow
      BY <1>1, <1>8, <2>2, MotionConstants
    <2>4. m.corroborated \in 0..Persistence /\ m.corroborated <= world'.sinceJump
      <3>1. CASE track.corroborated = None
        BY <1>1, <1>5, <1>9, <1>11, <3>1, CorroboratedIs, MotionConstants
      <3>2. CASE track.corroborated # None
        <4>1. jump = 0 /\ track.samples # {}
          <5>1. carried # {}
            BY <2>1
          <5>2. track.samples # {}
            BY <1>2, <1>3, <2>1, LiveIs, CarriedIs
          <5> QED
            BY <1>7, <3>2, <5>1, <5>2
        <4>2. world'.sinceJump = world.sinceJump + 1
          <5>1. world.sinceJump \in 0..JumpGap /\ world.sinceJump # JumpGap
            BY <1>1, <2>3, <4>1, WorldIs, MotionConstants DEF TrackMotionTypeOK, Worlds
          <5> QED
            BY <4>1, <5>1, WorldIs, MotionConstants
        <4>3. track.corroborated <= world.sinceJump
          BY <1>1, <2>3, <3>2, <4>1, <4>2, LiveIs, MotionConstants DEF Stands
        <4>4. m.corroborated \in 0..Persistence /\ m.corroborated <= track.corroborated + 1
          BY <1>5, <1>9, <1>11, <3>2, CorroboratedIs
        <4> QED
          BY <1>1, <1>9, <4>2, <4>3, <4>4, MotionConstants DEF None
      <3> QED
        BY <3>1, <3>2
    <2>5. \A p \in m.samples : p.age > world'.sinceJump - TranslationWindow
      BY <1>1, <1>5, <1>6, <1>8, <2>3, MotionConstants
    <2>6. ~Persistent(m)
      BY <1>1, <2>3, <2>4, MotionConstants DEF Persistent
    <2> QED
      BY <1>5, <1>6, <1>7, <2>4, <2>5, <2>6
  <1> QED
    BY <1>10, <1>11

-----------------------------------------------------------------------------
LEMMA SpawnInv == ASSUME MotionInv, SpawnScan PROVE MotionInv'
  <1>1. PICK edge \in Edges, jump \in Jumps :
           WorldScan(edge, jump, FALSE, FALSE) /\ track' = Spawned(MeasuredBox(edge))
    BY DEF SpawnScan
  <1>2. TrackMotionTypeOK /\ Drives(track, world, gapped)
    BY DEF MotionInv
  <1>3. /\ world' \in Worlds /\ world'.opponent = world.opponent /\ world'.edge = edge
        /\ world.opponent => edge = world.edge
    BY <1>1, <1>2, WorldIs
  <1>4. /\ track' \in Live /\ track'.samples = {} /\ track'.corroborated = None /\ track'.statusAge = None
        /\ track'.motion = "unknown" /\ track'.votes = <<>> /\ track'.rearBlind = 0 /\ track'.refuted = 0
    BY <1>1, SpawnedIs
  <1>5. TrackMotionTypeOK'
    BY <1>3, <1>4 DEF TrackMotionTypeOK, SpawnScan
  <1>6. Stands(track', world')
    BY <1>4 DEF Stands
  <1>7. Drives(track', world', gapped')
    BY <1>2, <1>3, <1>4 DEF Drives, None
  <1>8. Hides(track', world')
    BY <1>3, <1>4, MotionConstants DEF Hides, Worlds
  <1> QED
    BY <1>5, <1>6, <1>7, <1>8 DEF MotionInv

\* A measured opponent that drives has left a sample a cell behind at every scan.
LEMMA MeasuredDrives ==
  ASSUME TrackMotionTypeOK, track \in Live, Drives(track, world, gapped), Moving, ~gapped,
         NEW edge \in Edges, NEW jump \in Jumps, NEW noisy \in BOOLEAN, NEW blind \in BOOLEAN,
         NEW settled \in BOOLEAN,
         WorldScan(edge, jump, noisy, blind), NEW m, m = Measured(track, MeasuredBox(edge), Travel(jump), settled)
  PROVE  /\ \A q \in m.samples : LiesBehind(q, world')
         /\ \A n \in 0..TranslationWindow : n <= m.statusAge \/ n = 0 => \E q \in m.samples : q.age = n
         /\ ~StaticAdmissible(m) \/ DriveIsMasked'
  <1>1. jump \in {-PoseJump, 0, PoseJump} /\ edge = "none" /\ edge \in {"none", "front", "rear"}
    BY WorldIs DEF Drives, Moving
  <1>2. PICK travel \in Int : travel = Travel(jump) /\ (jump >= 0 => travel >= 1)
    BY <1>1, TravelIs
  <1>3. MeasuredBox(edge).lo = 0 /\ MeasuredBox(edge).hi = 1 /\ MeasuredBox(edge).lo \in Int /\ MeasuredBox(edge).hi \in Int
    BY <1>1, BoxIs
  <1>4. PICK samples \in SUBSET SampleSet : samples = track.samples
    BY LiveIs
  <1>5. PICK carried : carried = Carried(samples, travel)
    OBVIOUS
  <1>6. PICK now : now = [age |-> 0, lo |-> MeasuredBox(edge).lo, hi |-> MeasuredBox(edge).hi]
    OBVIOUS
  <1>7. /\ m.samples = carried \cup {now}
        /\ m.provable = ProvableTranslation(carried, MeasuredBox(edge))
        /\ m.statusAge = Aged(track.statusAge, StaticMinObservation)
    BY <1>2, <1>3, <1>4, <1>5, <1>6, MeasuredIs
  <1>8. now.age = 0 /\ now.lo = 0 /\ now.hi = 1
    BY <1>3, <1>6
  <1>9. /\ \A q \in carried : \E p \in samples :
             p.age < TranslationWindow /\ q.age = p.age + 1 /\ q.lo = p.lo - travel /\ q.hi = p.hi - travel
        /\ \A p \in samples : p.age < TranslationWindow =>
             \E q \in carried : q.age = p.age + 1 /\ q.lo = p.lo - travel /\ q.hi = p.hi - travel
    BY <1>5, CarriedIs
  <1>10. \A p \in samples : p.age \in Nat /\ p.lo \in Int /\ p.hi \in Int
    BY DEF SampleSet
  <1>11. /\ \A q \in samples : LiesBehind(q, world)
         /\ \A n \in 0..TranslationWindow : n <= track.statusAge => \E q \in samples : q.age = n
    BY <1>4, LiveIs DEF Drives, Moving
  <1>12. \A q \in carried : q.age \in Nat /\ q.lo \in Int /\ q.hi \in Int /\ LiesBehind(q, world')
    <2> SUFFICES ASSUME NEW q \in carried
                 PROVE q.age \in Nat /\ q.lo \in Int /\ q.hi \in Int /\ LiesBehind(q, world')
      OBVIOUS
    <2>1. PICK p \in samples : /\ p.age < TranslationWindow
                               /\ q.age = p.age + 1 /\ q.lo = p.lo - travel /\ q.hi = p.hi - travel
      BY <1>9
    <2>2. p.age \in Nat /\ p.lo \in Int /\ p.hi \in Int
      BY <1>10
    <2>3. q.age \in Nat /\ q.age >= 1 /\ q.lo \in Int /\ q.hi \in Int
      BY <2>1, <2>2
    <2>4. world.sinceJump \in 0..JumpGap /\ JumpGap \in Nat /\ JumpGap >= TranslationWindow
      BY MotionConstants DEF TrackMotionTypeOK, Worlds
    <2>5. ASSUME ~world'.against \/ q.age <= world'.sinceJump
          PROVE  jump >= 0 /\ (~world.against \/ p.age <= world.sinceJump)
      <3>1. CASE jump # 0
        <4>1. world'.sinceJump = 0 /\ world.sinceJump = JumpGap
          BY <3>1, WorldIs
        <4>2. ~(jump < 0)
          BY <2>3, <2>5, <4>1, WorldIs
        <4> QED
          BY <1>1, <2>1, <2>2, <2>4, <4>1, <4>2, MotionConstants
      <3>2. CASE jump = 0
        <4>1. CASE world.sinceJump = JumpGap
          BY <2>1, <2>2, <2>4, <3>2, <4>1, MotionConstants
        <4>2. CASE world.sinceJump < JumpGap
          <5>1. world'.sinceJump = world.sinceJump + 1
            BY <3>2, <4>2, WorldIs
          <5>2. ~world'.against => ~world.against
            BY <2>4, <3>2, <4>2, WorldIs
          <5> QED
            BY <2>1, <2>2, <2>4, <2>5, <3>2, <5>1, <5>2
        <4> QED
          BY <2>4, <4>1, <4>2
      <3> QED
        BY <3>1, <3>2
    <2>6. LiesBehind(q, world')
      <3> SUFFICES ASSUME ~world'.against \/ q.age <= world'.sinceJump
                   PROVE  q.lo <= -q.age /\ q.hi <= 1 - q.age
        BY DEF LiesBehind
      <3>1. travel >= 1 /\ p.lo <= -p.age /\ p.hi <= 1 - p.age
        BY <1>2, <1>11, <2>5 DEF LiesBehind
      <3> QED
        BY <1>2, <2>1, <2>2, <3>1
    <2> QED
      BY <2>3, <2>6
  <1>13. track.statusAge \in None..StaticMinObservation
    BY LiveIs
  <1>14. \A n \in 1..TranslationWindow : n <= m.statusAge => \E q \in carried : q.age = n
    <2> SUFFICES ASSUME NEW n \in 1..TranslationWindow, n <= m.statusAge PROVE \E q \in carried : q.age = n
      OBVIOUS
    <2>1. n - 1 \in 0..TranslationWindow /\ n - 1 <= track.statusAge
      <3>1. track.statusAge # None
        BY <1>7 DEF Aged, None
      <3>2. m.statusAge \in Int /\ m.statusAge <= track.statusAge + 1
        BY <1>7, <1>13, <3>1, AgedIs, MotionConstants
      <3> QED
        BY <1>13, <3>2, MotionConstants DEF None
    <2>2. PICK p \in samples : p.age = n - 1
      BY <1>11, <2>1
    <2>3. p.age < TranslationWindow
      BY <2>2, MotionConstants
    <2> QED
      BY <1>9, <2>2, <2>3
  <1>15. ASSUME StaticAdmissible(m), ~DriveIsMasked' PROVE FALSE
    <2>1. m.statusAge >= StaticMinObservation /\ m.provable = "still"
      BY <1>15 DEF StaticAdmissible
    <2>2. m.statusAge \in Int
      BY <1>7, <1>13, AgedIs, MotionConstants DEF None
    <2>3. PICK q \in carried : q.age = MinTranslation
      BY <1>14, <2>1, <2>2, MotionConstants
    <2>4. ~world'.against \/ world'.sinceJump >= MinTranslation
      <3>1. world'.sinceJump \in Int
        BY WorldIs, MotionConstants DEF Worlds
      <3> QED
        BY <1>15, <3>1, MotionConstants DEF DriveIsMasked
    <2>5. q.lo \in Int /\ q.hi \in Int /\ q.lo <= -MinTranslation /\ q.hi <= 1 - MinTranslation
      BY <1>12, <2>3, <2>4 DEF LiesBehind
    <2>6. AnchoredAxisTranslation(q, MeasuredBox(edge)) >= MinTranslation
      BY <1>3, <2>5, MotionConstants DEF AnchoredAxisTranslation, Lesser
    <2>7. m.provable = "moved"
      BY <1>7, <2>6, ProvableIs
    <2> QED
      BY <2>1, <2>7
  <1>16. \A n \in 0..TranslationWindow : n <= m.statusAge \/ n = 0 => \E q \in m.samples : q.age = n
    BY <1>7, <1>8, <1>14, MotionConstants
  <1>17. \A q \in m.samples : LiesBehind(q, world')
    <2>1. LiesBehind(now, world')
      BY <1>8 DEF LiesBehind
    <2> QED
      BY <1>7, <1>12, <2>1
  <1> QED
    BY <1>15, <1>16, <1>17

\* A measured scan: the invariant, and what it says of the motion.
LEMMA MatchedInv ==
  ASSUME MotionInv, MatchedScan
  PROVE  /\ MotionInv' /\ track'.alive
         /\ track'.unseen = 0
         /\ track.motion # "static" /\ ~gapped /\ track'.motion = "static" => ~Moving \/ DriveIsMasked'
  <1>1. PICK edge \in Edges, jump \in Jumps, settled \in BOOLEAN :
           \E vote \in Votes(Measured(track, MeasuredBox(edge), Travel(jump), settled)), rmsSmall \in BOOLEAN :
             /\ WorldScan(edge, jump, FALSE, FALSE)
             /\ track' = Matched(Measured(track, MeasuredBox(edge), Travel(jump), settled), vote, rmsSmall)
    BY DEF MatchedScan
  <1>2. PICK m : m = Measured(track, MeasuredBox(edge), Travel(jump), settled)
    OBVIOUS
  <1>3. PICK vote \in Votes(m), rmsSmall \in BOOLEAN :
           WorldScan(edge, jump, FALSE, FALSE) /\ track' = Matched(m, vote, rmsSmall)
    BY <1>1, <1>2
  <1>4. TrackMotionTypeOK /\ Stands(track, world) /\ Drives(track, world, gapped) /\ Hides(track, world)
        /\ track.alive /\ track \in Live /\ gapped' = gapped
    BY MotionLive DEF MotionInv, MatchedScan
  <1>5. PICK noisy \in BOOLEAN, blind \in BOOLEAN : noisy = FALSE /\ blind = FALSE
    OBVIOUS
  <1>6. WorldScan(edge, jump, noisy, blind)
    BY <1>3, <1>5
  <1>7. /\ world' \in Worlds /\ world'.opponent = world.opponent /\ world'.stopped = world.stopped
        /\ world'.edge = edge /\ jump \in {-PoseJump, 0, PoseJump} /\ edge \in {"none", "front", "rear"}
        /\ world.opponent => edge = world.edge
    BY <1>4, <1>6, WorldIs
  <1>8. MeasuredBox(edge).lo \in Int /\ MeasuredBox(edge).hi \in Int /\ Travel(jump) \in Int
    BY <1>4, <1>7, BoxIs, TravelIs
  <1>9. m \in Live /\ m.motion = track.motion /\ m.votes = track.votes /\ m.rearBlind = 0 /\ m.refuted = 0
        /\ m.unseen = 0
    BY <1>2, <1>4, <1>8, MeasuredIs
  <1>10. vote \in Evidence /\ (vote = "dynamic" => Persistent(m))
    BY VoteIs
  <1>11. PICK t : t = Matched(m, vote, rmsSmall)
    OBVIOUS
  <1>12. /\ t \in Live /\ t.samples = m.samples /\ t.corroborated = m.corroborated
         /\ t.rearBlind = 0 /\ t.refuted = 0 /\ t.unseen = 0
         /\ \A i \in DOMAIN t.votes : t.votes[i] = vote \/ \E j \in DOMAIN m.votes : t.votes[i] = m.votes[j]
         /\ t.motion # "unknown" => t.status = "confirmed"
         /\ t.motion = "dynamic" =>
              m.motion = "dynamic" \/ \E i \in DOMAIN t.votes : t.votes[i] = "dynamic"
         /\ t.statusAge \in {None, 0, m.statusAge}
         /\ t.motion = "static" => m.motion = "static" \/ StaticAdmissible(m)
    BY <1>9, <1>10, <1>11, MatchedIs
  <1>13. track' = t
    BY <1>3, <1>11
  <1>14. TrackMotionTypeOK'
    BY <1>4, <1>7, <1>12, <1>13 DEF TrackMotionTypeOK
  <1>15. Stands(t, world')
    <2> SUFFICES ASSUME ~world.opponent PROVE Stands(t, world')
      BY <1>7 DEF Stands
    <2>1. /\ \A q \in m.samples : q.age <= world'.sinceJump => IsOfBox(q, edge)
          /\ m.corroborated # None =>
              /\ m.corroborated <= world'.sinceJump
              /\ \A q \in m.samples : q.age > world'.sinceJump - TranslationWindow
          /\ ~Persistent(m)
      BY <1>2, <1>4, <1>6, MeasuredStands
    <2>2. \A i \in DOMAIN track.votes : track.votes[i] # "dynamic"
      BY <1>4 DEF Stands
    <2>3. vote # "dynamic"
      BY <1>10, <2>1
    <2>4. \A i \in DOMAIN t.votes : t.votes[i] # "dynamic"
      BY <1>9, <1>12, <2>2, <2>3
    <2>5. t.motion # "dynamic"
      BY <1>4, <1>9, <1>12, <2>4 DEF Stands
    <2> QED
      BY <1>7, <1>12, <2>1, <2>4, <2>5 DEF Stands
  <1>16. Moving /\ ~gapped =>
           /\ \A q \in m.samples : LiesBehind(q, world')
           /\ \A n \in 0..TranslationWindow : n <= m.statusAge \/ n = 0 => \E q \in m.samples : q.age = n
           /\ ~StaticAdmissible(m) \/ DriveIsMasked'
    BY <1>2, <1>4, <1>6, MeasuredDrives
  <1>17. Drives(t, world', gapped')
    <2>1. \A n \in 0..TranslationWindow : n <= t.statusAge => n <= m.statusAge \/ n = 0
      BY <1>12 DEF None
    <2> QED
      BY <1>4, <1>7, <1>12, <1>16, <2>1 DEF Drives, Moving
  <1>18. Hides(t, world')
    BY <1>7, <1>12, MotionConstants DEF Hides, Worlds
  <1>19. track.motion # "static" /\ ~gapped /\ t.motion = "static" => ~Moving \/ DriveIsMasked'
    BY <1>9, <1>12, <1>16
  <1>20. t.alive
    BY <1>12, LiveIs
  <1> QED
    BY <1>12, <1>13, <1>14, <1>15, <1>17, <1>18, <1>19, <1>20 DEF MotionInv

\* A missed scan: the invariant, and who may lose a held box.
LEMMA MissedInv ==
  ASSUME MotionInv, MissedScan
  PROVE  /\ MotionInv'
         /\ track'.alive => track'.motion = track.motion
         /\ track.motion = "static" /\ ~track'.alive /\ ~world'.gone /\ ~world.opponent =>
              track.unseen + 1 >= LostHold \/ world'.blindRun >= RearBlindFrames
         /\ OnStatic(track) /\ track'.alive /\ HoldEligible(track) /\ track.unseen + 1 < LostHold =>
              OnStatic(track')
  <1>1. PICK jump \in Jumps, refutes \in BOOLEAN, blind \in BOOLEAN :
           LET empty == world.gone \/ Moving IN
           /\ refutes => ~blind /\ (empty \/ ~world.noisy)
           /\ WorldScan(world.edge, jump, refutes /\ ~empty, blind)
           /\ track' = Unmatched(track, Travel(jump), refutes, blind)
    BY DEF MissedScan
  <1>2. TrackMotionTypeOK /\ Stands(track, world) /\ Drives(track, world, gapped) /\ Hides(track, world)
        /\ track.alive /\ track \in Live /\ gapped' = TRUE
    BY MotionLive DEF MotionInv, MissedScan
  <1>3. PICK edge \in Edges : edge = world.edge
    BY <1>2 DEF Edges, TrackMotionTypeOK, Worlds
  <1>4. PICK noisy \in BOOLEAN : noisy <=> (refutes /\ ~(world.gone \/ Moving))
    OBVIOUS
  <1>5. WorldScan(edge, jump, noisy, blind)
    <2>1. noisy = (refutes /\ ~(world.gone \/ Moving))
      BY <1>4 DEF Moving
    <2> QED
      BY <1>1, <1>3, <2>1
  <1>6. /\ world' \in Worlds /\ world'.opponent = world.opponent /\ world'.stopped = world.stopped
        /\ world'.gone = world.gone /\ world'.edge = world.edge /\ world'.noisy = noisy
        /\ jump \in {-PoseJump, 0, PoseJump}
        /\ jump # 0 => world'.sinceJump = 0 /\ world.sinceJump = JumpGap
        /\ jump = 0 => /\ world.sinceJump < JumpGap => world'.sinceJump = world.sinceJump + 1
                       /\ world.sinceJump = JumpGap => world'.sinceJump = JumpGap
        /\ blind => world'.blindRun = world.blindRun + 1 \/ world'.blindRun = RearBlindFrames
    BY <1>2, <1>3, <1>5, WorldIs
  <1>7. PICK travel \in Int : travel = Travel(jump)
    BY <1>2, <1>6, TravelIs
  <1>8. PICK u : u = Unmatched(track, travel, refutes, blind)
    OBVIOUS
  <1>9. track' = u
    BY <1>1, <1>7, <1>8
  <1>10. /\ u = NoTrack \/ (u \in Live /\ u.alive)
         /\ u.alive =>
              /\ u.motion = track.motion /\ u.votes = track.votes /\ u.samples = Carried(track.samples, travel)
              /\ u.corroborated = Aged(track.corroborated, Persistence)
              /\ track.status = "confirmed" => u.status = "confirmed"
              /\ u.rearBlind = 0 \/ (blind /\ u.rearBlind = track.rearBlind + 1)
              /\ u.refuted = 0 \/ (refutes /\ u.refuted = track.refuted + 1)
              /\ HoldEligible(track) /\ track.unseen + 1 < LostHold => u.stable = track.stable
         /\ HoldEligible(track) /\ track.unseen + 1 < LostHold /\ ~u.alive =>
              \/ refutes /\ track.refuted + 1 >= RefuteFrames
              \/ blind /\ track.rearBlind + 1 >= RearBlindFrames
    BY <1>2, <1>8, UnmatchedIs
  <1>11. TrackMotionTypeOK'
    BY <1>2, <1>6, <1>9, <1>10 DEF TrackMotionTypeOK
  <1>12. Stands(u, world')
    <2> SUFFICES ASSUME ~world.opponent, u.alive PROVE Stands(u, world')
      BY <1>6 DEF Stands
    <2>1. /\ \A q \in u.samples : q.age <= world'.sinceJump => IsOfBox(q, world'.edge)
          /\ track.corroborated # None =>
               /\ \A q \in u.samples : q.age > world'.sinceJump - TranslationWindow
               /\ jump # 0 => u.samples = {}
      <3>1. /\ \A q \in Carried(track.samples, Travel(jump)) :
                 q.age <= world'.sinceJump => IsOfBox(q, edge)
            /\ track.corroborated # None =>
                 /\ \A q \in Carried(track.samples, Travel(jump)) :
                      q.age > world'.sinceJump - TranslationWindow
                 /\ jump # 0 => Carried(track.samples, Travel(jump)) = {}
        BY <1>2, <1>5, SamplesStand
      <3>2. u.samples = Carried(track.samples, Travel(jump)) /\ world'.edge = edge
        BY <1>3, <1>6, <1>7, <1>10
      <3> QED
        BY <3>1, <3>2
    <2>2. track.corroborated \in None..Persistence
      BY <1>2, LiveIs
    <2>3. u.corroborated # None => track.corroborated # None
      BY <1>10 DEF Aged
    <2>4. ASSUME u.corroborated # None
          PROVE  u.corroborated <= world'.sinceJump \/ world'.sinceJump >= TranslationWindow \/ u.samples = {}
      <3>1. CASE jump # 0
        BY <2>1, <2>3, <2>4, <3>1
      <3>2. CASE jump = 0
        <4>1. u.corroborated \in 0..Persistence /\ u.corroborated <= track.corroborated + 1
          BY <1>10, <2>2, <2>3, <2>4, AgedIs, MotionConstants
        <4>2. \/ track.corroborated <= world.sinceJump
              \/ world.sinceJump >= TranslationWindow
              \/ track.samples = {}
          BY <1>2, <2>3, <2>4 DEF Stands
        <4>3. track.samples = {} => u.samples = {}
          BY <1>10 DEF Carried
        <4>4. world.sinceJump \in 0..JumpGap /\ world'.sinceJump \in 0..JumpGap
          BY <1>2, <1>6 DEF TrackMotionTypeOK, Worlds
        <4> QED
          BY <1>6, <2>2, <3>2, <4>1, <4>2, <4>3, <4>4, MotionConstants DEF None
      <3> QED
        BY <3>1, <3>2
    <2>5. \A i \in DOMAIN u.votes : u.votes[i] # "dynamic"
      BY <1>2, <1>10 DEF Stands
    <2>6. u.motion # "dynamic"
      BY <1>2, <1>10 DEF Stands
    <2> QED
      BY <2>1, <2>3, <2>4, <2>5, <2>6 DEF Stands
  <1>13. Drives(u, world', gapped')
    BY <1>2, <1>6 DEF Drives
  <1>14. track.rearBlind \in Nat /\ track.refuted \in Nat /\ track.unseen \in Nat
         /\ world.blindRun \in Nat /\ world'.blindRun \in Nat
    BY <1>2, <1>6, LiveIs, MotionConstants DEF TrackMotionTypeOK, Worlds
  <1>15. ~world.gone /\ ~world.opponent /\ refutes => ~world.noisy /\ noisy
    BY <1>1, <1>4 DEF Moving
  <1>16. Hides(u, world')
    <2> SUFFICES ASSUME u.alive PROVE Hides(u, world')
      BY DEF Hides
    <2>1. u.motion # "unknown" => u.status = "confirmed"
      BY <1>2, <1>10 DEF Hides
    <2>2. u.rearBlind <= world'.blindRun
      <3>1. u \in Live
        BY <1>10 DEF NoTrack
      <3>2. u.rearBlind \in 0..(RearBlindFrames - 1) /\ track.rearBlind <= world.blindRun
        BY <1>2, <3>1, LiveIs DEF Hides
      <3> QED
        BY <1>6, <1>10, <1>14, <3>2, MotionConstants
    <2>3. ASSUME ~world'.gone, ~world'.opponent PROVE u.refuted <= 1 /\ (u.refuted = 1 => world'.noisy)
      <3>1. CASE u.refuted = 0
        BY <3>1
      <3>2. CASE refutes /\ u.refuted = track.refuted + 1
        <4>1. ~world.noisy /\ noisy
          BY <1>6, <1>15, <2>3, <3>2
        <4>2. track.refuted = 0
          BY <1>2, <1>6, <1>14, <2>3, <4>1 DEF Hides
        <4> QED
          BY <1>6, <3>2, <4>1, <4>2
      <3> QED
        BY <1>10, <3>1, <3>2
    <2> QED
      BY <2>1, <2>2, <2>3 DEF Hides
  <1>17. ASSUME track.motion = "static", ~u.alive, ~world'.gone, ~world.opponent, ~(track.unseen + 1 >= LostHold)
         PROVE  world'.blindRun >= RearBlindFrames
    <2>1. HoldEligible(track) /\ track.unseen + 1 < LostHold
      BY <1>2, <1>14, <1>17, MotionConstants DEF HoldEligible, Hides
    <2>2. CASE refutes /\ track.refuted + 1 >= RefuteFrames
      <3>1. ~world.noisy /\ track.refuted <= 1 /\ (track.refuted = 1 => world.noisy)
        BY <1>2, <1>6, <1>15, <1>17, <2>2 DEF Hides
      <3> QED
        BY <1>14, <2>2, <3>1, MotionConstants
    <2>3. CASE blind /\ track.rearBlind + 1 >= RearBlindFrames
      <3>1. track.rearBlind <= world.blindRun
        BY <1>2 DEF Hides
      <3> QED
        BY <1>6, <1>14, <2>3, <3>1, MotionConstants
    <2> QED
      BY <1>10, <1>17, <2>1, <2>2, <2>3
  <1>18. OnStatic(track) /\ u.alive /\ HoldEligible(track) /\ track.unseen + 1 < LostHold => OnStatic(u)
    BY <1>10 DEF OnStatic, Confirmed
  <1>19. MotionInv'
    BY <1>9, <1>11, <1>12, <1>13, <1>16 DEF MotionInv
  <1> QED
    BY <1>9, <1>10, <1>17, <1>18, <1>19

\* What the world does between two scans leaves the track alone.
LEMMA WorldInv ==
  ASSUME MotionInv, Vanish \/ Stop \/ UNCHANGED motionVars
  PROVE  MotionInv' /\ track' = track
  <1>1. TrackMotionTypeOK /\ Stands(track, world) /\ Drives(track, world, gapped) /\ Hides(track, world)
        /\ world \in Worlds
    BY DEF MotionInv, TrackMotionTypeOK
  <1>2. CASE UNCHANGED motionVars
    BY <1>1, <1>2 DEF motionVars, MotionInv, TrackMotionTypeOK
  <1>3. CASE Vanish
    <2>1. world' = [world EXCEPT !.gone = TRUE] /\ track' = track /\ gapped' = gapped
      BY <1>3 DEF Vanish
    <2>2. /\ world' \in Worlds /\ world'.opponent = world.opponent /\ world'.stopped = world.stopped
          /\ world'.gone = TRUE /\ world'.edge = world.edge /\ world'.sinceJump = world.sinceJump
          /\ world'.against = world.against /\ world'.blindRun = world.blindRun
      BY ONLY <1>1, <2>1 DEF Worlds
    <2>3. TrackMotionTypeOK' /\ Stands(track, world') /\ Drives(track, world', gapped) /\ Hides(track, world')
      BY <1>1, <2>1, <2>2 DEF TrackMotionTypeOK, Stands, Drives, LiesBehind, Hides
    <2> QED
      BY <2>1, <2>3 DEF MotionInv
  <1>4. CASE Stop
    <2>1. world' = [world EXCEPT !.stopped = TRUE] /\ track' = track /\ gapped' = gapped
      BY <1>4 DEF Stop
    <2>2. /\ world' \in Worlds /\ world'.opponent = world.opponent /\ world'.stopped = TRUE
          /\ world'.gone = world.gone /\ world'.edge = world.edge /\ world'.sinceJump = world.sinceJump
          /\ world'.against = world.against /\ world'.blindRun = world.blindRun /\ world'.noisy = world.noisy
      BY ONLY <1>1, <2>1 DEF Worlds
    <2>3. TrackMotionTypeOK' /\ Stands(track, world') /\ Drives(track, world', gapped) /\ Hides(track, world')
      BY <1>1, <2>1, <2>2 DEF TrackMotionTypeOK, Stands, Drives, LiesBehind, Hides
    <2> QED
      BY <2>1, <2>3 DEF MotionInv
  <1> QED
    BY <1>2, <1>3, <1>4

LEMMA MotionInitInv == TrackMotionInit => MotionInv
  <1> SUFFICES ASSUME TrackMotionInit PROVE MotionInv
    OBVIOUS
  <1>1. world \in Worlds /\ world.edge = "none"
    <2>1. JumpGap \in 0..JumpGap /\ 0 \in 0..RearBlindFrames
      BY MotionConstants
    <2>2. world \in [opponent : BOOLEAN, stopped : {FALSE}, gone : {FALSE}, edge : {"none"},
                     sinceJump : {JumpGap}, against : {FALSE}, noisy : {FALSE}, blindRun : {0}]
      BY DEF TrackMotionInit, WorldInit
    <2> QED
      BY ONLY <2>1, <2>2 DEF Worlds
  <1>2. track = NoTrack /\ gapped = FALSE /\ ~track.alive
    BY DEF TrackMotionInit, NoTrack
  <1> QED
    BY <1>1, <1>2 DEF MotionInv, TrackMotionTypeOK, Stands, Drives, Hides

\* MotionInv is inductive, and a step from it does what the action properties ask.
LEMMA MotionStep ==
  ASSUME MotionInv, [TrackMotionNext]_motionVars
  PROVE  /\ MotionInv'
         /\ (/\ track.alive /\ track.motion # "static" /\ ~gapped
             /\ track'.alive /\ track'.motion = "static") => ~Moving \/ DriveIsMasked'
         /\ (/\ track.alive /\ track.motion = "static"
             /\ ~track'.alive /\ ~world'.gone /\ ~world.opponent) =>
              track.unseen + 1 >= LostHold \/ world'.blindRun >= RearBlindFrames
         /\ (/\ OnStatic(track) /\ track'.alive /\ track'.unseen > track.unseen
             /\ HoldEligible(track) /\ track.unseen + 1 < LostHold) => OnStatic(track')
  <1>1. CASE SpawnScan
    <2>1. ~track.alive
      BY <1>1 DEF SpawnScan
    <2> QED
      BY <1>1, <2>1, SpawnInv DEF OnStatic, Confirmed
  <1>2. CASE MatchedScan
    <2>1. track.unseen \in Nat
      BY <1>2, MotionLive, LiveIs DEF MotionInv, MatchedScan
    <2>2. ~(track'.unseen > track.unseen)
      BY <1>2, <2>1, MatchedInv
    <2> QED
      BY <1>2, <2>2, MatchedInv
  <1>3. CASE MissedScan
    BY <1>3, MissedInv
  <1>4. CASE Vanish \/ Stop \/ UNCHANGED motionVars
    BY <1>4, WorldInv
  <1> QED
    BY <1>1, <1>2, <1>3, <1>4 DEF TrackMotionNext

\* A box is not taken for an opponent however it is revealed, whatever the velocity
\* filter votes and although the pose jumps either way; and an opponent that is
\* measured at every scan is not taken for a box while it drives, but for the scans
\* after a jump against its drive: for every window, persistence, number of votes and
\* length of the jump, of jumps two windows apart.
THEOREM MotionToldRight == TrackMotionSpec => MotionIsTold
  <1>1. TrackMotionSpec => []MotionInv
    <2>1. MotionInv /\ [TrackMotionNext]_motionVars => MotionInv'
      BY MotionStep
    <2> QED
      BY <2>1, MotionInitInv, PTL DEF TrackMotionSpec
  <1>2. MotionInv => TrackMotionTypeOK /\ JumpIsNotMotion
    BY DEF MotionInv, Stands, JumpIsNotMotion
  <1>3. MotionInv /\ [TrackMotionNext]_motionVars =>
          [ (/\ track.alive /\ track.motion # "static" /\ ~gapped
             /\ track'.alive /\ track'.motion = "static") => ~Moving \/ DriveIsMasked' ]_motionVars
    BY MotionStep
  <1>4. TrackMotionSpec => DrivingIsNotStatic
    BY <1>1, <1>3, PTL DEF TrackMotionSpec, DrivingIsNotStatic
  <1> QED
    BY <1>1, <1>2, <1>4, PTL DEF MotionIsTold

\* The safety half of HoldIsRight: a standing box keeps its track through any dropout
\* shorter than the hold, unless it was behind the scanner for a whole run of scans, and
\* stays on its topic as long as it is held.
THEOREM HeldBoxesStay == TrackMotionSpec => FlickerKeepsBox /\ OcclusionKeepsItPublished
  <1>1. TrackMotionSpec => []MotionInv
    <2>1. MotionInv /\ [TrackMotionNext]_motionVars => MotionInv'
      BY MotionStep
    <2> QED
      BY <2>1, MotionInitInv, PTL DEF TrackMotionSpec
  <1>2. MotionInv /\ [TrackMotionNext]_motionVars =>
          [ (/\ track.alive /\ track.motion = "static"
             /\ ~track'.alive /\ ~world'.gone /\ ~world.opponent) =>
               \/ track.unseen + 1 >= LostHold
               \/ world'.blindRun >= RearBlindFrames ]_motionVars
    BY MotionStep
  <1>3. MotionInv /\ [TrackMotionNext]_motionVars =>
          [ (/\ OnStatic(track) /\ track'.alive /\ track'.unseen > track.unseen
             /\ HoldEligible(track) /\ track.unseen + 1 < LostHold)
               => OnStatic(track') ]_motionVars
    BY MotionStep
  <1>4. TrackMotionSpec => FlickerKeepsBox
    BY <1>1, <1>2, PTL DEF TrackMotionSpec, FlickerKeepsBox
  <1>5. TrackMotionSpec => OcclusionKeepsItPublished
    BY <1>1, <1>3, PTL DEF TrackMotionSpec, OcclusionKeepsItPublished
  <1> QED
    BY <1>4, <1>5
=============================================================================
