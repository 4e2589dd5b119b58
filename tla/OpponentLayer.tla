---------------------------- MODULE OpponentLayer ----------------------------
(* The third output layer of the detector, /opp_obs                         *)
(* (obstacle_detector/src/obstacle_detector_node.cpp): which moving         *)
(* obstacle is the opponent, whether the car's own position is fresh enough *)
(* to say so, and the latch of the interference check.  The state machine   *)
(* and the cruise controller drive by this topic.                           *)
(*                                                                          *)
(* Stations of the ring are cells; the moving obstacles of a scan are an    *)
(* input, with the bumper gap the check derives from each.                  *)
EXTENDS Integers, FiniteSets

CONSTANTS
  RingLength,      \* frenet_.raceline_length()
  OpponentIds,     \* the public IDs of moving obstacles
  FrontOffset,     \* half the opponent's length and interference_ego_front_offset_m
  MaxClosure,      \* the farthest a closing gap is predicted ahead
  EnterDistance,   \* interference_distance_m
  ExitDistance,    \* with interference_distance_margin_ratio
  MotionTimeout    \* meas_motion_timeout, in scans

ASSUME OpponentLayerAssumption ==
  /\ OpponentIds \subseteq Nat
  /\ {RingLength, ExitDistance} \subseteq Nat \ {0}
  /\ {FrontOffset, MaxClosure, EnterDistance, MotionTimeout} \subseteq Nat
  /\ EnterDistance < ExitDistance

VARIABLES
  egoS,      \* ego_s_, or NoStation
  egoAge,    \* the scans since ego_s_stamp_, up to the timeout and one
  latch,     \* opponent_interference_id_, Nobody when not latched
  published, \* what the last scan on this reference sent on /opp_obs
  earned     \* history: the ID flagged without a break since it was close

layerVars == <<egoS, egoAge, latch, published, earned>>

NoStation == -1
Nobody    == -1
Stations  == 0..(RingLength - 1)

\* "none": an empty /opp_obs; "silent": this scan published none.
NoOpponent == [kind |-> "none"]
Silence    == [kind |-> "silent"]

ForwardDistance(s, from) == (s - from) % RingLength
IsAhead(s) == LET ahead == ForwardDistance(s, egoS)
              IN  ahead > 0 /\ 2 * ahead < RingLength

EgoFresh == egoS # NoStation /\ egoAge <= MotionTimeout

-----------------------------------------------------------------------------
(* What a scan's dynamic layer may hold: at most two merged obstacles with  *)
(* IDs of their own.                                                        *)

Movers == [id : OpponentIds, s : Stations, uncertainty : 0..1,
           overlaps : BOOLEAN, closure : 0..MaxClosure]

MoverSets == {{}} \cup {{m} : m \in Movers} \cup
             { {m, n} : m \in Movers,
                        n \in {k \in Movers : k.uncertainty = 0 /\ k.closure = 0} }

DistinctIds(movers) == \A m, n \in movers : m.id = n.id => m = n

\* Mutant: a car just behind ranks as almost a lap ahead.
CandidatesAllRound(movers) == movers

\* selectOpponent: the nearest one ahead; before any odometry, the most certain.
Candidates(movers) ==
  IF egoS = NoStation THEN movers ELSE {m \in movers : IsAhead(m.s)}

Key(m) == IF egoS = NoStation THEN m.uncertainty ELSE ForwardDistance(m.s, egoS)

SelectableOpponents(movers) ==
  {m \in Candidates(movers) : \A n \in Candidates(movers) : Key(m) <= Key(n)}

-----------------------------------------------------------------------------
(* isOpponentInterfering: the hysteresis is for the opponent it was latched *)
(* for.                                                                     *)

RearGap(m) == LET gap == ForwardDistance(m.s, egoS) - FrontOffset
              IN  IF gap < 0 THEN 0 ELSE gap

PredictedGap(m) == RearGap(m) - m.closure

\* Mutant: whoever comes next inherits the hysteresis.
ThresholdOfAnyLatch(m) == IF latch # Nobody THEN ExitDistance ELSE EnterDistance

DistanceThreshold(m) == IF latch = m.id THEN ExitDistance ELSE EnterDistance

IsInterfering(m) ==
  /\ IsAhead(m.s)
  /\ m.overlaps
  /\ PredictedGap(m) <= DistanceThreshold(m)

\* The latch after a scan: released without an opponent and without fresh
\* odometry, else it follows the flag.
LatchAfter(fresh, m) == IF fresh /\ IsInterfering(m) THEN m.id ELSE Nobody

-----------------------------------------------------------------------------
OpponentLayerInit ==
  /\ egoS = NoStation
  /\ egoAge = 0
  /\ latch = Nobody
  /\ published = Silence
  /\ earned = Nobody

Older == IF egoS = NoStation \/ egoAge > MotionTimeout THEN egoAge ELSE egoAge + 1

\* scanCallback, from the dynamic layer on.
LayerScanEmpty ==
  /\ latch' = Nobody
  /\ published' = IF EgoFresh THEN NoOpponent ELSE Silence
  /\ earned' = Nobody
  /\ egoAge' = Older
  /\ UNCHANGED egoS

LayerScanOpponent(m) ==
  /\ latch' = LatchAfter(EgoFresh, m)
  /\ published' = IF EgoFresh
                  THEN [kind |-> "opponent", id |-> m.id, gap |-> PredictedGap(m),
                        ahead |-> ForwardDistance(m.s, egoS),
                        interfering |-> IsInterfering(m)]
                  ELSE Silence
  /\ earned' = IF EgoFresh /\ IsInterfering(m) /\
                  (PredictedGap(m) <= EnterDistance \/ earned = m.id)
               THEN m.id ELSE Nobody
  /\ egoAge' = Older
  /\ UNCHANGED egoS

LayerScan ==
  \E movers \in MoverSets :
    /\ DistinctIds(movers)
    /\ IF SelectableOpponents(movers) = {} THEN LayerScanEmpty
       ELSE \E m \in SelectableOpponents(movers) : LayerScanOpponent(m)

\* A scan without a transform from map to scanner (lookupScanToMap), or before
\* the reference, is dropped: it publishes nothing and ticks nobody.
DroppedScan ==
  /\ egoAge' = Older
  /\ UNCHANGED <<egoS, latch, published, earned>>

\* applyEgoOdometry; a position that cannot be converted leaves the old one.
EgoOdometry ==
  \E s \in Stations :
    /\ egoS' = s /\ egoAge' = 0
    /\ UNCHANGED <<latch, published, earned>>

\* globalWpntsCallback with a new reference.
NewReference ==
  /\ egoS' = NoStation /\ egoAge' = 0
  /\ latch' = Nobody
  /\ published' = Silence
  /\ earned' = Nobody

OpponentLayerNext == LayerScan \/ DroppedScan \/ EgoOdometry \/ NewReference

OpponentLayerSpec == OpponentLayerInit /\ [][OpponentLayerNext]_layerVars

-----------------------------------------------------------------------------
(* Type invariant. *)
OpponentLayerTypeOK ==
  /\ egoS \in Stations \cup {NoStation}
  /\ egoAge \in 0..(MotionTimeout + 1)
  /\ {latch, earned} \subseteq OpponentIds \cup {Nobody}
  /\ published.kind \in {"none", "silent", "opponent"}

-----------------------------------------------------------------------------
(* Properties. *)

\* An opponent is flagged beyond the entry distance only when this very
\* opponent was flagged at every scan since it was within it: the hysteresis is
\* not inherited by another opponent, nor across an empty layer, stale odometry
\* or a new reference.  (obstacle_detector_node.cpp:1388-1396, 1818-1833)
HysteresisIsEarned ==
  published.kind = "opponent" /\ published.interfering
    => published.gap <= EnterDistance \/ earned = published.id

\* Whatever is sent as the opponent is ahead of the car by the car's position
\* of that moment, in the nearer half of the lap, and the car knew that
\* position.  (obstacle_detector_node.cpp:1302-1336, 1788-1837)
OpponentIsAhead ==
  [][ (published' # published /\ published'.kind = "opponent") =>
        /\ egoS # NoStation /\ egoAge <= MotionTimeout
        /\ published'.ahead > 0 /\ 2 * published'.ahead < RingLength ]_layerVars

\* The one that is sent as the opponent is the one in front, flagged for what it did.
OpponentIsEarned == []HysteresisIsEarned /\ OpponentIsAhead
=============================================================================
