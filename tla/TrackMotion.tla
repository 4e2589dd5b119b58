---------------------------- MODULE TrackMotion ----------------------------
(* What the detector believes of ONE obstacle, scan after scan              *)
(* (obstacle_detector/src/obstacle_tracker.cpp): whether its track is       *)
(* confirmed, whether the obstacle stands or moves, how long a track that   *)
(* is no longer measured is held, and on which topic it is published.       *)
(*                                                                          *)
(* Time is counted in scans.  The Kalman filters are not modelled: what     *)
(* their velocity test answers is an input of every measured scan.  The     *)
(* measured box is an interval of one axis, in a frame that moves with the  *)
(* measurement, so a retained sample shifts backwards when the obstacle     *)
(* drives on, and either way when the car's pose estimate jumps.  The       *)
(* shortest length that matters is one cell.                                *)
EXTENDS Integers, Sequences, FiniteSets

CONSTANTS
  TranslationWindow,     \* translation_window_sec
  Persistence,           \* dynamic_translation_persistence_sec
  MinTranslation,        \* dynamic_min_translation_m
  ConfirmationWindow, MinHitsConfirm,
  DynamicVoteWindow, DynamicVoteRequired,
  StaticVoteWindow, StaticVoteRequired,
  StaticMinObservations, \* positions behind the RMS
  StaticMinObservation,  \* static_min_observation_sec
  ReentryObservations,   \* dynamic_to_static_min_observations
  ReentryVotes,          \* dynamic_to_static_vote_required
  LostHold,              \* static_lost_hold_sec
  TtlStatic, TtlDynamic,
  RefuteFrames, RearBlindFrames, StabilityFrames,
  PoseJump               \* how far one jump of the pose estimate throws a box

ASSUME TrackMotionAssumption ==
  /\ {TranslationWindow, MinTranslation, ConfirmationWindow, MinHitsConfirm,
      DynamicVoteWindow, DynamicVoteRequired, StaticVoteWindow,
      StaticVoteRequired, StaticMinObservations, ReentryObservations,
      ReentryVotes, LostHold, TtlStatic, TtlDynamic, RefuteFrames,
      RearBlindFrames, StabilityFrames, PoseJump} \subseteq Nat \ {0}
  /\ Persistence \in Nat /\ Persistence > TranslationWindow
  /\ StaticMinObservation \in Nat /\ StaticMinObservation > TranslationWindow
  /\ MinTranslation <= TranslationWindow   \* an opponent drives a cell per scan
  /\ RefuteFrames > 1                      \* one scan is no streak

VARIABLES
  world,     \* the obstacle and the pose estimate; no part of the detector
  track,     \* the Track record, or NoTrack
  gapped     \* history: a scan has missed the obstacle since the track's birth

motionVars == <<world, track, gapped>>

Evidence == {"static", "dynamic", "uncertain"}
Statuses == {"raw", "tentative", "confirmed"}
Motions  == {"unknown", "static", "dynamic"}
None     == -1
NoTrack  == [alive |-> FALSE]

Lesser(a, b)  == IF a < b THEN a ELSE b
Greater(a, b) == IF a < b THEN b ELSE a
Capped(n, cap) == Lesser(n, cap)
Aged(age, cap) == IF age = None THEN None ELSE Capped(age + 1, cap)
LastOf(window, s) == SubSeq(s, Greater(1, Len(s) - window + 1), Len(s))
CountOf(x, s) == Cardinality({i \in DOMAIN s : s[i] = x})

-----------------------------------------------------------------------------
(* The world.  A box stands; an opponent drives one cell per scan until it  *)
(* stops.  What stands is revealed further at one of its two edges, once;   *)
(* the pose estimate jumps, forwards or backwards, but not twice within two *)
(* translation windows: a sample that one jump moved would carry the proof  *)
(* over to the next.                                                        *)

JumpGap == 2 * TranslationWindow - 1

WorldInit ==
  world \in [opponent : BOOLEAN, stopped : {FALSE}, gone : {FALSE},
             edge : {"none"}, sinceJump : {JumpGap}, against : {FALSE},
             noisy : {FALSE}, blindRun : {0}]

Moving  == world.opponent /\ ~world.stopped
CanJump == world.sinceJump = JumpGap

\* How far this scan's pose is off the last one's, along the drive of the opponent.
Jumps == IF CanJump THEN {-PoseJump, 0, PoseJump} ELSE {0}

\* The box this scan measures, in the frame of the measurement.
MeasuredBox(edge) ==
  [lo |-> IF edge = "rear" THEN -1 ELSE 0, hi |-> IF edge = "front" THEN 2 ELSE 1]

Travel(jump) == (IF Moving THEN 1 ELSE 0) + jump

\* The samples that survive the window at this scan.  The code drops the old
\* ones only when it measures again; nothing reads them before.
Carried(samples, travel) ==
  {[age |-> q.age + 1, lo |-> q.lo - travel, hi |-> q.hi - travel] :
     q \in {p \in samples : p.age < TranslationWindow}}

-----------------------------------------------------------------------------
(* The evidence. *)

\* anchoredAxisTranslation: only motion shared by both edges counts.
AnchoredAxisTranslation(old, new) ==
  LET dlo == new.lo - old.lo
      dhi == new.hi - old.hi
  IN  CASE dlo > 0 /\ dhi > 0 -> Lesser(dlo, dhi)
        [] dlo < 0 /\ dhi < 0 -> Lesser(-dlo, -dhi)
        [] OTHER -> 0

\* provable_translation_m against dynamic_min_translation_m.
ProvableTranslation(samples, box) ==
  CASE samples = {} -> "none"
    [] \E q \in samples : AnchoredAxisTranslation(q, box) >= MinTranslation -> "moved"
    [] OTHER -> "still"

\* Mutant: the clock of the proof is not restarted when the proof lapses.
CorroboratedEver(t, provable) ==
  IF provable # "moved" THEN Aged(t.corroborated, Persistence)
  ELSE IF t.corroborated = None THEN 0 ELSE Aged(t.corroborated, Persistence)

\* updateTranslationEvidence: the scans for which the proof has now held.
CorroboratedFor(t, provable) ==
  IF provable # "moved" THEN None
  ELSE IF t.corroborated = None THEN 0 ELSE Aged(t.corroborated, Persistence)

\* evaluateVelocityEvidence or'ed with evaluateFrenetVelocityEvidence, which
\* can only ever add a dynamic vote.
CombinedEvidence(mapEvidence, frenetDynamic) ==
  IF frenetDynamic THEN "dynamic" ELSE mapEvidence

\* The vote that is cast: a dynamic one needs a translation that persists and
\* a car that is not braking or launching hard.
VotedEvidence(evidence, persistent, egoTransient) ==
  IF evidence = "dynamic" /\ (~persistent \/ egoTransient)
  THEN "uncertain" ELSE evidence

\* updateTrackStatus
StatusAfter(t, confirmation, hits, measured) ==
  IF t.status = "confirmed" \/ (measured /\ CountOf(TRUE, confirmation) >= MinHitsConfirm)
  THEN "confirmed"
  ELSE IF hits >= 2 THEN "tentative" ELSE "raw"

\* holdEligibleWhileUnmeasured
HoldEligible(t) ==
  /\ t.status = "confirmed"
  /\ \/ t.motion = "static"
     \/ t.motion = "unknown" /\ t.provable = "still"

-----------------------------------------------------------------------------
(* classify *)

\* Mutant: the gates that count frames are thought to be enough.
AdmissibleAtBirth(t) == t.provable # "moved"

\* translation_proves_stationary and observation_span_satisfied
StaticAdmissible(t) ==
  /\ t.statusAge >= StaticMinObservation
  /\ t.provable = "still"

DynamicVotes(t) == CountOf("dynamic", LastOf(DynamicVoteWindow, t.votes))
StaticVotes(t)  == CountOf("static", LastOf(StaticVoteWindow, t.votes))

\* The motion a confirmed, measured track has after this vote.  rmsSmall: the
\* position RMS is under the threshold that applies.
MotionAfter(t, rmsSmall) ==
  CASE t.motion # "dynamic" /\ DynamicVotes(t) >= DynamicVoteRequired -> "dynamic"
    [] /\ t.motion = "dynamic"
       /\ StaticAdmissible(t) /\ rmsSmall
       /\ t.observations >= ReentryObservations
       /\ StaticVotes(t) >= ReentryVotes
       /\ t.positions >= StaticMinObservations -> "static"
    [] /\ t.motion = "unknown"
       /\ DynamicVotes(t) < DynamicVoteRequired
       /\ StaticAdmissible(t) /\ rmsSmall
       /\ StaticVotes(t) >= StaticVoteRequired
       /\ t.positions >= StaticMinObservations -> "static"
    [] OTHER -> t.motion

\* classify of a track that was measured at this scan.
Classified(t, vote, rmsSmall) ==
  IF t.status # "confirmed"
  THEN [t EXCEPT !.motion = "unknown", !.statusAge = None]
  ELSE LET voted == [t EXCEPT
             !.statusAge = IF t.statusAge = None THEN 0 ELSE t.statusAge,
             !.votes = LastOf(Greater(DynamicVoteWindow, StaticVoteWindow),
                              Append(t.votes, vote)),
             !.observations = Capped(t.observations + 1, ReentryObservations)]
           motion == MotionAfter(voted, rmsSmall)
       IN  IF motion = voted.motion THEN voted
           ELSE [voted EXCEPT !.motion = motion, !.observations = 0, !.statusAge = 0]

TtlOf(motion) == IF motion = "dynamic" THEN TtlDynamic ELSE TtlStatic

-----------------------------------------------------------------------------
(* One scan, for the track. *)

\* A detection that no track takes.
Spawned(box) ==
  [alive |-> TRUE, status |-> StatusAfter([status |-> "raw"], <<TRUE>>, 1, TRUE),
   motion |-> "unknown", confirmation |-> <<TRUE>>, hits |-> 1, votes |-> <<>>,
   samples |-> {}, provable |-> "none", corroborated |-> None,
   statusAge |-> None, observations |-> 0, positions |-> 1, ttl |-> TtlStatic,
   unseen |-> 0, refuted |-> 0, rearBlind |-> 0, stable |-> 0]

\* The matched branch of update, up to the vote.
Measured(t, box, travel, settled) ==
  LET samples  == Carried(t.samples, travel)
      provable == ProvableTranslation(samples, box)
      confirmation == LastOf(ConfirmationWindow, Append(t.confirmation, TRUE))
      hits == Capped(t.hits + 1, 2)
  IN  [t EXCEPT
        !.samples = samples \cup {[age |-> 0, lo |-> box.lo, hi |-> box.hi]},
        !.provable = provable, !.corroborated = CorroboratedFor(t, provable),
        !.confirmation = confirmation, !.hits = hits,
        !.status = StatusAfter(t, confirmation, hits, TRUE),
        !.statusAge = Aged(t.statusAge, StaticMinObservation),
        !.positions = Capped(t.positions + 1, StaticMinObservations),
        !.stable = IF settled THEN Capped(t.stable + 1, StabilityFrames) ELSE 0,
        !.unseen = 0, !.refuted = 0, !.rearBlind = 0]

\* translation_evidence_persistent
Persistent(t) == t.corroborated # None /\ t.corroborated >= Persistence

\* The votes this scan may cast on a measured track.
Votes(t) ==
  { VotedEvidence(CombinedEvidence(mapEvidence, frenetDynamic), Persistent(t),
                  egoTransient) :
      mapEvidence \in Evidence, frenetDynamic \in BOOLEAN,
      egoTransient \in BOOLEAN }

\* The matched branch of update, from classify on.
Matched(measured, vote, rmsSmall) ==
  LET done == Classified(measured, vote, rmsSmall)
  IN  [done EXCEPT !.ttl = TtlOf(done.motion)]

\* The unmatched branch of update: hold, refutation, rear blind cone, TTL.
\* Mutant: the hold has no end.
HoldForever(t) == HoldEligible(t)

HoldCandidate(t) == HoldEligible(t) /\ t.unseen < LostHold

\* Mutant: a scan that sees nothing amiss does not end the run of those that do.
RefutedCount(t, refutes) ==
  IF ~HoldCandidate(t) THEN 0 ELSE IF refutes THEN t.refuted + 1 ELSE t.refuted

RefutedStreak(t, refutes)  == IF HoldCandidate(t) /\ refutes THEN t.refuted + 1 ELSE 0
RearBlindStreak(t, blind) == IF HoldCandidate(t) /\ blind THEN t.rearBlind + 1 ELSE 0

\* Mutant: any missed scan ends the stability streak.
StableOnlyWhileMeasured(t, held) == 0

StableAfter(t, held) == IF held THEN t.stable ELSE 0

Unmatched(t, travel, refutes, blind) ==
  LET aged == [t EXCEPT !.unseen = Capped(t.unseen + 1, LostHold),
                        !.samples = Carried(t.samples, travel)]
      refuted == RefutedStreak(aged, refutes)
      rearBlind == RearBlindStreak(aged, blind)
      evicted == refuted >= RefuteFrames \/ rearBlind >= RearBlindFrames
      held == HoldCandidate(aged) /\ ~evicted
      ttl  == CASE evicted -> 0
                [] held    -> Greater(t.ttl - 1, 1)
                [] OTHER   -> t.ttl - 1
      confirmation == LastOf(ConfirmationWindow, Append(t.confirmation, FALSE))
      status == StatusAfter(t, confirmation, t.hits, FALSE)
  IN  IF ttl <= 0 THEN NoTrack
      ELSE [aged EXCEPT
              !.ttl = ttl, !.confirmation = confirmation, !.status = status,
              !.stable = StableAfter(t, held),
              !.refuted = refuted, !.rearBlind = rearBlind,
              !.corroborated = Aged(t.corroborated, Persistence),
              !.statusAge = Aged(t.statusAge, StaticMinObservation)]

-----------------------------------------------------------------------------
(* The topics (scanCallback). *)
Confirmed(t) == t.alive /\ t.status = "confirmed"
OnOpponent(t) == Confirmed(t) /\ t.motion = "dynamic"
OnStatic(t) == /\ Confirmed(t) /\ t.motion # "dynamic"
               /\ t.stable >= StabilityFrames
OnConfirmedStatic(t) == OnStatic(t) /\ t.motion = "static"

-----------------------------------------------------------------------------
(* One scan.  An obstacle is measured or missed; while it is missed, a beam *)
(* may see through the box where it was last measured (truly, when it has   *)
(* left; by error, but not at two scans in a row, when it stands there) and *)
(* the box may be behind the scanner.                                       *)

TrackMotionInit ==
  /\ WorldInit
  /\ track = NoTrack
  /\ gapped = FALSE

WorldScan(edge, jump, noisy, blind) ==
  world' = [world EXCEPT
              !.edge = edge, !.noisy = noisy,
              !.sinceJump = IF jump # 0 THEN 0
                            ELSE Capped(world.sinceJump + 1, JumpGap),
              !.against = jump < 0 \/ (jump = 0 /\ ~CanJump /\ world.against),
              !.blindRun = IF blind THEN Capped(world.blindRun + 1, RearBlindFrames)
                           ELSE 0]

Edges == IF world.edge # "none" \/ world.opponent THEN {world.edge}
         ELSE {"none", "front", "rear"}

SpawnScan ==
  /\ ~world.gone /\ ~track.alive
  /\ \E edge \in Edges, jump \in Jumps :
       /\ WorldScan(edge, jump, FALSE, FALSE)
       /\ track' = Spawned(MeasuredBox(edge))
  /\ gapped' = FALSE

MatchedScan ==
  /\ ~world.gone /\ track.alive
  /\ \E edge \in Edges, jump \in Jumps, settled \in BOOLEAN :
       LET measured == Measured(track, MeasuredBox(edge), Travel(jump), settled)
       IN  \E vote \in Votes(measured), rmsSmall \in BOOLEAN :
             /\ WorldScan(edge, jump, FALSE, FALSE)
             /\ track' = Matched(measured, vote, rmsSmall)
  /\ UNCHANGED gapped

MissedScan ==
  /\ track.alive
  /\ \E jump \in Jumps, refutes, blind \in BOOLEAN :
       LET empty == world.gone \/ Moving IN
       /\ refutes => ~blind /\ (empty \/ ~world.noisy)
       /\ WorldScan(world.edge, jump, refutes /\ ~empty, blind)
       /\ track' = Unmatched(track, Travel(jump), refutes, blind)
  /\ gapped' = TRUE

Vanish ==
  /\ ~world.gone
  /\ world' = [world EXCEPT !.gone = TRUE]
  /\ UNCHANGED <<track, gapped>>

Stop ==
  /\ Moving
  /\ world' = [world EXCEPT !.stopped = TRUE]
  /\ UNCHANGED <<track, gapped>>

TrackMotionNext == SpawnScan \/ MatchedScan \/ MissedScan \/ Vanish \/ Stop

TrackMotionSpec == TrackMotionInit /\ [][TrackMotionNext]_motionVars

\* The scanner goes on, also when there is nothing left to measure.
EmptyScan == world.gone /\ MissedScan

-----------------------------------------------------------------------------
(* Type invariant. *)

Live == [alive : {TRUE}, status : Statuses, motion : Motions,
         confirmation : Seq(BOOLEAN), hits : 1..2, votes : Seq(Evidence),
         samples : SUBSET [age : 0..TranslationWindow, lo : Int, hi : Int],
         provable : {"none", "still", "moved"}, corroborated : None..Persistence,
         statusAge : None..StaticMinObservation,
         observations : 0..ReentryObservations,
         positions : 1..StaticMinObservations,
         ttl : 1..Greater(TtlStatic, TtlDynamic), unseen : 0..LostHold,
         refuted : 0..(RefuteFrames - 1), rearBlind : 0..(RearBlindFrames - 1),
         stable : 0..StabilityFrames]

Worlds == [opponent : BOOLEAN, stopped : BOOLEAN, gone : BOOLEAN,
           edge : {"none", "front", "rear"}, sinceJump : 0..JumpGap, against : BOOLEAN,
           noisy : BOOLEAN, blindRun : 0..RearBlindFrames]

\* The track and the world stay records of their types.
TrackMotionTypeOK ==
  /\ track = NoTrack \/ track \in Live
  /\ world \in Worlds
  /\ gapped \in BOOLEAN

-----------------------------------------------------------------------------
(* Properties. *)

\* A standing box is never taken for an opponent, whatever the velocity filter
\* says, however it is revealed and although the pose estimate jumps, either way:
\* a jump translates both edges, but the proof dies with the samples from before
\* it, sooner than the persistence a dynamic vote needs.
\* (updateTranslationEvidence, obstacle_tracker.cpp:780-800)
JumpIsNotMotion == track.alive /\ track.motion = "dynamic" => world.opponent

\* The pose estimate has just jumped against the drive of the opponent, and what was
\* measured since then is too short to prove a translation.
DriveIsMasked == world.against /\ world.sinceJump < MinTranslation

\* An opponent that every scan has measured since its track was born is not
\* declared static while it drives, although its velocity filter starts at zero
\* and may vote "static" at every scan, and although it was dynamic before.  The
\* one exception is the code's own: a jump of the pose estimate against the drive
\* cancels the translation of every sample from before it, and until the samples
\* since then span dynamic_min_translation_m, classify takes the opponent for
\* stationary.  Nothing like the persistence of a dynamic vote guards this side.
\* (classify, obstacle_tracker.cpp:928-948; the translation, 780-800)
DrivingIsNotStatic ==
  [][ (/\ track.alive /\ track.motion # "static" /\ ~gapped
       /\ track'.alive /\ track'.motion = "static")
        => ~Moving \/ DriveIsMasked' ]_motionVars

\* A box that still stands keeps its track through a dropout shorter than the
\* hold: beams that err now and then, and a box that slips in and out of the
\* rear blind cone, do not evict it; only an unbroken run of them does.
\* (obstacle_tracker.cpp:1262-1323)
FlickerKeepsBox ==
  [][ (/\ track.alive /\ track.motion = "static"
       /\ ~track'.alive /\ ~world'.gone /\ ~world.opponent) =>
        \/ track.unseen + 1 >= LostHold
        \/ world'.blindRun >= RearBlindFrames ]_motionVars

\* A dropout alone never takes a held box off /static_obs: a track that is held
\* keeps the stability streak it earned while it was measured.
\* (obstacle_tracker.cpp:1309-1316)
OcclusionKeepsItPublished ==
  [][ (/\ OnStatic(track) /\ track'.alive /\ track'.unseen > track.unseen
       /\ HoldEligible(track) /\ track.unseen + 1 < LostHold)
        => OnStatic(track') ]_motionVars

\* The track of an obstacle that has gone for good is retired at last, also a
\* held one: the hold runs out.
GhostEnds == world.gone ~> ~track.alive

\* A box is not taken for an opponent, nor an opponent for a box.
MotionIsTold == [](TrackMotionTypeOK /\ JumpIsNotMotion) /\ DrivingIsNotStatic

\* An unseen box is held for as long as it may be hidden, and no longer.
HoldIsRight == FlickerKeepsBox /\ OcclusionKeepsItPublished /\ GhostEnds
=============================================================================
