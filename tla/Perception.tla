----------------------------- MODULE Perception -----------------------------
(* What the car knows of itself and of the others, for the model checker:   *)
(* the pose (Localization), what the detector believes of one obstacle      *)
(* (TrackMotion), how it names obstacles (TrackIdentity) and what it sends  *)
(* of the opponent (OpponentLayer).  Each takes what the others decide as a *)
(* choice of its own (how far the pose jumps, which tracks are retired,     *)
(* which IDs the moving obstacles carry), so that a behaviour runs one of   *)
(* them and leaves the other three at rest.                                 *)
EXTENDS TrackMotion, TrackIdentity, OpponentLayer, Localization

VARIABLE part

detectorVars == <<motionVars, identityVars, layerVars>>
allVars      == <<part, detectorVars, locVars>>

\* The cells of the checked instance: one box is seen as up to two fragments.
WideAndNarrow == "wide" :> {0, 1} @@ "narrow" :> {4}

PerceptionInit ==
  /\ part \in {"motion", "identity", "layer", "pose"}
  /\ TrackMotionInit /\ TrackIdentityInit /\ OpponentLayerInit /\ LocalizationInit
  /\ part # "motion" => ~world.opponent

Motion == part = "motion" /\ TrackMotionNext /\ UNCHANGED <<part, layerVars, identityVars, locVars>>
Naming == part = "identity" /\ TrackIdentityNext /\ UNCHANGED <<part, motionVars, layerVars, locVars>>
Layer  == part = "layer" /\ OpponentLayerNext /\ UNCHANGED <<part, motionVars, identityVars, locVars>>
Pose   == part = "pose" /\ LocalizationNext /\ UNCHANGED <<part, detectorVars>>

PerceptionNext == Motion \/ Naming \/ Layer \/ Pose

\* The scanner keeps scanning, and time passes.
PerceptionSpec ==
  /\ PerceptionInit /\ [][PerceptionNext]_allVars
  /\ WF_motionVars(part = "motion" /\ EmptyScan)
  /\ WF_locVars(part = "pose" /\ OnScan) /\ WF_locVars(part = "pose" /\ Elapse)
=============================================================================
