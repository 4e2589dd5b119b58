------------------------ MODULE CruiseControllerHistory ------------------------
(***************************************************************************)
(* The cruise controller with an observer of whose gap errors are in the   *)
(* integral.  The observer never constrains the node.                      *)
(***************************************************************************)
EXTENDS CruiseController

CONSTANT Mixed  \* the integral holds the errors of more than one target

ASSUME MixedAssumption == Mixed \notin OpponentIds \cup {NoId}

VARIABLE contributor  \* the target whose errors make up the integral

chvars == <<cvars, contributor>>

\* An update adds the error of the target held; a step that leaves the integral
\* at zero without an update leaves nothing of anybody in it.
Contributor ==
    IF OnTimer /\ Follow
    THEN IF contributor \in {NoId, target} THEN target ELSE Mixed
    ELSE IF integral' = 0 THEN NoId ELSE contributor

CHInit == CruiseInit /\ contributor = NoId

CHNext == CruiseNext /\ contributor' = Contributor

CHSpec     == CHInit /\ [][CHNext]_chvars
CHFairSpec == CHSpec /\ CruiseFairness

-----------------------------------------------------------------------------
\* No wind-up is carried over: what the integral holds was accumulated on the
\* target followed now, in the CRUISE visit going on now.  The resets that ensure
\* it are spread over onOpponent, onState and the clear branch of onTimer.
IntegralIsOfTarget ==
    integral # 0 => cruise /\ engaged /\ contributor = target

\* An empty run is never older than the measurement it follows.
EmptyRunIsYounger ==
    /\ emptyAge # NotEmpty => engaged
    /\ targetAge <= OpponentTimeout => emptyAge <= targetAge

CruiseInv ==
    /\ CruiseTypeOK
    /\ contributor \in OpponentIds \cup {NoId, Mixed}
    /\ engaged => target # NoId
    /\ contributor # NoId => cruise /\ engaged /\ contributor = target
    /\ IntegralIsOfTarget
    /\ EmptyRunIsYounger

\* A target is dropped only when its last measurement is at least as old as
\* opponent_timeout: dropping never takes away an opponent measured since.
DroppedTargetIsStale ==
    [][engaged /\ ~engaged' => targetAge >= OpponentTimeout]_chvars

\* The target followed is kept while it is measured, and the integral is its own.
TargetIsKept == [](CruiseTypeOK /\ IntegralIsOfTarget) /\ DroppedTargetIsStale
=============================================================================
