-------------------------- MODULE SafeStopLatchHistory --------------------------
(***************************************************************************)
(* The safe-stop latch with history variables that record, from the moment *)
(* of the activation, what the car did and what the planner was shown,     *)
(* without any of the latch's own counters, flags and wrapped distances.   *)
(***************************************************************************)
EXTENDS SafeStopLatch

VARIABLES
    travel,         \* distance driven since the activation, with its sign
    looked,         \* a cycle of the latch has looked at the frame held now
    standing        \* frames looked at since a cycle last found the car moving

history == <<travel, looked, standing>>
hvars   == <<vars, history>>

\* Once ego has gone a lap forward, or half a lap back, it is left out of account.
Slipped == travel < 0 /\ 2 * travel <= -Lap
Lapped  == travel >= Lap

Most(m, n)   == IF m < n THEN n ELSE m
StandBound   == Most(ReleaseCycles, BlindCycles)

HistoryTypeOK ==
    /\ travel \in -Lap..Lap
    /\ looked \in BOOLEAN
    /\ standing \in 0..StandBound

\* What starts with an activation.
Restart ==
    /\ travel' = 0
    /\ looked' = FALSE
    /\ standing' = 0

ObserveObstacles ==
    /\ OnObstacles
    /\ looked' = FALSE
    /\ UNCHANGED <<travel, standing>>

ObserveOdometry(step) ==
    /\ OnFrenetOdometry(step)
    /\ travel' = IF ~latch.active \/ Slipped \/ Lapped THEN travel ELSE travel + step
    /\ UNCHANGED <<looked, standing>>

ObserveOther ==
    /\ OnState \/ OnGlobalWaypoints
    /\ UNCHANGED history

ObserveLatch ==
    /\ LatchSafeStop
    /\ Restart

\* Only a frame received after the activation counts, and only once.
ObserveCycle(plan) ==
    /\ HandleSafeStopLatch(plan)
    /\ IF latch'.active /\ Passed /\ plan = "safeStop"
       THEN Restart
       ELSE /\ looked' = TRUE
            /\ standing' = IF ~stopped \/ ~latch.fresh THEN 0
                           ELSE IF looked /\ standing > 0 THEN standing
                           ELSE UpTo(StandBound, standing)
            /\ UNCHANGED travel

HInit ==
    /\ LatchInit
    /\ travel = 0 /\ looked = FALSE /\ standing = 0

HNext ==
    \/ ObserveObstacles
    \/ \E step \in {-1, 0, 1} : ObserveOdometry(step)
    \/ ObserveOther
    \/ ObserveLatch
    \/ \E plan \in Plans : ObserveCycle(plan)

HSpec     == HInit /\ [][HNext]_hvars
HFairSpec == HSpec /\ LatchFairness

-----------------------------------------------------------------------------
(* The inductive invariant.                                                 *)

\* The wrapped distance is the travelled one, or it is a lap too long.
DrivenIsTravel ==
    latch.active /\ ~Slipped /\ ~Lapped
        => driven = IF travel < 0 THEN travel + Lap ELSE travel

\* What a streak has counted was stood at; the frame on top of which it can grow
\* has not been looked at.
Covered(streak, counted) ==
    /\ streak <= standing
    /\ streak > 0 /\ ~counted => ~looked

StreaksCovered ==
    latch.active => /\ Covered(latch.clear, latch.clearCounted)
                    /\ Covered(latch.blind, latch.blindCounted)

\* The last thing published for an active latch is a stop.
StopsWhileLatched == latch.active => output = "stop"

LatchInv ==
    /\ LatchTypeOK
    /\ HistoryTypeOK
    /\ StopsWhileLatched
    /\ DrivenIsTravel
    /\ StreaksCovered

-----------------------------------------------------------------------------
(* Properties.                                                              *)

Handoff == latch.active /\ ~latch'.active /\ output' = "handoff"

\* The car never drives on because it rolled back or its pose jittered: the latch
\* takes the danger for passed only when ego has really driven that far beyond
\* it, unless it has reversed half a lap (the one-lap guard of evaluate).
PassedMeansPast ==
    latch.active /\ Passed /\ ~Slipped => travel >= latch.dangerEnd + Buffer

\* The race line is given back before the danger only to a car that has stood
\* while the planner looked at enough distinct frames, all received after the stop
\* began: as many as the release asks for, and as many as the blind timeout asks for
\* when nothing is seen and the remembered danger lies ahead.
HandoffIsStoodFor ==
    [][Handoff /\ ~Passed =>
        IF frame = "empty" /\ ~Behind
        THEN BlindCycles > 0 /\ standing' >= BlindCycles
        ELSE standing' >= ReleaseCycles]_hvars
=============================================================================
