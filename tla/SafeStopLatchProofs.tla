-------------------------- MODULE SafeStopLatchProofs --------------------------
(***************************************************************************)
(* The safe-stop latch for every track, danger region and number of        *)
(* confirmations: its type, what "passed" means, what a handoff takes, and *)
(* that it implements the abstract safe stop.                              *)
(***************************************************************************)
EXTENDS SafeStopLatchHistory, TLAPS

USE DEF Latches, Frames, Plans, LatchTypeOK

\* Counting to a bound stays within it and grows by at most one.
LEMMA UpToBounded ==
    ASSUME NEW bound \in Nat, NEW n \in 0..bound
    PROVE  /\ UpTo(bound, n) \in 0..bound
           /\ UpTo(bound, n) = n + 1 \/ UpTo(bound, n) = bound
           /\ UpTo(bound, n) >= n
  BY DEF UpTo

\* A streak stays within its bound, and one that reaches it stands on evidence.
LEMMA StreakBounded ==
    ASSUME NEW bound \in Nat, NEW n \in 0..bound,
           NEW evidence \in BOOLEAN, NEW counted \in BOOLEAN
    PROVE  /\ Streak(evidence, counted, n, bound) \in 0..bound
           /\ Streak(evidence, counted, n, bound) > 0 => evidence
  <1>1. UpTo(bound, n) \in 0..bound
    BY UpToBounded
  <1>2. CASE ~evidence
    BY <1>2 DEF Streak
  <1>3. CASE evidence
    BY <1>1, <1>3 DEF Streak
  <1> QED
    BY <1>2, <1>3

\* The two kinds of evidence are taken only from a car that stands.
LEMMA EvidenceStands ==
    /\ ClearEvidence \in BOOLEAN
    /\ BlindEvidence \in BOOLEAN
    /\ ClearEvidence => stopped /\ latch.fresh
    /\ BlindEvidence => stopped /\ latch.fresh /\ frame = "empty" /\ ~Behind
  BY DEF ClearEvidence, BlindEvidence

\* One evaluation keeps the latch well formed and active.
LEMMA EvaluatedType ==
    ASSUME LatchTypeOK, NEW escape \in BOOLEAN
    PROVE  /\ Evaluated(escape) \in Latches
           /\ Evaluated(escape).active = latch.active
           /\ Evaluated(escape).fresh = latch.fresh
           /\ Evaluated(escape).dangerEnd = latch.dangerEnd
           /\ Evaluated(escape).clear
                = Streak(ClearEvidence, latch.clearCounted, latch.clear, ReleaseCycles)
           /\ Evaluated(escape).blind
                = Streak(BlindEvidence, latch.blindCounted, latch.blind, BlindCycles)
           /\ Evaluated(escape).clearCounted = ClearEvidence
           /\ Evaluated(escape).blindCounted = BlindEvidence
  <1> DEFINE c == Streak(ClearEvidence, latch.clearCounted, latch.clear, ReleaseCycles)
             b == Streak(BlindEvidence, latch.blindCounted, latch.blind, BlindCycles)
             f == IF escape THEN UpTo(ReleaseCycles, latch.feasible) ELSE 0
  <1>1. ReleaseCycles \in Nat \ {0} /\ BlindCycles \in Nat
    BY LatchAssumption
  <1>2. /\ ClearEvidence \in BOOLEAN /\ BlindEvidence \in BOOLEAN
        /\ latch.clearCounted \in BOOLEAN /\ latch.blindCounted \in BOOLEAN
    BY EvidenceStands
  <1>3. c \in 0..ReleaseCycles
    BY <1>1, <1>2, StreakBounded
  <1>4. b \in 0..BlindCycles
    BY <1>1, <1>2, StreakBounded
  <1>5. f \in 0..ReleaseCycles
    BY <1>1, UpToBounded
  <1> HIDE DEF c, b, f
  <1>6. Evaluated(escape) = [latch EXCEPT !.feasible = f, !.clear = c,
            !.clearCounted = ClearEvidence, !.blind = b, !.blindCounted = BlindEvidence]
    BY DEF Evaluated, c, b, f
  <1>7. Evaluated(escape) \in Latches
    BY <1>2, <1>3, <1>4, <1>5, <1>6
  <1>8. /\ Evaluated(escape).clear = c /\ Evaluated(escape).blind = b
        /\ Evaluated(escape).clearCounted = ClearEvidence
        /\ Evaluated(escape).blindCounted = BlindEvidence
        /\ Evaluated(escape).active = latch.active
        /\ Evaluated(escape).fresh = latch.fresh
        /\ Evaluated(escape).dangerEnd = latch.dangerEnd
    BY <1>6
  <1> QED
    BY <1>7, <1>8 DEF c, b

\* A latch that is activated or reset is well formed.
LEMMA FreshLatchType ==
    ASSUME NEW dangerEnd \in 0..MaxDanger
    PROVE  /\ Activated(dangerEnd) \in Latches
           /\ Activated(dangerEnd).active
           /\ Activated(dangerEnd).clear = 0 /\ Activated(dangerEnd).blind = 0
           /\ Idle \in Latches /\ ~Idle.active
  <1>1. /\ ReleaseCycles \in Nat \ {0} /\ BlindCycles \in Nat /\ MaxDanger \in Nat
    BY LatchAssumption
  <1>2. 0 \in 0..MaxDanger /\ 0 \in 0..ReleaseCycles /\ 0 \in 0..BlindCycles
    BY <1>1
  <1>3. \A d \in 0..MaxDanger : Activated(d) \in Latches
    BY <1>2 DEF Activated
  <1> QED
    BY <1>2, <1>3 DEF Activated, Idle

\* The wrapped position of a step stays on the track.
LEMMA WrapType ==
    ASSUME NEW s \in 0..Lap - 1, NEW step \in {-1, 0, 1}
    PROVE  WrapS(s + step) \in 0..Lap - 1
  BY LatchAssumption DEF WrapS

-----------------------------------------------------------------------------
(* Type correctness. *)

\* The latch, the inputs and the output are well formed at start-up.
LEMMA LatchInitType == LatchInit => LatchTypeOK
  <1>1. Lap \in Nat \ {0} /\ MaxDanger \in Nat
    BY LatchAssumption
  <1>2. Idle \in Latches
    BY <1>1, FreshLatchType
  <1>3. 0 \in 0..Lap - 1
    BY <1>1
  <1> SUFFICES ASSUME LatchInit PROVE LatchTypeOK
    OBVIOUS
  <1>4. present \in BOOLEAN /\ selectable \in BOOLEAN /\ stopped \in BOOLEAN
    BY DEF LatchInit
  <1> QED
    BY <1>2, <1>3, <1>4 DEF LatchInit

\* A cycle of the latch keeps everything well formed.
LEMMA CycleType ==
    ASSUME LatchTypeOK, NEW plan \in Plans, HandleSafeStopLatch(plan)
    PROVE  LatchTypeOK'
  <1>1. PICK targets \in BOOLEAN :
          LET escape    == plan = "avoidance" /\ (targets \/ ~present)
              evaluated == Evaluated(escape)
              reason    == Reason(evaluated)
          IN  \/ ReleaseToAvoidance(plan, reason)
              \/ ReleaseToHandoff(plan, reason)
              \/ Relatch(plan, reason)
              \/ KeepStop(plan, reason, evaluated)
    BY DEF HandleSafeStopLatch
  <1> DEFINE escape    == plan = "avoidance" /\ (targets \/ ~present)
             evaluated == Evaluated(escape)
             reason    == Reason(evaluated)
  <1>2. evaluated \in Latches
    <2>1. escape \in BOOLEAN
      OBVIOUS
    <2> QED
      BY <2>1, EvaluatedType
  <1> HIDE DEF reason, evaluated
  <1>3. 0 \in 0..Lap - 1 /\ 0 \in 0..MaxDanger
    BY LatchAssumption
  <1>4. Idle \in Latches
    BY <1>3, FreshLatchType
  <1>5. CASE ReleaseToAvoidance(plan, reason)
    BY <1>3, <1>4, <1>5 DEF ReleaseToAvoidance, Release
  <1>6. CASE ReleaseToHandoff(plan, reason)
    BY <1>3, <1>4, <1>6 DEF ReleaseToHandoff, Release
  <1>7. CASE Relatch(plan, reason)
    BY <1>3, <1>7, FreshLatchType DEF Relatch, Activate
  <1>8. CASE KeepStop(plan, reason, evaluated)
    BY <1>2, <1>8 DEF KeepStop, world
  <1> QED
    BY <1>1, <1>5, <1>6, <1>7, <1>8 DEF reason, evaluated, escape

\* Every other action keeps everything well formed.
LEMMA NextType == LatchTypeOK /\ [LatchNext]_vars => LatchTypeOK'
  <1> SUFFICES ASSUME LatchTypeOK, [LatchNext]_vars PROVE LatchTypeOK'
    OBVIOUS
  <1>1. 0 \in 0..Lap - 1 /\ 0 \in 0..MaxDanger
    BY LatchAssumption
  <1>2. CASE OnObstacles
    BY <1>2 DEF OnObstacles
  <1>3. ASSUME NEW step \in {-1, 0, 1}, OnFrenetOdometry(step) PROVE LatchTypeOK'
    <2>1. driven' \in 0..Lap - 1
      BY <1>1, <1>3, WrapType DEF OnFrenetOdometry
    <2>2. frame' \in Frames
      BY <1>3 DEF OnFrenetOdometry
    <2> QED
      BY <1>3, <2>1, <2>2 DEF OnFrenetOdometry
  <1>4. CASE OnState
    BY <1>4 DEF OnState
  <1>5. CASE OnGlobalWaypoints
    BY <1>1, <1>5, FreshLatchType DEF OnGlobalWaypoints
  <1>6. CASE LatchSafeStop
    BY <1>1, <1>6, FreshLatchType DEF LatchSafeStop, Activate
  <1>7. ASSUME NEW plan \in Plans, HandleSafeStopLatch(plan) PROVE LatchTypeOK'
    BY <1>7, CycleType
  <1>8. CASE UNCHANGED vars
    BY <1>8 DEF vars
  <1> QED
    BY <1>2, <1>3, <1>4, <1>5, <1>6, <1>7, <1>8 DEF LatchNext

\* The latch's counters, its danger region and its inputs stay in the ranges the
\* thresholds of evaluate give them, and the driven distance stays on the track.
THEOREM LatchTypeCorrect == LatchSpec => []LatchTypeOK
  <1>1. LatchInit => LatchTypeOK
    BY LatchInitType
  <1>2. LatchTypeOK /\ [LatchNext]_vars => LatchTypeOK'
    BY NextType
  <1> QED
    BY <1>1, <1>2, PTL DEF LatchSpec

-----------------------------------------------------------------------------
(* The latch implements the abstract safe stop. *)

\* A cycle of the latch is a step of the abstract safe stop.
LEMMA CyclePromise ==
    ASSUME LatchTypeOK, NEW plan \in Plans, HandleSafeStopLatch(plan)
    PROVE  Promise!PromiseNext
  <1>1. PICK targets \in BOOLEAN :
          LET escape    == plan = "avoidance" /\ (targets \/ ~present)
              evaluated == Evaluated(escape)
              reason    == Reason(evaluated)
          IN  \/ ReleaseToAvoidance(plan, reason)
              \/ ReleaseToHandoff(plan, reason)
              \/ Relatch(plan, reason)
              \/ KeepStop(plan, reason, evaluated)
    BY DEF HandleSafeStopLatch
  <1> DEFINE escape    == plan = "avoidance" /\ (targets \/ ~present)
             evaluated == Evaluated(escape)
             reason    == Reason(evaluated)
  <1>2. /\ evaluated.active = latch.active
        /\ evaluated.clear
             = Streak(ClearEvidence, latch.clearCounted, latch.clear, ReleaseCycles)
        /\ evaluated.blind
             = Streak(BlindEvidence, latch.blindCounted, latch.blind, BlindCycles)
    <2>1. escape \in BOOLEAN
      OBVIOUS
    <2> QED
      BY <2>1, EvaluatedType
  <1>3. evaluated.clear > 0 => stopped
    <2>1. /\ ReleaseCycles \in Nat /\ latch.clear \in 0..ReleaseCycles
          /\ latch.clearCounted \in BOOLEAN /\ ClearEvidence \in BOOLEAN
      BY LatchAssumption, EvidenceStands
    <2>2. evaluated.clear > 0 => ClearEvidence
      BY <1>2, <2>1, StreakBounded
    <2> QED
      BY <2>2, EvidenceStands
  <1>4. evaluated.blind > 0 => stopped
    <2>1. /\ BlindCycles \in Nat /\ latch.blind \in 0..BlindCycles
          /\ latch.blindCounted \in BOOLEAN /\ BlindEvidence \in BOOLEAN
      BY LatchAssumption, EvidenceStands
    <2>2. evaluated.blind > 0 => BlindEvidence
      BY <1>2, <2>1, StreakBounded
    <2> QED
      BY <2>2, EvidenceStands
  <1>5. ReleaseCycles > 0 /\ BlindCycles \in Nat
    BY LatchAssumption
  <1> HIDE DEF evaluated
  <1>6. /\ reason = "passed" => Passed
        /\ reason = "avoidance" => selectable
        /\ reason \in {"clear", "blind"} => stopped
    BY <1>3, <1>4, <1>5 DEF Reason
  <1> HIDE DEF reason
  <1>7. latch.active /\ ~Idle.active
    BY FreshLatchType, LatchAssumption DEF HandleSafeStopLatch, Idle, Activated
  <1>8. CASE ReleaseToAvoidance(plan, reason)
    <2>1. latch'.active = FALSE /\ output' = "avoidance" /\ selectable
      BY <1>6, <1>8 DEF ReleaseToAvoidance, Release, Idle
    <2> QED
      BY <1>7, <2>1 DEF Promise!PromiseNext, Promise!LeavesForAvoidance
  <1>9. CASE ReleaseToHandoff(plan, reason)
    <2>1. latch'.active = FALSE /\ output' = "handoff" /\ (Passed \/ stopped)
      BY <1>6, <1>9 DEF ReleaseToHandoff, Release, Idle
    <2> QED
      BY <1>7, <2>1 DEF Promise!PromiseNext, Promise!LeavesForRaceLine
  <1>10. CASE Relatch(plan, reason)
    <2>1. latch'.active /\ output' = "stop"
      BY <1>10, FreshLatchType DEF Relatch, Activate
    <2> QED
      BY <1>7, <2>1 DEF Promise!PromiseNext, Promise!StaysLatched
  <1>11. CASE KeepStop(plan, reason, evaluated)
    <2>1. latch'.active /\ output' = "stop"
      BY <1>2, <1>7, <1>11 DEF KeepStop
    <2> QED
      BY <1>7, <2>1 DEF Promise!PromiseNext, Promise!StaysLatched
  <1> QED
    BY <1>1, <1>8, <1>9, <1>10, <1>11 DEF reason, evaluated, escape

\* Every step of the latch is a step of the abstract safe stop, or stutters.
LEMMA NextPromise ==
    LatchTypeOK /\ [LatchNext]_vars => [Promise!PromiseNext]_(Promise!pvars)
  <1> SUFFICES ASSUME LatchTypeOK, [LatchNext]_vars
               PROVE  [Promise!PromiseNext]_(Promise!pvars)
    OBVIOUS
  <1>1. CASE OnObstacles
    <2>1. latch'.active = latch.active /\ output' = output
      BY <1>1 DEF OnObstacles
    <2> QED
      BY <2>1 DEF Promise!PromiseNext, Promise!WorldChanges
  <1>2. ASSUME NEW step \in {-1, 0, 1}, OnFrenetOdometry(step)
        PROVE  Promise!PromiseNext
    BY <1>2 DEF OnFrenetOdometry, Promise!PromiseNext, Promise!WorldChanges
  <1>3. CASE OnState
    BY <1>3 DEF OnState, Promise!PromiseNext, Promise!WorldChanges
  <1>4. CASE OnGlobalWaypoints
    <2>1. latch'.active = FALSE /\ output' = output
      BY <1>4 DEF OnGlobalWaypoints, Idle
    <2> QED
      BY <2>1 DEF Promise!PromiseNext, Promise!ReferenceReplaced
  <1>5. CASE LatchSafeStop
    BY <1>5 DEF LatchSafeStop, Promise!PromiseNext, Promise!Unlatched
  <1>6. ASSUME NEW plan \in Plans, HandleSafeStopLatch(plan)
        PROVE  Promise!PromiseNext
    BY <1>6, CyclePromise
  <1>7. CASE UNCHANGED vars
    <2>1. UNCHANGED <<latch, driven, stopped, selectable, output>>
      BY <1>7 DEF vars
    <2>2. latch'.active = latch.active /\ Passed' = Passed
      BY <2>1 DEF Passed, BeforeOneLap
    <2> QED
      BY <2>1, <2>2 DEF Promise!pvars
  <1> QED
    BY <1>1, <1>2, <1>3, <1>4, <1>5, <1>6, <1>7 DEF LatchNext

\* The latch of the planner is a safe stop as the abstract specification has it:
\* while it is active only stops are published, and it is left only for an
\* avoidance under STATE_AVOID or for the race line past the danger or standing.
THEOREM LatchKeepsPromise == LatchSpec => KeepsPromise
  <1>1. LatchInit => Promise!PromiseInit
    <2> SUFFICES ASSUME LatchInit PROVE ~latch.active
      BY DEF Promise!PromiseInit
    <2> QED
      BY DEF LatchInit, Idle
  <1>2. LatchTypeOK /\ [LatchNext]_vars => [Promise!PromiseNext]_(Promise!pvars)
    BY NextPromise
  <1> QED
    BY <1>1, <1>2, LatchTypeCorrect, PTL
       DEF LatchSpec, KeepsPromise, Promise!PromiseSpec

-----------------------------------------------------------------------------
(* The inductive invariant of the latch with its history. *)

\* A step of the history is a step of the latch.
LEMMA HistoryStep == [HNext]_hvars => [LatchNext]_vars
  BY DEF HNext, hvars, ObserveObstacles, ObserveOdometry, ObserveOther, ObserveLatch,
         ObserveCycle, LatchNext

\* The bound of the standing frames covers both kinds of confirmation.
LEMMA StandBoundType ==
    /\ StandBound \in Nat
    /\ ReleaseCycles <= StandBound
    /\ BlindCycles <= StandBound
  BY LatchAssumption DEF StandBound, Most

\* One more frame that was looked at covers one more count of a streak.
LEMMA StreakCovered ==
    ASSUME HistoryTypeOK,
           NEW bound \in Nat, bound <= StandBound, NEW n \in 0..bound,
           NEW evidence \in BOOLEAN, NEW counted \in BOOLEAN, Covered(n, counted),
           evidence => stopped /\ latch.fresh,
           standing' = IF ~stopped \/ ~latch.fresh THEN 0
                       ELSE IF looked /\ standing > 0 THEN standing
                       ELSE UpTo(StandBound, standing)
    PROVE  Streak(evidence, counted, n, bound) <= standing'
  <1> DEFINE k == Streak(evidence, counted, n, bound)
  <1> SUFFICES k <= standing'
    OBVIOUS
  <1>1. /\ StandBound \in Nat /\ standing \in 0..StandBound
        /\ UpTo(StandBound, standing) \in 0..StandBound
        /\ \/ UpTo(StandBound, standing) = standing + 1
           \/ UpTo(StandBound, standing) = StandBound
        /\ UpTo(StandBound, standing) >= standing
    <2>1. StandBound \in Nat /\ standing \in 0..StandBound
      BY StandBoundType DEF HistoryTypeOK
    <2> QED
      BY <2>1, UpToBounded
  <1>2. n <= standing
    BY DEF Covered
  <1>3. CASE ~evidence
    <2>1. k = 0
      BY <1>3 DEF Streak
    <2>2. standing' >= 0
      BY <1>1
    <2> QED
      BY <2>1, <2>2
  <1>4. CASE evidence /\ counted
    <2>1. k = n
      BY <1>4 DEF Streak
    <2>2. standing' >= standing
      BY <1>1, <1>4
    <2> QED
      BY <1>1, <1>2, <2>1, <2>2
  <1>5. CASE evidence /\ ~counted
    <2>1. k = UpTo(bound, n)
      BY <1>5 DEF Streak
    <2>2. k \in 0..bound /\ (k = n + 1 \/ k = bound) /\ k >= n /\ (n < bound => k = n + 1)
          /\ k <= n + 1
      BY <2>1 DEF UpTo
    <2>3. looked /\ standing > 0 => n = 0
      BY <1>5 DEF Covered
    <2>4. CASE looked /\ standing > 0
      <3>1. standing' = standing
        BY <1>5, <2>4
      <3>2. n = 0
        BY <2>3, <2>4
      <3> HIDE DEF k
      <3> QED
        BY <1>1, <2>2, <2>4, <3>1, <3>2
    <2>5. CASE ~(looked /\ standing > 0)
      <3>1. standing' = UpTo(StandBound, standing)
        BY <1>5, <2>5
      <3> HIDE DEF k
      <3> QED
        BY <1>1, <1>2, <2>2, <3>1
    <2> QED
      BY <2>4, <2>5
  <1> QED
    BY <1>3, <1>4, <1>5

\* At start-up the invariant holds.
LEMMA LatchInvInit == HInit => LatchInv
  <1> SUFFICES ASSUME HInit PROVE LatchInv
    OBVIOUS
  <1>1. LatchTypeOK
    BY LatchInitType DEF HInit
  <1>2. HistoryTypeOK
    <2>1. /\ StandBound \in Nat /\ BlindCycles \in Nat /\ ReleaseCycles \in Nat
          /\ Lap \in Nat
      BY StandBoundType, LatchAssumption
    <2>2. looked \in BOOLEAN
      BY DEF HInit
    <2> QED
      BY <2>1, <2>2 DEF HInit, HistoryTypeOK
  <1>3. latch.active = FALSE
    BY DEF HInit, LatchInit, Idle
  <1> QED
    BY <1>1, <1>2, <1>3 DEF LatchInv, StopsWhileLatched, DrivenIsTravel, StreaksCovered

\* The history of a cycle, relatching or not, is well formed.
LEMMA CycleHistoryType ==
    ASSUME HistoryTypeOK, NEW plan \in Plans, ObserveCycle(plan)
    PROVE  HistoryTypeOK'
  <1>1. /\ StandBound \in Nat /\ BlindCycles \in Nat /\ ReleaseCycles \in Nat
        /\ Lap \in Nat
    BY StandBoundType, LatchAssumption
  <1>2. UpTo(StandBound, standing) \in 0..StandBound
    BY <1>1, UpToBounded DEF HistoryTypeOK
  <1>3. looked' \in BOOLEAN
    BY DEF ObserveCycle, Restart
  <1>4. standing' \in 0..StandBound
    BY <1>1, <1>2 DEF ObserveCycle, Restart, HistoryTypeOK
  <1>5. travel' \in -Lap..Lap
    BY <1>1 DEF ObserveCycle, Restart, HistoryTypeOK
  <1> QED
    BY <1>3, <1>4, <1>5 DEF HistoryTypeOK, StandBound, Most

\* A cycle that keeps the stop covers what it has counted with frames stood at.
LEMMA KeepStopCovered ==
    ASSUME LatchInv, NEW escape \in BOOLEAN, latch.active,
           latch' = Evaluated(escape), looked' = TRUE,
           standing' = IF ~stopped \/ ~latch.fresh THEN 0
                       ELSE IF looked /\ standing > 0 THEN standing
                       ELSE UpTo(StandBound, standing)
    PROVE  /\ latch'.clear <= standing' /\ latch'.blind <= standing'
           /\ latch'.clear > 0 => latch'.clearCounted
           /\ latch'.blind > 0 => latch'.blindCounted
  <1>1. /\ LatchTypeOK /\ HistoryTypeOK
        /\ Covered(latch.clear, latch.clearCounted)
        /\ Covered(latch.blind, latch.blindCounted)
    BY DEF LatchInv, StreaksCovered
  <1>2. /\ ReleaseCycles \in Nat /\ BlindCycles \in Nat
        /\ ReleaseCycles <= StandBound /\ BlindCycles <= StandBound
    BY StandBoundType, LatchAssumption
  <1>3. /\ latch.clear \in 0..ReleaseCycles /\ latch.blind \in 0..BlindCycles
        /\ latch.clearCounted \in BOOLEAN /\ latch.blindCounted \in BOOLEAN
    BY <1>1
  <1>4. /\ latch'.clear
             = Streak(ClearEvidence, latch.clearCounted, latch.clear, ReleaseCycles)
        /\ latch'.blind
             = Streak(BlindEvidence, latch.blindCounted, latch.blind, BlindCycles)
        /\ latch'.clearCounted = ClearEvidence /\ latch'.blindCounted = BlindEvidence
    BY <1>1, EvaluatedType
  <1>5. Streak(ClearEvidence, latch.clearCounted, latch.clear, ReleaseCycles) <= standing'
    BY <1>1, <1>2, <1>3, EvidenceStands, StreakCovered
  <1>6. Streak(BlindEvidence, latch.blindCounted, latch.blind, BlindCycles) <= standing'
    BY <1>1, <1>2, <1>3, EvidenceStands, StreakCovered
  <1>7. Streak(ClearEvidence, latch.clearCounted, latch.clear, ReleaseCycles) > 0
            => ClearEvidence
    BY <1>2, <1>3, EvidenceStands, StreakBounded
  <1>8. Streak(BlindEvidence, latch.blindCounted, latch.blind, BlindCycles) > 0
            => BlindEvidence
    BY <1>2, <1>3, EvidenceStands, StreakBounded
  <1> QED
    BY <1>4, <1>5, <1>6, <1>7, <1>8

\* The odometry: the travelled distance and the wrapped one move together.
LEMMA OdometryInv ==
    ASSUME LatchInv, NEW step \in {-1, 0, 1}, ObserveOdometry(step)
    PROVE  /\ HistoryTypeOK' /\ StopsWhileLatched'
           /\ DrivenIsTravel' /\ StreaksCovered'
  <1>1. /\ driven' = IF latch.active THEN WrapS(driven + step) ELSE 0
        /\ travel' = IF ~latch.active \/ Slipped \/ Lapped THEN travel ELSE travel + step
        /\ UNCHANGED <<latch, looked, standing>>
    BY DEF ObserveOdometry, OnFrenetOdometry
  <1>2. Lap \in Nat \ {0} /\ driven \in 0..Lap - 1 /\ travel \in -Lap..Lap
    BY LatchAssumption DEF LatchInv, HistoryTypeOK
  <1>3. travel' \in -Lap..Lap
    BY <1>1, <1>2 DEF Slipped, Lapped
  <1>4. HistoryTypeOK'
    BY <1>1, <1>3 DEF LatchInv, HistoryTypeOK, StandBound, Most
  <1>5. DrivenIsTravel'
    <2> SUFFICES ASSUME latch'.active, ~Slipped', ~Lapped'
                 PROVE  driven' = IF travel' < 0 THEN travel' + Lap ELSE travel'
      BY DEF DrivenIsTravel
    <2>1. latch.active
      BY <1>1
    <2>2. ~Slipped /\ ~Lapped
      BY <1>1, <1>2, <2>1 DEF Slipped, Lapped
    <2>3. driven = IF travel < 0 THEN travel + Lap ELSE travel
      BY <2>1, <2>2 DEF LatchInv, DrivenIsTravel
    <2>4. travel' = travel + step /\ driven' = WrapS(driven + step)
      BY <1>1, <2>1, <2>2
    <2> QED
      BY <1>2, <2>2, <2>3, <2>4 DEF WrapS, Slipped, Lapped
  <1>6. StreaksCovered'
    BY <1>1 DEF LatchInv, StreaksCovered, Covered
  <1>7. StopsWhileLatched'
    <2>1. output' = output
      BY DEF ObserveOdometry, OnFrenetOdometry
    <2> QED
      BY <1>1, <2>1 DEF LatchInv, StopsWhileLatched
  <1> QED
    BY <1>4, <1>5, <1>6, <1>7

\* A cycle of the latch keeps the invariant, whichever way it ends.
LEMMA CycleInv ==
    ASSUME LatchInv, NEW plan \in Plans, ObserveCycle(plan)
    PROVE  /\ HistoryTypeOK' /\ StopsWhileLatched'
           /\ DrivenIsTravel' /\ StreaksCovered'
  <1>1. HistoryTypeOK /\ HandleSafeStopLatch(plan) /\ latch.active
    BY DEF LatchInv, ObserveCycle, HandleSafeStopLatch
  <1>2. HistoryTypeOK'
    BY <1>1, CycleHistoryType
  <1>3. 0 \in 0..MaxDanger /\ Lap \in Nat \ {0}
    BY LatchAssumption
  <1>4. PICK targets \in BOOLEAN :
          LET escape    == plan = "avoidance" /\ (targets \/ ~present)
              evaluated == Evaluated(escape)
              reason    == Reason(evaluated)
          IN  \/ ReleaseToAvoidance(plan, reason)
              \/ ReleaseToHandoff(plan, reason)
              \/ Relatch(plan, reason)
              \/ KeepStop(plan, reason, evaluated)
    BY <1>1 DEF HandleSafeStopLatch
  <1> DEFINE escape    == plan = "avoidance" /\ (targets \/ ~present)
             evaluated == Evaluated(escape)
             reason    == Reason(evaluated)
  <1>5. escape \in BOOLEAN
    OBVIOUS
  <1>6. reason = "passed" => Passed
    BY LatchAssumption DEF Reason
  <1>7. reason # "passed" \/ plan # "safeStop" => ~(reason = "passed" /\ plan = "safeStop")
    OBVIOUS
  <1>8. Passed => reason = "passed"
    BY DEF Reason
  <1> HIDE DEF evaluated, reason
  <1>9. CASE latch' = Idle
    BY <1>2, <1>3, <1>9, FreshLatchType DEF StopsWhileLatched, DrivenIsTravel, StreaksCovered
  <1>10. CASE Relatch(plan, reason)
    <2>1. PICK dangerEnd \in 0..MaxDanger : Activate(dangerEnd)
      BY <1>10 DEF Relatch
    <2>2. /\ latch'.active /\ latch'.clear = 0 /\ latch'.blind = 0
          /\ driven' = 0
      BY <2>1, FreshLatchType DEF Activate
    <2>3. Restart
      BY <1>6, <1>10, <2>2 DEF Relatch, ObserveCycle
    <2>4. standing' = 0 /\ travel' = 0
      BY <2>3 DEF Restart
    <2>5. DrivenIsTravel'
      BY <2>2, <2>4 DEF DrivenIsTravel
    <2>6. StreaksCovered'
      BY <2>2, <2>4 DEF StreaksCovered, Covered
    <2>7. StopsWhileLatched'
      BY <1>10 DEF Relatch, StopsWhileLatched
    <2> QED
      BY <1>2, <2>5, <2>6, <2>7
  <1>11. CASE KeepStop(plan, reason, evaluated)
    <2>1. latch' = Evaluated(escape) /\ UNCHANGED world
      BY <1>11 DEF KeepStop, evaluated
    <2>2. ~(reason = "passed" /\ plan = "safeStop")
      BY <1>11 DEF KeepStop
    <2>3. /\ looked' = TRUE
          /\ standing' = IF ~stopped \/ ~latch.fresh THEN 0
                         ELSE IF looked /\ standing > 0 THEN standing
                         ELSE UpTo(StandBound, standing)
          /\ travel' = travel
      BY <1>8, <2>2 DEF ObserveCycle
    <2>4. /\ latch'.clear <= standing' /\ latch'.blind <= standing'
          /\ latch'.clear > 0 => latch'.clearCounted
          /\ latch'.blind > 0 => latch'.blindCounted
      BY <1>1, <1>5, <2>1, <2>3, KeepStopCovered
    <2>5. StreaksCovered'
      BY <2>4 DEF StreaksCovered, Covered
    <2>6. DrivenIsTravel'
      BY <1>1, <2>1, <2>3 DEF LatchInv, DrivenIsTravel, Slipped, Lapped, world
    <2>7. StopsWhileLatched'
      BY <1>11 DEF KeepStop, StopsWhileLatched
    <2> QED
      BY <1>2, <2>5, <2>6, <2>7
  <1>12. ReleaseToAvoidance(plan, reason) \/ ReleaseToHandoff(plan, reason)
            => latch' = Idle
    BY DEF ReleaseToAvoidance, ReleaseToHandoff, Release
  <1> QED
    BY <1>4, <1>9, <1>10, <1>11, <1>12 DEF evaluated, reason, escape

\* Every step keeps the invariant.
LEMMA LatchInvStep == LatchInv /\ [HNext]_hvars => LatchInv'
  <1> SUFFICES ASSUME LatchInv, [HNext]_hvars PROVE LatchInv'
    OBVIOUS
  <1>1. LatchTypeOK /\ LatchTypeOK'
    BY HistoryStep, NextType DEF LatchInv
  <1>2. SUFFICES HistoryTypeOK' /\ StopsWhileLatched' /\ DrivenIsTravel' /\ StreaksCovered'
    BY <1>1 DEF LatchInv
  <1>3. HistoryTypeOK /\ StopsWhileLatched /\ DrivenIsTravel /\ StreaksCovered
    BY DEF LatchInv
  <1>4. /\ BlindCycles \in Nat /\ ReleaseCycles \in Nat /\ StandBound \in Nat
        /\ Lap \in Nat \ {0}
    BY LatchAssumption, StandBoundType
  <1>5. CASE ObserveObstacles
    <2>1. /\ UNCHANGED <<driven, output, travel, standing>>
          /\ looked' = FALSE
          /\ latch' = [latch EXCEPT !.fresh = latch.active,
                                    !.clearCounted = FALSE, !.blindCounted = FALSE]
      BY <1>5 DEF ObserveObstacles, OnObstacles
    <2>2. /\ latch'.active = latch.active /\ latch'.clear = latch.clear
          /\ latch'.blind = latch.blind
      BY <1>1, <2>1
    <2>3. HistoryTypeOK'
      BY <1>3, <2>1 DEF HistoryTypeOK, StandBound, Most
    <2>4. DrivenIsTravel'
      BY <1>3, <2>1, <2>2 DEF DrivenIsTravel, Slipped, Lapped
    <2>5. StreaksCovered'
      BY <1>3, <2>1, <2>2 DEF StreaksCovered, Covered
    <2>6. StopsWhileLatched'
      BY <1>3, <2>1, <2>2 DEF StopsWhileLatched
    <2> QED
      BY <2>3, <2>4, <2>5, <2>6
  <1>6. ASSUME NEW step \in {-1, 0, 1}, ObserveOdometry(step)
        PROVE  /\ HistoryTypeOK' /\ StopsWhileLatched'
               /\ DrivenIsTravel' /\ StreaksCovered'
    BY <1>6, OdometryInv
  <1>7. CASE ObserveOther
    <2>1. UNCHANGED <<travel, looked, standing>>
      BY <1>7 DEF ObserveOther, history
    <2>2. HistoryTypeOK'
      BY <1>3, <2>1 DEF HistoryTypeOK, StandBound, Most
    <2>3. CASE OnState
      BY <1>3, <2>1, <2>2, <2>3
         DEF OnState, StopsWhileLatched, DrivenIsTravel, Slipped, Lapped, StreaksCovered, Covered
    <2>4. CASE OnGlobalWaypoints
      <3>1. ~latch'.active
        BY <2>4 DEF OnGlobalWaypoints, Idle
      <3> QED
        BY <2>2, <3>1 DEF StopsWhileLatched, DrivenIsTravel, StreaksCovered
    <2> QED
      BY <1>7, <2>3, <2>4 DEF ObserveOther
  <1>8. CASE ObserveLatch
    <2>1. PICK dangerEnd \in 0..MaxDanger : Activate(dangerEnd)
      BY <1>8 DEF ObserveLatch, LatchSafeStop
    <2>2. latch'.clear = 0 /\ latch'.blind = 0 /\ driven' = 0
      BY <2>1, FreshLatchType DEF Activate
    <2>3. /\ travel' = 0 /\ looked' = FALSE /\ standing' = 0
      BY <1>8 DEF ObserveLatch, Restart
    <2>4. HistoryTypeOK'
      <3>1. /\ travel' \in -Lap..Lap /\ standing' \in 0..StandBound
        BY <1>4, <2>3
      <3>2. looked' \in BOOLEAN
        BY <2>3
      <3> QED
        BY <1>3, <2>3, <3>1, <3>2 DEF HistoryTypeOK, StandBound, Most
    <2>5. output' = "stop"
      BY <1>8 DEF ObserveLatch, LatchSafeStop
    <2> QED
      BY <2>2, <2>3, <2>4, <2>5
         DEF StopsWhileLatched, DrivenIsTravel, StreaksCovered, Covered
  <1>9. ASSUME NEW plan \in Plans, ObserveCycle(plan)
        PROVE  /\ HistoryTypeOK' /\ StopsWhileLatched'
               /\ DrivenIsTravel' /\ StreaksCovered'
    BY <1>9, CycleInv
  <1>10. CASE UNCHANGED hvars
    BY <1>3, <1>10 DEF hvars, vars, history, HistoryTypeOK, StopsWhileLatched,
       DrivenIsTravel, Slipped, Lapped, StreaksCovered, Covered, StandBound, Most
  <1> QED
    BY <1>5, <1>6, <1>7, <1>8, <1>9, <1>10 DEF HNext

\* The invariant of the latch with its history: the wrapped distance tells the
\* travelled one, and the latch has counted no frame the car did not stand at.
THEOREM LatchInvariance == HSpec => []LatchInv
  <1>1. HInit => LatchInv
    BY LatchInvInit
  <1>2. LatchInv /\ [HNext]_hvars => LatchInv'
    BY LatchInvStep
  <1> QED
    BY <1>1, <1>2, PTL DEF HSpec

-----------------------------------------------------------------------------
(* What follows from the invariant. *)

\* The one-lap guard of evaluate: a latch that takes the danger for passed has
\* been driven beyond it, or ego has reversed half a lap.
THEOREM PassedIsPast == HSpec => []PassedMeansPast
  <1>1. LatchInv => PassedMeansPast
    <2> SUFFICES ASSUME LatchInv, latch.active, Passed, ~Slipped
                 PROVE  travel >= latch.dangerEnd + Buffer
      BY DEF PassedMeansPast
    <2>1. /\ Lap \in Nat \ {0} /\ Buffer \in Nat /\ MaxDanger \in Nat
          /\ travel \in -Lap..Lap /\ driven \in 0..Lap - 1
          /\ latch.dangerEnd \in 0..MaxDanger
      BY LatchAssumption DEF LatchInv, HistoryTypeOK
    <2>2. 2 * driven < Lap /\ driven >= latch.dangerEnd + Buffer
      BY DEF Passed, BeforeOneLap
    <2>3. CASE Lapped
      BY <2>1, <2>2, <2>3 DEF Lapped
    <2>4. CASE ~Lapped
      <3>1. driven = IF travel < 0 THEN travel + Lap ELSE travel
        BY <2>4 DEF LatchInv, DrivenIsTravel
      <3>2. travel >= 0
        BY <2>1, <2>2, <3>1 DEF Slipped
      <3>3. travel = driven
        BY <2>1, <3>1, <3>2
      <3> QED
        BY <2>2, <3>3
    <2> QED
      BY <2>3, <2>4
  <1> QED
    BY <1>1, LatchInvariance, PTL

\* A cycle that gives the race line back before the danger has been reached
\* follows as many frames stood at as its release asks for.
LEMMA HandoffStep ==
    ASSUME LatchInv, NEW plan \in Plans, ObserveCycle(plan), Handoff, ~Passed
    PROVE  IF frame = "empty" /\ ~Behind
           THEN BlindCycles > 0 /\ standing' >= BlindCycles
           ELSE standing' >= ReleaseCycles
  <1>1. /\ LatchTypeOK /\ HistoryTypeOK
        /\ Covered(latch.clear, latch.clearCounted)
        /\ Covered(latch.blind, latch.blindCounted)
    BY DEF LatchInv, StreaksCovered, Handoff
  <1>2. HandleSafeStopLatch(plan)
    BY DEF ObserveCycle
  <1>3. PICK targets \in BOOLEAN :
          LET escape    == plan = "avoidance" /\ (targets \/ ~present)
              evaluated == Evaluated(escape)
              reason    == Reason(evaluated)
          IN  \/ ReleaseToAvoidance(plan, reason)
              \/ ReleaseToHandoff(plan, reason)
              \/ Relatch(plan, reason)
              \/ KeepStop(plan, reason, evaluated)
    BY <1>2 DEF HandleSafeStopLatch
  <1> DEFINE escape    == plan = "avoidance" /\ (targets \/ ~present)
             evaluated == Evaluated(escape)
             reason    == Reason(evaluated)
  <1>4. /\ evaluated.clear
             = Streak(ClearEvidence, latch.clearCounted, latch.clear, ReleaseCycles)
        /\ evaluated.blind
             = Streak(BlindEvidence, latch.blindCounted, latch.blind, BlindCycles)
    <2>1. escape \in BOOLEAN
      OBVIOUS
    <2> QED
      BY <1>1, <2>1, EvaluatedType
  <1> HIDE DEF evaluated
  <1>5. /\ reason = "passed" => Passed
        /\ reason = "clear" => evaluated.clear = ReleaseCycles
        /\ reason = "blind" => BlindCycles > 0 /\ evaluated.blind = BlindCycles
    BY DEF Reason
  <1> HIDE DEF reason
  <1>6. reason \in {"clear", "blind"}
    <2>1. output' = "handoff" /\ ~Passed
      BY DEF Handoff
    <2>2. ~ReleaseToAvoidance(plan, reason)
      BY <2>1 DEF ReleaseToAvoidance, Release
    <2>3. ~Relatch(plan, reason) /\ ~KeepStop(plan, reason, evaluated)
      BY <2>1 DEF Relatch, KeepStop
    <2>4. ReleaseToHandoff(plan, reason)
      BY <1>3, <2>2, <2>3 DEF reason, evaluated, escape
    <2> QED
      BY <1>5, <2>1, <2>4 DEF ReleaseToHandoff
  <1>7. standing' = IF ~stopped \/ ~latch.fresh THEN 0
                    ELSE IF looked /\ standing > 0 THEN standing
                    ELSE UpTo(StandBound, standing)
    BY DEF ObserveCycle, Handoff
  <1>8. /\ ReleaseCycles \in Nat \ {0} /\ BlindCycles \in Nat
        /\ ReleaseCycles <= StandBound /\ BlindCycles <= StandBound
        /\ latch.clear \in 0..ReleaseCycles /\ latch.blind \in 0..BlindCycles
        /\ latch.clearCounted \in BOOLEAN /\ latch.blindCounted \in BOOLEAN
    BY <1>1, LatchAssumption, StandBoundType
  <1>9. CASE reason = "clear"
    <2>1. Streak(ClearEvidence, latch.clearCounted, latch.clear, ReleaseCycles)
              = ReleaseCycles
      BY <1>4, <1>5, <1>9
    <2>2. ClearEvidence
      <3>1. Streak(ClearEvidence, latch.clearCounted, latch.clear, ReleaseCycles) > 0
                => ClearEvidence
        BY <1>8, EvidenceStands, StreakBounded
      <3> QED
        BY <1>8, <2>1, <3>1
    <2>3. ~(frame = "empty" /\ ~Behind)
      BY <2>2 DEF ClearEvidence
    <2>4. Streak(ClearEvidence, latch.clearCounted, latch.clear, ReleaseCycles)
              <= standing'
      BY <1>1, <1>7, <1>8, EvidenceStands, StreakCovered
    <2>5. standing' >= ReleaseCycles
      <3>1. standing' \in Int
        BY <1>1, <1>7, StandBoundType, UpToBounded DEF HistoryTypeOK
      <3> QED
        BY <1>8, <2>1, <2>4, <3>1
    <2> QED
      BY <2>3, <2>5
  <1>10. CASE reason = "blind"
    <2>1. /\ BlindCycles > 0
          /\ Streak(BlindEvidence, latch.blindCounted, latch.blind, BlindCycles)
               = BlindCycles
      BY <1>4, <1>5, <1>10
    <2>2. BlindEvidence
      BY <1>8, <2>1, EvidenceStands, StreakBounded
    <2>3. frame = "empty" /\ ~Behind
      BY <2>2 DEF BlindEvidence
    <2>4. Streak(BlindEvidence, latch.blindCounted, latch.blind, BlindCycles)
              <= standing'
      BY <1>1, <1>7, <1>8, EvidenceStands, StreakCovered
    <2>5. standing' >= BlindCycles
      <3>1. standing' \in Int
        BY <1>1, <1>7, StandBoundType, UpToBounded DEF HistoryTypeOK
      <3> QED
        BY <1>8, <2>1, <2>4, <3>1
    <2> QED
      BY <2>1, <2>3, <2>5
  <1> QED
    BY <1>6, <1>9, <1>10

\* The race line is given back before the danger only to a car that has stood
\* while the planner looked at enough frames that came after the stop began.
THEOREM HandoffStoodFor == HSpec => HandoffIsStoodFor
  <1> DEFINE Stood == IF frame = "empty" /\ ~Behind
                      THEN BlindCycles > 0 /\ standing' >= BlindCycles
                      ELSE standing' >= ReleaseCycles
  <1>1. LatchInv /\ [HNext]_hvars => [Handoff /\ ~Passed => Stood]_hvars
    <2> SUFFICES ASSUME LatchInv, [HNext]_hvars, Handoff, ~Passed PROVE Stood
      OBVIOUS
    <2>1. latch.active /\ ~latch'.active /\ output' = "handoff"
      BY DEF Handoff
    <2>2. ~ObserveObstacles
      BY <2>1 DEF ObserveObstacles, OnObstacles, LatchInv
    <2>3. ASSUME NEW step \in {-1, 0, 1}, ObserveOdometry(step) PROVE FALSE
      BY <2>1, <2>3 DEF ObserveOdometry, OnFrenetOdometry
    <2>4. ~ObserveOther
      BY <2>1 DEF ObserveOther, OnState, OnGlobalWaypoints, LatchInv, StopsWhileLatched
    <2>5. ~ObserveLatch
      BY <2>1 DEF ObserveLatch, LatchSafeStop
    <2>6. ASSUME NEW plan \in Plans, ObserveCycle(plan) PROVE Stood
      BY <2>6, HandoffStep
    <2>7. ~UNCHANGED hvars
      BY <2>1 DEF hvars, vars
    <2> QED
      BY <2>2, <2>3, <2>4, <2>5, <2>6, <2>7 DEF HNext
  <1> QED
    BY <1>1, LatchInvariance, PTL DEF HSpec, HandoffIsStoodFor
=============================================================================
