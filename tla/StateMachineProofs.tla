-------------------------- MODULE StateMachineProofs --------------------------
(***************************************************************************)
(* Proofs about the driving-mode node, for every window size, timeout,     *)
(* default mode and set of opponent tracks, on what the M-of-N window      *)
(* promises for every size and every vote.                                 *)
(***************************************************************************)
EXTENDS StateMachineHistory, FiniteSetTheorems, FunctionTheorems, SequenceTheorems, TLAPS

-----------------------------------------------------------------------------
(* The window.                                                               *)

Positive(window) == {i \in DOMAIN window : window[i]}

\* The positions of the positive votes are finitely many, so Hits is a number.
LEMMA HitsType ==
    ASSUME NEW w \in Seq(BOOLEAN)
    PROVE  /\ IsFiniteSet(Positive(w))
           /\ Hits(w) = Cardinality(Positive(w))
           /\ Hits(w) \in Nat
<1>1. DOMAIN w = 1..Len(w) /\ Len(w) \in Nat
  BY LenProperties
<1>2. IsFiniteSet(1..Len(w))
  BY <1>1, FS_Interval
<1>3. Positive(w) \in SUBSET (1..Len(w))
  BY <1>1 DEF Positive
<1>4. IsFiniteSet(Positive(w))
  BY <1>2, <1>3, FS_Subset
<1>5. Hits(w) = Cardinality(Positive(w))
  BY DEF Hits, Positive
<1> QED
  BY <1>4, <1>5, FS_CardinalityType

\* An empty window holds no vote.
LEMMA HitsEmpty == Hits(<<>>) = 0 /\ <<>> \in Seq(BOOLEAN) /\ Len(<<>>) = 0
<1>1. {i \in DOMAIN <<>> : <<>>[i]} = {}
  OBVIOUS
<1> QED
  BY <1>1, FS_EmptySet DEF Hits

\* Pushing a vote adds it to the count.
LEMMA HitsAppend ==
    ASSUME NEW w \in Seq(BOOLEAN), NEW v \in BOOLEAN
    PROVE  Hits(Append(w, v)) = Hits(w) + (IF v THEN 1 ELSE 0)
<1> DEFINE n == Len(w)
<1>1. n \in Nat /\ DOMAIN w = 1..n
  BY LenProperties
<1>2. /\ Append(w, v) \in Seq(BOOLEAN)
      /\ DOMAIN Append(w, v) = 1..(n + 1)
      /\ \A i \in 1..n : Append(w, v)[i] = w[i]
      /\ Append(w, v)[n + 1] = v
  BY <1>1
<1>3. n + 1 \notin Positive(w)
  BY <1>1 DEF Positive
<1>4. /\ IsFiniteSet(Positive(w)) /\ Hits(w) \in Nat
      /\ Hits(w) = Cardinality(Positive(w))
      /\ Hits(Append(w, v)) = Cardinality(Positive(Append(w, v)))
  BY <1>2, HitsType
<1>5. CASE v
  <2>1. Positive(Append(w, v)) = Positive(w) \cup {n + 1}
    BY <1>1, <1>2, <1>5 DEF Positive
  <2>2. Cardinality(Positive(w) \cup {n + 1}) = Cardinality(Positive(w)) + 1
    BY <1>3, <1>4, FS_AddElement
  <2> QED
    BY <1>5, <1>4, <2>1, <2>2
<1>6. CASE ~v
  <2>1. Positive(Append(w, v)) = Positive(w)
    BY <1>1, <1>2, <1>6 DEF Positive
  <2> QED
    BY <1>6, <1>4, <2>1
<1> QED
  BY <1>5, <1>6

\* Dropping the oldest vote adds nothing.
LEMMA HitsTail ==
    ASSUME NEW w \in Seq(BOOLEAN), w # <<>>
    PROVE  Hits(Tail(w)) <= Hits(w)
<1> DEFINE shift == [i \in Positive(Tail(w)) |-> i + 1]
<1>1. /\ Tail(w) \in Seq(BOOLEAN)
      /\ Len(w) \in Nat /\ Len(Tail(w)) = Len(w) - 1
      /\ DOMAIN w = 1..Len(w) /\ DOMAIN Tail(w) = 1..Len(Tail(w))
      /\ \A i \in 1..Len(Tail(w)) : Tail(w)[i] = w[i + 1]
  BY HeadTailProperties, LenProperties
<1>2. \A i \in Positive(Tail(w)) : i \in Int /\ i + 1 \in Positive(w)
  BY <1>1 DEF Positive
<1>3. shift \in Injection(Positive(Tail(w)), Positive(w))
  BY <1>2, Fun_IsInj DEF Injection, IsInjective
<1>4. /\ IsFiniteSet(Positive(w))
      /\ Hits(w) = Cardinality(Positive(w))
      /\ Hits(Tail(w)) = Cardinality(Positive(Tail(w)))
  BY <1>1, HitsType
<1>5. Cardinality(Positive(Tail(w))) <= Cardinality(Positive(w))
  BY <1>3, <1>4, FS_Injection
<1> QED
  BY <1>4, <1>5

\* Sliding the window keeps it bounded, and a vote adds at most itself.
LEMMA SlideProperties ==
    ASSUME NEW w \in Seq(BOOLEAN), NEW v \in BOOLEAN, NEW n \in Nat \ {0},
           Len(w) <= n
    PROVE  /\ Slide(w, v, n) \in Seq(BOOLEAN)
           /\ Len(Slide(w, v, n)) <= n
           /\ Hits(w) \in Nat /\ Hits(Slide(w, v, n)) \in Nat
           /\ Hits(Slide(w, v, n)) <= Hits(w) + 1
           /\ ~v => Hits(Slide(w, v, n)) <= Hits(w)
<1>1. /\ Append(w, v) \in Seq(BOOLEAN) /\ Append(w, v) # <<>>
      /\ Len(w) \in Nat /\ Len(Append(w, v)) = Len(w) + 1
  BY LenProperties
<1>2. /\ Tail(Append(w, v)) \in Seq(BOOLEAN)
      /\ Len(Tail(Append(w, v))) = Len(w)
  BY <1>1, HeadTailProperties
<1>3. /\ Hits(w) \in Nat /\ Hits(Append(w, v)) \in Nat
      /\ Hits(Tail(Append(w, v))) \in Nat
  BY <1>1, <1>2, HitsType
<1>4. Hits(Append(w, v)) = Hits(w) + (IF v THEN 1 ELSE 0)
  BY HitsAppend
<1>5. Hits(Tail(Append(w, v))) <= Hits(Append(w, v))
  BY <1>1, HitsTail
<1>6. CASE Len(w) < n
  BY <1>1, <1>3, <1>4, <1>6 DEF Slide
<1>7. CASE ~(Len(w) < n)
  BY <1>1, <1>2, <1>3, <1>4, <1>5, <1>7 DEF Slide
<1> QED
  BY <1>6, <1>7

-----------------------------------------------------------------------------
(* The node.                                                                 *)

USE ConfirmationAssumption, TimeoutAssumption, ModeAssumption

LEMMA InitInductive == HInit => IndInv
<1>1. SUFFICES ASSUME HInit PROVE IndInv
  OBVIOUS
<1>2. TypeOK
  <2>1. /\ avoidHistory \in Seq(BOOLEAN) /\ Len(avoidHistory) <= WindowSize
        /\ clearHistory \in Seq(BOOLEAN) /\ Len(clearHistory) <= CruiseWindow
    BY <1>1, HitsEmpty DEF HInit, Init
  <2>2. output \in [mode : Modes, source : {"none", "global", "newest", "held"}]
    BY <1>1 DEF HInit, Init
  <2>3. /\ frenetAge \in 0..FrenetTimeout + 1 /\ opponentAge \in 0..OpponentTimeout + 1
        /\ mergeTimer \in Unset..EnterGlobalTime
    BY <1>1 DEF HInit, Init, Unset
  <2>4. /\ avoidMsg \in Path \cup {EmptyPath, NoPath} /\ lastNonEmpty \in Path \cup {NoPath}
        /\ selected \in Opponent \cup {NoOpponent}
    BY <1>1 DEF HInit, Init
  <2>5. /\ mode \in Modes /\ globalValid \in BOOLEAN /\ aligned \in BOOLEAN
        /\ threat \in Threats /\ latchedId \in OpponentIds \cup {NoId}
        /\ evalMode \in {"GLOBAL", "AVOID"}
    BY <1>1 DEF HInit, Init, Threats
  <2> QED
    BY <2>1, <2>2, <2>3, <2>4, <2>5 DEF TypeOK
<1>3. HistoryTypeOK
  <2>1. /\ requests \in 0..MinHits /\ mergeRun \in Unset..EnterGlobalTime
        /\ clearsSeen \in 0..CruiseMinHits
    BY <1>1 DEF HInit, Unset
  <2>2. measured \in OpponentIds \cup {NoId}
    BY <1>1 DEF HInit
  <2> QED
    BY <2>1, <2>2 DEF HistoryTypeOK
<1>4. VotesCovered /\ ClearsCovered
  <2>1. Hits(avoidHistory) = 0 /\ Hits(clearHistory) = 0
    BY <1>1, HitsEmpty DEF HInit, Init
  <2> QED
    BY <1>1, <2>1 DEF HInit, VotesCovered, ClearsCovered
<1>5. TimerCovered /\ LatchMeasured
  BY <1>1 DEF HInit, Init, TimerCovered, LatchMeasured, Unset
<1>6. PathRemembered
  BY <1>1 DEF HInit, Init, PathRemembered, IsNonEmpty, NoPath, Path
<1>7. AvoidNeverPublishesGlobal
  BY <1>1 DEF HInit, Init, AvoidNeverPublishesGlobal
<1> QED
  BY <1>2, <1>3, <1>4, <1>5, <1>6, <1>7 DEF IndInv

\* Nothing but OnAvoidWaypoints and PublishStateCycle touches what the node is
\* measured by, except that time moves the two merge clocks together.
LEMMA InputsInductive ==
    ASSUME IndInv, ObserveOther \/ ObserveElapse
    PROVE  IndInv'
<1>1. CASE ObserveOther
  <2>1. /\ UNCHANGED <<avoidHistory, avoidMsg, lastNonEmpty>>
        /\ UNCHANGED <<mode, clearHistory, latchedId, mergeTimer, evalMode, output>>
        /\ UNCHANGED <<requests, mergeRun, clearsSeen, measured>>
    BY <1>1 DEF ObserveOther, OnFrenetOdom, OnGlobalWaypoints, OnOpponent, fsm, path, history
  <2>2. aligned' \in BOOLEAN /\ globalValid' \in BOOLEAN
    BY <1>1 DEF ObserveOther, OnFrenetOdom, OnGlobalWaypoints, OnOpponent,
       AlignmentMayChange, path, IndInv, TypeOK
  <2>3. threat' \in Threats
    BY <1>1 DEF ObserveOther, OnFrenetOdom, OnGlobalWaypoints, OnOpponent,
       ThreatMayChange, Threats
  <2>4. /\ selected' \in Opponent \cup {NoOpponent}
        /\ opponentAge' \in 0..OpponentTimeout + 1
        /\ frenetAge' \in 0..FrenetTimeout + 1
    BY <1>1 DEF ObserveOther, OnFrenetOdom, OnGlobalWaypoints, OnOpponent,
       IndInv, TypeOK
  <2>5. TypeOK'
    BY <2>1, <2>2, <2>3, <2>4 DEF IndInv, TypeOK
  <2>6. HistoryTypeOK'
    BY <2>1 DEF IndInv, HistoryTypeOK
  <2> QED
    BY <2>1, <2>5, <2>6 DEF IndInv, VotesCovered, TimerCovered, ClearsCovered,
       LatchMeasured, PathRemembered, AvoidNeverPublishesGlobal, IsNonEmpty
<1>2. CASE ObserveElapse
  <2>1. /\ UNCHANGED <<globalValid, selected, threat>>
        /\ UNCHANGED <<avoidHistory, avoidMsg, lastNonEmpty, aligned>>
        /\ UNCHANGED <<mode, clearHistory, latchedId, evalMode, output>>
        /\ UNCHANGED <<requests, clearsSeen, measured>>
    BY <1>2 DEF ObserveElapse, Elapse, path
  <2>2. /\ frenetAge' \in 0..FrenetTimeout + 1
        /\ opponentAge' \in 0..OpponentTimeout + 1
    BY <1>2 DEF ObserveElapse, Elapse, FrenetFresh, OpponentFresh, IndInv, TypeOK
  <2>3. /\ mergeTimer' \in Unset..EnterGlobalTime
        /\ mergeRun' \in Unset..EnterGlobalTime
        /\ TimerCovered'
    BY <1>2, <2>1 DEF ObserveElapse, Elapse, TimerCovered, Counted, Unset, IndInv,
       TypeOK, HistoryTypeOK
  <2>4. TypeOK'
    BY <2>1, <2>2, <2>3 DEF IndInv, TypeOK
  <2>5. HistoryTypeOK'
    BY <2>1, <2>3 DEF IndInv, HistoryTypeOK
  <2> QED
    BY <2>1, <2>3, <2>4, <2>5 DEF IndInv, VotesCovered, ClearsCovered,
       LatchMeasured, PathRemembered, AvoidNeverPublishesGlobal, IsNonEmpty
<1> QED
  BY <1>1, <1>2

\* A new avoid path slides the entry window; a request is counted on both sides.
LEMMA AvoidWaypointsInductive ==
    ASSUME IndInv, ObserveAvoidWaypoints
    PROVE  IndInv'
<1> USE DEF IndInv
<1>1. PICK p \in Path \cup {EmptyPath} :
        /\ avoidHistory' = Slide(avoidHistory, IsRequest(p), WindowSize)
        /\ avoidMsg' = p
        /\ lastNonEmpty' = IF IsNonEmpty(p) THEN p ELSE lastNonEmpty
        /\ UNCHANGED <<inputs, fsm>>
        /\ AlignmentMayChange
  BY DEF ObserveAvoidWaypoints, OnAvoidWaypoints
<1>2. IsRequest(p) <=> p.line = "avoid" /\ p.profile # "stop"
  BY DEF IsRequest, IsHandoff, IsFullStop, IsNonEmpty, Path, EmptyPath
<1>3. IsRequest(p) \in BOOLEAN
  BY DEF IsRequest, IsHandoff, IsFullStop, IsNonEmpty
<1>4. /\ avoidHistory' \in Seq(BOOLEAN) /\ Len(avoidHistory') <= WindowSize
      /\ Hits(avoidHistory) \in Nat /\ Hits(avoidHistory') \in Nat
      /\ Hits(avoidHistory') <= Hits(avoidHistory) + 1
      /\ ~IsRequest(p) => Hits(avoidHistory') <= Hits(avoidHistory)
  BY <1>1, <1>3, SlideProperties DEF TypeOK
<1>5. /\ requests' = Counted(requests, IsRequest(p), MinHits)
      /\ UNCHANGED <<mergeRun, clearsSeen, measured>>
  BY <1>1, <1>2 DEF ObserveAvoidWaypoints, Counted
<1>6. TypeOK'
  <2>1. avoidMsg' \in Path \cup {EmptyPath, NoPath} /\ lastNonEmpty' \in Path \cup {NoPath}
    BY <1>1 DEF TypeOK, IsNonEmpty
  <2>2. aligned' \in BOOLEAN
    BY <1>1 DEF AlignmentMayChange
  <2> QED
    BY <1>1, <1>4, <2>1, <2>2 DEF TypeOK, inputs, fsm
<1>7. HistoryTypeOK'
  BY <1>3, <1>5 DEF HistoryTypeOK, Counted
<1>8. VotesCovered'
  BY <1>3, <1>4, <1>5 DEF VotesCovered, Counted, HistoryTypeOK
<1>9. PathRemembered'
  BY <1>1 DEF PathRemembered, IsNonEmpty, fsm
<1> QED
  BY <1>1, <1>5, <1>6, <1>7, <1>8, <1>9 DEF inputs, fsm, TimerCovered,
     ClearsCovered, LatchMeasured, AvoidNeverPublishesGlobal

\* Facts of one timer cycle that its cases share: the verdict, the window it was
\* pushed in, and the eight ways through the switch.
LEMMA CycleFacts ==
    ASSUME IndInv, ObserveCycle
    PROVE  \E cruise \in BOOLEAN, clears \in Seq(BOOLEAN) :
             /\ latchedId' = Latch(cruise)
             /\ cruise => selected \in Opponent
             /\ cruise /\ latchedId # selected.id => selected.visible /\ threat = "enter"
             /\ Len(clears) <= CruiseWindow
             /\ Hits(clearHistory) \in Nat /\ Hits(clears) \in Nat
             /\ Hits(clears) <= Hits(clearHistory) + 1
             /\ cruise => Hits(clears) <= Hits(clearHistory)
             /\ clearHistory' = IF mode' # mode THEN <<>> ELSE clears
             /\ output' = [mode |-> mode',
                           source |-> SelectedSource(mode', avoidMsg', lastNonEmpty')]
             /\ UNCHANGED inputs
             /\ Resolve(cruise, clears)
<1>1. PICK diagnosed \in {FALSE, DiagnosticDue} :
        LET cruise == Interfering(LatchAfterDiagnostic(diagnosed))
            clears == Slide(clearHistory, ~cruise, CruiseWindow)
        IN  /\ latchedId' = Latch(cruise)
            /\ Resolve(cruise, clears)
            /\ clearHistory' = ClearsKept(clears)
            /\ output' = [mode   |-> mode',
                          source |-> SelectedSource(mode', avoidMsg', lastNonEmpty')]
            /\ UNCHANGED inputs
  BY DEF ObserveCycle, PublishStateCycle
<1> DEFINE held   == LatchAfterDiagnostic(diagnosed)
           cruise == Interfering(held)
           clears == Slide(clearHistory, ~cruise, CruiseWindow)
<1>2. cruise \in BOOLEAN /\ (~cruise) \in BOOLEAN
  BY DEF Interfering
<1>3. cruise => selected \in Opponent
  BY DEF Interfering, IndInv, TypeOK
<1>4. cruise /\ latchedId # selected.id => selected.visible /\ threat = "enter"
  <2>1. SUFFICES ASSUME cruise, latchedId # selected.id
                 PROVE  selected.visible /\ threat = "enter"
    OBVIOUS
  <2>2. selected.id # NoId
    BY <1>3, <2>1 DEF Opponent
  <2>3. CASE held # selected.id
    BY <2>1, <2>3 DEF Interfering
  <2>4. CASE held = selected.id
    <3>1. Latch(Interfering(latchedId)) = selected.id
      BY <2>1, <2>4 DEF LatchAfterDiagnostic
    <3>2. Interfering(latchedId)
      BY <2>2, <3>1 DEF Latch
    <3> QED
      BY <2>1, <3>2 DEF Interfering
  <2> QED
    BY <2>3, <2>4
<1>5. clearHistory \in Seq(BOOLEAN) /\ Len(clearHistory) <= CruiseWindow
  BY DEF IndInv, TypeOK
<1>6. /\ clears \in Seq(BOOLEAN) /\ Len(clears) <= CruiseWindow
      /\ Hits(clearHistory) \in Nat /\ Hits(clears) \in Nat
      /\ Hits(clears) <= Hits(clearHistory) + 1
      /\ cruise => Hits(clears) <= Hits(clearHistory)
  BY <1>2, <1>5, SlideProperties
<1>7. /\ latchedId' = Latch(cruise)
      /\ Resolve(cruise, clears)
      /\ clearHistory' = IF mode' # mode THEN <<>> ELSE clears
      /\ output' = [mode |-> mode',
                    source |-> SelectedSource(mode', avoidMsg', lastNonEmpty')]
      /\ UNCHANGED inputs
  BY <1>1 DEF ClearsKept
<1> HIDE DEF cruise, clears
<1> QED
  BY <1>2, <1>3, <1>4, <1>6, <1>7

\* What a cycle does to the mode, the path, and the merge timer.
LEMMA ResolveFacts ==
    ASSUME IndInv,
           NEW cruise \in BOOLEAN, NEW clears \in Seq(BOOLEAN),
           Resolve(cruise, clears)
    PROVE  /\ mode' \in Modes
           /\ mergeTimer' \in Unset..EnterGlobalTime
           /\ evalMode' \in {"GLOBAL", "AVOID"}
           /\ IF StoppedExit
              THEN avoidHistory' = <<>> /\ avoidMsg' = NoPath /\ lastNonEmpty' = NoPath
                   /\ aligned' = FALSE /\ mode' # "AVOID"
              ELSE UNCHANGED path
           /\ mode # "AVOID" /\ mode' = "AVOID" =>
                CanEnterAvoid /\ mergeTimer' = Unset
           /\ mode = "AVOID" => mergeTimer' = TimerAfter
           /\ mode = "AVOID" /\ mode' # "AVOID" => StoppedExit \/ MergedToGlobal
           /\ mode = "CRUISE" /\ mode' = "GLOBAL" => Hits(clears) >= CruiseMinHits
           /\ mode # "CRUISE" /\ mode' = "CRUISE" => cruise
<1>1. TimerAfter \in Unset..EnterGlobalTime
  BY DEF TimerAfter, Unset, IndInv, TypeOK
<1>2. mode \in Modes /\ mergeTimer \in Unset..EnterGlobalTime
      /\ evalMode \in {"GLOBAL", "AVOID"}
  BY DEF IndInv, TypeOK
<1>3. Unset \in Unset..EnterGlobalTime
  BY DEF Unset
<1>4. CASE EnterAvoid
  BY <1>2, <1>3, <1>4 DEF EnterAvoid, Modes, StoppedExit
<1>5. CASE EnterCruise(cruise) \/ StayGlobal(cruise)
  BY <1>2, <1>3, <1>5 DEF EnterCruise, StayGlobal, Modes, StoppedExit
<1>6. CASE LeaveCruise(clears) \/ StayCruise(clears)
  BY <1>2, <1>6 DEF LeaveCruise, StayCruise, Modes, StoppedExit
<1>7. CASE StayAvoid \/ LeaveAvoidMerged(cruise)
  BY <1>1, <1>7 DEF StayAvoid, LeaveAvoidMerged, EvaluateMerge, ModeAfterAvoid,
     Modes, StoppedExit, path
<1>8. CASE LeaveAvoidStopped(cruise)
  BY <1>1, <1>8 DEF LeaveAvoidStopped, EvaluateMerge, ModeAfterAvoid, Modes,
     StoppedExit
<1> QED
  BY <1>4, <1>5, <1>6, <1>7, <1>8 DEF Resolve

\* A cycle keeps the invariant.
LEMMA CycleInductive ==
    ASSUME IndInv, ObserveCycle
    PROVE  IndInv'
<1>1. PICK cruise \in BOOLEAN, clears \in Seq(BOOLEAN) :
             /\ latchedId' = Latch(cruise)
             /\ cruise => selected \in Opponent
             /\ cruise /\ latchedId # selected.id => selected.visible /\ threat = "enter"
             /\ Len(clears) <= CruiseWindow
             /\ Hits(clearHistory) \in Nat /\ Hits(clears) \in Nat
             /\ Hits(clears) <= Hits(clearHistory) + 1
             /\ cruise => Hits(clears) <= Hits(clearHistory)
             /\ clearHistory' = IF mode' # mode THEN <<>> ELSE clears
             /\ output' = [mode |-> mode',
                           source |-> SelectedSource(mode', avoidMsg', lastNonEmpty')]
             /\ UNCHANGED inputs
             /\ Resolve(cruise, clears)
  BY CycleFacts
<1>2. /\ mode' \in Modes
      /\ mergeTimer' \in Unset..EnterGlobalTime
      /\ evalMode' \in {"GLOBAL", "AVOID"}
      /\ IF StoppedExit
         THEN avoidHistory' = <<>> /\ avoidMsg' = NoPath /\ lastNonEmpty' = NoPath
              /\ aligned' = FALSE /\ mode' # "AVOID"
         ELSE UNCHANGED path
      /\ mode # "AVOID" /\ mode' = "AVOID" => CanEnterAvoid /\ mergeTimer' = Unset
      /\ mode = "AVOID" => mergeTimer' = TimerAfter
  BY <1>1, ResolveFacts
<1>3. /\ requests' = IF StoppedExit THEN 0 ELSE requests
      /\ mergeRun' = IF ~Mergeable THEN Unset
                     ELSE IF mergeRun = Unset THEN 0 ELSE mergeRun
      /\ clearsSeen' = IF mode # "CRUISE" THEN 0
                       ELSE Counted(clearsSeen, latchedId' = NoId, CruiseMinHits)
      /\ measured' = IF latchedId' = NoId THEN NoId
                     ELSE IF selected.visible /\ threat = "enter" THEN selected.id
                     ELSE IF measured = selected.id THEN measured
                     ELSE NoId
  BY DEF ObserveCycle
<1>4. TypeOK'
  <2>1. /\ avoidHistory' \in Seq(BOOLEAN) /\ Len(avoidHistory') <= WindowSize
        /\ avoidMsg' \in Path \cup {EmptyPath, NoPath}
        /\ lastNonEmpty' \in Path \cup {NoPath}
    <3>1. CASE StoppedExit
      BY <1>2, <3>1, HitsEmpty
    <3>2. CASE ~StoppedExit
      BY <1>2, <3>2 DEF IndInv, TypeOK, path
    <3> QED
      BY <3>1, <3>2
  <2>2. aligned' \in BOOLEAN
    BY <1>2 DEF IndInv, TypeOK, path
  <2>3. clearHistory' \in Seq(BOOLEAN) /\ Len(clearHistory') <= CruiseWindow
    <3>1. CASE mode' # mode
      BY <1>1, <3>1, HitsEmpty
    <3>2. CASE mode' = mode
      BY <1>1, <3>2
    <3> QED
      BY <3>1, <3>2
  <2>4. latchedId' \in OpponentIds \cup {NoId}
    BY <1>1 DEF Latch, Opponent
  <2>5. output' \in [mode : Modes, source : {"none", "global", "newest", "held"}]
    BY <1>1, <1>2 DEF SelectedSource
  <2>6. /\ globalValid' \in BOOLEAN /\ frenetAge' \in 0..FrenetTimeout + 1
        /\ opponentAge' \in 0..OpponentTimeout + 1
        /\ selected' \in Opponent \cup {NoOpponent} /\ threat' \in Threats
    BY <1>1 DEF inputs, IndInv, TypeOK
  <2> QED
    BY <1>2, <2>1, <2>2, <2>3, <2>4, <2>5, <2>6 DEF TypeOK
<1>5. HistoryTypeOK'
  <2>1. requests' \in 0..MinHits
    BY <1>3 DEF IndInv, HistoryTypeOK
  <2>2. mergeRun' \in Unset..EnterGlobalTime
    BY <1>3 DEF IndInv, HistoryTypeOK, Unset
  <2>3. clearsSeen' \in 0..CruiseMinHits
    BY <1>3 DEF IndInv, HistoryTypeOK, Counted
  <2>4. measured' \in OpponentIds \cup {NoId}
    BY <1>1, <1>3 DEF Latch, Opponent, IndInv, HistoryTypeOK
  <2> QED
    BY <2>1, <2>2, <2>3, <2>4 DEF HistoryTypeOK
<1>6. VotesCovered'
  <2>1. CASE StoppedExit
    BY <1>2, <1>3, <2>1, HitsEmpty DEF VotesCovered
  <2>2. CASE ~StoppedExit
    BY <1>2, <1>3, <2>2 DEF VotesCovered, path, IndInv
  <2> QED
    BY <2>1, <2>2
<1>7. TimerCovered'
  <2>1. SUFFICES ASSUME mode' = "AVOID" PROVE mergeTimer' <= mergeRun'
    BY DEF TimerCovered
  <2>2. mergeRun' \in Unset..EnterGlobalTime
    BY <1>5 DEF HistoryTypeOK
  <2>3. CASE mergeTimer' = Unset
    BY <2>2, <2>3 DEF Unset
  <2>4. CASE mergeTimer' # Unset
    <3>1. mode = "AVOID" /\ mergeTimer' = TimerAfter /\ MergeReady
      BY <1>2, <2>1, <2>4 DEF TimerAfter
    <3>2. Mergeable
      BY <3>1 DEF Mergeable, MergeReady, FrenetFresh, HandoffOffered, IsHandoff,
         IsNonEmpty, Path
    <3>3. mergeTimer <= mergeRun
      BY <3>1 DEF IndInv, TimerCovered
    <3> QED
      BY <1>3, <3>1, <3>2, <3>3 DEF TimerAfter, Unset, IndInv, TypeOK, HistoryTypeOK
  <2> QED
    BY <2>3, <2>4
<1>8. ClearsCovered'
  <2>1. SUFFICES ASSUME mode' = "CRUISE", clearsSeen' < CruiseMinHits
                 PROVE  Hits(clearHistory') <= clearsSeen'
    BY DEF ClearsCovered
  <2>2. clearsSeen \in 0..CruiseMinHits /\ clearsSeen' \in 0..CruiseMinHits
    BY <1>5 DEF IndInv, HistoryTypeOK
  <2>3. CASE mode # "CRUISE"
    BY <1>1, <2>1, <2>2, <2>3, HitsEmpty
  <2>4. CASE mode = "CRUISE"
    <3>1. clearHistory' = clears
      BY <1>1, <2>1, <2>4
    <3>2. ~cruise => latchedId' = NoId
      BY <1>1 DEF Latch
    <3>3. clearsSeen < CruiseMinHits /\ Hits(clearHistory) <= clearsSeen
      BY <1>3, <2>1, <2>2, <2>4 DEF IndInv, ClearsCovered, Counted
    <3> QED
      BY <1>1, <1>3, <2>2, <2>4, <3>1, <3>2, <3>3 DEF Counted
  <2> QED
    BY <2>3, <2>4
<1>9. LatchMeasured'
  <2>1. SUFFICES ASSUME latchedId' # NoId PROVE measured' = latchedId'
    BY DEF LatchMeasured
  <2>2. cruise /\ latchedId' = selected.id
    BY <1>1, <2>1 DEF Latch
  <2>3. CASE selected.visible /\ threat = "enter"
    BY <1>3, <2>1, <2>2, <2>3
  <2>4. CASE ~(selected.visible /\ threat = "enter")
    <3>1. latchedId = selected.id
      BY <1>1, <2>2, <2>4
    <3>2. measured = selected.id
      BY <2>1, <2>2, <3>1 DEF IndInv, LatchMeasured
    <3> QED
      BY <1>3, <2>1, <2>2, <2>4, <3>2
  <2> QED
    BY <2>3, <2>4
<1>10. PathRemembered'
  <2>1. CASE StoppedExit
    BY <1>2, <2>1 DEF PathRemembered, IsNonEmpty, NoPath, Path
  <2>2. CASE ~StoppedExit
    <3>1. UNCHANGED <<avoidMsg, lastNonEmpty>>
      BY <1>2, <2>2 DEF path
    <3>2. mode # "AVOID" /\ mode' = "AVOID" => IsNonEmpty(avoidMsg)
      BY <1>2 DEF CanEnterAvoid, HasAvoid
    <3> QED
      BY <3>1, <3>2 DEF PathRemembered, IsNonEmpty, IndInv
  <2> QED
    BY <2>1, <2>2
<1>11. AvoidNeverPublishesGlobal'
  BY <1>1, <1>10 DEF AvoidNeverPublishesGlobal, SelectedSource, PathRemembered,
     IsNonEmpty
<1> QED
  BY <1>4, <1>5, <1>6, <1>7, <1>8, <1>9, <1>10, <1>11 DEF IndInv

\* The inductive invariant holds in every reachable state.
THEOREM Invariance == HSpec => []IndInv
<1>1. IndInv /\ [HNext]_hvars => IndInv'
  <2>1. SUFFICES ASSUME IndInv, [HNext]_hvars PROVE IndInv'
    OBVIOUS
  <2>2. CASE UNCHANGED hvars
    BY <2>1, <2>2 DEF hvars, vars, inputs, path, fsm, history, IndInv, TypeOK,
       HistoryTypeOK, VotesCovered, TimerCovered, ClearsCovered, LatchMeasured,
       PathRemembered, AvoidNeverPublishesGlobal, IsNonEmpty
  <2> QED
    BY <2>1, <2>2, InputsInductive, AvoidWaypointsInductive, CycleInductive DEF HNext
<1> QED
  BY InitInductive, <1>1, PTL DEF HSpec

\* The type invariant, for every value of the constants.
THEOREM TypeCorrect == HSpec => []TypeOK
<1>1. IndInv => TypeOK
  BY DEF IndInv
<1> QED
  BY Invariance, <1>1, PTL

\* Once AVOID has been entered by a transition its waypoints never fall back to
\* the global line (select_waypoints keeps the last path with points).
THEOREM AvoidKeepsItsPath == HSpec => []AvoidNeverPublishesGlobal
<1>1. IndInv => AvoidNeverPublishesGlobal
  BY DEF IndInv
<1> QED
  BY Invariance, <1>1, PTL

\* Only a cycle changes the mode.
LEMMA ModeChangesInCycle ==
    ASSUME [HNext]_hvars, mode' # mode
    PROVE  ObserveCycle
BY DEF HNext, hvars, vars, fsm, OnFrenetOdom, ObserveOther,
   OnGlobalWaypoints, OnOpponent, ObserveElapse, Elapse, ObserveAvoidWaypoints,
   OnAvoidWaypoints

\* Entering AVOID takes MinHits new requests since the last full-stop exit.
THEOREM EntryNeedsRequests == HSpec => AvoidEntryNeedsNewRequests
<1>1. IndInv /\ [HNext]_hvars
        => [mode # "AVOID" /\ mode' = "AVOID" => requests >= MinHits]_hvars
  <2>1. SUFFICES ASSUME IndInv, [HNext]_hvars, mode # "AVOID", mode' = "AVOID"
                 PROVE  requests >= MinHits
    OBVIOUS
  <2>2. PICK cruise \in BOOLEAN, clears \in Seq(BOOLEAN) : Resolve(cruise, clears)
    BY <2>1, ModeChangesInCycle, CycleFacts
  <2>3. Hits(avoidHistory) >= MinHits
    BY <2>1, <2>2, ResolveFacts DEF CanEnterAvoid
  <2>4. avoidHistory \in Seq(BOOLEAN) /\ requests \in 0..MinHits
    BY <2>1 DEF IndInv, TypeOK, HistoryTypeOK
  <2>5. Hits(avoidHistory) \in Nat
    BY <2>4, HitsType
  <2> QED
    BY <2>1, <2>3, <2>4, <2>5 DEF IndInv, VotesCovered
<1> QED
  BY Invariance, <1>1, PTL DEF HSpec, AvoidEntryNeedsNewRequests

\* AVOID ends without a full stop only after an unbroken run of handoff cycles.
THEOREM MergeNeedsHandoff == HSpec => MergeNeedsUnbrokenHandoff
<1>1. IndInv /\ [HNext]_hvars
        => [(mode = "AVOID" /\ mode' # "AVOID" /\ ~StoppedExit)
             => mergeRun' >= EnterGlobalTime]_hvars
  <2>1. SUFFICES ASSUME IndInv, [HNext]_hvars,
                        mode = "AVOID", mode' # "AVOID", ~StoppedExit
                 PROVE  mergeRun' >= EnterGlobalTime
    OBVIOUS
  <2>2. ObserveCycle
    BY <2>1, ModeChangesInCycle
  <2>3. PICK cruise \in BOOLEAN, clears \in Seq(BOOLEAN) : Resolve(cruise, clears)
    BY <2>1, <2>2, CycleFacts
  <2>4. MergedToGlobal
    BY <2>1, <2>3, ResolveFacts
  <2>5. Mergeable
    BY <2>1, <2>4 DEF MergedToGlobal, Mergeable, MergeReady, FrenetFresh,
       HandoffOffered, IsHandoff, IsNonEmpty, Path
  <2>6. /\ mergeTimer <= mergeRun
        /\ mergeTimer \in Unset..EnterGlobalTime /\ mergeRun \in Unset..EnterGlobalTime
    BY <2>1 DEF IndInv, TimerCovered, TypeOK, HistoryTypeOK
  <2>7. mergeRun' = IF mergeRun = Unset THEN 0 ELSE mergeRun
    BY <2>2, <2>5 DEF ObserveCycle
  <2> QED
    BY <2>4, <2>6, <2>7 DEF MergedToGlobal, TimerAfter, Unset
<1> QED
  BY Invariance, <1>1, PTL DEF HSpec, MergeNeedsUnbrokenHandoff

\* CRUISE returns to GLOBAL only after CruiseMinHits clear cycles of this visit.
THEOREM ExitNeedsClearVotes == HSpec => CruiseExitNeedsClearVotes
<1>1. IndInv /\ [HNext]_hvars
        => [mode = "CRUISE" /\ mode' = "GLOBAL" => clearsSeen' >= CruiseMinHits]_hvars
  <2>1. SUFFICES ASSUME IndInv, [HNext]_hvars, mode = "CRUISE", mode' = "GLOBAL"
                 PROVE  clearsSeen' >= CruiseMinHits
    OBVIOUS
  <2>2. ObserveCycle
    BY <2>1, ModeChangesInCycle
  <2>3. PICK cruise \in BOOLEAN, clears \in Seq(BOOLEAN) :
             /\ latchedId' = Latch(cruise)
             /\ Hits(clearHistory) \in Nat /\ Hits(clears) \in Nat
             /\ Hits(clears) <= Hits(clearHistory) + 1
             /\ cruise => Hits(clears) <= Hits(clearHistory)
             /\ Resolve(cruise, clears)
    BY <2>1, <2>2, CycleFacts
  <2>4. Hits(clears) >= CruiseMinHits
    BY <2>1, <2>3, ResolveFacts
  <2>5. /\ clearsSeen \in 0..CruiseMinHits
        /\ clearsSeen < CruiseMinHits => Hits(clearHistory) <= clearsSeen
    BY <2>1 DEF IndInv, HistoryTypeOK, ClearsCovered
  <2>6. clearsSeen' = Counted(clearsSeen, latchedId' = NoId, CruiseMinHits)
    BY <2>1, <2>2 DEF ObserveCycle
  <2>7. CASE cruise
    <3>1. clearsSeen = CruiseMinHits
      BY <2>3, <2>4, <2>5, <2>7
    <3> QED
      BY <2>6, <3>1 DEF Counted
  <2>8. CASE ~cruise
    <3>1. latchedId' = NoId
      BY <2>3, <2>8 DEF Latch
    <3> QED
      BY <2>3, <2>4, <2>5, <2>6, <3>1 DEF Counted
  <2> QED
    BY <2>7, <2>8
<1> QED
  BY Invariance, <1>1, PTL DEF HSpec, CruiseExitNeedsClearVotes

\* CRUISE starts only on an opponent that was measured in the way.
THEOREM StartsOnMeasurement == HSpec => CruiseStartsOnMeasurement
<1>1. IndInv /\ IndInv' /\ [HNext]_hvars
        => [mode # "CRUISE" /\ mode' = "CRUISE" => measured' # NoId]_hvars
  <2>1. SUFFICES ASSUME IndInv, IndInv', [HNext]_hvars,
                        mode # "CRUISE", mode' = "CRUISE"
                 PROVE  measured' # NoId
    OBVIOUS
  <2>2. PICK cruise \in BOOLEAN, clears \in Seq(BOOLEAN) :
             /\ latchedId' = Latch(cruise)
             /\ cruise => selected \in Opponent
             /\ Resolve(cruise, clears)
    BY <2>1, ModeChangesInCycle, CycleFacts
  <2>3. cruise
    BY <2>1, <2>2, ResolveFacts
  <2>4. latchedId' # NoId
    BY <2>2, <2>3 DEF Latch, Opponent
  <2> QED
    BY <2>1, <2>4 DEF IndInv, LatchMeasured
<1> QED
  BY Invariance, <1>1, PTL DEF HSpec, CruiseStartsOnMeasurement
=============================================================================
