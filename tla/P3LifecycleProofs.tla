-------------------------- MODULE P3LifecycleProofs --------------------------
(***************************************************************************)
(* The P3 manoeuvre for every set of track ids, extents, inflation and     *)
(* retention reserve, wherever the obstacles stand, and every race line    *)
(* longer than twice the stretch, and than the stretch and the sight.      *)
(***************************************************************************)
EXTENDS P3Lifecycle, TLAPS

\* The inductive invariant.  The union of the envelopes is what selection was
\* shown, which the record does not touch.
UnionIsSeen == union = seen

P3Inv == P3TypeOK /\ RecordOfCurrentLine /\ UnionIsSeen

-----------------------------------------------------------------------------
(* Extents.                                                                  *)

\* The constants are numbers, and a lap is longer than a record lasts.
LEMMA ConstantsAreNumbers ==
    /\ Extents \subseteq Nat /\ 0 \in Extents /\ Inflation \in Nat /\ Retention \in Nat
    /\ Lookahead \in Nat /\ Sight \in Nat /\ Far \in Nat \ {0} /\ Lap \in Nat
    /\ 2 * Far < Lap /\ Sight + Far < Lap
  BY P3Assumption

\* A guard is an extent and an uncertainty: a number, and none is the least of them.
LEMMA GuardsAreNumbers ==
    /\ Guards \subseteq Nat /\ Extents \subseteq Guards /\ 0 \in Guards
    /\ \A extent \in Extents, sigma \in 0..Inflation : extent + sigma \in Guards
  <1>1. \A extent \in Extents, sigma \in 0..Inflation :
           extent + sigma \in Guards /\ extent + sigma \in Nat
    BY ConstantsAreNumbers DEF Guards
  <1>2. 0 \in 0..Inflation /\ \A extent \in Extents : extent + 0 = extent
    BY ConstantsAreNumbers
  <1>3. Extents \subseteq Guards
    <2>1. SUFFICES ASSUME NEW extent \in Extents PROVE extent \in Guards
      OBVIOUS
    <2>2. extent + 0 \in Guards /\ extent + 0 = extent
      BY <1>1, <1>2
    <2> QED
      BY <2>2
  <1>4. Guards \subseteq Nat
    BY <1>1 DEF Guards
  <1> QED
    BY <1>1, <1>3, <1>4, ConstantsAreNumbers

\* The larger of two extents is one, and bounds both.
LEMMA LargerBounds ==
    ASSUME NEW a \in Extents, NEW b \in Extents
    PROVE  Larger(a, b) \in Extents /\ a <= Larger(a, b) /\ b <= Larger(a, b)
  BY ConstantsAreNumbers DEF Larger

\* The geometry a cycle plans on bounds the message and the union.
LEMMA GuardedBounds ==
    ASSUME NEW o \in [Ids -> Extents], NEW u \in [Ids -> Extents],
           NEW sigma \in 0..Inflation
    PROVE  /\ Guarded(Merged(o, u), sigma) \in [Ids -> Guards]
           /\ \A id \in Ids : /\ o[id] <= Guarded(Merged(o, u), sigma)[id]
                              /\ u[id] <= Guarded(Merged(o, u), sigma)[id]
  <1>1. ASSUME NEW id \in Ids
        PROVE  /\ Larger(o[id], u[id]) \in Extents
               /\ o[id] <= Larger(o[id], u[id]) /\ u[id] <= Larger(o[id], u[id])
    BY LargerBounds
  <1> DEFINE m == Merged(o, u)
             g == Guarded(m, sigma)
  <1>2. \A id \in Ids : m[id] = Larger(o[id], u[id])
    BY DEF Merged
  <1>3. \A id \in Ids : g[id] = IF m[id] = 0 THEN 0 ELSE m[id] + sigma
    BY DEF Guarded
  <1>4. g = [id \in Ids |-> g[id]]
    BY DEF Guarded
  <1> HIDE DEF m, g
  <1>5. ASSUME NEW id \in Ids
        PROVE  g[id] \in Guards /\ o[id] <= g[id] /\ u[id] <= g[id]
    <2>1. /\ m[id] \in Extents /\ o[id] <= m[id] /\ u[id] <= m[id]
          /\ m[id] \in Nat /\ o[id] \in Nat /\ u[id] \in Nat
      BY <1>1, <1>2, ConstantsAreNumbers
    <2>2. g[id] = IF m[id] = 0 THEN 0 ELSE m[id] + sigma
      BY <1>3
    <2>3. g[id] \in Guards
      BY <2>1, <2>2, GuardsAreNumbers
    <2>4. sigma \in Nat
      BY ConstantsAreNumbers
    <2> QED
      BY <2>1, <2>2, <2>3, <2>4
  <1>6. g \in [Ids -> Guards]
    BY <1>4, <1>5
  <1> QED
    BY <1>5, <1>6 DEF g, m

\* Nothing is an envelope of no obstacle, and a record of nothing is a record.
LEMMA NothingTypes ==
    /\ Nothing \in [Ids -> Extents]
    /\ NoRecord \in Record
    /\ NoRecord.current /\ NoRecord.ids = {} /\ NoRecord.index = 0
  <1>1. /\ 0 \in Extents /\ 0 \in Guards /\ 0 \in Places
    BY ConstantsAreNumbers, GuardsAreNumbers DEF Places
  <1>2. Nothing \in [Ids -> Guards] /\ Nothing \in [Ids -> Extents]
    BY <1>1 DEF Nothing
  <1> QED
    BY <1>1, <1>2 DEF NoRecord, Record

-----------------------------------------------------------------------------
(* The distance round the line.                                              *)

\* Round a lap, two places of the stretch are as far apart as on the line, or, if the
\* second is behind the first, further than the stretch and the sight.
LEMMA DistanceRound ==
    ASSUME NEW a \in Places, NEW b \in Places
    PROVE  /\ (b - a) % Lap \in Nat
           /\ a <= b => (b - a) % Lap = b - a
           /\ b < a => (b - a) % Lap > Sight /\ 2 * ((b - a) % Lap) > Lap
  <1>1. /\ a \in Nat /\ b \in Nat /\ a <= Far /\ b <= Far /\ Lap \in Nat \ {0}
    BY ConstantsAreNumbers DEF Places
  <1>2. CASE a <= b
    <2>1. b - a \in 0..(Lap - 1)
      BY <1>1, <1>2, ConstantsAreNumbers
    <2>2. \A d, m \in Nat : d < m => d % m = d
      OBVIOUS
    <2>3. (b - a) % Lap = b - a
      BY <1>1, <2>1, <2>2
    <2> QED
      BY <1>1, <1>2, <2>1, <2>3
  <1>3. CASE b < a
    <2>1. b - a \in Int /\ b - a < 0 /\ 0 - Lap < b - a /\ 0 - Far <= b - a
      BY <1>1, <1>3, ConstantsAreNumbers
    <2>2. \A d \in Int, m \in Nat \ {0} : d < 0 /\ 0 - m < d => d % m = d + m
      OBVIOUS
    <2>3. (b - a) % Lap = (b - a) + Lap
      BY <1>1, <2>1, <2>2
    <2> QED
      BY <1>1, <1>3, <2>1, <2>3, ConstantsAreNumbers
  <1> QED
    BY <1>1, <1>2, <1>3

\* A pose that has not gone back is where the car has really come.
LEMMA ProgressIsReal ==
    ASSUME record \in Record, ego \in Places
    PROVE  ~Backwards => /\ Progress = ego - record.from /\ Progress \in Places
                         /\ record.from <= ego
  <1>1. record.from \in Places
    BY DEF Record
  <1>2. \/ record.from <= ego /\ Progress = ego - record.from
        \/ 2 * Progress > Lap
    <2>1. CASE record.from <= ego
      BY <1>1, <2>1, DistanceRound DEF Progress
    <2>2. CASE ego < record.from
      BY <1>1, <2>2, DistanceRound DEF Progress
    <2> QED
      BY <1>1, <2>1, <2>2, ConstantsAreNumbers DEF Places
  <1> QED
    BY <1>1, <1>2, ConstantsAreNumbers DEF Backwards, Places

\* What stands ahead, in sight and before a place, the validator sees within the
\* distance to that place.
LEMMA AheadIsWithin ==
    ASSUME NEW end \in Places, NEW further \in Nat, place \in [Ids -> Places],
           ego \in Places, ego <= end, NEW id \in AheadTo(end + further)
    PROVE  id \in Ids /\ InSight(id) /\ Forward(place[id]) <= Forward(end) + further
  <1>1. /\ id \in Ids /\ ego <= place[id] /\ place[id] <= ego + Sight
        /\ place[id] <= end + further
    BY DEF AheadTo
  <1>2. Forward(place[id]) = place[id] - ego /\ Forward(end) = end - ego
    BY <1>1, DistanceRound DEF Forward
  <1> QED
    BY <1>1, <1>2, ConstantsAreNumbers DEF InSight, Places

-----------------------------------------------------------------------------
(* The union and what selection was shown.                                   *)

\* A prepared snapshot keeps the union an envelope, and what was shown.
LEMMA PreparedUnion ==
    ASSUME P3TypeOK, UnionIsSeen, NEW cluster \in Clusters(obstacles),
           Prepared(cluster)
    PROVE  union' \in [Ids -> Extents] /\ union' = seen' /\ counted' \in BOOLEAN
  <1>1. CASE Active /\ UNCHANGED <<union, counted, seen>>
    BY <1>1 DEF P3TypeOK, UnionIsSeen
  <1>2. CASE union' = Nothing /\ seen' = Nothing /\ counted' = FALSE
    BY <1>2, NothingTypes
  <1>3. CASE /\ union' = UnionAfter(cluster, Restarts(cluster) \/ ~counted)
             /\ seen' = SeenAfter(cluster) /\ counted' = TRUE
    <2> DEFINE restarts == Restarts(cluster)
               fresh    == restarts \/ ~counted
               before   == IF restarts THEN Nothing ELSE union
    <2>1. /\ union \in [Ids -> Extents] /\ obstacles \in [Ids -> Extents] /\ seen = union
      BY DEF P3TypeOK, UnionIsSeen
    <2>2. before \in [Ids -> Extents]
      BY <2>1, NothingTypes
    <2>3. \A id \in Ids : before[id] = IF restarts THEN 0 ELSE union[id]
      BY DEF Nothing
    <2>4. UnionAfter(cluster, fresh) =
            [id \in Ids |-> IF fresh /\ id \in cluster
                            THEN Larger(before[id], obstacles[id]) ELSE before[id]]
      BY DEF UnionAfter
    <2>5. (Present(seen) \cap cluster = {}) = restarts
      BY <2>1 DEF Restarts
    <2>6. SeenAfter(cluster) =
            [id \in Ids |-> IF id \in cluster /\ (restarts \/ ~counted)
                            THEN Larger(IF restarts THEN 0 ELSE seen[id], obstacles[id])
                            ELSE IF restarts THEN 0 ELSE seen[id]]
      BY <2>5 DEF SeenAfter
    <2> HIDE DEF restarts, before
    <2>7. UnionAfter(cluster, fresh) \in [Ids -> Extents]
      <3>1. ASSUME NEW id \in Ids
            PROVE  Larger(before[id], obstacles[id]) \in Extents /\ before[id] \in Extents
        BY <2>1, <2>2, LargerBounds
      <3> QED
        BY <3>1, <2>4
    <2>8. UnionAfter(cluster, fresh) = SeenAfter(cluster)
      BY <2>1, <2>3, <2>4, <2>6
    <2> QED
      BY <1>3, <2>7, <2>8 DEF restarts
  <1> QED
    BY <1>1, <1>2, <1>3 DEF Prepared

-----------------------------------------------------------------------------
(* The ways a record goes.                                                   *)

\* What a cycle leaves of the record: it is none, or a well-formed one of the
\* current line.
RecordKept ==
    /\ record' \in Record /\ record'.current
    /\ state' \in States
    /\ decision' \in {"silent", "output", "invalidated", "complete"}

\* Every end of a record leaves none.
LEMMA EndsKeepRecord ==
    ASSUME record' = NoRecord, state' \in States,
           decision' \in {"silent", "invalidated", "complete"}
    PROVE  RecordKept
  BY NothingTypes DEF RecordKept

\* Continuing moves the index up to where the car is.
LEMMA ContinuedKeepsRecord ==
    ASSUME P3TypeOK, RecordOfCurrentLine, NEW live, Continuable(live), Continued
    PROVE  /\ RecordKept
           /\ record'.index >= record.index /\ record'.reach = record.reach
           /\ record'.end = record.end
  <1>1. record \in Record /\ ego \in Places
    BY DEF P3TypeOK
  <1>2. Progress \in Places /\ Progress >= record.index
    BY <1>1, ProgressIsReal DEF Continuable
  <1>3. record' = [record EXCEPT !.index = Progress, !.committed = TRUE]
    BY DEF Continued
  <1>4. /\ record' \in Record /\ record'.current = record.current
        /\ record'.index = Progress /\ record'.reach = record.reach
        /\ record'.end = record.end
    BY <1>1, <1>2, <1>3 DEF Record
  <1>5. state' \in States /\ decision' = "output"
    BY DEF Continued, States
  <1>6. record.current
    BY DEF RecordOfCurrentLine
  <1> QED
    BY <1>2, <1>4, <1>5, <1>6 DEF RecordKept

\* A cluster the evaluator works on is in sight, so it ends ahead of the car on the
\* line itself; and its path clears what stands there.
LEMMA FreshClears ==
    ASSUME P3TypeOK, NEW live, NEW path \in Fresh(live), Selectable(path)
    PROVE  /\ path.ids \subseteq Ids /\ path.reach \in Guards
           /\ path.end \in Places /\ ego <= path.end
           /\ \A id \in AheadTo(path.end) : live[id] <= path.reach
           /\ \A id \in AheadTo(path.end + Lookahead) : obstacles[id] <= path.reach
  <1> DEFINE end == path.end
  <1>1. /\ path.ids \subseteq Ids /\ path.reach \in Guards /\ end \in Places
        /\ \A id \in path.ids : InSight(id)
        /\ \E id \in path.ids : end = place[id]
        /\ Clears(path.reach, live, Forward(end))
    <2>1. PICK ids \in Clusters(live) :
            path \in [ids : {ids}, end : EndOf(ids), reach : Guards]
      BY DEF Fresh
    <2>2. path.ids = ids /\ end \in EndOf(ids) /\ path.reach \in Guards
      BY <2>1
    <2>3. ids \subseteq Ids /\ \A id \in ids : InSight(id)
      BY DEF Clusters, Visible, Present
    <2>4. \E id \in ids : end = place[id]
      BY <2>2 DEF EndOf
    <2>5. end \in Places
      BY <2>3, <2>4 DEF P3TypeOK
    <2>6. Clears(path.reach, live, Forward(end))
      BY DEF Fresh
    <2> QED
      BY <2>2, <2>3, <2>4, <2>5, <2>6
  <1>2. Clears(path.reach, obstacles, Forward(end) + Lookahead)
    BY DEF Selectable
  <1>3. place \in [Ids -> Places] /\ ego \in Places
    BY DEF P3TypeOK
  <1> HIDE DEF end
  <1>4. Forward(end) <= Sight /\ Forward(end) \in Nat
    BY <1>1, <1>3, DistanceRound DEF InSight, Forward
  <1>5. ego <= end
    <2>1. SUFFICES ASSUME end < ego PROVE FALSE
      BY <1>1, <1>3, ConstantsAreNumbers DEF Places
    <2>2. Forward(end) > Sight
      BY <1>1, <1>3, <2>1, DistanceRound DEF Forward
    <2> QED
      BY <1>4, <2>2, ConstantsAreNumbers
  <1>6. ASSUME NEW id \in AheadTo(end) PROVE live[id] <= path.reach
    <2>1. end + 0 = end /\ 0 \in Nat /\ Forward(end) + 0 = Forward(end)
      BY <1>1, <1>4, ConstantsAreNumbers DEF Places
    <2>2. id \in Ids /\ InSight(id) /\ Forward(place[id]) <= Forward(end)
      BY <1>1, <1>3, <1>5, <1>6, <2>1, AheadIsWithin
    <2> QED
      BY <1>1, <2>2 DEF Clears
  <1>7. ASSUME NEW id \in AheadTo(end + Lookahead) PROVE obstacles[id] <= path.reach
    <2>1. /\ id \in Ids /\ InSight(id)
          /\ Forward(place[id]) <= Forward(end) + Lookahead
      BY <1>1, <1>3, <1>5, <1>7, ConstantsAreNumbers, AheadIsWithin
    <2> QED
      BY <1>2, <2>1 DEF Clears
  <1> QED
    BY <1>1, <1>5, <1>6, <1>7 DEF end

\* A selected path becomes a record of its own line.
LEMMA SelectedKeepsRecord ==
    ASSUME P3TypeOK, NEW live \in [Ids -> Guards], NEW path \in Fresh(live),
           Selectable(path), Selected(path, live)
    PROVE  /\ RecordKept /\ state' = "FRESH"
           /\ record'.reach = path.reach /\ record'.end = path.end
  <1> DEFINE guards == [id \in Ids |-> IF id \in path.ids THEN live[id] ELSE 0]
  <1>1. /\ path.ids \subseteq Ids /\ path.reach \in Guards
        /\ path.end \in Places /\ ego \in Places
    BY FreshClears DEF P3TypeOK
  <1>2. guards \in [Ids -> Guards]
    BY GuardsAreNumbers
  <1>3. record' = [NoRecord EXCEPT !.ids = path.ids, !.reach = path.reach,
                                   !.from = ego, !.end = path.end, !.guards = guards]
    BY DEF Selected
  <1> HIDE DEF guards
  <1>4. /\ record' \in Record /\ record'.current
        /\ record'.reach = path.reach /\ record'.end = path.end
    BY <1>1, <1>2, <1>3, NothingTypes DEF Record
  <1>5. state' = "FRESH" /\ decision' = "output" /\ state' \in States
    BY DEF Selected, States
  <1> QED
    BY <1>4, <1>5 DEF RecordKept

\* Whatever advanceP3Lifecycle decides, the record stays well formed; an output
\* either continues the record or is a path just selected.
LEMMA AdvancedKeepsRecord ==
    ASSUME P3TypeOK, RecordOfCurrentLine, NEW cluster \in Clusters(obstacles),
           NEW live \in [Ids -> Guards], Advanced(cluster, live)
    PROVE  /\ RecordKept
           /\ decision' = "output" =>
                \/ Active /\ Continuable(live) /\ Continued
                \/ \E path \in Fresh(live) : Selectable(path) /\ Selected(path, live)
           /\ decision' = "complete" => Active /\ Passed /\ Completed
  <1>1. CASE Active /\ Continuable(live) /\ Continued
    BY <1>1, ContinuedKeepsRecord DEF Continued
  <1>2. CASE Active /\ Passed /\ Completed
    BY <1>2, EndsKeepRecord DEF Completed, States
  <1>3. CASE Invalidated
    BY <1>3, EndsKeepRecord DEF Invalidated, States
  <1>4. CASE SelectFresh(live)
    <2>1. PICK path \in Fresh(live) : Selectable(path) /\ Selected(path, live)
      BY <1>4 DEF SelectFresh
    <2>2. decision' = "output"
      BY <2>1 DEF Selected
    <2> QED
      BY <2>1, <2>2, SelectedKeepsRecord
  <1>5. CASE NoFresh(live)
    BY <1>5, EndsKeepRecord DEF NoFresh, States
  <1>6. CASE record' = NoRecord /\ state' = "IDLE" /\ decision' = "silent"
    BY <1>6, EndsKeepRecord DEF States
  <1> QED
    BY <1>1, <1>2, <1>3, <1>4, <1>5, <1>6 DEF Advanced

-----------------------------------------------------------------------------
(* The invariant is inductive.                                               *)

LEMMA P3InitInv == P3Init => P3Inv
  <1> SUFFICES ASSUME P3Init PROVE P3Inv
    OBVIOUS
  <1>1. /\ obstacles = Nothing /\ union = Nothing /\ seen = Nothing /\ record = NoRecord
        /\ place \in [Ids -> Places] /\ ego \in Places
    BY ConstantsAreNumbers DEF P3Init, Places
  <1>2. /\ drained \in BOOLEAN /\ counted \in BOOLEAN /\ stop \in BOOLEAN
        /\ state \in States
        /\ decision \in {"silent", "output", "invalidated", "complete"}
    BY DEF P3Init, States
  <1> QED
    BY <1>1, <1>2, NothingTypes DEF P3Inv, P3TypeOK, RecordOfCurrentLine, UnionIsSeen

\* A new epoch leaves nothing of P3.
LEMMA EpochAdvancedInv ==
    ASSUME P3Inv, EpochAdvanced, obstacles' \in [Ids -> Extents],
           drained' \in BOOLEAN, stop' \in BOOLEAN, decision' = "silent",
           UNCHANGED scene
    PROVE  P3Inv'
  <1>1. /\ record' = NoRecord /\ state' \in States /\ union' = Nothing
        /\ seen' = Nothing /\ counted' \in BOOLEAN
    BY DEF EpochAdvanced, States
  <1> QED
    BY <1>1, NothingTypes DEF P3Inv, P3TypeOK, RecordOfCurrentLine, UnionIsSeen, scene

\* The callbacks.
LEMMA CallbacksInv ==
    ASSUME P3Inv, OnGlobalWaypoints \/ OnObstacles \/ OnFrenetOdometry
    PROVE  P3Inv'
  <1>1. P3TypeOK /\ RecordOfCurrentLine /\ UnionIsSeen
    BY DEF P3Inv
  <1>2. CASE OnGlobalWaypoints
    BY <1>1, <1>2, EpochAdvancedInv DEF OnGlobalWaypoints, P3TypeOK
  <1>3. CASE OnObstacles
    <2>1. PICK restarted \in BOOLEAN :
            /\ drained' = TRUE /\ obstacles' \in [Ids -> Extents] /\ counted' = FALSE
            /\ IF restarted THEN EpochAdvanced
                            ELSE UNCHANGED <<union, record, state, seen>>
            /\ decision' = "silent"
            /\ UNCHANGED <<scene, stop>>
      BY <1>3 DEF OnObstacles
    <2>2. CASE restarted
      BY <1>1, <2>1, <2>2, EpochAdvancedInv DEF P3TypeOK
    <2>3. CASE ~restarted
      BY <1>1, <2>1, <2>3
         DEF P3Inv, P3TypeOK, RecordOfCurrentLine, UnionIsSeen, scene
    <2> QED
      BY <2>2, <2>3
  <1>4. CASE OnFrenetOdometry
    <2>1. /\ ego' \in Places /\ decision' = "silent"
          /\ UNCHANGED <<place, obstacles, drained, counted, union, record, state, stop,
                         seen>>
      BY <1>4 DEF OnFrenetOdometry
    <2> QED
      BY <1>1, <2>1 DEF P3Inv, P3TypeOK, RecordOfCurrentLine, UnionIsSeen
  <1> QED
    BY <1>2, <1>3, <1>4

\* What a cycle that was ready did: prepared a snapshot and advanced on it.
LEMMA ReadyCycleSteps ==
    ASSUME P3Inv, ReadyCycle
    PROVE  \E sigma \in 0..Inflation, cluster \in Clusters(obstacles) :
             LET live == Guarded(Merged(obstacles, union'), sigma)
             IN  /\ Prepared(cluster) /\ Advanced(cluster, live)
                 /\ union' \in [Ids -> Extents] /\ union' = seen' /\ counted' \in BOOLEAN
                 /\ live \in [Ids -> Guards]
                 /\ \A id \in Ids : obstacles[id] <= live[id] /\ union'[id] <= live[id]
  <1>1. PICK sigma \in 0..Inflation, cluster \in Clusters(obstacles) :
          Prepared(cluster) /\ Advanced(cluster, Guarded(Merged(obstacles, union'), sigma))
    BY DEF ReadyCycle, BlockingClusters, Clusters
  <1>2. P3TypeOK /\ UnionIsSeen /\ obstacles \in [Ids -> Extents]
    BY DEF P3Inv, P3TypeOK
  <1>3. union' \in [Ids -> Extents] /\ union' = seen' /\ counted' \in BOOLEAN
    BY <1>1, <1>2, PreparedUnion
  <1> QED
    BY <1>1, <1>2, <1>3, GuardedBounds

\* A planning cycle, ready or not.
LEMMA PlanningTimerInv == ASSUME P3Inv, PlanningTimer PROVE P3Inv'
  <1>1. P3TypeOK /\ RecordOfCurrentLine /\ UnionIsSeen
    BY DEF P3Inv
  <1>2. CASE StampRegressed
    BY <1>1, <1>2, EpochAdvancedInv DEF StampRegressed, P3TypeOK
  <1>3. CASE UnreadyCycle
    <2>1. /\ UNCHANGED <<union, counted, seen, obstacles, scene>>
          /\ drained' \in BOOLEAN /\ stop' \in BOOLEAN
      BY <1>1, <1>3 DEF UnreadyCycle, NotReady, LatchAfterP0, P3TypeOK
    <2>2. /\ record' = NoRecord /\ state' \in States
          /\ decision' \in {"silent", "invalidated", "complete"}
      BY <1>3 DEF UnreadyCycle, NotReady, Invalidated, States
    <2>3. RecordKept
      BY <2>2, EndsKeepRecord
    <2> QED
      BY <1>1, <2>1, <2>3
         DEF RecordKept, P3Inv, P3TypeOK, RecordOfCurrentLine, UnionIsSeen, scene
  <1>4. CASE ReadyCycle
    <2>1. /\ drained' \in BOOLEAN /\ stop' \in BOOLEAN /\ UNCHANGED <<scene, obstacles>>
      BY <1>1, <1>4 DEF ReadyCycle, LatchAfterP0, P3TypeOK
    <2>2. PICK sigma \in 0..Inflation, cluster \in Clusters(obstacles) :
            LET live == Guarded(Merged(obstacles, union'), sigma)
            IN  /\ Advanced(cluster, live) /\ live \in [Ids -> Guards]
                /\ union' \in [Ids -> Extents] /\ union' = seen' /\ counted' \in BOOLEAN
      BY <1>4, ReadyCycleSteps
    <2>3. RecordKept
      BY <1>1, <2>2, AdvancedKeepsRecord
    <2> QED
      BY <1>1, <2>1, <2>2, <2>3
         DEF RecordKept, P3Inv, P3TypeOK, RecordOfCurrentLine, UnionIsSeen, scene
  <1> QED
    BY <1>2, <1>3, <1>4 DEF PlanningTimer

LEMMA P3NextInv == P3Inv /\ [Next]_vars => P3Inv'
  <1> SUFFICES ASSUME P3Inv, [Next]_vars PROVE P3Inv'
    OBVIOUS
  <1>1. CASE UNCHANGED vars
    BY <1>1 DEF vars, P3Inv, P3TypeOK, RecordOfCurrentLine, UnionIsSeen
  <1>2. CASE PlanningTimer
    BY <1>2, PlanningTimerInv
  <1>3. CASE OnGlobalWaypoints \/ OnObstacles \/ OnFrenetOdometry
    BY <1>3, CallbacksInv
  <1> QED
    BY <1>1, <1>2, <1>3 DEF Next

LEMMA P3Invariance == Spec => []P3Inv
  <1>1. P3Init => P3Inv
    BY P3InitInv
  <1>2. P3Inv /\ [Next]_vars => P3Inv'
    BY P3NextInv
  <1> QED
    BY <1>1, <1>2, PTL DEF Spec

\* Records, envelopes and decisions keep their types: an envelope never grows beyond
\* what a detector reports, and a record never reaches beyond its guards.
THEOREM P3TypeCorrect == Spec => []P3TypeOK
  <1>1. P3Inv => P3TypeOK
    BY DEF P3Inv
  <1> QED
    BY <1>1, P3Invariance, PTL

\* A record never outlives its source epoch or its race line
\* (captureP3CallbackSnapshot, onGlobalWaypoints, acceptObstacles).
THEOREM RecordIsOfCurrentLine == Spec => []RecordOfCurrentLine
  <1>1. P3Inv => RecordOfCurrentLine
    BY DEF P3Inv
  <1> QED
    BY <1>1, P3Invariance, PTL

-----------------------------------------------------------------------------
(* What is published.                                                        *)

\* A cycle that is not ready, and a callback, publish nothing and complete nothing.
LEMMA OnlyReadyCyclesAnswer ==
    ASSUME Next, decision' \in {"output", "complete"}
    PROVE  ReadyCycle /\ UNCHANGED obstacles
  BY DEF Next, OnGlobalWaypoints, OnObstacles, OnFrenetOdometry, PlanningTimer,
         UnreadyCycle, NotReady, Invalidated, StampRegressed, ReadyCycle

\* Where an output comes from, with the geometry of its cycle.
LEMMA OutputComesFrom ==
    ASSUME P3Inv, Next, decision' = "output"
    PROVE  \E live \in [Ids -> Guards] :
             /\ \A id \in Ids : obstacles[id] <= live[id] /\ union'[id] <= live[id]
             /\ union' = seen'
             /\ \/ /\ Active /\ Continuable(live) /\ Continued
                   /\ record'.reach = record.reach /\ record'.end = record.end
                \/ \E path \in Fresh(live) :
                     /\ Selectable(path)
                     /\ record'.reach = path.reach /\ record'.end = path.end
  <1>1. ReadyCycle
    BY OnlyReadyCyclesAnswer
  <1>2. PICK sigma \in 0..Inflation, cluster \in Clusters(obstacles) :
          LET live == Guarded(Merged(obstacles, union'), sigma)
          IN  /\ Advanced(cluster, live) /\ live \in [Ids -> Guards]
              /\ union' = seen'
              /\ \A id \in Ids : obstacles[id] <= live[id] /\ union'[id] <= live[id]
    BY <1>1, ReadyCycleSteps
  <1> DEFINE live == Guarded(Merged(obstacles, union'), sigma)
  <1>3. P3TypeOK /\ RecordOfCurrentLine
    BY DEF P3Inv
  <1> HIDE DEF live
  <1>4. \/ Active /\ Continuable(live) /\ Continued
        \/ \E path \in Fresh(live) : Selectable(path) /\ Selected(path, live)
    BY <1>2, <1>3, AdvancedKeepsRecord DEF live
  <1>5. ASSUME Continuable(live), Continued
        PROVE  record'.reach = record.reach /\ record'.end = record.end
    BY <1>3, <1>5, ContinuedKeepsRecord
  <1>6. ASSUME NEW path \in Fresh(live), Selectable(path), Selected(path, live)
        PROVE  record'.reach = path.reach /\ record'.end = path.end
    BY <1>2, <1>3, <1>6, SelectedKeepsRecord DEF live
  <1> QED
    BY <1>2, <1>4, <1>5, <1>6 DEF live

\* A record that is not passed ends ahead of the car: its horizon is not a lap away.
LEMMA EndIsAhead ==
    ASSUME P3TypeOK, NEW live, Continuable(live)
    PROVE  record.end \in Places /\ ego <= record.end
  <1>1. record \in Record /\ ego \in Places /\ ~Backwards /\ ~Passed
    BY DEF P3TypeOK, Continuable
  <1>2. record.end \in Places /\ record.from \in Places
    BY <1>1 DEF Record
  <1>3. Progress = ego - record.from
    BY <1>1, ProgressIsReal
  <1>4. ~(ego - record.from >= record.end - record.from)
    BY <1>1, <1>3 DEF Passed
  <1> QED
    BY <1>1, <1>2, <1>4, ConstantsAreNumbers DEF Places

\* A path whose suffix holds clears the raw message up to the retention band, as far
\* as the manoeuvre answers: a frozen guard speaks only for an obstacle inside it, and
\* an empty message holds none.
LEMMA SuffixClears ==
    ASSUME P3TypeOK, NEW live \in [Ids -> Guards],
           \A id \in Ids : obstacles[id] <= live[id], Continuable(live),
           NEW id \in AheadTo(record.end + Lookahead)
    PROVE  obstacles[id] <= record.reach + Retention
  <1>1. /\ place \in [Ids -> Places] /\ ego \in Places
        /\ record.end \in Places /\ ego <= record.end
    BY EndIsAhead DEF P3TypeOK
  <1>2. id \in Ids /\ InSight(id) /\ Forward(place[id]) <= Horizon
    BY <1>1, ConstantsAreNumbers, AheadIsWithin DEF Horizon
  <1>3. /\ record.reach \in Nat /\ record.guards[id] \in Nat
        /\ obstacles[id] \in Nat /\ live[id] \in Nat /\ obstacles[id] <= live[id]
        /\ Retention \in Nat
    BY <1>2, ConstantsAreNumbers, GuardsAreNumbers DEF P3TypeOK, Record
  <1>4. CASE \/ Clears(record.reach, obstacles, Horizon)
             \/ Clears(record.reach + Retention, obstacles, Horizon)
    <2>1. obstacles[id] <= record.reach \/ obstacles[id] <= record.reach + Retention
      BY <1>2, <1>4 DEF Clears
    <2> QED
      BY <1>3, <2>1
  <1>5. CASE Clears(record.reach, ValidationGuards(live), Horizon)
    <2>1. ValidationGuards(live)[id] <= record.reach
      BY <1>2, <1>5 DEF Clears
    <2>2. CASE Present(live) = {}
      <3>1. live[id] = 0
        BY <1>2, <1>3, <2>2 DEF Present
      <3> QED
        BY <1>3, <3>1
    <2>3. CASE Present(live) # {}
      <3>1. ValidationGuards(live)[id] =
              IF id \in record.ids /\ live[id] <= record.guards[id]
              THEN record.guards[id] ELSE live[id]
        BY <1>2, <2>3 DEF ValidationGuards, Contained
      <3> QED
        BY <1>3, <2>1, <3>1
    <2> QED
      BY <2>2, <2>3
  <1> QED
    BY <1>4, <1>5 DEF Continuable, SuffixHolds

\* No path is published that an obstacle of the cycle's own message breaks by more
\* than the retention band, from the car to post_merge_lookahead behind the cluster of
\* the manoeuvre, whatever guards the record froze (selectFresh, continueCurrent).
THEOREM OutputsClear == Spec => OutputClears
  <1>1. ASSUME P3Inv, Next, decision' = "output",
               NEW id \in AheadTo(record'.end + Lookahead)
        PROVE  obstacles[id] <= record'.reach + Retention
    <2>1. PICK live \in [Ids -> Guards] :
            /\ \A other \in Ids : obstacles[other] <= live[other]
            /\ \/ /\ Continuable(live)
                  /\ record'.reach = record.reach /\ record'.end = record.end
               \/ \E path \in Fresh(live) :
                    /\ Selectable(path)
                    /\ record'.reach = path.reach /\ record'.end = path.end
      BY <1>1, OutputComesFrom
    <2>2. P3TypeOK
      BY <1>1 DEF P3Inv
    <2>3. CASE /\ Continuable(live)
               /\ record'.reach = record.reach /\ record'.end = record.end
      BY <1>1, <2>1, <2>2, <2>3, SuffixClears
    <2>4. ASSUME NEW path \in Fresh(live), Selectable(path),
                 record'.reach = path.reach, record'.end = path.end
          PROVE  obstacles[id] <= record'.reach + Retention
      <3>1. obstacles[id] <= path.reach /\ path.reach \in Nat
        BY <1>1, <2>2, <2>4, FreshClears, GuardsAreNumbers
      <3>2. obstacles[id] \in Nat
        BY <1>1, <2>2, ConstantsAreNumbers DEF AheadTo, P3TypeOK
      <3> QED
        BY <2>4, <3>1, <3>2, ConstantsAreNumbers
    <2> QED
      BY <2>1, <2>3, <2>4
  <1>2. P3Inv /\ [Next]_vars =>
          [decision' = "output" => \A id \in AheadTo(record'.end + Lookahead) :
                                     obstacles[id] <= record'.reach + Retention]_vars
    BY <1>1
  <1> QED
    BY <1>2, P3Invariance, PTL DEF Spec, OutputClears

\* A new path clears, up to the end of the cluster it avoids, everything selection has
\* been shown since that cluster began to block (prepareP3InitialSelectionSnapshot).
THEOREM FreshPathsRespectMemory == Spec => FreshRespectsMemory
  <1>1. ASSUME P3Inv, Next, decision' = "output", state' = "FRESH",
               NEW id \in AheadTo(record'.end)
        PROVE  seen'[id] <= record'.reach
    <2>1. id \in Ids
      BY <1>1 DEF AheadTo
    <2>2. PICK live \in [Ids -> Guards] :
            /\ union'[id] <= live[id] /\ union' = seen'
            /\ \/ Continued
               \/ \E path \in Fresh(live) :
                    /\ Selectable(path)
                    /\ record'.reach = path.reach /\ record'.end = path.end
      BY <1>1, <2>1, OutputComesFrom
    <2>3. ~Continued
      BY <1>1 DEF Continued
    <2>4. PICK path \in Fresh(live) :
            /\ Selectable(path)
            /\ record'.reach = path.reach /\ record'.end = path.end
      BY <2>2, <2>3
    <2>5. P3TypeOK
      BY <1>1 DEF P3Inv
    <2>6. live[id] <= path.reach /\ path.reach \in Nat /\ live[id] \in Nat
      BY <1>1, <2>1, <2>4, <2>5, FreshClears, GuardsAreNumbers
    <2>7. union'[id] \in Nat
      <3>1. P3Inv'
        BY <1>1, P3NextInv
      <3> QED
        BY <2>1, <3>1, ConstantsAreNumbers DEF P3Inv, P3TypeOK
    <2> QED
      BY <2>2, <2>4, <2>6, <2>7
  <1>2. P3Inv /\ [Next]_vars =>
          [decision' = "output" /\ state' = "FRESH"
             => \A id \in AheadTo(record'.end) : seen'[id] <= record'.reach]_vars
    BY <1>1
  <1> QED
    BY <1>2, P3Invariance, PTL DEF Spec, FreshRespectsMemory

\* While one record goes on, the path published of it never grows backwards
\* (continueCurrent: the index of the suffix).
THEOREM OutputsOnlyAdvance == Spec => OutputsAdvance
  <1>1. ASSUME P3Inv, Next, Active, record'.ids # {}, state' # "FRESH"
        PROVE  record'.index >= record.index
    <2>1. P3TypeOK /\ RecordOfCurrentLine /\ record.index \in Nat
      BY <1>1, ConstantsAreNumbers DEF P3Inv, P3TypeOK, Record, Places
    <2>2. record' # NoRecord
      BY <1>1, NothingTypes
    <2>3. CASE OnObstacles
      BY <2>1, <2>2, <2>3 DEF OnObstacles, EpochAdvanced
    <2>4. CASE OnFrenetOdometry
      BY <2>1, <2>4 DEF OnFrenetOdometry
    <2>5. CASE ReadyCycle
      <3>1. PICK live \in [Ids -> Guards], cluster \in Clusters(obstacles) :
                Advanced(cluster, live)
        BY <1>1, <2>5, ReadyCycleSteps
      <3>2. ~SelectFresh(live)
        BY <1>1 DEF SelectFresh, Selected
      <3>3. Continuable(live) /\ Continued
        BY <1>1, <2>2, <3>1, <3>2
           DEF Advanced, Completed, Invalidated, NoFresh
      <3> QED
        BY <2>1, <3>3, ContinuedKeepsRecord
    <2>6. CASE UnreadyCycle \/ StampRegressed \/ OnGlobalWaypoints
      BY <2>2, <2>6
         DEF UnreadyCycle, NotReady, Invalidated, StampRegressed, OnGlobalWaypoints,
             EpochAdvanced
    <2> QED
      BY <1>1, <2>3, <2>4, <2>5, <2>6 DEF Next, PlanningTimer
  <1>2. P3Inv /\ [Next]_vars =>
          [Active /\ record'.ids # {} /\ state' # "FRESH"
             => record'.index >= record.index]_vars
    BY <1>1
  <1> QED
    BY <1>2, P3Invariance, PTL DEF Spec, OutputsAdvance

\* A manoeuvre is complete only when the car really is past its cluster: a pose that
\* jumped back across the end of the record is not taken for the far end.
THEOREM CompletionIsPassing == Spec => CompleteMeansPassed
  <1>1. ASSUME P3Inv, Next, decision' = "complete"
        PROVE  ego >= record.end
    <2>1. P3TypeOK /\ RecordOfCurrentLine /\ record \in Record /\ ego \in Places
      BY <1>1 DEF P3Inv, P3TypeOK
    <2>2. ReadyCycle
      BY <1>1, OnlyReadyCyclesAnswer
    <2>3. PICK live \in [Ids -> Guards], cluster \in Clusters(obstacles) :
            Advanced(cluster, live)
      BY <1>1, <2>2, ReadyCycleSteps
    <2>4. Passed
      BY <1>1, <2>1, <2>3, AdvancedKeepsRecord
    <2>5. /\ Progress = ego - record.from
          /\ Progress >= record.end - record.from
      BY <2>1, <2>4, ProgressIsReal DEF Passed
    <2>6. record.from \in Nat /\ record.end \in Nat /\ ego \in Nat
      BY <2>1, ConstantsAreNumbers DEF Record, Places
    <2> QED
      BY <2>5, <2>6
  <1>2. P3Inv /\ [Next]_vars => [decision' = "complete" => ego >= record.end]_vars
    BY <1>1
  <1> QED
    BY <1>2, P3Invariance, PTL DEF Spec, CompleteMeansPassed

-----------------------------------------------------------------------------
\* What leaves the node clears what it answers for, of this cycle and of its cluster.
THEOREM WhatIsPublishedClears == Spec => PublishedClears
  BY OutputsClear, FreshPathsRespectMemory, PTL DEF PublishedClears

\* A record lives on its own line, goes forward, and ends behind its cluster.
THEOREM RecordsRunTheirCourse == Spec => RecordRunsItsCourse
  BY RecordIsOfCurrentLine, OutputsOnlyAdvance, CompletionIsPassing, PTL
     DEF RecordRunsItsCourse
=============================================================================
