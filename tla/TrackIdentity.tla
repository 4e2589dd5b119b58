---------------------------- MODULE TrackIdentity ----------------------------
(* Which public ID an obstacle carries (obstacle_detector/src/              *)
(* obstacle_tracker.cpp): how a scan's detections are given to the tracks,  *)
(* how a detection that no track takes is named, and how the ID of a        *)
(* retired track is remembered.  Whether a track is held through a dropout  *)
(* is TrackMotion's business: here any track that is not measured may be    *)
(* retired, and is after MaxUnseen scans.                                   *)
(*                                                                          *)
(* The place of an obstacle is a cell; two cells are the same physical      *)
(* cluster when they are at most PhysicalGap apart, in the Frenet and in    *)
(* the map frame alike.  A track is identified by its position in the       *)
(* vector, which is the order of the track_uids.                            *)
EXTENDS Integers, Sequences, FiniteSets, SequencesExt

CONSTANTS
  Boxes,           \* the things that stand beside the track
  CellsOf,         \* per box, the cells a detection of it may fall in
  AssocGate,       \* assoc_gate, the Mahalanobis gate with it
  PhysicalGap,     \* physical_id_reassociation_gap_*
  MaxUnseen,       \* the scans after which TrackMotion has retired any track
  IdMemory,        \* physical_id_memory_sec, in scans
  MinHits,         \* measurements that confirm a track
  MaxTracks, MaxId \* bounds of the model

ASSUME TrackIdentityAssumption ==
  /\ {MaxUnseen, IdMemory, MinHits, MaxTracks, MaxId} \subseteq Nat \ {0}
  /\ {AssocGate, PhysicalGap} \subseteq Nat
  /\ MaxUnseen <= IdMemory

VARIABLES
  tracks,    \* tracks_
  dormant,   \* dormant_physical_identities_
  nextId,    \* next_physical_id_
  placedAt,  \* history: the boxes an eligible track with this ID has measured
  nameOf     \* history: per box, the ID it was last known by and when

identityVars == <<tracks, dormant, nextId, placedAt, nameOf>>

NoAnchor == -1
NoId     == 0
Cells    == UNION {CellsOf[b] : b \in Boxes}
Distance(p, q) == IF p < q THEN q - p ELSE p - q
SamePhysicalCluster(p, q) == Distance(p, q) <= PhysicalGap
SmallerOf(a, b) == IF a < b THEN a ELSE b

-----------------------------------------------------------------------------
(* Association: pairs are taken by growing distance, each track and each    *)
(* detection once; pairs at equal distance in no specified order.           *)

Shares(p, q) == p[1] = q[1] \/ p[2] = q[2]

GreedyMatchings(pairs) ==
  LET Cost(p) == Distance(tracks[p[1]].at, p[2]) IN
  { m \in SUBSET pairs :
      /\ \A p, q \in m : p # q => ~Shares(p, q)
      /\ \A p \in pairs \ m : \E q \in m : Shares(p, q) /\ Cost(q) <= Cost(p) }

GatedPairs(detections) ==
  { p \in (DOMAIN tracks) \X detections :
      Distance(tracks[p[1]].at, p[2]) <= AssocGate }

\* The second pass, over what the first one left.
SpatialPairs(detections, matched) ==
  { p \in (DOMAIN tracks) \X detections :
      /\ SamePhysicalCluster(tracks[p[1]].at, p[2])
      /\ \A q \in matched : ~Shares(p, q) }

Associations(detections) ==
  UNION { { m \cup n : n \in GreedyMatchings(SpatialPairs(detections, m)) } :
            m \in GreedyMatchings(GatedPairs(detections)) }

-----------------------------------------------------------------------------
(* The tracks that were there. *)

MeasuredAt(t, at, stands) ==
  LET hits == SmallerOf(t.hits + 1, MinHits) IN
  [t EXCEPT !.at = at, !.hits = hits, !.unseen = 0,
            !.eligible = @ \/ hits = MinHits,
            !.anchor = IF @ = NoAnchor /\ hits = MinHits /\ stands THEN at ELSE @]

Missed(t, dies) ==
  [t EXCEPT !.unseen = @ + 1, !.dead = dies]

Updated(matching, dying, stands) ==
  [i \in DOMAIN tracks |->
     IF \E p \in matching : p[1] = i
     THEN MeasuredAt(tracks[i], (CHOOSE p \in matching : p[1] = i)[2], stands)
     ELSE Missed(tracks[i], i \in dying)]

-----------------------------------------------------------------------------
(* The detections that no track took, one after the other: a fragment of    *)
(* an active object takes its ID, else the nearest dormant ID, else a new   *)
(* one.  `db` is what a spawn reads and changes.                            *)

\* By distance, then by rank.
Nearest(cost) ==
  CHOOSE c \in DOMAIN cost :
    \A e \in DOMAIN cost :
        \/ cost[c].distance < cost[e].distance
        \/ cost[c].distance = cost[e].distance /\ cost[c].rank <= cost[e].rank

ActiveNear(db, d) == {i \in DOMAIN db.tracks : SamePhysicalCluster(db.tracks[i].at, d)}
\* Mutant: any remembered object may return anywhere.
DormantAnywhere(db, d) == db.dormant

DormantNear(db, d) == {r \in db.dormant : SamePhysicalCluster(r.at, d)}

NearestDormant(db, d) ==
  Nearest([e \in DormantNear(db, d) |-> [distance |-> Distance(e.at, d), rank |-> e.id]])

NewTrack(id, d, eligible, anchor) ==
  [id |-> id, at |-> d, hits |-> 1, unseen |-> 0, eligible |-> eligible,
   anchor |-> anchor, dead |-> FALSE]

SpawnFragment(db, d) ==
  LET i == Nearest([k \in ActiveNear(db, d) |->
                       [distance |-> Distance(db.tracks[k].at, d), rank |-> k]])
  IN  [db EXCEPT !.tracks = Append(@, NewTrack(db.tracks[i].id, d,
                              db.tracks[i].eligible, db.tracks[i].anchor))]

\* Mutant: the ID is used and still remembered.
SpawnReturningTwice(db, d) ==
  LET r == NearestDormant(db, d)
  IN  [db EXCEPT !.tracks = Append(@, NewTrack(r.id, d, TRUE, r.at))]

SpawnReturning(db, d) ==
  LET r == NearestDormant(db, d)
  IN  [db EXCEPT
        !.tracks = Append(@, NewTrack(r.id, d, TRUE,
                                      IF r.stable THEN r.at ELSE NoAnchor)),
        !.dormant = @ \ {r}]

SpawnNew(db, d) ==
  [db EXCEPT !.tracks = Append(@, NewTrack(db.nextId, d, FALSE, NoAnchor)),
             !.nextId = @ + 1]

Spawn(db, d) ==
  CASE ActiveNear(db, d) # {}  -> SpawnFragment(db, d)
    [] ActiveNear(db, d) = {} /\ DormantNear(db, d) # {} -> SpawnReturning(db, d)
    [] OTHER -> SpawnNew(db, d)

SpawnAll(db, detections) ==
  FoldLeft(Spawn, db, SetToSortSeq(detections, LAMBDA p, q : p < q))

-----------------------------------------------------------------------------
(* Retirement: the ID of a dead track is remembered unless another live     *)
(* track still carries it; what was remembered of that ID is replaced.      *)

StillActive(ts, i) == \E j \in DOMAIN ts : ts[j].id = ts[i].id /\ ~ts[j].dead

DormantOf(t) ==
  [id |-> t.id, at |-> IF t.anchor = NoAnchor THEN t.at ELSE t.anchor,
   stable |-> t.anchor # NoAnchor, unseen |-> t.unseen]

Remember(known, ts, i) ==
  IF ts[i].dead /\ ts[i].eligible /\ ~StillActive(ts, i)
  THEN {r \in known : r.id # ts[i].id} \cup {DormantOf(ts[i])}
  ELSE known

Retire(db) ==
  [db EXCEPT
     !.dormant = FoldLeft(LAMBDA known, i : Remember(known, db.tracks, i), @,
                          [i \in DOMAIN db.tracks |-> i]),
     !.tracks = SelectSeq(@, LAMBDA t : ~t.dead)]

\* Mutant: nothing is forgotten.
NeverExpired == { [r EXCEPT !.unseen = @ + 1] : r \in dormant }

\* The dormant IDs at the start of a scan: those remembered too long are dropped.
Unexpired == { [r EXCEPT !.unseen = @ + 1] : r \in {e \in dormant : e.unseen < IdMemory} }

-----------------------------------------------------------------------------
(* History. *)

BoxAt(cell) == CHOOSE b \in Boxes : cell \in CellsOf[b]

PlacedAfter(ts) ==
  [id \in 1..MaxId |-> placedAt[id] \cup
     {BoxAt(ts[i].at) : i \in {k \in DOMAIN ts : ts[k].id = id /\ ts[k].eligible}}]

\* The eligible tracks that measured box b at this scan.
NamesAt(ts, b) ==
  {ts[i].id : i \in {k \in DOMAIN ts : /\ ts[k].eligible /\ ts[k].unseen = 0
                                       /\ ts[k].at \in CellsOf[b]}}

\* How long a name is certain to be remembered.  A fragment that is retired with
\* its object is stored last, with its own, older measurement.
CertainMemory == IdMemory - MaxUnseen + 1

NamesAfter(ts) ==
  [b \in Boxes |->
     CASE NamesAt(ts, b) # {} -> [id |-> CHOOSE n \in NamesAt(ts, b) : TRUE, unseen |-> 0]
       [] NamesAt(ts, b) = {} /\ nameOf[b].unseen < CertainMemory ->
            [nameOf[b] EXCEPT !.unseen = @ + 1]
       [] OTHER -> [id |-> NoId, unseen |-> 0]]

-----------------------------------------------------------------------------
TrackIdentityInit ==
  /\ tracks = <<>>
  /\ dormant = {}
  /\ nextId = 1
  /\ placedAt = [id \in 1..MaxId |-> {}]
  /\ nameOf = [b \in Boxes |-> [id |-> NoId, unseen |-> 0]]

\* ObstacleTracker::update
IdentityScan ==
  \E detections \in SUBSET Cells :
    \E matching \in Associations(detections), stands \in BOOLEAN :
      LET taken == {p[2] : p \in matching}
          lost  == DOMAIN tracks \ {p[1] : p \in matching}
          spent == {i \in lost : tracks[i].unseen + 1 >= MaxUnseen}
      IN \E dying \in {x \in SUBSET lost : spent \subseteq x} :
        LET before == [tracks |-> Updated(matching, dying, stands),
                       dormant |-> Unexpired, nextId |-> nextId]
            after == Retire(SpawnAll(before, detections \ taken))
        IN /\ Len(after.tracks) <= MaxTracks /\ after.nextId <= MaxId + 1
           /\ tracks' = after.tracks
           /\ dormant' = after.dormant
           /\ nextId' = after.nextId
           /\ placedAt' = PlacedAfter(after.tracks)
           /\ nameOf' = NamesAfter(after.tracks)

\* Mutant: every repetition of the reference clears the tracker.
ReferenceMessageClears ==
  /\ tracks' = <<>> /\ dormant' = {}
  /\ UNCHANGED <<nextId, placedAt, nameOf>>

\* globalWpntsCallback: the same geometry again, or a reference that cannot be
\* built, changes nothing; a new one clears the tracker, but not its counters.
ReferenceMessage ==
  \E sameGeometry, builds \in BOOLEAN :
    IF ~sameGeometry /\ builds
    THEN /\ tracks' = <<>> /\ dormant' = {}
         /\ nameOf' = [b \in Boxes |-> [id |-> NoId, unseen |-> 0]]
         /\ UNCHANGED <<nextId, placedAt>>
    ELSE UNCHANGED identityVars

TrackIdentityNext == IdentityScan \/ ReferenceMessage

-----------------------------------------------------------------------------
(* Type invariant. *)
TrackIdentityTypeOK ==
  /\ \A i \in DOMAIN tracks :
       /\ tracks[i].id \in 1..MaxId /\ tracks[i].at \in Cells
       /\ tracks[i].anchor \in Cells \cup {NoAnchor}
       /\ ~tracks[i].dead
  /\ \A r \in dormant : r.id \in 1..MaxId /\ r.unseen \in 0..IdMemory
  /\ nextId \in 1..(MaxId + 1)

-----------------------------------------------------------------------------
(* Properties. *)

\* An ID that once named a box never names another one: not after a dropout,
\* not through a fragment, not after the reference was rebuilt.
\* (obstacle_tracker.hpp:80-85; next_physical_id_ survives clear)
IdNamesOneBox == \A id \in 1..MaxId : Cardinality(placedAt[id]) <= 1

\* A box that was named and is measured again within the certain memory has its
\* old name, however it was lost in between, and although the reference was sent
\* again.  (obstacle_tracker.cpp:1365-1424, 1470-1514)
NameReturns ==
  [][ \A b \in Boxes :
        nameOf[b].id # NoId /\ nameOf'[b].id # NoId /\ nameOf'[b].unseen = 0
          => nameOf'[b].id = nameOf[b].id ]_identityVars

\* An ID is live or remembered, never both, and remembered once: no object can
\* be looked for at two places.  (obstacle_tracker.cpp:1410-1424, 1478-1512)
RememberedIsNotLive ==
  \A r \in dormant : /\ \A i \in DOMAIN tracks : tracks[i].id # r.id
                     /\ \A e \in dormant : e.id = r.id => e = r

\* An ID is the name of one box, and a box keeps its name.
NamesAreKept ==
  [](TrackIdentityTypeOK /\ IdNamesOneBox /\ RememberedIsNotLive) /\ NameReturns
=============================================================================
