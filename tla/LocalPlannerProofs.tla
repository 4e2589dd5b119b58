--------------------------- MODULE LocalPlannerProofs ---------------------------
(***************************************************************************)
(* Theorems about the planning cycle, for every ClearFrames and every set  *)
(* of /state values.  Good(p) says of a planner record, before or after    *)
(* any helper, what the cycle relies on; Settled says of the whole cycle   *)
(* that it ends in a good record, with a stop published if one is latched, *)
(* and having left a latched stop by a release only.  The last part carries *)
(* the results over to the planner that runs beside the state machine.     *)
(***************************************************************************)
EXTENDS PlannerAndStateMachine, TLAPS

\* What the branches rely on when they pick a record up.
Good(p) ==
    /\ p \in Planner
    /\ p.handoff => p.commit = "loop" /\ ~p.latched
    /\ p.commit = "loop" /\ ~p.latched => p.handoff

Stopping(p) == p.latched => p.out.path \in {"stop", "hold"}

\* A manoeuvre, its memory and a latched stop have been planned on inputs, which
\* nothing but a new race line takes away: without this the cycle could fall silent
\* under the stop.
Used(p) == p.latched \/ p.p3 \/ p.rear # "none"

UsedHasInputs ==
    Used(planner) => reference /\ odometry # "none" /\ source # "none"

\* The same inside a planning cycle, which has drained the obstacle buffer.
Inputs == reference /\ odometry # "none" /\ source' # "none"

PlannerInv ==
    /\ PlannerTypeOK
    /\ OneAuthority
    /\ LatchedMeansStop
    /\ UsedHasInputs

\* The two ways out of a latched stop in a planning cycle.
ReleasePath(out) ==
    \/ out = [path |-> "loop", mark |-> TRUE]
    \/ out.path = "avoid" /\ state = "AVOID"

Settled(p) ==
    /\ Good(planner')
    /\ Stopping(planner')
    /\ planner'.latched => ~planner'.p3
    /\ Used(planner') => Inputs
    /\ p.latched /\ ~planner'.latched => ReleasePath(planner'.out)

\* A record in the middle of a cycle without a P3 path.
Open(p) ==
    /\ Good(p)
    /\ ~p.p3
    /\ Used(p) => Inputs

USE PlannerAssumption

-----------------------------------------------------------------------------
(* The helpers.                                                              *)

LEMMA PublishedGood ==
    ASSUME NEW p, Good(p), NEW path \in Paths
    PROVE  /\ Good(Published(p, path))
           /\ Published(p, path).latched = p.latched
           /\ Published(p, path).p3 = p.p3
           /\ Published(p, path).rear = p.rear
           /\ Published(p, path).out.path = path
           /\ Published(p, path).out.mark = (path \in {"avoid", "loop"} /\ p.handoff)
  BY DEF Good, Published, Planner, Paths, Guides

LEMMA SilentGood ==
    ASSUME NEW p, Good(p)
    PROVE  /\ Good(Silent(p))
           /\ Silent(p).latched = p.latched
           /\ Silent(p).p3 = p.p3
           /\ Silent(p).rear = p.rear
  BY DEF Good, Silent, Planner, Paths

LEMMA ClearedGood ==
    ASSUME NEW p, Good(p)
    PROVE  Good(Cleared(p)) /\ ~Cleared(p).latched /\ Cleared(p).p3 = p.p3
  BY DEF Good, Cleared, Invalidated, Planner, Guides

LEMMA InvalidatedGood ==
    ASSUME NEW p, Good(p)
    PROVE  /\ Good(Invalidated(p))
           /\ Invalidated(p).latched = p.latched
           /\ Invalidated(p).p3 = p.p3
  BY DEF Good, Invalidated, Planner, Guides

LEMMA CommittedGood ==
    ASSUME NEW p, Good(p)
    PROVE  Good(Committed(p)) /\ ~Committed(p).latched /\ Committed(p).p3 = p.p3
  BY DEF Good, Committed, Planner, Guides, InAvoid

LEMMA HandedOffGood ==
    ASSUME NEW p, Good(p)
    PROVE  /\ Good(HandedOff(p)) /\ ~HandedOff(p).latched
           /\ HandedOff(p).p3 = p.p3 /\ HandedOff(p).handoff
  BY DEF Good, HandedOff, Planner, Guides, InAvoid

LEMMA LatchedGood ==
    ASSUME NEW p, Good(p)
    PROVE  Good(Latched(p)) /\ Latched(p).latched /\ Latched(p).p3 = p.p3
  BY DEF Good, Latched, Planner

LEMMA ResetGood ==
    ASSUME NEW p, Good(p)
    PROVE  LET q == ResetForChained(p)
           IN  /\ Good(q) /\ ~q.latched /\ q.p3 = p.p3
               /\ ~q.handoff /\ q.commit = "none"
  BY DEF Good, ResetForChained, Planner, Guides, InAvoid

LEMMA ChainedGood ==
    ASSUME NEW p, Good(p), NEW q \in Chained(p)
    PROVE  Good(q) /\ ~q.latched /\ q.p3 = p.p3 /\ ~q.handoff /\ q.commit # "loop"
  <1> DEFINE r == ResetForChained(p)
  <1>1. Good(r) /\ ~r.latched /\ r.p3 = p.p3 /\ ~r.handoff /\ r.commit = "none"
    BY ResetGood
  <1>2. q = Committed(r) \/ q = r
    BY DEF Chained
  <1> HIDE DEF r
  <1>3. CASE q = r
    BY <1>1, <1>3
  <1>4. CASE q = Committed(r)
    <2>1. Good(q) /\ ~q.latched /\ q.p3 = r.p3
      BY <1>1, <1>4, CommittedGood
    <2>2. ~q.handoff /\ q.commit = "avoid"
      BY <1>1, <1>4 DEF Committed, Good, Planner
    <2>3. QED
      BY <1>1, <2>1, <2>2
  <1>5. QED
    BY <1>2, <1>3, <1>4

LEMMA RearsGood ==
    ASSUME NEW p, Good(p), NEW rear \in {"none", "away", "ahead"}
    PROVE  /\ Good(RearsRemembered(p, rear)) /\ Good(RearsForgotten(p))
           /\ RearsRemembered(p, rear).latched = p.latched
           /\ RearsForgotten(p).latched = p.latched
           /\ RearsRemembered(p, rear).p3 = p.p3
           /\ RearsForgotten(p).p3 = p.p3
  <1>1. 0 \in 0..ClearFrames
    OBVIOUS
  <1>2. /\ Good(RearsRemembered(p, rear))
        /\ RearsRemembered(p, rear).latched = p.latched
        /\ RearsRemembered(p, rear).p3 = p.p3
    BY <1>1 DEF Good, RearsRemembered, Planner
  <1> DEFINE gone == IF p.gone < ClearFrames THEN p.gone + 1 ELSE p.gone
             next == [p EXCEPT !.gone = gone,
                               !.rear = IF gone = ClearFrames THEN "none" ELSE @]
  <1>3. p.gone \in 0..ClearFrames
    BY DEF Good, Planner
  <1>4. gone \in 0..ClearFrames
    BY <1>3
  <1>5. RearsForgotten(p) = next
    BY DEF RearsForgotten
  <1> HIDE DEF gone
  <1>6. Good(next) /\ next.latched = p.latched /\ next.p3 = p.p3
    BY <1>4 DEF Good, Planner
  <1>7. QED
    BY <1>2, <1>5, <1>6

LEMMA HoldTimerGood ==
    ASSUME NEW p, Good(p)
    PROVE  LET q == [p EXCEPT !.deferred = "running"]
           IN  /\ Good(q) /\ q.latched = p.latched /\ q.p3 = p.p3
               /\ Good(NotHeld(p)) /\ NotHeld(p).latched = p.latched
               /\ NotHeld(p).p3 = p.p3
  BY DEF Good, NotHeld, Planner

-----------------------------------------------------------------------------
(* The branches of the cycle.                                                *)

\* Publishing a path on a record that is not latched settles the cycle.
LEMMA DrivingSettles ==
    ASSUME NEW p, NEW q, Good(q), ~q.latched, Inputs, NEW path \in Paths,
           p.latched => ReleasePath(Published(q, path).out),
           planner' = Published(q, path)
    PROVE  Settled(p)
  <1>1. Good(planner') /\ ~planner'.latched
    BY PublishedGood
  <1>2. QED
    BY <1>1 DEF Settled, Stopping

LEMMA StopSettles ==
    ASSUME NEW p, NEW q, Open(q), q.latched, NEW path \in {"stop", "hold"},
           planner' = Published(q, path)
    PROVE  Settled(p)
  <1>1. path \in Paths /\ Good(q) /\ ~q.p3
    BY DEF Open, Paths
  <1>2. Good(planner') /\ planner'.latched /\ ~planner'.p3 /\ planner'.out.path = path
    BY <1>1, PublishedGood
  <1>3. Inputs
    BY DEF Open, Used
  <1>4. QED
    BY <1>2, <1>3 DEF Settled, Stopping

LEMMA LatchSettles ==
    ASSUME NEW p, Open(p), Inputs, LatchSafeStop(p)
    PROVE  Settled(p)
  <1>1. Good(Latched(p)) /\ Latched(p).latched /\ ~Latched(p).p3
    BY LatchedGood DEF Open
  <1>2. Open(Latched(p))
    BY <1>1 DEF Open
  <1>3. QED
    BY <1>1, <1>2, StopSettles DEF LatchSafeStop

\* The ladder of a latched stop: the stop, or a release.
LEMMA HandleSettles ==
    ASSUME NEW p, Open(p), p.latched, HandleSafeStopLatch(p)
    PROVE  Settled(p)
  <1>g. Good(p) /\ Inputs
    BY DEF Open, Used
  <1>1. CASE planner' = Published(p, "stop")
    BY <1>1, StopSettles
  <1>2. CASE InAvoid /\ planner' = Published(Committed(p), "avoid")
    <2>1. Good(Committed(p)) /\ ~Committed(p).latched /\ "avoid" \in Paths
      BY <1>g, CommittedGood DEF Paths
    <2>2. ReleasePath(Published(Committed(p), "avoid").out)
      BY <1>2, <2>1, PublishedGood DEF ReleasePath, InAvoid
    <2>3. QED
      BY <1>g, <1>2, <2>1, <2>2, DrivingSettles
  <1>3. CASE planner' = Published(HandedOff(p), "loop")
    <2>1. /\ Good(HandedOff(p)) /\ ~HandedOff(p).latched /\ HandedOff(p).handoff
          /\ "loop" \in Paths
      BY <1>g, HandedOffGood DEF Paths
    <2>2. Published(HandedOff(p), "loop").out = [path |-> "loop", mark |-> TRUE]
      BY <2>1, <1>g DEF Published, Good, Planner, HandedOff
    <2>3. ReleasePath(Published(HandedOff(p), "loop").out)
      BY <2>2 DEF ReleasePath
    <2>4. QED
      BY <1>g, <1>3, <2>1, <2>3, DrivingSettles
  <1>4. QED
    BY <1>1, <1>2, <1>3 DEF HandleSafeStopLatch

\* Settled looks at nothing of p but the latch.
LEMMA SettledFor ==
    ASSUME NEW p, NEW q, Settled(q), p.latched => q.latched
    PROVE  Settled(p)
  BY DEF Settled

\* From a record that is not latched every publication settles the cycle.
LEMMA UnlatchedSettles ==
    ASSUME NEW p, ~p.latched, Inputs, NEW q, Good(q), ~q.latched,
           \/ \E path \in Paths : planner' = Published(q, path)
           \/ planner' = Silent(q)
    PROVE  Settled(p)
  <1>1. CASE planner' = Silent(q)
    BY <1>1, SilentGood DEF Settled, Stopping
  <1>2. CASE \E path \in Paths : planner' = Published(q, path)
    <2>1. PICK path \in Paths : planner' = Published(q, path)
      BY <1>2
    <2>2. QED
      BY <2>1, DrivingSettles
  <1>3. QED
    BY <1>1, <1>2

-----------------------------------------------------------------------------
(* The P0 pipeline, from a record that is not latched.                       *)

Ready(p) ==
    /\ Open(p)
    /\ ~p.latched
    /\ Inputs

LEMMA TrackClearSettles ==
    ASSUME NEW p, Ready(p), TrackClear(p)
    PROVE  Settled(p)
  <1>1. Good(p) /\ ~p.latched /\ Inputs /\ {"prepare", "loop"} \subseteq Paths
    BY DEF Ready, Open, Paths
  <1>2. CASE planner' = Published(p, "prepare")
    BY <1>1, <1>2, UnlatchedSettles
  <1>3. CASE planner' = Published(HandedOff(p), "loop")
    BY <1>1, <1>3, HandedOffGood, UnlatchedSettles
  <1>4. CASE planner' = Silent(Cleared(p))
    BY <1>1, <1>4, ClearedGood, UnlatchedSettles
  <1>5. QED
    BY <1>2, <1>3, <1>4 DEF TrackClear

LEMMA PlanSettles ==
    ASSUME NEW p, Ready(p), Plan(p)
    PROVE  Settled(p)
  <1>1. Good(p) /\ ~p.latched /\ Inputs /\ "avoid" \in Paths
    BY DEF Ready, Open, Paths
  <1>2. CASE planner' = Published(Committed(p), "avoid")
    BY <1>1, <1>2, CommittedGood, UnlatchedSettles
  <1>3. CASE LatchSafeStop(p)
    BY <1>3, LatchSettles DEF Ready
  <1>4. CASE TrackClear(p)
    BY <1>4, TrackClearSettles
  <1>5. QED
    BY <1>2, <1>3, <1>4 DEF Plan

LEMMA StabiliseSettles ==
    ASSUME NEW p, Ready(p), Stabilise(p)
    PROVE  Settled(p)
  <1>1. Good(p) /\ ~p.latched /\ Inputs /\ {"prepare", "avoid", "loop"} \subseteq Paths
    BY DEF Ready, Open, Paths
  <1>2. CASE Plan(p)
    BY <1>2, PlanSettles
  <1>3. CASE LatchSafeStop(p)
    BY <1>3, LatchSettles DEF Ready
  <1>4. CASE planner' = Published(p, "prepare") \/ planner' = Published(p, "avoid")
    BY <1>1, <1>4, UnlatchedSettles
  <1>5. CASE planner' = Published(HandedOff(p), "loop")
    BY <1>1, <1>5, HandedOffGood, UnlatchedSettles
  <1>6. QED
    BY <1>2, <1>3, <1>4, <1>5 DEF Stabilise

LEMMA FollowSettles ==
    ASSUME NEW p, Ready(p), Follow(p)
    PROVE  Settled(p)
  <1>1. Good(p) /\ ~p.latched /\ Inputs /\ {"avoid", "loop"} \subseteq Paths
    BY DEF Ready, Open, Paths
  <1>2. CASE planner' = Published(p, "avoid")
    BY <1>1, <1>2, UnlatchedSettles
  <1>3. CASE planner' = Published(Committed(p), "avoid")
    BY <1>1, <1>3, CommittedGood, UnlatchedSettles
  <1>4. CASE planner' = Published(HandedOff(p), "loop")
    BY <1>1, <1>4, HandedOffGood, UnlatchedSettles
  <1>5. CASE LatchSafeStop(p)
    BY <1>5, LatchSettles DEF Ready
  <1>6. QED
    BY <1>2, <1>3, <1>4, <1>5 DEF Follow

LEMMA FollowOrStabiliseSettles ==
    ASSUME NEW p, Ready(p), FollowOrStabilise(p)
    PROVE  Settled(p)
  BY FollowSettles, StabiliseSettles DEF FollowOrStabilise

LEMMA ChainedReady ==
    ASSUME NEW p, Ready(p), NEW q \in Chained(p)
    PROVE  Ready(q)
  <1>1. Good(p) /\ ~p.p3
    BY DEF Ready, Open
  <1>2. Good(q) /\ ~q.latched /\ q.p3 = p.p3
    BY <1>1, ChainedGood
  <1>3. QED
    BY <1>1, <1>2 DEF Ready, Open

\* The latch first, and the commitment only without it.
LEMMA UnloopedSettles ==
    ASSUME NEW p, Open(p), Inputs, Unlooped(p)
    PROVE  Settled(p)
  <1>1. CASE p.latched /\ HandleSafeStopLatch(p)
    BY <1>1, HandleSettles
  <1>2. ASSUME ~p.latched PROVE Ready(p) /\ Good(p)
    BY <1>2 DEF Ready, Open
  <1>3. CASE ~p.latched /\ EarlyChain(p)
    <2>1. Good(ResetForChained(p)) /\ ~ResetForChained(p).latched
      BY <1>2, <1>3, ResetGood
    <2>2. Good(Committed(ResetForChained(p))) /\ ~Committed(ResetForChained(p)).latched
      BY <2>1, CommittedGood
    <2>3. "avoid" \in Paths
      BY DEF Paths
    <2>4. QED
      BY <1>3, <2>2, <2>3, UnlatchedSettles DEF EarlyChain
  <1>4. CASE ~p.latched /\ MergeCompletion(p)
    <2>1. CASE planner' = Published(HandedOff(p), "loop")
      <3>1. "loop" \in Paths /\ Good(HandedOff(p)) /\ ~HandedOff(p).latched
        BY <1>2, <1>4, HandedOffGood DEF Paths
      <3>2. QED
        BY <1>4, <2>1, <3>1, UnlatchedSettles
    <2>2. CASE \E q \in Chained(p) : FollowOrStabilise(q)
      <3>1. PICK q \in Chained(p) : FollowOrStabilise(q)
        BY <2>2
      <3>2. Settled(q)
        BY <1>2, <1>4, <3>1, ChainedReady, FollowOrStabiliseSettles
      <3>3. QED
        BY <1>4, <3>2, SettledFor
    <2>3. QED
      BY <1>4, <2>1, <2>2 DEF MergeCompletion
  <1>5. CASE ~p.latched /\ FollowOrStabilise(p)
    BY <1>2, <1>5, FollowOrStabiliseSettles
  <1>6. QED
    BY <1>1, <1>3, <1>4, <1>5 DEF Unlooped

LEMMA LoopedSettles ==
    ASSUME NEW p, Open(p), Inputs, p.handoff, Looped(p)
    PROVE  Settled(p)
  <1>1. Good(p) /\ ~p.latched /\ Ready(p) /\ "loop" \in Paths
    BY DEF Open, Good, Ready, Paths
  <1>2. CASE \E q \in Chained(p) : Unlooped(q)
    <2>1. PICK q \in Chained(p) : Unlooped(q)
      BY <1>2
    <2>2. Ready(q)
      BY <1>1, <2>1, ChainedReady
    <2>3. Open(q) /\ ~q.latched
      BY <2>2 DEF Ready
    <2>4. Settled(q)
      BY <2>1, <2>3, UnloopedSettles
    <2>5. QED
      BY <1>1, <2>4, SettledFor
  <1>3. CASE planner' = Silent(Cleared(p))
    BY <1>1, <1>3, ClearedGood, UnlatchedSettles
  <1>4. CASE planner' = Published(p, "loop")
    BY <1>1, <1>4, UnlatchedSettles
  <1>5. QED
    BY <1>2, <1>3, <1>4 DEF Looped

\* Without a usable input the cycle leaves everything but the output alone.
LEMMA IdleSettles ==
    ASSUME NEW p, Open(p),
           \/ ~p.latched /\ planner' = Silent(p)
           \/ planner' = Published(p, "hold")
    PROVE  Settled(p)
  <1>g. Good(p) /\ ~p.p3 /\ (Used(p) => Inputs) /\ "hold" \in Paths
    BY DEF Open, Paths
  <1>1. CASE ~p.latched /\ planner' = Silent(p)
    <2>1. /\ Good(planner') /\ ~planner'.latched /\ ~planner'.p3
          /\ planner'.rear = p.rear
      BY <1>g, <1>1, SilentGood
    <2>2. QED
      BY <1>g, <1>1, <2>1 DEF Settled, Stopping, Used
  <1>2. CASE planner' = Published(p, "hold")
    <2>1. /\ Good(planner') /\ planner'.latched = p.latched /\ ~planner'.p3
          /\ planner'.rear = p.rear /\ planner'.out.path = "hold"
      BY <1>g, <1>2, PublishedGood
    <2>2. QED
      BY <1>g, <2>1 DEF Settled, Stopping, Used
  <1>3. QED
    BY <1>1, <1>2

LEMMA RunP0Settles ==
    ASSUME NEW p, Open(p), RunP0(p)
    PROVE  Settled(p)
  <1>1. CASE (~reference \/ odometry = "none") /\ planner' = Silent(p)
    <2>1. ~p.latched
      BY <1>1 DEF Open, Used, Inputs
    <2>2. QED
      BY <1>1, <2>1, IdleSettles
  <1>2. CASE planner' = Published(p, "hold")
    BY <1>2, IdleSettles
  <1>3. CASE source' = "none" /\ planner' = Silent(p)
    <2>1. ~p.latched
      BY <1>3 DEF Open, Used, Inputs
    <2>2. QED
      BY <1>3, <2>1, IdleSettles
  <1>4. CASE /\ reference /\ odometry = "fresh" /\ source' # "none"
             /\ p.handoff /\ Looped(p)
    <2>1. Inputs
      BY <1>4 DEF Inputs
    <2>2. QED
      BY <1>4, <2>1, LoopedSettles
  <1>5. CASE /\ reference /\ odometry = "fresh" /\ source' # "none"
             /\ ~p.handoff /\ Unlooped(p)
    <2>1. Inputs
      BY <1>5 DEF Inputs
    <2>2. QED
      BY <1>5, <2>1, UnloopedSettles
  <1>6. QED
    BY <1>1, <1>2, <1>3, <1>4, <1>5 DEF RunP0

-----------------------------------------------------------------------------
(* The hold gate and the whole cycle.                                        *)

LEMMA HeldSettles ==
    ASSUME NEW p, Open(p), Inputs, Held(p)
    PROVE  Settled(p)
  <1>1. Good(p) /\ p.commit \in Guides /\ p.guidance \in Guides
    BY DEF Open, Good, Planner
  <1>2. CASE p.latched /\ HandleSafeStopLatch(p)
    BY <1>2, HandleSettles
  <1>3. CASE ~p.latched /\ p.commit # "none" /\ planner' = Published(p, p.commit)
    <2>1. p.commit \in Paths
      BY <1>1 DEF Guides, Paths
    <2>2. QED
      BY <1>1, <1>3, <2>1, UnlatchedSettles
  <1>4. CASE ~p.latched /\ p.guidance # "none" /\ planner' = Published(p, p.guidance)
    <2>1. p.guidance \in Paths
      BY <1>1 DEF Guides, Paths
    <2>2. QED
      BY <1>1, <1>4, <2>1, UnlatchedSettles
  <1>5. CASE ~p.latched /\ LatchSafeStop(p)
    BY <1>5, LatchSettles
  <1>6. QED
    BY <1>2, <1>3, <1>4, <1>5 DEF Held

\* A cycle without a P3 path; a completed manoeuvre is never a latched one.
LEMMA WithoutP3PathSettles ==
    ASSUME NEW p, Open(p), NEW complete \in BOOLEAN, complete => ~p.latched,
           WithoutP3Path(p, complete)
    PROVE  Settled(p)
  <1> DEFINE held == [p EXCEPT !.deferred = "running"]
  <1>g. Good(p) /\ p \in Planner /\ ~p.p3 /\ (Used(p) => Inputs)
    BY DEF Open, Good
  <1>1. CASE HoldsOn(p) /\ Held(held)
    <2>1. Inputs
      BY <1>g, <1>1 DEF HoldsOn, Used
    <2>2. Good(held) /\ held.latched = p.latched /\ ~held.p3
      BY <1>g, HoldTimerGood
    <2>3. Open(held)
      BY <2>1, <2>2 DEF Open
    <2>4. Settled(held)
      BY <1>1, <2>1, <2>3, HeldSettles
    <2>5. QED
      BY <2>2, <2>4, SettledFor
  <1>2. CASE ~HoldsOn(p) /\ ~complete /\ RunP0(NotHeld(p))
    <2>1. /\ Good(NotHeld(p)) /\ NotHeld(p).latched = p.latched /\ ~NotHeld(p).p3
          /\ NotHeld(p).rear # "none" => p.rear # "none"
      BY <1>g, HoldTimerGood DEF NotHeld, Planner
    <2>2. Open(NotHeld(p))
      BY <1>g, <2>1 DEF Open, Used
    <2>3. QED
      BY <1>2, <2>1, <2>2, RunP0Settles, SettledFor
  <1>3. CASE ~HoldsOn(p) /\ complete /\ RunP0(HandedOff(Cleared(NotHeld(p))))
    <2>1. Good(NotHeld(p)) /\ ~NotHeld(p).p3
      BY <1>g, HoldTimerGood
    <2>2. /\ Good(Cleared(NotHeld(p))) /\ ~Cleared(NotHeld(p)).p3
          /\ Cleared(NotHeld(p)) \in Planner /\ Cleared(NotHeld(p)).rear = "none"
      BY <2>1, ClearedGood DEF Cleared, Invalidated, Good, Planner
    <2> DEFINE q == HandedOff(Cleared(NotHeld(p)))
    <2>3. Good(q) /\ ~q.latched /\ ~q.p3 /\ q.rear = "none"
      BY <2>2, HandedOffGood DEF HandedOff, Planner
    <2>4. Open(q)
      BY <2>3 DEF Open, Used
    <2>5. Settled(q)
      BY <1>3, <2>4, RunP0Settles
    <2>6. QED
      BY <1>3, <2>5, SettledFor
  <1>4. QED
    BY <1>1, <1>2, <1>3 DEF WithoutP3Path

\* What the cycle starts from: a record that P3 may own, but not under a stop.
Started(p) ==
    /\ Good(p)
    /\ p.latched => ~p.p3
    /\ Used(p) => Inputs

\* P3's record closed, and its obstacles remembered or looked for once more.
LEMMA ClosedOpens ==
    ASSUME NEW p, Started(p), NEW rear \in {"none", "away", "ahead"}
    PROVE  LET q == [p EXCEPT !.p3 = FALSE]
           IN  /\ p.p3 => Open(RearsRemembered(q, rear))
               /\ Open(RearsForgotten(q))
               /\ RearsRemembered(q, rear).latched = p.latched
               /\ RearsForgotten(q).latched = p.latched
  <1> DEFINE q == [p EXCEPT !.p3 = FALSE]
  <1>1. Good(q) /\ q.latched = p.latched /\ ~q.p3 /\ q.rear = p.rear
    BY DEF Started, Good, Planner
  <1>2. (p.p3 => Inputs) /\ (Used(q) => Inputs)
    BY <1>1 DEF Started, Used
  <1> HIDE DEF q
  <1>3. /\ Good(RearsRemembered(q, rear)) /\ Good(RearsForgotten(q))
        /\ RearsRemembered(q, rear).latched = p.latched
        /\ RearsForgotten(q).latched = p.latched
        /\ ~RearsRemembered(q, rear).p3 /\ ~RearsForgotten(q).p3
    BY <1>1, RearsGood
  <1>4. RearsForgotten(q).rear # "none" => q.rear # "none"
    <2> DEFINE gone == IF q.gone < ClearFrames THEN q.gone + 1 ELSE q.gone
    <2>1. RearsForgotten(q)
            = [q EXCEPT !.gone = gone,
                        !.rear = IF gone = ClearFrames THEN "none" ELSE @]
      BY DEF RearsForgotten
    <2> HIDE DEF gone
    <2>2. q \in Planner
      BY <1>1 DEF Good
    <2>3. QED
      BY <2>1, <2>2 DEF Planner
  <1>5. p.p3 => Open(RearsRemembered(q, rear))
    BY <1>2, <1>3 DEF Open
  <1>6. Open(RearsForgotten(q))
    BY <1>1, <1>2, <1>3, <1>4 DEF Open, Used
  <1>7. QED
    BY <1>3, <1>5, <1>6 DEF q

LEMMA P3PathSettles ==
    ASSUME NEW p, Started(p), P3Path(p)
    PROVE  Settled(p)
  <1>1. Good(p) /\ ~p.latched /\ Inputs
    BY DEF Started, P3Path, P3Ready, Inputs
  <1>2. Good(PublishedByP3(p)) /\ ~PublishedByP3(p).latched
    BY <1>1 DEF Good, PublishedByP3, Planner, Paths, Guides
  <1>3. planner' = PublishedByP3(p)
    BY DEF P3Path
  <1>4. QED
    BY <1>1, <1>2, <1>3 DEF Settled, Stopping

LEMMA P3CompleteSettles ==
    ASSUME NEW p, Started(p), P3Complete(p)
    PROVE  Settled(p)
  <1>1. PICK rear \in {"none", "away", "ahead"} :
            /\ p.p3 /\ P3Ready(p)
            /\ WithoutP3Path(RearsRemembered([p EXCEPT !.p3 = FALSE], rear), TRUE)
    BY DEF P3Complete
  <1> DEFINE q == RearsRemembered([p EXCEPT !.p3 = FALSE], rear)
  <1>2. Open(q) /\ q.latched = p.latched /\ ~p.latched
    BY <1>1, ClosedOpens DEF P3Ready
  <1>3. Settled(q)
    BY <1>1, <1>2, WithoutP3PathSettles
  <1>4. QED
    BY <1>2, <1>3, SettledFor

LEMMA P3InvalidatedSettles ==
    ASSUME NEW p, Started(p), P3Invalidated(p)
    PROVE  Settled(p)
  <1>1. PICK rear \in {"none", "away", "ahead"} :
            /\ p.p3
            /\ WithoutP3Path(
                  Invalidated(RearsRemembered([p EXCEPT !.p3 = FALSE], rear)), FALSE)
    BY DEF P3Invalidated
  <1> DEFINE r == RearsRemembered([p EXCEPT !.p3 = FALSE], rear)
             q == Invalidated(r)
  <1>2. Open(r) /\ r.latched = p.latched
    BY <1>1, ClosedOpens
  <1> HIDE DEF r
  <1>3. Good(q) /\ q.latched = r.latched /\ ~q.p3 /\ q.rear = r.rear
    BY <1>2, InvalidatedGood DEF Open, Good, Invalidated, Planner
  <1>4. Open(q)
    BY <1>2, <1>3 DEF Open, Used
  <1>5. Settled(q)
    BY <1>1, <1>4, WithoutP3PathSettles DEF r
  <1>6. QED
    BY <1>2, <1>3, <1>5, SettledFor

LEMMA P3NothingSettles ==
    ASSUME NEW p, Started(p), P3Nothing(p)
    PROVE  Settled(p)
  <1> DEFINE q == RearsForgotten([p EXCEPT !.p3 = FALSE])
  <1>1. Open(q) /\ q.latched = p.latched
    BY ClosedOpens
  <1>2. WithoutP3Path(q, FALSE)
    BY DEF P3Nothing
  <1> HIDE DEF q
  <1>3. Settled(q)
    BY <1>1, <1>2, WithoutP3PathSettles
  <1>4. QED
    BY <1>1, <1>3, SettledFor

\* One planning cycle, whatever the detector and P3 do in it.
LEMMA CycleSettles ==
    ASSUME PlannerInv, PlanningTimer, odometry # "regressed"
    PROVE  Settled(planner) /\ source' \in {"none", "fresh", "stale"}
                            /\ UNCHANGED <<reference, state, odometry>>
  <1>1. PICK ingress \in {"none", "newer", "restarted"} :
          LET p == Drained(planner, ingress = "restarted" /\ source # "none")
          IN  /\ source' \in IF ingress = "none" THEN {source} ELSE {"fresh", "stale"}
              /\ UNCHANGED <<reference, state, odometry>>
              /\ P3Path(p) \/ P3Complete(p) \/ P3Invalidated(p) \/ P3Nothing(p)
    BY Zenon DEF PlanningTimer
  <1> DEFINE p == Drained(planner, ingress = "restarted" /\ source # "none")
  <1>2. /\ Good(planner) /\ (planner.latched => ~planner.p3)
        /\ (Used(planner) => reference /\ odometry # "none" /\ source # "none")
    BY DEF PlannerInv, OneAuthority, HandoffOwnsLoop, StopSilencesP3, Good,
           PlannerTypeOK, UsedHasInputs
  <1>3. source # "none" => source' # "none"
    BY <1>1
  <1>4. p.latched = planner.latched /\ Started(p)
    <2>1. CASE p = planner
      BY <1>2, <1>3, <2>1 DEF Started, Inputs
    <2>2. CASE p = [planner EXCEPT !.p3 = FALSE]
      <3>1. Good(p) /\ p.latched = planner.latched /\ ~p.p3 /\ p.rear = planner.rear
        BY <1>2, <2>2 DEF Good, Planner
      <3>2. QED
        BY <1>2, <1>3, <3>1 DEF Started, Inputs, Used
    <2>3. QED
      BY <2>1, <2>2 DEF Drained
  <1>5. P3Path(p) \/ P3Complete(p) \/ P3Invalidated(p) \/ P3Nothing(p)
    BY <1>1
  <1> HIDE DEF p
  <1>6. Settled(p)
    BY <1>4, <1>5, P3PathSettles, P3CompleteSettles, P3InvalidatedSettles,
       P3NothingSettles
  <1>7. Settled(planner)
    BY <1>4, <1>6, SettledFor
  <1>8. source' \in {"none", "fresh", "stale"}
    BY <1>1 DEF PlannerInv, PlannerTypeOK
  <1>9. QED
    BY <1>1, <1>7, <1>8

-----------------------------------------------------------------------------
(* The specification.                                                        *)

LEMMA InitEstablishes == PlannerInit => PlannerInv
  <1> SUFFICES ASSUME PlannerInit PROVE PlannerInv
    OBVIOUS
  <1>1. 0 \in 0..ClearFrames
    OBVIOUS
  <1>2. planner \in Planner
    BY <1>1 DEF PlannerInit, Planner, Paths, Guides
  <1>3. PlannerTypeOK
    BY <1>2 DEF PlannerInit, PlannerTypeOK
  <1>4. OneAuthority /\ LatchedMeansStop /\ UsedHasInputs
    BY DEF PlannerInit, OneAuthority, HandoffOwnsLoop, StopSilencesP3,
           LatchedMeansStop, UsedHasInputs, Used
  <1>5. QED
    BY <1>3, <1>4 DEF PlannerInv

\* The invariant in the terms of the helpers.
LEMMA InvIs ==
    PlannerInv <=> /\ PlannerTypeOK
                   /\ Good(planner)
                   /\ planner.latched => ~planner.p3
                   /\ Stopping(planner)
                   /\ UsedHasInputs
  BY DEF PlannerInv, PlannerTypeOK, OneAuthority, HandoffOwnsLoop, StopSilencesP3,
         LatchedMeansStop, Good, Stopping

LEMMA InvIsPrimed ==
    PlannerInv' <=> /\ PlannerTypeOK'
                    /\ Good(planner')
                    /\ planner'.latched => ~planner'.p3
                    /\ Stopping(planner')
                    /\ Used(planner') => reference' /\ odometry' # "none" /\ source' # "none"
  BY DEF PlannerInv, PlannerTypeOK, OneAuthority, HandoffOwnsLoop, StopSilencesP3,
         LatchedMeansStop, Good, Stopping, UsedHasInputs, Used

\* A step that keeps the commitment, the latch and the last publication.
LEMMA KeepsInv ==
    ASSUME PlannerInv, NEW p \in Planner, planner' = p,
           p.commit = planner.commit, p.handoff = planner.handoff,
           p.latched = planner.latched, p.out = planner.out,
           p.p3 => planner.p3, p.rear # "none" => planner.rear # "none",
           reference' = reference, odometry # "none" => odometry' # "none",
           source # "none" => source' # "none", PlannerTypeOK'
    PROVE  PlannerInv'
  <1>1. /\ Good(planner) /\ (planner.latched => ~planner.p3) /\ Stopping(planner)
        /\ UsedHasInputs
    BY InvIs
  <1>2. Good(planner') /\ (planner'.latched => ~planner'.p3) /\ Stopping(planner')
    BY <1>1 DEF Good, Stopping
  <1>3. Used(planner') => Used(planner)
    BY DEF Used
  <1>4. Used(planner') => reference' /\ odometry' # "none" /\ source' # "none"
    BY <1>1, <1>3 DEF UsedHasInputs
  <1>5. QED
    BY <1>2, <1>4, InvIsPrimed

LEMMA WaypointsKeep == PlannerInv /\ OnGlobalWaypoints => PlannerInv'
  <1> SUFFICES ASSUME PlannerInv, OnGlobalWaypoints PROVE PlannerInv'
    OBVIOUS
  <1> DEFINE q == Cleared(planner)
  <1>1. Good(planner) /\ PlannerTypeOK
    BY InvIs
  <1>2. Good(q) /\ ~q.latched
    BY <1>1, ClearedGood
  <1>3. q \in Planner /\ q.rear = "none"
    BY <1>1, <1>2 DEF Good, Cleared, Invalidated, Planner
  <1>4. planner' = [q EXCEPT !.p3 = FALSE]
    BY DEF OnGlobalWaypoints
  <1> HIDE DEF q
  <1>5. /\ Good(planner') /\ ~planner'.latched /\ ~planner'.p3 /\ planner'.rear = "none"
        /\ planner' \in Planner
    BY <1>2, <1>3, <1>4 DEF Good, Planner
  <1>6. PlannerTypeOK'
    BY <1>1, <1>5 DEF OnGlobalWaypoints, PlannerTypeOK
  <1>7. QED
    BY <1>5, <1>6, InvIsPrimed DEF Stopping, Used

LEMMA OdometryKeeps == PlannerInv /\ OnFrenetOdometry => PlannerInv'
  <1> SUFFICES ASSUME PlannerInv, OnFrenetOdometry PROVE PlannerInv'
    OBVIOUS
  <1>1. PlannerTypeOK /\ planner \in Planner
    BY InvIs DEF Good
  <1>2. PICK rear \in IF planner.rear = "none" THEN {"none"} ELSE {"away", "ahead"} :
            planner' = [planner EXCEPT !.rear = rear]
    BY DEF OnFrenetOdometry
  <1> DEFINE p == [planner EXCEPT !.rear = rear]
  <1>3. /\ p \in Planner /\ p.commit = planner.commit /\ p.handoff = planner.handoff
        /\ p.latched = planner.latched /\ p.out = planner.out /\ p.p3 = planner.p3
        /\ p.rear # "none" => planner.rear # "none"
    BY <1>1, <1>2 DEF Planner
  <1>4. odometry' \in {"fresh", "regressed"}
    BY DEF OnFrenetOdometry
  <1>5. PlannerTypeOK'
    BY <1>1, <1>2, <1>3, <1>4 DEF OnFrenetOdometry, PlannerTypeOK
  <1>6. reference' = reference /\ source' = source
    BY DEF OnFrenetOdometry
  <1> HIDE DEF p
  <1>7. planner' = p
    BY <1>2 DEF p
  <1>8. QED
    BY <1>3, <1>4, <1>5, <1>6, <1>7, KeepsInv

LEMMA StateKeeps == PlannerInv /\ OnState => PlannerInv'
  <1> SUFFICES ASSUME PlannerInv, OnState PROVE PlannerInv'
    OBVIOUS
  <1>1. PlannerTypeOK /\ planner \in Planner
    BY InvIs DEF Good
  <1> DEFINE seen == planner.observed \/ (planner.commit # "none" /\ state' = "AVOID")
             p == [planner EXCEPT !.observed = seen]
  <1>2. planner' = p
    BY DEF OnState
  <1>3. seen \in BOOLEAN
    BY <1>1 DEF Planner
  <1> HIDE DEF seen
  <1>4. /\ p \in Planner /\ p.commit = planner.commit /\ p.handoff = planner.handoff
        /\ p.latched = planner.latched /\ p.out = planner.out /\ p.p3 = planner.p3
        /\ p.rear = planner.rear
    BY <1>1, <1>3 DEF Planner
  <1>5. PlannerTypeOK'
    BY <1>1, <1>2, <1>4 DEF OnState, PlannerTypeOK
  <1>6. reference' = reference /\ source' = source /\ odometry' = odometry
    BY DEF OnState
  <1> HIDE DEF p
  <1>7. QED
    BY <1>2, <1>4, <1>5, <1>6, KeepsInv

LEMMA ElapseKeeps == PlannerInv /\ Elapse => PlannerInv'
  <1> SUFFICES ASSUME PlannerInv, Elapse PROVE PlannerInv'
    OBVIOUS
  <1>1. PlannerTypeOK /\ planner \in Planner
    BY InvIs DEF Good
  <1>2. PICK deferred \in {planner.deferred}
                \cup IF planner.deferred = "running" THEN {"expired"} ELSE {} :
            planner' = [planner EXCEPT !.deferred = deferred]
    BY DEF Elapse
  <1> DEFINE p == [planner EXCEPT !.deferred = deferred]
  <1>3. deferred \in {"none", "running", "expired"}
    BY <1>1, <1>2 DEF Planner
  <1>4. /\ p \in Planner /\ p.commit = planner.commit /\ p.handoff = planner.handoff
        /\ p.latched = planner.latched /\ p.out = planner.out /\ p.p3 = planner.p3
        /\ p.rear = planner.rear
    BY <1>1, <1>3 DEF Planner
  <1>5. /\ reference' = reference /\ state' = state
        /\ odometry # "none" => odometry' # "none"
        /\ source # "none" => source' # "none"
        /\ odometry' \in {odometry, "stale"} /\ source' \in {source, "stale"}
    BY DEF Elapse
  <1>6. PlannerTypeOK'
    BY <1>1, <1>2, <1>4, <1>5 DEF PlannerTypeOK
  <1>7. planner' = p
    BY <1>2
  <1> HIDE DEF p
  <1>8. QED
    BY <1>4, <1>5, <1>6, <1>7, KeepsInv

LEMMA RegressedKeeps ==
    ASSUME PlannerInv, PlanningTimer, odometry = "regressed"
    PROVE  PlannerInv' /\ planner'.latched = planner.latched
  <1>1. PlannerTypeOK /\ planner \in Planner
    BY InvIs DEF Good
  <1>2. PICK ingress \in {"none", "newer", "restarted"} :
          /\ source' \in IF ingress = "none" THEN {source} ELSE {"fresh", "stale"}
          /\ UNCHANGED <<reference, state>>
          /\ odometry' \in {"fresh", "stale"}
          /\ planner' = [Drained(planner, ingress = "restarted" /\ source # "none")
                            EXCEPT !.p3 = FALSE]
    BY Zenon DEF PlanningTimer
  <1> DEFINE p == [planner EXCEPT !.p3 = FALSE]
  <1>3. planner' = p
    BY <1>1, <1>2 DEF Drained, Planner
  <1>4. /\ p \in Planner /\ p.commit = planner.commit /\ p.handoff = planner.handoff
        /\ p.latched = planner.latched /\ p.out = planner.out /\ ~p.p3
        /\ p.rear = planner.rear
    BY <1>1 DEF Planner
  <1>5. source' \in {"none", "fresh", "stale"} /\ (source # "none" => source' # "none")
    BY <1>1, <1>2 DEF PlannerTypeOK
  <1>6. PlannerTypeOK'
    BY <1>1, <1>2, <1>3, <1>4, <1>5 DEF PlannerTypeOK
  <1> HIDE DEF p
  <1>7. QED
    BY <1>2, <1>3, <1>4, <1>5, <1>6, KeepsInv

LEMMA TimerKeeps == PlannerInv /\ PlanningTimer => PlannerInv'
  <1> SUFFICES ASSUME PlannerInv, PlanningTimer, odometry # "regressed"
               PROVE  PlannerInv'
    BY RegressedKeeps
  <1>1. /\ Settled(planner) /\ source' \in {"none", "fresh", "stale"}
        /\ reference' = reference /\ state' = state /\ odometry' = odometry
    BY CycleSettles
  <1>2. PlannerTypeOK'
    BY <1>1 DEF PlannerInv, PlannerTypeOK, Settled, Good
  <1>3. QED
    BY <1>1, <1>2, InvIsPrimed DEF Settled, Inputs

LEMMA NextKeeps == PlannerInv /\ [Next]_vars => PlannerInv'
  <1> SUFFICES ASSUME PlannerInv, [Next]_vars PROVE PlannerInv'
    OBVIOUS
  <1>1. CASE OnGlobalWaypoints
    BY <1>1, WaypointsKeep
  <1>2. CASE OnFrenetOdometry
    BY <1>2, OdometryKeeps
  <1>3. CASE OnState
    BY <1>3, StateKeeps
  <1>4. CASE Elapse
    BY <1>4, ElapseKeeps
  <1>5. CASE PlanningTimer
    BY <1>5, TimerKeeps
  <1>6. CASE UNCHANGED vars
    <2>1. UNCHANGED <<planner, reference, odometry, source, state>>
      BY <1>6 DEF vars
    <2>2. QED
      BY <2>1, InvIs, InvIsPrimed DEF PlannerTypeOK, UsedHasInputs
  <1>7. QED
    BY <1>1, <1>2, <1>3, <1>4, <1>5, <1>6 DEF Next

\* The inductive invariant of the planning cycle: one authority over the path, a
\* stop on every publication under a latch, and no memory without inputs.
THEOREM PlannerInvariance == Spec => []PlannerInv
  BY InitEstablishes, NextKeeps, PTL DEF Spec

\* The members keep their types.
THEOREM PlannerTypes == Spec => []PlannerTypeOK
  <1>1. PlannerInv => PlannerTypeOK
    BY DEF PlannerInv
  <1>2. QED
    BY PlannerInvariance, <1>1, PTL

\* Handoff loop, latched stop and P3 manoeuvre exclude each other.
THEOREM OneAuthorityAlways == Spec => []OneAuthority
  <1>1. PlannerInv => OneAuthority
    BY DEF PlannerInv
  <1>2. QED
    BY PlannerInvariance, <1>1, PTL

\* While the stop is latched, the path last published does not drive.
THEOREM LatchedMeansStopAlways == Spec => []LatchedMeansStop
  <1>1. PlannerInv => LatchedMeansStop
    BY DEF PlannerInv
  <1>2. QED
    BY PlannerInvariance, <1>1, PTL

\* The path has one owner, and what is published is the owner's, whatever the cycle,
\* the gate or a callback did last.
THEOREM PathHasOneOwnerAlways == Spec => []PathHasOneOwner
  <1>1. OneAuthority /\ LatchedMeansStop => PathHasOneOwner
    BY DEF PathHasOneOwner
  <1>2. QED
    BY OneAuthorityAlways, LatchedMeansStopAlways, <1>1, PTL

\* What LatchIsReleased says of a step.
Released ==
    planner.latched /\ ~planner'.latched =>
        \/ planner'.out = [path |-> "loop", mark |-> TRUE]
        \/ planner'.out.path = "avoid" /\ state = "AVOID"
        \/ planner'.commit = "none" /\ ~planner'.p3 /\ planner'.out = planner.out

LEMMA NextReleases == PlannerInv /\ [Next]_vars => [Released]_vars
  <1> SUFFICES ASSUME PlannerInv, [Next]_vars PROVE [Released]_vars
    OBVIOUS
  <1>g. planner \in Planner
    BY InvIs DEF Good
  <1>1. CASE OnGlobalWaypoints
    BY <1>1, <1>g DEF Released, OnGlobalWaypoints, Cleared, Invalidated, Planner
  <1>2. CASE OnFrenetOdometry
    BY <1>2, <1>g DEF Released, OnFrenetOdometry, Planner
  <1>3. CASE OnState
    BY <1>3, <1>g DEF Released, OnState, Planner
  <1>4. CASE Elapse
    BY <1>4, <1>g DEF Released, Elapse, Planner
  <1>5. CASE PlanningTimer /\ odometry = "regressed"
    BY <1>5, RegressedKeeps DEF Released
  <1>6. CASE PlanningTimer /\ odometry # "regressed"
    <2>1. Settled(planner)
      BY <1>6, CycleSettles
    <2>2. QED
      BY <2>1 DEF Released, Settled, ReleasePath
  <1>7. CASE UNCHANGED vars
    BY <1>7
  <1>8. QED
    BY <1>1, <1>2, <1>3, <1>4, <1>5, <1>6, <1>7 DEF Next

\* No step drops a latched stop but a release of the ladder or a new race line.
THEOREM LatchReleased == Spec => LatchIsReleased
  BY PlannerInvariance, NextReleases, PTL DEF Spec, LatchIsReleased, Released

-----------------------------------------------------------------------------
(* The planner beside the state machine.                                     *)

LEMMA LoopStepIsPlanners == [LoopNext]_loopVars => [Next]_vars
  <1> SUFFICES ASSUME [LoopNext]_loopVars PROVE [Next]_vars
    OBVIOUS
  <1>1. CASE Alone
    BY <1>1 DEF Alone
  <1>2. CASE PlannerCycles
    BY <1>2 DEF PlannerCycles, Next
  <1>3. CASE PlannerLearnsState
    BY <1>3 DEF PlannerLearnsState, Next
  <1>4. CASE PlannerMoves
    BY <1>4 DEF PlannerMoves, Next
  <1>5. CASE StateMachineMoves \/ StateMachineLearnsPath \/ StateMachineCycles
    BY <1>5 DEF StateMachineMoves, StateMachineLearnsPath, StateMachineCycles
  <1>6. CASE UNCHANGED loopVars
    BY <1>6 DEF loopVars
  <1>7. QED
    BY <1>1, <1>2, <1>3, <1>4, <1>5, <1>6 DEF LoopNext

LEMMA TogetherEstablishes == LoopInit => PlannerInv
  <1> SUFFICES ASSUME Together PROVE PlannerInv
    BY InitEstablishes DEF LoopInit
  <1>1. planner \in Planner
    BY DEF Together, Planner, Guides, Paths
  <1>2. QED
    BY <1>1 DEF Together, PlannerInv, PlannerTypeOK, OneAuthority, HandoffOwnsLoop,
                StopSilencesP3, LatchedMeansStop, UsedHasInputs, Used

\* Whatever the state machine answers and whenever, the planner in the loop takes no
\* step but its own: what holds of every step of the planner holds of the loop.
THEOREM LoopStepsAreThePlanners == LoopSpec => [][Next]_vars
  BY LoopStepIsPlanners, PTL DEF LoopSpec

\* The state machine in the loop takes no step but its own either.
THEOREM LoopStepsAreTheStateMachines == LoopSpec => [][FSM!Next]_(FSM!vars)
  <1>1. UNCHANGED fsmVars => UNCHANGED FSM!vars
    BY DEF fsmVars, FSM!vars, FSM!inputs, FSM!path, FSM!fsm
  <1>2. [LoopNext]_loopVars => [FSM!Next]_(FSM!vars)
    <2> SUFFICES ASSUME [LoopNext]_loopVars PROVE [FSM!Next]_(FSM!vars)
      OBVIOUS
    <2>1. CASE Alone \/ PlannerCycles \/ PlannerLearnsState \/ PlannerMoves
      BY <2>1, <1>1 DEF Alone, PlannerCycles, PlannerLearnsState, PlannerMoves
    <2>2. CASE StateMachineMoves
      BY <2>2 DEF StateMachineMoves, FSM!Next
    <2>3. CASE StateMachineLearnsPath
      BY <2>3 DEF StateMachineLearnsPath, FSM!Next
    <2>4. CASE StateMachineCycles
      BY <2>4 DEF StateMachineCycles, FSM!Next
    <2>5. CASE UNCHANGED loopVars
      BY <2>5, <1>1 DEF loopVars
    <2>6. QED
      BY <2>1, <2>2, <2>3, <2>4, <2>5 DEF LoopNext
  <1>3. QED
    BY <1>2, PTL DEF LoopSpec

\* In the loop too, one authority owns the next publication, and a latched stop
\* publishes nothing that drives.
THEOREM LoopKeepsAuthority == LoopSpec => [](PlannerTypeOK /\ PathHasOneOwner)
  <1>1. PlannerInv => PlannerTypeOK /\ PathHasOneOwner
    BY DEF PlannerInv, PathHasOneOwner
  <1>2. QED
    BY TogetherEstablishes, LoopStepIsPlanners, NextKeeps, <1>1, PTL DEF LoopSpec

\* In the loop too, only a release of the ladder or a new race line ends the stop.
THEOREM LoopReleasesLatch == LoopSpec => LatchIsReleased
  BY TogetherEstablishes, LoopStepIsPlanners, NextKeeps, NextReleases, PTL
     DEF LoopSpec, LatchIsReleased, Released
=============================================================================
