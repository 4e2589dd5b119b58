------------------------------ MODULE P3Search ------------------------------
(***************************************************************************)
(* The P3 evaluator of the local planner (P3ShadowEvaluator::run): the     *)
(* bounded search for a path around one cluster.  RIGHT, then LEFT, offer  *)
(* entry scales at both ends of their range and bisect between two         *)
(* rejections that point at each other; when neither side has a hard-valid *)
(* candidate the M0 extension templates and then the M1 templates spend    *)
(* what the candidate budget has left; a strict run that recovers nothing  *)
(* is repeated with the relaxed clearance gate.                            *)
(*                                                                         *)
(* A candidate is its verdict: its rank (1 the best) when the validator    *)
(* passes it, otherwise the direction its rejection steers the entry scale *)
(* in.  `terrain` is what the validator would say: entries below lo need a *)
(* longer ramp, those above hi a shorter one.  Root solving is a choice of *)
(* how many roots are accepted.  Scales are cells of a grid, one cell      *)
(* standing for kEpsilon.                                                  *)
(***************************************************************************)
EXTENDS Integers

CONSTANTS
    FrozenCap,     \* kFrozenCandidateCap
    ExtensionCap,  \* kM0ExtensionCandidateCap
    TotalCap,      \* kTotalCandidateCap
    Exits,         \* number of exit scales of a side
    Roots,         \* largest number of roots a solve accepts
    Ranks,         \* ranks a hard-valid candidate can have
    MaxContexts,   \* largest number of (side, component) contexts
    Grid           \* the entry scales are 0 (short) to Grid (long)

ASSUME P3SearchAssumption ==
    /\ FrozenCap \in Nat /\ ExtensionCap \in Nat /\ TotalCap \in Nat
    /\ FrozenCap <= TotalCap
    /\ Exits \in Nat \ {0} /\ Roots \in Nat \ {0} /\ Ranks \in Nat \ {0}
    /\ MaxContexts \in Nat \ {0} /\ Grid \in Nat \ {0}

Longer   == -1   \* EntrySteer::kNeedsLongerRamp
Shorter  == -2   \* EntrySteer::kNeedsShorterRamp
Unknown  == 0    \* EntrySteer::kUnknown, or no candidate
Verdict  == -2..Ranks
SideStages == {"RIGHT", "LEFT"}
Unsolved == -1

VARIABLES
    attempt,   \* strict, then relaxed
    stage,     \* RIGHT, LEFT, EXTENSION, M1, DONE, or FAILED: an invariant threw
    at,        \* what is offered now
    turn,      \* the exit scale (sides) or the context (EXTENSION, M1) in turn
    roots,     \* roots of the current solve still to try
    domains,   \* the sides with a valid domain
    contexts,  \* number of contexts of the families after the sides
    terrain,   \* of the current side
    lower, upper,  \* the bracket of the bisection
    pool,      \* candidates of the current stage
    m0,        \* candidates the result already reports
    m0best,    \* rank of the best of them
    selected,  \* rank of the selected candidate
    found,     \* history: ranks of the hard-valid candidates of this attempt
    aborted    \* history: a non-positive segment aborted M0 in this attempt

searchVars == <<attempt, stage, at, turn, roots, domains, contexts, terrain, lower, upper,
          pool, m0, m0best, selected, found, aborted>>
scales == <<lower, upper>>
result == <<m0, m0best, selected>>

Empty == [size |-> 0, best |-> Unknown, steer |-> Unknown,
          low |-> FALSE, high |-> FALSE, capped |-> FALSE]
Pools == [size : 0..TotalCap, best : 0..Ranks, steer : {Unknown, Longer, Shorter},
          low : BOOLEAN, high : BOOLEAN, capped : BOOLEAN]

Terrain   == [lo : 0..Grid, hi : 0..Grid, rigid : BOOLEAN]
Flat      == [lo |-> 0, hi |-> 0, rigid |-> FALSE]
Offers    == {"short", "long", "bisect", "rest"}
Templates == {"inset", "long", "center", "quarter", "analytic",
              "boundary", "span", "near", "far", "bisect"}

P3SearchTypeOK ==
    /\ attempt \in {"strict", "relaxed"}
    /\ stage \in SideStages \cup {"EXTENSION", "M1", "DONE", "FAILED"}
    /\ at \in {"enter", "leave"} \cup Offers \cup Templates
    /\ turn \in 1..(Exits + MaxContexts) /\ roots \in Unsolved..(Roots + 1)
    /\ domains \subseteq SideStages /\ contexts \in 1..MaxContexts
    /\ terrain \in Terrain
    /\ lower \in 0..Grid /\ upper \in 0..Grid
    /\ pool \in Pools /\ (stage \in SideStages => pool.size <= FrozenCap)
    /\ m0 \in 0..(FrozenCap + ExtensionCap) /\ m0best \in 0..Ranks
    /\ selected \in 0..Ranks
    /\ found \subseteq 1..Ranks /\ aborted \in BOOLEAN

-----------------------------------------------------------------------------
\* betterFeasible: a smaller rank; an equal one keeps the earlier candidate.
Better(rank, best) == rank > 0 /\ (best = Unknown \/ rank < best)

Lesser(a, b) == IF a < b THEN a ELSE b

\* Mutants of Cap: a side takes one more; the extension keeps its own cap, whatever the sides used.
CapOneMore == IF stage \in SideStages THEN FrozenCap + 1 ELSE TotalCap - m0
CapOfFamily == IF stage \in SideStages THEN FrozenCap
               ELSE IF stage = "EXTENSION" THEN ExtensionCap ELSE TotalCap - m0

\* How many candidates the family at work may build.
Cap == IF stage \in SideStages THEN FrozenCap
       ELSE IF stage = "EXTENSION" THEN Lesser(ExtensionCap, TotalCap - m0)
       ELSE TotalCap - m0

Middle == (lower + upper) \div 2

\* The entry scale of what is offered.
Entry == CASE at \in {"short", "boundary"}               -> 0
           [] at \in {"quarter", "analytic", "span", "far"} -> Grid \div 4
           [] at \in {"bisect", "rest"}                  -> Middle
           [] OTHER                                      -> Grid

\* validateP3ShadowPath and classifyEntrySteer.  The terrain is the one of a side;
\* elsewhere the templates move more than the entry and any verdict is possible.
Verdicts ==
    IF stage \notin SideStages THEN Verdict
    ELSE {v \in Verdict : \/ v = Unknown
                          \/ v = Longer /\ Entry < terrain.lo
                          \/ v = Shorter /\ Entry > terrain.hi
                          \/ v > 0 /\ Entry \in terrain.lo..terrain.hi}

\* The bracket is seen on the ends of a side's range, in the extension on its two
\* entry scales, in M1 on any two candidates.
LowEnd  == at = "short" \/ (stage = "EXTENSION" /\ Entry = Grid \div 4) \/ stage = "M1"
HighEnd == stage \in {"EXTENSION", "M1"} /\ (stage = "M1" \/ Entry = Grid)

\* Whether the rejections of this offer steer: an end of a side's range, or a probe.
Steering == stage \in SideStages \/ at = "bisect"

Steered(steer, v) == IF steer = Unknown /\ v < 0 THEN v ELSE steer

\* buildCandidate and the bookkeeping around it.
Built(v) == [pool EXCEPT
    !.size  = @ + 1,
    !.best  = IF Better(v, @) THEN v ELSE @,
    !.steer = IF Steering THEN Steered(@, v) ELSE @,
    !.low   = @ \/ (stage \notin SideStages /\ LowEnd /\ v = Longer),
    !.high  = @ \/ (HighEnd /\ v = Shorter)]

\* The last exit scale of an offer: the bisection probes one, the rest follows.
LastTurn == IF stage \in SideStages /\ at # "bisect" THEN Exits
            ELSE IF stage \in SideStages THEN 1 ELSE turn

\* How many roots a template or an exit scale may have accepted.
RootCounts == IF stage \in SideStages \/ at = "analytic" THEN 0..Roots
              ELSE IF at \in {"near", "far"} \/ (stage = "M1" /\ at = "bisect")
              THEN 0..(Roots + 1) ELSE {0, 1}
-----------------------------------------------------------------------------
Finish(rank) ==
    /\ selected' = rank
    /\ stage' = "DONE" /\ at' = "leave" /\ pool' = Empty
    /\ turn' = 1 /\ roots' = Unsolved
    /\ contexts' = 1 /\ terrain' = Flat /\ lower' = 0 /\ upper' = Grid
    /\ UNCHANGED <<attempt, domains, m0, m0best, found, aborted>>

\* evaluateM1, with the budget M0 left.
EnterM1(count) ==
    /\ m0' = count /\ m0best' = Unknown
    /\ terrain' = Flat
    /\ stage' = IF count > TotalCap THEN "FAILED" ELSE "M1"
    /\ at' = "boundary" /\ turn' = 1 /\ roots' = Unsolved /\ pool' = Empty
    /\ lower' = 0 /\ upper' = Grid

\* "non-positive quintic-Hermite segment": M0 as a whole offers nothing.
Abort ==
    /\ aborted' = TRUE
    /\ EnterM1(0)
    /\ contexts' \in 1..MaxContexts
    /\ UNCHANGED <<attempt, domains, selected, found>>

\* evaluateSide, its early returns: no domain, or a corridor that is not connected.
EnterSide ==
    /\ stage \in SideStages /\ at = "enter"
    /\ \/ at' = "leave" /\ UNCHANGED terrain
       \/ stage \in domains /\ at' = "short" /\ terrain' \in Terrain
    /\ UNCHANGED <<attempt, stage, turn, roots, domains, contexts, scales, pool, result,
                   found, aborted>>

\* The next exit scale or template, its stations and its roots.  A degenerate side
\* throws at once, a template of the extension when its own target degenerates.
Solve ==
    /\ at \notin {"enter", "leave"} /\ roots = Unsolved /\ turn <= LastTurn
    /\ \/ /\ (stage \in SideStages => ~terrain.rigid)
          /\ roots' \in RootCounts
          /\ UNCHANGED <<attempt, stage, at, turn, domains, contexts, terrain, scales, pool,
                         result, found, aborted>>
       \/ /\ (stage \in SideStages /\ terrain.rigid) \/ stage = "EXTENSION"
          /\ Abort

\* An accepted root: built and validated, unless the family is at its cap or the
\* tuple was offered before.  A side stops there, the other families go on.
TryRoot ==
    /\ roots > 0
    /\ IF pool.size >= Cap
       THEN /\ roots' = 0
            /\ pool' = [pool EXCEPT !.capped = stage \in SideStages]
            /\ UNCHANGED found
       ELSE /\ roots' = roots - 1
            /\ \E v \in Verdicts : /\ pool' = Built(v)
                                   /\ found' = found \cup ({v} \cap 1..Ranks)
    /\ UNCHANGED <<attempt, stage, at, turn, domains, contexts, terrain, scales, result,
                   aborted>>

NextExit ==
    /\ stage \in SideStages /\ roots = 0 /\ turn < LastTurn /\ ~pool.capped
    /\ turn' = turn + 1 /\ roots' = Unsolved
    /\ UNCHANGED <<attempt, stage, at, domains, contexts, terrain, scales, pool, result,
                   found, aborted>>

Offered == roots = 0 /\ (pool.capped \/ turn >= LastTurn)

\* Go on with `where`, from exit or context `first`.
Go(where, first) == /\ at' = where /\ turn' = first /\ roots' = Unsolved
                    /\ UNCHANGED <<attempt, stage, domains, contexts, terrain, result,
                                   found, aborted>>

\* offer_entry(entry_short), then offer_entry(entry_long).
ShortOffered ==
    /\ stage \in SideStages /\ at = "short" /\ Offered
    /\ IF pool.capped THEN Go("leave", 1) ELSE Go("long", 1)
    /\ pool' = [pool EXCEPT !.low = pool.steer = Longer, !.steer = Unknown]
    /\ UNCHANGED scales

Bracketed == pool.low /\ pool.high /\ pool.best = Unknown

\* The loop condition of a side: room for the probe and for the exits that follow.
SideHasRoom == pool.size + Exits <= FrozenCap

LongOffered ==
    /\ stage \in SideStages /\ at = "long" /\ Offered
    /\ LET high == pool.steer = Shorter
       IN /\ pool' = [pool EXCEPT !.high = high, !.steer = Unknown]
          /\ lower' = 0 /\ upper' = Grid
          /\ IF ~pool.capped /\ pool.low /\ high /\ pool.best = Unknown
                /\ SideHasRoom /\ Grid > 1
             THEN Go("bisect", 1) ELSE Go("leave", 1)

\* Mutants of Narrowed: the wrong half is kept; an inconclusive probe is repeated.
NarrowedAway(steer) == IF steer = Shorter THEN <<Middle, upper>>
                       ELSE IF steer = Longer THEN <<lower, Middle>> ELSE <<>>
NarrowedOrKept(steer) == IF steer = Longer THEN <<Middle, upper>>
                         ELSE IF steer = Shorter THEN <<lower, Middle>> ELSE <<lower, upper>>

\* The half of the bracket a rejection leaves; none when it steers nowhere.
Narrowed(steer) == IF steer = Longer THEN <<Middle, upper>>
                   ELSE IF steer = Shorter THEN <<lower, Middle>> ELSE <<>>

\* A probe of a side: spread the exits over a scale that passed, halve the bracket,
\* or give up.
SideProbed ==
    /\ stage \in SideStages /\ at = "bisect" /\ Offered
    /\ LET half == Narrowed(pool.steer)
       IN \/ /\ pool.best > 0 /\ ~pool.capped /\ Exits > 1
             /\ Go("rest", 2) /\ UNCHANGED <<pool, scales>>
          \/ /\ pool.best = Unknown /\ half # <<>> /\ ~pool.capped
             /\ lower' = half[1] /\ upper' = half[2]
             /\ pool' = [pool EXCEPT !.steer = Unknown]
             /\ IF SideHasRoom /\ half[2] - half[1] > 1
                THEN Go("bisect", 1) ELSE Go("leave", 1)
          \/ /\ pool.capped \/ (pool.best = Unknown /\ half = <<>>)
                \/ (pool.best > 0 /\ Exits = 1)
             /\ Go("leave", 1) /\ UNCHANGED <<pool, scales>>

RestOffered ==
    /\ stage \in SideStages /\ at = "rest" /\ Offered
    /\ Go("leave", 1) /\ UNCHANGED <<pool, scales>>

\* The baseline of run(): RIGHT first, LEFT when RIGHT has no domain, or when LEFT
\* alone has a candidate or a better one.
LeaveRight ==
    /\ stage = "RIGHT" /\ at = "leave"
    /\ stage' = "LEFT" /\ at' = "enter" /\ turn' = 1 /\ roots' = Unsolved
    /\ m0' = pool.size /\ m0best' = pool.best
    /\ pool' = Empty /\ terrain' = Flat /\ lower' = 0 /\ upper' = Grid
    /\ UNCHANGED <<attempt, domains, contexts, selected, found, aborted>>

\* Mutant of LeftTakesOver: a domain is enough for RIGHT to stay the baseline.
LeftTakesOverOnDomain == "LEFT" \in domains /\ "RIGHT" \notin domains

LeftTakesOver == /\ "LEFT" \in domains
                 /\ "RIGHT" \notin domains \/ Better(pool.best, m0best)

LeaveLeft ==
    /\ stage = "LEFT" /\ at = "leave"
    /\ LET size == IF LeftTakesOver THEN pool.size ELSE m0
           best == IF LeftTakesOver THEN pool.best ELSE m0best
       IN IF domains = {} \/ best > 0 THEN Finish(best)
          ELSE /\ stage' = "EXTENSION" /\ at' = "inset" /\ turn' = 1 /\ roots' = Unsolved
               /\ m0' = size /\ m0best' = best
               /\ pool' = Empty
               /\ lower' = 0 /\ upper' = Grid /\ terrain' = Flat
               /\ contexts' \in 1..MaxContexts
               /\ UNCHANGED <<attempt, domains, selected, found, aborted>>

ExtensionOrder == [inset |-> "long", long |-> "center", center |-> "quarter",
                   quarter |-> "analytic"]

\* The end of the extension: a candidate, or M1 with what is left.
LeaveExtension ==
    IF pool.best > 0 THEN Finish(pool.best)
    ELSE /\ EnterM1(m0 + pool.size)
         /\ UNCHANGED <<attempt, domains, contexts, selected, found, aborted>>

\* The templates of one context in turn, its bisection, then the next context.
ExtensionOffered ==
    /\ stage = "EXTENSION" /\ at # "bisect" /\ roots = 0
    /\ IF at # "analytic"
       THEN Go(ExtensionOrder[at], turn) /\ UNCHANGED <<pool, scales>>
       ELSE IF Bracketed /\ pool.size < Cap /\ Grid - Grid \div 4 > 1
       THEN /\ Go("bisect", turn) /\ pool' = [pool EXCEPT !.steer = Unknown]
            /\ lower' = Grid \div 4 /\ upper' = Grid
       ELSE IF turn < contexts /\ pool.size < Cap
       THEN Go("inset", turn + 1) /\ UNCHANGED <<pool, scales>>
       ELSE LeaveExtension

\* What a probe of the extension or of M1 leaves to bisect.
ProbeContinues ==
    /\ pool.best = Unknown /\ Narrowed(pool.steer) # <<>> /\ pool.size < Cap
    /\ Narrowed(pool.steer)[2] - Narrowed(pool.steer)[1] > 1

Rebisect == /\ lower' = Narrowed(pool.steer)[1] /\ upper' = Narrowed(pool.steer)[2]
            /\ pool' = [pool EXCEPT !.steer = Unknown]
            /\ Go("bisect", turn)

ExtensionProbed ==
    /\ stage = "EXTENSION" /\ at = "bisect" /\ roots = 0
    /\ IF ProbeContinues THEN Rebisect
       ELSE IF turn < contexts /\ pool.size < Cap
       THEN Go("inset", turn + 1) /\ UNCHANGED <<pool, scales>>
       ELSE LeaveExtension

M1Order == [boundary |-> "span", span |-> "near", near |-> "far"]

LeaveM1 == IF m0 + pool.size > TotalCap
           THEN /\ stage' = "FAILED"
                /\ UNCHANGED <<attempt, at, turn, roots, domains, contexts, terrain, scales,
                               pool, result, found, aborted>>
           ELSE Finish(pool.best)

\* One template over all contexts, then the next one, then the bisections.
M1Offered ==
    /\ stage = "M1" /\ at # "bisect" /\ roots = 0
    /\ IF turn < contexts THEN Go(at, turn + 1) /\ UNCHANGED <<pool, scales>>
       ELSE IF at # "far" THEN Go(M1Order[at], 1) /\ UNCHANGED <<pool, scales>>
       ELSE IF Bracketed /\ pool.size < Cap /\ Grid > 1
       THEN /\ Go("bisect", 1) /\ pool' = [pool EXCEPT !.steer = Unknown]
            /\ lower' = 0 /\ upper' = Grid
       ELSE LeaveM1

M1Probed ==
    /\ stage = "M1" /\ at = "bisect" /\ roots = 0
    /\ IF ProbeContinues THEN Rebisect
       ELSE IF turn < contexts /\ pool.best = Unknown /\ pool.size < Cap
       THEN /\ Go("bisect", turn + 1) /\ pool' = [pool EXCEPT !.steer = Unknown]
            /\ lower' = 0 /\ upper' = Grid
       ELSE LeaveM1

Start(sides) ==
    /\ stage' = "RIGHT" /\ at' = "enter" /\ turn' = 1 /\ roots' = Unsolved
    /\ domains' = sides
    /\ pool' = Empty /\ m0' = 0 /\ m0best' = Unknown /\ selected' = Unknown
    /\ found' = {} /\ aborted' = FALSE
    /\ UNCHANGED <<contexts, terrain, scales>>

\* evaluateP3ShadowUnguarded: the relaxed gate only after a strict run in vain.  It
\* widens what is considered: a side with a domain keeps one.
Retry ==
    /\ stage = "DONE" /\ attempt = "strict" /\ selected = Unknown
    /\ attempt' = "relaxed"
    /\ \E sides \in SUBSET SideStages : domains \subseteq sides /\ Start(sides)

P3SearchInit ==
    /\ attempt = "strict" /\ stage = "RIGHT" /\ at = "enter" /\ turn = 1
    /\ roots = Unsolved
    /\ domains \in SUBSET SideStages /\ contexts = 1
    /\ terrain = Flat
    /\ lower = 0 /\ upper = Grid
    /\ pool = Empty /\ m0 = 0 /\ m0best = Unknown /\ selected = Unknown
    /\ found = {} /\ aborted = FALSE

P3SearchNext ==
    \/ EnterSide \/ Solve \/ TryRoot \/ NextExit \/ ShortOffered \/ LongOffered
    \/ SideProbed \/ RestOffered \/ LeaveRight \/ LeaveLeft
    \/ ExtensionOffered \/ ExtensionProbed \/ M1Offered \/ M1Probed \/ Retry

\* One call: it runs to its end.
P3SearchSpec == P3SearchInit /\ [][P3SearchNext]_searchVars /\ WF_searchVars(P3SearchNext)
-----------------------------------------------------------------------------
\* No internal budget check of the evaluator throws: whatever the sides spent, the
\* families after them stay within kTotalCandidateCap.  (evaluateP3Shadow would turn
\* the throw into "no path found".)
BudgetKept == stage # "FAILED"

\* The bisection never loses what it looks for: as long as a side narrows its
\* bracket, the entry scales the validator would pass lie strictly inside it.
BracketKept ==
    stage \in SideStages /\ at = "bisect" /\ terrain.lo <= terrain.hi =>
        lower < terrain.lo /\ terrain.hi < upper

\* A candidate the validator passed is not lost between the sides, the families and
\* the result: unless a degenerate segment aborted M0, the selected candidate is at
\* least as good as every hard-valid one of the attempt.
BestIsOffered ==
    stage = "DONE" /\ ~aborted => \A rank \in found : selected \in 1..rank

\* The search ends, whatever the validator answers: the planning timer gets a result.
SearchEnds == <>[](stage \in {"DONE", "FAILED"})

\* The search ends within its budget and with the best it has found.
SearchIsSound ==
    [](P3SearchTypeOK /\ BudgetKept /\ BracketKept /\ BestIsOffered) /\ SearchEnds
=============================================================================
