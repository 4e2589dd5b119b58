----------------------------- MODULE LocalPaths -----------------------------
(***************************************************************************)
(* The three stages a local path goes through, for the model checker: the  *)
(* search of the P3 evaluator, the race-line planner that validates and    *)
(* answers with what the search found (or stops), and the speed profile of *)
(* the answer.  Each is one call and takes what the stage before it found  *)
(* as a choice, so that a behaviour runs one of them and leaves the other  *)
(* two at rest.                                                            *)
(***************************************************************************)
EXTENDS P3Search, SplinePlanner, SpeedProfile

VARIABLE part

pathVars == <<part, searchVars, splineVars, profileVars>>

\* One box on the line, one left of it, and one that reaches from the right wall over it.
OnBesideAcross == {[right |-> -1, left |-> 0], [right |-> 2, left |-> 3], [right |-> -6, left |-> 1]}

\* No search has been asked for.
NoSearch ==
    /\ attempt = "relaxed" /\ stage = "DONE" /\ at = "leave" /\ turn = 1 /\ roots = Unsolved
    /\ domains = {} /\ contexts = 1 /\ terrain = Flat /\ lower = 0 /\ upper = Grid
    /\ pool = Empty /\ m0 = 0 /\ m0best = Unknown /\ selected = Unknown
    /\ found = {} /\ aborted = FALSE

\* No obstacle has been reported.
SplineAtRest ==
    /\ box = [i \in Obstacles |-> [at |-> 0, right |-> 0, left |-> 0]] /\ seen = {}
    /\ pose = [s |-> 0, d |-> 0] /\ answer = Unanswered("LINE", {})
    /\ fresh = FALSE /\ slipped = FALSE

\* No path is being given its speeds.
ProfileAtRest ==
    /\ pass = "CAP" /\ line = [i \in Cells |-> Highest] /\ path = line /\ ego = Min(EgoSpeeds)
    /\ first = Nowhere /\ last = Nowhere /\ room = 0 /\ raw = NoRaw
    /\ contact = Nowhere /\ car = 0 /\ moving = 0

LocalPathsInit ==
    \/ part = "search" /\ P3SearchInit /\ SplineAtRest /\ ProfileAtRest
    \/ part = "spline" /\ NoSearch /\ SplineInit /\ ProfileAtRest
    \/ part = "profile" /\ NoSearch /\ SplineAtRest /\ SpeedProfileInit

Search  == part = "search" /\ P3SearchNext /\ UNCHANGED <<part, splineVars, profileVars>>
Spline  == part = "spline" /\ SplineNext /\ UNCHANGED <<part, searchVars, profileVars>>
Profile == part = "profile" /\ SpeedProfileNext /\ UNCHANGED <<part, searchVars, splineVars>>

LocalPathsNext == Search \/ Spline \/ Profile

\* The fairness of the search: one call, it runs to its end.
LocalPathsSpec ==
    LocalPathsInit /\ [][LocalPathsNext]_pathVars /\ WF_pathVars(Search)

=============================================================================
