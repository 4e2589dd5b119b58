---------------------------- MODULE SafeStopPromise ----------------------------
(***************************************************************************)
(* What a safe stop promises to the rest of the stack, whatever evidence   *)
(* it is built on: as long as it is latched the planner publishes stops    *)
(* only, and it ends in one of three ways.                                 *)
(***************************************************************************)
VARIABLES
    latched,     \* the safe stop has the planner's output
    passed,      \* ego has driven past the danger region
    stopped,     \* ego stands
    selectable,  \* /state is STATE_AVOID: an avoidance would be driven
    output       \* what the last planning cycle published

pvars == <<latched, passed, stopped, selectable, output>>

PromiseInit == ~latched

\* The world and the planner's inputs change.
WorldChanges == UNCHANGED <<latched, output>>

\* The planner runs without a latch, or latches.
Unlatched == ~latched /\ (latched' => output' = "stop")

StaysLatched == latched /\ latched' /\ output' = "stop"

LeavesForAvoidance ==
    /\ latched /\ ~latched'
    /\ selectable
    /\ output' = "avoidance"

LeavesForRaceLine ==
    /\ latched /\ ~latched'
    /\ passed \/ stopped
    /\ output' = "handoff"

\* Another race line voids everything that was planned on the old one.
ReferenceReplaced == ~latched' /\ output' = output

PromiseNext ==
    \/ WorldChanges
    \/ Unlatched
    \/ StaysLatched
    \/ LeavesForAvoidance
    \/ LeavesForRaceLine
    \/ ReferenceReplaced

PromiseSpec == PromiseInit /\ [][PromiseNext]_pvars
=============================================================================
