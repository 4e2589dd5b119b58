------------------------- MODULE LongitudinalGuards -------------------------
(* The two guards on the car's speed, for the model checker: the cruise      *)
(* controller (behind an opponent) and the launch guard of the map           *)
(* controller (from a standstill).  They share no state, so that a behaviour *)
(* runs one of them and leaves the other at rest.                            *)
EXTENDS CruiseControllerHistory, HfiLaunchGuardHistory

VARIABLE part

GuardsInit ==
  /\ part \in {"cruise", "launch"} /\ CHInit /\ HHInit
  /\ part # "cruise" => gap.error = 0 /\ ~gap.critical

Cruising  == part = "cruise" /\ CHNext /\ UNCHANGED <<part, hhvars>>
Launching == part = "launch" /\ HHNext /\ UNCHANGED <<part, chvars>>

GuardsNext == Cruising \/ Launching

\* Both nodes keep serving their timers.
GuardsSpec ==
  /\ GuardsInit /\ [][GuardsNext]_<<part, chvars, hhvars>>
  /\ WF_cvars(part = "cruise" /\ OnTimer)
  /\ WF_hvars(part = "launch" /\ FreshCycle)
=============================================================================
