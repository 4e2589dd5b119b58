---------------------------- MODULE MapController ---------------------------
(***************************************************************************)
(* control_map_node as a whole, for the model checker: its speed command,  *)
(* its sector scales and its path tracker.  Each of them keeps state of    *)
(* its own and takes what the others give it as a choice (the speed asked  *)
(* for, the freshness of the paths), so that a behaviour runs one of them  *)
(* and leaves the other two at rest.                                       *)
(***************************************************************************)
EXTENDS SpeedCommand, SectorScale, PathTracker

VARIABLE part

MapControllerInit ==
    /\ part \in {"speed", "sector", "tracker"}
    /\ SpeedCommandInit /\ SectorScaleInit /\ PathTrackerInit

Speed   == part = "speed" /\ SpeedCommandNext /\ UNCHANGED <<part, sectorVars, trackerVars>>
Sector  == part = "sector" /\ SectorScaleNext /\ UNCHANGED <<part, speedVars, trackerVars>>
Tracker == part = "tracker" /\ PathTrackerNext /\ UNCHANGED <<part, speedVars, sectorVars>>

MapControllerNext == Speed \/ Sector \/ Tracker

\* The fairness of the three specifications.
MapControllerSpec ==
    /\ MapControllerInit /\ [][MapControllerNext]_<<part, speedVars, sectorVars, trackerVars>>
    /\ WF_speedVars(part = "speed" /\ ControlLoop)
    /\ WF_sectorVars(part = "sector" /\ Deadman)
    /\ WF_sectorVars(part = "sector" /\ OnGlobalPath)
    /\ WF_sectorVars(part = "sector" /\ LocalExpires)
    /\ WF_trackerVars(part = "tracker" /\ FollowPath)

-----------------------------------------------------------------------------
\* A source that has fallen silent, the cruise controller, the sector table or the
\* state machine, costs the speed it had allowed (the timeouts of control_map_node).
SilenceIsSafe == SilenceSlows /\ SilentTableUnscales /\ SilentStateUnscales
=============================================================================
