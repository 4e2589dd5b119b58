----------------------------- MODULE SectorScale ----------------------------
(***************************************************************************)
(* The sector scales of control_map_node: a table of raised lateral        *)
(* accelerations for one global line, resolved into the waypoints when a   *)
(* message arrives and left there until something resolves them anew, a    *)
(* deadman timer among it.                                                 *)
(*                                                                         *)
(* Messages are fresh or stale and may turn stale at any time.  An array   *)
(* of waypoints is raised or not.                                          *)
(***************************************************************************)
CONSTANT Lines        \* global lines, told apart by their length

ASSUME SectorScaleAssumption == "none" \notin Lines

VARIABLES
    line,        \* the global line in waypoints_, "none" before the first
    local,       \* local_waypoints_ is not empty
    localFresh,  \* it is younger than local_fresh_timeout
    table,       \* the line the sector table is for, "none" before the first table
    tableFresh,  \* it is younger than sector_scale_timeout
    watched,     \* sector_table_fresh_prev_
    fits,        \* sector_len_ok_
    state,       \* the last /state: "unseen", "global" or "avoid"
    stateFresh,  \* it is younger than sector_scale_state_timeout
    raised       \* by source: its waypoints carry the scales of the table

lines      == <<line, local, localFresh>>
sector     == <<table, tableFresh, watched, fits>>
stateVars      == <<state, stateFresh>>
sectorVars == <<lines, sector, stateVars, raised>>

Sources == {"local", "global"}

SectorScaleTypeOK ==
    /\ line \in Lines \cup {"none"}
    /\ local \in BOOLEAN /\ localFresh \in BOOLEAN
    /\ table \in Lines \cup {"none"} /\ tableFresh \in BOOLEAN
    /\ watched \in BOOLEAN /\ fits \in BOOLEAN
    /\ state \in {"unseen", "global", "avoid"} /\ stateFresh \in BOOLEAN
    /\ raised \in [Sources -> BOOLEAN]
    /\ raised["local"] => local
    /\ table = "none" => ~tableFresh
    /\ fits => table = line

-----------------------------------------------------------------------------
\* Mutant of SectorActive: the last state counts however old it is.
ActiveOnOldState(t, tFresh, ok, s, sFresh) == t # "none" /\ ok /\ tFresh /\ s = "global"

\* sector_active: on only when everything about it is known.
SectorActive(t, tFresh, ok, s, sFresh) ==
    t # "none" /\ ok /\ tFresh /\ s = "global" /\ sFresh

\* apply_sector_scales on both arrays.
BothScaled(active) ==
    [source \in Sources |-> active /\ (IF source = "local" THEN local ELSE line # "none")]

\* sector_scale_callback: a valid table replaces the last one.
OnSectorTable ==
    /\ table' \in Lines /\ tableFresh' = TRUE
    /\ fits' = (IF line = "none" THEN fits ELSE line = table')
    /\ raised' = BothScaled(SectorActive(table', TRUE, fits', state, stateFresh))
    /\ UNCHANGED <<lines, watched, stateVars>>

\* Mutant of WasGlobal: read after the new state was stored.
WasGlobalAfter(said) == said = "global"

\* What the arrays were last resolved for.
WasGlobal(said) == state = "global"

\* The /state subscription resolves the scales again when GLOBAL begins or ends.
OnState ==
    /\ state' \in {"global", "avoid"} /\ stateFresh' = TRUE
    /\ raised' = IF WasGlobal(state') # (state' = "global")
                 THEN BothScaled(SectorActive(table, tableFresh, fits, state', TRUE))
                 ELSE raised
    /\ UNCHANGED <<lines, sector>>

\* Mutant of Noticed: the timer reports the table's return only.
NoticedReturn == ~watched /\ tableFresh

\* The deadman timer acts on a transition.
Noticed == watched # tableFresh

\* The 0.5 s deadman timer, once a table was seen.
Deadman ==
    /\ table # "none" /\ Noticed
    /\ watched' = tableFresh
    /\ raised' = IF tableFresh THEN raised ELSE BothScaled(FALSE)
    /\ UNCHANGED <<lines, table, tableFresh, fits, stateVars>>

\* The timer ticks several times in sector_scale_timeout: it has seen a fresh table
\* before the table is stale.
TableExpires ==
    /\ tableFresh /\ watched /\ tableFresh' = FALSE
    /\ UNCHANGED <<lines, table, watched, fits, stateVars, raised>>

StateExpires ==
    /\ stateFresh /\ stateFresh' = FALSE
    /\ UNCHANGED <<lines, sector, state, raised>>

-----------------------------------------------------------------------------
\* Mutant of FitsNow: the scales are resolved before the line is compared.
FitsBefore(l) == fits

\* validate_sector_track_length precedes apply_sector_scales.
FitsNow(l) == table = l

\* global_path_callback.
OnGlobalPath ==
    \E l \in Lines :
        /\ line' = l /\ fits' = (table = l)
        /\ raised' = [raised EXCEPT !["global"] =
                         SectorActive(table, tableFresh, FitsNow(l), state, stateFresh)]
        /\ UNCHANGED <<local, localFresh, table, tableFresh, watched, stateVars>>

\* local_path_callback; an empty path clears the array and leaves its time alone.
OnLocalPath ==
    /\ local' \in BOOLEAN
    /\ localFresh' = (localFresh \/ local')
    /\ raised' = [raised EXCEPT !["local"] =
                     local' /\ SectorActive(table, tableFresh, fits, state, stateFresh)]
    /\ UNCHANGED <<line, sector, stateVars>>

LocalExpires ==
    /\ localFresh /\ localFresh' = FALSE
    /\ UNCHANGED <<line, local, sector, stateVars, raised>>

SectorScaleInit ==
    /\ line = "none" /\ local = FALSE /\ localFresh = FALSE
    /\ table = "none" /\ tableFresh = FALSE /\ watched = TRUE /\ fits = FALSE
    /\ state = "unseen" /\ stateFresh = FALSE
    /\ raised = [source \in Sources |-> FALSE]

SectorScaleNext ==
    \/ OnSectorTable \/ OnState \/ Deadman \/ TableExpires \/ StateExpires
    \/ OnGlobalPath \/ OnLocalPath \/ LocalExpires

\* The timer runs; the global line is republished every two seconds; silence ages.
SectorScaleSpec ==
    /\ SectorScaleInit /\ [][SectorScaleNext]_sectorVars
    /\ WF_sectorVars(Deadman) /\ WF_sectorVars(OnGlobalPath) /\ WF_sectorVars(LocalExpires)
-----------------------------------------------------------------------------
\* No part of the global line is driven faster for a table made for another line, in
\* whichever order tables and lines arrive (validate_sector_track_length).
RaisedForItsLine == raised["global"] => table = line

\* While the last state heard is an avoidance, no array is left raised: not the one
\* received before, and not the one the car would fall back to.
AvoidingIsUnscaled == state = "avoid" => raised = [source \in Sources |-> FALSE]

\* What lies raised in an array is right for the line it is on and the state of the car.
ScalesFit == RaisedForItsLine /\ AvoidingIsUnscaled

\* A dead publisher of tables costs the speed it had raised, whatever else goes on
\* (the deadman: the scales lie in the arrays and nobody else takes them out).
SilentTableUnscales ==
    <>[](~tableFresh) => <>[](raised = [source \in Sources |-> FALSE])

\* So does a state machine that no longer says what it does: on the array in use,
\* once the local path of that state machine is stale or replaced.
InUse == IF local /\ localFresh THEN "local" ELSE "global"
SilentStateUnscales == <>[](~stateFresh) => <>[](~raised[InUse])
=============================================================================
