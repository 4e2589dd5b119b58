------------------------- MODULE MapControllerProofs -------------------------
(***************************************************************************)
(* The map controller for all speeds, rates, timers, limits and lines: its *)
(* sector scales never raise a line for another one's table, its command   *)
(* never surges, its trim file holds nothing that was not learnt, and its  *)
(* index never faces against the car on a line that can be followed.       *)
(***************************************************************************)
EXTENDS MapController, WellFoundedInduction, TLAPS

-----------------------------------------------------------------------------
(* The sector scales.                                                        *)

Unraised == [source \in Sources |-> FALSE]

\* Only what was resolved in GLOBAL is raised.
RaisedInGlobal == state # "global" => raised = Unraised

\* The lengths were compared once both were known.
FitsKnownLine == fits => line # "none"

SectorInv == SectorScaleTypeOK /\ RaisedForItsLine /\ RaisedInGlobal /\ FitsKnownLine

LEMMA SectorInitInv == SectorScaleInit => SectorInv
  BY DEF SectorScaleInit, SectorInv, SectorScaleTypeOK, RaisedForItsLine,
         RaisedInGlobal, Unraised, FitsKnownLine, Sources

\* Resolving both arrays raises what there is, and only in GLOBAL.
LEMMA BothScaledRaises ==
    ASSUME NEW active \in BOOLEAN, local \in BOOLEAN
    PROVE  /\ BothScaled(active) \in [Sources -> BOOLEAN]
           /\ BothScaled(active)["local"] => local
           /\ BothScaled(active)["global"] => active /\ line # "none"
           /\ ~active => BothScaled(active) = Unraised
  BY DEF BothScaled, Sources, Unraised

\* What arrives at, or expires in, the node keeps the invariant.
LEMMA SectorNextInv == SectorInv /\ [SectorScaleNext]_sectorVars => SectorInv'
  <1> SUFFICES ASSUME SectorInv, [SectorScaleNext]_sectorVars PROVE SectorInv'
    OBVIOUS
  <1> USE DEF SectorInv, SectorScaleTypeOK, RaisedForItsLine, RaisedInGlobal, FitsKnownLine
  <1>1. /\ local \in BOOLEAN /\ fits \in BOOLEAN /\ tableFresh \in BOOLEAN
        /\ stateFresh \in BOOLEAN /\ "none" \notin Lines
    BY SectorScaleAssumption
  <1>2. CASE OnSectorTable
    <2> DEFINE active == SectorActive(table', TRUE, fits', state, stateFresh)
    <2>1. /\ fits' = (IF line = "none" THEN fits ELSE line = table')
          /\ raised' = BothScaled(active) /\ table' \in Lines /\ tableFresh' = TRUE
          /\ UNCHANGED <<lines, watched, stateVars>>
      BY <1>2 DEF OnSectorTable
    <2>2. fits' \in BOOLEAN /\ active \in BOOLEAN
      BY <1>1, <2>1 DEF SectorActive
    <2>3. active => fits' /\ state = "global"
      BY DEF SectorActive
    <2> HIDE DEF active
    <2> QED
      BY <1>1, <2>1, <2>2, <2>3, BothScaledRaises DEF lines, stateVars
  <1>3. CASE OnState
    <2> DEFINE active == SectorActive(table, tableFresh, fits, state', TRUE)
    <2>1. /\ state' \in {"global", "avoid"} /\ stateFresh' = TRUE
          /\ raised' = IF (state = "global") # (state' = "global")
                       THEN BothScaled(active) ELSE raised
          /\ UNCHANGED <<lines, sector>>
      BY <1>3 DEF OnState, WasGlobal
    <2>2. active \in BOOLEAN /\ (active => fits /\ state' = "global")
      BY <1>1, <2>1 DEF SectorActive
    <2> HIDE DEF active
    <2>3. CASE (state = "global") # (state' = "global")
      BY <1>1, <2>1, <2>2, <2>3, BothScaledRaises DEF lines, sector
    <2>4. CASE (state = "global") = (state' = "global")
      BY <1>1, <2>1, <2>4 DEF lines, sector
    <2> QED
      BY <2>3, <2>4
  <1>4. CASE Deadman
    <2>1. /\ watched' = tableFresh
          /\ raised' = IF tableFresh THEN raised ELSE BothScaled(FALSE)
          /\ UNCHANGED <<lines, table, tableFresh, fits, stateVars>>
      BY <1>4 DEF Deadman
    <2> QED
      BY <1>1, <2>1, BothScaledRaises DEF lines, stateVars
  <1>5. CASE TableExpires
    <2>1. tableFresh' = FALSE /\ UNCHANGED <<lines, table, watched, fits, stateVars, raised>>
      BY <1>5 DEF TableExpires
    <2> QED
      BY <1>1, <2>1 DEF lines, stateVars
  <1>6. CASE StateExpires
    <2>1. stateFresh' = FALSE /\ UNCHANGED <<lines, sector, state, raised>>
      BY <1>6 DEF StateExpires
    <2> QED
      BY <1>1, <2>1 DEF lines, sector
  <1>7. CASE LocalExpires
    <2>1. localFresh' = FALSE /\ UNCHANGED <<line, local, sector, stateVars, raised>>
      BY <1>7 DEF LocalExpires
    <2> QED
      BY <1>1, <2>1 DEF sector, stateVars
  <1>8. CASE OnGlobalPath
    <2>1. PICK l \in Lines :
            /\ line' = l /\ fits' = (table = l)
            /\ raised' = [raised EXCEPT !["global"] =
                            SectorActive(table, tableFresh, FitsNow(l), state, stateFresh)]
            /\ UNCHANGED <<local, localFresh, table, tableFresh, watched, stateVars>>
      BY <1>8 DEF OnGlobalPath
    <2> DEFINE active == SectorActive(table, tableFresh, FitsNow(l), state, stateFresh)
    <2>2. active \in BOOLEAN /\ (active => table = l /\ state = "global")
      BY <1>1 DEF SectorActive, FitsNow
    <2> HIDE DEF active
    <2>3. /\ raised' \in [Sources -> BOOLEAN] /\ raised'["global"] = active
          /\ raised'["local"] = raised["local"]
          /\ ~active /\ raised = Unraised => raised' = Unraised
      BY <2>1, <2>2 DEF Sources, Unraised, active
    <2> QED
      BY <1>1, <2>1, <2>2, <2>3 DEF stateVars
  <1>9. CASE OnLocalPath
    <2> DEFINE active == local' /\ SectorActive(table, tableFresh, fits, state, stateFresh)
    <2>1. /\ local' \in BOOLEAN /\ localFresh' = (localFresh \/ local')
          /\ raised' = [raised EXCEPT !["local"] = active]
          /\ UNCHANGED <<line, sector, stateVars>>
      BY <1>9 DEF OnLocalPath
    <2>2. active \in BOOLEAN /\ (active => local' /\ state = "global")
      BY <1>1, <2>1 DEF SectorActive
    <2> HIDE DEF active
    <2>3. /\ raised' \in [Sources -> BOOLEAN] /\ raised'["global"] = raised["global"]
          /\ raised'["local"] = active
          /\ ~active /\ raised = Unraised => raised' = Unraised
      BY <2>1, <2>2 DEF Sources, Unraised
    <2> QED
      BY <1>1, <2>1, <2>2, <2>3 DEF sector, stateVars
  <1>10. CASE UNCHANGED sectorVars
    BY <1>10 DEF sectorVars, lines, sector, stateVars
  <1> QED
    BY <1>2, <1>3, <1>4, <1>5, <1>6, <1>7, <1>8, <1>9, <1>10 DEF SectorScaleNext

LEMMA SectorInvariance == SectorScaleSpec => []SectorInv
  <1>1. SectorScaleInit => SectorInv
    BY SectorInitInv
  <1>2. SectorInv /\ [SectorScaleNext]_sectorVars => SectorInv'
    BY SectorNextInv
  <1> QED
    BY <1>1, <1>2, PTL DEF SectorScaleSpec

\* The scales keep their types: a line that fits is the table's, and what is raised is
\* there.
THEOREM SectorTypeCorrect == SectorScaleSpec => []SectorScaleTypeOK
  <1>1. SectorInv => SectorScaleTypeOK
    BY DEF SectorInv
  <1> QED
    BY <1>1, SectorInvariance, PTL

\* No global line is driven on a table made for another one, in whichever order they
\* arrive (validate_sector_track_length, apply_sector_scales).
THEOREM ScalesAreOfTheLine == SectorScaleSpec => []RaisedForItsLine
  <1>1. SectorInv => RaisedForItsLine
    BY DEF SectorInv
  <1> QED
    BY <1>1, SectorInvariance, PTL

\* While the last state heard is an avoidance nothing is raised (the /state callback).
THEOREM AvoidanceIsUnscaled == SectorScaleSpec => []AvoidingIsUnscaled
  <1>1. SectorInv => AvoidingIsUnscaled
    BY DEF SectorInv, RaisedInGlobal, AvoidingIsUnscaled, Unraised
  <1> QED
    BY <1>1, SectorInvariance, PTL

\* What lies raised in an array is right for the line it is on and the state of the car.
THEOREM ScalesAlwaysFit == SectorScaleSpec => []ScalesFit
  <1>1. RaisedForItsLine /\ AvoidingIsUnscaled => ScalesFit
    BY DEF ScalesFit
  <1> QED
    BY <1>1, ScalesAreOfTheLine, AvoidanceIsUnscaled, PTL

-----------------------------------------------------------------------------
(* The speed command.                                                        *)

\* The ramp never leads what was driven or published in its cycle, and the trim holds
\* at least the samples counted for it.
RampIsLed     == ramp <= basis
SamplesEarned == samples <= earned

\* A value that waits to be saved was moved by a sample not long ago.
TrimStands == TrimIsEarned /\ (Earned => ~idle)

SpeedInv == SpeedCommandTypeOK /\ RampIsLed /\ SamplesEarned /\ TrimStands

\* The constants are numbers.
LEMMA SpeedConstants ==
    /\ Top \in Nat /\ StaleCap \in Nat /\ Lead \in Nat /\ Boost \in Nat
    /\ BoostTime \in Nat /\ RelatchTime \in Nat /\ Still \in Nat /\ Exit \in Nat
    /\ LearnSpeed \in Nat /\ Caps \subseteq Nat
    /\ Accel \in Nat \ {0} /\ Decel \in Nat \ {0} /\ MinSamples \in Nat \ {0}
  BY SpeedCommandAssumption

\* The ramp of a cycle: it rises by one acceleration step at most, and when it is above
\* its goal it has come down.
LEMMA RampBounds ==
    ASSUME NEW from \in 0..Top, NEW goal \in 0..Top, v \in 0..Top
    PROVE  /\ Led(RateLimited(from, goal)) \in 0..Top
           /\ Led(RateLimited(from, goal)) <= from + Accel
           /\ Led(RateLimited(from, goal)) > goal => Led(RateLimited(from, goal)) < from
  <1> DEFINE r == RateLimited(from, goal)
  <1>1. r \in 0..Top /\ r <= from + Accel /\ (r > goal => r < from)
    <2>1. CASE goal > from
      BY <2>1, SpeedConstants DEF RateLimited, AtMost
    <2>2. CASE ~(goal > from)
      BY <2>2, SpeedConstants DEF RateLimited, AtLeast
    <2> QED
      BY <2>1, <2>2
  <1> HIDE DEF r
  <1>2. Led(r) \in 0..Top /\ Led(r) <= r
    BY <1>1, SpeedConstants DEF Led, AtMost
  <1> QED
    BY <1>1, <1>2, SpeedConstants DEF r

\* A launch kick only adds to the ramp, keeps its timers in their ranges, and without
\* one the ramp is what is published.
LEMMA LaunchBounds ==
    ASSUME SpeedCommandTypeOK, NEW goal \in 0..Top, NEW final \in 0..Top
    PROVE  LET next == Launch(goal, final)
           IN  /\ next.kick \in BOOLEAN /\ next.gaveUp \in BOOLEAN
               /\ next.spent \in 0..BoostTime /\ next.rested \in 0..RelatchTime
               /\ next.out \in 0..AtLeast(Top, Boost) /\ final <= next.out
               /\ ~next.kick => next.out = final
  <1> DEFINE off      == gaveUp /\ ~Moving
             counting == RelatchTime > 0 /\ off /\ Standing
             again    == counting /\ rested + 1 >= RelatchTime
             starts   == ~kick /\ Standing /\ (~off \/ again)
             time     == IF starts THEN 1 ELSE spent + 1
             pushes   == (kick \/ starts) /\ ~Moving /\ time <= BoostTime
             fails    == (kick \/ starts) /\ ~Moving /\ time > BoostTime
             next     == Launch(goal, final)
  <1>1. /\ kick \in BOOLEAN /\ gaveUp \in BOOLEAN /\ v \in Nat
        /\ spent \in 0..BoostTime /\ rested \in 0..RelatchTime
    BY SpeedConstants DEF SpeedCommandTypeOK
  <1>2. /\ off \in BOOLEAN /\ counting \in BOOLEAN /\ again \in BOOLEAN
        /\ pushes \in BOOLEAN /\ fails \in BOOLEAN
    OBVIOUS
  <1>3. pushes => time \in 0..BoostTime
    BY <1>1, SpeedConstants
  <1>4. counting /\ ~again => rested + 1 \in 0..RelatchTime
    BY <1>1, SpeedConstants
  <1>5. /\ final \in 0..AtLeast(Top, Boost)
        /\ AtLeast(final, Boost) \in 0..AtLeast(Top, Boost) /\ final <= AtLeast(final, Boost)
    BY SpeedConstants DEF AtLeast
  <1>6. next =
          IF goal = 0
          THEN [kick |-> FALSE, spent |-> 0, gaveUp |-> off, rested |-> 0, out |-> final]
          ELSE [kick   |-> pushes,
                spent  |-> IF pushes THEN time ELSE 0,
                gaveUp |-> (off /\ ~again) \/ fails,
                rested |-> IF counting /\ ~again THEN rested + 1 ELSE 0,
                out    |-> IF pushes THEN AtLeast(final, Boost) ELSE final]
    BY DEF Launch
  <1>7. 0 \in 0..BoostTime /\ 0 \in 0..RelatchTime
    BY SpeedConstants
  <1> HIDE DEF off, counting, again, starts, time, pushes, fails, next
  <1>8. CASE goal = 0
    BY <1>2, <1>5, <1>6, <1>7, <1>8 DEF next
  <1>9. CASE goal # 0
    <2>1. /\ next.kick = pushes /\ next.spent = (IF pushes THEN time ELSE 0)
          /\ next.gaveUp = ((off /\ ~again) \/ fails)
          /\ next.rested = (IF counting /\ ~again THEN rested + 1 ELSE 0)
          /\ next.out = (IF pushes THEN AtLeast(final, Boost) ELSE final)
      BY <1>6, <1>9
    <2>2. final <= final
      BY SpeedConstants
    <2>3. next.spent \in 0..BoostTime /\ next.rested \in 0..RelatchTime
      BY <1>3, <1>4, <1>7, <2>1
    <2>4. next.out \in 0..AtLeast(Top, Boost) /\ final <= next.out
      BY <1>5, <2>1, <2>2
    <2> QED
      BY <1>2, <2>1, <2>3, <2>4 DEF next
  <1> QED
    BY <1>8, <1>9

\* What the HFI guard leaves of a speed.
LEMMA GuardedBounds ==
    ASSUME NEW decision \in Decisions, NEW bound \in Nat, NEW e \in 0..bound
    PROVE  /\ Guarded(e, decision) \in 0..bound /\ Guarded(e, decision) <= e
           /\ decision = NoLimit => Guarded(e, decision) = e
           /\ \A f \in Nat : e <= f => Guarded(e, decision) <= Guarded(f, decision)
  BY SpeedConstants DEF Guarded, Decisions, NoLimit, AtMost

\* What a driven cycle publishes, from the ramp it had.
LEMMA DriveBounds ==
    ASSUME SpeedInv, Drive
    PROVE  /\ ramp' \in 0..Top /\ out' \in 0..AtLeast(Top, Boost) /\ target' \in 0..Top
           /\ ramp' <= out' /\ basis' = AtLeast(out', v)
           /\ by' \in {"kick", "hfi", "ramp"}
           /\ kick' \in BOOLEAN /\ gaveUp' \in BOOLEAN
           /\ spent' \in 0..BoostTime /\ rested' \in 0..RelatchTime
           /\ by' # "kick" => out' <= ramp + Accel
           /\ by' = "ramp" /\ out' > target' => out' < ramp
  <1>1. PICK asked \in 0..Top, decision \in Decisions :
          LET goal  == AtMost(asked, CruiseCap)
              final == Led(RateLimited(ramp, goal))
              next  == Launch(goal, final)
          IN /\ ramp' = Guarded(final, decision)
             /\ out' = Guarded(next.out, decision)
             /\ target' = goal /\ basis' = AtLeast(out', v)
             /\ by' = IF next.kick THEN "kick"
                      ELSE IF decision # NoLimit THEN "hfi" ELSE "ramp"
             /\ kick' = next.kick /\ spent' = next.spent
             /\ gaveUp' = next.gaveUp /\ rested' = next.rested
    BY DEF Drive
  <1> DEFINE goal  == AtMost(asked, CruiseCap)
             final == Led(RateLimited(ramp, goal))
             next  == Launch(goal, final)
             peak  == AtLeast(Top, Boost)
  <1>2. SpeedCommandTypeOK /\ ramp \in 0..Top /\ v \in 0..Top
    BY DEF SpeedInv, SpeedCommandTypeOK
  <1>3. goal \in 0..Top
    <2>1. CruiseCap \in Nat
      BY <1>2, SpeedConstants DEF CruiseCap, SpeedCommandTypeOK, NoLimit
    <2> QED
      BY <2>1, SpeedConstants DEF AtMost
  <1> HIDE DEF goal
  <1>4. /\ final \in 0..Top /\ final <= ramp + Accel /\ (final > goal => final < ramp)
    BY <1>2, <1>3, RampBounds
  <1> HIDE DEF final
  <1>5. /\ next.kick \in BOOLEAN /\ next.gaveUp \in BOOLEAN
        /\ next.spent \in 0..BoostTime /\ next.rested \in 0..RelatchTime
        /\ next.out \in 0..peak /\ final <= next.out
        /\ ~next.kick => next.out = final
    BY <1>2, <1>3, <1>4, LaunchBounds
  <1> HIDE DEF next
  <1>6. /\ ramp' = Guarded(final, decision) /\ out' = Guarded(next.out, decision)
        /\ target' = goal /\ basis' = AtLeast(out', v)
        /\ by' = IF next.kick THEN "kick"
                 ELSE IF decision # NoLimit THEN "hfi" ELSE "ramp"
        /\ kick' = next.kick /\ spent' = next.spent
        /\ gaveUp' = next.gaveUp /\ rested' = next.rested
    BY <1>1 DEF goal, final, next
  <1>7. peak \in Nat /\ Top \in Nat /\ next.out \in Nat
    BY <1>5, SpeedConstants DEF AtLeast
  <1>8. /\ ramp' \in 0..Top /\ out' \in 0..peak /\ ramp' <= out' /\ out' <= next.out
        /\ decision = NoLimit => out' = next.out
    BY <1>4, <1>5, <1>6, <1>7, GuardedBounds
  <1> HIDE DEF peak
  <1>9. by' # "kick" => out' <= ramp + Accel
    <2>1. by' # "kick" => out' <= final
      BY <1>5, <1>6, <1>8
    <2> QED
      BY <2>1, <1>2, <1>4, <1>7, <1>8, SpeedConstants
  <1>10. by' = "ramp" /\ out' > target' => out' < ramp
    <2>1. by' = "ramp" => out' = final
      BY <1>5, <1>6, <1>8
    <2> QED
      BY <2>1, <1>4, <1>6
  <1> QED
    BY <1>3, <1>5, <1>6, <1>8, <1>9, <1>10 DEF peak

\* The larger of two speeds bounds both.
LEMMA AtLeastBounds ==
    ASSUME NEW a \in Nat, NEW b \in Nat
    PROVE  AtLeast(a, b) \in Nat /\ a <= AtLeast(a, b) /\ b <= AtLeast(a, b)
  BY DEF AtLeast

LEMMA SpeedInitInv == SpeedCommandInit => SpeedInv
  <1> SUFFICES ASSUME SpeedCommandInit PROVE SpeedInv
    OBVIOUS
  <1>1. AtLeast(Top, Boost) \in Nat
    BY SpeedConstants, AtLeastBounds
  <1>2. /\ 0 \in 0..Top /\ 0 \in 0..AtLeast(Top, Boost) /\ 0 \in 0..BoostTime
        /\ 0 \in 0..RelatchTime /\ 0 \in 0..MinSamples
    BY <1>1, SpeedConstants
  <1>3. /\ heard \in BOOLEAN /\ kick \in BOOLEAN /\ gaveUp \in BOOLEAN /\ old \in BOOLEAN
        /\ ~heard /\ unsaved \in BOOLEAN /\ idle \in BOOLEAN /\ ~idle /\ dated \in BOOLEAN
        /\ sound \in BOOLEAN /\ sound
    BY DEF SpeedCommandInit
  <1>4. /\ ramp = 0 /\ basis = 0 /\ samples = 0 /\ earned = 0 /\ file = NoFile
        /\ v = 0 /\ target = 0 /\ out = 0 /\ spent = 0 /\ rested = 0 /\ worth = 0
        /\ odom = "unseen" /\ mode = "unseen" /\ limit = NoLimit /\ by = "start"
    BY DEF SpeedCommandInit
  <1> QED
    BY <1>2, <1>3, <1>4
       DEF SpeedInv, SpeedCommandTypeOK, RampIsLed, SamplesEarned, TrimStands, TrimIsEarned, FileIsEarned, Earned

\* The learning of a cycle keeps the samples earned.
LEMMA LearnsBounds ==
    ASSUME SpeedInv, Learns \/ UNCHANGED <<samples, unsaved, earned, idle>>
    PROVE  /\ samples' \in 0..MinSamples /\ earned' \in 0..MinSamples
           /\ samples' <= earned' /\ unsaved' \in BOOLEAN /\ idle' \in BOOLEAN
           /\ Earned' => ~idle'
  <1>1. /\ samples \in 0..MinSamples /\ earned \in 0..MinSamples /\ samples <= earned
        /\ unsaved \in BOOLEAN /\ idle \in BOOLEAN /\ (Earned => ~idle)
    BY DEF SpeedInv, SpeedCommandTypeOK, SamplesEarned, TrimStands
  <1>2. CASE Learns
    <2>1. samples' \in 0..MinSamples /\ earned' \in 0..MinSamples /\ samples' <= earned'
      BY <1>1, <1>2, SpeedConstants DEF Learns, AtMost
    <2>2. idle' = FALSE /\ unsaved' \in {unsaved, TRUE}
      BY <1>2 DEF Learns
    <2> QED
      BY <1>1, <2>1, <2>2
  <1>3. CASE UNCHANGED <<samples, unsaved, earned, idle>>
    BY <1>1, <1>3 DEF Earned
  <1> QED
    BY <1>2, <1>3

LEMMA SpeedNextInv == SpeedInv /\ [SpeedCommandNext]_speedVars => SpeedInv'
  <1> SUFFICES ASSUME SpeedInv, [SpeedCommandNext]_speedVars PROVE SpeedInv'
    OBVIOUS
  <1> DEFINE peak == AtLeast(Top, Boost)
  <1>1. SpeedCommandTypeOK /\ RampIsLed /\ SamplesEarned /\ TrimStands
    BY DEF SpeedInv
  <1>2. /\ peak \in Nat /\ Top \in Nat /\ Top <= peak /\ 0 \in 0..Top /\ 0 \in 0..peak
        /\ 0..Top \subseteq 0..peak /\ MinSamples \in Nat
        /\ 0 \in 0..MinSamples /\ 0 \in 0..BoostTime /\ 0 \in 0..RelatchTime
    BY SpeedConstants, AtLeastBounds
  <1> HIDE DEF peak
  <1>3. CASE OnOdom \/ OdomExpires \/ OnDriveMode \/ DriveModeExpires
             \/ OnCruiseLimit \/ CruiseExpires
    <2>1. UNCHANGED <<speed, launch, trim>>
      BY <1>3 DEF OnOdom, OdomExpires, OnDriveMode, DriveModeExpires,
                  OnCruiseLimit, CruiseExpires
    <2>2. odom' \in {"unseen", "fresh", "stale"} /\ v' \in 0..Top
      BY <1>1, <1>3
         DEF OnOdom, OdomExpires, OnDriveMode, DriveModeExpires, OnCruiseLimit,
             CruiseExpires, SpeedCommandTypeOK
    <2>3. /\ mode' \in {"unseen", "on", "off"} /\ heard' \in BOOLEAN
          /\ mode' = "unseen" => ~heard'
      <3>1. /\ mode \in {"unseen", "on", "off"} /\ heard \in BOOLEAN
            /\ mode = "unseen" => ~heard
        BY <1>1 DEF SpeedCommandTypeOK
      <3>2. CASE OnDriveMode
        <4>1. mode' \in {"on", "off"} /\ heard' = TRUE
          BY <3>2 DEF OnDriveMode
        <4> QED
          BY <4>1
      <3>3. CASE DriveModeExpires
        <4>1. mode' = mode /\ heard' = FALSE
          BY <3>3 DEF DriveModeExpires
        <4> QED
          BY <3>1, <4>1
      <3>4. CASE OnOdom \/ OdomExpires \/ OnCruiseLimit \/ CruiseExpires
        <4>1. UNCHANGED <<mode, heard>>
          BY <3>4 DEF OnOdom, OdomExpires, OnCruiseLimit, CruiseExpires
        <4> QED
          BY <3>1, <4>1
      <3> QED
        BY <1>3, <3>2, <3>3, <3>4
    <2>4. limit' \in Caps \cup {NoLimit}
      BY <1>1, <1>3
         DEF OnOdom, OdomExpires, OnDriveMode, DriveModeExpires, OnCruiseLimit,
             CruiseExpires, SpeedCommandTypeOK
    <2> QED
      BY <1>1, <2>1, <2>2, <2>3, <2>4
         DEF SpeedInv, SpeedCommandTypeOK, RampIsLed, SamplesEarned, TrimStands, TrimIsEarned, FileIsEarned, Earned,
             speed, launch, trim
  <1>4. CASE SafeStop
    <2>1. /\ ramp' = v /\ out' = 0 /\ basis' = v /\ target' = 0 /\ by' = "stop"
          /\ UNCHANGED <<inputs, launch, trim>>
      BY <1>4 DEF SafeStop, StopRamp
    <2>2. v \in 0..Top /\ v \in 0..peak /\ v <= v
      BY <1>1, <1>2 DEF SpeedCommandTypeOK
    <2> QED
      BY <1>1, <1>2, <2>1, <2>2
         DEF SpeedInv, SpeedCommandTypeOK, RampIsLed, SamplesEarned, TrimStands, TrimIsEarned, FileIsEarned, Earned,
             inputs, launch, trim, peak
  <1>5. CASE Drive
    <2>1. /\ ramp' \in 0..Top /\ out' \in 0..peak /\ target' \in 0..Top
          /\ ramp' <= out' /\ basis' = AtLeast(out', v)
          /\ by' \in {"kick", "hfi", "ramp"} /\ kick' \in BOOLEAN /\ gaveUp' \in BOOLEAN
          /\ spent' \in 0..BoostTime /\ rested' \in 0..RelatchTime
      BY <1>5, DriveBounds DEF peak
    <2>2. v \in 0..Top
      BY <1>1 DEF SpeedCommandTypeOK
    <2>3. basis' \in 0..peak /\ ramp' <= basis'
      BY <1>2, <2>1, <2>2 DEF AtLeast
    <2>4. UNCHANGED <<inputs, saved>> /\ (Learns \/ UNCHANGED <<samples, unsaved, earned, idle>>)
      BY <1>5 DEF Drive
    <2>5. /\ samples' \in 0..MinSamples /\ earned' \in 0..MinSamples /\ samples' <= earned'
          /\ unsaved' \in BOOLEAN /\ idle' \in BOOLEAN /\ (Earned' => ~idle')
      BY <2>4, LearnsBounds
    <2> QED
      BY <1>1, <2>1, <2>3, <2>4, <2>5
         DEF SpeedInv, SpeedCommandTypeOK, RampIsLed, SamplesEarned, TrimStands, TrimIsEarned, FileIsEarned, Earned,
             inputs, saved, peak
  <1>6. CASE Hold
    <2>1. PICK decision \in Decisions : ramp' = Guarded(v, decision) /\ out' = Guarded(v, decision)
      BY <1>6 DEF Hold
    <2>2. /\ target' = 0 /\ basis' = v /\ by' = "off"
          /\ kick' = FALSE /\ spent' = 0 /\ rested' = 0 /\ gaveUp' = gaveUp
          /\ samples' = 0 /\ earned' = 0 /\ idle' = FALSE /\ unsaved' = TRUE
          /\ UNCHANGED <<inputs, saved>>
      BY <1>6 DEF Hold, Relearnt
    <2>3. v \in 0..Top /\ v \in 0..peak
      BY <1>1, <1>2 DEF SpeedCommandTypeOK
    <2>4. /\ ramp' \in 0..Top /\ out' \in 0..peak /\ ramp' <= basis'
      BY <1>2, <2>1, <2>2, <2>3, GuardedBounds
    <2>5. /\ kick' \in BOOLEAN /\ gaveUp' \in BOOLEAN /\ unsaved' \in BOOLEAN
          /\ idle' \in BOOLEAN /\ ~idle'
      BY <1>1, <2>2 DEF SpeedCommandTypeOK
    <2>6. /\ target' \in 0..Top /\ basis' \in 0..peak /\ by' = "off"
          /\ spent' \in 0..BoostTime /\ rested' \in 0..RelatchTime
          /\ samples' \in 0..MinSamples /\ earned' \in 0..MinSamples /\ samples' <= earned'
          /\ UNCHANGED <<inputs, saved>>
      BY <1>2, <2>2, <2>3
    <2> QED
      BY <1>1, <2>4, <2>5, <2>6
         DEF SpeedInv, SpeedCommandTypeOK, RampIsLed, SamplesEarned, TrimStands, TrimIsEarned, FileIsEarned, Earned,
             inputs, saved, peak
  <1>7. CASE SaveTrim
    <2>1. /\ samples >= MinSamples /\ Earned
          /\ file' = "own" /\ old' = FALSE /\ unsaved' = FALSE /\ worth' = earned /\ dated' = idle
          /\ UNCHANGED <<inputs, speed, launch, samples, sound, earned, idle>>
      BY <1>7 DEF SaveTrim, Earned
    <2>2. earned = MinSamples /\ idle = FALSE
      <3>1. samples \in 0..MinSamples /\ earned \in 0..MinSamples /\ samples <= earned /\ idle \in BOOLEAN
        BY <1>1 DEF SpeedCommandTypeOK, SamplesEarned
      <3>2. ~idle
        BY <1>1, <2>1 DEF TrimStands
      <3> QED
        BY <1>2, <2>1, <3>1, <3>2
    <2>3. SpeedCommandTypeOK'
      <3>1. /\ file' \in {NoFile, "own", "other"} /\ old' \in BOOLEAN /\ unsaved' \in BOOLEAN
            /\ worth' \in 0..MinSamples /\ dated' \in BOOLEAN
        <4>1. file' \in {NoFile, "own", "other"} /\ old' \in BOOLEAN /\ unsaved' \in BOOLEAN
          BY <2>1
        <4>2. worth' \in 0..MinSamples
          BY <1>2, <2>1, <2>2
        <4>3. dated' = FALSE
          BY <2>1, <2>2
        <4> QED
          BY <4>1, <4>2, <4>3
      <3>2. UNCHANGED <<odom, v, mode, heard, limit, ramp, out, target, by, basis, kick, spent,
                        gaveUp, rested, samples, sound, earned, idle>>
        BY <2>1 DEF inputs, speed, launch
      <3> QED
        BY <1>1, <3>1, <3>2 DEF SpeedCommandTypeOK
    <2>4. TrimStands'
      BY <1>1, <2>1, <2>2 DEF TrimStands, TrimIsEarned, FileIsEarned, Earned
    <2>5. RampIsLed' /\ SamplesEarned'
      BY <1>1, <2>1 DEF RampIsLed, SamplesEarned, speed
    <2> QED
      BY <2>3, <2>4, <2>5 DEF SpeedInv
  <1>8. CASE HalfDayPasses
    <2>1. /\ ~(samples = MinSamples /\ unsaved)
          /\ old' = (file # NoFile) /\ dated' = (file # NoFile) /\ idle' = (earned > 0)
          /\ UNCHANGED <<inputs, speed, launch, samples, unsaved, sound, earned, file, worth>>
      BY <1>8 DEF HalfDayPasses
    <2>2. SpeedCommandTypeOK'
      BY <1>1, <2>1 DEF SpeedCommandTypeOK, inputs, speed, launch
    <2>3. ~Earned'
      BY <1>1, <1>2, <2>1 DEF Earned, SpeedCommandTypeOK
    <2>4. TrimStands'
      BY <1>1, <2>1, <2>3 DEF TrimStands, TrimIsEarned, FileIsEarned
    <2>5. RampIsLed' /\ SamplesEarned'
      BY <1>1, <2>1 DEF RampIsLed, SamplesEarned, speed
    <2> QED
      BY <2>2, <2>4, <2>5 DEF SpeedInv
  <1>9. CASE Restart
    <2>1. /\ odom' = "unseen" /\ v' = 0 /\ mode' = "unseen" /\ heard' = FALSE
          /\ limit' = NoLimit /\ ramp' = 0 /\ out' = 0 /\ target' = 0 /\ by' = "start"
          /\ basis' = 0 /\ kick' = FALSE /\ spent' = 0 /\ gaveUp' = FALSE /\ rested' = 0
          /\ samples' = 0 /\ unsaved' = TRUE /\ earned' = 0 /\ idle' = FALSE
          /\ UNCHANGED <<old, worth, dated>>
      BY <1>9 DEF Restart
    <2>2. /\ file' \in {NoFile, "own", "other"} /\ (file' # NoFile => file # NoFile)
      BY <1>9 DEF Restart, NoFile
    <2>3. sound'
      <3>1. Loadable(file') => file' = "own" /\ ~old
        BY DEF Loadable
      <3>2. file' = "own" /\ ~old => worth = MinSamples /\ ~dated
        BY <1>1, <2>2 DEF TrimStands, TrimIsEarned, FileIsEarned, NoFile
      <3>3. sound' = (Loadable(file') => file' = "own" /\ worth = MinSamples /\ ~dated)
        BY <1>9 DEF Restart
      <3> QED
        BY <3>1, <3>2, <3>3
    <2>4. sound' \in BOOLEAN
      BY <1>9 DEF Restart
    <2>5. SpeedCommandTypeOK' /\ ramp' <= basis' /\ samples' <= earned'
      <3>1. heard' \in BOOLEAN /\ ~heard' /\ kick' \in BOOLEAN /\ gaveUp' \in BOOLEAN
            /\ unsaved' \in BOOLEAN /\ idle' \in BOOLEAN
        BY <2>1
      <3>2. /\ odom' = "unseen" /\ mode' = "unseen" /\ limit' = NoLimit /\ by' = "start"
            /\ v' \in 0..Top /\ ramp' \in 0..Top /\ target' \in 0..Top
            /\ out' \in 0..peak /\ basis' \in 0..peak /\ ramp' <= basis'
            /\ spent' \in 0..BoostTime /\ rested' \in 0..RelatchTime
            /\ samples' \in 0..MinSamples /\ earned' \in 0..MinSamples /\ samples' <= earned'
            /\ UNCHANGED <<old, worth, dated>>
        BY <1>2, <2>1
      <3> QED
        BY <1>1, <2>2, <2>4, <3>1, <3>2 DEF SpeedCommandTypeOK, peak
    <2>6. TrimStands'
      BY <1>1, <2>1, <2>2, <2>3 DEF TrimStands, TrimIsEarned, FileIsEarned
    <2> QED
      BY <2>5, <2>6 DEF SpeedInv, RampIsLed, SamplesEarned
  <1>10. CASE UNCHANGED speedVars
    BY <1>1, <1>10
       DEF speedVars, SpeedInv, SpeedCommandTypeOK, RampIsLed, SamplesEarned, TrimStands, TrimIsEarned, FileIsEarned, Earned,
           inputs, speed, launch, trim
  <1> QED
    BY <1>3, <1>4, <1>5, <1>6, <1>7, <1>8, <1>9, <1>10 DEF SpeedCommandNext

LEMMA SpeedInvariance == SpeedCommandSpec => []SpeedInv
  <1>1. SpeedCommandInit => SpeedInv
    BY SpeedInitInv
  <1>2. SpeedInv /\ [SpeedCommandNext]_speedVars => SpeedInv'
    BY SpeedNextInv
  <1> QED
    BY <1>1, <1>2, PTL DEF SpeedCommandSpec

\* Speeds, timers and samples stay in their ranges.
THEOREM SpeedTypeCorrect == SpeedCommandSpec => []SpeedCommandTypeOK
  <1>1. SpeedInv => SpeedCommandTypeOK
    BY DEF SpeedInv
  <1> QED
    BY <1>1, SpeedInvariance, PTL

\* What a process starts its trim from is the parameter's, or was learnt on this steering
\* pipeline, from enough samples and lately (save_persisted_trim, load_persisted_trim).
THEOREM TrimFileIsEarned == SpeedCommandSpec => []TrimIsEarned
  <1>1. SpeedInv => TrimIsEarned
    BY DEF SpeedInv, TrimStands
  <1> QED
    BY <1>1, SpeedInvariance, PTL

\* Without a launch kick a command exceeds the last one, the speed measured with it
\* and the speed measured now by one acceleration step at most, over safe stops,
\* outages, hand-overs and restarts (publish_safe_stop, rate_limit_speed_command).
THEOREM CommandsDoNotSurge == SpeedCommandSpec => NoSurge
  <1> DEFINE kept == UNCHANGED <<out, basis, by>>
  <1>1. ASSUME SpeedInv, SpeedCommandNext
        PROVE  by' = "kick" \/ out' <= AtLeast(basis, v) + Accel \/ kept
    <2>1. /\ ramp \in Nat /\ basis \in Nat /\ v \in Nat /\ ramp <= basis /\ v \in 0..Top
      <3>1. AtLeast(Top, Boost) \in Nat
        BY SpeedConstants, AtLeastBounds
      <3> QED
        BY <1>1, <3>1, SpeedConstants DEF SpeedInv, SpeedCommandTypeOK, RampIsLed
    <2>2. /\ AtLeast(basis, v) \in Nat
          /\ basis <= AtLeast(basis, v) /\ v <= AtLeast(basis, v)
      BY <2>1, AtLeastBounds
    <2>3. CASE Drive
      <3>1. out' \in Nat /\ (by' # "kick" => out' <= ramp + Accel)
        <4>1. AtLeast(Top, Boost) \in Nat
          BY SpeedConstants, AtLeastBounds
        <4> QED
          BY <1>1, <2>3, <4>1, DriveBounds
      <3> QED
        BY <2>1, <2>2, <3>1, SpeedConstants
    <2>4. CASE Hold
      <3>1. PICK decision \in Decisions : out' = Guarded(v, decision)
        BY <2>4 DEF Hold
      <3>2. out' \in 0..Top /\ out' <= v
        BY <2>1, <3>1, SpeedConstants, GuardedBounds
      <3> QED
        BY <2>1, <2>2, <3>2, SpeedConstants
    <2>5. CASE SafeStop \/ Restart
      <3>1. out' = 0
        BY <2>5 DEF SafeStop, Restart
      <3> QED
        BY <2>2, <3>1, SpeedConstants
    <2>6. CASE OnOdom \/ OdomExpires \/ OnDriveMode \/ DriveModeExpires
               \/ OnCruiseLimit \/ CruiseExpires \/ SaveTrim \/ HalfDayPasses
      BY <2>6 DEF OnOdom, OdomExpires, OnDriveMode, DriveModeExpires, OnCruiseLimit,
                  CruiseExpires, SaveTrim, HalfDayPasses, speed
    <2> QED
      BY <1>1, <2>3, <2>4, <2>5, <2>6 DEF SpeedCommandNext
  <1>2. SpeedInv /\ [SpeedCommandNext]_speedVars =>
          [by' = "kick" \/ out' <= AtLeast(basis, v) + Accel]_<<out, basis, by>>
    <2>1. UNCHANGED speedVars => kept
      BY DEF speedVars, speed
    <2> QED
      BY <1>1, <2>1
  <1> QED
    BY <1>2, SpeedInvariance, PTL DEF SpeedCommandSpec, NoSurge

\* A command above its target has come down from the last cycle's
\* (rate_limit_speed_command, the end of a launch kick).
THEOREM CommandsComeDown == SpeedCommandSpec => OverspeedShrinks
  <1> DEFINE kept == UNCHANGED <<out, basis, by>>
  <1>1. ASSUME SpeedInv, SpeedCommandNext, by' = "ramp", out' > target'
        PROVE  out' < basis \/ kept
    <2>1. CASE Drive
      <3>1. AtLeast(Top, Boost) \in Nat
        BY SpeedConstants, AtLeastBounds
      <3>2. out' \in Nat /\ out' < ramp
        BY <1>1, <2>1, <3>1, DriveBounds
      <3>3. ramp \in Nat /\ basis \in Nat /\ ramp <= basis
        BY <1>1, <3>1, SpeedConstants DEF SpeedInv, SpeedCommandTypeOK, RampIsLed
      <3> QED
        BY <3>2, <3>3
    <2>2. CASE Hold \/ SafeStop \/ Restart
      BY <1>1, <2>2 DEF Hold, SafeStop, Restart
    <2>3. CASE OnOdom \/ OdomExpires \/ OnDriveMode \/ DriveModeExpires
               \/ OnCruiseLimit \/ CruiseExpires \/ SaveTrim \/ HalfDayPasses
      BY <2>3 DEF OnOdom, OdomExpires, OnDriveMode, DriveModeExpires, OnCruiseLimit,
                  CruiseExpires, SaveTrim, HalfDayPasses, speed
    <2> QED
      BY <1>1, <2>1, <2>2, <2>3 DEF SpeedCommandNext
  <1>2. SpeedInv /\ [SpeedCommandNext]_speedVars =>
          [by' = "ramp" /\ out' > target' => out' < basis]_<<out, basis, by>>
    <2>1. UNCHANGED speedVars => kept
      BY DEF speedVars, speed
    <2> QED
      BY <1>1, <2>1
  <1> QED
    BY <1>2, SpeedInvariance, PTL DEF SpeedCommandSpec, OverspeedShrinks

\* The command moves towards the target by one step at a time, up and down.
THEOREM CommandsAreRamped == SpeedCommandSpec => CommandIsRamped
  BY CommandsDoNotSurge, CommandsComeDown, PTL DEF CommandIsRamped

-----------------------------------------------------------------------------
(* The path tracker.  What it searches is a finite range, in which the first *)
(* of the nearest has to be shown to exist before anything is said of it.    *)

\* A set of natural numbers that is not empty has a least element.
LEMMA LeastElement ==
  ASSUME NEW T, T \subseteq Nat, T # {}
  PROVE  \E x \in T : \A y \in T : x <= y
  <1>1. PICK x \in T : \A y \in T : ~ (<<y, x>> \in OpToRel(<, Nat))
    BY NatLessThanWellFounded, WFMin
  <1>2. \A y \in T : ~ (y < x)
    BY <1>1 DEF OpToRel
  <1> QED
    BY <1>2

\* The first of the cheapest: a search over a range of integers finds something.
LEMMA FirstOfTheLeast ==
  ASSUME NEW low \in Int, NEW S, \A i \in S : i \in Int /\ i >= low, S # {},
         NEW Cost, \A i \in S : Cost[i] \in Nat
  PROVE  \E i \in S : \A j \in S : Cost[i] < Cost[j] \/ (Cost[i] = Cost[j] /\ i <= j)
  <1> DEFINE costs == {Cost[i] : i \in S}
  <1>1. PICK c \in costs : \A d \in costs : c <= d
    <2>1. costs \subseteq Nat /\ costs # {}
      OBVIOUS
    <2> HIDE DEF costs
    <2> QED
      BY <2>1, LeastElement
  <1> DEFINE offsets == {i - low : i \in {j \in S : Cost[j] = c}}
  <1>2. PICK o \in offsets : \A p \in offsets : o <= p
    <2>1. offsets \subseteq Nat /\ offsets # {}
      BY <1>1
    <2> HIDE DEF offsets
    <2> QED
      BY <2>1, LeastElement
  <1>3. PICK i \in S : Cost[i] = c /\ o = i - low
    BY <1>2
  <1>4. ASSUME NEW j \in S PROVE Cost[i] < Cost[j] \/ (Cost[i] = Cost[j] /\ i <= j)
    <2>1. c <= Cost[j] /\ c \in Nat /\ Cost[j] \in Nat
      BY <1>1
    <2>2. ASSUME Cost[j] = c PROVE i <= j
      <3>1. j - low \in offsets
        BY <2>2
      <3>2. o <= j - low
        BY <1>2, <3>1
      <3> HIDE DEF offsets, costs
      <3> QED
        BY <1>3, <3>2
    <2> HIDE DEF offsets, costs
    <2> QED
      BY <2>1, <2>2, <1>3
  <1> QED
    BY <1>4

-----------------------------------------------------------------------------
\* The two legs of the ring.
LEMMA Legs ==
  /\ Cells \in Nat /\ Cells >= 2 /\ Leg \subseteq Ring /\ 0 \in Leg /\ Leg # Ring
  /\ Cells - 1 \in Ring /\ Cells - 1 \notin Leg /\ Ring \subseteq Int
  <1>1. PICK half \in 1..Cells : Cells = 2 * half
    BY PathTrackerAssumption
  <1>2. Cells \in Nat /\ half \in Nat /\ half >= 1 /\ Cells \div 2 = half
    BY <1>1, PathTrackerAssumption
  <1> QED
    BY <1>1, <1>2 DEF Leg, Ring

\* Distances are natural numbers.
LEMMA DistanceIsNat == ASSUME PathTrackerTypeOK, NEW cell \in Ring PROVE Distance(cell) \in Nat
  <1>1. Along(cell) \in Int /\ Along(car) \in Int
    BY Legs DEF Along, Ring, Leg, PathTrackerTypeOK
  <1>2. Apart(Along(cell), Along(car)) \in Nat
    BY <1>1 DEF Apart
  <1> QED
    BY <1>2, PathTrackerAssumption DEF Distance

\* A scan of the cells finds one of them.
LEMMA NearestIsOne ==
  ASSUME PathTrackerTypeOK, NEW cells, cells \subseteq Ring, cells # {}
  PROVE  Nearest(cells) \in cells
  <1> DEFINE Cost == [i \in cells |-> Distance(i)]
  <1>1. \A i \in cells : Cost[i] = Distance(i) /\ Distance(i) \in Nat /\ i \in Int /\ i >= 0
    BY DistanceIsNat, Legs DEF Ring
  <1>2. \E i \in cells : \A j \in cells : Cost[i] < Cost[j] \/ (Cost[i] = Cost[j] /\ i <= j)
    <2>1. 0 \in Int /\ \A i \in cells : Cost[i] \in Nat /\ i \in Int /\ i >= 0
      BY <1>1
    <2> HIDE DEF Cost
    <2> QED
      BY <2>1, FirstOfTheLeast
  <1>3. \E i \in cells : \A j \in cells :
          Distance(i) < Distance(j) \/ (Distance(i) = Distance(j) /\ i <= j)
    BY <1>2
  <1> QED
    BY <1>3 DEF Nearest

\* The window of the search wraps around the ring, and finds a cell of it.
LEMMA WindowIsOnRing ==
  ASSUME PathTrackerTypeOK, NEW start \in Ring
  PROVE  InWindow(start) \in Ring
  <1> DEFINE Cell(offset) == (start + offset) % Cells
             Cost == [i \in (-Back)..Fwd |-> Distance(Cell(i))]
             best == CHOOSE i \in (-Back)..Fwd : \A j \in (-Back)..Fwd :
                        \/ Distance(Cell(i)) < Distance(Cell(j))
                        \/ Distance(Cell(i)) = Distance(Cell(j)) /\ i <= j
  <1>0. Back \in Nat /\ Fwd \in Nat /\ Cells \in Nat /\ Cells > 0 /\ start \in Int
    BY PathTrackerAssumption, Legs DEF Ring
  <1>1. \A i \in Int : Cell(i) \in Ring
    BY <1>0 DEF Ring
  <1>2. \A i \in (-Back)..Fwd : Cost[i] = Distance(Cell(i)) /\ Cost[i] \in Nat /\ i \in Int /\ i >= -Back
    <2> HIDE DEF Cell
    <2>1. \A i \in (-Back)..Fwd : Cell(i) \in Ring
      BY <1>0, <1>1
    <2>2. \A i \in (-Back)..Fwd : Distance(Cell(i)) \in Nat
      BY <2>1, DistanceIsNat
    <2> QED
      BY <1>0, <2>2
  <1>3. \E i \in (-Back)..Fwd : \A j \in (-Back)..Fwd :
          Cost[i] < Cost[j] \/ (Cost[i] = Cost[j] /\ i <= j)
    <2>1. -Back \in Int /\ (-Back)..Fwd # {}
      BY <1>0
    <2> HIDE DEF Cost
    <2> QED
      BY <1>2, <2>1, FirstOfTheLeast
  <1>4. best \in (-Back)..Fwd
    <2> HIDE DEF Cell
    <2> QED
      BY <1>3
  <1>5. InWindow(start) = Cell(best)
    BY DEF InWindow
  <1> HIDE DEF Cell, best
  <1> QED
    BY <1>0, <1>1, <1>4, <1>5

\* Some cell of the ring faces along the car.
LEMMA RingIsAligned == PathTrackerTypeOK => Aligned(Ring) # {}
  <1>1. Facing(0) = 1 /\ Facing(Cells - 1) = -1 /\ 0 \in Ring
    BY Legs DEF Facing
  <1>2. Heading \in {1, -1}
    <2>1. CASE car \in Leg
      <3>1. Facing(car) = 1
        BY <2>1 DEF Facing
      <3> QED
        BY <3>1 DEF Heading
    <2>2. CASE car \notin Leg
      <3>1. Facing(car) = -1
        BY <2>2 DEF Facing
      <3>2. \A f \in Int : f + 1 = 0 => -f = 1
        OBVIOUS
      <3>4. Facing(car) \in Int /\ Facing(car) + 1 = 0
        BY <3>1
      <3>5. -Facing(car) = 1
        BY ONLY <3>2, <3>4
      <3>3. Heading = 1 \/ Heading = -1
        BY <3>1, <3>5, Zenon DEF Heading
      <3> QED
        BY <3>3
    <2> QED
      BY <2>1, <2>2
  <1> QED
    BY <1>1, <1>2, Legs DEF Aligned

\* The index taken is one of the path's, and faces along the car if one can.
LEMMA TrackedIsRight ==
  ASSUME PathTrackerTypeOK, NEW cells \in {Ring, Leg}, NEW tracker \in Ring
  PROVE  /\ Tracked(cells, tracker) \in cells
         /\ Aligned(cells) # {} => Facing(Tracked(cells, tracker)) = Heading
  <1> DEFINE start == IF tracker \in cells THEN tracker ELSE 0
             found == IF cells = Ring /\ Distance(InWindow(start)) <= FailSafe
                      THEN InWindow(start) ELSE NearestAligned(cells)
  <1>1. cells \subseteq Ring /\ cells # {} /\ start \in Ring
    BY Legs
  <1>2. NearestAligned(cells) \in cells
        /\ (Aligned(cells) # {} => NearestAligned(cells) \in Aligned(cells))
    <2>1. Aligned(cells) \subseteq cells
      BY DEF Aligned
    <2> QED
      BY <1>1, <2>1, NearestIsOne DEF NearestAligned
  <1>3. found \in cells
    BY <1>1, <1>2, WindowIsOnRing
  <1>4. Tracked(cells, tracker) = Regained(cells, found)
    BY DEF Tracked
  <1> HIDE DEF found
  <1> QED
    BY <1>2, <1>3, <1>4 DEF Regained, Aligned

TrackerInv == PathTrackerTypeOK /\ NeverAstray

LEMMA TrackerInitInv == PathTrackerInit => TrackerInv
  BY Legs DEF PathTrackerInit, TrackerInv, PathTrackerTypeOK, NeverAstray, Ring

LEMMA TrackerNextInv == TrackerInv /\ [PathTrackerNext]_trackerVars => TrackerInv'
  <1> SUFFICES ASSUME TrackerInv, [PathTrackerNext]_trackerVars PROVE TrackerInv'
    OBVIOUS
  <1> USE DEF TrackerInv, PathTrackerTypeOK, NeverAstray
  <1>1. CASE OnLine
    BY <1>1, NearestIsOne, Legs DEF OnLine, poseVars
  <1>2. CASE OnPath
    BY <1>2, Legs DEF OnPath, StartsOver, poseVars
  <1>3. CASE PathExpires
    BY <1>3 DEF PathExpires, poseVars
  <1>4. CASE OnPose
    BY <1>4 DEF OnPose, pathVars
  <1>5. CASE FollowLocal /\ UNCHANGED <<poseVars, pathVars>>
    <2>1. PathCells \in {Ring, Leg} /\ (path = "open" => PathCells = Leg)
      BY DEF PathCells
    <2>2. /\ localAt' \in PathCells
          /\ Aligned(PathCells) # {} => Facing(localAt') = Heading
      BY <1>5, <2>1, TrackedIsRight DEF FollowLocal
    <2>3. hasLine => Aligned(PathCells) # {}
      BY <1>5 DEF FollowLocal, GivesWay
    <2>4. astray' = FALSE
      BY <1>5, <2>2, <2>3 DEF FollowLocal
    <2> QED
      BY <1>5, <2>1, <2>2, <2>4, Legs DEF FollowLocal, poseVars, pathVars
  <1>6. CASE FollowGlobal /\ UNCHANGED <<poseVars, pathVars>>
    <2>1. globalAt' \in Ring /\ Facing(globalAt') = Heading
      BY <1>6, TrackedIsRight, RingIsAligned DEF FollowGlobal, Start
    <2> QED
      BY <1>6, <2>1 DEF FollowGlobal, poseVars, pathVars
  <1>7. CASE StopPathless /\ UNCHANGED <<poseVars, pathVars>>
    BY <1>7 DEF StopPathless, poseVars, pathVars
  <1>8. CASE UNCHANGED trackerVars
    BY <1>8 DEF trackerVars, poseVars, pathVars
  <1> QED
    BY <1>1, <1>2, <1>3, <1>4, <1>5, <1>6, <1>7, <1>8 DEF PathTrackerNext, FollowPath

\* The tracker keeps its type, and with a global line to fall back to it never takes an
\* index on the opposite leg, for every ring, gap between the legs and search window.
THEOREM TrackerNeverAstray == PathTrackerSpec => [](PathTrackerTypeOK /\ NeverAstray)
  <1>1. TrackerInv => PathTrackerTypeOK /\ NeverAstray
    BY DEF TrackerInv
  <1> QED
    BY <1>1, TrackerInitInv, TrackerNextInv, PTL DEF PathTrackerSpec
=============================================================================
