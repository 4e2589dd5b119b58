----------------------------- MODULE PathTracker ----------------------------
(***************************************************************************)
(* Which of its paths control_map_node follows, and the index of the       *)
(* waypoint it takes the car to be at.                                     *)
(*                                                                         *)
(* A closed path is the ring of cells 0..Cells-1: out along one leg of the *)
(* track and back beside it, so that two waypoints can be near each other  *)
(* and face opposite ways.  An open path is the first leg.  A waypoint's   *)
(* index is its cell.                                                      *)
(***************************************************************************)
EXTENDS Integers

CONSTANTS
    Cells,        \* waypoints of a closed path, an even number
    Gap,          \* distance between the two legs
    Back, Fwd,    \* the window of the index search: 1 m and 3 m
    FailSafe      \* 2.5 m

ASSUME PathTrackerAssumption ==
    /\ Cells \in Nat /\ \E half \in 1..Cells : Cells = 2 * half
    /\ {Gap, Back, Fwd, FailSafe} \subseteq Nat \ {0}

VARIABLES
    car,         \* the cell the car is at
    turned,      \* the measured heading is the opposite of the cell's
    hasLine,     \* waypoints_ is not empty
    path,        \* local_waypoints_: "none", "closed" or "open"
    pathFresh,   \* it is younger than local_fresh_timeout
    follows,     \* the source of the last control cycle: "none", "local" or "global"
    localAt,     \* last_local_idx_
    globalAt,    \* last_target_idx_
    astray       \* history: the last cycle took an index that faces against the car
                 \* although a line was there

poseVars    == <<car, turned>>
pathVars    == <<hasLine, path, pathFresh>>
trackerVars == <<poseVars, pathVars, follows, localAt, globalAt, astray>>

Ring == 0..(Cells - 1)
Leg  == 0..(Cells \div 2 - 1)

PathTrackerTypeOK ==
    /\ car \in Ring /\ turned \in BOOLEAN
    /\ hasLine \in BOOLEAN
    /\ path \in {"none", "closed", "open"} /\ pathFresh \in BOOLEAN
    /\ follows \in {"none", "local", "global"}
    /\ localAt \in Ring /\ globalAt \in Ring /\ astray \in BOOLEAN
    /\ path = "open" => localAt \in Leg
-----------------------------------------------------------------------------
\* Where a cell lies along the legs, and which way it faces.
Along(cell)   == IF cell \in Leg THEN cell ELSE Cells - 1 - cell
Facing(cell)  == IF cell \in Leg THEN 1 ELSE -1
Heading       == IF turned THEN -Facing(car) ELSE Facing(car)
Apart(a, b)   == IF a > b THEN a - b ELSE b - a
Distance(cell) ==
    Apart(Along(cell), Along(car)) + (IF Facing(cell) = Facing(car) THEN 0 ELSE Gap)

\* scan_closest: the first of the nearest.
Nearest(cells) ==
    CHOOSE i \in cells : \A j \in cells :
        Distance(i) < Distance(j) \/ (Distance(i) = Distance(j) /\ i <= j)

Aligned(cells) == {i \in cells : Facing(i) = Heading}

\* scan_closest_heading_gated.
NearestAligned(cells) ==
    IF Aligned(cells) = {} THEN Nearest(cells) ELSE Nearest(Aligned(cells))

\* A closed path is searched around the last index only.
InWindow(start) ==
    LET Cell(offset) == (start + offset) % Cells
        best == CHOOSE i \in (-Back)..Fwd : \A j \in (-Back)..Fwd :
                    \/ Distance(Cell(i)) < Distance(Cell(j))
                    \/ Distance(Cell(i)) = Distance(Cell(j)) /\ i <= j
    IN Cell(best)

\* Mutant of Regained: the opposite leg is good enough.
RegainedNever(cells, i) == i

\* An index that faces the wrong way is given up for one that does not.
Regained(cells, i) ==
    IF Facing(i) # Heading /\ Aligned(cells) # {} THEN NearestAligned(cells) ELSE i

\* The index of this cycle, from the one the source had when it was followed last.
Tracked(cells, tracker) ==
    LET start == IF tracker \in cells THEN tracker ELSE 0
        close == InWindow(start)
        found == IF cells = Ring /\ Distance(close) <= FailSafe
                 THEN close ELSE NearestAligned(cells)
    IN Regained(cells, found)

PathCells == IF path = "open" THEN Leg ELSE Ring
-----------------------------------------------------------------------------
\* global_path_callback: the first line is searched as a whole, a later one is not.
OnLine ==
    /\ hasLine' = TRUE
    /\ globalAt' = IF hasLine THEN globalAt ELSE Nearest(Ring)
    /\ UNCHANGED <<poseVars, path, pathFresh, follows, localAt, astray>>

\* Mutant of StartsOver: only a path after none does.
StartsOverAfterNone(p) == p # "none" /\ path = "none"

\* Whether the index of the last local path is forgotten.
StartsOver(p) == p # "none" /\ p # path

\* local_path_callback: a path of another size starts its tracker over, an empty one
\* leaves its time alone.
OnPath ==
    /\ path' \in {"none", "closed", "open"}
    /\ pathFresh' = (pathFresh \/ path' # "none")
    /\ localAt' = IF StartsOver(path') THEN 0 ELSE localAt
    /\ UNCHANGED <<poseVars, hasLine, follows, globalAt, astray>>

PathExpires ==
    /\ pathFresh /\ pathFresh' = FALSE
    /\ UNCHANGED <<poseVars, hasLine, path, follows, localAt, globalAt, astray>>

\* The localisation: the car anywhere, facing anywhere.
OnPose ==
    /\ car' \in Ring /\ turned' \in BOOLEAN
    /\ UNCHANGED <<pathVars, follows, localAt, globalAt, astray>>

\* A local path without any waypoint that faces along the car gives way to the line.
GivesWay == Aligned(PathCells) = {} /\ hasLine

FollowLocal ==
    /\ path # "none" /\ pathFresh /\ ~GivesWay
    /\ follows' = "local" /\ localAt' = Tracked(PathCells, localAt)
    /\ astray' = (hasLine /\ Facing(localAt') # Heading)
    /\ UNCHANGED globalAt

\* Mutant of Start: the search starts where it started last time.
StartFrozen == 0

\* Where the search on the global line starts.
Start == globalAt

FollowGlobal ==
    /\ hasLine /\ (path = "none" \/ ~pathFresh \/ GivesWay)
    /\ follows' = "global" /\ globalAt' = Tracked(Ring, Start)
    /\ astray' = (Facing(globalAt') # Heading)
    /\ UNCHANGED localAt

StopPathless ==
    /\ ~hasLine /\ (path = "none" \/ ~pathFresh)
    /\ follows' = "none" /\ astray' = FALSE /\ UNCHANGED <<localAt, globalAt>>

\* control_loop, as far as the index.
FollowPath == (FollowLocal \/ FollowGlobal \/ StopPathless) /\ UNCHANGED <<poseVars, pathVars>>

PathTrackerInit ==
    /\ car = 0 /\ turned = FALSE
    /\ hasLine = FALSE /\ path = "none" /\ pathFresh = FALSE
    /\ follows = "none" /\ localAt = 0 /\ globalAt = 0
    /\ astray = FALSE

PathTrackerNext ==
    \/ OnLine \/ OnPath \/ PathExpires \/ OnPose
    \/ FollowPath

\* The wall timer runs the loop.
PathTrackerSpec == PathTrackerInit /\ [][PathTrackerNext]_trackerVars /\ WF_trackerVars(FollowPath)
-----------------------------------------------------------------------------
\* The index a path was left at (an outage, an avoidance, a pose that jumped) does not
\* stay: a car that keeps its place is found there on the path it follows, through the
\* window of the search alone or through the fail-safe and the heading gate.
CarIsFound ==
    \A cell \in Ring : <>[](car = cell /\ ~turned) =>
        /\ <>[](follows = "global") => <>[](globalAt = cell)
        /\ \A kind \in {"closed", "open"} :
               <>[](follows = "local" /\ path = kind /\ cell \in PathCells)
                 => <>[](localAt = cell)

\* With a global line to fall back to, no cycle steers for a waypoint of the opposite
\* leg, whatever the pose did and whichever paths came: there is always one that faces
\* along the car, and the fallback, the scan or the second look takes it.
NeverAstray == ~astray

\* The index is one of the path's, faces as the car does and comes to where the car is.
IndexIsRight == [](PathTrackerTypeOK /\ NeverAstray) /\ CarIsFound
=============================================================================
