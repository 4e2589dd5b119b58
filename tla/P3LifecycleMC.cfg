\* Two obstacles anywhere on a stretch where one can stand in the cluster, within the
\* lookahead behind it, beyond the horizon though in sight, or behind the car; they grow
\* and flicker.
SPECIFICATION Spec
CONSTANTS
    Ids = {o1, o2}
    Extents = {0, 1, 3}
    Inflation = 1
    Retention = 1
    Lap = 10
    Lookahead = 1
    Sight = 3
    Far = 3
SYMMETRY AnyOrder
CHECK_DEADLOCK FALSE
PROPERTIES
    PublishedClears
    RecordRunsItsCourse
