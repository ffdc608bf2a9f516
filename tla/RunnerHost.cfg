SPECIFICATION LiveSpec
CONSTANTS
    fa = fa
    fb = fb
    Leases = {1, 2, 3}
    Fleets = {fa, fb}
    Orders <- FleetOrders
    Other = Other
    None = None
    Workers = 2
    MaxLapses = 1
CHECK_DEADLOCK FALSE
INVARIANTS
    TypeOK
    ResumesRecorded
    NothingLeaks
PROPERTIES
    EndsOnlyStale
    StopsClean
