SPECIFICATION LiveSpec
CONSTANTS
    la = la
    lb = lb
    Leases = {la, lb}
    Cases <- Mixed
    Drain = Drain
    MaxFaults = 2
CHECK_DEADLOCK FALSE
INVARIANTS
    WaitsOnDisk
    EndsUnrecorded
PROPERTIES
    EachIsAnswered
