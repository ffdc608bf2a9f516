SPECIFICATION Spec
CONSTANTS
    la = la
    lb = lb
    Leases = {la}
    Cases <- Unreadable
    Drain = Drain
    MaxFaults = 0
CHECK_DEADLOCK FALSE
INVARIANTS
    RefusedWaits
