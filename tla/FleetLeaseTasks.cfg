SPECIFICATION Spec
CONSTANTS
    r1 = r1
    r2 = r2
    Runners = {r1}
    NoRunner = NoRunner
    MaxEvents = 3
    Asks = {}
    Replies = {2}
    Continuations = {1}
    Inputs = {2}
    NeedsTasks = FALSE
    TTL = 1
    MaxRuntime = 1
    HoldIdle = 0
    GateWindow = 1
    Grace = 0
    Retention = 0
    MaxFence = 2
    MaxFaults = 0
    MaxNow = 3
CHECK_DEADLOCK FALSE
INVARIANTS
    ActiveHoldsSlot
    InOrder
    SettledIffTerminal
PROPERTIES
    ServesInTurn
