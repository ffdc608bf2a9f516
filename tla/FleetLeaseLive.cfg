SPECIFICATION LiveSpec
CONSTANTS
    r1 = r1
    Runners = {r1}
    NoRunner = NoRunner
    MaxEvents = 2
    Asks = {1}
    Replies = {}
    Continuations = {1}
    Inputs = {}
    NeedsTasks = TRUE
    TTL = 1
    MaxRuntime = 1
    HoldIdle = 0
    GateWindow = 1
    Grace = 0
    Retention = 0
    MaxFence = 4
    MaxFaults = 1
    MaxNow = 14
CHECK_DEADLOCK FALSE
PROPERTIES
    EveryEventEnds
