SPECIFICATION Spec
CONSTANTS
    r1 = r1
    r2 = r2
    Runners = {r1, r2}
    NoRunner = NoRunner
    MaxEvents = 2
    Asks = {0}
    Replies = {1}
    Continuations = {}
    Inputs = {}
    NeedsTasks = FALSE
    TTL = 1
    MaxRuntime = 2
    HoldIdle = 2
    GateWindow = 1
    Grace = 0
    Retention = 1
    MaxFence = 3
    MaxFaults = 1
    MaxNow = 3
SYMMETRY RunnerSymmetry
CHECK_DEADLOCK FALSE
INVARIANTS
    SettledOnce
    ResumesOwnRun
    AnswersStand
    BilledWithinGrant
    RecordsOfSettler
    NeverStranded
PROPERTIES
    StalePassWritesNothing
    ReportIsFinal
