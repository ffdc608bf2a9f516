SPECIFICATION LiveSpec
CONSTANTS
    k1 = k1
    k2 = k2
    c1 = c1
    c2 = c2
    r1 = r1
    Keys = {k1, k2}
    FleetOf <- OneFleet
    NoKey = NoKey
    Replicas = {r1}
    Callers = {c1, c2}
    Home <- Alone
    Wants <- Either
    Stagers = {c1}
    FleetBudget = 1
    DeploymentBudget = 1
    SampleEvery = 1
    MaxTroubles = 1
INVARIANTS
    FleetWithinBudget
    FigureCovers
PROPERTIES
    RepeatsAccepted
    RefusalClears
