SPECIFICATION LiveSpec
CONSTANTS
    da = da
    db = db
    c1 = c1
    c2 = c2
    Entries = {1, 2, 3, 4, 5}
    Left = {1}
    Poison = {5}
    Destinations = {da, db}
    Addressings <- TwoDestinations
    Channels = {c1, c2}
    None = None
    LaneDepth = 1
    InFlight = 1
    MaxTries = 2
    MaxStops = 1
    MaxFaults = 1
CHECK_DEADLOCK FALSE
INVARIANTS
    OneLaneEach
    NothingStranded
    AckedWasSettled
    InOnePlace
PROPERTIES
    EveryEntryEnds
    DeliversInOrder
