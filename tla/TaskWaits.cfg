SPECIFICATION Spec
CONSTANTS
    Readers = 2
    MaxGen = 5
    MaxLeases = 3
    MaxReads = 1
    MaxInputs = 1
    MaxAttempts = 1
    MaxTroubles = 1
CHECK_DEADLOCK FALSE
INVARIANTS
    TypeOK
    OwnsItsWork
    InputsReach
PROPERTIES
    StoppedStays
    SignedCompletionWakes
