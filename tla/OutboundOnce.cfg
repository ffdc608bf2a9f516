SPECIFICATION Spec
CONSTANTS
    a1 = a1
    a2 = a2
    d1 = d1
    Nobody = Nobody
    Answers = {a1, a2}
    Daemons = {d1}
    Unroutable = {a2}
    Disturbances = {"report", "answer", "late", "body", "stamp", "abandon", "ack", "append", "receipt", "stop", "crash", "group", "lose"}
    MaxCycles = 2
    MaxTries = 2
    LaneDepth = 1
    StreamCap = 1
    MaxFaults = 2
INVARIANTS
    DeliveredWasPosted
    PostedOnce
PROPERTIES
    DeliveredIsFinal
