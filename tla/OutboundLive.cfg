SPECIFICATION LiveSpec
CONSTANTS
    a1 = a1
    a2 = a2
    d1 = d1
    Nobody = Nobody
    Answers = {a1}
    Daemons = {d1}
    Unroutable = {}
    Disturbances = {"report", "count", "answer", "late", "look", "stamp", "abandon", "ack", "append", "receipt", "stop", "crash", "lose", "group"}
    MaxCycles = 2
    MaxTries = 2
    LaneDepth = 2
    StreamCap = 1
    MaxFaults = 2
PROPERTIES
    EveryAnswerEnds
