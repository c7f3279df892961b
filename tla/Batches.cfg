SPECIFICATION CrossedSpec
CONSTANTS
    None = None
    c1 = c1
    c2 = c2
    k1 = k1
    k2 = k2
    Caller = {c1, c2}
    Key = {k1, k2}
    Requests <- Crossed
    Calls <- OneEach
    Step = 2
    MaxStates = 1
    MaxMark = 6
    MaxFaults = 1
CHECK_DEADLOCK FALSE
PROPERTIES EveryCallEnds
