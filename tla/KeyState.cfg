SPECIFICATION MixedSpec
CONSTANTS
    None = None
    c1 = c1
    c2 = c2
    k1 = k1
    k2 = k2
    Caller = {c1, c2}
    Key = {k1}
    Requests <- Mixed
    Calls <- TwoAndOne
    Step = 3
    MaxStates = 2
    MaxMark = 6
    MaxFaults = 1
CHECK_DEADLOCK FALSE
INVARIANTS
    SingleFlight
    RetiredIsQuiet
PROPERTIES
    Monotonic
