SPECIFICATION PartsSpec
CONSTANTS
    None = None
    s1 = s1
    s2 = s2
    c1 = c1
    Slot = {s1, s2}
    Node = {d1, d2}
    Caller = {c1, c2}
    Wanted <- Batches
    Endpoint = {"e1", "e2"}
    Goroutine = {"g1", "g2"}
    MaxAttempts = 3
    MaxVersion = 3
    MaxFaults = 1
CHECK_DEADLOCK FALSE
INVARIANTS
    RestServes
    WholeBatch
    NewestIsCurrent
    InOrderPicksTheOwner
PROPERTIES CallsReturn
