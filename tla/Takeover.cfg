SPECIFICATION HASpec
CONSTANTS
    None = None
    i1 = i1
    i2 = i2
    Instance = {i1, i2}
    Slot = {s1}
    HandoffId = {}
    Caller = {c1}
    StartTime <- Successor
    Stopping = {}
    Crashing = {i1}
    Lease = 2
    SafetyMargin = 1
    MaxPause = 1
    MaxSkew = 1
    QuietWindow = 5
    MaxClock = 5
    MaxEpoch = 2
    Step = 2
    MaxMark = 4
    MaxInflight = 1
    MaxPerSource = 1
    MaxPerTarget = 1
    MaxPlanned = 1
    BatchSlots = 1
CHECK_DEADLOCK FALSE
CONSTRAINT OneRangeEach
INVARIANTS ServingIsBacked AcknowledgedGates
PROPERTIES NoLateAllocation Monotonic
