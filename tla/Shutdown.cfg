SPECIFICATION HASpec
CONSTANTS
    None = None
    i1 = i1
    i2 = i2
    Instance = {i1}
    Slot = {s1}
    HandoffId = {h1}
    Caller = {c1, c2}
    StartTime <- Together
    Stopping = {i1}
    Crashing = {}
    Lease = 2
    SafetyMargin = 1
    MaxPause = 1
    MaxSkew = 0
    QuietWindow = 4
    MaxClock = 2
    MaxEpoch = 1
    Step = 2
    MaxMark = 4
    MaxInflight = 1
    MaxPerSource = 1
    MaxPerTarget = 1
    MaxPlanned = 1
    BatchSlots = 1
CHECK_DEADLOCK FALSE
INVARIANTS DrainedIsQuiet HATypeOK
SYMMETRY Callers
CONSTRAINT Bounds
