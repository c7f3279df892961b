SPECIFICATION HASpec
CONSTANTS
    None = None
    i1 = i1
    i2 = i2
    Instance = {i1, i2}
    Slot = {s1}
    HandoffId = {h1}
    Caller = {c1}
    StartTime <- Together
    Stopping = {}
    Crashing = {}
    Lease = 2
    SafetyMargin = 1
    MaxPause = 1
    MaxSkew = 0
    QuietWindow = 4
    MaxClock = 0
    MaxEpoch = 2
    Step = 1
    MaxMark = 1
    MaxInflight = 1
    MaxPerSource = 1
    MaxPerTarget = 1
    MaxPlanned = 1
    BatchSlots = 1
SYMMETRY Symmetry
CHECK_DEADLOCK FALSE
INVARIANTS DrainedIsQuiet
