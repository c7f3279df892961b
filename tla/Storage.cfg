SPECIFICATION Spec
CONSTANTS
    None = None
    Instance = {i1, i2, i3}
    Slot = {s1, s2}
    HandoffId = {h1, h2}
    Lease = 1
    QuietWindow = 2
    MaxInflight = 2
    MaxPerSource = 1
    MaxPerTarget = 1
    MaxPlanned = 2
    BatchSlots = 1
    MaxClock = 3
    MaxEpoch = 2
SYMMETRY Symmetry
CONSTRAINT Bounds
INVARIANTS
    HandoffMatchesSlot
    PartiesRegistered
    HorizonBehindFence
    DrainsWithinBudget
PROPERTIES
    EpochFence
    TakeoverFence
    RevisionFence
CHECK_DEADLOCK FALSE
