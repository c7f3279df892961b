SPECIFICATION PartsSpec
CONSTANTS
    DriftBound = 2
    JumpBound = 1
    MaxTime = 3
    MaxDrift = 3
    MaxJump = 2
    DefaultStep = 3
    MaxStep = 7
    RatioNum = 1
    RatioDen = 2
    Multiplier = 2
    Window = 3
    MinSamples = 2
    ResetAfter = 3
    IncreaseBelow = 4
    DecreaseFrom = 8
    ReserveTimeout = 4
    RingSize = 3
    RecomputeEvery = 3
    RecomputeSamples = 3
    MinObservation = 1
    SampleEvery = 1
    MinLead = 1
    MinBackoff = 1
    MaxBackoff = 4
    Counts = {1, 3}
    RefillUntil = 5
    Caller = {c1, c2}
    Key = {k1, k2, k3}
    Capacity = 2
    MaxId = 2
    MaxFiled = 3
    RecordUntil = 3
SYMMETRY Symmetry
CHECK_DEADLOCK FALSE
INVARIANTS
    NoFalseAlarm
    NothingBlatantMissed
PROPERTIES
    ExhaustionPrefetches
    FlagsAreReal
    LatestIsCompared
