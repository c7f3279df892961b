SPECIFICATION PartsSpec
CONSTANTS
    None = None
    Slot = {s1}
    Node = {d1, d2}
    Control = {p1, p2}
    MaxEpoch = 2
    MaxTenure = 3
    MaxPauses = 1
    Instance = {a1, a2, b1}
    NodeOf <- Nodes
    SlotCount = 3
    MaxRowEpoch = 1
    MaxOutages = 2
    MayFence = TRUE
    LeaseDeadline = 10
    RenewInterval = 3
    ReserveTimeout = 5
    CallMax = 1
    Contender = {"refresh", "handoff"}
    MaxTimeouts = 1
    a1 = a1
    a2 = a2
    b1 = b1
    a = a
    b = b
CHECK_DEADLOCK FALSE
INVARIANTS
    OneRoutePerVersion
    EpochsFollowVersions
    RouteIsOwnership
    NoLateEntry
    NeverLiveAgain
    NeverLapses
PROPERTIES
    PublishesChanges
    RoutesArrive
    ProcessIsReady
