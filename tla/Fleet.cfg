SPECIFICATION FairSpec
CONSTANTS
    None = None
    Node = {1, 2}
    SlotCount = 3
    BatchSlots = 2
    MaxPlanned = 2
    Generations = 2
    MaxChanges = 3
    MaxRaces = 1
CHECK_DEADLOCK FALSE
PROPERTIES ClaimsWithinQuota NoThrash EventuallyBalanced
