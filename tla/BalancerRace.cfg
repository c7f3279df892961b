SPECIFICATION Spec
CONSTANTS
    None = None
    Slot = {s1}
    Node = {n1, n2}
    Endpoint = {e1, e2}
    Goroutine = {g1, g2}
INVARIANTS
    PicksTheOwner
