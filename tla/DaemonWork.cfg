SPECIFICATION Spec
CONSTANTS
    Clients = {c1, c2, c3}
    Commands = {"start", "tool"}
    Slow = FALSE
    Faults = {"crash"}
    None = None
SYMMETRY MCSymmetry
INVARIANTS
    OneServer
    NoOrphan
CHECK_DEADLOCK FALSE
