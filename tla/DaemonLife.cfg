SPECIFICATION LiveSpec
CONSTANTS
    Clients = {c1, c2}
    Commands = {"attach", "close", "use", "status", "stop", "force_stop"}
    Slow = TRUE
    Faults = {"killed"}
    None = None
PROPERTY
    DecidesToEndOnDemand
    InvocationEnds
CHECK_DEADLOCK FALSE
