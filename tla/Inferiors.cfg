SPECIFICATION Spec
CONSTANTS
    None = None
    Ids = {1, 2, 3}
    Reasons = {"stop"}
    ExitCodes = {}
    StopEvents = {}
    StopHistoryLimit = 0
    MaxQueue = 1
    Usages <- MCUsages
INVARIANTS
    RuntimeKnowsGdb
    InventoryIsTrue
    CreateKeepsSelection
    ThreadOfCurrent
