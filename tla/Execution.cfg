SPECIFICATION LiveSpec
CONSTANTS
    None = None
    Ids <- MCIds
    Reasons <- MCReasons
    ExitCodes = {}
    StopEvents <- MCStopEvents
    StopHistoryLimit = 2
    Usages <- MCUsages
    MaxCommands = 5
INVARIANTS
    ExecReportsOwnStop
    StopsInOrder
    CalmStateIsActual
    WaitBlocksWhileRunning
PROPERTY
    StopIsReported
CHECK_DEADLOCK FALSE
