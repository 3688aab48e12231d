SPECIFICATION LiveSpec
CONSTANTS
    Threads = {t1, t2}
    MaxSessions = 2
    Operations <- MCNoList
    Faults = {"hangs"}
PROPERTY
    ShutdownReturns
    CloseReturns
CHECK_DEADLOCK FALSE
