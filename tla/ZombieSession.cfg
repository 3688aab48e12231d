SPECIFICATION Spec
CONSTANTS
    Threads = {t1}
    MaxSessions = 1
    Operations <- MCOperations
    Faults = {"dies"}
INVARIANT
    ReachableIsInitialized
