SPECIFICATION Spec
CONSTANTS
    Threads = {t1, t2}
    MaxSessions = 2
    Operations <- MCOperations
    Faults <- MCFaults
SYMMETRY MCSymmetry
INVARIANTS
    ClosingIsTemporary
    IdleMeansNoDebugger
PROPERTIES
    WorkflowIsolation
    ImplementsDirectory
