SPECIFICATION Spec
CONSTANTS
    None = None
    Ids = {1}
    Reasons = {"signal-received", "exited"}
    ExitCodes = {3}
    StopEvents <- MCStopEvents
    StopHistoryLimit = 2
    MaxIterations = 3
    MaxSteps = 2
    Criteria <- MCCriteria
    Faults = {"raises", "stuck"}
INVARIANTS
    BatchReportsStopsEarly
    NoDebuggerLeft
    ReportIsCoherent
    JudgedByItsOwn
PROPERTIES
    JobEnds
