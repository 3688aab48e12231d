SPECIFICATION RuntimeSpec
CONSTANTS
    None = None
    Ids <- MCIds
    Threads = {1}
    Pids = {7}
    Reasons <- MCReasons
    ExitCodes = {0}
    StopEvents <- MCStopEvents
    StopHistoryLimit = 1
INVARIANTS
    RuntimeTypeOK
    SelectedMirror
    DeadSessionIsBlank
    HistoryIsRecent
PROPERTY
    CountKept
