\* The inputs the computations are given; a computation ends with its answer.
SPECIFICATION Spec
CONSTANTS
    None = None
    NoLabel = NoLabel
    NoLine = NoLine
    NoLimit = NoLimit
    Newline = "nl"
    StepTools = {"inspect", "session_query"}
    WorkflowTools = {"batch"}
    SessionManage = "session_manage"
    SessionQuery = "session_query"
    SchemaCases <- MCSchemaCases
    EventLists <- MCEventLists
    ChunkLists <- MCChunkLists
    SourceCases <- MCSourceCases
    RegisterCases <- MCRegisterCases
    CodeCases <- MCCodeCases
    MemoryCases <- MCMemoryCases
INVARIANTS
    FlatAcceptsAll
    NotesTellTheRest
    StepsAsWritten
    LinesSurviveChunks
    ListingsAreExact
CHECK_DEADLOCK FALSE
