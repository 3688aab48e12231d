SPECIFICATION CaptureSpec
CONSTANTS
    Threads = {1, 2}
    MaxDepth = 2
    Kinds <- MCKinds
    Faults = {"late"}
    Features = {"memory"}
    None = None
    Requests <- MCRequests
    MaxRangeBytes = 2
    MaxTotalBytes = 3
INVARIANTS
    MostlyRightContext
    NoteIsRight
    SelectionKept
    BundleIsOfOnePlace
