SPECIFICATION Spec
CONSTANTS
    FETCH_THREAD = 2
    WRITE_THREAD = 2
    FilesPerDir = 2
    QueueCapacity = 1
    Content <- SmallContent
    MaxRuns = 1
    MaxFaults = 0
INVARIANT StreamWritten
CHECK_DEADLOCK FALSE
