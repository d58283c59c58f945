SPECIFICATION Spec
CONSTANTS
    FETCH_THREAD = 1
    WRITE_THREAD = 1
    FilesPerDir = 2
    QueueCapacity = 1
    Content <- SmallContent
    MaxRuns = 2
    MaxFaults = 0
INVARIANT SkippedIsStored
CHECK_DEADLOCK FALSE
