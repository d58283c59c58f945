SPECIFICATION Spec
CONSTANTS
    FETCH_THREAD = 2
    WRITE_THREAD = 1
    FilesPerDir = 2
    QueueCapacity = 1
    Content <- LateContent
    MaxRuns = 1
    MaxFaults = 0
INVARIANT EndAfterProducers
CHECK_DEADLOCK FALSE
