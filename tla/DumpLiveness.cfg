SPECIFICATION FairSpec
CONSTANTS
    FETCH_THREAD = 2
    WRITE_THREAD = 1
    FilesPerDir = 2
    QueueCapacity = 1
    Content <- MixedContent
    MaxRuns = 2
    MaxFaults = 0
PROPERTY DumpEnds

CHECK_DEADLOCK FALSE
