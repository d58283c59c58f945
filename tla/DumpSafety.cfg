SPECIFICATION Spec
CONSTANTS
    FETCH_THREAD = 2
    WRITE_THREAD = 2
    FilesPerDir = 2
    QueueCapacity = 1
    Content <- MixedContent
    MaxRuns = 2
    MaxFaults = 1
INVARIANT TypeOK
INVARIANT IndexSound
INVARIANT AtMostOncePerAttempt
INVARIANT ProducersWaitedFor
INVARIANT DoneMeansBuilt
INVARIANT CompleteDumpIsIndexed
INVARIANT DoneRecordsEveryFile
PROPERTY NeverReread
CHECK_DEADLOCK FALSE
