SPECIFICATION RuntimeSpec
CONSTANTS
    Components = {"loop", "tasks", "pollers", "periodic", "client"}
    Fds = {f1, f2}
    Waker = w
    MaxCallbacks = 2
    MaxTimeouts = 1
    MaxTime = 1
    MaxRegs = 2
    MaxStarts = 2
    None = 7
    Source <- ItemsWithNone
    thread_limit = 2
    Descriptors = {1, 2}
    Period = 2
    MaxClock = 6
    MaxClients = 1
    MaxFetches = 2
    MaxRedirects = 1
    Responses <- SomeResponses
    Redirected = {1}
INVARIANTS
    CallbacksInOrder
    EventsMeetTheirHandler
    NothingRunsAfterReturn
    PollersAgree
    GoesOn
    PlacesFilled
    AnsweredOnce
PROPERTIES
    LoopProgress
    TaskReturns
    FetchesAnswered
CHECK_DEADLOCK FALSE
