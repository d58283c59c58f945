SPECIFICATION RuntimeSpec
CONSTANTS
    Components = {"tasks"}
    Fds = {f1, f2}
    Waker = w
    MaxCallbacks = 2
    MaxTimeouts = 1
    MaxTime = 1
    MaxRegs = 2
    MaxStarts = 2
    None = 7
    Source <- Items
    thread_limit = 2
    Descriptors = {1, 2}
    Period = 2
    MaxClock = 6
    MaxClients = 1
    MaxFetches = 2
    MaxRedirects = 1
    Responses <- SomeResponses
    Redirected = {1}
INVARIANT
    AllCompleted
CHECK_DEADLOCK FALSE
