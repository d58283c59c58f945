SPECIFICATION ServicesSpec
CONSTANTS
    Components = {"blacklist"}
    MaxBytes = 3
    Delims = {2}
    MaxBuffer = 3
    MaxOps = 3
    Kinds <- SomeKinds
    MaxRequests = 2
    MaxFlush = 1
    FlushCallbacksRaise = TRUE
    Frames <- SomeFrames
    MaxFrames = 3
    Keys = {1, 2}
    MaxYields = 4
    MaxDuplicates = 1
    MaxContexts = 3
    MaxWrapped = 1
    MaxDepth = 3
    Handles = {h1, h2, h3}
    MaxFetches = 6
    Descriptors = {1, 2, 3, 4}
    MaxStops = 2
    num_processes = 3
    max_restarts = 3
    MaxDirectives = 4
    Names = {"a", "b", "c"}
    MaxBlocks = 4
    MaxTemplates = 2
    DstShift = 0
    MaxClock = 2
    MaxEdits = 3
    NodeCount = 2
    DocIds = {0, 1, 2}
    Listable = {1, 2}
    Dumpers = {timer, command}
    Timer = timer
    MaxFaults = 1
    MaxLongs = 3
    Objects = {"a", "b"}
    Fds = {1, 2}
    Calls = {call}
    MaxTime = 2
INVARIANT
    TimerGoesOn
CHECK_DEADLOCK FALSE
