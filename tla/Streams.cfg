SPECIFICATION MCSpec
CONSTANTS
    Sockets = {n1, n2}
    Streaming = {n1}
    Instruments = {i1, i2}
    Bursts = {0, 2}
    FlushEvery = 2
    EventCap = 2
    UpdateCap = 1
    MaxCommands = 2
    MaxRuns = 2
    DiskFails = TRUE
    KeyUsers = {u1, u2}
    Keys = {k1, k2}
    KeyTTL = 1
    LastHour = 3
    Servers <- MCViewers
    Sources <- MCSources
    Burst = 1
    IdleTTL = 1
    MaxHold = 1
    MaxKeys = 2
    LastTick = 2
    l1 = l1
    l2 = l2
    v1 = v1
    v2 = v2
    v3 = v3
    depth = depth
    depth100ms = depth100ms
    Viewers <- MCViewers
    Levels <- MCLevels
    MaxSize = 1
    MaxChanges = 2
    SendBuffer = 1
    Start <- MCStart
    NoBook = NoBook
    Streams <- MCStreamNames
SYMMETRY ViewerSymmetry
CHECK_DEADLOCK FALSE
INVARIANTS
    JournalFollowsBook
    StreamsInOrder
    RemovedStaysRemoved
    LimitHolds
    NoChangeMissed
    IdsContiguous
    DeltasKept
