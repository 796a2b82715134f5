SPECIFICATION MCSpec
CONSTANTS
    a = a
    b = b
    c = c
    Ids <- MCIds3
    Prices <- MCPrices3
    Volumes <- MCVolumes
    NoOrder = NoOrder
    NoTrade = NoTrade
    s1 = s1
    s2 = s2
    Sessions <- MCSessions
    Outsider = Outsider
    Nobody = Nobody
    Targets <- MCTargets
    OutBuffer = 1
    MaxSeq = 2
    MaxEvents = 1
CHECK_DEADLOCK FALSE
INVARIANTS
    QueuesOrdered
    Uncrossed
    HooksAccountForBook
    NumbersKept
PROPERTIES
    ImplementsPriceTime
    HandlersEnd
