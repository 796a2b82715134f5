SPECIFICATION Spec
CONSTANTS
    v1 = v1
    v2 = v2
    w1 = w1
    w2 = w2
    out = out
    Venues <- MCVenues
    Outside = out
    Workers <- MCWorkers
    Amounts <- MCAmounts
    Quantum = 2
    Funding = 4
    PageSize = 3
    MaxPayments = 2
    MaxCrashes = 0
    CursorStore = TRUE
    LatestFails = FALSE
    SaveFails = FALSE
    LostReply = FALSE
CHECK_DEADLOCK FALSE
INVARIANTS
    ValueConserved
