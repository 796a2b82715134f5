SPECIFICATION Spec
CONSTANTS
    v1 = v1
    v2 = v2
    w1 = w1
    w2 = w2
    out = out
    Venues <- MCVenues
    Outside = out
    Workers <- MCWorker
    Amounts <- MCAmount
    Quantum = 2
    Funding = 2
    PageSize = 1
    MaxPayments = 2
    MaxCrashes = 1
    CursorStore = TRUE
    LatestFails = TRUE
    SaveFails = TRUE
    LostReply = FALSE
CHECK_DEADLOCK FALSE
INVARIANTS
    CreditedOnce
    NoneSkipped
PROPERTIES
    DepositsCredited
