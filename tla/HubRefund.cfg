SPECIFICATION Spec
CONSTANTS
    v1 = v1
    v2 = v2
    w1 = w1
    w2 = w2
    out = out
    Venues <- MCVenues
    Outside = out
    Workers <- MCWorker
    Amounts <- MCAmount
    Quantum = 2
    Funding = 2
    PageSize = 3
    MaxPayments = 2
    MaxCrashes = 0
    CursorStore = TRUE
    LatestFails = FALSE
    SaveFails = FALSE
    LostReply = TRUE
CHECK_DEADLOCK FALSE
INVARIANT
    RefundedNotPaid
