SPECIFICATION EdgeSpec
CONSTANTS
    t1 = t1
    t2 = t2
    c1 = c1
    Unnamed = Unnamed
    Threads <- MCThreads2
    Ids <- MCEdgeIds2
    EdgeIds <- MCEdgeIds2
    EmuIds <- MCNone
    Emulator = Emulator
    Clients <- MCClients
    EdgeKinds <- MCKinds
    EmuKinds <- MCEmuKinds
    Prices <- MCPrices
    Volumes <- MCVolumes
    Scale = 2
    Deposit = 4
    MaxDebits = 1
    MarginRejects = TRUE
    NoOrder = NoOrder
    NoTrade = NoTrade
CHECK_DEADLOCK FALSE
SYMMETRY ThreadSymmetry
INVARIANTS
    ReservationsHeld
    ClientIdsUnique
    ValueConserved
