SPECIFICATION EdgeSpec
CONSTANTS
    t1 = t1
    t2 = t2
    c1 = c1
    Unnamed = Unnamed
    Threads <- MCThreads1
    Ids <- MCEdgeIds3
    EdgeIds <- MCEdgeIds3
    EmuIds <- MCNone
    Emulator = Emulator
    Clients <- MCUnnamed
    EdgeKinds <- MCKinds
    EmuKinds <- MCEmuKinds
    Prices <- MCPrices
    Volumes <- MCVolumes
    Scale = 2
    Deposit = 2
    MaxDebits = 0
    MarginRejects = FALSE
    NoOrder = NoOrder
    NoTrade = NoTrade
CHECK_DEADLOCK FALSE
INVARIANT
    NeverMints
