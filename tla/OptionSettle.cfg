SPECIFICATION OptSpec
CONSTANTS
    h1 = h1
    s1 = s1
    s2 = s2
    Handlers <- MCHandlers
    Sweepers <- MCSweepers
    Threads <- MCThreads3
    Unnamed = Unnamed
    Ids <- MCEdgeIds
    EdgeIds <- MCEdgeIds
    EmuIds <- MCNone
    Emulator = Emulator
    Clients <- MCClients
    EdgeKinds <- MCLimit
    EmuKinds <- MCNone
    Prices <- MCPrices
    Volumes <- MCVolumes
    Scale = 1
    Deposit = 2
    MaxDebits = 0
    MarginRejects = FALSE
    PerUnit = 1
    NoOrder = NoOrder
    NoTrade = NoTrade
CHECK_DEADLOCK FALSE
INVARIANTS
    SettledOnce
PROPERTIES
    ReservationsReturn
