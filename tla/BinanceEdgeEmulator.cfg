SPECIFICATION EdgeSpec
CONSTANTS
    t1 = t1
    t2 = t2
    c1 = c1
    Unnamed = Unnamed
    Threads <- MCThreads2
    Ids <- MCIds23
    EdgeIds <- MCEdgeIds2
    EmuIds <- MCEmuIds
    Emulator = Emulator
    Clients <- MCUnnamed
    EdgeKinds <- MCLimit
    EmuKinds <- MCEmuKinds
    Prices <- MCPrice
    Volumes <- MCVolumes
    Scale = 2
    Deposit = 4
    MaxDebits = 0
    MarginRejects = FALSE
    NoOrder = NoOrder
    NoTrade = NoTrade
CHECK_DEADLOCK FALSE
INVARIANTS
    RegistryMatchesBook
PROPERTIES
    TerminalIsFinal
    ReportsInOrder
    RequestsAnswered
