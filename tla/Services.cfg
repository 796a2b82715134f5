SPECIFICATION MCSpec
CONSTANTS
    a1 = a1
    a2 = a2
    n1 = n1
    n2 = n2
    p1 = p1
    p2 = p2
    p3 = p3
    btc1 = btc1
    btc2 = btc2
    alice = alice
    bob = bob
    Threads <- Actors
    ClientOrders <- MCOrders
    MaxOrders = 2
    Deposit = 4
    Delays = {TRUE}
    MostTraded = 2
    Scale = 1
    Clients <- Actors
    ClOrdIDs <- Names
    Sizes = {2}
    MaxFixOrders = 2
    MaxQuotesAsked = 1
    MaxQuotes = 1
    Sends <- MCSends
    Order <- MCSendOrder
    Networks <- MCNetworks
    Coins <- MCCoins
    CoinValue <- MCCoinValue
    FlatFee = 1
    Dust = 0
    GasPrices = {1, 2}
    MaxTip = 1
    WatchedNetworks <- MCNetworks
    PageLimit = 2
    MaxEntries = 4
    MaxBlock = 1
    Programs <- Actors
    Wallets <- Names
    MaxSeeds = 2
    MaxLosses = 1
    NoFile = NoFile
    Torn = Torn
    Callers <- Actors
    MapValues = {val}
    Absent = Absent
    NotCalling = NotCalling
    KeyCount = 3
    ShardCount = 2
    ShardOf <- MCShardOf
    MaxLevel = 2
    Dictionaries = {"snapshot", "skiplist", "sharded"}
    MaxCalls = 4
    Askers <- Actors
    QuoteTTL = 2
    Timeout = 3
    Expiry = 4
    LastClock = 5
SYMMETRY ServiceSymmetry
CHECK_DEADLOCK FALSE
INVARIANTS
    HoldsMatchOrders
    LatestStateTold
    ReportsTellBook
    OneOrderEach
    PaymentsKept
    TakenOnce
    WalletsKept
    MarksAreRecent
PROPERTIES
    ReportsAscend
    ImplementsDictionary
