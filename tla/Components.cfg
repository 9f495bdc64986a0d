SPECIFICATION Spec
CONSTANTS
    btc = btc
    Asset <- OneAsset
    Periods <- BothPeriods
    Start <- AnyPhase
    MaxClock = 1300
    FetchTime = {0, 5}
    Overrun = {0, 1}
    CachedAsk = {50, 100}
    Slug = {m1, m2}
    TradePrice = {30, 45, 50}
    TradeSize = {20000, 400000}
    Lifetime = 1
    MaxTraps = 2
    MaxTrades = 3
    MaxAborts = 1
    QuotedPrice = {0, 400, 505, 520}
    OrderShares = {1, 2}
    MaxImbalance = 6
    TopUpMin = 2
    MaxOrders = 3
    Maker = {w1, w2}
    MakerPrice = {4, 88}
    Depth = {1000, 1500}
    OwnSize = {40, 90}
    SkewPercent = 30
    MinEdge = 350
    MaxPosition = 300
    Market = {c1, c2}
    TradeShares = {0, 10000000}
    MaxRecords = 2
    GhostSize = {0, 1, 2}
    MaxTracked = 2
    Wallet = {m1}
    BoughtShares = {1, 2}
    MaxHeld = 2
    MaxUnderway = 2
    OrderId = {o1, o2, o3}
    MaxRetries = 1
    LockMarket = {l1}
    Worker = {w1, w2, w3}
    LockTtl = 2
    LevelPrice = {40, 45, 50}
    LevelSize = {0, 1, 2}
    BookCapacity = 2
    MaxPending = 1
    MaxEvents = 4
    LogWriter = {w1, w2, w3}
    MaxBatch = 2
    MaxLogged = 2
    PoolSize = 2
    RiskMarket = {l1}
    RiskPrice = {100, 110}
    HistoryTicks = 6
    LockoutTicks = 2
    MaxRecordings = 3
    PnlPrice = {40, 49, 50}
    GasCost = {20, 50}
    MaxEntries = 5
    Caller = {g1, g2}
    NoCaller = NoCaller
    MaxPerMinute = 1
    MaxConcurrent = 2
    MaxLoss = 1
    WorstLoss = 2
    Cooldown = 2
    Minute = 2
    MaxTime = 2
SYMMETRY Callers
VIEW View
INVARIANTS
    TrapsInTime EveryWindowMet
    TrapsAccounted FillsPriced
    WaitingInFlight SkewOvershoot
    SimulatorsBalance OwnAsksCovered
    AnswersTrue LocksExclusive BookFollowsEvents StatsFollowRows
    LockoutsSubside ReportUnderstates
    SlotsOvershoot LossOvershoot RateOvershoot StatsConsistent 
CHECK_DEADLOCK FALSE
