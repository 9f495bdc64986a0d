SPECIFICATION RolloverSpec
CONSTANTS
    btc = btc
    Asset <- OneAsset
    Periods <- BothPeriods
    Start <- AnyPhase
    MaxClock = 1300
    FetchTime = {0}
    Overrun = {0}
    CachedAsk = {50, 100}
INVARIANT TrapsOnTime
CHECK_DEADLOCK FALSE
