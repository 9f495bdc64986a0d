SPECIFICATION HedgeFairSpec
CONSTANTS
    Hedge = {h1, h2}
    NoHedge = NoHedge
    Shard <- OneShard
    Threads = 2
    Capacity = 1
    MaxTold <- TakerTwice
PROPERTY StopLossExecutes
CHECK_DEADLOCK FALSE
