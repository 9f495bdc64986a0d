SPECIFICATION HedgeFairSpec
CONSTANTS
    Hedge = {h1}
    NoHedge = NoHedge
    Shard <- OneShard
    Threads = 2
    Capacity = 1
    MaxTold <- TakerTwice
PROPERTY MinedPairsMerge
CHECK_DEADLOCK FALSE
