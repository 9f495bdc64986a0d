SPECIFICATION FairSpec
CONSTANTS
    Condition = {c1}
    Price = {1}
    Size = {10}
    NoUpdate = NoUpdate
    MaxReconnectAttempts = 1
    MaxEvents = 2
    MaxUpdates = 1
    y0 = y0
    n0 = n0
    y1 = y1
    n1 = n1
    StartPairs <- OneStart
    NewPairs <- OneNew
    HotPrice = {450, 540}
    Messages <- SomeMessages
    RateLimit = 1
    MaxCommands = 2
    MaxEdges = 1
    Hedge = {h1, h2}
    NoHedge = NoHedge
    Shard <- OneShard
    Threads = 2
    Capacity = 1
    MaxTold <- TakerTwice
INVARIANTS
    ViewCatchesUp UpdatesComeFromLiveFeed HaltedBookEmpty
    PairsAgree
    MergeSound MergesAnswerEvents
PROPERTIES
    ImplementsFeedSelector StablePrimaryResumes BeliefConverges
    EdgesFromThisConnection CommandsApplied
    ImplementsPairMerges SendCompletes TimersDecide
CHECK_DEADLOCK FALSE
