SPECIFICATION HotSpec
CONSTANTS
    y0 = y0
    n0 = n0
    y1 = y1
    n1 = n1
    StartPairs <- OneStart
    NewPairs <- OneNew
    HotPrice = {450, 540}
    Messages <- SomeMessages
    RateLimit = 1
    MaxCommands = 2
    MaxEdges = 1
INVARIANT AddedPairsTracked
CHECK_DEADLOCK FALSE
