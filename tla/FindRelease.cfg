SPECIFICATION GuardFairSpec
CONSTANTS
    Caller = {g1, g2}
    NoCaller = NoCaller
    MaxPerMinute = 1
    MaxConcurrent = 2
    MaxLoss = 1
    WorstLoss = 1
    Cooldown = 1
    Minute = 1
    MaxTime = 0
PROPERTY ReleaseReturns
CHECK_DEADLOCK FALSE
