SPECIFICATION PartSpec
CONSTANTS
    Condition = {c1}
    Price = {470}
    Size = {5, 12, 30}
    NoUpdate = NoUpdate
    MaxCapitalPerWindow = 20000
    CapitalWindow = 2
    MaxPerMarket = 10000
    MaxTotal = 30000
    MaxUpdates = 1
    MaxSignals = 1
    MaxTime = 2
    Mappings <- AllOrNone
INVARIANTS WindowCap ReservationBalance SignalsSound
PROPERTIES HaltStopsNewTrades LockoutIsPermanent
