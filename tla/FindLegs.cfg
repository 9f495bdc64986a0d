SPECIFICATION PartSpec
CONSTANTS
    Condition = {c1}
    Price = {470}
    Size = {5, 30}
    NoUpdate = NoUpdate
    MaxCapitalPerWindow = 20000
    CapitalWindow = 1
    MaxPerMarket = 10000
    MaxTotal = 30000
    MaxUpdates = 1
    MaxSignals = 1
    MaxTime = 0
    Mappings <- AllOrNone
INVARIANT LegsAreOpposite
