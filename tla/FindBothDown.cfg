SPECIFICATION SwitchSpec
CONSTANTS
    Condition = {c1}
    Price = {1}
    Size = {10}
    NoUpdate = NoUpdate
    MaxReconnectAttempts = 1
    MaxEvents = 2
    MaxUpdates = 1
INVARIANT BothDownHalted
