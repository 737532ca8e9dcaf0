SPECIFICATION ProxySpec
CONSTANTS
    Exchange = {1, 2, 3}
    Backend = {1, 2, 3}
    Concurrent = 3
    MostBody = 2
    MaxRead = 2
    TreRead = 2
INVARIANTS NoResponseIsCrossed
CHECK_DEADLOCK FALSE
