SPECIFICATION PartsSpec
CONSTANTS
    Exchange = {1, 2, 3}
    Backend = {1, 2, 3}
    Concurrent = 1
    MostBody = 2
    MaxRead = 2
    TreRead = 2
    AsgiMessage = {1, 2}
    MostParts = 2
    MostWebsocketFrames = 2
    MostGivenUp = 1
    WaitTurns = 4
    WaitTime = 2
    WaitFailures = 4
    MostInterrupts = 2
INVARIANTS ExchangesAreKept TasksKeepTheirOwn ServingEndsWell
PROPERTIES MessageIsAnswered EndedIsAnswered StoppedReturns
CHECK_DEADLOCK FALSE
