SPECIFICATION FairSpec
CONSTANTS
    Conn = {"client"}
    Backend <- Direct
    ReadSize = 2
    MaxRead = 2
    Gather = 2
    Room = 2
    Sizes = {1, 2}
    Timeout = TRUE
    MayCycle = TRUE
    MaxData = 5
    MaxAsked = 4
INVARIANTS WritesAreSound
PROPERTIES QueuedIsWritten NothingIsForgotten
CHECK_DEADLOCK FALSE
