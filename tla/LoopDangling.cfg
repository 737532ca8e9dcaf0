SPECIFICATION FairSpec
CONSTANTS
    Conn = {"client", "backend"}
    Backend <- Proxied
    ReadSize = 2
    MaxRead = 0
    Gather = 2
    Room = 2
    Sizes = {1}
    Timeout = TRUE
    MayCycle = FALSE
    MaxData = 1
    MaxAsked = 1
INVARIANTS OutstandingIsAlive
CHECK_DEADLOCK FALSE
