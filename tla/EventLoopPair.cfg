SPECIFICATION FairSpec
CONSTANTS
    Conn = {"client", "backend"}
    Backend <- Proxied
    ReadSize = 1
    MaxRead = 0
    Gather = 1
    Room = 1
    Sizes = {2}
    Timeout = TRUE
    MayCycle = FALSE
    MaxData = 1
    MaxAsked = 2
INVARIANTS ListsAgree
PROPERTIES DeletedAfterTheRound
CHECK_DEADLOCK FALSE
