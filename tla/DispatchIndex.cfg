SPECIFICATION DpSpec
CONSTANTS
    DpPath <- PathsOfScripts
    DpLength <- LengthOf
    DpIndex <- IndexOf
    DpLocations <- Locations
    DpEnd <- EndOf
    DpSlash <- SlashAt
    DpLoaded <- LoadedHandlers
    MostMessages = 2
INVARIANTS MissingIsAnswered
CHECK_DEADLOCK FALSE
