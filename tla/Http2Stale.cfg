SPECIFICATION Spec
CONSTANTS
    StreamId <- TwoStreams
    Slots = 2
    MaxConcurrent = 2
    PushLimit = 0
    DefaultWindow = 1
    MaxWindow = 9
    MaxFrameSize = 2
    PeerFrames <- StaleFrames
    Responses <- HeadResponses
    MaxBatch = 2
    MaxFrames = 3
    MaxGrant = 1
INVARIANTS NoStaleReference
CHECK_DEADLOCK FALSE
