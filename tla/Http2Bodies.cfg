SPECIFICATION Spec
CONSTANTS
    StreamId <- TwoStreams
    Slots = 2
    MaxConcurrent = 1
    PushLimit = 0
    DefaultWindow = 2
    MaxWindow = 9
    MaxFrameSize = 2
    PeerFrames <- BodyFrames
    Responses <- BodyResponses
    MaxBatch = 1
    MaxFrames = 6
    MaxGrant = 3
INVARIANTS BlocksAreServed
CHECK_DEADLOCK FALSE
