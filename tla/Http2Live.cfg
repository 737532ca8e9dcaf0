SPECIFICATION FairSpec
CONSTANTS
    StreamId <- TwoStreams
    Slots = 2
    MaxConcurrent = 2
    PushLimit = 0
    DefaultWindow = 1
    MaxWindow = 9
    MaxFrameSize = 2
    PeerFrames <- LiveFrames
    Responses <- LiveResponses
    MaxBatch = 1
    MaxFrames = 2
    MaxGrant = 5
PROPERTIES EverythingEnds
CHECK_DEADLOCK FALSE
