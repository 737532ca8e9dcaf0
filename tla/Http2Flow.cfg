SPECIFICATION Spec
CONSTANTS
    StreamId <- FlowStreams
    Slots = 3
    MaxConcurrent = 2
    PushLimit = 2
    DefaultWindow = 2
    MaxWindow = 9
    MaxFrameSize = 2
    PeerFrames <- FlowFrames
    Responses <- FlowResponses
    MaxBatch = 1
    MaxFrames = 4
    MaxGrant = 5
INVARIANTS WindowsAgree  StreamsAreSound
PROPERTIES KeepsContract ClosedOnlyWhenOver
CHECK_DEADLOCK FALSE
