SPECIFICATION PartsSpec
CONSTANTS
    Request <- Requests
    Pipeline = 2
    Detects = TRUE
    Moves = FALSE
    StreamId <- PushStreams
    Slots = 4
    EnablePush = TRUE
    NamedIdle <- PeerStreams
    NameSize <- FieldNames
    ValueSize <- FieldValues
    Static <- StaticTable
    TableSize = 6
    Overhead = 2
    ListLimit = 8
    BlockLimit = 2
    OctetBits = 3
    AccumulatorBits = 5
    Symbols <- SymbolOrder
    Lengths <- CodeLengths
    PrefixSizes = {1, 2}
    Integer = {0, 1, 2, 3, 4, 5, 6, 7, 8, 18, 19, 20, 66, 67, 254, 255, 256, 257, 300, 1026}
    MostSymbols = 4
    MostRoom = 7
    Frame <- WireFrames
    MostFrames = 2
    ReadMost = 12
    MaxFrameSize = 8
    Setting = {"set"}
    MostFields = 5
    FilePath = {"p", "q"}
    FileSlot <- SlotOf
    FileProtected = {"q"}
    FileStream = {1, 2}
    FileAsks <- Asks
    FileRange <- Ranges
    FileValid = 1
    FileChunk = 1
    FileSize = {0, 2}
    MostClock = 2
    MostVersions = 2
    WsgiRequest = {1, 2}
    WsgiReload = {"sub"}
    WsgiInterleaved = FALSE
    WsgiLazy = FALSE
    MostHeaders = 1
    MostItems = 2
    MostFiles = 2
    WsName = {"a", "b"}
    WsMaxHeaders = 2
    WsMaxBody = 3
    WsFailsAnnounced = FALSE
    MostLines = 3
    MostPieces = 3
    MostStarts = 2
    MdModules <- ModulesOrder
    MdConnection = {1, 2}
    TmSlot <- TemplateSlots
    TmContent <- TemplateContents
    TmRoot = {1}
    LsUrl = {"u"}
    LsContent <- DirectoryContents
    LsError = {"e401", "e404"}
    LsValid = 1
    LsMostClock = 2
    LsMostChanges = 2
    PoolItems = 3
    PoolMargin = 4
    PoolChunks = 2
    PoolAddress = {1, 2, 3, 4, 5}
    PoolRefills = FALSE
    MostInUse = 8
    ListNode = {1, 2, 3}
    ListRank = {1, 2}
    MostArrivals = 3
    MapName = {3, 4, 7, 8}
    MapHash <- HashOfName
    MapInitial = 1
    MapFactor = 4
    MostSets = 5
    DpPath <- Paths
    DpLength <- LengthOf
    DpIndex <- IndexOf
    DpLocations <- Locations
    DpEnd <- EndOf
    DpSlash <- SlashAt
    DpLoaded <- LoadedHandlers
    MostMessages = 2
    SlConn = {1, 2, 3}
    SlHandle = {1, 2}
    SlCalls = 2
    SlMostQueued = 1
    TpWorker = {"w1", "w2", "w3"}
    TpProducer = {"p1", "p2"}
    MostTasks = 4
INVARIANTS DeliversWhatWasSent PipelineInOrder
INVARIANTS TreeIsSound FramesArrive BlocksAreMessages
INVARIANTS  CodingRoundTrips
INVARIANTS DescriptorsAreOwned PagesAreCurrent
INVARIANTS   ModulesAreSound
INVARIANTS  ListIsSound MapIsSound TasksAreServed
INVARIANTS MessagesAreDispatched 
PROPERTIES ShapeIsKept TableIsAQueue  ImplementsASequence
CHECK_DEADLOCK FALSE
