CONSTANTS
    PsServer = {1, 2, 3}
    PsLocal = 1
    PsAddr = {"a1", "a2"}
    PsWorker = {1, 2}
    PsConf <- const_PsConf
    MaxMembership = 2
    MaxClock = 4
    ChThread = {1, 2}
    ChConf <- const_ChConf
    MaxPropose = 3
    MaxPayload = 2
    FragmentLimit = 4
    MaxInFlight = 3
    MaxBeats = 5
    RqConf <- const_RqConf
    RqShard = 0
    ChunkBytes = 2
    NsConf <- const_NsConf
    NsSession = {1, 2}
    NsWorker = {1, 2}
    QueueCapacity = 2
    PageSize = 1
    NcConf <- const_NcConf
    NcServer = {1, 2, 3}
    ResultPageSize = 1
    RedirectMaxHops = 2
    MaxForwards = 3
    DrConf <- const_DrConf
    DrShard = {1, 2, 3}
    DrServer = {1, 2, 3}
    DrLocal = 1
    NativePage = 1
    GatherPage = 2
    MaxWrites = 1
SPECIFICATION ServicesSpec
INVARIANTS
    QueriesGoToNewest
    
    
    
    CopiedAsSent
    HeldOnlyInUse
    RequestsAnsweredOnce
    StagedWritesCommitted
    ExecutedAsAsked
    AnswersHold
    ReadsAreWhole
PROPERTY CutRequestsChangeNothing
CHECK_DEADLOCK FALSE
