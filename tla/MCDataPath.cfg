CONSTANTS
    GraphShards = 2
    GraphNodeIds = 2
    GraphRelIds = 1
    Label = {l1}
    UniqueLabel = {l1}
    PropValue = {v1}
    CkptInterval = 2
    MaxWal = 4
    GraphConf <- const_GraphConf
    IndexName = {"i1", "i2"}
    IcNode = {1, 2}
    IcValue = {"vec", "text"}
    VectorValue = {"vec"}
    MaxVersion = 2
    IcKills = 1
    KillInWrite = FALSE
    SrShard = {0, 1}
    SrConf <- const_SrConf
    MaxEntry = 3
    PieceSize = 1
    LfConf <- const_LfConf
    LfShard = 0
    SegmentSize = 2
    LfMaxIndex = 3
    CwConf <- const_CwConf
    CwStagedIdStart = 99
SPECIFICATION DataPathSpec
INVARIANTS
    IndexesHold
    StoreIsSequential
    
    
    
    
    PathsAgree
PROPERTY CommittedAsStaged
CHECK_DEADLOCK FALSE
