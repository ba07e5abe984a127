CONSTANTS
    serverA = serverA
    serverC = serverC
    tx1 = tx1
    None = None
    Value = {v1, v2, v3, v4, v5}
    CheckpointInterval = 2
    BatchSize = 2
    MaxIndex = 4
    MaxKills = 2
    ApplyFaults = FALSE
    KillInRename = FALSE
    ClServer = {1, 2, 3}
    ClShard = {0}
    ClConf <- const_ClConf
    MaxCommit = 2
    MaxAdmin = 3
SPECIFICATION RecoverySpec
INVARIANTS
    StoreWithinIndexes
    StoreIsCommitted
    WalHoldsCommitted
    
PROPERTIES
    RecoversReady
    CommitReachesAll
    
    
    
CHECK_DEADLOCK FALSE
