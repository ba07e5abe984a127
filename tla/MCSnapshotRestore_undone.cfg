CONSTANTS
    SrShard = {0, 1}
    SrConf <- UncheckpointedRestore
    MaxEntry = 3
    PieceSize = 1
SPECIFICATION SrSpec
INVARIANT StoreMatchesHistory
CHECK_DEADLOCK FALSE
