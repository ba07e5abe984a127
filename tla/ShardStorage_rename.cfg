CONSTANTS
    None = None
    Value = {v1, v2, v3, v4}
    CheckpointInterval = 2
    BatchSize = 2
    MaxIndex = 3
    MaxKills = 2
    ApplyFaults = FALSE
    KillInRename = TRUE
SPECIFICATION Spec
INVARIANT WalHoldsCommitted
CHECK_DEADLOCK FALSE
