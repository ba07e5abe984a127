CONSTANTS
    s1 = s1
    s2 = s2
    s3 = s3
    v1 = v1
    v2 = v2
    None = None
    Server <- const_Server
    Value <- const_Value
    Primary = s1
    RequiredAcks = 2
    Campaigner <- const_Server
    OperatorCatchUp = FALSE
    MaxTerm = 1
    MaxRestarts = 1
    Regimes = {"elections", "steady"}
SPECIFICATION RegimeSpec
SYMMETRY Symmetry
INVARIANTS
    TypeOK
    OneElectedPerTerm
    CommitWithinWal
    AckedStaysCommitted
    SteadyCommitsNeedQuorum
PROPERTIES
    CommittedPrefixStable
    VoteStable
CHECK_DEADLOCK FALSE
