CONSTANTS
    a = a
    b = b
    c = c
    t1 = t1
    t2 = t2
    None = None
    Server = {a, b, c}
    Tx = {t1}
    Coord <- const_Coord
    Targets <- const_Targets
    Workers = 1
    Crasher = {b}
    TakeFaults = TRUE
    MaxFaults = 1
SPECIFICATION Spec
INVARIANTS
    ClearedMeansReached
CHECK_DEADLOCK FALSE
