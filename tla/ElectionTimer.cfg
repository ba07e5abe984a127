CONSTANTS
    None = None
    Server = {p, q, r}
    Primary = p
    Timeout = 6
    Period = 8
    MaxCrashes = 1
SPECIFICATION Spec
PROPERTY LeaderReturns
CHECK_DEADLOCK FALSE
