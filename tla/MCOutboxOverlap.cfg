SPECIFICATION ObSpec
CONSTANTS
    Event = {e1}
    Poller = {p1, p2}
    MaxRetry = 5
    BatchSize = 10
    MaxCrash = 0
INVARIANT RetriesBounded
CHECK_DEADLOCK FALSE
