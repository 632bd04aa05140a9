SPECIFICATION Spec
CONSTANTS
    Interval = 1
    Lifetime = 10
    SlowDown = 2
    MinBackoff = 2
    MaxBackoff = 3
    MaxAges = 1
    MaxFaults = 1
    MaxCodes = 1
INVARIANTS
    StoredIsNewest
    PollsAsTold
PROPERTIES
    SentOnce
    RelinkIsNeeded
    Recovers
CHECK_DEADLOCK FALSE
