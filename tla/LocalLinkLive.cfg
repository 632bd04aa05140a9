SPECIFICATION LinkSpec
CONSTANTS
    single = single
    triple = triple
    Bed <- MCBed
    Worth <- MCWorth
    MaxThrows = 2
    MaxDarts = 9
    HistorySize = 1
    RecentSize = 1
    NoSegments = NoSegments
    Nobody = Nobody
    InOrder = TRUE
    Fixing <- MCNever
    MaxThrown = 2
    MaxVersion = 3
    MaxQueue = 2
    MaxFaults = 2
PROPERTIES
    EventuallyInSync
CHECK_DEADLOCK FALSE
