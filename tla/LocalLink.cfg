SPECIFICATION LinkSpec
CONSTANTS
    single = single
    triple = triple
    Bed <- MCBed
    Worth <- MCWorth
    MaxThrows = 2
    MaxDarts = 9
    HistorySize = 1
    RecentSize = 1
    NoSegments = NoSegments
    Nobody = Nobody
    InOrder = TRUE
    Fixing <- MCBoth
    MaxThrown = 3
    MaxVersion = 6
    MaxQueue = 2
    MaxFaults = 1
INVARIANTS
    CountedOnce
    NoDartLost
    BaselineIsShown
PROPERTIES
    NoStaleOverwrite
CHECK_DEADLOCK FALSE
