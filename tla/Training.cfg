SPECIFICATION Spec
CONSTANTS
    single = single
    triple = triple
    Bed <- MCBed
    Worth <- MCWorth
    MaxThrows = 2
    MaxDarts = 3
    HistorySize = 1
    RecentSize = 1
    NoSegments = NoSegments
INVARIANTS
    TypeOK
    CountingSound
    CountersAgree
PROPERTIES
    ScoreIsKept
    ImplementsLedger
    VisitIsAnnounced
    FinishedIsKept
