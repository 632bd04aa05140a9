SPECIFICATION Spec
CONSTANTS
    Pause = 1
    Nothing = Nothing
    Later = Later
    MaxCalls = 2
    MaxClock = 2
    MaxChanges = 3
    MaxCrashes = 1
INVARIANTS
    NothingForgotten
    TimerFits
PROPERTIES
    ImplementsDurable
    PauseEnds
