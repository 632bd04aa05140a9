SPECIFICATION Spec
CONSTANTS
    MaxMain = 2
    MaxCrashes = 1
    MaxFails = 1
    MaxActs = 1
CHECK_DEADLOCK FALSE
INVARIANTS
    MergedWasChecked
    ReleaseHasUpdate
PROPERTIES
    EventuallyReleased
