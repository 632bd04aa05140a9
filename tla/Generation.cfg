SPECIFICATION Spec
CONSTANTS
    Boards <- MCAgreeing
    MaxChanges = 2
    MaxFaults = 2
INVARIANTS
    EntitiesFit
    MissingIsClassic
PROPERTIES
    Settles
