SPECIFICATION Spec
CONSTANTS
    Bull = 25
    CricketNumbers = {1}
    MarksToClose = 3
    ShanghaiRounds = 1
    HalveItTargets <- MCHalveItTargets
    HalveItStart = 0
    KillerNumbers = {}
    KillerLives = 1
    Drills <- MCDrills
    Targets <- MCTargets
    BobsStart = 2
    CheckoutScores <- MCCheckoutScores
    CheckoutVisits = 2
    DrillBeds <- MCDrillBeds
    MaxVisit = 2
    MaxDarts = 3
INVARIANTS
    EndToldOnce
