SPECIFICATION Spec
CONSTANTS
    Bull <- MCBull
    CricketNumbers <- MCCricketNumbers
    MarksToClose = 2
    ShanghaiRounds = 1
    HalveItTargets <- MCHalveItTargets
    HalveItStart = 3
    KillerNumbers <- MCKillerNumbers
    KillerLives = 1
    Game = 3
    Setups <- MCSetups
    Beds <- MCBeds
    MaxVisit <- MCMaxVisit
    MaxTurns = 2
    MaxLegs = 2
    MaxEarly <- MCMaxEarly
INVARIANTS
    ScoreBalances
    MatchDecides
    TurnsAlternate
    LegIsOpen
    AnnouncedIsTrue
    EarlyNeverCounts
PROPERTIES
    BookedAsTold
    BookedAsShown
