SPECIFICATION MCSpec
CONSTANTS
    N = 4
    T = 1
    Prime = 5
    Dealer = 1
    Scenarios <- AllScenarios
INVARIANTS
    TypeOK
    MSetIsSound
    SecretIsShared
    FaultyPairsAreFaulty
    Inferable
    SharingEnds
    ReconstructionEnds
\* A sharing that is over, or stuck, has no further step.
CHECK_DEADLOCK FALSE
