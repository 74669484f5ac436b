SPECIFICATION FairSpec

CONSTANTS
    NameLens <- MCNameLens
    MaxData = 2
    MaxTold = 3

INVARIANTS
    TypeOK
    MisuseExplained
    FreedTogether
    RequestNamesDestination
    ConnectedMeansGranted
    UserReadsDestination

PROPERTIES
    ImplementsAttempt
    OutcomeTold

CHECK_DEADLOCK FALSE
