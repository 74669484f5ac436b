SPECIFICATION Spec

CONSTANTS
    HalvesKept = FALSE
    Names <- MCNames
    NameLen <- MCNameLen
    Throws <- MCThrows
    Matched <- MCMatched
    ConnectLens <- MCConnectLens
    MaskKey <- MCMaskKey
    MaxEvents = 3
    MaxLoads = 2

INVARIANTS
    StreamsInSync

CHECK_DEADLOCK FALSE
