SPECIFICATION Spec

CONSTANTS
    HalvesKept = TRUE
    Names <- MCNames
    NameLen <- MCNameLen
    Throws <- MCThrows
    Matched <- MCMatched
    ConnectLens <- MCConnectLens
    MaskKey <- MCMaskKey
    MaxEvents = 3
    MaxLoads = 2

INVARIANTS
    TypeOK
    StreamsInSync
    MembersFollowRoom

CHECK_DEADLOCK FALSE
