SPECIFICATION Spec

CONSTANTS
    a = a
    b = b
    NULL = NULL
    Clients <- MCClients
    Torn = TRUE
    MaxAccepts = 3
    MaxSends = 2
    MaxTogether = 2

SYMMETRY Symmetry

INVARIANTS
    TypeOK
    SlotNamesFrontend
    UserIsKnown
    FramesInOrder
    NothingStranded
    LeakPerFailure

PROPERTIES
    UserChangesHands

CHECK_DEADLOCK FALSE
