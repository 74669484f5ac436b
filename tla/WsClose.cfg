SPECIFICATION FairSpec

CONSTANTS
    a = a
    b = b
    NULL = NULL
    Clients <- MCClients
    Torn = FALSE
    MaxAccepts = 1
    MaxSends = 1
    MaxTogether = 2

PROPERTIES
    CloseFrameEnds

CHECK_DEADLOCK FALSE
