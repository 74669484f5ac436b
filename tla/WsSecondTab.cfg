SPECIFICATION Spec

CONSTANTS
    a = a
    b = b
    NULL = NULL
    Clients <- MCClients
    Torn = FALSE
    MaxAccepts = 2
    MaxSends = 1
    MaxTogether = 2

SYMMETRY Symmetry

INVARIANTS
    NoUserMeansNoFrontend

CHECK_DEADLOCK FALSE
