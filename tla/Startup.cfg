SPECIFICATION Spec

CONSTANTS
    RawChars = {"a", "[", "]", "=", "#", " ", "LF"}
    RawLen = 4
    Letters <- MCLetters
    Digits <- MCDigits
    Files <- MCFiles
    Leftovers <- MCLeftovers
    TmpSize = 3
    Addresses <- MCAddresses
    ListenerName <- MCListener
    ApiName <- MCApi
    AddressKey <- MCAddress
    PortKey <- MCPort
    PortRange = 16
    LongMax = 20
    EInval = FALSE

INVARIANTS
    TypeOK
    StaysInText
    ShortLinesFit
    WellFormedParsed
    ServesAsConfigured
    ExitsFreeOnce
    ServingIsComplete

PROPERTIES
    AcceptErrorEnds
    StartsOrExits

CHECK_DEADLOCK FALSE
