SPECIFICATION Spec

CONSTANTS
    RawChars = {"a"}
    RawLen = 1
    Letters <- MCLetters
    Digits <- MCDigits
    Files <- MCFiles
    Leftovers <- MCLeftovers
    TmpSize = 3
    Addresses <- MCAddresses
    ListenerName <- MCListener
    ApiName <- MCApi
    AddressKey <- MCAddress
    PortKey <- MCPort
    PortRange = 16
    LongMax = 20
    EInval = TRUE

INVARIANTS
    PortsAreNumbers

CHECK_DEADLOCK FALSE
