SPECIFICATION Spec

CONSTANTS
    RawChars = {"K", ":", " ", "CR", "LF"}
    RawLen = 5
    Bytes <- MCBytes
    Requests <- MCRequests
    Memories <- MCMemories
    Size <- MCSize
    WantedName <- MCWanted

INVARIANTS
    TypeOK
    KeyIsTheClients
    EntriesFreed

CHECK_DEADLOCK FALSE
