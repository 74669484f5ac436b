SPECIFICATION Spec

CONSTANTS
    c1 = c1
    c2 = c2
    n1 = n1
    n2 = n2
    none = none
    garbage = garbage
    Conns <- MCConns
    Honest <- MCNobody
    Nonces <- MCNonces
    NoNonce = none
    Garbage = garbage
    HeaderLen <- MCHeaderLen
    HandshakeLen <- MCHandshakeLen
    DataLen <- MCDataLen
    KeyLen <- MCKeyLen
    CipherLen <- MCCipherLen
    ChallengeWrite <- MCPacketLen
    DecryptCall = "EVP_PKEY_decrypt"
    AckForm = "key"
    WholeReads = FALSE
    MaxPackets = 4
    MaxTogether = 5
    MaxBacklog = 2

SYMMETRY Symmetry

INVARIANTS
    TypeOK
    ReadyIsProven
    RepliesMatchStage
    Ownership
    LeftoverOnlyAfterVerify
    BytesAccounted

PROPERTIES
    StageOrder
    ImplementsPeerAuth

CHECK_DEADLOCK FALSE
