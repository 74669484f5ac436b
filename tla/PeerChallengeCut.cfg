SPECIFICATION FairSpec

CONSTANTS
    c1 = c1
    c2 = c2
    n1 = n1
    n2 = n2
    none = none
    garbage = garbage
    Conns <- MCConns
    Honest <- MCHonest
    Nonces <- MCNonces
    NoNonce = none
    Garbage = garbage
    HeaderLen <- MCHeaderLen
    HandshakeLen <- MCHandshakeLen
    DataLen <- MCDataLen
    KeyLen <- MCKeyLen
    CipherLen <- MCCipherLen
    ChallengeWrite <- MCPointerLen
    DecryptCall = "EVP_PKEY_encrypt"
    AckForm = "key"
    WholeReads = TRUE
    MaxPackets = 4
    MaxTogether = 8
    MaxBacklog = 2

PROPERTIES
    HonestProgress

CHECK_DEADLOCK FALSE
