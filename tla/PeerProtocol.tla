---------------------------- MODULE PeerProtocol ----------------------------
(***************************************************************************)
(* What two VCMP nodes put on a connection: the packets of protocol.h, the *)
(* checks listener.c makes on their headers and lengths, and the RSA calls *)
(* of rsa.c.  Everything here is a constant operator; the listener that    *)
(* runs on it is in PeerListener.                                          *)
(*                                                                         *)
(* Lengths are parameters, in bytes of the modelled layout.  Key material, *)
(* UUIDs and timestamps are abstracted to what the listener tells apart.   *)
(***************************************************************************)
EXTENDS Integers

CONSTANTS
    HeaderLen,      \* sizeof(vcmp_header_t)
    HandshakeLen,   \* sizeof(vcmp_handshake_t), without the key
    DataLen,        \* sizeof(vcmp_data_t), without the payload
    KeyLen,         \* a public key in DER
    CipherLen,      \* an RSA ciphertext
    ChallengeWrite, \* bytes of the challenge handed to bufferevent_write
    DecryptCall,    \* the EVP call of rsa_decrypt that produces the plaintext
    Nonces,         \* values rand_array can produce
    NoNonce,        \* the zeroed authenticity array
    Garbage         \* any other plaintext

ASSUME LayoutAssumption ==
    /\ HeaderLen \in Nat \ {0}
    /\ HandshakeLen \in Nat /\ HandshakeLen > HeaderLen
    /\ DataLen \in Nat /\ DataLen > HeaderLen
    /\ KeyLen \in Nat \ {0}
    /\ CipherLen \in Nat \ {0}
    /\ ChallengeWrite \in 0 .. (DataLen + CipherLen)

\* What an EVP call that fails leaves its caller with.
NoBuffer == "NULL"

ASSUME CryptoAssumption ==
    /\ DecryptCall \in {"EVP_PKEY_encrypt", "EVP_PKEY_decrypt"}
    /\ NoNonce \notin Nonces
    /\ NoBuffer \notin Nonces
    /\ Garbage \notin Nonces \cup {NoNonce}

Plaintexts == Nonces \cup {Garbage}

-----------------------------------------------------------------------------
(* Packets a remote node sends.  "version" stands for the whole identity    *)
(* check: another version and another magic fail vcmp_validate alike.       *)
(* A HS_ACK carries a key, bytes that are no key, or - in the form the      *)
(* protocol document gives it - nothing after its header.                   *)

VCMP_VERSION == 1

AckBodies == {"key", "not_a_key", "header_only"}

VerifyPackets == [type : {"VERIFY"}, version : {1, 2}]
AckPackets    == [type : {"HS_ACK"}, version : {1, 2}, body : AckBodies]
DataPackets   == [type : {"DATA"}, version : {1, 2}, plain : Plaintexts]
Packets       == VerifyPackets \cup AckPackets \cup DataPackets

Verify      == [type |-> "VERIFY", version |-> VCMP_VERSION]
Ack(body)   == [type |-> "HS_ACK", version |-> VCMP_VERSION, body |-> body]
Data(plain) == [type |-> "DATA", version |-> VCMP_VERSION, plain |-> plain]

Size(p) ==
    CASE p.type = "VERIFY" -> HeaderLen
      [] p.type = "HS_ACK" -> IF p.body = "header_only"
                              THEN HeaderLen
                              ELSE HandshakeLen + KeyLen
      [] OTHER             -> DataLen + CipherLen

vcmp_validate(p) == p.version = VCMP_VERSION

-----------------------------------------------------------------------------
(* rsa.c.  A context that was initialised for one operation refuses the     *)
(* other, and rsa_decrypt initialises for decryption: whether it can return *)
(* a plaintext depends on the call of its second pass.                      *)

EVP_PKEY_call(initialised, call, result) ==
    IF initialised = call THEN result ELSE NoBuffer

\* A slip of rsa_encrypt: its context asked for the other operation.
rsa_encrypt_WrongCall(plain) ==
    EVP_PKEY_call("EVP_PKEY_encrypt", "EVP_PKEY_decrypt", plain)

rsa_encrypt(plain) ==
    EVP_PKEY_call("EVP_PKEY_encrypt", "EVP_PKEY_encrypt", plain)

rsa_decrypt(cipher) ==
    EVP_PKEY_call("EVP_PKEY_decrypt", DecryptCall, cipher)

(* The encrypted array behind a data header, and the write that sends it:   *)
(* the remote node can decrypt it only when header and ciphertext all went. *)
\* A slip of the write: sizeof of the header instead of the packet.
ChallengePacket_HeaderOnly(nonce) == [nonce |-> nonce, written |-> DataLen]

ChallengePacket(nonce) == [nonce |-> nonce, written |-> ChallengeWrite]

Legible(challenge) == challenge.written = DataLen + CipherLen
=============================================================================
