---------------------------- MODULE PeerListener ----------------------------
(***************************************************************************)
(* The peer listener of src/listener.c: one libevent loop accepts          *)
(* connections from other nodes and walks each through the verification    *)
(* handshake.  A libevent callback runs to its end before the next one, so *)
(* each callback is one action.                                            *)
(*                                                                         *)
(* TCP hands the listener bytes, not packets.  stream[c] holds the packets *)
(* the remote node has sent and read_cb has not drained, buffered[c] how   *)
(* many of their bytes lie in the bufferevent's input, wire[c] how many    *)
(* are still on the way.  A read moves some bytes from the wire to the     *)
(* input and runs read_cb on all the input then holds.                     *)
(***************************************************************************)
EXTENDS PeerProtocol, Sequences

CONSTANTS
    Conns,      \* connections, each accepted once
    Honest,     \* those whose remote node follows the README's handshake
    AckForm,    \* the HS_ACK an honest node sends
    WholeReads, \* TRUE: a read always takes all that is on the wire
    MaxPackets, \* bound: packets one remote node sends
    MaxTogether, \* bound: packets any two remote nodes send
    MaxBacklog  \* bound: packets of one node that read_cb has not drained

ASSUME ListenerAssumption ==
    /\ Honest \subseteq Conns
    /\ AckForm \in AckBodies
    /\ WholeReads \in BOOLEAN
    /\ MaxPackets \in Nat
    /\ MaxTogether \in Nat
    /\ MaxBacklog \in Nat

VARIABLES
    conn,         \* what became of each connection
    stage,        \* peer->stage
    authenticity, \* peer->authenticity
    owned,        \* objects allocated for the connection and not freed
    stream,       \* packets sent and not drained
    buffered,     \* bytes in the input buffer
    wire,         \* bytes not yet read
    hsInit,       \* whether HS_INIT was written to the remote node
    challenge,    \* the challenge written to the remote node
    nsent,        \* packets the remote node has sent
    cause,        \* history: why read_cb freed the peer
    echo          \* history: the plaintext the authenticity check compared

vars == << conn, stage, authenticity, owned, stream, buffered, wire,
           hsInit, challenge, nsent, cause, echo >>

Stages      == {"NONE", "PUBKEY_WAIT", "PUBKEY_CHECK", "READY"}
ConnStates  == {"idle", "orphan", "open", "eof", "dropped"}
Objects     == {"fd", "bev", "peer", "pubkey"}
Causes      == {"none", "short", "malformed", "invalid", "resource"}
NoChallenge == [nonce |-> NoNonce, written |-> 0]

TypeOK ==
    /\ conn \in [Conns -> ConnStates]
    /\ stage \in [Conns -> Stages]
    /\ authenticity \in [Conns -> Nonces \cup {NoNonce}]
    /\ owned \in [Conns -> SUBSET Objects]
    /\ stream \in [Conns -> Seq(Packets)]
    /\ buffered \in [Conns -> Nat]
    /\ wire \in [Conns -> Nat]
    /\ hsInit \in [Conns -> BOOLEAN]
    /\ challenge \in [Conns -> [nonce : Nonces \cup {NoNonce}, written : Nat]]
    /\ nsent \in [Conns -> 0 .. MaxPackets]
    /\ cause \in [Conns -> Causes]
    /\ echo \in [Conns -> Plaintexts \cup {NoNonce}]

Init ==
    /\ conn = [c \in Conns |-> "idle"]
    /\ stage = [c \in Conns |-> "NONE"]
    /\ authenticity = [c \in Conns |-> NoNonce]
    /\ owned = [c \in Conns |-> {}]
    /\ stream = [c \in Conns |-> << >>]
    /\ buffered = [c \in Conns |-> 0]
    /\ wire = [c \in Conns |-> 0]
    /\ hsInit = [c \in Conns |-> FALSE]
    /\ challenge = [c \in Conns |-> NoChallenge]
    /\ nsent = [c \in Conns |-> 0]
    /\ cause = [c \in Conns |-> "none"]
    /\ echo = [c \in Conns |-> NoNonce]

-----------------------------------------------------------------------------
(* accept_conn_cb and event_cb *)

\* A failed allocation returns from the callback and frees nothing: the
\* socket, and the bufferevent if it was the peer that failed, stay behind.
AcceptFails(c) ==
    /\ conn[c] = "idle"
    /\ conn' = [conn EXCEPT ![c] = "orphan"]
    /\ \E left \in {{"fd"}, {"fd", "bev"}} :
          owned' = [owned EXCEPT ![c] = left]
    /\ UNCHANGED << stage, authenticity, stream, buffered, wire, hsInit,
                    challenge, nsent, cause, echo >>

accept_conn_cb(c) ==
    /\ conn[c] = "idle"
    /\ conn' = [conn EXCEPT ![c] = "open"]
    /\ owned' = [owned EXCEPT ![c] = {"fd", "bev", "peer"}]
    /\ stage' = [stage EXCEPT ![c] = "NONE"]
    /\ authenticity' = [authenticity EXCEPT ![c] = NoNonce]
    /\ UNCHANGED << stream, buffered, wire, hsInit, challenge, nsent, cause,
                    echo >>

\* End of stream or a connection error.  libevent stops reading the socket,
\* unread bytes are lost, and event_cb only logs: nothing is freed.
event_cb(c) ==
    /\ conn[c] = "open"
    /\ conn' = [conn EXCEPT ![c] = "eof"]
    /\ wire' = [wire EXCEPT ![c] = 0]
    /\ UNCHANGED << stage, authenticity, owned, stream, buffered, hsInit,
                    challenge, nsent, cause, echo >>

-----------------------------------------------------------------------------
(* read_cb *)

ReadSizes(c) == IF WholeReads /\ wire[c] > 0 THEN {wire[c]} ELSE 1 .. wire[c]

\* The event loop delivers n more bytes to an open connection; the callback
\* sees Arrived(c, n) bytes, the first of them those of Front(c), which is
\* there whenever bytes are (BytesAccounted).
Readable(c, n) ==
    conn[c] = "open" /\ stream[c] # << >> /\ n \in ReadSizes(c)
Arrived(c, n)  == buffered[c] + n
Front(c)       == Head(stream[c])

\* What "free(peer); bufferevent_free(bev)" releases, and what the paths
\* that call EVP_PKEY_free(peer->pubkey) first release as well.
PeerObjects  == {"fd", "bev", "peer"}
KeyedObjects_KeyForgotten == PeerObjects
KeyedObjects == PeerObjects \cup {"pubkey"}

Reject(c, freed, why) ==
    /\ conn' = [conn EXCEPT ![c] = "dropped"]
    /\ owned' = [owned EXCEPT ![c] = @ \ freed]
    /\ cause' = [cause EXCEPT ![c] = why]
    /\ stream' = [stream EXCEPT ![c] = << >>]
    /\ buffered' = [buffered EXCEPT ![c] = 0]
    /\ wire' = [wire EXCEPT ![c] = 0]
    /\ UNCHANGED << stage, authenticity, hsInit, challenge, nsent, echo >>

\* Two slips of the drains: none at all, and the header alone.
Drain_Forgotten(c, n, bytes) ==
    /\ buffered' = [buffered EXCEPT ![c] = Arrived(c, n)]
    /\ wire' = [wire EXCEPT ![c] = @ - n]
    /\ UNCHANGED stream

Drain_HeaderOnly(c, n, bytes) ==
    /\ stream' = [stream EXCEPT ![c] = Tail(@)]
    /\ buffered' = [buffered EXCEPT ![c] = Arrived(c, n) - HeaderLen]
    /\ wire' = [wire EXCEPT ![c] = @ - n]

\* evbuffer_drain: "bytes" are removed from the input after a read of n, and
\* with them the packet at its front.
Drain(c, n, bytes) ==
    /\ stream' = [stream EXCEPT ![c] = Tail(@)]
    /\ buffered' = [buffered EXCEPT ![c] = Arrived(c, n) - bytes]
    /\ wire' = [wire EXCEPT ![c] = @ - n]

\* Less than a header: dropped in every stage, without the public key.
ReadShort(c, n) ==
    /\ Readable(c, n)
    /\ Arrived(c, n) < HeaderLen
    /\ Reject(c, PeerObjects, "short")

AcceptsVerify(p) == vcmp_validate(p) /\ p.type = "VERIFY"

\* VCMP_PEER_STAGE_NONE: answer a VERIFY header with our public key.  Only
\* the header is drained; what came behind it stays in the input.
ReadVerify(c, n) ==
    /\ Readable(c, n)
    /\ stage[c] = "NONE"
    /\ Arrived(c, n) >= HeaderLen
    /\ \/ /\ ~AcceptsVerify(Front(c))
          /\ Reject(c, PeerObjects, "invalid")
       \/ /\ AcceptsVerify(Front(c))
          /\ Reject(c, PeerObjects, "resource")
       \/ /\ AcceptsVerify(Front(c))
          /\ Drain(c, n, HeaderLen)
          /\ hsInit' = [hsInit EXCEPT ![c] = TRUE]
          /\ stage' = [stage EXCEPT ![c] = "PUBKEY_WAIT"]
          /\ UNCHANGED << conn, authenticity, owned, challenge, nsent, cause,
                          echo >>

\* keylen, read where a handshake packet has it, accounts for the whole
\* input.  Other packets hold other bytes there and fail this check or the
\* next one, with the same effect.  Before it, two slips of the comparison.
WholeHandshake_AtLeast(p, len) ==
    p.type = "HS_ACK" /\ p.body # "header_only" /\ len >= Size(p)

WholeHandshake_KeylenForgotten(p, len) ==
    p.type = "HS_ACK" /\ p.body # "header_only" /\ len = HandshakeLen

WholeHandshake(p, len) ==
    p.type = "HS_ACK" /\ p.body # "header_only" /\ len = Size(p)

\* The type is an ACK of our version and d2i_PUBKEY reads its key.
AcceptsAck(p) == vcmp_validate(p) /\ p.type = "HS_ACK" /\ p.body = "key"

\* rand_array fills peer->authenticity, which goes out encrypted.  Before it,
\* the slip of encrypting the array and filling it afterwards.
SendChallenge_Unfilled(c) ==
    /\ challenge' =
          [challenge EXCEPT ![c] = ChallengePacket(rsa_encrypt(authenticity[c]))]
    /\ \E nonce \in Nonces :
          authenticity' = [authenticity EXCEPT ![c] = nonce]

SendChallenge(c) ==
    \E nonce \in Nonces :
        /\ authenticity' = [authenticity EXCEPT ![c] = nonce]
        /\ challenge' =
              [challenge EXCEPT ![c] = ChallengePacket(rsa_encrypt(nonce))]

\* VCMP_PEER_STAGE_PUBKEY_WAIT: store the remote key, and challenge it with
\* a fresh random array encrypted under it.
ReadKey(c, n) ==
    /\ Readable(c, n)
    /\ stage[c] = "PUBKEY_WAIT"
    /\ Arrived(c, n) >= HeaderLen
    /\ LET len == Arrived(c, n) IN
       \/ /\ len <= HandshakeLen
          /\ Reject(c, PeerObjects, "short")
       \/ /\ len > HandshakeLen
          /\ ~WholeHandshake(Front(c), len)
          /\ Reject(c, PeerObjects, "malformed")
       \/ /\ len > HandshakeLen
          /\ WholeHandshake(Front(c), len)
          /\ ~AcceptsAck(Front(c))
          /\ Reject(c, PeerObjects, "invalid")
       \/ /\ len > HandshakeLen
          /\ WholeHandshake(Front(c), len)
          /\ AcceptsAck(Front(c))
          /\ Reject(c, KeyedObjects, "resource")
       \/ /\ len > HandshakeLen
          /\ WholeHandshake(Front(c), len)
          /\ AcceptsAck(Front(c))
          /\ Drain(c, n, len)
          /\ SendChallenge(c)
          /\ owned' = [owned EXCEPT ![c] = @ \cup {"pubkey"}]
          /\ stage' = [stage EXCEPT ![c] = "PUBKEY_CHECK"]
          /\ UNCHANGED << conn, hsInit, nsent, cause, echo >>

WholeData(p, len) == p.type = "DATA" /\ len = Size(p)

\* A slip of the comparison: any payload that decrypts will do.
EchoMatches_NotCompared(c, dec) == dec # NoBuffer

\* Another: the array is one for all peers, so that any peer's will do.
EchoMatches_Shared(c, dec) ==
    dec # NoBuffer /\ \E d \in Conns : dec = authenticity[d]

\* The memcmp of the decrypted payload with the array this peer was sent.
EchoMatches(c, dec) == dec # NoBuffer /\ dec = authenticity[c]

\* VCMP_PEER_STAGE_PUBKEY_CHECK: the echoed challenge makes the peer ready.
\* Every rejection frees the public key, except that of a short packet.
ReadEcho(c, n) ==
    /\ Readable(c, n)
    /\ stage[c] = "PUBKEY_CHECK"
    /\ Arrived(c, n) >= HeaderLen
    /\ LET len == Arrived(c, n)
           dec == rsa_decrypt(Front(c).plain) IN
       \/ /\ len <= DataLen
          /\ Reject(c, PeerObjects, "short")
       \/ /\ len > DataLen
          /\ ~WholeData(Front(c), len)
          /\ Reject(c, KeyedObjects, "malformed")
       \/ /\ len > DataLen
          /\ WholeData(Front(c), len)
          /\ ~(vcmp_validate(Front(c)) /\ EchoMatches(c, dec))
          /\ Reject(c, KeyedObjects, "invalid")
       \/ /\ len > DataLen
          /\ WholeData(Front(c), len)
          /\ vcmp_validate(Front(c))
          /\ EchoMatches(c, dec)
          /\ Drain(c, n, len)
          /\ echo' = [echo EXCEPT ![c] = dec]
          /\ stage' = [stage EXCEPT ![c] = "READY"]
          /\ UNCHANGED << conn, authenticity, owned, hsInit, challenge, nsent,
                          cause >>

\* VCMP_PEER_STAGE_READY has no case in the switch: the input only grows.
ReadReady(c, n) ==
    /\ Readable(c, n)
    /\ stage[c] = "READY"
    /\ Arrived(c, n) >= HeaderLen
    /\ buffered' = [buffered EXCEPT ![c] = Arrived(c, n)]
    /\ wire' = [wire EXCEPT ![c] = @ - n]
    /\ UNCHANGED << conn, stage, authenticity, owned, stream, hsInit,
                    challenge, nsent, cause, echo >>

read_cb(c) ==
    \E n \in ReadSizes(c) :
        \/ ReadShort(c, n)
        \/ ReadVerify(c, n)
        \/ ReadKey(c, n)
        \/ ReadEcho(c, n)
        \/ ReadReady(c, n)

-----------------------------------------------------------------------------
(* The remote nodes.  The dialling side is not in the repository; an honest *)
(* one takes the README's steps, each after the answer to the one before.   *)
(* The others send the protocol's packets in any order and at any time.     *)

HonestSends(c, p) ==
    \/ nsent[c] = 0 /\ p = Verify
    \/ nsent[c] = 1 /\ hsInit[c] /\ p = Ack(AckForm)
    \/ /\ nsent[c] = 2
       /\ challenge[c] # NoChallenge /\ Legible(challenge[c])
       /\ p = Data(challenge[c].nonce)
    \/ nsent[c] > 2 /\ stage[c] = "READY" /\ p = Data(Garbage)

\* Plaintexts the other nodes can send: of the challenges, only those that
\* reached one of them in full.
Learned ==
    { challenge[d].nonce : d \in { e \in Conns \ Honest :
          challenge[e] # NoChallenge /\ Legible(challenge[e]) } }

OthersSend(c, p) == p.type = "DATA" => p.plain \in Learned \cup {Garbage}

RemoteSend(c, p) ==
    /\ conn[c] = "open"
    /\ nsent[c] < MaxPackets
    /\ \A d \in Conns \ {c} : nsent[c] + nsent[d] < MaxTogether
    /\ Len(stream[c]) < MaxBacklog
    /\ IF c \in Honest THEN HonestSends(c, p) ELSE OthersSend(c, p)
    /\ stream' = [stream EXCEPT ![c] = Append(@, p)]
    /\ wire' = [wire EXCEPT ![c] = @ + Size(p)]
    /\ nsent' = [nsent EXCEPT ![c] = @ + 1]
    /\ UNCHANGED << conn, stage, authenticity, owned, buffered, hsInit,
                    challenge, cause, echo >>

-----------------------------------------------------------------------------
Next ==
    \E c \in Conns :
        \/ accept_conn_cb(c)
        \/ AcceptFails(c)
        \/ event_cb(c)
        \/ read_cb(c)
        \/ \E p \in Packets : RemoteSend(c, p)

Spec == Init /\ [][Next]_vars

\* libevent reports a readable socket on every turn of its loop until it is
\* read, and an honest node goes on with the handshake.
Fairness ==
    \A c \in Conns :
        /\ WF_vars(read_cb(c))
        /\ c \in Honest => WF_vars(\E p \in Packets : RemoteSend(c, p))

FairSpec == Spec /\ Fairness

-----------------------------------------------------------------------------
(* Properties *)

Challenged == {"PUBKEY_CHECK", "READY"}

\* A peer is taken for ready only after it returned the very array that this
\* connection was challenged with, under a challenge that went out in full:
\* no echo of another connection's challenge and no other plaintext will do.
ReadyIsProven ==
    \A c \in Conns : stage[c] = "READY" =>
        /\ authenticity[c] \in Nonces
        /\ echo[c] = authenticity[c]
        /\ challenge[c].nonce = authenticity[c]
        /\ Legible(challenge[c])

\* The stage says what was sent: our key exactly when it is past NONE, and
\* exactly from PUBKEY_CHECK on a challenge, of the array the peer is later
\* compared with.  peer->authenticity is the zeroed array until then.
RepliesMatchStage ==
    \A c \in Conns :
        /\ hsInit[c] <=> stage[c] # "NONE"
        /\ IF stage[c] \in Challenged
           THEN /\ authenticity[c] \in Nonces
                /\ challenge[c] = ChallengePacket(authenticity[c])
           ELSE /\ authenticity[c] = NoNonce
                /\ challenge[c] = NoChallenge

HeldKey(c) == IF stage[c] \in Challenged THEN {"pubkey"} ELSE {}

\* Who owns what: a live connection holds its socket, bufferevent and peer,
\* and the remote key exactly from PUBKEY_CHECK on.  A rejected one holds
\* nothing, but for the key of a peer rejected on a short packet from then
\* on, which listener.c frees on every path but those two.
Ownership ==
    \A c \in Conns :
        /\ conn[c] = "idle" => owned[c] = {}
        /\ conn[c] = "orphan" => owned[c] \in {{"fd"}, {"fd", "bev"}}
        /\ conn[c] \in {"open", "eof"} =>
               owned[c] = PeerObjects \cup HeldKey(c)
        /\ conn[c] = "dropped" =>
               owned[c] = IF cause[c] = "short" THEN HeldKey(c) ELSE {}

\* Bytes can stay in the input between two callbacks only behind a VERIFY
\* header, where the peer then waits for bytes that may never come, and at
\* READY, where nothing reads them.
LeftoverOnlyAfterVerify ==
    \A c \in Conns :
        conn[c] = "open" /\ stage[c] \in {"NONE", "PUBKEY_CHECK"}
            => buffered[c] = 0

\* The bytes of these packets together.
TotalSize(packets) ==
    LET sizes[i \in 0 .. Len(packets)] ==
            IF i = 0 THEN 0 ELSE sizes[i - 1] + Size(packets[i])
    IN  sizes[Len(packets)]

\* Framing: what read_cb finds at the front of its input is always the first
\* byte of the oldest packet it has not drained, whatever pieces the packets
\* came in - the bytes in the input and on the wire are those packets' bytes.
BytesAccounted ==
    \A c \in Conns :
        conn[c] = "open" => buffered[c] + wire[c] = TotalSize(stream[c])

Successor ==
    [NONE |-> "PUBKEY_WAIT", PUBKEY_WAIT |-> "PUBKEY_CHECK",
     PUBKEY_CHECK |-> "READY"]

\* A peer takes the stages one by one and never goes back; each step up
\* consumes exactly one of its packets, on a connection that stays open.
StageStep(c) ==
    stage'[c] # stage[c] =>
        /\ stage[c] # "READY"
        /\ stage'[c] = Successor[stage[c]]
        /\ stream'[c] = Tail(stream[c])
        /\ conn[c] = "open" /\ conn'[c] = "open"

StageOrder == [][\A c \in Conns : StageStep(c)]_vars

\* What PeerAuth sees of a peer.
PhaseOf ==
    [NONE |-> "unproven", PUBKEY_WAIT |-> "unproven",
     PUBKEY_CHECK |-> "challenged", READY |-> "proven"]

Auth == INSTANCE PeerAuth WITH
            Secrets <- Nonces, NoSecret <- NoNonce,
            phase <- [c \in Conns |-> PhaseOf[stage[c]]],
            secret <- authenticity, answer <- echo

\* The listener implements PeerAuth: whatever packets come, in whatever
\* pieces, a connection is challenged once, with an array that stays the one
\* it is compared with, and becomes ready by an answer equal to it.
ImplementsPeerAuth == Auth!Spec

\* A node that follows the handshake, its packets arriving whole, is dropped
\* for want of memory or of a socket buffer and for nothing else.
HonestNeverRejected ==
    \A c \in Honest : cause[c] \in {"none", "resource"}

\* Such a node becomes ready, unless its connection or this node's memory
\* fails it on the way.
HonestProgress ==
    \A c \in Honest :
        conn[c] = "open" ~>
            stage[c] = "READY" \/ conn[c] = "eof" \/ cause[c] = "resource"
=============================================================================
