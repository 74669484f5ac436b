------------------------- MODULE PeerListenerProofs -------------------------
(***************************************************************************)
(* Proofs about PeerListener, for any layout of the packets, any set of    *)
(* connections, any split of the byte streams, and for the EVP call and    *)
(* the challenge length the code has as well as for those it should have,  *)
(* but where a theorem names the one it is about.                          *)
(***************************************************************************)
EXTENDS PeerListener, TLAPS, WellFoundedInduction

(* Lemmas about the packets and the bytes of a read. *)

LEMMA SizeType ==
    ASSUME NEW p \in Packets
    PROVE  Size(p) \in Nat \ {0}
BY LayoutAssumption
   DEF Size, Packets, VerifyPackets, AckPackets, DataPackets

LEMMA ReadSizesType ==
    ASSUME TypeOK, NEW c \in Conns, NEW n \in ReadSizes(c)
    PROVE  n \in Nat /\ n <= wire[c] /\ Arrived(c, n) \in Nat
<1>1. wire[c] \in Nat /\ buffered[c] \in Nat
  BY DEF TypeOK
<1> QED
  BY <1>1 DEF ReadSizes, Arrived

LEMMA EncryptGivesText ==
    ASSUME NEW nonce PROVE rsa_encrypt(nonce) = nonce
BY DEF rsa_encrypt, EVP_PKEY_call

\* A plaintext comes out of rsa_decrypt only if it makes the right call.
LEMMA DecryptNeedsItsCall ==
    ASSUME NEW cipher, rsa_decrypt(cipher) # NoBuffer
    PROVE  DecryptCall = "EVP_PKEY_decrypt" /\ rsa_decrypt(cipher) = cipher
BY DEF rsa_decrypt, EVP_PKEY_call

LEMMA ChallengeType ==
    ASSUME NEW nonce \in Nonces
    PROVE  /\ ChallengePacket(nonce)
                  \in [nonce : Nonces \cup {NoNonce}, written : Nat]
           /\ ChallengePacket(nonce) # NoChallenge
<1>1. ChallengeWrite \in Nat
  BY LayoutAssumption
<1>2. ChallengePacket(nonce).nonce # NoChallenge.nonce
  BY CryptoAssumption DEF ChallengePacket, NoChallenge
<1> QED
  BY <1>1, <1>2 DEF ChallengePacket

LEMMA DrainType ==
    ASSUME TypeOK, NEW c \in Conns, NEW n, NEW bytes \in Nat,
           Readable(c, n), bytes <= Arrived(c, n), Drain(c, n, bytes)
    PROVE  /\ stream' \in [Conns -> Seq(Packets)]
           /\ buffered' \in [Conns -> Nat]
           /\ wire' \in [Conns -> Nat]
<1>1. n \in Nat /\ n <= wire[c] /\ Arrived(c, n) \in Nat
  BY ReadSizesType DEF Readable
<1>2. Tail(stream[c]) \in Seq(Packets)
  BY DEF TypeOK, Readable
<1>3. Arrived(c, n) - bytes \in Nat
  BY <1>1
<1>4. wire[c] - n \in Nat
  BY <1>1 DEF TypeOK
<1> QED
  BY <1>2, <1>3, <1>4 DEF Drain, TypeOK

LEMMA RejectType ==
    ASSUME TypeOK, NEW c \in Conns, NEW freed, NEW why \in Causes,
           Reject(c, freed, why)
    PROVE  TypeOK'
<1>1. << >> \in Seq(Packets)
  OBVIOUS
<1>2. /\ conn' \in [Conns -> ConnStates]
      /\ cause' \in [Conns -> Causes]
  BY DEF Reject, TypeOK, ConnStates
<1>3. owned' \in [Conns -> SUBSET Objects]
  BY DEF Reject, TypeOK
<1>4. /\ stream' \in [Conns -> Seq(Packets)]
      /\ buffered' \in [Conns -> Nat]
      /\ wire' \in [Conns -> Nat]
  BY <1>1 DEF Reject, TypeOK
<1> QED
  BY <1>2, <1>3, <1>4 DEF Reject, TypeOK

\* The slip of sending an array before filling it aside, SendChallenge puts
\* the same array into the peer and, encrypted, into the packet.
LEMMA SendChallengeEffect ==
    ASSUME NEW c \in Conns, SendChallenge(c)
    PROVE  \E nonce \in Nonces :
              /\ authenticity' = [authenticity EXCEPT ![c] = nonce]
              /\ challenge' = [challenge EXCEPT ![c] = ChallengePacket(nonce)]
BY EncryptGivesText DEF SendChallenge

-----------------------------------------------------------------------------
(* What a run of read_cb amounts to: it rejects the peer, or takes one packet *)
(* and one step up, or leaves a ready peer's bytes where they are.            *)

Rejects(c) ==
    /\ conn[c] = "open"
    /\ \E why \in Causes \ {"none"}, freed \in {PeerObjects, KeyedObjects} :
          /\ Reject(c, freed, why)
          /\ why = "short" => freed = PeerObjects
          /\ why # "short" /\ stage[c] \in Challenged => freed = KeyedObjects

TakesVerify(c, n) ==
    /\ Readable(c, n)
    /\ stage[c] = "NONE"
    /\ HeaderLen <= Arrived(c, n)
    /\ Drain(c, n, HeaderLen)
    /\ hsInit' = [hsInit EXCEPT ![c] = TRUE]
    /\ stage' = [stage EXCEPT ![c] = "PUBKEY_WAIT"]
    /\ UNCHANGED << conn, authenticity, owned, challenge, nsent, cause, echo >>

TakesKey(c, n) ==
    /\ Readable(c, n)
    /\ stage[c] = "PUBKEY_WAIT"
    /\ Drain(c, n, Arrived(c, n))
    /\ SendChallenge(c)
    /\ owned' = [owned EXCEPT ![c] = @ \cup {"pubkey"}]
    /\ stage' = [stage EXCEPT ![c] = "PUBKEY_CHECK"]
    /\ UNCHANGED << conn, hsInit, nsent, cause, echo >>

TakesEcho(c, n) ==
    /\ Readable(c, n)
    /\ stage[c] = "PUBKEY_CHECK"
    /\ Drain(c, n, Arrived(c, n))
    /\ Front(c).type = "DATA"
    /\ EchoMatches(c, rsa_decrypt(Front(c).plain))
    /\ echo' = [echo EXCEPT ![c] = rsa_decrypt(Front(c).plain)]
    /\ stage' = [stage EXCEPT ![c] = "READY"]
    /\ UNCHANGED << conn, authenticity, owned, hsInit, challenge, nsent, cause >>

Takes(c, n) == TakesVerify(c, n) \/ TakesKey(c, n) \/ TakesEcho(c, n)

LEMMA ReadCases ==
    ASSUME TypeOK, NEW c \in Conns, read_cb(c)
    PROVE  \/ Rejects(c)
           \/ \E n \in ReadSizes(c) : Takes(c, n) \/ ReadReady(c, n)
<1> USE DEF Rejects, Takes, Causes
<1>1. ASSUME NEW n \in ReadSizes(c), ReadShort(c, n)
      PROVE  Rejects(c)
  BY <1>1 DEF ReadShort, Readable
<1>2. ASSUME NEW n \in ReadSizes(c), ReadVerify(c, n)
      PROVE  Rejects(c) \/ TakesVerify(c, n)
  BY <1>2, ReadSizesType, LayoutAssumption
     DEF ReadVerify, Readable, TakesVerify, Challenged
<1>3. ASSUME NEW n \in ReadSizes(c), ReadKey(c, n)
      PROVE  Rejects(c) \/ TakesKey(c, n)
  BY <1>3 DEF ReadKey, Readable, TakesKey, Challenged
<1>4. ASSUME NEW n \in ReadSizes(c), ReadEcho(c, n)
      PROVE  Rejects(c) \/ TakesEcho(c, n)
  BY <1>4 DEF ReadEcho, Readable, TakesEcho, Challenged, WholeData
<1> QED
  BY <1>1, <1>2, <1>3, <1>4 DEF read_cb

-----------------------------------------------------------------------------
(* The type invariant *)

LEMMA TypeInit == Init => TypeOK
<1>1. << >> \in Seq(Packets)
  OBVIOUS
<1>2. NoChallenge \in [nonce : Nonces \cup {NoNonce}, written : Nat]
  BY DEF NoChallenge
<1> QED
  BY <1>1, <1>2, ListenerAssumption
     DEF Init, TypeOK, ConnStates, Stages, Causes

LEMMA TypeNext == TypeOK /\ [Next]_vars => TypeOK'
<1> SUFFICES ASSUME TypeOK, [Next]_vars
             PROVE  TypeOK'
  OBVIOUS
<1>0. CASE UNCHANGED vars
  BY <1>0 DEF vars, TypeOK
<1>1. ASSUME NEW c \in Conns, accept_conn_cb(c)
      PROVE  TypeOK'
  BY <1>1 DEF accept_conn_cb, TypeOK, ConnStates, Objects, Stages
<1>2. ASSUME NEW c \in Conns, AcceptFails(c)
      PROVE  TypeOK'
  <2>1. PICK left \in SUBSET Objects : owned' = [owned EXCEPT ![c] = left]
    BY <1>2 DEF AcceptFails, Objects
  <2>2. owned' \in [Conns -> SUBSET Objects]
    BY <2>1 DEF TypeOK
  <2> QED
    BY <1>2, <2>2 DEF AcceptFails, TypeOK, ConnStates
<1>3. ASSUME NEW c \in Conns, event_cb(c)
      PROVE  TypeOK'
  BY <1>3 DEF event_cb, TypeOK, ConnStates
<1>4. ASSUME NEW c \in Conns, Rejects(c)
      PROVE  TypeOK'
  BY <1>4, RejectType DEF Rejects
<1>5. ASSUME NEW c \in Conns, NEW n \in ReadSizes(c), TakesVerify(c, n)
      PROVE  TypeOK'
  <2>1. /\ stream' \in [Conns -> Seq(Packets)]
        /\ buffered' \in [Conns -> Nat]
        /\ wire' \in [Conns -> Nat]
    BY <1>5, DrainType, LayoutAssumption DEF TakesVerify
  <2> QED
    BY <1>5, <2>1 DEF TakesVerify, TypeOK, Stages
<1>6. ASSUME NEW c \in Conns, NEW n \in ReadSizes(c), TakesKey(c, n)
      PROVE  TypeOK'
  <2>1. /\ stream' \in [Conns -> Seq(Packets)]
        /\ buffered' \in [Conns -> Nat]
        /\ wire' \in [Conns -> Nat]
    BY <1>6, DrainType, ReadSizesType DEF TakesKey
  <2>2. PICK nonce \in Nonces :
           /\ authenticity' = [authenticity EXCEPT ![c] = nonce]
           /\ challenge' = [challenge EXCEPT ![c] = ChallengePacket(nonce)]
    BY <1>6, SendChallengeEffect DEF TakesKey
  <2>3. /\ authenticity' \in [Conns -> Nonces \cup {NoNonce}]
        /\ challenge' \in
              [Conns -> [nonce : Nonces \cup {NoNonce}, written : Nat]]
    BY <2>2, ChallengeType DEF TypeOK
  <2> QED
    BY <1>6, <2>1, <2>3 DEF TakesKey, TypeOK, Stages, Objects
<1>7. ASSUME NEW c \in Conns, NEW n \in ReadSizes(c), TakesEcho(c, n)
      PROVE  TypeOK'
  <2>1. /\ stream' \in [Conns -> Seq(Packets)]
        /\ buffered' \in [Conns -> Nat]
        /\ wire' \in [Conns -> Nat]
    BY <1>7, DrainType, ReadSizesType DEF TakesEcho
  <2>2. echo' \in [Conns -> Plaintexts \cup {NoNonce}]
    BY <1>7 DEF TakesEcho, EchoMatches, TypeOK, Plaintexts
  <2> QED
    BY <1>7, <2>1, <2>2 DEF TakesEcho, TypeOK, Stages
<1>8. ASSUME NEW c \in Conns, NEW n \in ReadSizes(c), ReadReady(c, n)
      PROVE  TypeOK'
  BY <1>8, ReadSizesType DEF ReadReady, TypeOK
<1>9. ASSUME NEW c \in Conns, NEW p \in Packets, RemoteSend(c, p)
      PROVE  TypeOK'
  <2>1. Append(stream[c], p) \in Seq(Packets)
    BY DEF TypeOK
  <2>2. wire[c] + Size(p) \in Nat
    BY SizeType DEF TypeOK
  <2>3. nsent[c] + 1 \in 0 .. MaxPackets
    BY <1>9, ListenerAssumption DEF RemoteSend, TypeOK
  <2> QED
    BY <1>9, <2>1, <2>2, <2>3 DEF RemoteSend, TypeOK
<1> QED
  BY <1>0, <1>1, <1>2, <1>3, <1>4, <1>5, <1>6, <1>7, <1>8, <1>9, ReadCases
     DEF Next, Takes

\* Every variable of the listener keeps its type; in particular no drain
\* takes more bytes than the input holds.
THEOREM TypeCorrect == Spec => []TypeOK
BY TypeInit, TypeNext, PTL DEF Spec

-----------------------------------------------------------------------------
(* A connection that was not accepted yet holds what Init gave it. *)

IdleIsFresh ==
    \A c \in Conns : conn[c] = "idle" =>
        /\ stage[c] = "NONE"
        /\ buffered[c] = 0

LEMMA IdleInit == Init => IdleIsFresh
BY DEF Init, IdleIsFresh

LEMMA IdleNext == TypeOK /\ IdleIsFresh /\ [Next]_vars => IdleIsFresh'
<1> SUFFICES ASSUME TypeOK, IdleIsFresh, [Next]_vars
             PROVE  IdleIsFresh'
  OBVIOUS
<1>0. CASE UNCHANGED vars
  BY <1>0 DEF vars, IdleIsFresh
<1>1. ASSUME NEW c \in Conns, accept_conn_cb(c)
      PROVE  IdleIsFresh'
  BY <1>1 DEF accept_conn_cb, TypeOK, IdleIsFresh
<1>2. ASSUME NEW c \in Conns, AcceptFails(c)
      PROVE  IdleIsFresh'
  BY <1>2 DEF AcceptFails, TypeOK, IdleIsFresh
<1>3. ASSUME NEW c \in Conns, event_cb(c)
      PROVE  IdleIsFresh'
  BY <1>3 DEF event_cb, TypeOK, IdleIsFresh
<1>4. ASSUME NEW c \in Conns, Rejects(c)
      PROVE  IdleIsFresh'
  BY <1>4 DEF Rejects, Reject, TypeOK, IdleIsFresh
<1>5. ASSUME NEW c \in Conns, NEW n \in ReadSizes(c), TakesVerify(c, n)
      PROVE  IdleIsFresh'
  BY <1>5 DEF TakesVerify, Drain, TypeOK, IdleIsFresh, Readable
<1>6. ASSUME NEW c \in Conns, NEW n \in ReadSizes(c), TakesKey(c, n)
      PROVE  IdleIsFresh'
  BY <1>6 DEF TakesKey, Drain, TypeOK, IdleIsFresh, Readable
<1>7. ASSUME NEW c \in Conns, NEW n \in ReadSizes(c), TakesEcho(c, n)
      PROVE  IdleIsFresh'
  BY <1>7 DEF TakesEcho, Drain, TypeOK, IdleIsFresh, Readable
<1>8. ASSUME NEW c \in Conns, NEW n \in ReadSizes(c), ReadReady(c, n)
      PROVE  IdleIsFresh'
  BY <1>8 DEF ReadReady, TypeOK, IdleIsFresh, Readable
<1>9. ASSUME NEW c \in Conns, NEW p \in Packets, RemoteSend(c, p)
      PROVE  IdleIsFresh'
  BY <1>9 DEF RemoteSend, TypeOK, IdleIsFresh
<1> QED
  BY <1>0, <1>1, <1>2, <1>3, <1>4, <1>5, <1>6, <1>7, <1>8, <1>9, ReadCases
     DEF Next, Takes

LEMMA IdleCorrect == Spec => []IdleIsFresh
BY IdleInit, IdleNext, TypeCorrect, PTL DEF Spec

-----------------------------------------------------------------------------
(* What the stage says *)

LEMMA RepliesInit == Init => RepliesMatchStage
BY DEF Init, RepliesMatchStage, Challenged

LEMMA RepliesNext ==
    TypeOK /\ IdleIsFresh /\ RepliesMatchStage /\ [Next]_vars
        => RepliesMatchStage'
<1> SUFFICES ASSUME TypeOK, IdleIsFresh, RepliesMatchStage, [Next]_vars
             PROVE  RepliesMatchStage'
  OBVIOUS
<1> USE DEF Challenged
<1>0. CASE UNCHANGED vars
  BY <1>0 DEF vars, RepliesMatchStage
<1>1. ASSUME NEW c \in Conns, accept_conn_cb(c)
      PROVE  RepliesMatchStage'
  BY <1>1 DEF accept_conn_cb, TypeOK, RepliesMatchStage, IdleIsFresh
<1>2. ASSUME NEW c \in Conns, AcceptFails(c)
      PROVE  RepliesMatchStage'
  BY <1>2 DEF AcceptFails, TypeOK, RepliesMatchStage
<1>3. ASSUME NEW c \in Conns, event_cb(c)
      PROVE  RepliesMatchStage'
  BY <1>3 DEF event_cb, TypeOK, RepliesMatchStage
<1>4. ASSUME NEW c \in Conns, Rejects(c)
      PROVE  RepliesMatchStage'
  BY <1>4 DEF Rejects, Reject, TypeOK, RepliesMatchStage
<1>5. ASSUME NEW c \in Conns, NEW n \in ReadSizes(c), TakesVerify(c, n)
      PROVE  RepliesMatchStage'
  BY <1>5 DEF TakesVerify, Drain, TypeOK, RepliesMatchStage
<1>6. ASSUME NEW c \in Conns, NEW n \in ReadSizes(c), TakesKey(c, n)
      PROVE  RepliesMatchStage'
  <2>1. PICK nonce \in Nonces :
           /\ authenticity' = [authenticity EXCEPT ![c] = nonce]
           /\ challenge' = [challenge EXCEPT ![c] = ChallengePacket(nonce)]
    BY <1>6, SendChallengeEffect DEF TakesKey
  <2> QED
    BY <1>6, <2>1 DEF TakesKey, TypeOK, RepliesMatchStage
<1>7. ASSUME NEW c \in Conns, NEW n \in ReadSizes(c), TakesEcho(c, n)
      PROVE  RepliesMatchStage'
  BY <1>7 DEF TakesEcho, Drain, TypeOK, RepliesMatchStage
<1>8. ASSUME NEW c \in Conns, NEW n \in ReadSizes(c), ReadReady(c, n)
      PROVE  RepliesMatchStage'
  BY <1>8 DEF ReadReady, TypeOK, RepliesMatchStage
<1>9. ASSUME NEW c \in Conns, NEW p \in Packets, RemoteSend(c, p)
      PROVE  RepliesMatchStage'
  BY <1>9 DEF RemoteSend, TypeOK, RepliesMatchStage
<1> QED
  BY <1>0, <1>1, <1>2, <1>3, <1>4, <1>5, <1>6, <1>7, <1>8, <1>9, ReadCases
     DEF Next, Takes

\* The stage of a peer tells exactly what this node sent it: its key past
\* NONE, a challenge of the peer's own array from PUBKEY_CHECK on.
THEOREM RepliesCorrect == Spec => []RepliesMatchStage
BY RepliesInit, RepliesNext, IdleCorrect, TypeCorrect, PTL DEF Spec

-----------------------------------------------------------------------------
(* Who frees what *)

LEMMA OwnershipInit == Init => Ownership
BY DEF Init, Ownership, HeldKey, Challenged

LEMMA OwnershipNext == TypeOK /\ Ownership /\ [Next]_vars => Ownership'
<1> SUFFICES ASSUME TypeOK, Ownership, [Next]_vars
             PROVE  Ownership'
  OBVIOUS
<1> USE DEF Challenged, PeerObjects, KeyedObjects
<1>0. CASE UNCHANGED vars
  BY <1>0 DEF vars, Ownership, HeldKey
<1>1. ASSUME NEW c \in Conns, accept_conn_cb(c)
      PROVE  Ownership'
  BY <1>1 DEF accept_conn_cb, TypeOK, Ownership, HeldKey
<1>2. ASSUME NEW c \in Conns, AcceptFails(c)
      PROVE  Ownership'
  BY <1>2 DEF AcceptFails, TypeOK, Ownership, HeldKey
<1>3. ASSUME NEW c \in Conns, event_cb(c)
      PROVE  Ownership'
  BY <1>3 DEF event_cb, TypeOK, Ownership, HeldKey
<1>4. ASSUME NEW c \in Conns, Rejects(c)
      PROVE  Ownership'
  <2>1. PICK why \in Causes \ {"none"}, freed \in {PeerObjects, KeyedObjects} :
           /\ Reject(c, freed, why)
           /\ why = "short" => freed = PeerObjects
           /\ why # "short" /\ stage[c] \in Challenged => freed = KeyedObjects
    BY <1>4 DEF Rejects
  <2>2. owned[c] = PeerObjects \cup HeldKey(c)
    BY <1>4 DEF Rejects, Ownership, HeldKey
  <2>3. owned[c] \ freed = IF why = "short" THEN HeldKey(c) ELSE {}
    BY <2>1, <2>2 DEF HeldKey
  <2>4. /\ conn' = [conn EXCEPT ![c] = "dropped"]
        /\ owned' = [owned EXCEPT ![c] = owned[c] \ freed]
        /\ cause' = [cause EXCEPT ![c] = why]
        /\ stage' = stage
    BY <2>1 DEF Reject
  <2>5. /\ conn'[c] = "dropped"
        /\ owned'[c] = IF cause'[c] = "short" THEN HeldKey(c) ELSE {}
    BY <2>3, <2>4 DEF TypeOK
  <2>6. ASSUME NEW d \in Conns \ {c}
        PROVE  /\ conn'[d] = conn[d]
               /\ owned'[d] = owned[d]
               /\ cause'[d] = cause[d]
    BY <2>4 DEF TypeOK
  <2> QED
    BY <2>4, <2>5, <2>6 DEF Ownership, HeldKey
<1>5. ASSUME NEW c \in Conns, NEW n \in ReadSizes(c), TakesVerify(c, n)
      PROVE  Ownership'
  BY <1>5 DEF TakesVerify, Drain, TypeOK, Ownership, HeldKey, Readable
<1>6. ASSUME NEW c \in Conns, NEW n \in ReadSizes(c), TakesKey(c, n)
      PROVE  Ownership'
  <2>1. owned[c] = PeerObjects
    BY <1>6 DEF TakesKey, Readable, Ownership, HeldKey
  <2>2. /\ owned' = [owned EXCEPT ![c] = PeerObjects \cup {"pubkey"}]
        /\ stage' = [stage EXCEPT ![c] = "PUBKEY_CHECK"]
        /\ conn' = conn /\ cause' = cause /\ conn[c] = "open"
    BY <1>6, <2>1 DEF TakesKey, Readable
  <2>3. ASSUME NEW d \in Conns \ {c}
        PROVE  owned'[d] = owned[d] /\ stage'[d] = stage[d]
    BY <2>2 DEF TypeOK
  <2>4. owned'[c] = PeerObjects \cup {"pubkey"} /\ stage'[c] = "PUBKEY_CHECK"
    BY <2>2 DEF TypeOK
  <2> QED
    BY <2>2, <2>3, <2>4 DEF Ownership, HeldKey
<1>7. ASSUME NEW c \in Conns, NEW n \in ReadSizes(c), TakesEcho(c, n)
      PROVE  Ownership'
  BY <1>7 DEF TakesEcho, Drain, TypeOK, Ownership, HeldKey, Readable
<1>8. ASSUME NEW c \in Conns, NEW n \in ReadSizes(c), ReadReady(c, n)
      PROVE  Ownership'
  BY <1>8 DEF ReadReady, TypeOK, Ownership, HeldKey
<1>9. ASSUME NEW c \in Conns, NEW p \in Packets, RemoteSend(c, p)
      PROVE  Ownership'
  BY <1>9 DEF RemoteSend, TypeOK, Ownership, HeldKey
<1> QED
  BY <1>0, <1>1, <1>2, <1>3, <1>4, <1>5, <1>6, <1>7, <1>8, <1>9, ReadCases
     DEF Next, Takes

\* Every rejected peer is freed with all it owns, save the remote key of one
\* rejected on a short packet at PUBKEY_CHECK or READY.
THEOREM OwnershipCorrect == Spec => []Ownership
BY OwnershipInit, OwnershipNext, TypeCorrect, PTL DEF Spec

-----------------------------------------------------------------------------
(* Bytes left in the input *)

LEMMA LeftoverInit == Init => LeftoverOnlyAfterVerify
BY DEF Init, LeftoverOnlyAfterVerify

LEMMA LeftoverNext ==
    TypeOK /\ IdleIsFresh /\ LeftoverOnlyAfterVerify /\ [Next]_vars
        => LeftoverOnlyAfterVerify'
<1> SUFFICES ASSUME TypeOK, IdleIsFresh, LeftoverOnlyAfterVerify, [Next]_vars
             PROVE  LeftoverOnlyAfterVerify'
  OBVIOUS
<1>0. CASE UNCHANGED vars
  BY <1>0 DEF vars, LeftoverOnlyAfterVerify
<1>1. ASSUME NEW c \in Conns, accept_conn_cb(c)
      PROVE  LeftoverOnlyAfterVerify'
  BY <1>1 DEF accept_conn_cb, TypeOK, LeftoverOnlyAfterVerify, IdleIsFresh
<1>2. ASSUME NEW c \in Conns, AcceptFails(c)
      PROVE  LeftoverOnlyAfterVerify'
  BY <1>2 DEF AcceptFails, TypeOK, LeftoverOnlyAfterVerify
<1>3. ASSUME NEW c \in Conns, event_cb(c)
      PROVE  LeftoverOnlyAfterVerify'
  BY <1>3 DEF event_cb, TypeOK, LeftoverOnlyAfterVerify
<1>4. ASSUME NEW c \in Conns, Rejects(c)
      PROVE  LeftoverOnlyAfterVerify'
  BY <1>4 DEF Rejects, Reject, TypeOK, LeftoverOnlyAfterVerify
<1>5. ASSUME NEW c \in Conns, NEW n \in ReadSizes(c), TakesVerify(c, n)
      PROVE  LeftoverOnlyAfterVerify'
  BY <1>5 DEF TakesVerify, Drain, TypeOK, LeftoverOnlyAfterVerify
<1>6. ASSUME NEW c \in Conns, NEW n \in ReadSizes(c), TakesKey(c, n)
      PROVE  LeftoverOnlyAfterVerify'
  BY <1>6, ReadSizesType DEF TakesKey, Drain, TypeOK, LeftoverOnlyAfterVerify
<1>7. ASSUME NEW c \in Conns, NEW n \in ReadSizes(c), TakesEcho(c, n)
      PROVE  LeftoverOnlyAfterVerify'
  BY <1>7, ReadSizesType DEF TakesEcho, Drain, TypeOK, LeftoverOnlyAfterVerify
<1>8. ASSUME NEW c \in Conns, NEW n \in ReadSizes(c), ReadReady(c, n)
      PROVE  LeftoverOnlyAfterVerify'
  BY <1>8 DEF ReadReady, TypeOK, LeftoverOnlyAfterVerify
<1>9. ASSUME NEW c \in Conns, NEW p \in Packets, RemoteSend(c, p)
      PROVE  LeftoverOnlyAfterVerify'
  BY <1>9 DEF RemoteSend, TypeOK, LeftoverOnlyAfterVerify
<1> QED
  BY <1>0, <1>1, <1>2, <1>3, <1>4, <1>5, <1>6, <1>7, <1>8, <1>9, ReadCases
     DEF Next, Takes

\* Between two callbacks the input of a peer at NONE or PUBKEY_CHECK is
\* empty, however its packets were cut and merged on their way.
THEOREM LeftoverCorrect == Spec => []LeftoverOnlyAfterVerify
BY LeftoverInit, LeftoverNext, IdleCorrect, TypeCorrect, PTL DEF Spec

-----------------------------------------------------------------------------
(* Ready peers *)

\* No node sends the plaintext of a challenge before some challenge reached
\* a remote node in full.
TextsWereSent ==
    \A c \in Conns : \A i \in 1 .. Len(stream[c]) :
        stream[c][i].type = "DATA" /\ stream[c][i].plain # Garbage
            => ChallengeWrite = DataLen + CipherLen

LEMMA SentTextIsWhole ==
    ASSUME TypeOK, RepliesMatchStage,
           NEW c \in Conns, NEW p \in Packets, RemoteSend(c, p),
           p.type = "DATA", p.plain # Garbage
    PROVE  ChallengeWrite = DataLen + CipherLen
<1>1. ASSUME NEW d \in Conns, challenge[d] # NoChallenge, Legible(challenge[d])
      PROVE  ChallengeWrite = DataLen + CipherLen
  <2>1. challenge[d] = ChallengePacket(authenticity[d])
    BY <1>1 DEF RepliesMatchStage
  <2> QED
    BY <1>1, <2>1 DEF ChallengePacket, Legible
<1>2. CASE c \in Honest
  <2>1. p = Data(challenge[c].nonce) \/ p = Data(Garbage)
           \/ p = Verify \/ p = Ack(AckForm)
    BY <1>2 DEF RemoteSend, HonestSends
  <2>2. ~(p = Data(Garbage) \/ p = Verify \/ p = Ack(AckForm))
    BY DEF Data, Verify, Ack
  <2>3. challenge[c] # NoChallenge /\ Legible(challenge[c])
    BY <1>2, <2>2 DEF RemoteSend, HonestSends
  <2> QED
    BY <1>1, <2>3
<1>3. CASE c \notin Honest
  <2>1. p.plain \in Learned
    BY <1>3 DEF RemoteSend, OthersSend
  <2> QED
    BY <1>1, <2>1, ListenerAssumption DEF Learned
<1> QED
  BY <1>2, <1>3

LEMMA TextsInit == Init => TextsWereSent
BY DEF Init, TextsWereSent

LEMMA TextsNext ==
    TypeOK /\ RepliesMatchStage /\ TextsWereSent /\ [Next]_vars
        => TextsWereSent'
<1> SUFFICES ASSUME TypeOK, RepliesMatchStage, TextsWereSent, [Next]_vars
             PROVE  TextsWereSent'
  OBVIOUS
<1>0. CASE UNCHANGED stream
  BY <1>0 DEF TextsWereSent
<1>1. ASSUME NEW c \in Conns, stream' = [stream EXCEPT ![c] = << >>]
      PROVE  TextsWereSent'
  BY <1>1 DEF TextsWereSent, TypeOK
<1>2. ASSUME NEW c \in Conns, stream[c] # << >>,
             stream' = [stream EXCEPT ![c] = Tail(@)]
      PROVE  TextsWereSent'
  <2>1. stream[c] \in Seq(Packets)
    BY DEF TypeOK
  <2>2. \A i \in 1 .. Len(Tail(stream[c])) :
           /\ i + 1 \in 1 .. Len(stream[c])
           /\ Tail(stream[c])[i] = stream[c][i + 1]
    BY <1>2, <2>1
  <2> QED
    BY <1>2, <2>2 DEF TextsWereSent, TypeOK
<1>3. ASSUME NEW c \in Conns, NEW p \in Packets, RemoteSend(c, p)
      PROVE  TextsWereSent'
  <2>1. stream[c] \in Seq(Packets)
    BY DEF TypeOK
  <2>2. stream' = [stream EXCEPT ![c] = Append(stream[c], p)]
    BY <1>3 DEF RemoteSend
  <2>3. p.type = "DATA" /\ p.plain # Garbage
            => ChallengeWrite = DataLen + CipherLen
    BY <1>3, SentTextIsWhole
  <2>4. \A i \in 1 .. Len(Append(stream[c], p)) :
           Append(stream[c], p)[i] =
              IF i \in 1 .. Len(stream[c]) THEN stream[c][i] ELSE p
    BY <2>1
  <2>5. ASSUME NEW d \in Conns, NEW i \in 1 .. Len(stream'[d]),
               stream'[d][i].type = "DATA", stream'[d][i].plain # Garbage
        PROVE  ChallengeWrite = DataLen + CipherLen
    <3>1. CASE d = c
      <4>1. stream'[d] = Append(stream[c], p)
        BY <2>2, <3>1 DEF TypeOK
      <4> QED
        BY <2>3, <2>4, <2>5, <4>1 DEF TextsWereSent
    <3>2. CASE d # c
      <4>1. stream'[d] = stream[d]
        BY <2>2, <3>2 DEF TypeOK
      <4> QED
        BY <2>5, <4>1 DEF TextsWereSent
    <3> QED
      BY <3>1, <3>2
  <2> QED
    BY <2>5 DEF TextsWereSent
<1>4. CASE UNCHANGED vars
  BY <1>0, <1>4 DEF vars
<1>5. ASSUME NEW c \in Conns, accept_conn_cb(c) \/ AcceptFails(c) \/ event_cb(c)
      PROVE  UNCHANGED stream
  BY <1>5 DEF accept_conn_cb, AcceptFails, event_cb
<1>6. ASSUME NEW c \in Conns, Rejects(c)
      PROVE  stream' = [stream EXCEPT ![c] = << >>]
  BY <1>6 DEF Rejects, Reject
<1>7. ASSUME NEW c \in Conns, NEW n \in ReadSizes(c), Takes(c, n)
      PROVE  stream[c] # << >> /\ stream' = [stream EXCEPT ![c] = Tail(@)]
  BY <1>7 DEF Takes, TakesVerify, TakesKey, TakesEcho, Drain, Readable
<1>8. ASSUME NEW c \in Conns, NEW n \in ReadSizes(c), ReadReady(c, n)
      PROVE  UNCHANGED stream
  BY <1>8 DEF ReadReady
<1> QED
  BY <1>0, <1>1, <1>2, <1>3, <1>4, <1>5, <1>6, <1>7, <1>8, ReadCases DEF Next

LEMMA TextsCorrect == Spec => []TextsWereSent
BY TextsInit, TextsNext, TypeCorrect, RepliesCorrect, PTL DEF Spec

LEMMA ReadyInit == Init => ReadyIsProven
BY DEF Init, ReadyIsProven

LEMMA ReadyNext ==
    TypeOK /\ IdleIsFresh /\ RepliesMatchStage /\ TextsWereSent
           /\ ReadyIsProven /\ [Next]_vars
        => ReadyIsProven'
<1> SUFFICES ASSUME TypeOK, IdleIsFresh, RepliesMatchStage, TextsWereSent,
                    ReadyIsProven, [Next]_vars
             PROVE  ReadyIsProven'
  OBVIOUS
<1>0. CASE UNCHANGED vars
  BY <1>0 DEF vars, ReadyIsProven
<1>1. ASSUME NEW c \in Conns, accept_conn_cb(c)
      PROVE  ReadyIsProven'
  BY <1>1 DEF accept_conn_cb, TypeOK, ReadyIsProven
<1>2. ASSUME NEW c \in Conns, AcceptFails(c)
      PROVE  ReadyIsProven'
  BY <1>2 DEF AcceptFails, ReadyIsProven
<1>3. ASSUME NEW c \in Conns, event_cb(c)
      PROVE  ReadyIsProven'
  BY <1>3 DEF event_cb, ReadyIsProven
<1>4. ASSUME NEW c \in Conns, Rejects(c)
      PROVE  ReadyIsProven'
  BY <1>4 DEF Rejects, Reject, ReadyIsProven
<1>5. ASSUME NEW c \in Conns, NEW n \in ReadSizes(c), TakesVerify(c, n)
      PROVE  ReadyIsProven'
  BY <1>5 DEF TakesVerify, TypeOK, ReadyIsProven
<1>6. ASSUME NEW c \in Conns, NEW n \in ReadSizes(c), TakesKey(c, n)
      PROVE  ReadyIsProven'
  <2>1. PICK nonce \in Nonces :
           /\ authenticity' = [authenticity EXCEPT ![c] = nonce]
           /\ challenge' = [challenge EXCEPT ![c] = ChallengePacket(nonce)]
    BY <1>6, SendChallengeEffect DEF TakesKey
  <2> QED
    BY <1>6, <2>1 DEF TakesKey, TypeOK, ReadyIsProven
<1>7. ASSUME NEW c \in Conns, NEW n \in ReadSizes(c), TakesEcho(c, n)
      PROVE  ReadyIsProven'
  <2>1. /\ authenticity[c] \in Nonces
        /\ challenge[c] = ChallengePacket(authenticity[c])
    BY <1>7 DEF TakesEcho, RepliesMatchStage, Challenged
  <2>2. rsa_decrypt(Front(c).plain) = authenticity[c]
    BY <1>7 DEF TakesEcho, EchoMatches
  <2>3. Front(c).plain = authenticity[c]
    BY <1>7, <2>2, DecryptNeedsItsCall DEF TakesEcho, EchoMatches
  <2>4. stream[c] \in Seq(Packets) /\ stream[c] # << >>
    BY <1>7 DEF TakesEcho, Readable, TypeOK
  <2>5. 1 \in 1 .. Len(stream[c]) /\ Front(c) = stream[c][1]
    BY <2>4 DEF Front
  <2>6. ChallengeWrite = DataLen + CipherLen
    BY <1>7, <2>1, <2>3, <2>5, CryptoAssumption
       DEF TextsWereSent, TakesEcho
  <2>7. Legible(challenge[c]) /\ challenge[c].nonce = authenticity[c]
    BY <2>1, <2>6 DEF Legible, ChallengePacket
  <2> QED
    BY <1>7, <2>1, <2>2, <2>7 DEF TakesEcho, TypeOK, ReadyIsProven
<1>8. ASSUME NEW c \in Conns, NEW n \in ReadSizes(c), ReadReady(c, n)
      PROVE  ReadyIsProven'
  BY <1>8 DEF ReadReady, ReadyIsProven
<1>9. ASSUME NEW c \in Conns, NEW p \in Packets, RemoteSend(c, p)
      PROVE  ReadyIsProven'
  BY <1>9 DEF RemoteSend, ReadyIsProven
<1> QED
  BY <1>0, <1>1, <1>2, <1>3, <1>4, <1>5, <1>6, <1>7, <1>8, <1>9, ReadCases
     DEF Next, Takes

\* A ready peer returned the array its own connection was challenged with,
\* and that challenge had gone out in full.
THEOREM ReadyCorrect == Spec => []ReadyIsProven
BY ReadyInit, ReadyNext, IdleCorrect, RepliesCorrect, TextsCorrect,
   TypeCorrect, PTL DEF Spec

\* As rsa.c and listener.c stand - rsa_decrypt finishing with the encrypting
\* call, or the challenge written as sizeof of a pointer to it - no peer ever
\* becomes ready, whatever the remote nodes do.
NobodyReady == \A c \in Conns : stage[c] # "READY"

LEMMA NobodyReadyNext ==
    ASSUME DecryptCall # "EVP_PKEY_decrypt"
    PROVE  TypeOK /\ NobodyReady /\ [Next]_vars => NobodyReady'
<1> SUFFICES ASSUME TypeOK, NobodyReady, [Next]_vars
             PROVE  NobodyReady'
  OBVIOUS
<1>1. ASSUME NEW c \in Conns, NEW n \in ReadSizes(c), TakesEcho(c, n)
      PROVE  FALSE
  BY <1>1, DecryptNeedsItsCall DEF TakesEcho, EchoMatches
<1>2. CASE UNCHANGED stage
  BY <1>2 DEF NobodyReady
<1>3. ASSUME NEW c \in Conns, NEW s \in Stages \ {"READY"},
             stage' = [stage EXCEPT ![c] = s]
      PROVE  NobodyReady'
  BY <1>3 DEF NobodyReady, TypeOK
<1>4. ASSUME NEW c \in Conns,
             \/ accept_conn_cb(c)
             \/ \E n \in ReadSizes(c) : TakesVerify(c, n) \/ TakesKey(c, n)
      PROVE  \E s \in Stages \ {"READY"} : stage' = [stage EXCEPT ![c] = s]
  BY <1>4 DEF accept_conn_cb, TakesVerify, TakesKey, Stages
<1>5. ASSUME NEW c \in Conns,
             \/ AcceptFails(c) \/ event_cb(c) \/ Rejects(c)
             \/ \E n \in ReadSizes(c) : ReadReady(c, n)
             \/ \E p \in Packets : RemoteSend(c, p)
      PROVE  UNCHANGED stage
  BY <1>5 DEF AcceptFails, event_cb, Rejects, Reject, ReadReady, RemoteSend
<1> QED
  BY <1>1, <1>2, <1>3, <1>4, <1>5, ReadCases DEF Next, Takes, vars

THEOREM AsBuiltNobodyReady ==
    ASSUME DecryptCall # "EVP_PKEY_decrypt" \/ ChallengeWrite # DataLen + CipherLen
    PROVE  Spec => []NobodyReady
<1>1. Init => NobodyReady
  BY DEF Init, NobodyReady
<1>2. CASE DecryptCall # "EVP_PKEY_decrypt"
  <2>1. TypeOK /\ NobodyReady /\ [Next]_vars => NobodyReady'
    BY <1>2, NobodyReadyNext
  <2> QED
    BY <1>1, <2>1, TypeCorrect, PTL DEF Spec
<1>3. CASE ChallengeWrite # DataLen + CipherLen
  <2>1. RepliesMatchStage /\ ReadyIsProven => NobodyReady
    <3> SUFFICES ASSUME RepliesMatchStage, ReadyIsProven,
                        NEW c \in Conns, stage[c] = "READY"
                 PROVE  FALSE
      BY DEF NobodyReady
    <3>1. challenge[c] = ChallengePacket(authenticity[c])
      BY DEF RepliesMatchStage, Challenged
    <3> QED
      BY <1>3, <3>1 DEF ReadyIsProven, Legible, ChallengePacket
  <2> QED
    BY <2>1, RepliesCorrect, ReadyCorrect, PTL
<1> QED
  BY <1>2, <1>3

-----------------------------------------------------------------------------
(* The order of the stages *)

LEMMA StageStepHolds ==
    TypeOK /\ IdleIsFresh /\ [Next]_vars => \A c \in Conns : StageStep(c)
<1> SUFFICES ASSUME TypeOK, IdleIsFresh, [Next]_vars, NEW d \in Conns
             PROVE  StageStep(d)
  OBVIOUS
<1>0. CASE UNCHANGED stage
  BY <1>0 DEF StageStep
<1>1. ASSUME NEW c \in Conns, accept_conn_cb(c)
      PROVE  UNCHANGED stage
  BY <1>1 DEF accept_conn_cb, IdleIsFresh, TypeOK
<1>2. ASSUME NEW c \in Conns,
             \/ AcceptFails(c) \/ event_cb(c) \/ Rejects(c)
             \/ \E n \in ReadSizes(c) : ReadReady(c, n)
             \/ \E p \in Packets : RemoteSend(c, p)
      PROVE  UNCHANGED stage
  BY <1>2 DEF AcceptFails, event_cb, Rejects, Reject, ReadReady, RemoteSend
<1>3. ASSUME NEW c \in Conns, NEW n \in ReadSizes(c), Takes(c, n)
      PROVE  StageStep(d)
  <2>1. /\ stage' = [stage EXCEPT ![c] = Successor[stage[c]]]
        /\ stage[c] # "READY"
        /\ stream' = [stream EXCEPT ![c] = Tail(@)]
        /\ conn[c] = "open" /\ conn' = conn
    BY <1>3 DEF Takes, TakesVerify, TakesKey, TakesEcho, Drain, Readable,
                Successor
  <2> QED
    BY <2>1 DEF StageStep, TypeOK
<1> QED
  BY <1>0, <1>1, <1>2, <1>3, ReadCases DEF Next, vars

\* A peer climbs the stages one at a time, on a packet each, and never back.
THEOREM StageOrderCorrect == Spec => StageOrder
<1>1. TypeOK /\ IdleIsFresh /\ [Next]_vars
          => [\A c \in Conns : StageStep(c)]_vars
  BY StageStepHolds
<1> QED
  BY <1>1, TypeCorrect, IdleCorrect, PTL DEF Spec, StageOrder

-----------------------------------------------------------------------------
(* The refinement of PeerAuth *)

LEMMA AuthInit == Init => Auth!Init
BY DEF Init, Auth!Init, PhaseOf

\* Everything but the two steps that challenge a peer and that find it
\* proven leaves the phase, the secret and the answer alone.
LEMMA AuthNext ==
    TypeOK /\ IdleIsFresh /\ RepliesMatchStage /\ [Next]_vars
        => [Auth!Next]_<< [c \in Conns |-> PhaseOf[stage[c]]], authenticity, echo >>
<1> SUFFICES ASSUME TypeOK, IdleIsFresh, RepliesMatchStage, [Next]_vars
             PROVE  [Auth!Next]_<< [c \in Conns |-> PhaseOf[stage[c]]],
                                   authenticity, echo >>
  OBVIOUS
<1> DEFINE Phase == [c \in Conns |-> PhaseOf[stage[c]]]
<1>0. stage \in [Conns -> Stages]
  BY DEF TypeOK
<1>1. CASE UNCHANGED << stage, authenticity, echo >>
  BY <1>1
<1>2. ASSUME NEW c \in Conns, accept_conn_cb(c)
      PROVE  UNCHANGED << stage, authenticity, echo >>
  <2>1. /\ stage[c] = "NONE" /\ authenticity[c] = NoNonce
        /\ stage' = [stage EXCEPT ![c] = "NONE"]
        /\ authenticity' = [authenticity EXCEPT ![c] = NoNonce]
        /\ UNCHANGED echo
    BY <1>2 DEF accept_conn_cb, IdleIsFresh, RepliesMatchStage, Challenged
  <2>2. stage' = stage
    BY <1>0, <2>1
  <2>3. authenticity' = authenticity
    BY <2>1 DEF TypeOK
  <2> QED
    BY <2>1, <2>2, <2>3
<1>3. ASSUME NEW c \in Conns,
             \/ AcceptFails(c) \/ event_cb(c) \/ Rejects(c)
             \/ \E n \in ReadSizes(c) : ReadReady(c, n)
             \/ \E p \in Packets : RemoteSend(c, p)
      PROVE  UNCHANGED << stage, authenticity, echo >>
  BY <1>3 DEF AcceptFails, event_cb, Rejects, Reject, ReadReady, RemoteSend
<1>4. ASSUME NEW c \in Conns, NEW n \in ReadSizes(c), TakesVerify(c, n)
      PROVE  UNCHANGED << Phase, authenticity, echo >>
  <2>1. /\ stage[c] = "NONE" /\ stage' = [stage EXCEPT ![c] = "PUBKEY_WAIT"]
        /\ UNCHANGED << authenticity, echo >>
    BY <1>4 DEF TakesVerify
  <2>2. PhaseOf["NONE"] = PhaseOf["PUBKEY_WAIT"]
    BY DEF PhaseOf
  <2>3. ASSUME NEW d \in Conns PROVE PhaseOf[stage'[d]] = PhaseOf[stage[d]]
    BY <1>0, <2>1, <2>2
  <2> QED
    BY <2>1, <2>3
<1>5. ASSUME NEW c \in Conns, NEW n \in ReadSizes(c), TakesKey(c, n)
      PROVE  Auth!Challenge(c)
  <2>1. PICK nonce \in Nonces : authenticity' = [authenticity EXCEPT ![c] = nonce]
    BY <1>5, SendChallengeEffect DEF TakesKey
  <2>2. /\ stage[c] = "PUBKEY_WAIT"
        /\ stage' = [stage EXCEPT ![c] = "PUBKEY_CHECK"]
        /\ UNCHANGED echo
    BY <1>5 DEF TakesKey
  <2>3. /\ Phase[c] = "unproven"
        /\ Phase' = [Phase EXCEPT ![c] = "challenged"]
    <3>1. PhaseOf[stage[c]] = "unproven" /\ PhaseOf["PUBKEY_CHECK"] = "challenged"
      BY <2>2 DEF PhaseOf
    <3>2. ASSUME NEW d \in Conns
          PROVE  PhaseOf[stage'[d]] = IF d = c THEN "challenged" ELSE PhaseOf[stage[d]]
      BY <1>0, <2>2, <3>1
    <3> QED
      BY <3>1, <3>2
  <2> QED
    BY <2>1, <2>2, <2>3 DEF Auth!Challenge
<1>6. ASSUME NEW c \in Conns, NEW n \in ReadSizes(c), TakesEcho(c, n)
      PROVE  Auth!Prove(c)
  <2>1. /\ stage[c] = "PUBKEY_CHECK"
        /\ stage' = [stage EXCEPT ![c] = "READY"]
        /\ UNCHANGED authenticity
        /\ echo' = [echo EXCEPT ![c] = authenticity[c]]
    BY <1>6 DEF TakesEcho, EchoMatches
  <2>2. /\ Phase[c] = "challenged"
        /\ Phase' = [Phase EXCEPT ![c] = "proven"]
    <3>1. PhaseOf[stage[c]] = "challenged" /\ PhaseOf["READY"] = "proven"
      BY <2>1 DEF PhaseOf
    <3>2. ASSUME NEW d \in Conns
          PROVE  PhaseOf[stage'[d]] = IF d = c THEN "proven" ELSE PhaseOf[stage[d]]
      BY <1>0, <2>1, <3>1
    <3> QED
      BY <3>1, <3>2
  <2> QED
    BY <2>1, <2>2 DEF Auth!Prove
<1> QED
  BY <1>1, <1>2, <1>3, <1>4, <1>5, <1>6, ReadCases
     DEF Next, Takes, vars, Auth!Next

\* The listener implements PeerAuth, for every number of connections and every
\* split of the stream.
THEOREM PeerAuthCorrect == Spec => ImplementsPeerAuth
BY AuthInit, AuthNext, TypeCorrect, IdleCorrect, RepliesCorrect, PTL
   DEF Spec, ImplementsPeerAuth, Auth!Spec

-----------------------------------------------------------------------------
(* What a node that follows the handshake meets *)

\* Nothing of the honest node is unread, or the one packet p, whole; it is
\* its k + 1st.
AtMostOne(c, k, p) ==
    /\ buffered[c] = 0
    /\ \/ nsent[c] = k /\ stream[c] = << >> /\ wire[c] = 0
       \/ nsent[c] = k + 1 /\ stream[c] = << p >> /\ wire[c] = Size(p)

Follows(c) ==
    /\ stage[c] = "NONE" => AtMostOne(c, 0, Verify)
    /\ stage[c] = "PUBKEY_WAIT" => AtMostOne(c, 1, Ack("key"))
    /\ stage[c] = "PUBKEY_CHECK" => AtMostOne(c, 2, Data(authenticity[c]))
    /\ stage[c] = "READY" => wire[c] = 0 \/ wire[c] >= HeaderLen

HonestAt(c) ==
    /\ cause[c] \in {"none", "resource"}
    /\ conn[c] \in {"idle", "open"} => Follows(c)

\* The inductive invariant: the packet at the front is the one the stage
\* waits for, and it is all there is.
HonestInv == \A c \in Honest : HonestAt(c)

LEMMA HonestInit == Init => HonestInv
<1> SUFFICES ASSUME Init, NEW c \in Honest PROVE HonestAt(c)
  BY DEF HonestInv
<1>1. c \in Conns
  BY ListenerAssumption
<1>2. AtMostOne(c, 0, Verify)
  BY <1>1 DEF Init, AtMostOne
<1> QED
  BY <1>1, <1>2 DEF Init, HonestAt, Follows

LEMMA HonestSizes ==
    /\ Size(Verify) = HeaderLen
    /\ Size(Ack("key")) = HandshakeLen + KeyLen
    /\ \A plain : Size(Data(plain)) = DataLen + CipherLen
    /\ \A p \in Packets : Size(p) \in Nat /\ Size(p) >= HeaderLen
<1>1. /\ Verify.type = "VERIFY"
      /\ Ack("key").type = "HS_ACK" /\ Ack("key").body = "key"
      /\ \A plain : Data(plain).type = "DATA"
  BY DEF Verify, Ack, Data
<1>2. Size(Verify) = HeaderLen
  BY <1>1 DEF Size
<1>3. Size(Ack("key")) = HandshakeLen + KeyLen
  BY <1>1 DEF Size
<1>4. \A plain : Size(Data(plain)) = DataLen + CipherLen
  BY <1>1 DEF Size
<1>5. \A p \in Packets : Size(p) \in Nat /\ Size(p) >= HeaderLen
  BY LayoutAssumption
     DEF Size, Packets, VerifyPackets, AckPackets, DataPackets
<1> QED
  BY <1>2, <1>3, <1>4, <1>5

\* Steps of other connections leave this one alone.
LEMMA OthersKept ==
    ASSUME TypeOK, NEW d \in Conns, NEW c \in Conns, c # d,
           \/ accept_conn_cb(d) \/ AcceptFails(d) \/ event_cb(d) \/ read_cb(d)
           \/ \E p \in Packets : RemoteSend(d, p)
    PROVE  /\ cause'[c] = cause[c] /\ conn'[c] = conn[c] /\ stage'[c] = stage[c]
           /\ buffered'[c] = buffered[c] /\ nsent'[c] = nsent[c]
           /\ stream'[c] = stream[c] /\ wire'[c] = wire[c]
           /\ authenticity'[c] = authenticity[c]
<1>1. CASE accept_conn_cb(d) \/ AcceptFails(d) \/ event_cb(d)
  BY <1>1 DEF accept_conn_cb, AcceptFails, event_cb, TypeOK
<1>2. CASE \E p \in Packets : RemoteSend(d, p)
  BY <1>2 DEF RemoteSend, TypeOK
<1>3. CASE Rejects(d)
  BY <1>3 DEF Rejects, Reject, TypeOK
<1>4. ASSUME NEW n \in ReadSizes(d), Takes(d, n) \/ ReadReady(d, n)
      PROVE  /\ cause' = cause /\ conn' = conn /\ nsent' = nsent
             /\ stage'[c] = stage[c] /\ buffered'[c] = buffered[c]
             /\ stream'[c] = stream[c] /\ wire'[c] = wire[c]
             /\ authenticity'[c] = authenticity[c]
  <2>1. CASE TakesVerify(d, n)
    BY <2>1 DEF TakesVerify, Drain, TypeOK
  <2>2. CASE TakesKey(d, n)
    BY <2>2 DEF TakesKey, Drain, SendChallenge, TypeOK
  <2>3. CASE TakesEcho(d, n)
    BY <2>3 DEF TakesEcho, Drain, TypeOK
  <2>4. CASE ReadReady(d, n)
    BY <2>4 DEF ReadReady, TypeOK
  <2> QED
    BY <1>4, <2>1, <2>2, <2>3, <2>4 DEF Takes
<1> QED
  BY <1>1, <1>2, <1>3, <1>4, ReadCases

\* A whole read finds all the bytes on the wire, if there are any.
LEMMA WholeRead ==
    ASSUME TypeOK, WholeReads, NEW c \in Conns, NEW n \in ReadSizes(c)
    PROVE  n = wire[c] /\ wire[c] > 0
<1>1. wire[c] \in Nat
  BY DEF TypeOK
<1> QED
  BY <1>1 DEF ReadSizes

\* read_cb has no reason to turn such a packet away.
LEMMA HonestReads ==
    ASSUME TypeOK, RepliesMatchStage, WholeReads, DecryptCall = "EVP_PKEY_decrypt",
           NEW c \in Conns, HonestAt(c), read_cb(c)
    PROVE  \/ \E freed : Reject(c, freed, "resource")
           \/ \E n \in ReadSizes(c) : Takes(c, n) \/ ReadReady(c, n)
<1>1. PICK n \in ReadSizes(c) :
          ReadShort(c, n) \/ ReadVerify(c, n) \/ ReadKey(c, n) \/ ReadEcho(c, n) \/ ReadReady(c, n)
  BY DEF read_cb
<1>2. n = wire[c] /\ wire[c] > 0 /\ wire[c] \in Nat /\ buffered[c] \in Nat
  BY WholeRead DEF TypeOK
<1>3. conn[c] = "open" /\ stream[c] # << >> /\ Readable(c, n)
  BY <1>1 DEF ReadShort, ReadVerify, ReadKey, ReadEcho, ReadReady, Readable
<1>4. Follows(c)
  BY <1>3, Zenon DEF HonestAt
<1>5. ASSUME NEW k, NEW p, AtMostOne(c, k, p)
      PROVE  Front(c) = p /\ Arrived(c, n) = Size(p)
  BY <1>2, <1>3, <1>5 DEF AtMostOne, Front, Arrived
<1>6. stage[c] = "NONE" => Front(c) = Verify /\ Arrived(c, n) = HeaderLen
  BY <1>4, <1>5, HonestSizes, Zenon DEF Follows
<1>7. stage[c] = "PUBKEY_WAIT"
          => Front(c) = Ack("key") /\ Arrived(c, n) = HandshakeLen + KeyLen
  BY <1>4, <1>5, HonestSizes, Zenon DEF Follows
<1>8. stage[c] = "PUBKEY_CHECK"
          => Front(c) = Data(authenticity[c]) /\ Arrived(c, n) = DataLen + CipherLen
  <2>1. Size(Data(authenticity[c])) = DataLen + CipherLen
    BY HonestSizes, Zenon
  <2> QED
    BY <1>4, <1>5, <2>1, Zenon DEF Follows
<1>9. stage[c] = "READY" => Arrived(c, n) >= HeaderLen
  BY <1>2, <1>4, LayoutAssumption DEF Follows, Arrived
<1>10. stage[c] \in Stages /\ ~(Arrived(c, n) < HeaderLen)
  <2>1. stage[c] \in Stages
    BY DEF TypeOK
  <2>2. /\ ~(HeaderLen < HeaderLen) /\ ~(HandshakeLen + KeyLen < HeaderLen)
        /\ ~(DataLen + CipherLen < HeaderLen)
    BY LayoutAssumption
  <2>3. stage[c] = "READY" => ~(Arrived(c, n) < HeaderLen)
    BY <1>2, <1>9, LayoutAssumption DEF Arrived
  <2> QED
    BY <1>6, <1>7, <1>8, <2>1, <2>2, <2>3, Zenon DEF Stages
<1>11. CASE ReadShort(c, n)
  BY <1>10, <1>11, Zenon DEF ReadShort
<1>12. CASE ReadVerify(c, n)
  <2>1. Front(c) = Verify
    BY <1>6, <1>12, Zenon DEF ReadVerify
  <2>2. AcceptsVerify(Front(c))
    BY <2>1 DEF AcceptsVerify, vcmp_validate, Verify
  <2>3. HeaderLen <= Arrived(c, n)
    BY <1>6, <1>12, LayoutAssumption DEF ReadVerify
  <2>4. (\E freed : Reject(c, freed, "resource")) \/ TakesVerify(c, n)
    BY <1>12, <2>2, <2>3, Zenon DEF ReadVerify, TakesVerify
  <2> QED
    BY <2>4, Zenon DEF Takes
<1>13. CASE ReadKey(c, n)
  <2>1. Front(c) = Ack("key") /\ Arrived(c, n) = HandshakeLen + KeyLen
    BY <1>7, <1>13, Zenon DEF ReadKey
  <2>2. AcceptsAck(Front(c)) /\ WholeHandshake(Front(c), Arrived(c, n))
    <3>1. Ack("key").type = "HS_ACK" /\ Ack("key").body = "key" /\ Ack("key").version = VCMP_VERSION
      BY DEF Ack
    <3>2. "key" # "header_only"
      OBVIOUS
    <3> QED
      BY <2>1, <3>1, <3>2, HonestSizes, Zenon DEF AcceptsAck, WholeHandshake, vcmp_validate
  <2>3. ~(HandshakeLen + KeyLen <= HandshakeLen)
    BY LayoutAssumption
  <2>4. (\E freed : Reject(c, freed, "resource")) \/ TakesKey(c, n)
    BY <1>13, <2>1, <2>2, <2>3, Zenon DEF ReadKey, TakesKey
  <2> QED
    BY <2>4, Zenon DEF Takes
<1>14. CASE ReadEcho(c, n)
  <2>1. /\ Front(c) = Data(authenticity[c]) /\ Arrived(c, n) = DataLen + CipherLen
        /\ stage[c] = "PUBKEY_CHECK"
    BY <1>8, <1>14, Zenon DEF ReadEcho
  <2>2. authenticity[c] \in Nonces
    BY <2>1, Zenon DEF RepliesMatchStage, Challenged
  <2>3. /\ Data(authenticity[c]).type = "DATA" /\ Data(authenticity[c]).version = VCMP_VERSION
        /\ Data(authenticity[c]).plain = authenticity[c]
    BY DEF Data
  <2>4. /\ vcmp_validate(Front(c)) /\ WholeData(Front(c), Arrived(c, n))
        /\ Front(c).type = "DATA"
    BY <2>1, <2>3, HonestSizes, Zenon DEF vcmp_validate, WholeData
  <2>5. rsa_decrypt(authenticity[c]) = authenticity[c]
    BY DEF rsa_decrypt, EVP_PKEY_call
  <2>6. EchoMatches(c, rsa_decrypt(Front(c).plain))
    BY <2>1, <2>2, <2>3, <2>5, CryptoAssumption, Zenon DEF EchoMatches
  <2>7. ~(DataLen + CipherLen <= DataLen)
    BY LayoutAssumption
  <2>8. TakesEcho(c, n)
    BY <1>14, <2>1, <2>4, <2>6, <2>7, Zenon DEF ReadEcho, TakesEcho
  <2> QED
    BY <2>8, Zenon DEF Takes
<1> QED
  BY <1>1, <1>11, <1>12, <1>13, <1>14, Zenon

\* A drain of all that arrived leaves nothing of it.
LEMMA HonestDrains ==
    ASSUME TypeOK, NEW c \in Conns, NEW n, NEW k, NEW p, NEW bytes,
           AtMostOne(c, k, p), stream[c] # << >>, n = wire[c], bytes = Arrived(c, n),
           Drain(c, n, bytes), UNCHANGED nsent
    PROVE  /\ buffered'[c] = 0 /\ nsent'[c] = k + 1 /\ stream'[c] = << >> /\ wire'[c] = 0
<1>1. nsent[c] = k + 1 /\ stream[c] = << p >> /\ buffered[c] = 0 /\ wire[c] \in Nat
  BY Zenon DEF AtMostOne, TypeOK
<1>2. Tail(stream[c]) = << >>
  BY <1>1
<1>3. Arrived(c, n) - bytes = 0 /\ wire[c] - n = 0
  BY <1>1 DEF Arrived
<1>4. /\ stream'[c] = Tail(stream[c]) /\ buffered'[c] = Arrived(c, n) - bytes
      /\ wire'[c] = wire[c] - n
  BY DEF Drain, TypeOK
<1> QED
  BY <1>1, <1>2, <1>3, <1>4, Zenon

LEMMA HonestTakes ==
    ASSUME TypeOK, WholeReads, NEW c \in Conns, HonestAt(c), conn[c] = "open",
           NEW n \in ReadSizes(c), Takes(c, n) \/ ReadReady(c, n)
    PROVE  HonestAt(c)'
<1>1. n = wire[c] /\ wire[c] \in Nat
  BY WholeRead DEF TypeOK
<1>2. Follows(c) /\ cause[c] \in {"none", "resource"}
  BY Zenon DEF HonestAt
<1>3. /\ "NONE" # "PUBKEY_WAIT" /\ "NONE" # "PUBKEY_CHECK" /\ "NONE" # "READY"
      /\ "PUBKEY_WAIT" # "PUBKEY_CHECK" /\ "PUBKEY_WAIT" # "READY"
      /\ "PUBKEY_CHECK" # "READY"
  OBVIOUS
<1>4. cause' = cause /\ nsent' = nsent
  BY Zenon DEF Takes, TakesVerify, TakesKey, TakesEcho, ReadReady
<1>5. CASE TakesVerify(c, n)
  <2>1. AtMostOne(c, 0, Verify) /\ stream[c] # << >>
    BY <1>2, <1>5, Zenon DEF TakesVerify, Readable, Follows
  <2>2. HeaderLen = Arrived(c, n)
    <3>1. wire[c] = Size(Verify) /\ buffered[c] = 0
      BY <2>1, Zenon DEF AtMostOne
    <3> QED
      BY <1>1, <3>1, HonestSizes, LayoutAssumption DEF Arrived
  <2>3. Drain(c, n, HeaderLen) /\ stage' = [stage EXCEPT ![c] = "PUBKEY_WAIT"]
    BY <1>5, Zenon DEF TakesVerify
  <2>4. buffered'[c] = 0 /\ nsent'[c] = 0 + 1 /\ stream'[c] = << >> /\ wire'[c] = 0
    BY <1>1, <1>4, <2>1, <2>2, <2>3, HonestDrains, Zenon
  <2>5. nsent'[c] = 1
    BY <2>4
  <2>6. AtMostOne(c, 1, Ack("key"))'
    BY <2>4, <2>5, Zenon DEF AtMostOne
  <2>7. stage'[c] = "PUBKEY_WAIT"
    BY <2>3 DEF TypeOK
  <2> QED
    BY <1>2, <1>3, <1>4, <2>6, <2>7, Zenon DEF HonestAt, Follows
<1>6. CASE TakesKey(c, n)
  <2>1. AtMostOne(c, 1, Ack("key")) /\ stream[c] # << >>
    BY <1>2, <1>6, Zenon DEF TakesKey, Readable, Follows
  <2>2. Drain(c, n, Arrived(c, n)) /\ stage' = [stage EXCEPT ![c] = "PUBKEY_CHECK"]
    BY <1>6, Zenon DEF TakesKey
  <2>3. buffered'[c] = 0 /\ nsent'[c] = 1 + 1 /\ stream'[c] = << >> /\ wire'[c] = 0
    BY <1>1, <1>4, <2>1, <2>2, HonestDrains, Zenon
  <2>4. nsent'[c] = 2
    BY <2>3
  <2>5. AtMostOne(c, 2, Data(authenticity[c]))'
    BY <2>3, <2>4, Zenon DEF AtMostOne
  <2>6. stage'[c] = "PUBKEY_CHECK"
    BY <2>2 DEF TypeOK
  <2> QED
    BY <1>2, <1>3, <1>4, <2>5, <2>6, Zenon DEF HonestAt, Follows
<1>7. CASE TakesEcho(c, n) \/ ReadReady(c, n)
  <2>1. wire' = [wire EXCEPT ![c] = wire[c] - n] /\ stage'[c] = "READY"
    BY <1>7 DEF TakesEcho, ReadReady, Drain, TypeOK
  <2>2. wire[c] - n = 0
    BY <1>1
  <2>3. wire'[c] = 0
    BY <2>1, <2>2 DEF TypeOK
  <2> QED
    BY <1>2, <1>3, <1>4, <2>1, <2>3, Zenon DEF HonestAt, Follows
<1> QED
  BY <1>5, <1>6, <1>7 DEF Takes

LEMMA HonestSend ==
    ASSUME TypeOK, RepliesMatchStage, AckForm = "key", NEW c \in Honest, c \in Conns,
           HonestAt(c), NEW p \in Packets, RemoteSend(c, p)
    PROVE  HonestAt(c)'
<1>1. /\ conn[c] = "open" /\ HonestSends(c, p)
      /\ stream' = [stream EXCEPT ![c] = Append(stream[c], p)]
      /\ wire' = [wire EXCEPT ![c] = wire[c] + Size(p)]
      /\ nsent' = [nsent EXCEPT ![c] = nsent[c] + 1]
      /\ UNCHANGED << conn, stage, authenticity, buffered, cause >>
  BY Zenon DEF RemoteSend
<1>2. Follows(c) /\ cause[c] \in {"none", "resource"}
  BY <1>1, Zenon DEF HonestAt
<1>3. /\ stream'[c] = Append(stream[c], p) /\ wire'[c] = wire[c] + Size(p)
      /\ nsent'[c] = nsent[c] + 1 /\ nsent[c] \in Nat /\ wire[c] \in Nat
      /\ Size(p) \in Nat /\ Size(p) >= HeaderLen
  <2>1. nsent[c] \in Nat /\ wire[c] \in Nat
    BY DEF TypeOK
  <2>2. Size(p) \in Nat /\ Size(p) >= HeaderLen
    BY HonestSizes
  <2>3. stream'[c] = Append(stream[c], p) /\ wire'[c] = wire[c] + Size(p)
        /\ nsent'[c] = nsent[c] + 1
    BY <1>1 DEF TypeOK
  <2> QED
    BY <2>1, <2>2, <2>3, Zenon
<1>4. ASSUME NEW k \in {0, 1, 2}, NEW q, AtMostOne(c, k, q),
             nsent[c] = k => p = q, nsent[c] # k + 1
      PROVE  AtMostOne(c, k, q)'
  <2>1. nsent[c] = k /\ stream[c] = << >> /\ wire[c] = 0 /\ buffered[c] = 0
    BY <1>4, Zenon DEF AtMostOne
  <2>2. nsent'[c] = k + 1 /\ stream'[c] = << q >> /\ wire'[c] = Size(q)
    BY <1>3, <1>4, <2>1
  <2> QED
    BY <1>1, <2>1, <2>2, Zenon DEF AtMostOne
<1>5. CASE stage[c] = "NONE"
  <2>1. ~hsInit[c] /\ challenge[c] = NoChallenge /\ AtMostOne(c, 0, Verify) /\ stage[c] # "READY"
    BY <1>2, <1>5, Zenon DEF RepliesMatchStage, Follows, Challenged
  <2>2. nsent[c] = 0 /\ p = Verify
    <3>1. nsent[c] = 0 \/ nsent[c] = 1
      BY <2>1 DEF AtMostOne
    <3>2. ~(nsent[c] = 2) /\ ~(nsent[c] > 2)
      BY <3>1
    <3> QED
      BY <1>1, <2>1, <3>2, Zenon DEF HonestSends
  <2>3. nsent[c] # 0 + 1
    BY <2>2
  <2>4. AtMostOne(c, 0, Verify)'
    BY <1>4, <2>1, <2>2, <2>3
  <2> QED
    BY <1>1, <1>2, <1>5, <2>4, Zenon DEF HonestAt, Follows
<1>6. CASE stage[c] = "PUBKEY_WAIT"
  <2>1. challenge[c] = NoChallenge /\ AtMostOne(c, 1, Ack("key")) /\ stage[c] # "READY"
    BY <1>2, <1>6, Zenon DEF RepliesMatchStage, Follows, Challenged
  <2>2. nsent[c] = 1 /\ p = Ack("key")
    <3>1. nsent[c] = 1 \/ nsent[c] = 2
      BY <2>1 DEF AtMostOne
    <3>2. ~(nsent[c] = 0) /\ ~(nsent[c] > 2)
      BY <3>1
    <3> QED
      BY <1>1, <2>1, <3>2, Zenon DEF HonestSends
  <2>3. nsent[c] # 1 + 1
    BY <2>2
  <2>4. AtMostOne(c, 1, Ack("key"))'
    BY <1>4, <2>1, <2>2, <2>3
  <2> QED
    BY <1>1, <1>2, <1>6, <2>4, Zenon DEF HonestAt, Follows
<1>7. CASE stage[c] = "PUBKEY_CHECK"
  <2>1. AtMostOne(c, 2, Data(authenticity[c])) /\ stage[c] # "READY"
    BY <1>2, <1>7, Zenon DEF Follows
  <2>2. challenge[c].nonce = authenticity[c]
    <3>1. challenge[c] = ChallengePacket(authenticity[c])
      BY <1>7, Zenon DEF RepliesMatchStage, Challenged
    <3> QED
      BY <3>1 DEF ChallengePacket
  <2>3. nsent[c] = 2 /\ p = Data(authenticity[c])
    <3>1. nsent[c] = 2 \/ nsent[c] = 3
      BY <2>1 DEF AtMostOne
    <3>2. ~(nsent[c] = 0) /\ ~(nsent[c] = 1)
      BY <3>1
    <3> QED
      BY <1>1, <2>1, <2>2, <3>1, <3>2, Zenon DEF HonestSends
  <2>4. nsent[c] # 2 + 1
    BY <2>3
  <2>5. PICK q : q = Data(authenticity[c])
    OBVIOUS
  <2>6. AtMostOne(c, 2, q)'
    BY <1>4, <2>1, <2>3, <2>4, <2>5
  <2>7. AtMostOne(c, 2, Data(authenticity[c]))'
    BY <1>1, <2>5, <2>6, Zenon
  <2> QED
    BY <1>1, <1>2, <1>7, <2>7, Zenon DEF HonestAt, Follows
<1>8. CASE stage[c] = "READY"
  <2>1. wire'[c] >= HeaderLen
    BY <1>3, LayoutAssumption
  <2> QED
    BY <1>1, <1>2, <1>8, <2>1, Zenon DEF HonestAt, Follows
<1> QED
  BY <1>5, <1>6, <1>7, <1>8 DEF TypeOK, Stages

LEMMA HonestNext ==
    ASSUME WholeReads, AckForm = "key", DecryptCall = "EVP_PKEY_decrypt"
    PROVE  TypeOK /\ IdleIsFresh /\ RepliesMatchStage /\ HonestInv /\ [Next]_vars
               => HonestInv'
<1> SUFFICES ASSUME TypeOK, IdleIsFresh, RepliesMatchStage, HonestInv, [Next]_vars,
                    NEW c \in Honest
             PROVE  HonestAt(c)'
  BY DEF HonestInv
<1>1. c \in Conns /\ HonestAt(c)
  BY ListenerAssumption DEF HonestInv
<1>2. CASE UNCHANGED vars
  BY <1>1, <1>2 DEF vars, HonestAt, Follows, AtMostOne
<1>3. ASSUME NEW d \in Conns, c # d,
             \/ accept_conn_cb(d) \/ AcceptFails(d) \/ event_cb(d) \/ read_cb(d)
             \/ \E p \in Packets : RemoteSend(d, p)
      PROVE  HonestAt(c)'
  BY <1>1, <1>3, OthersKept, Zenon DEF HonestAt, Follows, AtMostOne
<1>4. CASE accept_conn_cb(c)
  <2>1. /\ conn[c] = "idle" /\ stage' = [stage EXCEPT ![c] = "NONE"]
        /\ UNCHANGED << stream, buffered, wire, nsent, cause >>
    BY <1>4, Zenon DEF accept_conn_cb
  <2>2. stage[c] = "NONE" /\ stage'[c] = "NONE"
    BY <1>1, <2>1 DEF IdleIsFresh, TypeOK
  <2>3. AtMostOne(c, 0, Verify)'
    BY <1>1, <2>1, <2>2, Zenon DEF HonestAt, Follows, AtMostOne
  <2>4. cause'[c] \in {"none", "resource"}
    BY <1>1, <2>1, Zenon DEF HonestAt
  <2> QED
    BY <2>2, <2>3, <2>4, Zenon DEF HonestAt, Follows
<1>5. CASE AcceptFails(c) \/ event_cb(c)
  <2>1. conn'[c] \notin {"idle", "open"} /\ cause' = cause
    BY <1>1, <1>5 DEF AcceptFails, event_cb, TypeOK
  <2> QED
    BY <1>1, <2>1, Zenon DEF HonestAt
<1>6. ASSUME NEW freed, Reject(c, freed, "resource") PROVE HonestAt(c)'
  <2>1. conn'[c] \notin {"idle", "open"} /\ cause'[c] = "resource"
    BY <1>1, <1>6 DEF Reject, TypeOK
  <2> QED
    BY <2>1, Zenon DEF HonestAt
<1>7. CASE read_cb(c)
  <2>1. conn[c] = "open"
    BY <1>7, Zenon
       DEF read_cb, ReadShort, ReadVerify, ReadKey, ReadEcho, ReadReady, Readable
  <2> QED
    BY <1>1, <1>6, <1>7, <2>1, HonestReads, HonestTakes, Zenon
<1>8. ASSUME NEW p \in Packets, RemoteSend(c, p) PROVE HonestAt(c)'
  BY <1>1, <1>8, HonestSend, Zenon
<1> QED
  BY <1>2, <1>3, <1>4, <1>5, <1>7, <1>8, Zenon DEF Next

\* A node that follows the handshake, sending its key with its HS_ACK, and
\* whose packets are read whole, is never turned away for what it sent: only
\* for want of memory or of the socket.  Nothing is asked of the challenge's
\* length, and the other connections may do what they like.
THEOREM HonestCorrect ==
    ASSUME WholeReads, AckForm = "key", DecryptCall = "EVP_PKEY_decrypt"
    PROVE  Spec => []HonestNeverRejected
<1>1. TypeOK /\ IdleIsFresh /\ RepliesMatchStage /\ HonestInv /\ [Next]_vars
          => HonestInv'
  BY HonestNext
<1>2. HonestInv => HonestNeverRejected
  BY Zenon DEF HonestInv, HonestAt, HonestNeverRejected
<1> QED
  BY <1>1, <1>2, HonestInit, TypeCorrect, IdleCorrect, RepliesCorrect, PTL DEF Spec

-----------------------------------------------------------------------------
(* The bytes of a stream: each packet it holds is drained whole or not at all, *)
(* which takes an induction over the length of the stream.                     *)

\* Induction over the naturals, for a set.
LEMMA AllNaturals ==
    ASSUME NEW S, 0 \in S, \A n \in Nat : n \in S => n + 1 \in S
    PROVE  \A n \in Nat : n \in S
<1> DEFINE R == { ss \in Nat \X Nat : ss[1] < ss[2] }
           T == Nat \ S
<1>1. IsWellFoundedOn(R, Nat)
  BY NatLessThanWellFounded DEF OpToRel
<1>2. \A a, b \in Nat : a < b => << a, b >> \in R
  OBVIOUS
<1> HIDE DEF R
<1>3. SUFFICES ASSUME T # {} PROVE FALSE
  OBVIOUS
<1>4. PICK x \in T : \A y \in T : ~ (<< y, x >> \in R)
  BY <1>1, <1>3, WFMin
<1>5. x \in Nat /\ x # 0
  OBVIOUS
<1>6. x - 1 \in Nat /\ x - 1 < x /\ x = (x - 1) + 1
  BY <1>5
<1>7. x - 1 \in S
  BY <1>2, <1>4, <1>5, <1>6
<1> QED
  BY <1>6, <1>7

\* f gives the bytes of each of the first packets together.
Sums(f, s) ==
    /\ f \in [0 .. Len(s) -> Nat]
    /\ f[0] = 0
    /\ \A i \in 1 .. Len(s) : f[i] = f[i - 1] + Size(s[i])

LEMMA SumsExist ==
    ASSUME NEW s \in Seq(Packets)
    PROVE  \E f : Sums(f, s)
<1> DEFINE S == { n \in Nat : \A t \in Seq(Packets) : Len(t) = n => \E f : Sums(f, t) }
<1>1. 0 \in S
  <2> SUFFICES ASSUME NEW t \in Seq(Packets), Len(t) = 0 PROVE \E f : Sums(f, t)
    OBVIOUS
  <2>1. PICK f : f = [i \in 0 .. 0 |-> 0]
    OBVIOUS
  <2>2. Sums(f, t)
    BY <2>1 DEF Sums
  <2> QED
    BY <2>2
<1>2. ASSUME NEW n \in Nat, n \in S PROVE n + 1 \in S
  <2> SUFFICES ASSUME NEW t \in Seq(Packets), Len(t) = n + 1 PROVE \E f : Sums(f, t)
    OBVIOUS
  <2>1. PICK u : u = [i \in 1 .. n |-> t[i]]
    OBVIOUS
  <2>2. u \in Seq(Packets) /\ Len(u) = n /\ \A i \in 1 .. n : u[i] = t[i]
    BY <2>1
  <2>3. PICK f : Sums(f, u)
    BY <1>2, <2>2
  <2>4. PICK g : g = [i \in 0 .. n + 1 |-> IF i = n + 1 THEN f[n] + Size(t[n + 1]) ELSE f[i]]
    OBVIOUS
  <2>5. t[n + 1] \in Packets
    OBVIOUS
  <2>6. f[n] + Size(t[n + 1]) \in Nat
    BY <2>2, <2>3, <2>5, SizeType DEF Sums
  <2>7. /\ f \in [0 .. n -> Nat] /\ f[0] = 0
        /\ \A i \in 1 .. n : f[i] = f[i - 1] + Size(t[i])
    BY <2>2, <2>3 DEF Sums
  <2>8. /\ g \in [0 .. n + 1 -> Nat] /\ g[0] = 0
    BY <2>4, <2>6, <2>7
  <2>9. ASSUME NEW i \in 1 .. n + 1 PROVE g[i] = g[i - 1] + Size(t[i])
    <3>1. CASE i = n + 1
      BY <2>4, <2>7, <3>1
    <3>2. CASE i # n + 1
      BY <2>4, <2>7, <3>2
    <3> QED
      BY <3>1, <3>2
  <2>10. Sums(g, t)
    BY <2>8, <2>9 DEF Sums
  <2> QED
    BY <2>10
<1> HIDE DEF S
<1>3. Len(s) \in S
  <2>1. \A n \in Nat : n \in S
    BY <1>1, <1>2, AllNaturals
  <2> QED
    BY <2>1
<1> QED
  BY <1>3 DEF S

\* The total is the last of those sums.
LEMMA TotalIs ==
    ASSUME NEW s \in Seq(Packets), NEW f, Sums(f, s)
    PROVE  TotalSize(s) = f[Len(s)]
<1> DEFINE Eq(h) == h = [i \in 0 .. Len(s) |-> IF i = 0 THEN 0 ELSE h[i - 1] + Size(s[i])]
           h == CHOOSE k : Eq(k)
<1>1. Len(s) \in Nat
  OBVIOUS
<1>2. Eq(f)
  BY <1>1 DEF Sums
<1>3. Eq(h)
  BY <1>2, Zenon
<1>4. TotalSize(s) = h[Len(s)]
  BY Zenon DEF TotalSize
<1> HIDE DEF h
<1>5. /\ DOMAIN h = 0 .. Len(s) /\ h[0] = 0
      /\ \A i \in 1 .. Len(s) : h[i] = h[i - 1] + Size(s[i])
  <2>1. h = [i \in 0 .. Len(s) |-> IF i = 0 THEN 0 ELSE h[i - 1] + Size(s[i])]
    BY <1>3
  <2>2. PICK k : k = h
    OBVIOUS
  <2>3. k = [i \in 0 .. Len(s) |-> IF i = 0 THEN 0 ELSE k[i - 1] + Size(s[i])]
    BY <2>1, <2>2, Zenon
  <2>4. DOMAIN k = 0 .. Len(s)
    BY <2>3, Zenon
  <2>5. \A i \in 0 .. Len(s) : k[i] = IF i = 0 THEN 0 ELSE k[i - 1] + Size(s[i])
    BY <2>3, Zenon
  <2> QED
    BY <1>1, <2>2, <2>4, <2>5
<1> DEFINE S == { n \in Nat : n <= Len(s) => h[n] = f[n] }
<1>6. 0 \in S
  BY <1>5 DEF Sums
<1>7. ASSUME NEW n \in Nat, n \in S PROVE n + 1 \in S
  <2> SUFFICES ASSUME n + 1 <= Len(s) PROVE h[n + 1] = f[n + 1]
    OBVIOUS
  <2>1. h[n] = f[n] /\ n + 1 \in 1 .. Len(s) /\ (n + 1) - 1 = n
    BY <1>7
  <2> QED
    BY <1>5, <2>1 DEF Sums
<1> HIDE DEF S
<1>8. Len(s) \in S
  <2>1. \A n \in Nat : n \in S
    BY <1>6, <1>7, AllNaturals
  <2> QED
    BY <1>1, <2>1
<1> QED
  BY <1>1, <1>4, <1>8 DEF S

LEMMA TotalNothing == TotalSize(<< >>) = 0
<1>1. << >> \in Seq(Packets) /\ Len(<< >>) = 0
  OBVIOUS
<1>2. PICK s \in Seq(Packets) : s = << >> /\ Len(s) = 0
  BY <1>1
<1>3. PICK f : Sums(f, s)
  BY SumsExist
<1>4. f[0] = 0
  BY <1>3 DEF Sums
<1>5. TotalSize(s) = f[Len(s)]
  BY <1>3, TotalIs
<1> QED
  BY <1>2, <1>4, <1>5, Zenon

LEMMA TotalAppend ==
    ASSUME NEW s \in Seq(Packets), NEW p \in Packets
    PROVE  TotalSize(Append(s, p)) = TotalSize(s) + Size(p)
<1>1. PICK t : t = Append(s, p)
  OBVIOUS
<1>2. t \in Seq(Packets) /\ Len(t) = Len(s) + 1
  BY <1>1
<1>3. t[Len(s) + 1] = p /\ \A i \in 1 .. Len(s) : t[i] = s[i]
  BY <1>1
<1>4. PICK f : Sums(f, t)
  BY <1>2, SumsExist
<1>5. PICK g : g = [i \in 0 .. Len(s) |-> f[i]]
  OBVIOUS
<1>6. Sums(g, s)
  BY <1>2, <1>3, <1>4, <1>5 DEF Sums
<1>7. TotalSize(t) = f[Len(t)] /\ TotalSize(s) = g[Len(s)]
  BY <1>2, <1>4, <1>6, TotalIs
<1>8. f[Len(t)] = f[Len(s)] + Size(p)
  BY <1>2, <1>3, <1>4 DEF Sums
<1>9. g[Len(s)] = f[Len(s)]
  BY <1>5
<1> QED
  BY <1>1, <1>7, <1>8, <1>9, Zenon

LEMMA TotalTail ==
    ASSUME NEW s \in Seq(Packets), s # << >>
    PROVE  /\ TotalSize(Tail(s)) \in Nat
           /\ TotalSize(s) = TotalSize(Tail(s)) + Size(Head(s))
<1>1. PICK t : t = Tail(s)
  OBVIOUS
<1>2. /\ t \in Seq(Packets) /\ Len(s) \in Nat \ {0} /\ Len(t) = Len(s) - 1
      /\ s[1] = Head(s) /\ \A i \in 1 .. Len(t) : t[i] = s[i + 1]
  BY <1>1
<1>3. PICK f : Sums(f, s)
  BY SumsExist
<1>4. f[1] = Size(Head(s))
  BY <1>2, <1>3, SMTT(40) DEF Sums
<1>5. PICK h : Sums(h, t)
  BY <1>2, SumsExist
<1> DEFINE S == { n \in Nat : n <= Len(t) => f[n + 1] = h[n] + f[1] }
<1>6. 0 \in S
  <2>1. h[0] = 0
    BY <1>5 DEF Sums
  <2>2. 1 \in 0 .. Len(s) /\ f \in [0 .. Len(s) -> Nat]
    BY <1>2, <1>3 DEF Sums
  <2>3. f[1] \in Nat
    BY <2>2
  <2> QED
    BY <2>1, <2>3
<1>7. ASSUME NEW n \in Nat, n \in S PROVE n + 1 \in S
  <2> SUFFICES ASSUME n + 1 <= Len(t) PROVE f[n + 2] = h[n + 1] + f[1]
    OBVIOUS
  <2>1. f[n + 1] = h[n] + f[1]
    BY <1>2, <1>7
  <2>a. /\ n + 1 \in 1 .. Len(t) /\ n \in 0 .. Len(t) /\ (n + 1) - 1 = n
        /\ n + 2 \in 1 .. Len(s) /\ (n + 2) - 1 = n + 1
    BY <1>2
  <2>2. h[n + 1] = h[n] + Size(t[n + 1]) /\ h[n] \in Nat
    <3>1. h[n + 1] = h[(n + 1) - 1] + Size(t[n + 1])
      BY <1>5, <2>a, Zenon DEF Sums
    <3>2. h[n] \in Nat
      BY <1>5, <2>a, Zenon DEF Sums
    <3> QED
      BY <2>a, <3>1, <3>2, Zenon
  <2>3. f[n + 2] = f[n + 1] + Size(s[n + 2])
    <3>1. f[n + 2] = f[(n + 2) - 1] + Size(s[n + 2])
      BY <1>3, <2>a, Zenon DEF Sums
    <3> QED
      BY <2>a, <3>1, Zenon
  <2>4. t[n + 1] = s[n + 2]
    BY <1>2
  <2>5. s[n + 2] \in Packets
    BY <1>2
  <2>6. Size(s[n + 2]) \in Nat /\ f[1] \in Nat
    BY <2>5, <1>2, <1>3, SizeType DEF Sums
  <2> QED
    BY <2>1, <2>2, <2>3, <2>4, <2>6
<1> HIDE DEF S
<1>8. Len(t) \in S
  <2>1. \A n \in Nat : n \in S
    BY <1>6, <1>7, AllNaturals
  <2> QED
    BY <1>2, <2>1
<1>9. f[Len(s)] = h[Len(t)] + f[1] /\ h[Len(t)] \in Nat
  BY <1>2, <1>5, <1>8 DEF S, Sums
<1>10. TotalSize(s) = f[Len(s)] /\ TotalSize(t) = h[Len(t)]
  BY <1>2, <1>3, <1>5, TotalIs
<1> QED
  BY <1>1, <1>4, <1>9, <1>10, Zenon

\* What a run of read_cb does to the bytes: the peer is gone, or one packet is
\* drained, and all of it, or bytes come in and stay.
Drained(c, n) == Drain(c, n, Size(Front(c))) /\ UNCHANGED conn

LEMMA ReadBytes ==
    ASSUME TypeOK, NEW c \in Conns, read_cb(c)
    PROVE  \/ Rejects(c)
           \/ \E n \in ReadSizes(c) : Readable(c, n) /\ (Drained(c, n) \/ ReadReady(c, n))
<1> USE DEF Rejects, Causes
<1>1. ASSUME NEW n \in ReadSizes(c), ReadShort(c, n)
      PROVE  Rejects(c)
  BY <1>1 DEF ReadShort, Readable
<1>2. ASSUME NEW n \in ReadSizes(c), ReadVerify(c, n)
      PROVE  Rejects(c) \/ (Readable(c, n) /\ Drained(c, n))
  <2>1. AcceptsVerify(Front(c)) => Size(Front(c)) = HeaderLen
    BY DEF AcceptsVerify, Size
  <2> QED
    BY <1>2, <2>1 DEF ReadVerify, Readable, Challenged, Drained
<1>3. ASSUME NEW n \in ReadSizes(c), ReadKey(c, n)
      PROVE  Rejects(c) \/ (Readable(c, n) /\ Drained(c, n))
  BY <1>3 DEF ReadKey, Readable, Challenged, WholeHandshake, Drained
<1>4. ASSUME NEW n \in ReadSizes(c), ReadEcho(c, n)
      PROVE  Rejects(c) \/ (Readable(c, n) /\ Drained(c, n))
  BY <1>4 DEF ReadEcho, Readable, Challenged, WholeData, Drained
<1>5. ASSUME NEW n \in ReadSizes(c), ReadReady(c, n)
      PROVE  Readable(c, n)
  BY <1>5 DEF ReadReady
<1> QED
  BY <1>1, <1>2, <1>3, <1>4, <1>5 DEF read_cb

\* The same of a connection nobody has accepted yet, which has sent nothing.
BytesInv ==
    \A c \in Conns : conn[c] \in {"idle", "open"}
        => buffered[c] + wire[c] = TotalSize(stream[c])

LEMMA BytesInit == Init => BytesInv
<1> SUFFICES ASSUME Init, NEW c \in Conns
             PROVE  buffered[c] + wire[c] = TotalSize(stream[c])
  BY Zenon DEF BytesInv
<1>1. buffered[c] = 0 /\ wire[c] = 0 /\ stream[c] = << >>
  BY DEF Init
<1>2. TotalSize(stream[c]) = 0
  BY <1>1, TotalNothing, Zenon
<1> QED
  BY <1>1, <1>2

LEMMA BytesNext == TypeOK /\ BytesInv /\ [Next]_vars => BytesInv'
<1> SUFFICES ASSUME TypeOK, BytesInv, [Next]_vars, NEW d \in Conns,
                    conn'[d] \in {"idle", "open"}
             PROVE  buffered'[d] + wire'[d] = TotalSize(stream'[d])
  BY Zenon DEF BytesInv
<1> DEFINE Same == /\ conn[d] \in {"idle", "open"} /\ buffered'[d] = buffered[d]
                   /\ wire'[d] = wire[d] /\ stream'[d] = stream[d]
           Goal == buffered'[d] + wire'[d] = TotalSize(stream'[d])
<1>a. Same => Goal
  BY Zenon DEF BytesInv
<1>b. /\ buffered[d] \in Nat /\ wire[d] \in Nat /\ stream[d] \in Seq(Packets)
  BY DEF TypeOK
<1>0. CASE UNCHANGED vars
  <2>1. Same
    BY <1>0 DEF vars
  <2> QED
    BY <1>a, <2>1
<1>1. ASSUME NEW c \in Conns, accept_conn_cb(c) PROVE Goal
  <2>1. Same
    BY <1>1 DEF accept_conn_cb, TypeOK
  <2> QED
    BY <1>a, <2>1
<1>2. ASSUME NEW c \in Conns, AcceptFails(c) PROVE Goal
  <2>1. Same
    BY <1>2 DEF AcceptFails, TypeOK
  <2> QED
    BY <1>a, <2>1
<1>3. ASSUME NEW c \in Conns, event_cb(c) PROVE Goal
  <2>1. Same
    BY <1>3 DEF event_cb, TypeOK
  <2> QED
    BY <1>a, <2>1
<1>4. ASSUME NEW c \in Conns, Rejects(c) PROVE Goal
  <2>1. Same
    BY <1>4 DEF Rejects, Reject, TypeOK
  <2> QED
    BY <1>a, <2>1
<1>5. ASSUME NEW c \in Conns, NEW n \in ReadSizes(c), Readable(c, n), Drained(c, n)
      PROVE  Goal
  <2>1. CASE c # d
    <3>1. Same
      BY <1>5, <2>1 DEF Drained, Drain, TypeOK
    <3> QED
      BY <1>a, <3>1
  <2>2. CASE c = d
    <3>1. n \in Nat /\ n <= wire[d] /\ stream[d] # << >> /\ conn[d] = "open"
      BY <1>5, <2>2, ReadSizesType DEF Readable
    <3>2. /\ stream'[d] = Tail(stream[d])
          /\ buffered'[d] = (buffered[d] + n) - Size(Head(stream[d]))
          /\ wire'[d] = wire[d] - n
      BY <1>5, <2>2 DEF Drained, Drain, Arrived, Front, TypeOK
    <3>3. Head(stream[d]) \in Packets
      BY <1>b, <3>1
    <3>4. Size(Head(stream[d])) \in Nat
      BY <3>3, SizeType
    <3>5. /\ TotalSize(Tail(stream[d])) \in Nat
          /\ TotalSize(stream[d]) = TotalSize(Tail(stream[d])) + Size(Head(stream[d]))
      BY <1>b, <3>1, TotalTail
    <3>6. buffered[d] + wire[d] = TotalSize(stream[d])
      BY <3>1, Zenon DEF BytesInv
    <3>7. PICK b, w, k, t : /\ b = buffered[d] /\ w = wire[d]
                            /\ k = Size(Head(stream[d]))
                            /\ t = TotalSize(Tail(stream[d]))
      OBVIOUS
    <3>8. b \in Nat /\ w \in Nat /\ k \in Nat /\ t \in Nat /\ n \in Nat /\ b + w = t + k
      BY <1>b, <3>1, <3>4, <3>5, <3>6, <3>7, Zenon
    <3>9. ((b + n) - k) + (w - n) = t
      BY <3>8
    <3> QED
      BY <3>2, <3>7, <3>9, Zenon
  <2> QED
    BY <2>1, <2>2
<1>6. ASSUME NEW c \in Conns, NEW n \in ReadSizes(c), ReadReady(c, n)
      PROVE  Goal
  <2>1. CASE c # d
    <3>1. Same
      BY <1>6, <2>1 DEF ReadReady, TypeOK
    <3> QED
      BY <1>a, <3>1
  <2>2. CASE c = d
    <3>1. n \in Nat /\ conn[d] = "open"
      BY <1>6, <2>2, ReadSizesType DEF ReadReady, Readable
    <3>2. /\ stream'[d] = stream[d] /\ buffered'[d] = buffered[d] + n
          /\ wire'[d] = wire[d] - n
      BY <1>6, <2>2 DEF ReadReady, Arrived, TypeOK
    <3>3. buffered[d] + wire[d] = TotalSize(stream[d])
      BY <3>1, Zenon DEF BytesInv
    <3>4. buffered'[d] + wire'[d] = buffered[d] + wire[d]
      BY <1>b, <3>1, <3>2
    <3> QED
      BY <3>2, <3>3, <3>4, Zenon
  <2> QED
    BY <2>1, <2>2
<1>7. ASSUME NEW c \in Conns, NEW p \in Packets, RemoteSend(c, p)
      PROVE  Goal
  <2>1. CASE c # d
    <3>1. Same
      BY <1>7, <2>1 DEF RemoteSend, TypeOK
    <3> QED
      BY <1>a, <3>1
  <2>2. CASE c = d
    <3>1. conn[d] = "open" /\ buffered'[d] = buffered[d]
      BY <1>7, <2>2 DEF RemoteSend
    <3>2. stream'[d] = Append(stream[d], p) /\ wire'[d] = wire[d] + Size(p)
      BY <1>7, <2>2 DEF RemoteSend, TypeOK
    <3>3. buffered[d] + wire[d] = TotalSize(stream[d])
      BY <3>1, Zenon DEF BytesInv
    <3>4. TotalSize(Append(stream[d], p)) = TotalSize(stream[d]) + Size(p)
      BY <1>b, TotalAppend
    <3>5. Size(p) \in Nat
      BY SizeType
    <3>6. buffered'[d] + wire'[d] = TotalSize(Append(stream[d], p))
      BY <1>b, <3>1, <3>2, <3>3, <3>4, <3>5
    <3> QED
      BY <3>2, <3>6, Zenon
  <2> QED
    BY <2>1, <2>2
<1> QED
  BY <1>0, <1>1, <1>2, <1>3, <1>4, <1>5, <1>6, <1>7, ReadBytes DEF Next

\* However the packets are cut on their way, the input and the wire together
\* hold exactly the bytes of the packets not drained yet, so that what read_cb
\* finds at the front of its input is always the first byte of a packet.
THEOREM BytesCorrect == Spec => []BytesAccounted
<1>1. BytesInv => BytesAccounted
  BY Zenon DEF BytesInv, BytesAccounted
<1> QED
  BY <1>1, BytesInit, BytesNext, TypeCorrect, PTL DEF Spec
=============================================================================
