--------------------------- MODULE MCPeerListener ---------------------------
(***************************************************************************)
(* Constants for model-checking PeerListener.  The layout keeps the order  *)
(* of the real one (header 7, pointer 8, handshake 11, data header 35) in  *)
(* the fewest bytes, so that every short read it tells apart still occurs. *)
(***************************************************************************)
EXTENDS PeerListener, TLC

CONSTANTS c1, c2, n1, n2, none, garbage

MCConns  == {c1, c2}
MCHonest == {c1}
MCNobody == {}
MCNonces == {n1, n2}

MCHeaderLen    == 2
MCPointerLen   == 3   \* sizeof(buf), buf a char *
MCHandshakeLen == 4
MCDataLen      == 5
MCKeyLen       == 1
MCCipherLen    == 1
MCPacketLen    == MCDataLen + MCCipherLen

Symmetry == Permutations(MCNonces) \cup Permutations(MCConns)
=============================================================================
