------------------------------ MODULE MCWsApi ------------------------------
(***************************************************************************)
(* Constants for model-checking WsApi: two bufferevent addresses, so that  *)
(* tabs overlap and an address is used again.                              *)
(***************************************************************************)
EXTENDS WsApi, TLC

CONSTANTS a, b

MCClients == {a, b}

Symmetry == Permutations(MCClients)
=============================================================================
