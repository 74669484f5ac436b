------------------------------ MODULE MCSocks5 ------------------------------
(***************************************************************************)
(* Constants for model-checking Socks5: a name, the longest that fits the  *)
(* length byte, and the first that does not.                               *)
(***************************************************************************)
EXTENDS Socks5

MCNameLens == {3, 255, 256}
=============================================================================
