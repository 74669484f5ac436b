----------------------------- MODULE MCFrontend -----------------------------
(***************************************************************************)
(* Constants for model-checking Frontend.  The lengths of the names put    *)
(* the JSON of a join and of a leave on either side of 125 and of 65535,   *)
(* where the header changes its form, and so do those of a request.  Two   *)
(* short names hold what a selector does not take literally: a quote, and  *)
(* a backslash that makes it one for the medium name.                      *)
(***************************************************************************)
EXTENDS Frontend

MCNames       == {"medium", "long", "quote", "escape"}
MCNameLen     == [n \in MCNames |-> CASE n = "medium" -> 90 [] n = "long" -> 65500
                                      [] OTHER -> 8]
MCThrows      == {"quote"}
MCMatched     == [n \in MCNames \ MCThrows |-> IF n = "escape" THEN {"medium"} ELSE {n}]
MCConnectLens == {125, 126, 65535, 65536}
MCMaskKey     == << 255, 0, 128, 7 >>
=============================================================================
