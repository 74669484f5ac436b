--------------------------- MODULE MCWsHandshake ---------------------------
(***************************************************************************)
(* Constants for model-checking WsHandshake: arrays of 3 bytes for the     *)
(* real 256; one or two headers with names and values up to one byte too   *)
(* long for them, cut anywhere; short texts of every form; and memory that *)
(* is zeroed, or full, or completes a name.                                *)
(***************************************************************************)
EXTENDS WsHandshake

CONSTANTS
    RawChars, \* characters of the texts of any form
    RawLen    \* bound: how many of them follow the first line

MCBytes  == {"G", "K", "k", "v", "w", "x", ":", " ", "CR", "LF", "NUL"}
MCSize   == 3
MCWanted == << "K", "K" >>

MCNames  == {<< "K" >>, << "K", "K" >>, << "k", "k" >>, << "K", "K", "K" >>,
             << "K", "K", "K", "K" >>}
MCValues == { [i \in 1 .. n |-> "v"] : n \in 0 .. 4 }
Other    == {Header(n, v) : n \in MCNames \ {MCWanted}, v \in {<< >>, << "w", "w" >>}}
Wanted   == {Header(MCWanted, v) : v \in MCValues}

MCHeaders == { << h >> : h \in Other \cup Wanted }
        \cup { << h, w >> : h \in Other, w \in Wanted }
        \cup { << w, h >> : h \in Other, w \in Wanted }

MCRequests ==
    { [text |-> RequestText(<< "G" >>, hs), first |-> << "G" >>, headers |-> hs] : hs \in MCHeaders }
    \cup { [text |-> << "G", "LF" >> \o t, first |-> << >>, headers |-> << >>] :
               t \in BoundedSeq(RawChars, RawLen) }

MCMemories == { [i \in 1 .. 2 * MCSize |-> c] : c \in {"NUL", "x"} }
         \cup {<< "K", "K", "NUL", "x", "x", "NUL" >>}
=============================================================================
