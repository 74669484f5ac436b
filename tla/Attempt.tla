------------------------------ MODULE Attempt ------------------------------
(***************************************************************************)
(* What the user of socks5.c is promised of a connection it asks for: its  *)
(* event callback hears CONNECTED at most once, one failure at most, and   *)
(* nothing after a failure - unless it keeps the bufferevent it was told   *)
(* of, from when on nothing is promised until it is freed.  Socks5         *)
(* implements it.                                                          *)
(***************************************************************************)
EXTENDS Sequences

VARIABLES asked, told, kept

Init == ~asked /\ told = << >> /\ ~kept

Ask == ~asked /\ asked' = TRUE /\ UNCHANGED << told, kept >>

TellConnected ==
    /\ asked /\ told = << >>
    /\ told' = << "CONNECTED" >>
    /\ UNCHANGED << asked, kept >>

TellFailure ==
    /\ asked /\ told \in {<< >>, << "CONNECTED" >>}
    /\ \E failure \in {"ERROR", "EOF"} : told' = Append(told, failure)
    /\ kept' \in BOOLEAN
    /\ UNCHANGED asked

TellAgain ==
    /\ kept
    /\ \E event \in {"CONNECTED", "ERROR", "EOF"} : told' = Append(told, event)
    /\ kept' \in BOOLEAN
    /\ UNCHANGED asked

Next == Ask \/ TellConnected \/ TellFailure \/ TellAgain

Spec == Init /\ [][Next]_<< asked, told, kept >>
=============================================================================
