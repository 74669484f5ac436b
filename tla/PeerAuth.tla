------------------------------ MODULE PeerAuth ------------------------------
(***************************************************************************)
(* What the verification handshake promises of each connection: a node is  *)
(* unproven until it is challenged with one secret, which never changes    *)
(* afterwards, and it is proven by answering with that secret and by       *)
(* nothing else.  PeerListener implements it.                              *)
(***************************************************************************)
CONSTANTS Conns, Secrets, NoSecret

VARIABLES phase, secret, answer

Phases == {"unproven", "challenged", "proven"}

Init ==
    /\ phase = [c \in Conns |-> "unproven"]
    /\ secret = [c \in Conns |-> NoSecret]
    /\ answer = [c \in Conns |-> NoSecret]

Challenge(c) ==
    /\ phase[c] = "unproven"
    /\ phase' = [phase EXCEPT ![c] = "challenged"]
    /\ \E s \in Secrets : secret' = [secret EXCEPT ![c] = s]
    /\ UNCHANGED answer

Prove(c) ==
    /\ phase[c] = "challenged"
    /\ phase' = [phase EXCEPT ![c] = "proven"]
    /\ answer' = [answer EXCEPT ![c] = secret[c]]
    /\ UNCHANGED secret

Next == \E c \in Conns : Challenge(c) \/ Prove(c)

Spec == Init /\ [][Next]_<< phase, secret, answer >>
=============================================================================
