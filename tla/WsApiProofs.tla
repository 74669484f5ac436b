---------------------------- MODULE WsApiProofs ----------------------------
(***************************************************************************)
(* Proofs about WsApi, for any number of clients and any bounds.           *)
(***************************************************************************)
EXTENDS WsApi, SequenceTheorems, FiniteSetTheorems, TLAPS

\* The part of the type invariant that the argument below needs.
FlagsOK ==
    /\ open \in [Clients -> BOOLEAN]
    /\ handshake_done \in [Clients -> BOOLEAN]
    /\ disconnect \in [Clients -> BOOLEAN]
    /\ api_user_bev \in Clients \cup {NULL}
    /\ running \in Clients \cup {NULL}

\* A callback runs on a connection that is there, and CLOSE is heeded only
\* after the handshake.
CallbackOnOpen ==
    /\ running # NULL => open[running]
    /\ \A c \in Clients : open[c] /\ disconnect[c] => handshake_done[c]

UserInv == FlagsOK /\ CallbackOnOpen /\ SlotNamesFrontend

LEMMA UserInit == Init => UserInv
BY WsApiAssumption
   DEF Init, UserInv, FlagsOK, CallbackOnOpen, SlotNamesFrontend

LEMMA UserNext == UserInv /\ [Next]_vars => UserInv'
<1> SUFFICES ASSUME UserInv, [Next]_vars
             PROVE  UserInv'
  OBVIOUS
<1> USE WsApiAssumption
    DEF UserInv, FlagsOK, CallbackOnOpen, SlotNamesFrontend, Frontend
<1>0. CASE UNCHANGED vars
  BY <1>0 DEF vars
<1>1. ASSUME NEW c \in Clients, accept_conn_cb(c)
      PROVE  UserInv'
  BY <1>1 DEF accept_conn_cb
<1>2. ASSUME NEW c \in Clients, event_cb(c)
      PROVE  UserInv'
  BY <1>2 DEF event_cb, Gone, bufferevent_free, close_cb
<1>3. ASSUME NEW c \in Clients, NEW k, NEW cut, Deliver(c, k, cut)
      PROVE  UserInv'
  BY <1>3 DEF Deliver
<1>4. ASSUME NEW c \in Clients, ReadHandshake(c)
      PROVE  UserInv'
  <2>1. CASE Fail(c) /\ UNCHANGED << api_user_bev, dropped >>
    BY <1>4, <2>1 DEF ReadHandshake, Fail, bufferevent_free
  <2>2. CASE /\ accept_cb(c)
             /\ handshake_done' = [handshake_done EXCEPT ![c] = TRUE]
             /\ running' = NULL
             /\ UNCHANGED << open, disconnect, dropped >>
    <3>1. open[c] /\ ~disconnect[c] /\ handshake_done'[c]
      BY <1>4, <2>2 DEF ReadHandshake
    <3> QED
      BY <2>2, <3>1 DEF accept_cb
  <2> QED
    BY <1>4, <2>1, <2>2 DEF ReadHandshake
<1>5. ASSUME NEW c \in Clients, running = c, handshake_done[c], Malformed(c)
      PROVE  UserInv'
  BY <1>5 DEF Malformed, Fail, bufferevent_free
<1>6. ASSUME NEW c \in Clients, running = c, handshake_done[c], NEW type,
             CloseAnswerFails(c, type)
      PROVE  UserInv'
  BY <1>6 DEF CloseAnswerFails, Fail, bufferevent_free, close_cb
<1>7. ASSUME NEW c \in Clients, running = c, handshake_done[c], NEW type,
             NEW rest, Dispatch(c, type, rest)
      PROVE  UserInv'
  <2>1. running' \in {c, NULL} /\ open' = open
        /\ handshake_done' = handshake_done /\ dropped' = dropped
    BY <1>7 DEF Dispatch, DrainTo
  <2>2. CASE type = "CLOSE"
    BY <1>7, <2>1, <2>2 DEF Dispatch, close_cb
  <2>3. CASE type # "CLOSE"
    BY <1>7, <2>1, <2>3 DEF Dispatch
  <2> QED
    BY <2>2, <2>3
<1>8. ASSUME NEW c \in Clients, ReadFrame(c) \/ ReadMiddle(c)
      PROVE  UserInv'
  BY <1>5, <1>6, <1>7, <1>8 DEF ReadFrame, ReadMiddle
<1>9. ASSUME NEW c \in Clients, NEW type, SendRequest(c, type)
      PROVE  UserInv'
  BY <1>9 DEF SendRequest
<1>10. ASSUME NEW c \in Clients, NEW type, NEW masked, SendFrame(c, type, masked)
       PROVE  UserInv'
  BY <1>10 DEF SendFrame
<1> QED
  BY <1>0, <1>1, <1>2, <1>3, <1>4, <1>8, <1>9, <1>10 DEF Next, read_cb

\* Until read_cb frees a client for a malformed frame, the bufferevent the API
\* holds is that of a frontend still connected.
THEOREM SlotCorrect == Spec => []SlotNamesFrontend
<1>1. UserInv => SlotNamesFrontend
  BY DEF UserInv
<1> QED
  BY <1>1, UserInit, UserNext, PTL DEF Spec

\* The user is never replaced: it is named when there was none, by the step
\* that completes that client's handshake.
THEOREM UserChangesHandsCorrect == Spec => UserChangesHands
<1>1. UserInv /\ [Next]_vars => [UserStep]_vars
  <2> SUFFICES ASSUME UserInv, Next
               PROVE  UserStep
    OBVIOUS
  <2> USE WsApiAssumption DEF UserInv, FlagsOK, UserStep
  <2>1. ASSUME NEW c \in Clients, ReadHandshake(c)
        PROVE  UserStep
    BY <2>1 DEF ReadHandshake, accept_cb
  <2>2. ASSUME NEW c \in Clients, ReadFrame(c) \/ ReadMiddle(c)
        PROVE  UserStep
    BY <2>2 DEF ReadFrame, ReadMiddle, Malformed, CloseAnswerFails, Dispatch,
                close_cb
  <2>3. ASSUME NEW c \in Clients,
               \/ accept_conn_cb(c)
               \/ event_cb(c)
               \/ \E k \in 0 .. Len(wire[c]), cut \in BOOLEAN : Deliver(c, k, cut)
               \/ \E type \in {"good_request", "bad_request"} :
                     SendRequest(c, type)
               \/ \E type \in Opcodes, masked \in BOOLEAN :
                     SendFrame(c, type, masked)
        PROVE  UserStep
    BY <2>3 DEF accept_conn_cb, event_cb, close_cb, Deliver, SendRequest,
                SendFrame
  <2> QED
    BY <2>1, <2>2, <2>3 DEF Next, read_cb
<1> QED
  BY <1>1, UserInit, UserNext, PTL DEF Spec, UserChangesHands

-----------------------------------------------------------------------------
(* Sequences of messages *)

\* The first k elements of a sequence, and what is left behind them.
LEMMA TakeProperties ==
    ASSUME NEW S, NEW s \in Seq(S), NEW k \in 0 .. Len(s)
    PROVE  /\ SubSeq(s, 1, k) \in Seq(S)
           /\ Len(SubSeq(s, 1, k)) = k
           /\ \A i \in 1 .. k : SubSeq(s, 1, k)[i] = s[i]
<1>1. Len(s) \in Nat /\ k \in Int
  BY LenProperties
<1>2. \A i \in 1 .. k : s[i] \in S
  BY <1>1, ElementOfSeq
<1> QED
  BY <1>1, <1>2, SubSeqProperties

LEMMA SkipProperties ==
    ASSUME NEW S, NEW s \in Seq(S), NEW k \in 0 .. Len(s)
    PROVE  /\ SubSeq(s, k + 1, Len(s)) \in Seq(S)
           /\ Len(SubSeq(s, k + 1, Len(s))) = Len(s) - k
           /\ \A i \in 1 .. Len(s) - k : SubSeq(s, k + 1, Len(s))[i] = s[k + i]
<1>1. Len(s) \in Nat /\ k \in Int /\ k + 1 \in Int /\ Len(s) \in Int
  BY LenProperties
<1>2. \A i \in k + 1 .. Len(s) : s[i] \in S
  BY <1>1, ElementOfSeq
<1>3. /\ SubSeq(s, k + 1, Len(s)) \in Seq(S)
      /\ Len(SubSeq(s, k + 1, Len(s)))
             = IF k + 1 <= Len(s) THEN Len(s) - (k + 1) + 1 ELSE 0
      /\ \A i \in 1 .. Len(s) - (k + 1) + 1 :
             SubSeq(s, k + 1, Len(s))[i] = s[(k + 1) + i - 1]
  BY <1>1, <1>2, SubSeqProperties
<1> QED
  BY <1>1, <1>3

\* An element in front of the rest of a sequence.
LEMMA ConsProperties ==
    ASSUME NEW S, NEW e \in S, NEW s \in Seq(S)
    PROVE  /\ << e >> \o s \in Seq(S)
           /\ Len(<< e >> \o s) = Len(s) + 1
           /\ (<< e >> \o s)[1] = e
           /\ \A i \in 2 .. Len(s) + 1 : (<< e >> \o s)[i] = s[i - 1]
<1>1. << e >> \in Seq(S) /\ Len(<< e >>) = 1 /\ << e >>[1] = e
  OBVIOUS
<1>2. Len(s) \in Nat
  BY LenProperties
<1> QED
  BY <1>1, <1>2, ConcatProperties

\* A read may only turn a whole message into a head and a tail.
LEMMA PieceOfMessage ==
    ASSUME NEW m \in Messages, NEW part \in Parts
    PROVE  /\ [m EXCEPT !.part = part] \in Messages
           /\ [m EXCEPT !.part = part].part = part
           /\ m \in Frames => [m EXCEPT !.part = part] \in Frames
BY DEF Messages, Requests, Frames

\* What the loop's read leaves in the input and on the wire when it ends where
\* a message does ...
LEMMA DeliverWhole ==
    ASSUME TypeOK, NEW c \in Clients, NEW k \in Int, Deliver(c, k, FALSE)
    PROVE  LET in == input[c]  in2 == input'[c]
               out == wire[c]  out2 == wire'[c]
           IN /\ k \in 1 .. Len(out)
              /\ in2 \in Seq(Messages) /\ out2 \in Seq(Messages)
              /\ Len(in2) = Len(in) + k
              /\ \A i \in 1 .. Len(in) : in2[i] = in[i]
              /\ \A i \in Len(in) + 1 .. Len(in) + k : in2[i] = out[i - Len(in)]
              /\ Len(out2) = Len(out) - k
              /\ \A i \in 1 .. Len(out) - k : out2[i] = out[k + i]
<1>1. PICK in, out : in = input[c] /\ out = wire[c]
  OBVIOUS
<1>2. in \in Seq(Messages) /\ out \in Seq(Messages)
  BY <1>1 DEF TypeOK
<1> HIDE DEF Messages
<1>3. Len(in) \in Nat /\ Len(out) \in Nat
  BY <1>2, LenProperties
<1>4. k \in 1 .. Len(out) /\ k \in 0 .. Len(out)
  BY <1>1, <1>3 DEF Deliver
<1>5. input'[c] = in \o SubSeq(out, 1, k) /\ wire'[c] = SubSeq(out, k + 1, Len(out))
  BY <1>1 DEF Deliver, TypeOK
<1>6. PICK read, left : read = SubSeq(out, 1, k) /\ left = SubSeq(out, k + 1, Len(out))
  OBVIOUS
<1>7. /\ read \in Seq(Messages) /\ Len(read) = k
      /\ \A i \in 1 .. k : read[i] = out[i]
  BY <1>2, <1>4, <1>6, TakeProperties
<1>8. /\ left \in Seq(Messages) /\ Len(left) = Len(out) - k
      /\ \A i \in 1 .. Len(out) - k : left[i] = out[k + i]
  BY <1>2, <1>4, <1>6, SkipProperties
<1>9. /\ in \o read \in Seq(Messages) /\ Len(in \o read) = Len(in) + k
      /\ \A i \in 1 .. Len(in) + k :
            (in \o read)[i] = IF i <= Len(in) THEN in[i] ELSE read[i - Len(in)]
  BY <1>2, <1>7, ConcatProperties
<1>10. /\ \A i \in 1 .. Len(in) : (in \o read)[i] = in[i]
       /\ \A i \in Len(in) + 1 .. Len(in) + k : (in \o read)[i] = out[i - Len(in)]
  BY <1>3, <1>4, <1>7, <1>9
<1> QED
  BY <1>1, <1>4, <1>5, <1>6, <1>8, <1>9, <1>10

CutAt(in, in2, out, out2, k) ==
    /\ k < Len(out)
    /\ in2 \in Seq(Messages) /\ out2 \in Seq(Messages)
    /\ Len(in2) = Len(in) + k + 1
    /\ \A i \in 1 .. Len(in) : in2[i] = in[i]
    /\ \A i \in Len(in) + 1 .. Len(in) + k : in2[i] = out[i - Len(in)]
    /\ in2[Len(in) + k + 1] = [out[k + 1] EXCEPT !.part = "head"]
    /\ Len(out2) = Len(out) - k
    /\ out2[1] = [out[k + 1] EXCEPT !.part = "tail"]
    /\ \A i \in 2 .. Len(out) - k : out2[i] = out[k + i]
    /\ out[k + 1].part = "whole"

\* ... and when it cuts one in two.
LEMMA DeliverCut ==
    ASSUME TypeOK, NEW c \in Clients, NEW k \in Nat, Deliver(c, k, TRUE)
    PROVE  CutAt(input[c], input'[c], wire[c], wire'[c], k)
<1>1. PICK in, out : in = input[c] /\ out = wire[c]
  OBVIOUS
<1>2. in \in Seq(Messages) /\ out \in Seq(Messages)
  BY <1>1 DEF TypeOK
<1>3. Len(in) \in Nat /\ Len(out) \in Nat
  BY <1>2, LenProperties
<1>4. k < Len(out) /\ k \in 0 .. Len(out) /\ k + 1 \in 0 .. Len(out)
      /\ k + 1 \in 1 .. Len(out) /\ out[k + 1].part = "whole"
  BY <1>1, <1>3 DEF Deliver
<1>5. PICK head, tail : /\ head = [out[k + 1] EXCEPT !.part = "head"]
                        /\ tail = [out[k + 1] EXCEPT !.part = "tail"]
  OBVIOUS
<1>6. head \in Messages /\ tail \in Messages
  BY <1>2, <1>4, <1>5, ElementOfSeq, PieceOfMessage DEF Parts
<1> HIDE DEF Messages
<1>7. /\ input'[c] = in \o Append(SubSeq(out, 1, k), head)
      /\ wire'[c] = << tail >> \o SubSeq(out, k + 2, Len(out))
  BY <1>1, <1>5 DEF Deliver, TypeOK
<1>8. PICK read, left : /\ read = SubSeq(out, 1, k)
                        /\ left = SubSeq(out, (k + 1) + 1, Len(out))
  OBVIOUS
<1>9. /\ read \in Seq(Messages) /\ Len(read) = k
      /\ \A i \in 1 .. k : read[i] = out[i]
  BY <1>2, <1>4, <1>8, TakeProperties
<1>10. /\ left \in Seq(Messages) /\ Len(left) = Len(out) - (k + 1)
       /\ \A i \in 1 .. Len(out) - (k + 1) : left[i] = out[(k + 1) + i]
  BY <1>2, <1>4, <1>8, SkipProperties
<1>11. PICK more : more = Append(read, head)
  OBVIOUS
<1>12. /\ more \in Seq(Messages) /\ Len(more) = k + 1
       /\ \A i \in 1 .. k : more[i] = out[i]
       /\ more[k + 1] = head
  BY <1>6, <1>9, <1>11, AppendProperties
<1>13. /\ in \o more \in Seq(Messages) /\ Len(in \o more) = Len(in) + Len(more)
       /\ \A i \in 1 .. Len(in) + Len(more) :
             (in \o more)[i] = IF i <= Len(in) THEN in[i] ELSE more[i - Len(in)]
  BY <1>2, <1>12, ConcatProperties
<1>14. /\ Len(in \o more) = Len(in) + k + 1
       /\ \A i \in 1 .. Len(in) : (in \o more)[i] = in[i]
       /\ \A i \in Len(in) + 1 .. Len(in) + k : (in \o more)[i] = out[i - Len(in)]
       /\ (in \o more)[Len(in) + k + 1] = head
  <2> DEFINE both == in \o more
  <2>1. /\ Len(both) = Len(in) + Len(more)
        /\ \A i \in 1 .. Len(in) + Len(more) :
              both[i] = IF i <= Len(in) THEN in[i] ELSE more[i - Len(in)]
    BY <1>13
  <2> HIDE DEF both
  <2>2. /\ \A i \in 1 .. Len(in) : both[i] = in[i]
        /\ \A i \in Len(in) + 1 .. Len(in) + k : both[i] = more[i - Len(in)]
        /\ both[Len(in) + k + 1] = more[k + 1]
    BY <1>3, <1>4, <1>12, <2>1, SMTT(40)
  <2>3. \A i \in Len(in) + 1 .. Len(in) + k : more[i - Len(in)] = out[i - Len(in)]
    BY <1>3, <1>4, <1>12
  <2> QED
    BY <1>3, <1>4, <1>12, <2>1, <2>2, <2>3 DEF both
<1>15. /\ << tail >> \o left \in Seq(Messages)
       /\ Len(<< tail >> \o left) = Len(out) - k
       /\ (<< tail >> \o left)[1] = tail
       /\ \A i \in 2 .. Len(out) - k : (<< tail >> \o left)[i] = out[k + i]
  <2>1. /\ << tail >> \o left \in Seq(Messages)
        /\ Len(<< tail >> \o left) = Len(left) + 1
        /\ (<< tail >> \o left)[1] = tail
        /\ \A i \in 2 .. Len(left) + 1 : (<< tail >> \o left)[i] = left[i - 1]
    BY <1>6, <1>10, ConsProperties
  <2> QED
    BY <1>3, <1>4, <1>10, <2>1
<1>16. input'[c] = in \o more /\ wire'[c] = << tail >> \o left
  <2>1. k + 2 = (k + 1) + 1
    OBVIOUS
  <2> QED
    BY <1>7, <1>8, <1>11, <2>1
<1> QED
  <2>1. PICK in2, out2 : in2 = in \o more /\ out2 = << tail >> \o left
    OBVIOUS
  <2>2. CutAt(in, in2, out, out2, k)
    BY <1>4, <1>5, <1>13, <1>14, <1>15, <2>1 DEF CutAt
  <2> QED
    BY <1>1, <1>16, <2>1, <2>2

-----------------------------------------------------------------------------
(* Connections, ws_client objects and failures are counted alike: a          *)
(* connection that is there has its object, and one that read_cb freed left  *)
(* one behind.                                                               *)

OpenClients == { c \in Clients : open[c] }

Counted ==
    /\ IsFiniteSet(OpenClients)
    /\ LeakPerFailure
    /\ clients <= accepts

\* The counters of the type invariant.
CountersOK ==
    /\ accepts \in 0 .. MaxAccepts
    /\ clients \in 0 .. MaxAccepts
    /\ failures \in 0 .. MaxAccepts

CountInv == CountersOK /\ Counted

LEMMA CountInit == Init => CountInv
<1> SUFFICES ASSUME Init PROVE CountInv
  OBVIOUS
<1>1. OpenClients = {}
  BY DEF Init, OpenClients
<1>2. IsFiniteSet({}) /\ Cardinality({}) = 0
  BY FS_EmptySet
<1>3. LeakPerFailure <=> clients = Cardinality(OpenClients) + failures
  BY DEF LeakPerFailure, OpenClients
<1> QED
  BY <1>1, <1>2, <1>3, WsApiAssumption DEF CountInv, CountersOK, Counted, Init

\* A connection is accepted.
LEMMA CountOpened ==
    ASSUME CountInv, FlagsOK, NEW c \in Clients, ~open[c],
           open' = [open EXCEPT ![c] = TRUE], accepts < MaxAccepts,
           accepts' = accepts + 1, clients' = clients + 1, failures' = failures
    PROVE  CountInv'
<1>1. OpenClients' = OpenClients \cup {c} /\ c \notin OpenClients
  BY DEF OpenClients, FlagsOK
<1>2. /\ IsFiniteSet(OpenClients')
      /\ Cardinality(OpenClients') = Cardinality(OpenClients) + 1
  BY <1>1, FS_AddElement DEF CountInv, Counted
<1>3. Cardinality(OpenClients) \in Nat
  BY FS_CardinalityType DEF CountInv, Counted
<1>4. clients = Cardinality(OpenClients) + failures
  BY DEF CountInv, Counted, LeakPerFailure, OpenClients
<1>5. clients' = Cardinality(OpenClients') + failures'
  BY <1>2, <1>3, <1>4 DEF CountInv, CountersOK
<1>6. LeakPerFailure'
  BY <1>5 DEF LeakPerFailure, OpenClients
<1> QED
  BY <1>2, <1>6, WsApiAssumption DEF CountInv, CountersOK, Counted

\* A connection ends: its object is freed with it, or left behind.
LEMMA CountClosed ==
    ASSUME CountInv, FlagsOK, NEW c \in Clients, open[c],
           open' = [open EXCEPT ![c] = FALSE], accepts' = accepts,
           \/ clients' = clients - 1 /\ failures' = failures
           \/ clients' = clients /\ failures' = failures + 1
    PROVE  CountInv'
<1>1. OpenClients' = OpenClients \ {c} /\ c \in OpenClients
  BY DEF OpenClients, FlagsOK
<1>2. /\ IsFiniteSet(OpenClients')
      /\ Cardinality(OpenClients') = Cardinality(OpenClients) - 1
  BY <1>1, FS_RemoveElement DEF CountInv, Counted
<1>3. Cardinality(OpenClients) \in Nat /\ Cardinality(OpenClients') \in Nat
  BY <1>2, FS_CardinalityType DEF CountInv, Counted
<1>4. clients = Cardinality(OpenClients) + failures
  BY DEF CountInv, Counted, LeakPerFailure, OpenClients
<1>5. clients' = Cardinality(OpenClients') + failures'
  BY <1>2, <1>3, <1>4 DEF CountInv, CountersOK
<1>6. LeakPerFailure'
  BY <1>5 DEF LeakPerFailure, OpenClients
<1>7. clients' <= accepts' /\ clients' \in 0 .. MaxAccepts /\ failures' \in 0 .. MaxAccepts
  BY <1>2, <1>3, <1>4, <1>5, WsApiAssumption DEF CountInv, CountersOK, Counted
<1> QED
  BY <1>2, <1>6, <1>7 DEF CountInv, CountersOK, Counted

LEMMA CountSame ==
    ASSUME CountInv, UNCHANGED << open, accepts, clients, failures >>
    PROVE  CountInv'
BY DEF CountInv, CountersOK, Counted, LeakPerFailure, OpenClients

LEMMA CountNext == CountInv /\ UserInv /\ [Next]_vars => CountInv'
<1> SUFFICES ASSUME CountInv, UserInv, [Next]_vars
             PROVE  CountInv'
  OBVIOUS
<1>0. FlagsOK /\ (running # NULL => open[running]) /\ \A c \in Clients : c # NULL
  BY WsApiAssumption DEF UserInv, CallbackOnOpen
<1>1. CASE UNCHANGED vars
  BY <1>1, CountSame DEF vars
<1>2. ASSUME NEW c \in Clients, accept_conn_cb(c)
      PROVE  CountInv'
  BY <1>0, <1>2, CountOpened DEF accept_conn_cb
<1>3. ASSUME NEW c \in Clients, event_cb(c)
      PROVE  CountInv'
  BY <1>0, <1>3, CountClosed DEF event_cb, Gone, bufferevent_free
<1>4. ASSUME NEW c \in Clients, NEW k, NEW cut, Deliver(c, k, cut)
      PROVE  CountInv'
  BY <1>4, CountSame DEF Deliver
<1>5. ASSUME NEW c \in Clients, running = c, Fail(c)
      PROVE  CountInv'
  BY <1>0, <1>5, CountClosed DEF Fail, bufferevent_free
<1>6. ASSUME NEW c \in Clients, read_cb(c)
      PROVE  CountInv'
  <2>1. \/ running = c /\ Fail(c)
        \/ UNCHANGED << open, accepts, clients, failures >>
    BY <1>6 DEF read_cb, ReadHandshake, ReadFrame, ReadMiddle, Malformed,
                CloseAnswerFails, Dispatch
  <2> QED
    BY <1>5, <1>6, <2>1, CountSame
<1>7. ASSUME NEW c \in Clients, NEW type, SendRequest(c, type)
      PROVE  CountInv'
  BY <1>7, CountSame DEF SendRequest
<1>8. ASSUME NEW c \in Clients, NEW type, NEW masked, SendFrame(c, type, masked)
      PROVE  CountInv'
  BY <1>8, CountSame DEF SendFrame
<1> QED
  BY <1>1, <1>2, <1>3, <1>4, <1>6, <1>7, <1>8 DEF Next

\* For any number of clients and connections: as many ws_client objects are
\* leaked as read_cb gave up on connections, and every other one is freed.
THEOREM LeakCorrect == Spec => []LeakPerFailure
<1>1. CountInv => LeakPerFailure
  BY DEF CountInv, Counted
<1> QED
  BY <1>1, UserInit, UserNext, CountInit, CountNext, PTL DEF Spec

-----------------------------------------------------------------------------
(* The user is forgotten only with the connection: as long as connections do *)
(* not overlap, the client that closes is the only one there is.             *)

Alone == ~overlapped => \A c, d \in Clients : open[c] /\ open[d] => c = d

KnownInv == overlapped \in BOOLEAN /\ Alone /\ UserIsKnown

LEMMA KnownInit == Init => KnownInv
BY DEF Init, KnownInv, Alone, UserIsKnown, Frontend

LEMMA KnownNext == KnownInv /\ UserInv /\ [Next]_vars => KnownInv'
<1> SUFFICES ASSUME KnownInv, UserInv, [Next]_vars
             PROVE  KnownInv'
  OBVIOUS
<1> USE WsApiAssumption
    DEF KnownInv, Alone, UserIsKnown, NoUserBehindApi, Frontend
<1>0. FlagsOK /\ (running # NULL => open[running])
  BY DEF UserInv, CallbackOnOpen
<1> USE DEF FlagsOK
<1>1. CASE UNCHANGED vars
  BY <1>1 DEF vars
<1>2. ASSUME NEW c \in Clients, accept_conn_cb(c)
      PROVE  KnownInv'
  BY <1>0, <1>2 DEF accept_conn_cb
<1>3. ASSUME NEW c \in Clients, event_cb(c)
      PROVE  KnownInv'
  BY <1>0, <1>3 DEF event_cb, Gone, bufferevent_free, close_cb
<1>4. ASSUME NEW c \in Clients, NEW k, NEW cut, Deliver(c, k, cut)
      PROVE  KnownInv'
  BY <1>4 DEF Deliver
<1>5. ASSUME NEW c \in Clients, ReadHandshake(c)
      PROVE  KnownInv'
  <2>1. CASE Fail(c) /\ UNCHANGED << api_user_bev, dropped >>
    BY <1>0, <2>1 DEF Fail, bufferevent_free
  <2>2. CASE /\ accept_cb(c)
             /\ handshake_done' = [handshake_done EXCEPT ![c] = TRUE]
             /\ UNCHANGED << open, disconnect, dropped, overlapped >>
    BY <1>0, <2>2 DEF accept_cb
  <2> QED
    BY <1>5, <2>1, <2>2 DEF ReadHandshake
<1>6. ASSUME NEW c \in Clients, Malformed(c)
      PROVE  KnownInv'
  BY <1>0, <1>6 DEF Malformed, Fail, bufferevent_free
<1>7. ASSUME NEW c \in Clients, running = c, NEW type, CloseAnswerFails(c, type)
      PROVE  KnownInv'
  BY <1>0, <1>7 DEF CloseAnswerFails, Fail, bufferevent_free, close_cb
<1>8. ASSUME NEW c \in Clients, running = c, NEW type, NEW rest, Dispatch(c, type, rest)
      PROVE  KnownInv'
  <2>1. UNCHANGED << open, handshake_done, dropped, overlapped >>
    BY <1>8 DEF Dispatch
  <2>2. CASE type = "CLOSE"
    BY <1>0, <1>8, <2>1, <2>2 DEF Dispatch, close_cb
  <2>3. CASE type # "CLOSE"
    BY <1>8, <2>1, <2>3 DEF Dispatch
  <2> QED
    BY <2>2, <2>3
<1>9. ASSUME NEW c \in Clients, ReadFrame(c) \/ ReadMiddle(c)
      PROVE  KnownInv'
  BY <1>6, <1>7, <1>8, <1>9 DEF ReadFrame, ReadMiddle
<1>10. ASSUME NEW c \in Clients, NEW type, SendRequest(c, type)
       PROVE  KnownInv'
  BY <1>10 DEF SendRequest
<1>11. ASSUME NEW c \in Clients, NEW type, NEW masked, SendFrame(c, type, masked)
       PROVE  KnownInv'
  BY <1>11 DEF SendFrame
<1> QED
  BY <1>1, <1>2, <1>3, <1>4, <1>5, <1>9, <1>10, <1>11 DEF Next, read_cb

\* As long as connections do not overlap and no malformed frame was met, an
\* event finds no user only when no frontend is connected.
THEOREM UserIsKnownCorrect == Spec => []UserIsKnown
<1>1. KnownInv => UserIsKnown
  BY DEF KnownInv
<1> QED
  BY <1>1, UserInit, UserNext, KnownInit, KnownNext, PTL DEF Spec

-----------------------------------------------------------------------------
(* What a client has sent: the messages on the wire and in the input         *)

Whole(pieces) == \A i \in 1 .. Len(pieces) : pieces[i].part = "whole"
Tails(pieces) == \A i \in 1 .. Len(pieces) : pieces[i].part = "tail"
FramesOrTails(pieces) ==
    \A i \in 1 .. Len(pieces) : pieces[i] \in Frames \/ pieces[i].part = "tail"

\* A freed bufferevent holds nothing.
Freed(c) == ~open[c] => input[c] = << >> /\ wire[c] = << >>

\* Before the handshake there is one request at most, and no frame.  Once
\* read_cb looks at it, what is left on the wire is the request's tail.
RequestPhase(c) ==
    open[c] /\ ~handshake_done[c] =>
        /\ nsent[c] = 0 /\ seen[c] = << >>
        /\ Len(wire[c]) <= 1
        /\ ~requested[c] => wire[c] = << >> /\ running # c
        /\ running = c => wire[c] = << >> \/ (Tails(wire[c]) /\ ~synced[c])

\* After it, of a request only its tail can follow.
FramePhase(c) ==
    open[c] /\ handshake_done[c] =>
        requested[c] /\ FramesOrTails(input[c]) /\ FramesOrTails(wire[c])

\* FramesInOrder, element by element: n frames were sent.
InOrder(handed, in, out, n) ==
    /\ Len(handed) + Len(in) + Len(out) = n
    /\ \A i \in 1 .. Len(handed) : handed[i] = i
    /\ \A i \in 1 .. Len(in) : in[i].id = Len(handed) + i
    /\ \A i \in 1 .. Len(out) : out[i].id = Len(handed) + Len(in) + i

Ordered(c) ==
    open[c] /\ handshake_done[c] /\ synced[c] =>
        InOrder(seen[c], input[c], wire[c], nsent[c])

\* read_cb runs on some input; it leaves none if reads cut no message.
InputRead(c) ==
    /\ running = c => input[c] # << >>
    /\ synced[c] => Whole(input[c]) /\ Whole(wire[c])
    /\ synced[c] /\ running # c => input[c] = << >>

Stream(c) ==
    Freed(c) /\ RequestPhase(c) /\ FramePhase(c) /\ Ordered(c) /\ InputRead(c)

StreamTypesOK ==
    /\ requested \in [Clients -> BOOLEAN]
    /\ wire \in [Clients -> Seq(Messages)]
    /\ input \in [Clients -> Seq(Messages)]
    /\ nsent \in [Clients -> 0 .. MaxSends]
    /\ synced \in [Clients -> BOOLEAN]
    /\ seen \in [Clients -> Seq(1 .. MaxSends)]
    /\ overlapped \in BOOLEAN
    /\ dropped \in BOOLEAN

StreamInv == StreamTypesOK /\ \A c \in Clients : Stream(c)

\* A step leaves a connection's streams alone.
LEMMA StreamElsewhere ==
    ASSUME NEW d, Stream(d),
           /\ open'[d] = open[d] /\ handshake_done'[d] = handshake_done[d]
           /\ requested'[d] = requested[d] /\ nsent'[d] = nsent[d]
           /\ wire'[d] = wire[d] /\ input'[d] = input[d]
           /\ synced'[d] = synced[d] /\ seen'[d] = seen[d]
           /\ (running' = d) <=> (running = d)
    PROVE  Stream(d)'
<1>1. Freed(d)' /\ RequestPhase(d)'
  BY DEF Stream, Freed, RequestPhase, Tails
<1>2. FramePhase(d)'
  BY DEF Stream, FramePhase, FramesOrTails
<1>3. Ordered(d)'
  BY DEF Stream, Ordered
<1>4. InputRead(d)'
  BY DEF Stream, InputRead, Whole
<1> QED
  BY <1>1, <1>2, <1>3, <1>4 DEF Stream

LEMMA StreamInit == Init => StreamInv
<1> SUFFICES ASSUME Init PROVE StreamInv
  OBVIOUS
<1>1. StreamTypesOK
  <2>1. << >> \in Seq(1 .. MaxSends) /\ << >> \in Seq(Messages)
    BY EmptySeq
  <2>2. 0 \in 0 .. MaxSends
    BY WsApiAssumption
  <2> HIDE DEF Messages
  <2> QED
    BY <2>1, <2>2, Zenon DEF Init, StreamTypesOK
<1>2. ASSUME NEW c \in Clients PROVE Stream(c)
  BY <1>2, WsApiAssumption
     DEF Init, Stream, Freed, RequestPhase, FramePhase, Ordered, InputRead, Whole
<1> QED
  BY <1>1, <1>2 DEF StreamInv

\* A connection that ends takes its streams with it.
LEMMA StreamClosed ==
    ASSUME StreamInv, FlagsOK, NEW c \in Clients, bufferevent_free(c),
           running' = NULL, running \in {c, NULL},
           UNCHANGED << handshake_done, requested, nsent, synced, seen, overlapped >>,
           dropped' \in BOOLEAN
    PROVE  StreamInv'
<1>1. StreamTypesOK'
  BY DEF bufferevent_free, StreamInv, StreamTypesOK
<1>2. Stream(c)'
  BY WsApiAssumption
     DEF bufferevent_free, StreamInv, StreamTypesOK, FlagsOK, Stream, Freed,
         RequestPhase, FramePhase, Ordered, InputRead, Whole
<1>3. ASSUME NEW d \in Clients, d # c PROVE Stream(d)'
  <2>1. Stream(d) /\ d # NULL
    BY <1>3, WsApiAssumption DEF StreamInv
  <2> QED
    BY <1>3, <2>1, StreamElsewhere DEF bufferevent_free, StreamInv, StreamTypesOK, FlagsOK
<1> QED
  BY <1>1, <1>2, <1>3 DEF StreamInv

LEMMA StreamOpened ==
    ASSUME StreamInv, FlagsOK, NEW c \in Clients, accept_conn_cb(c)
    PROVE  StreamInv'
<1>1. StreamTypesOK'
  BY WsApiAssumption DEF accept_conn_cb, StreamInv, StreamTypesOK, FlagsOK
<1>2. Stream(c)'
  <2>1. input[c] = << >> /\ wire[c] = << >>
    BY DEF accept_conn_cb, StreamInv, Stream, Freed
  <2> QED
    BY <2>1, WsApiAssumption
       DEF accept_conn_cb, StreamInv, StreamTypesOK, FlagsOK, Stream, Freed,
           RequestPhase, FramePhase, Ordered, InputRead, Whole
<1>3. ASSUME NEW d \in Clients, d # c PROVE Stream(d)'
  <2>1. Stream(d)
    BY <1>3 DEF StreamInv
  <2> QED
    BY <1>3, <2>1, StreamElsewhere DEF accept_conn_cb, StreamInv, StreamTypesOK, FlagsOK
<1> QED
  BY <1>1, <1>2, <1>3 DEF StreamInv

\* A read that ends where a message does ...
LEMMA StreamDelivered ==
    ASSUME StreamInv, TypeOK, NEW c \in Clients, NEW k \in Int, Deliver(c, k, FALSE)
    PROVE  Stream(c)'
<1>1. PICK in, in2, out, out2 : /\ in = input[c] /\ in2 = input'[c]
                                /\ out = wire[c] /\ out2 = wire'[c]
  OBVIOUS
<1>2. /\ k \in 1 .. Len(out)
      /\ in2 \in Seq(Messages) /\ out2 \in Seq(Messages)
      /\ Len(in2) = Len(in) + k
      /\ \A i \in 1 .. Len(in) : in2[i] = in[i]
      /\ \A i \in Len(in) + 1 .. Len(in) + k : in2[i] = out[i - Len(in)]
      /\ Len(out2) = Len(out) - k
      /\ \A i \in 1 .. Len(out) - k : out2[i] = out[k + i]
  BY <1>1, DeliverWhole
<1> HIDE DEF Messages
<1>3. Len(in) \in Nat /\ Len(out) \in Nat /\ Len(seen[c]) \in Nat
  BY <1>1, LenProperties DEF TypeOK
<1>4. /\ open[c] /\ running = NULL /\ running' = c /\ c # NULL
      /\ UNCHANGED << open, handshake_done, requested, nsent, seen >>
      /\ synced'[c] = synced[c]
  BY WsApiAssumption DEF Deliver, TypeOK
<1>5. Freed(c)'
  BY <1>4 DEF Freed
<1>6. /\ \A i \in 1 .. Len(in2) : (i \in 1 .. Len(in) /\ in2[i] = in[i])
            \/ (i - Len(in) \in 1 .. Len(out) /\ in2[i] = out[i - Len(in)])
      /\ \A i \in 1 .. Len(out2) : k + i \in 1 .. Len(out) /\ out2[i] = out[k + i]
  BY <1>2, <1>3
<1>7. InputRead(c)'
  <2>1. Len(in2) > 0
    BY <1>2, <1>3
  <2>2. in2 # << >>
    BY <1>2, <2>1, EmptySeq
  <2>3. ASSUME synced[c] PROVE Whole(in2) /\ Whole(out2)
    <3>1. Whole(in) /\ Whole(out)
      BY <1>1, <2>3 DEF StreamInv, Stream, InputRead
    <3> QED
      BY <1>6, <3>1 DEF Whole
  <2> QED
    BY <1>1, <1>4, <2>2, <2>3 DEF InputRead
<1>8. RequestPhase(c)'
  <2> SUFFICES ASSUME ~handshake_done[c]
               PROVE  /\ nsent[c] = 0 /\ seen[c] = << >>
                      /\ requested[c]
                      /\ Len(out2) <= 1 /\ out2 = << >>
    BY <1>1, <1>4 DEF RequestPhase
  <2>1. /\ nsent[c] = 0 /\ seen[c] = << >> /\ Len(out) <= 1
        /\ ~requested[c] => out = << >>
    BY <1>1, <1>4 DEF StreamInv, Stream, RequestPhase
  <2>2. Len(out2) = 0
    BY <1>2, <1>3, <2>1
  <2>3. out2 = << >> /\ out # << >>
    BY <1>2, <1>3, <2>2, EmptySeq
  <2> QED
    BY <2>1, <2>2, <2>3
<1>9. FramePhase(c)'
  <2> SUFFICES ASSUME handshake_done[c]
               PROVE  requested[c] /\ FramesOrTails(in2) /\ FramesOrTails(out2)
    BY <1>1, <1>4 DEF FramePhase
  <2>1. requested[c] /\ FramesOrTails(in) /\ FramesOrTails(out)
    BY <1>1, <1>4 DEF StreamInv, Stream, FramePhase
  <2> QED
    BY <1>6, <2>1 DEF FramesOrTails
<1>10. Ordered(c)'
  <2> SUFFICES ASSUME handshake_done[c], synced[c]
               PROVE  InOrder(seen[c], in2, out2, nsent[c])
    BY <1>1, <1>4 DEF Ordered
  <2>1. InOrder(seen[c], in, out, nsent[c])
    BY <1>1, <1>4 DEF StreamInv, Stream, Ordered
  <2>2. Len(seen[c]) + Len(in2) + Len(out2) = nsent[c]
    BY <1>2, <1>3, <2>1 DEF InOrder
  <2>3. \A i \in 1 .. Len(in2) : in2[i].id = Len(seen[c]) + i
    <3> SUFFICES ASSUME NEW i \in 1 .. Len(in2)
                 PROVE  in2[i].id = Len(seen[c]) + i
      OBVIOUS
    <3>1. CASE i \in 1 .. Len(in) /\ in2[i] = in[i]
      BY <2>1, <3>1 DEF InOrder
    <3>2. CASE i - Len(in) \in 1 .. Len(out) /\ in2[i] = out[i - Len(in)]
      <4>1. in2[i].id = Len(seen[c]) + Len(in) + (i - Len(in))
        BY <2>1, <3>2 DEF InOrder
      <4>2. i \in Int
        BY <1>2, <1>3
      <4> QED
        BY <1>3, <4>1, <4>2
    <3> QED
      BY <1>6, <3>1, <3>2
  <2>4. \A i \in 1 .. Len(out2) : out2[i].id = Len(seen[c]) + Len(in2) + i
    <3> SUFFICES ASSUME NEW i \in 1 .. Len(out2)
                 PROVE  out2[i].id = Len(seen[c]) + Len(in2) + i
      OBVIOUS
    <3>1. out2[i].id = Len(seen[c]) + Len(in) + (k + i)
      BY <1>6, <2>1 DEF InOrder
    <3>2. i \in Int /\ k \in Int
      BY <1>2, <1>3
    <3>3. PICK s, l : s = Len(seen[c]) /\ l = Len(in)
      OBVIOUS
    <3>4. s \in Int /\ l \in Int
      BY <1>3, <3>3
    <3>5. Len(in2) = l + k
      BY <1>2, <3>3
    <3>6. s + l + (k + i) = s + (l + k) + i
      BY <3>2, <3>4
    <3> QED
      BY <3>1, <3>3, <3>5, <3>6, Zenon
  <2> QED
    BY <2>1, <2>2, <2>3, <2>4 DEF InOrder
<1> QED
  BY <1>5, <1>7, <1>8, <1>9, <1>10 DEF Stream

\* ... and one that cuts it.
LEMMA StreamTorn ==
    ASSUME StreamInv, TypeOK, NEW c \in Clients, NEW k \in Nat, Deliver(c, k, TRUE)
    PROVE  Stream(c)'
<1>1. PICK in, in2, out, out2 : /\ in = input[c] /\ in2 = input'[c]
                                /\ out = wire[c] /\ out2 = wire'[c]
  OBVIOUS
<1>2. /\ k < Len(out)
      /\ in2 \in Seq(Messages) /\ out2 \in Seq(Messages)
      /\ Len(in2) = Len(in) + k + 1
      /\ \A i \in 1 .. Len(in) : in2[i] = in[i]
      /\ \A i \in Len(in) + 1 .. Len(in) + k : in2[i] = out[i - Len(in)]
      /\ in2[Len(in) + k + 1] = [out[k + 1] EXCEPT !.part = "head"]
      /\ Len(out2) = Len(out) - k
      /\ out2[1] = [out[k + 1] EXCEPT !.part = "tail"]
      /\ \A i \in 2 .. Len(out) - k : out2[i] = out[k + i]
      /\ out[k + 1].part = "whole"
  <2>1. CutAt(in, in2, out, out2, k)
    BY <1>1, DeliverCut
  <2> QED
    BY <2>1 DEF CutAt
<1>3. Len(in) \in Nat /\ Len(out) \in Nat /\ out \in Seq(Messages)
  BY <1>1, LenProperties DEF TypeOK
<1> HIDE DEF Messages
<1>4. out[k + 1] \in Messages /\ k + 1 \in 1 .. Len(out)
  <2>1. k + 1 \in 1 .. Len(out)
    BY <1>2, <1>3
  <2> QED
    BY <1>3, <2>1, ElementOfSeq
<1>5. /\ out2[1].part = "tail"
      /\ out[k + 1] \in Frames => in2[Len(in) + k + 1] \in Frames
  <2>1. "head" \in Parts /\ "tail" \in Parts
    BY DEF Parts
  <2>2. PICK m \in Messages : m = out[k + 1]
    BY <1>4
  <2>3. [m EXCEPT !.part = "tail"].part = "tail"
    BY <2>1, PieceOfMessage
  <2>4. m \in Frames => [m EXCEPT !.part = "head"] \in Frames
    BY <2>1, PieceOfMessage
  <2> QED
    BY <1>2, <2>2, <2>3, <2>4
<1>6. /\ open[c] /\ running = NULL /\ running' = c /\ c # NULL
      /\ UNCHANGED << open, handshake_done, requested, nsent, seen >>
      /\ ~synced'[c]
  BY WsApiAssumption DEF Deliver, TypeOK
<1>7. Freed(c)' /\ Ordered(c)'
  BY <1>6 DEF Freed, Ordered
<1>8. InputRead(c)'
  <2>1. Len(in2) > 0
    BY <1>2, <1>3
  <2>2. in2 # << >>
    BY <1>2, <2>1, EmptySeq
  <2> QED
    BY <1>1, <1>6, <2>2 DEF InputRead
<1>9. RequestPhase(c)'
  <2> SUFFICES ASSUME ~handshake_done[c]
               PROVE  /\ nsent[c] = 0 /\ seen[c] = << >>
                      /\ requested[c]
                      /\ Len(out2) <= 1 /\ Tails(out2)
    BY <1>1, <1>6 DEF RequestPhase
  <2>1. /\ nsent[c] = 0 /\ seen[c] = << >> /\ Len(out) <= 1
        /\ ~requested[c] => out = << >>
    BY <1>1, <1>6 DEF StreamInv, Stream, RequestPhase
  <2>2. Len(out2) = 1 /\ Len(out) > 0
    BY <1>2, <1>3, <2>1
  <2>3. out # << >>
    BY <1>3, <2>2, EmptySeq
  <2>4. Tails(out2)
    BY <1>5, <2>2 DEF Tails
  <2> QED
    BY <2>1, <2>2, <2>3, <2>4
<1>10. FramePhase(c)'
  <2> SUFFICES ASSUME handshake_done[c]
               PROVE  requested[c] /\ FramesOrTails(in2) /\ FramesOrTails(out2)
    BY <1>1, <1>6 DEF FramePhase
  <2>1. requested[c] /\ FramesOrTails(in) /\ FramesOrTails(out)
    BY <1>1, <1>6 DEF StreamInv, Stream, FramePhase
  <2>2. in2[Len(in) + k + 1] \in Frames
    BY <1>2, <1>4, <1>5, <2>1 DEF FramesOrTails
  <2>3. \A i \in 1 .. Len(in2) : \/ i \in 1 .. Len(in) /\ in2[i] = in[i]
                                 \/ i - Len(in) \in 1 .. Len(out) /\ in2[i] = out[i - Len(in)]
                                 \/ in2[i] \in Frames
    <3> TAKE i \in 1 .. Len(in2)
    <3>1. /\ i \in Int /\ i <= Len(in) + k + 1
          /\ i \in 1 .. Len(in) \/ i \in Len(in) + 1 .. Len(in) + k \/ i = Len(in) + k + 1
      BY <1>2, <1>3
    <3>2. CASE i \in Len(in) + 1 .. Len(in) + k
      <4>1. i - Len(in) \in 1 .. Len(out)
        BY <1>2, <1>3, <3>2
      <4> QED
        BY <1>2, <3>2, <4>1
    <3> QED
      BY <1>2, <2>2, <3>1, <3>2
  <2>4. \A i \in 1 .. Len(out2) : \/ out2[i].part = "tail"
                                  \/ k + i \in 1 .. Len(out) /\ out2[i] = out[k + i]
    <3> TAKE i \in 1 .. Len(out2)
    <3>1. i = 1 \/ (i \in 2 .. Len(out) - k /\ k + i \in 1 .. Len(out))
      BY <1>2, <1>3
    <3> QED
      BY <1>2, <1>5, <3>1
  <2> QED
    BY <2>1, <2>3, <2>4 DEF FramesOrTails
<1> QED
  BY <1>7, <1>8, <1>9, <1>10 DEF Stream

LEMMA StreamDeliver ==
    ASSUME StreamInv, TypeOK, NEW c \in Clients, NEW k \in 0 .. Len(wire[c]),
           NEW cut \in BOOLEAN, Deliver(c, k, cut)
    PROVE  StreamInv'
<1>1. k \in Nat /\ k \in Int
  <2>1. Len(wire[c]) \in Nat
    BY LenProperties DEF TypeOK
  <2> QED
    BY <2>1
<1>2. Stream(c)' /\ input'[c] \in Seq(Messages) /\ wire'[c] \in Seq(Messages)
  <2>1. CASE cut = FALSE
    <3>1. Deliver(c, k, FALSE)
      BY <2>1, Zenon
    <3>2. Stream(c)'
      BY <1>1, <3>1, StreamDelivered, Zenon
    <3>3. input'[c] \in Seq(Messages) /\ wire'[c] \in Seq(Messages)
      BY <1>1, <3>1, DeliverWhole
    <3> QED
      BY <3>2, <3>3
  <2>2. CASE cut = TRUE
    BY <1>1, <2>2, StreamTorn, DeliverCut DEF CutAt
  <2> QED
    BY <2>1, <2>2
<1>3. /\ running = NULL /\ running' = c
      /\ UNCHANGED << open, handshake_done, requested, nsent, seen, overlapped, dropped >>
      /\ synced' = [synced EXCEPT ![c] = @ /\ ~cut]
      /\ DOMAIN input' = Clients /\ DOMAIN wire' = Clients
      /\ \E i, o : /\ input' = [input EXCEPT ![c] = i]
                  /\ wire' = [wire EXCEPT ![c] = o]
  BY DEF Deliver, TypeOK
<1> HIDE DEF Messages
<1>4. StreamTypesOK'
  BY <1>2, <1>3 DEF StreamInv, StreamTypesOK
<1>5. ASSUME NEW d \in Clients, d # c PROVE Stream(d)'
  <2>1. Stream(d) /\ d # NULL
    BY WsApiAssumption DEF StreamInv
  <2>2. /\ input'[d] = input[d] /\ wire'[d] = wire[d] /\ synced'[d] = synced[d]
    BY <1>3, <1>5 DEF TypeOK
  <2> QED
    BY <1>3, <1>5, <2>1, <2>2, StreamElsewhere
<1> QED
  BY <1>2, <1>4, <1>5 DEF StreamInv

\* A request is answered and the input emptied: nothing of a frame is in it.
LEMMA StreamAnswered ==
    ASSUME StreamInv, FlagsOK, NEW c \in Clients, open[c], running = c, ~handshake_done[c],
           input' = [input EXCEPT ![c] = << >>],
           handshake_done' = [handshake_done EXCEPT ![c] = TRUE],
           running' = NULL,
           UNCHANGED << open, requested, wire, nsent, synced, seen, overlapped, dropped >>
    PROVE  StreamInv'
<1>1. StreamTypesOK'
  <2> HIDE DEF Messages
  <2>1. << >> \in Seq(Messages)
    BY EmptySeq
  <2> QED
    BY <2>1 DEF StreamInv, StreamTypesOK
<1>2. Stream(c)'
  <2>1. /\ nsent[c] = 0 /\ seen[c] = << >> /\ requested[c]
        /\ wire[c] = << >> \/ (Tails(wire[c]) /\ ~synced[c])
    BY DEF StreamInv, Stream, RequestPhase
  <2>2. input'[c] = << >> /\ handshake_done'[c] /\ c # NULL
    BY WsApiAssumption DEF StreamInv, StreamTypesOK, FlagsOK
  <2>3. Freed(c)' /\ RequestPhase(c)'
    BY <2>2 DEF Freed, RequestPhase
  <2>4. FramePhase(c)'
    BY <2>1, <2>2 DEF FramePhase, FramesOrTails, Tails
  <2>5. Ordered(c)'
    <3>1. InOrder(<< >>, << >>, << >>, 0)
      BY DEF InOrder
    <3> QED
      BY <2>1, <2>2, <3>1 DEF Ordered
  <2>6. InputRead(c)'
    BY <2>2 DEF StreamInv, Stream, InputRead, Whole
  <2> QED
    BY <2>3, <2>4, <2>5, <2>6 DEF Stream
<1>3. ASSUME NEW d \in Clients, d # c PROVE Stream(d)'
  <2>1. Stream(d) /\ d # NULL
    BY WsApiAssumption DEF StreamInv
  <2> QED
    BY <1>3, <2>1, StreamElsewhere DEF StreamInv, StreamTypesOK, FlagsOK
<1> QED
  BY <1>1, <1>2, <1>3 DEF StreamInv

\* What can follow the middle of a message is made of frames and tails too.
LEMMA RemaindersOK ==
    ASSUME NEW pieces \in Seq(Messages), FramesOrTails(pieces), NEW rest \in Remainders(pieces)
    PROVE  rest \in Seq(Messages) /\ FramesOrTails(rest)
<1> HIDE DEF Messages
<1>1. Len(pieces) \in Nat
  BY LenProperties
<1>2. ASSUME NEW k \in 0 .. Len(pieces), NEW left, left = SubSeq(pieces, k + 1, Len(pieces))
      PROVE  left \in Seq(Messages) /\ FramesOrTails(left)
  <2>1. /\ left \in Seq(Messages) /\ Len(left) = Len(pieces) - k
        /\ \A i \in 1 .. Len(pieces) - k : left[i] = pieces[k + i]
    BY <1>2, SkipProperties
  <2>2. \A i \in 1 .. Len(left) : k + i \in 1 .. Len(pieces) /\ left[i] = pieces[k + i]
    BY <1>1, <2>1
  <2> QED
    BY <2>1, <2>2 DEF FramesOrTails
<1>3. CASE rest = pieces
  BY <1>3
<1>4. ASSUME NEW k \in 2 .. Len(pieces),
             rest = << [pieces[k] EXCEPT !.part = "tail"] >> \o SubSeq(pieces, k + 1, Len(pieces))
      PROVE  rest \in Seq(Messages) /\ FramesOrTails(rest)
  <2>1. PICK tail, left : /\ tail = [pieces[k] EXCEPT !.part = "tail"]
                          /\ left = SubSeq(pieces, k + 1, Len(pieces))
    OBVIOUS
  <2>2. k \in 1 .. Len(pieces) /\ k \in 0 .. Len(pieces)
    BY <1>1
  <2>3. pieces[k] \in Messages
    BY <2>2, ElementOfSeq
  <2>4. tail \in Messages /\ tail.part = "tail"
    <3>1. "tail" \in Parts
      BY DEF Parts
    <3>2. PICK m \in Messages : m = pieces[k]
      BY <2>3
    <3> QED
      BY <2>1, <3>1, <3>2, PieceOfMessage
  <2>5. left \in Seq(Messages) /\ FramesOrTails(left) /\ Len(left) \in Nat
    BY <1>2, <2>1, <2>2, LenProperties
  <2>6. rest = << tail >> \o left
    BY <1>4, <2>1
  <2>7. /\ rest \in Seq(Messages) /\ Len(rest) = Len(left) + 1
        /\ rest[1] = tail
        /\ \A i \in 2 .. Len(left) + 1 : rest[i] = left[i - 1]
    BY <2>4, <2>5, <2>6, ConsProperties
  <2>8. ASSUME NEW i \in 1 .. Len(rest) PROVE rest[i] \in Frames \/ rest[i].part = "tail"
    <3>1. i = 1 \/ (i \in 2 .. Len(left) + 1 /\ i - 1 \in 1 .. Len(left))
      BY <2>5, <2>7
    <3> QED
      BY <2>4, <2>5, <2>7, <3>1 DEF FramesOrTails
  <2> QED
    BY <2>7, <2>8 DEF FramesOrTails
<1>5. ASSUME NEW k \in 2 .. Len(pieces) + 1, rest = SubSeq(pieces, k, Len(pieces))
      PROVE  rest \in Seq(Messages) /\ FramesOrTails(rest)
  <2>1. k - 1 \in 0 .. Len(pieces) /\ k = (k - 1) + 1
    BY <1>1
  <2> QED
    BY <1>2, <1>5, <2>1
<1> QED
  BY <1>3, <1>4, <1>5 DEF Remainders

LEMMA SingleHead ==
    ASSUME NEW S, NEW s \in Seq(S), Len(s) = 1
    PROVE  Head(s) = s[1]
<1>1. s # << >>
  BY EmptySeq
<1> QED
  BY <1>1, HeadTailProperties

\* A frame is handed over and "rest" left in the input.
LEMMA StreamDrained ==
    ASSUME StreamInv, FlagsOK, NEW c \in Clients, open[c], handshake_done[c], running = c,
           NEW rest \in Seq(Messages), DrainTo(c, rest),
           UNCHANGED << open, handshake_done, requested, wire, nsent, synced,
                        overlapped, dropped >>,
           \E ids \in Seq(1 .. MaxSends) : seen' = [seen EXCEPT ![c] = ids],
           FramesOrTails(rest),
           synced[c] => Whole(rest) /\ InOrder(seen'[c], rest, wire[c], nsent[c])
    PROVE  StreamInv'
<1> HIDE DEF Messages
<1>1. StreamTypesOK'
  BY DEF StreamInv, StreamTypesOK, DrainTo
<1>2. input'[c] = rest /\ c # NULL
  BY WsApiAssumption DEF StreamInv, StreamTypesOK, DrainTo
<1>3. Stream(c)'
  <2>1. Freed(c)' /\ RequestPhase(c)'
    BY DEF Freed, RequestPhase
  <2>2. FramePhase(c)'
    BY <1>2 DEF StreamInv, Stream, FramePhase
  <2>3. Ordered(c)'
    BY <1>2 DEF Ordered
  <2>4. InputRead(c)'
    <3>1. running' = c => rest # << >>
      BY <1>2 DEF DrainTo
    <3>2. synced[c] => Whole(wire[c])
      BY DEF StreamInv, Stream, InputRead
    <3>3. ASSUME Whole(rest), running' # c PROVE rest = << >>
      <4>1. rest = << >> \/ (Len(rest) = 1 /\ Head(rest).part = "tail")
        BY <3>3 DEF DrainTo, OneByte
      <4>2. ASSUME Len(rest) = 1 PROVE Head(rest).part = "whole"
        <5>1. Head(rest) = rest[1]
          BY <4>2, SingleHead
        <5>2. 1 \in 1 .. Len(rest)
          BY <4>2
        <5> QED
          BY <3>3, <5>1, <5>2 DEF Whole
      <4> QED
        BY <4>1, <4>2
    <3> QED
      BY <1>2, <3>1, <3>2, <3>3 DEF InputRead
  <2> QED
    BY <2>1, <2>2, <2>3, <2>4 DEF Stream
<1>4. ASSUME NEW d \in Clients, d # c PROVE Stream(d)'
  <2>1. Stream(d) /\ d # NULL
    BY WsApiAssumption DEF StreamInv
  <2>2. input'[d] = input[d] /\ seen'[d] = seen[d] /\ ((running' = d) <=> (running = d))
    BY <1>4, <2>1 DEF StreamInv, StreamTypesOK, DrainTo
  <2> QED
    BY <1>4, <2>1, <2>2, StreamElsewhere
<1> QED
  BY <1>1, <1>3, <1>4 DEF StreamInv

\* The front frame is handed over and counted, the others move up.
LEMMA InOrderMoves ==
    ASSUME NEW handed \in Seq(1 .. MaxSends), NEW in \in Seq(Messages), NEW out \in Seq(Messages),
           NEW n \in Nat, InOrder(handed, in, out, n),
           in # << >>, NEW frame, frame = Head(in), frame.id \in 1 .. MaxSends
    PROVE  InOrder(Append(handed, frame.id), Tail(in), out, n)
<1> HIDE DEF Messages
<1>1. PICK id, ids, rest : /\ id = frame.id /\ ids = Append(handed, id)
                           /\ rest = Tail(in)
  OBVIOUS
<1>2. Len(handed) \in Nat /\ Len(in) \in Nat /\ Len(out) \in Nat
  BY LenProperties
<1>3. /\ Len(rest) = Len(in) - 1 /\ frame = in[1] /\ Len(in) > 0
      /\ \A i \in 1 .. Len(rest) : rest[i] = in[i + 1]
  BY <1>1, <1>2, HeadTailProperties, EmptySeq
<1>4. /\ Len(ids) = Len(handed) + 1
      /\ \A i \in 1 .. Len(handed) : ids[i] = handed[i]
      /\ ids[Len(handed) + 1] = id
  BY <1>1, AppendProperties
<1>5. id = Len(handed) + 1
  <2>1. 1 \in 1 .. Len(in)
    BY <1>2, <1>3
  <2> QED
    BY <1>1, <1>3, <2>1 DEF InOrder
<1>6. Len(handed) + Len(in) = Len(ids) + Len(rest)
  BY <1>2, <1>3, <1>4
<1>7. \A i \in 1 .. Len(ids) : ids[i] = i
  <2> TAKE i \in 1 .. Len(ids)
  <2>1. i \in 1 .. Len(handed) \/ i = Len(handed) + 1
    BY <1>2, <1>4
  <2> QED
    BY <1>4, <1>5, <2>1 DEF InOrder
<1>8. \A i \in 1 .. Len(rest) : rest[i].id = Len(ids) + i
  <2> TAKE i \in 1 .. Len(rest)
  <2>1. i + 1 \in 1 .. Len(in) /\ rest[i] = in[i + 1] /\ i \in Int
    BY <1>2, <1>3
  <2>2. rest[i].id = Len(handed) + (i + 1)
    BY <2>1 DEF InOrder
  <2>3. \A l \in Int : l + (i + 1) = (l + 1) + i
    BY <2>1
  <2>4. Len(handed) \in Int
    BY <1>2
  <2> QED
    BY <1>4, <2>2, <2>3, <2>4, Zenon
<1>9. Len(ids) + Len(rest) + Len(out) = n
  BY <1>6, Zenon DEF InOrder
<1>10. \A i \in 1 .. Len(out) : out[i].id = Len(ids) + Len(rest) + i
  BY <1>6 DEF InOrder
<1>11. InOrder(ids, rest, out, n)
  BY <1>7, <1>8, <1>9, <1>10 DEF InOrder
<1> QED
  BY <1>1, <1>11

LEMMA StreamFrame ==
    ASSUME StreamInv, FlagsOK, NEW c \in Clients, open[c], handshake_done[c], running = c,
           Head(input[c]).part # "tail", NEW type, Dispatch(c, type, Tail(input[c])),
           seen' = [seen EXCEPT ![c] = Append(@, Head(input[c]).id)]
    PROVE  StreamInv'
<1>1. PICK in, frame, rest : in = input[c] /\ frame = Head(in) /\ rest = Tail(in)
  OBVIOUS
<1>2. in \in Seq(Messages) /\ in # << >> /\ FramesOrTails(in) /\ Len(in) \in Nat
  BY <1>1, LenProperties DEF StreamInv, StreamTypesOK, Stream, FramePhase, InputRead
<1>a. frame.part # "tail"
  BY <1>1
<1> HIDE DEF Messages
<1>3. /\ rest \in Seq(Messages) /\ Len(rest) = Len(in) - 1 /\ frame = in[1] /\ Len(in) > 0
      /\ \A i \in 1 .. Len(rest) : rest[i] = in[i + 1]
  BY <1>1, <1>2, HeadTailProperties, EmptySeq
<1>4. \A i \in 1 .. Len(rest) : i + 1 \in 1 .. Len(in) /\ rest[i] = in[i + 1]
  BY <1>2, <1>3
<1>5. frame \in Frames
  <2>1. 1 \in 1 .. Len(in)
    BY <1>2, <1>3
  <2> QED
    BY <1>2, <1>3, <1>a, <2>1 DEF FramesOrTails
<1>6. frame.id \in 1 .. MaxSends
  BY <1>5 DEF Frames
<1>7. FramesOrTails(rest)
  BY <1>2, <1>4 DEF FramesOrTails
<1>8. Append(seen[c], frame.id) \in Seq(1 .. MaxSends)
  BY <1>6, AppendProperties DEF StreamInv, StreamTypesOK
<1>9. seen' = [seen EXCEPT ![c] = Append(seen[c], frame.id)]
  BY <1>1
<1>10. seen'[c] = Append(seen[c], frame.id)
  BY <1>9 DEF StreamInv, StreamTypesOK
<1>11. ASSUME synced[c] PROVE Whole(rest) /\ InOrder(seen'[c], rest, wire[c], nsent[c])
  <2>1. Whole(in) /\ InOrder(seen[c], in, wire[c], nsent[c])
    BY <1>1, <1>11 DEF StreamInv, Stream, Ordered, InputRead
  <2>2. nsent[c] \in Nat /\ wire[c] \in Seq(Messages) /\ seen[c] \in Seq(1 .. MaxSends)
    BY DEF StreamInv, StreamTypesOK
  <2>3. InOrder(Append(seen[c], frame.id), Tail(in), wire[c], nsent[c])
    BY <1>1, <1>2, <1>6, <2>1, <2>2, InOrderMoves
  <2>4. Whole(rest)
    BY <1>4, <2>1 DEF Whole
  <2> QED
    BY <1>1, <1>10, <2>3, <2>4
<1> QED
  BY <1>1, <1>3, <1>7, <1>8, <1>9, <1>11, StreamDrained DEF Dispatch

LEMMA StreamMiddle ==
    ASSUME StreamInv, FlagsOK, NEW c \in Clients, open[c], handshake_done[c], running = c,
           Head(input[c]).part = "tail", NEW type, NEW rest \in Remainders(input[c]),
           Dispatch(c, type, rest), UNCHANGED seen
    PROVE  StreamInv'
<1>1. PICK in : in = input[c]
  OBVIOUS
<1>2. in \in Seq(Messages) /\ in # << >> /\ FramesOrTails(in) /\ Len(in) \in Nat
  BY <1>1, LenProperties DEF StreamInv, StreamTypesOK, Stream, FramePhase, InputRead
<1> HIDE DEF Messages
<1>3. 1 \in 1 .. Len(in) /\ in[1] = Head(in)
  BY <1>2, HeadTailProperties, EmptySeq
<1>4. ~synced[c]
  <2>1. ~Whole(in)
    BY <1>1, <1>3 DEF Whole
  <2> QED
    BY <1>1, <2>1 DEF StreamInv, Stream, InputRead
<1>5. rest \in Seq(Messages) /\ FramesOrTails(rest)
  BY <1>1, <1>2, RemaindersOK
<1>6. \E ids \in Seq(1 .. MaxSends) : seen' = [seen EXCEPT ![c] = ids]
  <2>1. seen[c] \in Seq(1 .. MaxSends) /\ seen' = [seen EXCEPT ![c] = seen[c]]
    BY DEF StreamInv, StreamTypesOK
  <2> QED
    BY <2>1
<1> QED
  BY <1>4, <1>5, <1>6, StreamDrained DEF Dispatch

\* A message is sent on a connection.
LEMMA StreamSent ==
    ASSUME StreamInv, FlagsOK, NEW c \in Clients, NEW message \in Messages,
           wire' = [wire EXCEPT ![c] = Append(@, message)],
           \E r \in BOOLEAN : requested' = [requested EXCEPT ![c] = r],
           \E n \in 0 .. MaxSends : nsent' = [nsent EXCEPT ![c] = n],
           UNCHANGED << open, handshake_done, running, input, synced, seen,
                        overlapped, dropped >>,
           Stream(c)'
    PROVE  StreamInv'
<1> HIDE DEF Messages
<1>1. Append(wire[c], message) \in Seq(Messages)
  BY AppendProperties DEF StreamInv, StreamTypesOK
<1>2. wire' = [wire EXCEPT ![c] = Append(wire[c], message)]
  OBVIOUS
<1>3. StreamTypesOK'
  BY <1>1, <1>2 DEF StreamInv, StreamTypesOK
<1>4. ASSUME NEW d \in Clients, d # c PROVE Stream(d)'
  <2>1. Stream(d)
    BY DEF StreamInv
  <2>2. wire'[d] = wire[d] /\ requested'[d] = requested[d] /\ nsent'[d] = nsent[d]
    BY <1>4 DEF StreamInv, StreamTypesOK
  <2> QED
    BY <1>4, <2>1, <2>2, StreamElsewhere
<1> QED
  BY <1>3, <1>4 DEF StreamInv

LEMMA StreamRequested ==
    ASSUME StreamInv, FlagsOK, NEW c \in Clients, NEW type \in {"good_request", "bad_request"},
           SendRequest(c, type)
    PROVE  StreamInv'
<1>1. Request(type) \in Messages /\ Request(type).part = "whole"
  BY DEF Request, Messages, Requests, Parts
<1>2. PICK message \in Messages : message = Request(type) /\ message.part = "whole"
  BY <1>1
<1> HIDE DEF Messages
<1>3. /\ open[c] /\ ~requested[c] /\ requested' = [requested EXCEPT ![c] = TRUE]
      /\ wire' = [wire EXCEPT ![c] = Append(@, message)]
      /\ UNCHANGED << open, handshake_done, running, input, nsent, synced, seen,
                      overlapped, dropped >>
  BY <1>2, Zenon DEF SendRequest
<1>4. ~handshake_done[c] /\ requested'[c]
  BY <1>3 DEF StreamInv, StreamTypesOK, Stream, FramePhase
<1>5. nsent[c] = 0 /\ seen[c] = << >> /\ wire[c] = << >> /\ running # c
  BY <1>3, <1>4 DEF StreamInv, Stream, RequestPhase
<1>6. wire'[c] = << message >>
  BY <1>3, <1>5 DEF StreamInv, StreamTypesOK
<1>7. Len(wire'[c]) = 1 /\ Whole(wire'[c])
  BY <1>2, <1>6 DEF Whole
<1>8. Freed(c)' /\ RequestPhase(c)'
  BY <1>3, <1>4, <1>5, <1>7 DEF Freed, RequestPhase
<1>9. FramePhase(c)' /\ Ordered(c)'
  BY <1>3, <1>4 DEF FramePhase, Ordered
<1>10. InputRead(c)'
  BY <1>3, <1>7 DEF StreamInv, Stream, InputRead
<1>11. Stream(c)'
  BY <1>8, <1>9, <1>10 DEF Stream
<1>12. \E n \in 0 .. MaxSends : nsent' = [nsent EXCEPT ![c] = n]
  <2>1. nsent[c] \in 0 .. MaxSends /\ nsent' = [nsent EXCEPT ![c] = nsent[c]]
    BY <1>3 DEF StreamInv, StreamTypesOK
  <2> QED
    BY <2>1
<1>13. \E r \in BOOLEAN : requested' = [requested EXCEPT ![c] = r]
  BY <1>3
<1> QED
  BY <1>3, <1>11, <1>12, <1>13, StreamSent

\* One more frame is sent, behind all the others.
LEMMA InOrderGrows ==
    ASSUME NEW handed \in Seq(1 .. MaxSends), NEW in \in Seq(Messages), NEW out \in Seq(Messages),
           NEW n \in Nat, InOrder(handed, in, out, n),
           NEW frame \in Messages, frame.id = n + 1
    PROVE  InOrder(handed, in, Append(out, frame), n + 1)
<1> HIDE DEF Messages
<1>1. PICK more : more = Append(out, frame)
  OBVIOUS
<1>2. /\ Len(more) = Len(out) + 1
      /\ \A i \in 1 .. Len(out) : more[i] = out[i]
      /\ more[Len(out) + 1] = frame
  BY <1>1, AppendProperties
<1>3. PICK l, o \in Nat : l = Len(handed) + Len(in) /\ o = Len(out)
  <2>1. Len(handed) \in Nat /\ Len(in) \in Nat /\ Len(out) \in Nat
    BY LenProperties
  <2> QED
    BY <2>1
<1>4. l + o = n
  BY <1>3 DEF InOrder
<1>5. Len(handed) + Len(in) + Len(more) = n + 1
  <2>1. l + (o + 1) = n + 1
    BY <1>4
  <2> QED
    BY <1>2, <1>3, <2>1
<1>6. \A i \in 1 .. Len(more) : more[i].id = Len(handed) + Len(in) + i
  <2> TAKE i \in 1 .. Len(more)
  <2>1. i \in 1 .. Len(out) \/ i = o + 1
    BY <1>2, <1>3
  <2>2. CASE i \in 1 .. Len(out)
    BY <1>2, <2>2 DEF InOrder
  <2>3. CASE i = o + 1
    <3>1. l + (o + 1) = n + 1
      BY <1>4
    <3> QED
      BY <1>2, <1>3, <2>3, <3>1
  <2> QED
    BY <2>1, <2>2, <2>3
<1>7. InOrder(handed, in, more, n + 1)
  BY <1>5, <1>6 DEF InOrder
<1> QED
  BY <1>1, <1>7

LEMMA StreamFrameSent ==
    ASSUME StreamInv, FlagsOK, NEW c \in Clients, NEW type \in Opcodes, NEW masked \in BOOLEAN,
           SendFrame(c, type, masked)
    PROVE  StreamInv'
<1>1. nsent[c] \in 0 .. MaxSends /\ nsent[c] < MaxSends
  BY DEF StreamInv, StreamTypesOK, SendFrame
<1>2. nsent[c] + 1 \in 1 .. MaxSends /\ nsent[c] \in Nat /\ nsent[c] + 1 \in 0 .. MaxSends
  BY <1>1, WsApiAssumption
<1>3. PICK frame : frame = [type |-> type, masked |-> masked, id |-> nsent[c] + 1,
                            part |-> "whole"]
  OBVIOUS
<1>4. frame \in Frames /\ frame.part = "whole" /\ frame.id = nsent[c] + 1
  BY <1>2, <1>3 DEF Frames, Parts
<1>5. frame \in Messages
  BY <1>4 DEF Messages
<1> HIDE DEF Messages
<1>6. /\ open[c] /\ handshake_done[c] /\ nsent' = [nsent EXCEPT ![c] = nsent[c] + 1]
      /\ wire' = [wire EXCEPT ![c] = Append(@, frame)]
      /\ UNCHANGED << open, handshake_done, running, requested, input, synced, seen,
                      overlapped, dropped >>
  BY <1>3, Zenon DEF SendFrame
<1>7. /\ wire'[c] = Append(wire[c], frame) /\ wire[c] \in Seq(Messages)
      /\ nsent'[c] = nsent[c] + 1
  BY <1>6 DEF StreamInv, StreamTypesOK
<1>8. PICK out, out2 : out = wire[c] /\ out2 = wire'[c]
  OBVIOUS
<1>9. /\ Len(out2) = Len(out) + 1 /\ Len(out) \in Nat
      /\ \A i \in 1 .. Len(out) : out2[i] = out[i]
      /\ out2[Len(out) + 1] = frame
  BY <1>5, <1>7, <1>8, AppendProperties, LenProperties
<1>10. \A i \in 1 .. Len(out2) : (i \in 1 .. Len(out) /\ out2[i] = out[i]) \/ out2[i] = frame
  BY <1>9
<1>11. Freed(c)' /\ RequestPhase(c)'
  BY <1>6 DEF Freed, RequestPhase
<1>12. FramePhase(c)'
  <2>1. requested[c] /\ FramesOrTails(input[c]) /\ FramesOrTails(out)
    BY <1>6, <1>8 DEF StreamInv, Stream, FramePhase
  <2>2. FramesOrTails(out2)
    BY <1>4, <1>10, <2>1 DEF FramesOrTails
  <2> QED
    BY <1>6, <1>8, <2>1, <2>2 DEF FramePhase
<1>13. Ordered(c)'
  <2>1. input[c] \in Seq(Messages) /\ seen[c] \in Seq(1 .. MaxSends)
    BY DEF StreamInv, StreamTypesOK
  <2>2. ASSUME synced[c]
        PROVE  InOrder(seen[c], input[c], Append(wire[c], frame), nsent[c] + 1)
    <3>1. InOrder(seen[c], input[c], wire[c], nsent[c])
      BY <1>6, <2>2 DEF StreamInv, Stream, Ordered
    <3> QED
      BY <1>2, <1>4, <1>5, <1>7, <2>1, <3>1, InOrderGrows
  <2> QED
    BY <1>6, <1>7, <2>2 DEF Ordered
<1>14. InputRead(c)'
  <2>1. ASSUME synced[c] PROVE Whole(out2)
    <3>1. Whole(out)
      BY <1>8, <2>1 DEF StreamInv, Stream, InputRead
    <3> QED
      BY <1>4, <1>10, <3>1 DEF Whole
  <2> QED
    BY <1>6, <1>8, <2>1 DEF StreamInv, Stream, InputRead
<1>15. Stream(c)'
  BY <1>11, <1>12, <1>13, <1>14 DEF Stream
<1>16. \E r \in BOOLEAN : requested' = [requested EXCEPT ![c] = r]
  <2>1. requested[c] \in BOOLEAN /\ requested' = [requested EXCEPT ![c] = requested[c]]
    BY <1>6 DEF StreamInv, StreamTypesOK
  <2> QED
    BY <2>1
<1>17. \E n \in 0 .. MaxSends : nsent' = [nsent EXCEPT ![c] = n]
  BY <1>2, <1>6
<1> QED
  BY <1>5, <1>6, <1>15, <1>16, <1>17, StreamSent

LEMMA TypesTogether == FlagsOK /\ CountInv /\ StreamInv => TypeOK
BY DEF FlagsOK, CountInv, CountersOK, StreamInv, StreamTypesOK, TypeOK

LEMMA StreamNext == StreamInv /\ UserInv /\ CountInv /\ [Next]_vars => StreamInv'
<1> SUFFICES ASSUME StreamInv, UserInv, CountInv, [Next]_vars
             PROVE  StreamInv'
  OBVIOUS
<1>0. /\ FlagsOK /\ TypeOK
      /\ running # NULL => open[running]
      /\ \A c \in Clients : c # NULL
  BY TypesTogether, WsApiAssumption DEF UserInv, CallbackOnOpen
<1>1. CASE UNCHANGED vars
  <2>1. StreamTypesOK'
    BY <1>1 DEF StreamInv, StreamTypesOK, vars
  <2>2. ASSUME NEW c \in Clients PROVE Stream(c)'
    <3>1. Stream(c)
      BY DEF StreamInv
    <3> QED
      BY <1>1, <3>1, StreamElsewhere DEF vars
  <2> QED
    BY <2>1, <2>2 DEF StreamInv
<1>2. ASSUME NEW c \in Clients, accept_conn_cb(c)
      PROVE  StreamInv'
  BY <1>0, <1>2, StreamOpened
<1>3. ASSUME NEW c \in Clients, event_cb(c)
      PROVE  StreamInv'
  BY <1>0, <1>3, StreamClosed DEF event_cb, Gone, StreamInv, StreamTypesOK
<1>4. ASSUME NEW c \in Clients, NEW k \in 0 .. Len(wire[c]), NEW cut \in BOOLEAN,
             Deliver(c, k, cut)
      PROVE  StreamInv'
  BY <1>0, <1>4, StreamDeliver
<1>5. ASSUME NEW c \in Clients, running = c, Fail(c), dropped' \in BOOLEAN
      PROVE  StreamInv'
  BY <1>0, <1>5, StreamClosed DEF Fail
<1>6. dropped \in BOOLEAN
  BY DEF StreamInv, StreamTypesOK
<1>7. ASSUME NEW c \in Clients, ReadHandshake(c)
      PROVE  StreamInv'
  <2>1. running = c /\ open[c] /\ ~handshake_done[c]
    BY <1>0, <1>7 DEF ReadHandshake
  <2>2. CASE Fail(c) /\ UNCHANGED << api_user_bev, dropped >>
    BY <1>5, <1>6, <2>1, <2>2
  <2>3. CASE /\ input' = [input EXCEPT ![c] = << >>]
             /\ handshake_done' = [handshake_done EXCEPT ![c] = TRUE]
             /\ running' = NULL
             /\ UNCHANGED << open, disconnect, requested, wire, nsent, accepts,
                             clients, synced, seen, overlapped, failures, dropped >>
    BY <1>0, <2>1, <2>3, StreamAnswered
  <2> QED
    BY <1>7, <2>2, <2>3 DEF ReadHandshake
<1>8. ASSUME NEW c \in Clients, running = c, NEW type,
             Malformed(c) \/ CloseAnswerFails(c, type)
      PROVE  StreamInv'
  BY <1>5, <1>6, <1>8 DEF Malformed, CloseAnswerFails
<1>9. ASSUME NEW c \in Clients, ReadFrame(c)
      PROVE  StreamInv'
  <2>1. running = c /\ open[c] /\ handshake_done[c] /\ Head(input[c]).part # "tail"
    BY <1>0, <1>9 DEF ReadFrame
  <2>2. CASE Malformed(c) \/ CloseAnswerFails(c, Head(input[c]).type)
    BY <1>8, <2>1, <2>2
  <2>3. CASE /\ Dispatch(c, Head(input[c]).type, Tail(input[c]))
             /\ seen' = [seen EXCEPT ![c] = Append(@, Head(input[c]).id)]
    BY <1>0, <2>1, <2>3, StreamFrame
  <2> QED
    BY <1>9, <2>2, <2>3 DEF ReadFrame
<1>10. ASSUME NEW c \in Clients, ReadMiddle(c)
       PROVE  StreamInv'
  <2>1. running = c /\ open[c] /\ handshake_done[c] /\ Head(input[c]).part = "tail"
    BY <1>0, <1>10 DEF ReadMiddle
  <2>2. CASE Malformed(c) \/ CloseAnswerFails(c, "CLOSE")
    BY <1>8, <2>1, <2>2
  <2>3. ASSUME NEW type \in Opcodes, NEW rest \in Remainders(input[c]),
               Dispatch(c, type, rest), UNCHANGED seen
        PROVE  StreamInv'
    BY <1>0, <2>1, <2>3, StreamMiddle
  <2> QED
    BY <1>10, <2>2, <2>3 DEF ReadMiddle
<1>11. ASSUME NEW c \in Clients, NEW type \in {"good_request", "bad_request"},
              SendRequest(c, type)
       PROVE  StreamInv'
  BY <1>0, <1>11, StreamRequested
<1>12. ASSUME NEW c \in Clients, NEW type \in Opcodes, NEW masked \in BOOLEAN,
              SendFrame(c, type, masked)
       PROVE  StreamInv'
  BY <1>0, <1>12, StreamFrameSent
<1> QED
  BY <1>1, <1>2, <1>3, <1>4, <1>7, <1>9, <1>10, <1>11, <1>12 DEF Next, read_cb

\* Every variable stays in its range, the buffers' contents included.
THEOREM WsTypeCorrect == Spec => []TypeOK
<1>1. UserInv /\ CountInv /\ StreamInv => TypeOK
  BY TypesTogether DEF UserInv
<1> QED
  BY <1>1, UserInit, UserNext, CountInit, CountNext, StreamInit, StreamNext, PTL DEF Spec

LEMMA OrderedSequences ==
    ASSUME NEW handed \in Seq(1 .. MaxSends), NEW in \in Seq(Messages), NEW out \in Seq(Messages),
           NEW n \in Nat, InOrder(handed, in, out, n)
    PROVE  handed \o [i \in 1 .. Len(in \o out) |-> (in \o out)[i].id] = [i \in 1 .. n |-> i]
<1> HIDE DEF Messages
<1>1. PICK pending : pending = in \o out
  OBVIOUS
<1>2. Len(handed) \in Nat /\ Len(in) \in Nat /\ Len(out) \in Nat
  BY LenProperties
<1>3. /\ pending \in Seq(Messages) /\ Len(pending) = Len(in) + Len(out)
      /\ \A i \in 1 .. Len(in) + Len(out) :
            pending[i] = IF i <= Len(in) THEN in[i] ELSE out[i - Len(in)]
  BY <1>1, ConcatProperties
<1>4. \A i \in 1 .. Len(pending) : pending[i].id = Len(handed) + i
  <2> TAKE i \in 1 .. Len(pending)
  <2>1. \/ i \in 1 .. Len(in) /\ pending[i] = in[i]
        \/ i - Len(in) \in 1 .. Len(out) /\ pending[i] = out[i - Len(in)]
    BY <1>2, <1>3
  <2>2. CASE i \in 1 .. Len(in) /\ pending[i] = in[i]
    BY <2>2 DEF InOrder
  <2>3. CASE i - Len(in) \in 1 .. Len(out) /\ pending[i] = out[i - Len(in)]
    <3>1. pending[i].id = Len(handed) + Len(in) + (i - Len(in))
      BY <2>3 DEF InOrder
    <3>2. i \in Int
      BY <1>2, <1>3
    <3> QED
      BY <1>2, <3>1, <3>2
  <2> QED
    BY <2>1, <2>2, <2>3
<1>5. PICK ids : ids = [i \in 1 .. Len(pending) |-> pending[i].id]
  OBVIOUS
<1>6. Len(pending) \in Nat /\ Len(handed) + Len(pending) = n
  BY <1>2, <1>3 DEF InOrder
<1>7. ids \in Seq(Nat) /\ Len(ids) = Len(pending) /\ handed \in Seq(Nat)
  <2>1. \A i \in 1 .. Len(pending) : ids[i] = Len(handed) + i /\ ids[i] \in Nat
    BY <1>2, <1>4, <1>5, <1>6
  <2>2. ids \in [1 .. Len(pending) -> Nat]
    BY <1>5, <2>1
  <2>3. ids \in Seq(Nat) /\ Len(ids) = Len(pending)
    <3>1. PICK l \in Nat : l = Len(pending)
      BY <1>6
    <3>2. ids \in [1 .. l -> Nat]
      BY <2>2, <3>1
    <3>3. ids \in Seq(Nat)
      BY <3>2
    <3> QED
      BY <3>1, <3>2, <3>3, LenProperties
  <2>4. handed \in Seq(Nat)
    <3>1. \A i \in 1 .. Len(handed) : handed[i] \in Nat
      BY <1>2 DEF InOrder
    <3>2. handed \in [1 .. Len(handed) -> Nat]
      BY <3>1, LenProperties
    <3> QED
      BY <1>2, <3>2
  <2> QED
    BY <2>3, <2>4
<1>8. PICK both : both = handed \o ids
  OBVIOUS
<1>9. /\ both \in Seq(Nat) /\ Len(both) = Len(handed) + Len(ids)
      /\ \A i \in 1 .. Len(handed) + Len(ids) :
            both[i] = IF i <= Len(handed) THEN handed[i] ELSE ids[i - Len(handed)]
  BY <1>7, <1>8, ConcatProperties, ZenonT(40)
<1>10. \A i \in 1 .. n : both[i] = i
  <2> TAKE i \in 1 .. n
  <2>1. \/ i \in 1 .. Len(handed) /\ both[i] = handed[i]
        \/ i - Len(handed) \in 1 .. Len(pending) /\ both[i] = ids[i - Len(handed)]
    BY <1>2, <1>6, <1>7, <1>9, SMTT(40)
  <2>2. CASE i \in 1 .. Len(handed) /\ both[i] = handed[i]
    BY <2>2 DEF InOrder
  <2>3. CASE i - Len(handed) \in 1 .. Len(pending) /\ both[i] = ids[i - Len(handed)]
    <3>1. both[i] = Len(handed) + (i - Len(handed))
      BY <1>4, <1>5, <2>3
    <3> QED
      BY <1>2, <3>1
  <2> QED
    BY <2>1, <2>2, <2>3
<1>11. DOMAIN both = 1 .. n /\ both = [i \in DOMAIN both |-> both[i]]
  BY <1>6, <1>7, <1>9, LenProperties
<1>12. both = [i \in 1 .. n |-> i]
  BY <1>10, <1>11
<1> QED
  BY <1>1, <1>5, <1>8, <1>12

LEMMA StreamGivesOrder == StreamInv => FramesInOrder
<1> SUFFICES ASSUME StreamInv, NEW c \in Clients, open[c], handshake_done[c], synced[c]
             PROVE  seen[c] \o [i \in 1 .. Len(input[c] \o wire[c]) |->
                                    (input[c] \o wire[c])[i].id]
                        = [i \in 1 .. nsent[c] |-> i]
  BY DEF FramesInOrder
<1>1. InOrder(seen[c], input[c], wire[c], nsent[c])
  BY DEF StreamInv, Stream, Ordered
<1>2. /\ seen[c] \in Seq(1 .. MaxSends) /\ nsent[c] \in Nat
      /\ input[c] \in Seq(Messages) /\ wire[c] \in Seq(Messages)
  BY DEF StreamInv, StreamTypesOK
<1> QED
  BY <1>1, <1>2, OrderedSequences

\* For any number of clients and frames: while reads end where messages do,
\* what the API was handed followed by what is on its way is what was sent.
THEOREM FramesInOrderCorrect == Spec => []FramesInOrder
BY UserInit, UserNext, CountInit, CountNext, StreamInit, StreamNext,
   StreamGivesOrder, PTL DEF Spec

\* ... and nothing waits in the input when no callback runs.
THEOREM NothingStrandedCorrect == Spec => []NothingStranded
<1>1. StreamInv => NothingStranded
  BY WsApiAssumption DEF StreamInv, Stream, InputRead, NothingStranded
<1> QED
  BY <1>1, UserInit, UserNext, CountInit, CountNext, StreamInit, StreamNext, PTL DEF Spec
=============================================================================
