------------------------------- MODULE WsApi -------------------------------
(***************************************************************************)
(* The frontend's side of a node: the WebSocket server of                  *)
(* src/websockets/websockets.c with the API of src/api.c behind it, which  *)
(* remembers one bufferevent, the user's, in api_user_bev.                 *)
(*                                                                         *)
(* A client is the address of its bufferevent, so a client freed and       *)
(* accepted again is another connection whose memory is the same.  wire[c] *)
(* holds what the client has sent in order, input[c] what a read has put   *)
(* into the input buffer; a read may cut a message in two, "head" and      *)
(* "tail".  read_cb calls itself through bufferevent_trigger while bytes   *)
(* are left: one step per message, no other callback until it returns.     *)
(***************************************************************************)
EXTENDS Integers, Sequences, FiniteSets

CONSTANTS
    Clients,
    NULL,
    Torn,        \* TRUE: a read may end inside a message
    MaxAccepts,  \* bound: connections accepted
    MaxSends,    \* bound: frames one connection sends
    MaxTogether  \* bound: frames any two that are open send

ASSUME WsApiAssumption ==
    /\ NULL \notin Clients
    /\ Torn \in BOOLEAN
    /\ MaxAccepts \in Nat /\ MaxSends \in Nat /\ MaxTogether \in Nat

VARIABLES
    open,           \* bev: allocated and connected
    handshake_done, \* cl->handshake_done
    disconnect,     \* cl->disconnect
    api_user_bev,   \* the user's bufferevent, or NULL
    running,        \* the client whose read_cb is on the stack, or NULL
    requested,      \* whether the client has sent its HTTP request
    wire,           \* messages sent and not read
    input,          \* messages and pieces of messages in the input buffer
    nsent,          \* frames sent on this connection
    accepts,        \* connections accepted so far
    clients,        \* ws_client objects allocated and not freed
    synced,         \* history: every read so far ended where a message does
    seen,           \* history: frames handed to read_cb or close_cb
    overlapped,     \* history: a client was accepted beside another
    failures,       \* history: connections read_cb freed
    dropped         \* history: one of them was accepted and not closed

vars == << open, handshake_done, disconnect, api_user_bev, running, requested,
           wire, input, nsent, accepts, clients, synced, seen, overlapped, failures,
           dropped >>

Opcodes  == {"TEXT", "CLOSE"}
Parts    == {"whole", "head", "tail"}
Requests == [type : {"good_request", "bad_request"}, part : Parts]
Frames   == [type : Opcodes, masked : BOOLEAN, id : 1 .. MaxSends, part : Parts]
Messages == Requests \cup Frames

Request(type) == [type |-> type, part |-> "whole"]

TypeOK ==
    /\ open \in [Clients -> BOOLEAN]
    /\ handshake_done \in [Clients -> BOOLEAN]
    /\ disconnect \in [Clients -> BOOLEAN]
    /\ api_user_bev \in Clients \cup {NULL}
    /\ running \in Clients \cup {NULL}
    /\ requested \in [Clients -> BOOLEAN]
    /\ wire \in [Clients -> Seq(Messages)]
    /\ input \in [Clients -> Seq(Messages)]
    /\ nsent \in [Clients -> 0 .. MaxSends]
    /\ accepts \in 0 .. MaxAccepts
    /\ clients \in 0 .. MaxAccepts
    /\ synced \in [Clients -> BOOLEAN]
    /\ seen \in [Clients -> Seq(1 .. MaxSends)]
    /\ overlapped \in BOOLEAN
    /\ failures \in 0 .. MaxAccepts
    /\ dropped \in BOOLEAN

Init ==
    /\ open = [c \in Clients |-> FALSE]
    /\ handshake_done = [c \in Clients |-> FALSE]
    /\ disconnect = [c \in Clients |-> FALSE]
    /\ api_user_bev = NULL
    /\ running = NULL
    /\ requested = [c \in Clients |-> FALSE]
    /\ wire = [c \in Clients |-> << >>]
    /\ input = [c \in Clients |-> << >>]
    /\ nsent = [c \in Clients |-> 0]
    /\ accepts = 0
    /\ clients = 0
    /\ synced = [c \in Clients |-> TRUE]
    /\ seen = [c \in Clients |-> << >>]
    /\ overlapped = FALSE
    /\ failures = 0
    /\ dropped = FALSE

-----------------------------------------------------------------------------
(* api.c: the callbacks it registers, of which read_cb only logs, and the    *)
(* call by which the rest of the node tells the frontend of an event.        *)

\* Two slips: the second client replaces the first; the user is not kept.
accept_cb_Replaces(c) == api_user_bev' = c
accept_cb_Forgets(c)  == UNCHANGED api_user_bev

\* The first client is the user; another one is refused but stays connected.
accept_cb(c) ==
    api_user_bev' = IF api_user_bev = NULL THEN c ELSE api_user_bev

\* Whoever closes, there is no user afterwards.
close_cb(c) == api_user_bev' = NULL

\* vcmp_api_event_user returns 1 and sends nothing: "no user behind API".
NoUserBehindApi == api_user_bev = NULL

-----------------------------------------------------------------------------
(* Connections *)

accept_conn_cb(c) ==
    /\ running = NULL
    /\ ~open[c]
    /\ accepts < MaxAccepts
    /\ accepts' = accepts + 1
    /\ clients' = clients + 1
    /\ open' = [open EXCEPT ![c] = TRUE]
    /\ handshake_done' = [handshake_done EXCEPT ![c] = FALSE]
    /\ disconnect' = [disconnect EXCEPT ![c] = FALSE]
    /\ requested' = [requested EXCEPT ![c] = FALSE]
    /\ nsent' = [nsent EXCEPT ![c] = 0]
    /\ synced' = [synced EXCEPT ![c] = TRUE]
    /\ seen' = [seen EXCEPT ![c] = << >>]
    /\ overlapped' = (overlapped \/ \E d \in Clients : open[d])
    /\ UNCHANGED << api_user_bev, running, wire, input, failures, dropped >>

\* bufferevent_free, after which no callback of this connection runs.
bufferevent_free(c) ==
    /\ open' = [open EXCEPT ![c] = FALSE]
    /\ wire' = [wire EXCEPT ![c] = << >>]
    /\ input' = [input EXCEPT ![c] = << >>]

\* BEV_EVENT_EOF or BEV_EVENT_ERROR, handshake or none.
Gone(c, freed) ==
    /\ running = NULL
    /\ open[c]
    /\ bufferevent_free(c)
    /\ clients' = clients - freed
    /\ UNCHANGED << handshake_done, disconnect, running, requested, nsent,
                    accepts, synced, seen, overlapped, failures, dropped >>

\* Three slips: the API is not told; the ws_client is kept, or freed twice.
event_cb_NoCloseCb(c)  == Gone(c, 1) /\ UNCHANGED api_user_bev
event_cb_Leaks(c)      == Gone(c, 0) /\ close_cb(c)
event_cb_FreesTwice(c) == Gone(c, 2) /\ close_cb(c)

event_cb(c) == Gone(c, 1) /\ close_cb(c)

-----------------------------------------------------------------------------
(* read_cb *)

\* The event loop reads k messages and, when "cut", part of the next one,
\* and calls read_cb.
Deliver(c, k, cut) ==
    /\ running = NULL
    /\ open[c]
    /\ IF cut
       THEN /\ Torn
            /\ k < Len(wire[c])
            /\ wire[c][k + 1].part = "whole"
            /\ input' = [input EXCEPT ![c] = @ \o Append(SubSeq(wire[c], 1, k),
                              [wire[c][k + 1] EXCEPT !.part = "head"])]
            /\ wire' = [wire EXCEPT ![c] =
                           << [@[k + 1] EXCEPT !.part = "tail"] >>
                               \o SubSeq(@, k + 2, Len(@))]
       ELSE /\ k \in 1 .. Len(wire[c])
            /\ input' = [input EXCEPT ![c] = @ \o SubSeq(wire[c], 1, k)]
            /\ wire' = [wire EXCEPT ![c] = SubSeq(@, k + 1, Len(@))]
    /\ running' = c
    /\ synced' = [synced EXCEPT ![c] = @ /\ ~cut]
    /\ UNCHANGED << open, handshake_done, disconnect, api_user_bev, requested,
                    nsent, accepts, clients, seen, overlapped, failures,
                    dropped >>

\* The failure paths of read_cb free the bufferevent and not the ws_client.
Fail(c) ==
    /\ bufferevent_free(c)
    /\ running' = NULL
    /\ failures' = failures + 1
    /\ UNCHANGED << handshake_done, disconnect, requested, nsent, accepts,
                    clients, synced, seen, overlapped >>

\* A request is answered if its key is in what has arrived of it, and all of
\* the input is drained.  ws_parse_handshake leaves the header names it
\* copies unterminated, so that a key which is there may be missed.
ReadHandshake(c) ==
    /\ running = c
    /\ ~handshake_done[c]
    /\ \/ /\ Fail(c)
          /\ UNCHANGED << api_user_bev, dropped >>
       \/ /\ Head(input[c]).type = "good_request"
          /\ input' = [input EXCEPT ![c] = << >>]
          /\ handshake_done' = [handshake_done EXCEPT ![c] = TRUE]
          /\ accept_cb(c)
          /\ running' = NULL
          /\ UNCHANGED << open, disconnect, requested, wire, nsent, accepts,
                          clients, synced, seen, overlapped, failures,
                          dropped >>

OneByte(rest) == Len(rest) = 1 /\ Head(rest).part = "tail"

\* Two slips of what follows: the rest of the input is left for the next
\* read; the drain takes it too.
DrainTo_NoTrigger(c, rest) ==
    /\ input' = [input EXCEPT ![c] = rest]
    /\ running' = NULL

DrainTo_All(c, rest) ==
    /\ input' = [input EXCEPT ![c] = << >>]
    /\ running' = NULL

\* evbuffer_drain leaves "rest", and bufferevent_trigger runs read_cb on it
\* unless it is a single byte, as the last of a message may be.
DrainTo(c, rest) ==
    /\ input' = [input EXCEPT ![c] = rest]
    /\ \/ running' = NULL /\ (rest = << >> \/ OneByte(rest))
       \/ running' = c /\ rest # << >>

\* A frame the server takes for malformed: freed, and the API not told.
Malformed(c) ==
    /\ Fail(c)
    /\ dropped' = TRUE
    /\ UNCHANGED api_user_bev

\* A frame handed to the API.  A CLOSE is answered, which may fail, and the
\* connection marked; the server does not close it.
Dispatch(c, type, rest) ==
    /\ DrainTo(c, rest)
    /\ IF type = "CLOSE"
       THEN close_cb(c) /\ disconnect' = [disconnect EXCEPT ![c] = TRUE]
       ELSE UNCHANGED << api_user_bev, disconnect >>
    /\ UNCHANGED << open, handshake_done, requested, wire, nsent, accepts,
                    clients, synced, overlapped, failures, dropped >>

CloseAnswerFails(c, type) ==
    /\ type = "CLOSE"
    /\ close_cb(c)
    /\ Fail(c)
    /\ UNCHANGED dropped

\* The front of the input is the beginning of a frame.  Of one cut short the
\* mask bit may be missing; it is dispatched with the length it announces,
\* and the drain takes all there is.
ReadFrame(c) ==
    /\ running = c
    /\ handshake_done[c]
    /\ Head(input[c]).part # "tail"
    /\ LET frame == Head(input[c])
           cut   == frame.part = "head"
       IN \/ (~frame.masked \/ cut) /\ Malformed(c)
          \/ (frame.masked \/ cut) /\ CloseAnswerFails(c, frame.type)
          \/ /\ frame.masked \/ cut
             /\ Dispatch(c, frame.type, Tail(input[c]))
             /\ seen' = [seen EXCEPT ![c] = Append(@, frame.id)]

\* The front of the input is the middle of a message, whose bytes can be
\* taken for any frame of any length.
Remainders(pieces) ==
    {pieces} \cup
    { << [pieces[k] EXCEPT !.part = "tail"] >>
          \o SubSeq(pieces, k + 1, Len(pieces)) : k \in 2 .. Len(pieces) } \cup
    { SubSeq(pieces, k, Len(pieces)) : k \in 2 .. Len(pieces) + 1 }

ReadMiddle(c) ==
    /\ running = c
    /\ handshake_done[c]
    /\ Head(input[c]).part = "tail"
    /\ \/ Malformed(c)
       \/ CloseAnswerFails(c, "CLOSE")
       \/ \E type \in Opcodes, rest \in Remainders(input[c]) :
             /\ Dispatch(c, type, rest)
             /\ UNCHANGED seen

read_cb(c) == ReadHandshake(c) \/ ReadFrame(c) \/ ReadMiddle(c)

-----------------------------------------------------------------------------
(* The clients.  One sends its request, and frames once it is answered, as   *)
(* a browser does; other programs may leave the mask out or the key.         *)

SendRequest(c, type) ==
    /\ open[c]
    /\ ~requested[c]
    /\ requested' = [requested EXCEPT ![c] = TRUE]
    /\ wire' = [wire EXCEPT ![c] = Append(@, Request(type))]
    /\ UNCHANGED << open, handshake_done, disconnect, api_user_bev, running,
                    input, nsent, accepts, clients, synced, seen, overlapped,
                    failures, dropped >>

SendFrame(c, type, masked) ==
    /\ open[c]
    /\ handshake_done[c]
    /\ nsent[c] < MaxSends
    /\ \A d \in Clients \ {c} : open[d] => nsent[c] + nsent[d] < MaxTogether
    /\ nsent' = [nsent EXCEPT ![c] = @ + 1]
    /\ wire' = [wire EXCEPT ![c] = Append(@,
                   [type |-> type, masked |-> masked, id |-> nsent[c] + 1,
                    part |-> "whole"])]
    /\ UNCHANGED << open, handshake_done, disconnect, api_user_bev, running,
                    requested, input, accepts, clients, synced, seen,
                    overlapped, failures, dropped >>

-----------------------------------------------------------------------------
Next ==
    \E c \in Clients :
        \/ accept_conn_cb(c)
        \/ event_cb(c)
        \/ \E k \in 0 .. Len(wire[c]), cut \in BOOLEAN : Deliver(c, k, cut)
        \/ read_cb(c)
        \/ \E type \in {"good_request", "bad_request"} : SendRequest(c, type)
        \/ \E type \in Opcodes, masked \in BOOLEAN : SendFrame(c, type, masked)

Spec == Init /\ [][Next]_vars

\* The event loop goes on reading sockets and running the callbacks due.
Fairness ==
    \A c \in Clients :
        /\ WF_vars(\E k \in 0 .. Len(wire[c]), cut \in BOOLEAN : Deliver(c, k, cut))
        /\ WF_vars(read_cb(c))

FairSpec == Spec /\ Fairness

-----------------------------------------------------------------------------
(* Properties *)

\* A client that had its handshake and neither sent CLOSE nor went away.
Frontend(c) == open[c] /\ handshake_done[c] /\ ~disconnect[c]

\* The user's bufferevent is one the node may write to: a frontend still
\* connected, whichever tabs come and go - as long as read_cb frees none for
\* a malformed frame, the one path that does not tell the API.
SlotNamesFrontend ==
    ~dropped /\ api_user_bev # NULL => Frontend(api_user_bev)

\* The node reports "no user behind API" to an event only when no frontend is
\* connected, provided connections never overlapped: close_cb forgets the
\* user whichever client it is called for.
UserIsKnown ==
    ~dropped /\ ~overlapped /\ NoUserBehindApi
        => \A c \in Clients : ~Frontend(c)

\* The same without the proviso, which is what the warning says.
NoUserMeansNoFrontend ==
    NoUserBehindApi => \A c \in Clients : ~Frontend(c)

\* The user never changes from one client to another in one step, and it
\* becomes a client only as that client completes its handshake.
UserStep ==
    api_user_bev' \notin {api_user_bev, NULL} =>
        /\ api_user_bev = NULL
        /\ ~handshake_done[api_user_bev']
        /\ handshake_done'[api_user_bev']

UserChangesHands == [][UserStep]_vars

\* While reads end where messages do, the frames handed to the API followed
\* by those still on their way are the frames sent: none is lost, repeated
\* or overtaken by draining and by read_cb calling itself.
FramesInOrder ==
    \A c \in Clients :
        LET pending == input[c] \o wire[c] IN
        open[c] /\ handshake_done[c] /\ synced[c] =>
            seen[c] \o [i \in 1 .. Len(pending) |-> pending[i].id]
                = [i \in 1 .. nsent[c] |-> i]

\* ... and none waits in the input for a read that need not come.
NothingStranded ==
    \A c \in Clients :
        running = NULL /\ open[c] /\ synced[c] => input[c] = << >>

\* Every ws_client is freed with its connection, but for one leaked by each
\* connection read_cb gives up on.
LeakPerFailure ==
    clients = Cardinality({c \in Clients : open[c]}) + failures

\* After a CLOSE frame the server closes the connection.
CloseFrameEnds == \A c \in Clients : disconnect[c] /\ open[c] ~> ~open[c]
=============================================================================
