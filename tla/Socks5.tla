------------------------------- MODULE Socks5 -------------------------------
(***************************************************************************)
(* The SOCKS5 client of src/socks5.c: one connection through a proxy, from *)
(* the context its user makes to the callbacks the user is given.          *)
(*                                                                         *)
(* The client, its user and the proxy are three actors.  libevent runs one *)
(* callback at a time; the user's callbacks run inside them, and the user  *)
(* may free the bufferevent there.  wire holds the proxy's bytes not yet   *)
(* read; a read takes any number of them.  The last seven bytes of a reply *)
(* are one here.  Of what happens after memory was misused only what a     *)
(* callback on a freed context may tell the user is followed.              *)
(***************************************************************************)
EXTENDS Integers, Sequences

CONSTANTS
    NameLens, \* lengths of the host names asked for
    MaxData,  \* bound: bytes the destination sends
    MaxTold   \* bound: events told within which a freed context is followed

ASSUME Socks5Assumption ==
    /\ NameLens \subseteq Nat \ {0}
    /\ MaxData \in Nat
    /\ MaxTold \in Nat

VARIABLES
    destination, \* what the context was made for
    field,       \* its two pointers, one of which its constructor leaves unset
    heap,        \* blocks of the context allocated and not freed
    bev,         \* the bufferevent
    reading,     \* EV_READ is enabled
    writing,     \* EV_WRITE is enabled
    stage,       \* s5_ctx->stage
    output,      \* the message in the output buffer
    request,     \* the request written
    input,       \* bytes in the input buffer
    wire,        \* bytes the proxy has sent and nobody has read
    proxy,       \* how far the proxy has come
    ndata,       \* bytes the destination has sent
    told,        \* events the user's callback was given
    received,    \* bytes the user has read
    short,       \* history: read_cb looked at bytes that had not arrived
    whole,       \* history: each read of the handshake was of one message
    broken,      \* history: the user freed, or kept, what it should not have
    misused      \* a freed or unset pointer was used

context == << destination, field >>
outcome == << heap, bev, reading, writing, told, broken, misused >>
buffers == << output, input, wire >>
others  == << proxy, ndata >>
history == << short, whole >>

vars == << context, outcome, stage, buffers, request, others, received, history >>

Pointers  == {"NULL", "set", "wild"}
Blocks    == {"ctx", "hostname", "ipv4_addr", "lost_ipv4"}
Stages    == {"unset", "IDENT", "REQUEST", "CONNECTED"}
Kinds     == {"none", "ipv4", "name"}
Proxies   == {"listening", "ident", "method", "request", "granted", "refused"}
NoRequest == [kind |-> "none", from |-> "NULL", announced |-> 0, bytes |-> 0]

VERSION     == 5
NO_AUTH     == 0
SUCCEEDED   == 0
RESERVED    == 0
MethodLen   == 2
ReplyLen    == 4
Destined(i) == 100 + i

TypeOK ==
    /\ destination \in [kind : Kinds, len : NameLens \cup {0, 4}]
    /\ field \in [{"hostname", "ipv4_addr"} -> Pointers]
    /\ heap \in SUBSET Blocks
    /\ bev \in {"none", "connecting", "open", "freed"}
    /\ reading \in BOOLEAN /\ writing \in BOOLEAN
    /\ stage \in Stages
    /\ output \in {"none", "ident", "request", "app"}
    /\ request \in [kind : Kinds, from : Pointers, announced : 0 .. 255,
                    bytes : Nat]
    /\ input \in Seq(Nat) /\ wire \in Seq(Nat) /\ received \in Seq(Nat)
    /\ proxy \in Proxies
    /\ ndata \in 0 .. MaxData
    /\ told \in Seq({"CONNECTED", "ERROR", "EOF"})
    /\ short \in BOOLEAN /\ whole \in BOOLEAN
    /\ broken \in BOOLEAN /\ misused \in BOOLEAN

Init ==
    /\ destination = [kind |-> "none", len |-> 0]
    /\ field = [f \in {"hostname", "ipv4_addr"} |-> "NULL"]
    /\ heap = {}
    /\ bev = "none" /\ reading = FALSE /\ writing = FALSE
    /\ stage = "unset"
    /\ output = "none" /\ input = << >> /\ wire = << >>
    /\ request = NoRequest
    /\ proxy = "listening" /\ ndata = 0
    /\ told = << >> /\ received = << >>
    /\ short = FALSE /\ whole = TRUE
    /\ broken = FALSE /\ misused = FALSE

Live == "ctx" \in heap

\* A callback with a context to run on.
Running == bev = "open" /\ Live /\ ~misused

-----------------------------------------------------------------------------
(* The context.  malloc leaves in the unset pointer what was there before.  *)

New(kind, len, own) ==
    /\ destination.kind = "none"
    /\ destination' = [kind |-> kind, len |-> len]
    /\ \E before \in {"NULL", "wild"} :
          field' = [f \in DOMAIN field |-> IF f = own THEN "set" ELSE before]
    /\ heap' = heap \cup {"ctx", own}
    /\ UNCHANGED << bev, reading, writing, told, broken, misused, stage,
                    buffers, request, others, received, history >>

socks5_ctx_new_hostname == \E len \in NameLens : New("name", len, "hostname")
socks5_ctx_new_ipv4     == New("ipv4", 4, "ipv4_addr")

\* An address inet_pton refuses: the context is freed, the address is not.
NewIpv4Fails ==
    /\ destination.kind = "none"
    /\ heap' = heap \cup {"lost_ipv4"}
    /\ UNCHANGED << context, bev, reading, writing, told, broken, misused,
                    stage, buffers, request, others, received, history >>

\* A slip: the address is not freed.
socks5_ctx_free_KeepsAddress ==
    /\ heap' = heap \ {"ctx", "hostname"}
    /\ misused' = \E f \in DOMAIN field : field[f] = "wild"

socks5_ctx_free ==
    /\ heap' = heap \ ({"ctx"} \cup {f \in DOMAIN field : field[f] = "set"})
    /\ misused' = \E f \in DOMAIN field : field[f] = "wild"

-----------------------------------------------------------------------------
(* Ends of a connection *)

bufferevent_free ==
    /\ bev' = "freed"
    /\ reading' = FALSE /\ writing' = FALSE
    /\ output' = "none" /\ input' = << >> /\ wire' = << >>

\* A slip of the failures below: the bufferevent is not freed.
Fail_BevKept ==
    /\ told' = Append(told, "ERROR")
    /\ socks5_ctx_free
    /\ input' = << >>
    /\ UNCHANGED << broken, bev, reading, writing, output, wire >>

\* read_cb's failures, and that of writing the ident: the user is told ERROR,
\* then the bufferevent and the context are freed.  A user that frees the
\* bufferevent in its callback makes that the second time.
Fail ==
    /\ told' = Append(told, "ERROR")
    /\ bufferevent_free
    /\ \/ socks5_ctx_free /\ UNCHANGED broken
       \/ broken' = TRUE /\ misused' = TRUE /\ UNCHANGED heap

\* What the user does with the bufferevent when event_cb tells it of a
\* failure: freeing it is right, and keeping it leaves what is still enabled.
UserFreesOrKeeps(read, write) ==
    \/ bufferevent_free /\ UNCHANGED broken
    \/ /\ bev' = "open" /\ reading' = read /\ writing' = write
       /\ broken' = TRUE
       /\ wire' = << >>
       /\ UNCHANGED << output, input >>

\* A slip of event_cb's last branch: the context is kept.
EventFails_ContextKept(event, read, write) ==
    /\ told' = Append(told, event)
    /\ UNCHANGED << heap, misused >>
    /\ UserFreesOrKeeps(read, write)

\* event_cb's last branch: the user is told of the same ERROR, or of EOF, and
\* the context alone is freed.
EventFails(event, read, write) ==
    /\ told' = Append(told, event)
    /\ socks5_ctx_free
    /\ UserFreesOrKeeps(read, write)

-----------------------------------------------------------------------------
(* socks5_client_init and event_cb *)

\* Where it fails it frees the bufferevent, and the context is the user's.
socks5_client_init ==
    /\ bev = "none" /\ Live /\ ~misused
    /\ bev' = "connecting" /\ reading' = TRUE /\ writing' = TRUE
    /\ UNCHANGED << context, heap, told, broken, misused, stage, buffers,
                    request, others, received, history >>

\* BEV_EVENT_CONNECTED: offer the one method there is.
Connected ==
    /\ bev = "connecting"
    /\ \/ /\ Fail
          /\ UNCHANGED stage
       \/ /\ bev' = "open"
          /\ output' = "ident"
          /\ stage' = "IDENT"
          /\ UNCHANGED << heap, reading, writing, told, broken, misused, input,
                          wire >>
    /\ UNCHANGED << context, request, others, received, history >>

\* BEV_EVENT_ERROR and BEV_EVENT_EOF: no connection; the proxy's end of
\* stream, after all its bytes; an error of reading; one of writing.
Ended ==
    /\ ~misused
    /\ \/ bev = "connecting" /\ EventFails("ERROR", FALSE, FALSE)
       \/ Running /\ reading /\ wire = << >> /\ EventFails("EOF", FALSE, writing)
       \/ Running /\ reading /\ EventFails("ERROR", FALSE, writing)
       \/ Running /\ writing /\ output # "none" /\ EventFails("ERROR", reading, FALSE)
    /\ UNCHANGED << context, stage, request, others, received, history >>

event_cb == Connected \/ Ended

\* The user kept the bufferevent event_cb told it of, whose context is freed.
Kept == bev = "open" /\ ~Live

\* A callback on the freed context, which may still read as it did: event_cb
\* tells the user of an end again, read_cb of a failure or of CONNECTED at
\* whatever stage it finds there, or neither tells anything; write_cb tells of
\* no event.  The user may free the bufferevent when it is told.
StaleCallback ==
    /\ Kept
    /\ misused' = TRUE
    /\ \/ /\ reading \/ (writing /\ output # "none")
          /\ UNCHANGED << told, bev, reading, writing, buffers >>
       \/ /\ Len(told) < MaxTold
          /\ \/ /\ reading \/ (writing /\ output # "none")
                /\ \E event \in {"ERROR", "EOF"} : told' = Append(told, event)
             \/ /\ reading /\ wire # << >>
                /\ \E event \in {"CONNECTED", "ERROR"} : told' = Append(told, event)
          /\ \/ bufferevent_free
             \/ UNCHANGED << bev, reading, writing, buffers >>
    /\ UNCHANGED << context, heap, broken, stage, request, others, received,
                    history >>

-----------------------------------------------------------------------------
(* read_cb and write_cb *)

\* What a callback finds at position i: the byte, or what the memory behind
\* the input happens to hold.
Peek(bytes, i) == IF i <= Len(bytes) THEN {bytes[i]} ELSE {0, 1}

\* A slip: the length is not cut to the byte that announces it.
NameRequest_Wide ==
    [kind |-> "name", from |-> field["hostname"],
     announced |-> destination.len, bytes |-> destination.len]

NameRequest ==
    [kind |-> "name", from |-> field["hostname"],
     announced |-> destination.len % 256, bytes |-> destination.len]

AddressRequest ==
    [kind |-> "ipv4", from |-> field["ipv4_addr"], announced |-> 4, bytes |-> 4]

\* Two slips: the name is looked at first; nothing is written.
socks5_send_req_NameFirst ==
    /\ request' = IF field["hostname"] # "NULL" THEN NameRequest
                                                ELSE AddressRequest
    /\ output' = "request"

socks5_send_req_NotWritten == UNCHANGED << request, output >>

\* The address is asked for if there is one - read from wherever an unset
\* pointer leads - and else the name, its length announced in one byte.
socks5_send_req ==
    /\ request' = IF field["ipv4_addr"] # "NULL" THEN AddressRequest
                                                 ELSE NameRequest
    /\ output' = "request"

\* A slip of evbuffer_drain(input, len): what is looked at and no more.
Drained_Peeked(bytes) == SubSeq(bytes, 3, Len(bytes))

Drained(bytes) == << >>

Got(k)  == input \o SubSeq(wire, 1, k)
Rest(k) == SubSeq(wire, k + 1, Len(wire))

\* SOCKS5_STAGE_IDENT.  The callback fails on another version or method, or
\* when the request cannot be written.
ReadIdent(k) ==
    /\ stage = "IDENT"
    /\ short' = (short \/ Len(Got(k)) < MethodLen)
    /\ whole' = (whole /\ Len(Got(k)) = MethodLen)
    /\ \/ Fail /\ UNCHANGED << stage, request >>
       \/ /\ VERSION \in Peek(Got(k), 1)
          /\ NO_AUTH \in Peek(Got(k), 2)
          /\ socks5_send_req
          /\ stage' = "REQUEST"
          /\ input' = Drained(Got(k))
          /\ wire' = Rest(k)
          /\ UNCHANGED outcome
    /\ UNCHANGED received

\* A slip of the test of a reply: its second byte is not looked at.
Refused_ReplyIgnored(version, reply, reserved) ==
    version # VERSION \/ reserved # RESERVED

Refused(version, reply, reserved) ==
    version # VERSION \/ reserved # RESERVED \/ reply # SUCCEEDED

\* SOCKS5_STAGE_REQUEST: the reply.  Nothing follows the user's callback, so
\* that a user who frees both in it does what UserCloses does.
ReadReply(k) ==
    /\ stage = "REQUEST"
    /\ short' = (short \/ Len(Got(k)) < 3)
    /\ whole' = (whole /\ Len(Got(k)) = ReplyLen)
    /\ \E version \in Peek(Got(k), 1), reply \in Peek(Got(k), 2),
          reserved \in Peek(Got(k), 3) :
       \/ /\ Refused(version, reply, reserved)
          /\ Fail
          /\ UNCHANGED stage
       \/ /\ ~Refused(version, reply, reserved)
          /\ input' = Drained(Got(k))
          /\ wire' = Rest(k)
          /\ stage' = "CONNECTED"
          /\ told' = Append(told, "CONNECTED")
          /\ UNCHANGED << heap, bev, reading, writing, broken, misused, output >>
    /\ UNCHANGED << request, received >>

\* SOCKS5_STAGE_CONNECTED: the user's callback, which takes all there is.
ReadData(k) ==
    /\ stage = "CONNECTED"
    /\ received' = received \o Got(k)
    /\ input' = << >>
    /\ wire' = Rest(k)
    /\ UNCHANGED << outcome, stage, output, request, history >>

read_cb ==
    /\ Running /\ reading
    /\ \E k \in 1 .. Len(wire) : ReadIdent(k) \/ ReadReply(k) \/ ReadData(k)
    /\ UNCHANGED << context, others >>

\* The output goes out, and with it the proxy has what it waits for; the
\* user's callback is run at CONNECTED.
write_cb ==
    /\ Running /\ writing
    /\ output # "none"
    /\ output' = "none"
    /\ proxy' = IF output \in {"ident", "request"} THEN output ELSE proxy
    /\ UNCHANGED << context, outcome, stage, input, wire, request, ndata,
                    received, history >>

-----------------------------------------------------------------------------
(* The user.  It writes when connected, and closes by freeing both; what it  *)
(* does when told of a failure is in Fail and EventFails.                    *)

UserWrites ==
    /\ bev = "open" /\ ~misused
    /\ stage = "CONNECTED"
    /\ output = "none"
    /\ output' = "app"
    /\ UNCHANGED << context, outcome, stage, input, wire, request, others,
                    received, history >>

UserCloses ==
    /\ Running
    /\ stage = "CONNECTED"
    /\ bufferevent_free
    /\ socks5_ctx_free
    /\ UNCHANGED << context, told, broken, stage, request, others, received,
                    history >>

\* socks5_client_init failed, and the user gives up.
UserGivesUp ==
    /\ bev = "none" /\ Live /\ ~misused
    /\ socks5_ctx_free
    /\ UNCHANGED << context, bev, reading, writing, told, broken, stage,
                    buffers, request, others, received, history >>

-----------------------------------------------------------------------------
(* The proxy answers each message of the client once, and then passes on     *)
(* what the destination sends.                                               *)

ProxyAnswers ==
    /\ bev = "open" /\ ~misused
    /\ \/ /\ proxy = "ident"
          /\ \E version \in {4, VERSION}, method \in {NO_AUTH, 255} :
                wire' = wire \o << version, method >>
          /\ proxy' = "method"
       \/ /\ proxy = "request"
          /\ \E reply \in {SUCCEEDED, 1} :
                /\ wire' = wire \o << VERSION, reply, RESERVED, 127 >>
                /\ proxy' = IF reply = SUCCEEDED THEN "granted" ELSE "refused"
    /\ UNCHANGED << context, outcome, stage, output, input, request, ndata,
                    received, history >>

DestinationSends ==
    /\ bev = "open" /\ ~misused
    /\ proxy = "granted"
    /\ ndata < MaxData
    /\ ndata' = ndata + 1
    /\ wire' = Append(wire, Destined(ndata + 1))
    /\ UNCHANGED << context, outcome, stage, output, input, request, proxy,
                    received, history >>

-----------------------------------------------------------------------------
Next ==
    \/ socks5_ctx_new_hostname
    \/ socks5_ctx_new_ipv4
    \/ NewIpv4Fails
    \/ socks5_client_init
    \/ event_cb
    \/ StaleCallback
    \/ read_cb
    \/ write_cb
    \/ UserWrites
    \/ UserCloses
    \/ UserGivesUp
    \/ ProxyAnswers
    \/ DestinationSends

Spec == Init /\ [][Next]_vars

\* The loop reports a connection made, readable and writable sockets; the
\* proxy answers.
Fairness ==
    WF_vars(Connected) /\ WF_vars(read_cb) /\ WF_vars(write_cb)
                      /\ WF_vars(ProxyAnswers)

FairSpec == Spec /\ Fairness

-----------------------------------------------------------------------------
(* Properties *)

\* A pointer of the context that was never set and does not look like NULL.
Unset == \E f \in DOMAIN field : field[f] = "wild"

\* Memory is used after it was freed only for two reasons: the unset pointer
\* of the context was not NULL by chance, or the user freed the bufferevent
\* on an ERROR of read_cb or kept it on one of event_cb, which look the same.
MisuseExplained == misused => broken \/ Unset

\* Without those, context and bufferevent live and end together, and all
\* that the constructor allocated goes with them.
FreedTogether ==
    ~broken /\ ~misused =>
        /\ bev \in {"connecting", "open"} => Live
        /\ bev = "freed" => heap \subseteq {"lost_ipv4"}

\* What the proxy is asked for is what the context was made for, and the
\* length announced is that of the name - for an address whatever the unset
\* pointer holds, for a name if it is NULL and the length fits a byte.
RequestNamesDestination ==
    request # NoRequest
        /\ (destination.kind = "name" => ~Unset /\ destination.len < 256)
    => /\ request.kind = destination.kind
       /\ request.from = "set"
       /\ request.announced = request.bytes

\* CONNECTED is told only when the proxy granted the request, unless a piece
\* too short to tell came alone, or memory was misused.
ConnectedMeansGranted ==
    (\E i \in 1 .. Len(told) : told[i] = "CONNECTED") /\ ~short /\ ~misused
        => proxy = "granted"

\* The user reads the destination's bytes, all and only those and in order,
\* when each answer of the proxy came in one read of its own: the drains of
\* the handshake leave nothing of an answer and take nothing else.
UserReadsDestination ==
    whole /\ Running /\ stage = "CONNECTED" =>
        received \o input \o wire = [i \in 1 .. ndata |-> Destined(i)]

A == INSTANCE Attempt WITH asked <- bev # "none", kept <- Kept

\* The user hears CONNECTED at most once, one failure at most and nothing
\* after it, unless it keeps the bufferevent that event_cb leaves to it,
\* whose callbacks run on the freed context: every step of the client is one
\* of Attempt or tells nothing.
ImplementsAttempt == A!Spec

\* Whoever asked for a connection hears of its outcome, whatever pieces the
\* proxy's answers come in.
OutcomeTold == bev = "connecting" ~> told # << >>
=============================================================================
