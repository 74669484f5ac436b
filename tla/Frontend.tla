------------------------------ MODULE Frontend ------------------------------
(***************************************************************************)
(* The web frontend and its node: the page of frontends/web/js/index.js in *)
(* a browser, one WebSocket connection, and on the node's side the user    *)
(* events of src/api.c, ws_client_send and the frame branch of read_cb of  *)
(* src/websockets/websockets.c.  A frame is its header's bytes, written    *)
(* and read by FrameCodec, with a payload known by its length and content. *)
(*                                                                         *)
(* WsApi has the connections and how reads cut them; here there is one     *)
(* connection at a time, in order, and a read brings whole frames.         *)
(***************************************************************************)
EXTENDS FrameCodec

CONSTANTS
    Names,       \* user names, none of them empty: the page submits no other
    NameLen,     \* their lengths, as JSON writes them
    Throws,      \* the names that make querySelector throw, as a quote does
    Matched,     \* whose items the selector made of each other name matches
    ConnectLens, \* the lengths of a connect request
    MaskKey,     \* the browser's masking key
    MaxEvents,   \* bound: user events of the node
    MaxLoads     \* bound: times the page is loaded

NoName == "no name"

ASSUME FrontendAssumption ==
    /\ NoName \notin Names
    /\ NameLen \in [Names -> Nat]
    /\ \A name \in Names : NameLen[name] + 36 < FarLength
    /\ Throws \subseteq Names /\ Matched \in [Names \ Throws -> SUBSET Names]
    /\ ConnectLens \subseteq 0 .. FarLength - 1
    /\ MaskKey \in [1 .. 4 -> Byte]
    /\ MaxEvents \in Nat /\ MaxLoads \in Nat \ {0}

VARIABLES
    \* the page
    members,     \* the list shown, in its order
    username,    \* the name submitted, or ""
    isConnectionScheduled,
    socket,      \* the socket's readyState
    reader,      \* the browser's place in the bytes it gets
    \* the connection
    toPage,      \* frames written by the node and not read
    toNode,      \* frames sent by the browser and not read
    \* the node
    conn,        \* the bufferevent is there
    handshake_done,
    api_user,    \* api_user_bev is this connection
    \* history
    roster,      \* the users the node has said are in the room, heard or not
    gap,         \* this page could not hear of one of them, or of a leave
    misread,     \* the node took a frame for another one
    events,      \* user events so far
    loads        \* pages loaded so far

pageVars == << members, username, isConnectionScheduled, socket, reader >>
nodeVars == << conn, handshake_done, api_user >>
vars == << pageVars, toPage, toNode, nodeVars, roster, gap, misread, events, loads >>

Types   == {"user_join", "user_leave"}
Contents == [event : Types \cup {"connect", "close code", "none"},
             username : Names \cup {NoName}]
Content(event) == [event |-> event, username |-> NoName]
Frames  == [header : Seq(Byte), content : Contents, len : Nat]

TypeOK ==
    /\ members \in Seq(Names)
    /\ username \in Names \cup {NoName}
    /\ isConnectionScheduled \in BOOLEAN
    /\ socket \in {"CONNECTING", "OPEN", "CLOSING", "CLOSED"}
    /\ reader \in {"between frames", "inside a frame", "lost"}
    /\ toPage \in Seq(Frames)
    /\ toNode \in Seq(Frames)
    /\ conn \in BOOLEAN
    /\ handshake_done \in BOOLEAN
    /\ api_user \in BOOLEAN /\ (api_user => conn /\ handshake_done)
    /\ roster \subseteq Names
    /\ gap \in BOOLEAN
    /\ misread \in BOOLEAN
    /\ events \in 0 .. MaxEvents
    /\ loads \in 1 .. MaxLoads

\* The page is loaded and its first line connects.
Init ==
    /\ members = << >>
    /\ username = NoName
    /\ isConnectionScheduled = FALSE
    /\ socket = "CONNECTING"
    /\ reader = "between frames"
    /\ toPage = << >>
    /\ toNode = << >>
    /\ conn = TRUE
    /\ handshake_done = FALSE
    /\ api_user = FALSE
    /\ roster = {}
    /\ gap = FALSE
    /\ misread = FALSE
    /\ events = 0
    /\ loads = 1

-----------------------------------------------------------------------------
(* The node *)

\* ws_client_send: a header, for which ws_calc_frame_size left room, and the
\* payload behind it; 1 is returned if the two sizes differ.
SizesAgree(opcode, len) ==
    Len(ws_make_frame(opcode, len)) = ws_calc_frame_size(len)

ws_client_send(opcode, content, len) ==
    toPage' = Append(toPage, [header |-> ws_make_frame(opcode, len),
                              content |-> content, len |-> len])

\* yyjson's {"event":"user_join","username":"..."}, and one more for a leave.
JsonLen(type, name) == NameLen[name] + (IF type = "user_join" THEN 35 ELSE 36)

\* The user is in the room, or has left it, whoever hears of it.
RosterAfter(type, name) ==
    IF type = "user_join" THEN roster \cup {name} ELSE roster \ {name}

\* Sent to the user behind the API; or refused, for want of a user, of memory
\* for the JSON or for the frame, or by libevent.
vcmp_api_event_user(type, name) ==
    LET len == JsonLen(type, name) IN
    /\ events < MaxEvents
    /\ events' = events + 1
    /\ roster' = RosterAfter(type, name)
    /\ \/ /\ api_user
          /\ IF SizesAgree(WS_OPCODE_TEXT, len)
             THEN ws_client_send(WS_OPCODE_TEXT,
                                 [event |-> type, username |-> name], len)
             ELSE UNCHANGED toPage
          /\ UNCHANGED gap
       \/ gap' = TRUE /\ UNCHANGED toPage
    /\ UNCHANGED << pageVars, toNode, nodeVars, misread, loads >>

\* The handshake's answer goes out and accept_cb makes this the user.
Accept ==
    /\ conn
    /\ ~handshake_done
    /\ handshake_done' = TRUE
    /\ api_user' = TRUE
    /\ UNCHANGED << pageVars, toPage, toNode, conn, roster, gap, misread, events,
                    loads >>

\* A slip: the user stays the user.
close_cb_Kept == UNCHANGED api_user
close_cb == api_user' = FALSE

\* read_cb on one frame.  A CLOSE is answered with a header that announces
\* the length of its payload, and nothing behind it; of anything else, the
\* API only logs.  A frame without a mask frees the bufferevent.  Of a length
\* misread (misread), what is unmasked or drained then is not followed.
read_cb ==
    LET sent  == Head(toNode)
        frame == ws_parse_frame(sent.header)
    IN /\ conn /\ handshake_done
       /\ toNode # << >>
       /\ toNode' = Tail(toNode)
       /\ conn' = (frame # Malformed)
       /\ misread' = \/ misread
                     \/ frame = Malformed
                     \/ frame.size # Len(sent.header) \/ frame.len # sent.len
                     \/ frame.key # MaskKey \/ frame.fin # 1
       /\ IF frame # Malformed /\ frame.opcode = WS_OPCODE_CLOSE
          THEN /\ close_cb
               /\ toPage' = Append(toPage,
                      [header |-> ws_make_frame(frame.opcode, frame.len),
                       content |-> Content("none"), len |-> 0])
          ELSE UNCHANGED << toPage, api_user >>
       /\ UNCHANGED << pageVars, handshake_done, roster, gap, events, loads >>

\* The browser has closed the connection, and the node has read what came
\* before that.
event_cb ==
    /\ conn
    /\ socket = "CLOSED"
    /\ toNode = << >> \/ ~handshake_done
    /\ conn' = FALSE
    /\ close_cb
    /\ toPage' = << >>
    /\ toNode' = << >>
    /\ UNCHANGED << pageVars, handshake_done, roster, gap, misread, events, loads >>

\* The process ends and is started again.  What it had not sent is lost, and
\* the new one knows of nobody.
NodeEnds ==
    /\ conn
    /\ conn' = FALSE
    /\ api_user' = FALSE
    /\ toPage' = << >>
    /\ toNode' = << >>
    /\ roster' = {}
    /\ UNCHANGED << pageVars, handshake_done, gap, misread, events, loads >>

-----------------------------------------------------------------------------
(* The page *)

\* What querySelector finds with the raw name between the quotes of a selector.
\* A name with a backslash there is read as another one, and a quote ends it:
\* the selector is then one for other items, or none at all and the call throws.
existingMember(name) == { i \in 1 .. Len(members) : members[i] \in Matched[name] }

\* An exception leaves the list as it is: parseData catches it, and nothing
\* is left to do in the listener of the click.

\* A slip: the name is added whether it is there or not.
addMember_Again(name) == IF name \in Throws THEN members ELSE Append(members, name)
addMember(name) ==
    IF name \in Throws \/ existingMember(name) # {} THEN members
    ELSE Append(members, name)

removeMember(name) ==
    IF name \in Throws \/ existingMember(name) = {} THEN members
    ELSE RemoveAt(members, Min(existingMember(name)))

parseData(content) ==
    members' = IF content.event = "user_join" THEN addMember(content.username)
               ELSE removeMember(content.username)

Open ==
    /\ socket = "CONNECTING"
    /\ handshake_done
    /\ socket' = "OPEN"
    /\ UNCHANGED << members, username, isConnectionScheduled, reader, toPage,
                    toNode, nodeVars, roster, gap, misread, events, loads >>

\* "close" removes a member called "You", which is nobody's name here.
Close == socket' = "CLOSED" /\ UNCHANGED members

\* The browser reads the bytes of one frame, of which the page hears while
\* its socket is open.  A header that announces more than follows leaves it
\* inside that frame; bytes that come then, and a header it reads differently,
\* lose it.
Read ==
    LET frame == Head(toPage)
        head  == ReadHeader(frame.header)
        whole == /\ reader = "between frames"
                 /\ head.size = Len(frame.header)
                 /\ head.len = frame.len
        cut   == /\ reader = "between frames"
                 /\ head.size = Len(frame.header)
                 /\ head.len > frame.len
    IN /\ socket \in {"OPEN", "CLOSING"}
       /\ toPage # << >>
       /\ toPage' = Tail(toPage)
       /\ reader' = IF whole THEN reader
                    ELSE IF cut THEN "inside a frame" ELSE "lost"
       /\ \/ /\ whole /\ head.opcode = WS_OPCODE_TEXT /\ socket = "OPEN"
             /\ parseData(frame.content)
             /\ UNCHANGED socket
          \/ whole /\ head.opcode = WS_OPCODE_CLOSE /\ Close
          \/ /\ ~whole \/ (head.opcode = WS_OPCODE_TEXT /\ socket = "CLOSING")
             /\ UNCHANGED << members, socket >>
       /\ UNCHANGED << username, isConnectionScheduled, toNode, nodeVars,
                       roster, gap, misread, events, loads >>

Send(opcode, content, len) ==
    toNode' = Append(toNode, [header |-> ClientHeader(opcode, len, MaskKey),
                              content |-> content, len |-> len])

\* A click with a message, a host and a port.  isConnected is FALSE and
\* nothing sets it, nor resets isConnectionScheduled.
SendButton ==
    /\ socket = "OPEN"
    /\ ~isConnectionScheduled
    /\ isConnectionScheduled' = TRUE
    /\ \E len \in ConnectLens : Send(WS_OPCODE_TEXT, Content("connect"), len)
    /\ UNCHANGED << members, username, socket, reader, toPage, nodeVars, roster,
                    gap, misread, events, loads >>

SubmitUsername(name) ==
    /\ username = NoName
    /\ username' = name
    /\ members' = addMember(name)
    /\ UNCHANGED << isConnectionScheduled, socket, reader, toPage, toNode,
                    nodeVars, roster, gap, misread, events, loads >>

\* The frontend closes its socket, with a code or without one.
StartClosing ==
    /\ socket = "OPEN"
    /\ socket' = "CLOSING"
    /\ \/ Send(WS_OPCODE_CLOSE, Content("none"), 0)
       \/ Send(WS_OPCODE_CLOSE, Content("close code"), 2)
    /\ UNCHANGED << members, username, isConnectionScheduled, reader, toPage,
                    nodeVars, roster, gap, misread, events, loads >>

\* The browser gives the connection up: its answer did not come in time, it
\* cannot make sense of what it reads, or the node closed it.
GiveUp ==
    /\ socket # "CLOSED"
    /\ socket = "CLOSING" \/ reader = "lost" \/ ~conn
    /\ Close
    /\ UNCHANGED << username, isConnectionScheduled, reader, toPage, toNode,
                    nodeVars, roster, gap, misread, events, loads >>

\* The page is loaded again.  Who is in the room by then it will not hear.
Reload ==
    /\ loads < MaxLoads
    /\ socket = "CLOSED"
    /\ ~conn
    /\ loads' = loads + 1
    /\ members' = << >>
    /\ username' = NoName
    /\ isConnectionScheduled' = FALSE
    /\ socket' = "CONNECTING"
    /\ reader' = "between frames"
    /\ toPage' = << >>
    /\ toNode' = << >>
    /\ conn' = TRUE
    /\ handshake_done' = FALSE
    /\ gap' = (roster # {})
    /\ UNCHANGED << api_user, roster, misread, events >>

Next ==
    \/ \E type \in Types, name \in Names : vcmp_api_event_user(type, name)
    \/ Accept \/ read_cb \/ event_cb \/ NodeEnds
    \/ Open \/ Read \/ SendButton \/ StartClosing \/ GiveUp \/ Reload
    \/ \E name \in Names : SubmitUsername(name)

Spec == Init /\ [][Next]_vars

-----------------------------------------------------------------------------
(* Properties *)

\* Each end finds the other's frames where they begin, at every length: the
\* node never takes a frame for another, and the browser is never lost.  It
\* is left waiting inside a frame by the answer to a CLOSE with a payload, and
\* then no frame follows, because the API forgets the user first.
StreamsInSync ==
    /\ ~misread
    /\ reader # "lost"
    /\ reader = "inside a frame" => toPage = << >> /\ ~api_user

\* The names looked for as themselves: a name whose selector matches its own
\* items, and a plain one, which matches no others and is matched by none.
FindsItself(name) == name \notin Throws /\ name \in Matched[name]
PlainNames ==
    { name \in Names \ Throws :
          /\ Matched[name] = {name}
          /\ \A other \in Names \ (Throws \cup {name}) : name \notin Matched[other] }

Shown(name) == \E i \in 1 .. Len(members) : members[i] = name

\* What the page shows, once it has read what was sent, is who is in the room,
\* of those with plain names, if it is connected and could hear of all of them;
\* but for the page's own name, which an event about a user of that name may
\* take away.  No name is shown twice whose selector finds it, and none that
\* makes querySelector throw is shown at all.
MembersFollowRoom ==
    socket = "OPEN" /\ conn /\ toPage = << >> /\ ~gap =>
        /\ \A name \in PlainNames \ {username} : Shown(name) <=> name \in roster
        /\ \A i, j \in 1 .. Len(members) :
               FindsItself(members[i]) /\ members[i] = members[j] => i = j
        /\ \A name \in Throws : ~Shown(name)
=============================================================================
