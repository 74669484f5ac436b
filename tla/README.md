# VCMP in TLA+

A verification project for the VCMP node: a C program in which one libevent
loop serves other nodes (the *peer listener*) and a web frontend (the
*WebSocket server* and the *API* behind it). The modules here model the
callbacks of that loop, TLC checks them on small instances, and TLAPS proves the
main safety properties for every value of the constants. Paths below are
relative to the repository's `vcmp/` directory.

## 1. The system

Everything runs on one thread. `main.c` reads `config.ini`, creates an
`event_base`, starts both servers on it and dispatches. A libevent callback runs
to its end before the next one starts, so concurrency is the interleaving of
whole callbacks, of remote programs, and of the bytes TCP delivers between them.
Nothing is stored on disk: a restart begins anew, and there is no recovery.

| component | state it keeps | operations | what makes it correct |
|---|---|---|---|
| Peer listener `src/listener.c` | per connection: `stage`, `authenticity`, `pubkey`, the bufferevent's input | `accept_conn_cb`, `read_cb` (a switch on the stage), `event_cb` | a peer is READY only after it returned its own challenge; stages in order; packet boundaries never lost; everything allocated is freed once |
| Peer packets `protocol.h`, `src/protocol.c` | none | header, handshake and data constructors | lengths a receiver can account for |
| RSA, random data `src/rsa.c`, `util/randdata.c` | the key pair | encrypt, decrypt, DER import and export, `rand_array` | decrypt undoes encrypt |
| WebSocket server `src/websockets/websockets.c` | per client: `handshake_done`, `disconnect`; the input buffer; the registered callbacks | `accept_conn_cb`, `read_cb`, `event_cb`, `ws_client_send` | every frame handed over once and in order; `ws_client` freed with its connection; CLOSE ends it |
| API `src/api.c` | `api_user_bev`, the one frontend that receives events | `accept_cb`, `close_cb`, `read_cb`, `vcmp_api_event_user` | the slot names a connected frontend, and one whenever there is one |
| Frame codec `src/websockets/frame.c` | none | parse, make, header size | sizes agree at 125/126 and 65535/65536; the bytes of a length are in network order; both ends find every frame where it begins |
| Handshake parser `src/websockets/handshake.c` | header table | parse, look up, free | the key answered to is the client's; bounded copies; every entry freed |
| SOCKS5 client `src/socks5.c` | `stage`, address, the user's callbacks | connect by IPv4 address or name; `read_cb`, `event_cb` | context and bufferevent freed once; a reply in pieces |
| INI parser `lib/ini.c` | parse state, `tmp[256]`, the lists of pairs and sections | parse a file, look a value up | never past a buffer; every key found with its own value |
| Start-up `main.c`, the `*_init` functions | base, strings, ports, both servers | initialise, dispatch, tear down | serves where the file says; a failing step frees what there is, once; a failed accept ends the process |
| Web frontend `frontends/web/js/index.js` | member list, user name, two flags, the socket | connect, send, receive events | the list shown is who is in the room |
| Rooms `docs/ROOMS.md` | - | - | described, not implemented |

How they interact: the peer listener and the WebSocket server share only the
event base. The WebSocket server calls the API through the three function
pointers of `ws_ctx_t`; the API writes to a frontend through
`ws_client_send(api_user_bev, ...)`. Nothing calls `vcmp_api_event_user` or the
SOCKS5 client yet, so no event of a peer reaches a frontend.

What is hard here: TCP splits and joins packets while `read_cb` looks at the
whole input; nineteen rejection paths free by hand; a pointer to a bufferevent
is kept outside the object that frees it; `read_cb` of the WebSocket server runs
itself; a peer can send any packet at any stage; several connections share one
key pair and one user slot; the configuration and the handshake are parsed in
memory that nothing terminates or clears; `goto error` passes over initialisers. `PROJECT.json` lists each hazard at its line.

## 2. Modules

| module | what it is |
|---|---|
| `PeerProtocol` | packets, their sizes and identity check, the RSA calls (constant operators) |
| `PeerAuth` | what the handshake promises of each connection (abstract) |
| `PeerListener` | the listener: state, callbacks, remote nodes, properties; implements `PeerAuth` |
| `MCPeerListener` | its constants for TLC, three configurations |
| `PeerListenerProofs` | theorems and proofs |
| `WsApi` | WebSocket server and API composed |
| `MCWsApi` | its constants for TLC, three configurations |
| `WsApiProofs` | theorems and proofs |
| `Attempt` | what the user of the SOCKS5 client is promised (abstract) |
| `Socks5` | the client, its user and the proxy; implements `Attempt` |
| `MCSocks5`, `Socks5Proofs` | constants for TLC; theorems and proofs |
| `IniParser` | the configuration parser and the lists it fills |
| `TextLemmas` | lemmas that several of the proofs share |
| `IniParserProofs` | theorems and proofs |
| `Startup` | `main` and the initialisers, on `IniParser` |
| `MCStartup`, `StartupProofs` | constants for TLC, two configurations; theorems and proofs |
| `WsHandshake` | the request of a frontend, parsed and answered |
| `MCWsHandshake`, `WsHandshakeProofs` | constants for TLC; theorems and proofs |
| `FrameCodec` | frames as bytes, written and read by both ends (constant operators) |
| `Frontend` | the page, its connection and the node's user events, on `FrameCodec` |
| `MCFrontend`, `FrontendProofs` | constants for TLC, two configurations; theorems and proofs of it and of `FrameCodec` |

An operator named `X_Something` in front of `X` is a plausible single slip of
`X` (a forgotten drain, a callback not called). No action uses it; substituted
for `X` it breaks the property `PROJECT.json` pairs it with, which shows that the
property depends on that code.

### 2.1 Peer listener

*State.* `conn`, `stage`, `authenticity` are the connection and the fields of
`vcmp_peer_t`. `owned` holds the objects allocated for a connection (socket,
bufferevent, peer, remote key); `free`, `bufferevent_free` and `EVP_PKEY_free`
take them out. The input is `stream` (packets sent and not drained) with two byte
counts: `buffered`, in the bufferevent's input, and `wire`, still on the way.
`hsInit` and `challenge` are what was written to the remote node. `cause` and
`echo` are history.

*Actions.* `accept_conn_cb` and `AcceptFails` (its two early returns);
`event_cb`, which only logs; `read_cb`, one disjunct per `case` of the switch
plus `ReadShort` for the length check before it. A read takes any number of the
bytes on the wire and the callback sees all the input, so packets arrive whole,
cut or joined. Each stage's guards are the code's comparisons in their order
(`len <= sizeof(struct)`, `len != sizeof + keylen`, version, type, key); each
rejection releases what that path releases. Allocation, export and write failures
are the `"resource"` rejections. `RemoteSend` is the other node. An honest one
follows the README's handshake; the dialling side is not in the repository.
The others send any packet at any time, with one restriction that RSA gives:
they know the plaintext of a challenge only if a challenge to one of them was
written in full.

*Two parameters stand for lines whose value decides everything.*
`DecryptCall` is the EVP call that produces the plaintext in `rsa_decrypt`
(`rsa.c:124` has `EVP_PKEY_encrypt`), `ChallengeWrite` the number of bytes given
to `bufferevent_write` (`listener.c:184` has `sizeof(buf)`, a pointer's 8). With
the code's values nobody ever becomes READY, as theorem `AsBuiltNobodyReady`
states; every property about READY would then be vacuous. The passing runs
therefore take the values these lines evidently mean to have, the run
`peer_challenge_cut` takes the code's, and the other theorems hold for both.

*Abstracted.* Keys, UUIDs and timestamps; a wrong magic and a wrong version
are one case; libevent's chains (see 6).

*Abstraction to `PeerAuth`.* A connection is unproven until the challenge is
written, challenged while the peer is compared with it, proven when READY; its
secret is the nonce of that challenge and its answer what the peer returned. The
abstract node has no packets, no stages but these three and no way back, so the
refinement says that no interleaving of reads, rejections and other connections
changes a secret or proves a node by anything but its own.

### 2.2 WebSocket server and API

*State.* A client is the address of its bufferevent, so an address can be used
again after it is freed, as `malloc` may do. `open`, `handshake_done`,
`disconnect` and `api_user_bev` are the code's; `clients` counts `ws_client`
objects; `running` is the client whose `read_cb` is on the stack. `wire` and
`input` hold messages, or the `"head"` and `"tail"` of one that a read cut.
`seen`, `synced`, `overlapped`, `failures` and `dropped` are history.

*Actions.* `accept_conn_cb`; `event_cb` with the API's `close_cb`; `Deliver`
(the loop reads and calls `read_cb`); `ReadHandshake` with `accept_cb`;
`ReadFrame`, one step per frame, because `read_cb` calls itself through
`bufferevent_trigger` while two or more bytes are left and no other callback runs
until it returns; `ReadMiddle`, when the front of the input is the middle of a
message, whose bytes can look like any frame of any length. `Fail` is the path
of every failure: it frees the bufferevent and leaves the `ws_client`.

*Clients.* One request, and frames after the answer, as browsers do; programs
may leave out the mask (which the server rejects) or the key. Opcodes other than
CLOSE behave as TEXT, since the API only logs them.

### 2.3 SOCKS5 client

*State.* One connection. `destination`, `field` and `heap` are the context: what
it was made for, its two pointers (the constructor sets one; the other is
whatever `malloc` left, `"NULL"` or `"wild"`), and its allocated blocks. `bev`,
`reading` and `writing` are the bufferevent, `output` its unsent message, `input`
and `wire` bytes. `told` and `received` are what the user was given.

*Actions.* The constructors, `socks5_client_init`, `event_cb` (`Connected`,
`Ended`), `read_cb` with a disjunct per stage, `write_cb`. A read takes any
number of bytes; `Peek` gives a byte that has not arrived any value. When told
of a failure the user frees the bufferevent or does not. In `Fail` (`read_cb`,
which frees it itself) doing so is wrong; in `EventFails` (`event_cb`, which does
not) not doing so is; `broken` remembers it. `StaleCallback` is any callback of a
bufferevent kept without its context: it uses freed memory, which may still read
as it did, so it may tell the user of another failure, or of CONNECTED, or of
nothing. Nothing else is followed after `misused`. The user and the proxy are external: the proxy answers each message once, with a
SOCKS5 answer, a refusal or another version.

*Abstraction to `Attempt`.* `asked` is `bev # "none"`, `told` is itself, and
`kept` says that the bufferevent is open without a context: from then until it is
freed, `Attempt` promises nothing.

### 2.4 INI parser and start-up

*`IniParser`: state.* `mem` is the block the file was read into and the bytes
that lie behind it, since nothing terminates the block; `bufp` indexes it.
`state`, `current_section`, `current_key` are the parser's, `cfg` the lists of
global pairs and of sections. `outcome` says how the parse ended. *Actions.*
`Ready`, `Comment`, `SectionName`, `Key` and `Value` are the cases of the switch,
each with its inner loops and the `bufp++` behind it; `Done` is the loop's
condition, `ini_parse_Fails` the returns before the loop. A value of `TmpSize`
characters or more overruns `tmp` ("misused"), a scan past the modelled memory is
"astray"; neither is followed. `Render` and `Meaning` say, without the parser,
how a list of lines is written and what it gives each key. *Constants.* A file is a
text with the lines it was written from, or none; `FilesAssumption` says which lines
the parser has room for (`WellFormedLine`) and that the text is those lines.

*`Startup`: state.* `pc` is the statement `main` is at. `address`, `port_str`,
`port`, `base` are its locals, `heap` the blocks and sockets, `bound` where the
sockets listen. *Actions.* `ReadConfig` takes the parser's steps; `GetValues`,
`ConvertPorts`, `event_base_new`, `vcmp_listener_init`, `ws_server_init` are the
statements in their order with their failures; `accept_error_cb` and
`DispatchReturns` end the loop; `ErrorExit` is the label `error`. The copies
`ini_get_value` makes of the four values may each fail (`uncopied`), which `main`
does not notice: it gives `strtol` a NULL. The parser's own `strdup` is taken to
succeed. `strtol` skips blanks, takes a sign and keeps to the range of a long;
`EInval` says whether it sets `errno` for text without digits, as on the BSDs and
macOS, or not, as with glibc. Because the
first `goto error` passes over the initialisers of `base` and of the port
strings, these are "unset" there, and what the label frees is not determined.

### 2.5 WebSocket handshake

*State.* `data` is what a read brought of the request, `line_begin` the parser's
place, `head` the entries, the newest first as the hash finds them. An entry is
the memory of its two arrays: `malloc` does not clear it and `strncpy` writes no
terminator, so a name or value ends where the memory happens to hold a zero.
*Actions.* One per line (`SkipFirstLine`, `AddHeader`, `Overrun`, `NoMemory`,
`EndOfHeaders`), then `Reject` and `Answer` of `read_cb`. Names are compared as
the code compares them, upper and lower case apart. *Constants.* A request is a
text with the first line and the headers it was written from; a text of any other
form has no headers. `WellFormed`, an assumption on those that have some, says
how a client writes them: no newline in a first line, no colon in a name, and no
zero in either.

### 2.6 Frame codec and frontend

`FrameCodec` has `ws_calc_frame_size`, `ws_make_frame` and `ws_parse_frame` on
bytes, numbers in network order included, and the two operations of a browser
(external, from RFC 6455): `ClientHeader` and `ReadHeader`. `HalvesKept` says
whether the two halves of a 64-bit length are written in order: on macOS they
are, which has a `htonll` of its own, and on a big-endian host; `frame.c`'s own
exchanges them on a little-endian one. Lengths of `FarLength`, a gigabyte, and
more are not told apart.

`Frontend` puts them on one connection. The page has `members`, `username`,
`isConnectionScheduled` and the socket's `readyState`; `reader` is the browser's
place in the bytes it gets. Frames carry their real header bytes and the length
of their payload, so a header that announces more than follows leaves the reader
inside the frame. The node's side is `vcmp_api_event_user` with `ws_client_send`,
`Accept`, the frame branch of `read_cb`, `event_cb`, and `NodeEnds`, the process
ended and started again. The page looks a member up with the raw name between the
quotes of a selector: `Throws` are the names for which `querySelector` throws,
which leaves the list as it is, and `Matched` says whose items the selector of
every other name matches, its own as a rule. A selector that matches something
outside the list, and the markup a name may bring into its item (`innerHTML`), are
not modelled. Names are not empty, as the page submits no other, and
the page is loaded at least once. Nothing in the repository calls
`vcmp_api_event_user` yet: the module calls it with any user at any time.
`roster` is who the node has announced; `gap` that this page could not hear
of one. Overlapping connections and cut reads are `WsApi`'s.

## 3. Runs

| run | configuration | shows |
|---|---|---|
| `peer_fragmented` | `PeerFragmented.cfg`, 426 thousand states | two nodes that send anything, in any pieces: all safety properties, and the refinement of `PeerAuth` |
| `peer_whole` | `PeerWhole.cfg`, 46 thousand states | packets arriving whole: a node that follows the handshake, beside one that does not, is never rejected and becomes READY |
| `peer_challenge_cut` | `PeerChallengeCut.cfg` | the code's two values: that node waits for ever (a finding) |
| `ws_session` | `WsSession.cfg`, 747 thousand states | frontends that come, overlap, close, go and send malformed or cut frames |
| `ws_second_tab` | `WsSecondTab.cfg` | a second tab that goes leaves a connected frontend without events (a finding) |
| `ws_close` | `WsClose.cfg` | nothing closes a connection after CLOSE (a finding) |
| `socks5` | `Socks5.cfg`, 17 thousand states | answers in any pieces, a user that frees or keeps: ownership, the request, what the user hears and reads, and the refinement of `Attempt` |
| `startup` | `Startup.cfg`, 141 thousand states | every short text and every file of the shape of `config.ini`: the parser, where the node then listens, what each way out frees |
| `startup_port` | `StartupPort.cfg` | a node that serves on a port string that is no number, with the `strtol` that sets `errno` more often (a finding) |
| `ws_handshake` | `WsHandshake.cfg`, 124 thousand states | requests of any form, cut anywhere, in any memory: the key and the entries |
| `frontend` | `Frontend.cfg`, 952 thousand states | where the halves of a length are in order (`HalvesKept`): events and requests on both sides of every change of the header's form, closes, restarts of the node, reloads of the page, and names a selector does not take literally |
| `frontend_long` | `FrontendLong.cfg` | the code's own `htonll` on a little-endian host: a frame of more than 65535 bytes is the last the two ends agree on (a finding) |

The properties, with the behaviour each is about, are commented where they are
defined. Those of the listener: `ReadyIsProven`, `RepliesMatchStage`,
`Ownership`, `LeftoverOnlyAfterVerify`, `BytesAccounted` (framing), `StageOrder`,
`HonestNeverRejected`, `HonestProgress`. Those of the frontend's side:
`SlotNamesFrontend`, `UserIsKnown`, `UserChangesHands`, `FramesInOrder`,
`NothingStranded`, `LeakPerFailure`. Those of the SOCKS5 client:
`MisuseExplained`, `FreedTogether`, `RequestNamesDestination`,
`ConnectedMeansGranted`, `UserReadsDestination`, `ImplementsAttempt`,
`OutcomeTold`. Those of the start-up: `StaysInText`, `ShortLinesFit` and
`WellFormedParsed` of the parser, `ServesAsConfigured`, `ExitsFreeOnce`,
`ServingIsComplete`, `AcceptErrorEnds`, `StartsOrExits`. Those of the handshake:
`KeyIsTheClients`, `EntriesFreed`. Those of the page: `StreamsInSync`,
`MembersFollowRoom`. `ImplementsPeerAuth` is the listener's refinement.

*Where a property has a proviso* it names the code that needs it. `Ownership`
states the leak of the remote key on short packets instead of hiding it.
`LeftoverOnlyAfterVerify` leaves out PUBKEY_WAIT and READY because the code
leaves bytes there. `HonestNeverRejected` and `HonestProgress` are claimed for
whole reads only: with fragmented reads the code does drop an honest node.
`SlotNamesFrontend` holds up to the first frame the server takes for malformed,
the one path that frees a client without `close_cb`; `UserIsKnown` also needs
that connections do not overlap, because `close_cb` forgets the user whichever
client it is called for. `FramesInOrder` and `NothingStranded` are about reads
that end where messages do. `MisuseExplained` names the two reasons memory of the
SOCKS5 client can be misused, and neither can be removed from outside: the
unset pointer is not the user's, and ERROR from `read_cb` and from `event_cb`
look alike to it. `RequestNamesDestination` needs the unset pointer to be NULL for
a name, and not for an address, because `socks5_send_req` tests the address first.
`ConnectedMeansGranted` excludes pieces shorter than what the code looks at, which
it judges by memory behind them, and any misuse of memory; and `UserReadsDestination` answers that are not
read alone, because each stage drains all of its input. The parser's properties
need `Terminated`, a last newline and a terminator that happens to lie behind the
file: without either, `bufp++` steps over the end. `ShortLinesFit` needs lines
shorter than `tmp`, because the copy of a value has no bound; `WellFormedParsed`
excludes pairs dropped for want of memory (`lost`). `ExitsFreeOnce` allows a
double or wild free only while `base` is unset, the first `goto error`.
`KeyIsTheClients` gives the whole key only for cleared memory (`clean`), and a
beginning of it otherwise; `MembersFollowRoom` needs a page that could hear of
everybody (`gap`), since a new user of the API is told of nobody who is there, and
is about names whose selectors find them and no others (`PlainNames`).
`ImplementsAttempt` promises nothing to a user that keeps the bufferevent of a
failed connection. `ServesAsConfigured` is about port strings that are numbers, and
lets `main` crash if a value is missing or was not copied. A hazard that such a
proviso leaves out has a `note` in `PROJECT.json` that says so: of it the property
says what holds otherwise, and does not catch it.

*Bounds.* Listener: two connections (cross-connection echoes need two), two
nonces (equal and different), four packets per node (one more than the handshake
has, so READY is also reached with input to come), two undrained packets (joined
packets need two). Where reads are cut anywhere the two nodes send five packets
together (`MaxTogether`): one can be challenged and the other return its
challenge, or one be READY with input to come beside another that has started;
in the runs of whole reads this bound, eight, never binds. The layout is 2, 3, 4 and 5 bytes for the real 7, 8, 11 and
35, key and ciphertext one byte: the order of the lengths is the real one, and
every cut the comparisons tell apart occurs. WebSocket: two addresses, three
connections (two overlapping and an address used again), two frames each (the
frame loop needs two), and two together from connections open at one time, as
each is read by callbacks of its own (`MaxTogether`). SOCKS5: names of 3, 255 and 256 bytes (the last that fits
the length byte, and the first that does not), two bytes of data (order and
loss); the seven last bytes of a reply, never looked at, are one; a freed context
is followed while fewer than three events were told (`MaxTold`). Start-up:
strings of 3 characters for the real 256 (shorter, as long and longer ones
occur), texts of up to 4 characters of every kind the parser tells apart and
longer ones behind a key and a section, files of two sections of two lines with a
value missing, doubled, commented out, too large, with a sign or a blank or no
number; ports below 16 for 65536 and `LONG_MAX` 20, so that a number of two digits
is cut or out of range;
three kinds of memory behind the file. Handshake: arrays of 3 bytes for 256, one or two
headers of up to 4 bytes, a cut at every byte. Frontend: names whose JSON is 125
and 126 or 65535 and 65536 bytes long, a name that throws and one whose selector is
another's, requests of those four lengths, three events (a user can join, leave and
join), two loads of the page. Symmetry: nonces and connections, or clients, in
the runs without liveness properties.

*Deadlock.* Every run says `CHECK_DEADLOCK FALSE`: the bounds end every
behaviour, once all have sent what they may and are gone. That nothing waits for
ever before that is what the liveness properties state.

*Fairness.* Weak fairness of `read_cb`: libevent reports a readable socket in
every turn of its loop until it is read. Weak fairness of an honest node's
sending: it follows the handshake. No fairness of `event_cb`, of allocation
failures or of what other nodes do. In `WsApi`, weak fairness of `Deliver` and
`read_cb` for the same reason; a client need never leave, which is what
`ws_close` turns on. In `Socks5`, weak fairness of the loop's callbacks other than
errors, and of the proxy's answers, without which nobody can promise an outcome.
In `Startup`, weak fairness of `main`: it never waits before the loop, and a loop
told to exit does so after the callback at hand. `accept` need never fail.

## 4. Proofs

Each theorem is for every value of its module's constants that satisfies the
module's assumption: for the listener every number of connections, every layout
(`LayoutAssumption`: lengths positive, structs longer than the header), every
split of the stream and both values of `DecryptCall`; `CryptoAssumption` says
that nonces, the zeroed array, other plaintexts and a null pointer differ.

`PeerListenerProofs`:

- `TypeCorrect`: type correctness, which includes that no drain takes more bytes
  than the input holds. `ReadCases` reduces `read_cb` to three shapes used by
  every later proof: a rejection, one packet taken, READY's growing input.
- `IdleCorrect` (a lemma): a connection not accepted yet is as `Init` made it.
  The invariants below are not inductive without it, since `accept_conn_cb` sets
  only the fields the code sets.
- `RepliesCorrect`: the stage determines what was sent, and the challenge is of
  the array the peer is compared with.
- `OwnershipCorrect`: what each connection owns, from types alone.
- `LeftoverCorrect`: where bytes can stay in the input.
- `ReadyCorrect`: a READY peer echoed its own connection's array and the
  challenge had gone out in full. The second half needs an invariant on data in
  flight: `TextsWereSent`, a DATA packet on any stream carries garbage unless
  challenges are written in full.
- `AsBuiltNobodyReady`: with either of the two lines as they stand, no peer ever
  becomes READY, whatever the remote nodes do.
- `StageOrderCorrect`: the action property, one stage per packet.
- `PeerAuthCorrect`: the refinement of `PeerAuth`, for any number of connections:
  the initial states map to its initial state, a challenge and the step to READY
  to its two actions, every other step to a stutter.
- `HonestCorrect`: a node that follows the handshake is rejected only for want of
  a resource. Its three hypotheses are what the run `peer_whole` sets: whole
  reads, a HS_ACK with a key, the decrypting call. With fragments, the
  documented HS_ACK or the call as it stands the property is false. `HonestInv`
  says that the only packet unread is the one the stage waits for, all of it.
- `BytesCorrect`: the bytes in the input and on the wire are those of the packets
  not drained. `TotalSize` is a recursive function; `BytesInv` needs what it gives
  for a packet appended and for the first one dropped, which is an induction over
  the length of the stream.

`WsApiProofs`:

- `SlotCorrect` and `UserChangesHandsCorrect`, from one invariant `UserInv`: a
  running callback is of an open connection, and the user, until a malformed
  frame, is open with its handshake done and no CLOSE seen.
- `LeakCorrect`, from `CountInv`: there is a `ws_client` for each open connection
  and one for each failure, by cardinalities.
- `UserIsKnownCorrect`, from `KnownInv`: while connections do not overlap there is
  one at most, so `close_cb` forgets the right one.
- `FramesInOrderCorrect`, `NothingStrandedCorrect` and `WsTypeCorrect`, from
  `StreamInv`: what may still come of a client before its handshake and after it,
  that the frames handed over, in the input and on the wire are those it sent, and
  that `read_cb` leaves nothing unless a read cut a message.

`Socks5Proofs`, which assumes only that names are not empty:

- `MisuseCorrect`, `FreedTogetherCorrect`, `RequestCorrect` and the refinement
  `AttemptCorrect`, from one invariant `Inv`: which pointer is set and which
  blocks exist (`ContextInv`), what was told at each stage while there is a context
  (`ToldInv`), and the properties themselves. What the callbacks of a kept
  bufferevent tell is the third action of `Attempt`, so the refinement holds for
  every user and says nothing to one that keeps it.
- `TypeCorrect`; then `ConnectedCorrect` and `ReadsCorrect` from `WireInv`: at each
  stage at most the answer to the message last written is on its way, with the
  destination's bytes behind a grant, as long as no byte was guessed. The first
  leaves out the pieces too short to judge, the second every answer not read whole
  and alone.

`IniParserProofs`, for every file, any memory behind it and every size of the
parser's strings:

- `StopProperties` (a lemma): what a scan of the parser returns; it is why each
  stage's copy ends where the code's loop does.
- `IniTypeCorrect`: the names taken stay within their strings and `bufp` leaves
  the memory by at most one. It needs `KeyBegun`: a key's first character was
  consumed, so `bufp--` stays in the buffer.
- `StaysInTextCorrect` and `ShortLinesFitCorrect`: one invariant, `TextInv`.
  `NewlineStops` is the argument: every scan's set holds the newline, so from a
  byte of the text it ends at the last newline or before, and `bufp++` reaches the
  terminator at most. That `TmpSize` bytes hold a newline then bounds the copies
  (`NoLongPiece`), the key's included, which the invariant has to carry up to the
  value.
- `WellFormedParsedCorrect`: what is parsed is what the lines of the file mean, for
  any number of lines and for every key and section, named in the file or not.
  `LaidOutExists` says where each line lies in the text. `LinesInv` is the inductive
  invariant: the parser is at the beginning of some line or at one of the places
  inside it that the line's kind has (`OnLine`), its section is the one that line is
  in, and every lookup gives what the lines before it say (`HoldsUpTo`). One lemma
  per kind of line takes the parser through it (`SectionStep`, `CommentStep`,
  `BlankStep`, `PairStep`). `GetAssigned` says what a lookup finds once a pair is
  added, `ToldNext` what one more line says, and the two agree (`HoldsMore`).
  `FilesAssumption` ties the text to the lines: the text of a file with lines is
  those lines written down, each fit for the parser (`WellFormedLine`), unless it is
  cut before its last newline, and then the property says nothing of it.

`StartupProofs`: `ServingCorrect` and `ExitsCorrect` from `MainInv`, on the parser's
type invariant. `HeapInv` relates main's pointers to the heap: a port string that
is not NULL names a block until it is freed, one never set names none, and `base`
is then unset too. `StartupTypeCorrect` is type correctness; `ValueIsNumber` shows
by induction over the digits that what `strtol` reads is a number, `PortsRead` that
the strings it is given were set. `DenotesValue` says that it is the number the
string denotes: `strtol` computes it from the first digit on, the property reads it
from the last one back, and the two meet by induction. `ServesCorrect` starts from the parser's `LinesInv`,
which holds in `main` until the configuration is freed, so that what is looked up is
what the lines say; `ConfInv` follows it statement by statement: looked up, converted
to 16 bits, bound, or missing, or not copied, where `main` crashes.

`FrontendProofs`, of `FrameCodec`, for every length and both opcodes:

- `NodeHeader`: `ws_make_frame` writes the number of bytes `ws_calc_frame_size`
  computes, and a browser finds the frame's end where they end. It reads the
  length that was meant if that is `Carried`: below `FarLength`, and with the code's
  own `htonll` on a little-endian host at most 65535.
- `PageHeader`: the same of a browser's header, read by `ws_parse_frame`, with the
  masking key found where it lies.

Of `Frontend`:

- `TypeCorrect`, from three invariants for the page, the node and the history.
- `StreamsCorrect`: both ends stay in step, from `SyncInv`, whose main part is
  `CloseIsLast`: behind a CLOSE, or the answer to one, nothing is sent. Its
  hypothesis `LengthsCarried` is that no event or request is longer than the
  headers carry; without it the property is false, as the run `frontend_long`
  shows. `KeptStreamsCorrect` states it for every length where the halves are in
  order.
- `MembersCorrect`: the members shown are those in the room, of the names that are
  found as themselves, whatever the selectors of the others match. The room is
  not what is shown while events are on their way, so `FollowInv` is about the list
  as it will be (`Expected`), from the last frame on each user in the stream;
  `ListInv`, no name twice that its selector finds and none that throws, needs
  nothing of the connection.

`WsHandshakeProofs`, for arrays of any size, any requests and any memory:

- `TypeCorrect` and `FreedCorrect`: with `HeapInv`, until the entries are freed
  those found are those allocated. That there is a newline for each of them bounds
  the heap by the text.
- `KeyCorrect`: the key answered to, for any number of headers and a cut at any
  byte. `RequestIsLaidOut` says how a well-formed text is made of its lines,
  `HeaderIsAt` where in it a header's newline, colon and value lie, and
  `HeaderLineIs` that the parser's scans find them there. `KeyInv` is the inductive
  invariant: the parser stands behind the lines of the headers it has added, each
  entry bears its header's bytes (with terminators if the memory was zeroed), and
  when parsing ends every header received has an entry. `CStringIs` turns an
  entry's bytes into the strings compared and answered to.

Induction over data is needed in three places: the bytes of a stream, the lines
of a text joined (both parsers), the digits of a number, from both ends. It is done on a set of naturals, by its least element
(`WFMin` of the library), since the library's induction theorems themselves take
an operator.

Only model-checked: liveness and everything under fairness (`HonestProgress`,
`OutcomeTold`, `AcceptErrorEnds`, `StartsOrExits`), since ENABLED is out of the
prover's reach. Every invariant, the action properties and the two refinements
that a passing run checks are stated by a theorem.

## 5. Findings

1. `listener.c:184` writes 8 bytes of the challenge; `rsa.c:124` finishes a
   decryption with `EVP_PKEY_encrypt`. Either alone stops every handshake.
2. `docs/PROTOCOL.md` gives HS_ACK a header only; the code requires a key. No run
   of its own: with `AckForm = "header_only"` in `PeerWhole.cfg`, TLC shows the
   rejection as a violation of `HonestNeverRejected`.
3. `api.c:55` forgets the user for any client that closes; the warning in
   `api.c:76` is then wrong.
4. `websockets.c:185` registers no write callback, so `cl->disconnect` has no
   effect, against the comment in `api.c:54`.
5. `main.c:34` takes `errno` for a sign that the port string was a number;
   `strtol` sets it for numbers out of range and, on the BSDs and macOS but not with
   glibc, for text without digits; nowhere for a number with other text behind it.
6. `frame.c:20` (and `frame.c:9-14`), under the comment in `frame.c:8`, convert the halves of a 64-bit length and
   leave them where they are, so a little-endian host other than macOS writes and
   reads the lengths of frames of more than 65535 bytes wrongly.

## 6. Not modelled

- libevent's chains (`evbuffer_peek` of one extent may hold less than the
  struct) and lengths of 2^31 and more.
- The vendored `yyjson`, `uthash.h` and `log.c`: together about 20,000 of the
  repository's 22,000 lines of implementation. The program keeps no state in
  them; they appear by what their callers get back. The project's own code is
  modelled almost whole, but its share of all lines is small for that reason.
- Of `ini.c` the debug dump and a failing `strdup` of the parser, of `index.js` the
  chat log, colour mode, popups and the markup a name may hold (a send button that
  stays dead after one request is in the model, and no property says otherwise),
  of `frame.c` the unmasking loop, of `main.c` the seeding of `rand()`, whose
  distribution is no question for these models.
- Rooms (`docs/ROOMS.md`) and the dialling side of a peer: no code yet.
- A module with both servers on one loop. They share the event base and nothing
  else, so its states would be the product of the two and it would have no
  property of its own; it becomes worth writing when an event of a peer is
  passed to `vcmp_api_event_user`.

## 7. Plan

Done: all components with code of their own, the two refinements, and the proofs
of section 4, which state every safety property of the passing runs. What would
add most now comes with code that is not written yet: rooms, the dialling side of
a peer, and the call that hands a peer's event to the API.
