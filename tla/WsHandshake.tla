---------------------------- MODULE WsHandshake ----------------------------
(***************************************************************************)
(* The opening handshake: ws_parse_handshake, ws_header_get and            *)
(* ws_free_handshake of src/websockets/handshake.c, and what read_cb of    *)
(* src/websockets/websockets.c does with them.  One action per line of the *)
(* request.                                                                *)
(*                                                                         *)
(* An entry is the memory of its two arrays, key and value, which malloc   *)
(* does not clear and strncpy does not terminate; behind them lies the     *)
(* hash handle, whose first byte is not 0: "hh".                           *)
(***************************************************************************)
EXTENDS Integers, Sequences, FiniteSets, SequencesExt

CONSTANTS
    Bytes,     \* what a text or the memory is made of
    Requests,  \* [text, first, headers]: the first line and the headers of a
               \* well-formed text, which has some, or << >> and << >>
    Memories,  \* what malloc's memory may hold
    Size,      \* of each array, 256
    WantedName \* "Sec-WebSocket-Key"

Entries == [1 .. 2 * Size -> Bytes]
Zeroed  == [i \in 1 .. 2 * Size |-> "NUL"]

Header(name, value) == [name |-> name, value |-> value]
Headers == [name : Seq(Bytes), value : Seq(Bytes)]

\* A header as a client writes it.
HeaderText(h) == h.name \o << ":", " " >> \o h.value \o << "CR", "LF" >>

RequestText(first, headers) ==
    first \o << "CR", "LF" >>
      \o FlattenSeq([i \in 1 .. Len(headers) |-> HeaderText(headers[i])])
      \o << "CR", "LF" >>

Printable == Bytes \ {"LF", "NUL"}

\* A well-formed request: what a client's headers are and how it writes them.
WellFormed(r) ==
    /\ r.text = RequestText(r.first, r.headers)
    /\ r.first \in Seq(Bytes \ {"LF"})
    /\ \A i \in 1 .. Len(r.headers) :
           /\ r.headers[i].name \in Seq(Printable \ {":"})
           /\ r.headers[i].value \in Seq(Printable)

ASSUME WsHandshakeAssumption ==
    /\ Size \in Nat \ {0}
    /\ {":", " ", "CR", "LF", "NUL"} \subseteq Bytes
    /\ Memories \subseteq Entries
    /\ Requests \subseteq [text : Seq(Bytes) \ {<< >>}, first : Seq(Bytes),
                           headers : Seq(Headers)]
    /\ \A r \in Requests : r.headers # << >> => WellFormed(r)

VARIABLES
    request,    \* the request
    data,       \* what has been read of it: the whole input
    line_begin, \* index into data of the line's first byte
    head,       \* the entries, the last one added first
    heap,       \* entries allocated and not freed
    outcome,    \* what became of the handshake
    key,        \* the key answered to
    clean,      \* history: every entry's memory was zeroed
    failed      \* history: an allocation or the answer's write failed

vars == << request, data, line_begin, head, heap, outcome, key, clean, failed >>

Outcomes == {"parsing", "parsed", "rejected", "answered", "misused"}

TypeOK ==
    /\ data \in Seq(Bytes) \ {<< >>} /\ IsPrefix(data, request.text)
    /\ line_begin \in 1 .. Len(data) + 1
    /\ line_begin = 1 \/ data[line_begin - 1] = "LF"
    /\ head \in Seq(Entries)
    /\ heap \in Nat
    /\ heap <= Cardinality({ i \in 1 .. line_begin - 1 : data[i] = "LF" })
    /\ outcome \in Outcomes
    /\ (key # << >>) => outcome = "answered"
    /\ clean \in BOOLEAN
    /\ failed \in BOOLEAN

\* A read brings some of the request, and read_cb is called.
Init ==
    /\ request \in Requests
    /\ \E cut \in 1 .. Len(request.text) : data = SubSeq(request.text, 1, cut)
    /\ line_begin = 1
    /\ head = << >>
    /\ heap = 0
    /\ outcome = "parsing"
    /\ key = << >>
    /\ clean = TRUE
    /\ failed = FALSE

-----------------------------------------------------------------------------
(* ws_parse_handshake *)

\* Where the next newline is, or 0.
line_end == SelectInSubSeq(data, line_begin, Len(data), LAMBDA c : c = "LF")
line     == SubSeq(data, line_begin, line_end - 1)
line_len == line_end - line_begin

\* 0 for a line without a colon; the index is C's.
delim_pos ==
    LET colon == SelectInSeq(line, LAMBDA c : c = ":")
    IN IF colon = 0 THEN 0 ELSE colon - 1

\* The value is what lies between ": " and the last byte.  Before it, the
\* slip of taking the space with it.
val_begin_Space == line_begin + delim_pos + 1
val_begin == line_begin + delim_pos + 2
val_len == line_len - 1 - delim_pos - 2

\* memory with n bytes of data, from b on, copied to position "to".
strncpy(memory, to, b, n) ==
    [i \in DOMAIN memory |->
        IF i \in to .. to + n - 1 THEN data[b + i - to] ELSE memory[i]]

\* Before it, the slip of not stepping over the newline.
NextLine_AtNewline == line_begin' = line_end
NextLine == line_begin' = line_end + 1

SkipFirstLine ==
    /\ outcome = "parsing" /\ line_end # 0
    /\ line_begin = 1
    /\ NextLine
    /\ UNCHANGED << request, data, head, heap, outcome, key, clean, failed >>

HeaderLine ==
    /\ outcome = "parsing" /\ line_end # 0
    /\ line_begin # 1
    /\ line_len # 1

\* HASH_ADD_STR; of entries with one key the last added is found.
AddHeader(memory) ==
    /\ HeaderLine
    /\ delim_pos <= Size /\ val_len \in 0 .. Size
    /\ head' = << strncpy(strncpy(memory, 1, line_begin, delim_pos),
                          Size + 1, val_begin, val_len) >> \o head
    /\ heap' = heap + 1
    /\ clean' = (clean /\ memory = Zeroed)
    /\ NextLine
    /\ UNCHANGED << request, data, outcome, key, failed >>

\* A name or a value too long for its array; or a negative length, as for an
\* empty value without its space, which strncpy takes for a huge one.
Overrun ==
    /\ HeaderLine
    /\ ~(delim_pos <= Size /\ val_len \in 0 .. Size)
    /\ outcome' = "misused"
    /\ UNCHANGED << request, data, line_begin, head, heap, key, clean, failed >>

\* NULL is returned, and the entries so far are not freed.
NoMemory ==
    /\ HeaderLine
    /\ outcome' = "rejected"
    /\ failed' = TRUE
    /\ UNCHANGED << request, data, line_begin, head, heap, key, clean >>

\* An empty line, or no newline any more.
EndOfHeaders ==
    /\ outcome = "parsing"
    /\ line_end = 0 \/ (line_begin # 1 /\ line_len = 1)
    /\ outcome' = "parsed"
    /\ UNCHANGED << request, data, line_begin, head, heap, key, clean, failed >>

-----------------------------------------------------------------------------
(* read_cb *)

\* The string that begins at a position of an entry.
CString(entry, from) ==
    LET bytes == SubSeq(entry, from, Len(entry)) \o << "hh", "NUL" >>
    IN SubSeq(bytes, 1, SelectInSeq(bytes, LAMBDA c : c = "NUL") - 1)

\* HASH_FIND_STR: the index of the entry, or 0.
ws_header_get(name) == SelectInSeq(head, LAMBDA e : CString(e, 1) = name)

ws_free_handshake == heap' = heap - Len(head)

\* A slip: the entries are freed only when the key was found.
Reject_NoFree ==
    /\ outcome = "parsed"
    /\ \/ ws_header_get(WantedName) = 0 /\ UNCHANGED << heap, failed >>
       \/ ws_header_get(WantedName) # 0 /\ ws_free_handshake /\ failed' = TRUE
    /\ outcome' = "rejected"
    /\ UNCHANGED << request, data, line_begin, head, key, clean >>

\* The bufferevent is freed: there is no key, no memory for the hash's input,
\* or the answer cannot be written.
Reject ==
    /\ outcome = "parsed"
    /\ \/ ws_header_get(WantedName) = 0 /\ UNCHANGED failed
       \/ ws_header_get(WantedName) # 0 /\ failed' = TRUE
    /\ ws_free_handshake
    /\ outcome' = "rejected"
    /\ UNCHANGED << request, data, line_begin, head, key, clean >>

\* The key, joined with WS_MAGIC and hashed, is answered to.
Answer ==
    /\ outcome = "parsed"
    /\ ws_header_get(WantedName) # 0
    /\ key' = CString(head[ws_header_get(WantedName)], Size + 1)
    /\ ws_free_handshake
    /\ outcome' = "answered"
    /\ UNCHANGED << request, data, line_begin, head, clean, failed >>

Next ==
    \/ SkipFirstLine \/ Overrun \/ NoMemory \/ EndOfHeaders \/ Reject \/ Answer
    \/ \E memory \in Memories : AddHeader(memory)

Spec == Init /\ [][Next]_vars

-----------------------------------------------------------------------------
(* Properties *)

\* Every name and value leaves its array room for a terminator.
Fits ==
    /\ request.headers # << >>
    /\ \A i \in 1 .. Len(request.headers) :
           Len(request.headers[i].name) < Size /\ Len(request.headers[i].value) < Size

\* The header line is in what was read, with its newline.
Received(i) ==
    Len(data) >= Len(RequestText(request.first,
                                 SubSeq(request.headers, 1, i))) - 2

\* A well-formed request stays inside the arrays, wherever a read cuts it.
\* Whatever the memory held, the key answered to begins with a value the
\* client sent.  While it happens to be zeroed, the key is the client's, all
\* of it, and a client is turned away only if its key was not there, had not
\* yet arrived, or could not be answered.
KeyIsTheClients ==
    LET sent     == request.headers
        received == { i \in 1 .. Len(sent) : Received(i) }
        keys     == { sent[i].value : i \in { j \in received :
                                                sent[j].name = WantedName } }
    IN Fits =>
        /\ outcome # "misused"
        /\ outcome = "answered" =>
               \E i \in received : IsPrefix(sent[i].value, key)
        /\ clean /\ outcome = "answered" => key \in keys
        /\ clean /\ outcome = "rejected" => failed \/ keys = {}

\* Every entry is freed when the handshake is over, answered or not, unless
\* memory ran out in the middle of it.
EntriesFreed ==
    outcome \in {"answered", "rejected"} /\ ~failed => heap = 0
=============================================================================
