----------------------------- MODULE FrameCodec -----------------------------
(***************************************************************************)
(* The WebSocket frame codec of src/websockets/frame.c, as functions on    *)
(* sequences of bytes, and what the other end of the connection makes of   *)
(* the same bytes.                                                         *)
(***************************************************************************)
EXTENDS Integers, Sequences, SequencesExt

CONSTANT
    HalvesKept  \* TRUE where htonll is the system's, or the host big-endian

ASSUME CodecAssumption == HalvesKept \in BOOLEAN

Byte == 0 .. 255

WS_OPCODE_TEXT  == 1
WS_OPCODE_CLOSE == 8

-----------------------------------------------------------------------------
(* Numbers of 2, 4 and 8 bytes in network order, as they lie in memory.      *)

Network2(n) == << (n \div 256) % 256, n % 256 >>
Network4(n) == Network2(n \div 65536) \o Network2(n)
HighHalf(n) == (n \div 65536) \div 65536
Network8(n) == Network4(HighHalf(n)) \o Network4(n)

\* htonll converts either half and leaves both where they are, so that on a
\* little-endian host, without the system's own, the low one comes first.
htonll(n) == IF HalvesKept THEN Network8(n) ELSE Network4(n) \o Network4(HighHalf(n))

\* Lengths that do not fit FarLength, a gigabyte, are not told apart.
FarWord   == 16384
FarLength == 65536 * FarWord

FromNetwork2(bytes) == 256 * bytes[1] + bytes[2]

FromNetwork8(bytes) ==
    LET w == [i \in 1 .. 4 |-> 256 * bytes[2 * i - 1] + bytes[2 * i]] IN
    IF w[1] = 0 /\ w[2] = 0 /\ w[3] < FarWord THEN 65536 * w[3] + w[4] ELSE FarLength

\* ntohll undoes htonll, and so leaves the halves of what a browser wrote.
ntohll(bytes) ==
    FromNetwork8(IF HalvesKept THEN bytes
                 ELSE SubSeq(bytes, 5, 8) \o SubSeq(bytes, 1, 4))

-----------------------------------------------------------------------------
(* frame.c *)

\* What ws_client_send allocates in front of the payload.
ws_calc_frame_size(len) ==
    IF len <= 125 THEN 2 ELSE IF len <= 65535 THEN 4 ELSE 10

\* The header ws_make_frame writes, without a mask; its length is what it
\* returns.  A buffer of less than two bytes is refused, and of more only
\* those two are checked.  Before it, the slip of the wrong byte order.
ws_make_frame_HostOrder(opcode, len) ==
    IF len <= 125 THEN << 128 + opcode, len >>
    ELSE IF len <= 65535 THEN << 128 + opcode, 126 >> \o Reverse(Network2(len))
    ELSE << 128 + opcode, 127 >> \o htonll(len)

ws_make_frame(opcode, len) ==
    IF len <= 125 THEN << 128 + opcode, len >>
    ELSE IF len <= 65535 THEN << 128 + opcode, 126 >> \o Network2(len)
    ELSE << 128 + opcode, 127 >> \o htonll(len)

Malformed == [size |-> -1]

\* What ws_parse_frame returns and puts into frame_out, and the four bytes it
\* takes for the masking key.
ws_parse_frame(buf) ==
    LET short == buf[2] % 128
        width == CASE short = 126 -> 2 [] short = 127 -> 8 [] OTHER -> 0
        bytes == SubSeq(buf, 3, 2 + width)
    IN IF buf[2] < 128 THEN Malformed
       ELSE [size   |-> 2 + width + 4,
             fin    |-> buf[1] \div 128,
             opcode |-> buf[1] % 16,
             len    |-> CASE short = 126 -> FromNetwork2(bytes)
                          [] short = 127 -> ntohll(bytes)
                          [] OTHER       -> short,
             key    |-> SubSeq(buf, 3 + width, 6 + width)]

-----------------------------------------------------------------------------
(* The other end, by RFC 6455: the header a browser writes in front of its   *)
(* masked payload, and what it reads in a header without a mask.             *)

ClientHeader(opcode, len, key) ==
    (IF len <= 125 THEN << 128 + opcode, 128 + len >>
     ELSE IF len <= 65535 THEN << 128 + opcode, 128 + 126 >> \o Network2(len)
     ELSE << 128 + opcode, 128 + 127 >> \o Network8(len))
    \o key

ReadHeader(bytes) ==
    [opcode |-> bytes[1] % 16,
     len    |-> CASE bytes[2] = 126 -> FromNetwork2(SubSeq(bytes, 3, 4))
                  [] bytes[2] = 127 -> FromNetwork8(SubSeq(bytes, 3, 10))
                  [] OTHER          -> bytes[2],
     size   |-> CASE bytes[2] = 126 -> 4 [] bytes[2] = 127 -> 10 [] OTHER -> 2]
=============================================================================
