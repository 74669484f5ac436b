-------------------------- MODULE FrontendProofs --------------------------
(***************************************************************************)
(* Proofs about FrameCodec and Frontend.  First what is read back from     *)
(* numbers in network order and from the headers either end writes, for    *)
(* every length; then, for all names, all lengths and any number of        *)
(* events, which values Frontend's variables take, that the two ends stay  *)
(* in step where the lengths are carried, and what the page then shows.    *)
(***************************************************************************)
EXTENDS Frontend, TextLemmas, SequenceTheorems, TLAPS

-----------------------------------------------------------------------------
(* Numbers in network order                                                  *)

\* The words of a number; the literals stay behind these names.
High(n)         == n \div 65536
Weighed(h, l)   == 65536 * h + l
OneWord(n)      == n <= 65535

LEMMA Words ==
    ASSUME NEW n \in Nat
    PROVE  /\ High(n) \in Nat
           /\ (n \div 256) % 256 \in Byte /\ n % 256 \in Byte
           /\ n = Weighed(High(n), 256 * ((n \div 256) % 256) + (n % 256))
           /\ OneWord(n) => High(n) = 0
BY SMT DEF High, Weighed, OneWord, Byte

LEMMA WeighedZero == \A l \in Int : Weighed(0, l) = l
BY SMT DEF Weighed

LEMMA Pair ==
    ASSUME NEW a \in Byte, NEW b \in Byte
    PROVE  /\ << a, b >> \in Seq(Byte) /\ Len(<< a, b >>) = 2
           /\ << a, b >>[1] = a /\ << a, b >>[2] = b
OBVIOUS

\* The two bytes of a number below 65536 are read back as that number.
TwoOf(s, n) ==
    /\ s \in Seq(Byte) /\ Len(s) = 2 /\ s[1] \in Byte /\ s[2] \in Byte
    /\ n = Weighed(High(n), 256 * s[1] + s[2])
    /\ OneWord(n) => 256 * s[1] + s[2] = n

LEMMA TwoBytes ==
    ASSUME NEW n \in Nat
    PROVE  TwoOf(Network2(n), n)
<1>1. PICK a, b : a = (n \div 256) % 256 /\ b = n % 256
  OBVIOUS
<1>2. /\ a \in Byte /\ b \in Byte /\ n = Weighed(High(n), 256 * a + b)
      /\ OneWord(n) => High(n) = 0
  <2>1. \A x, y : x = (n \div 256) % 256 /\ y = n % 256 =>
            /\ x \in Byte /\ y \in Byte /\ n = Weighed(High(n), 256 * x + y)
            /\ OneWord(n) => High(n) = 0
    BY SMT DEF High, Weighed, OneWord, Byte
  <2> QED
    BY <1>1, <2>1
<1>3. 256 * a + b \in Int
  BY <1>2 DEF Byte
<1>4. OneWord(n) => 256 * a + b = n
  BY <1>2, <1>3, WeighedZero, Zenon
<1>5. Network2(n) = << a, b >>
  BY <1>1, Zenon DEF Network2
<1>6. TwoOf(<< a, b >>, n)
  <2>1. PICK s : s = << a, b >>
    OBVIOUS
  <2>2. s \in Seq(Byte) /\ Len(s) = 2 /\ s[1] = a /\ s[2] = b
    BY <1>2, <2>1, Pair
  <2>3. TwoOf(s, n)
    BY <1>2, <1>4, <2>2, Zenon DEF TwoOf
  <2> QED
    BY <2>1, <2>3
<1> QED
  BY <1>5, <1>6, Zenon

\* Two sequences behind each other, by their lengths.
JoinOf(u, s, t, k, l) ==
    /\ u \in Seq(Byte) /\ Len(u) = k + l
    /\ \A i \in 1 .. k : u[i] = s[i]
    /\ \A i \in 1 .. l : u[k + i] = t[i]

LEMMA Joined ==
    ASSUME NEW s \in Seq(Byte), NEW t \in Seq(Byte), NEW k \in Nat, NEW l \in Nat,
           Len(s) = k, Len(t) = l
    PROVE  JoinOf(s \o t, s, t, k, l)
<1>1. /\ s \o t \in Seq(Byte) /\ Len(s \o t) = Len(s) + Len(t)
      /\ \A i \in 1 .. Len(s) + Len(t) :
             (s \o t)[i] = IF i <= Len(s) THEN s[i] ELSE t[i - Len(s)]
  BY ConcatProperties, Zenon
<1>2. \A i \in 1 .. k : i \in 1 .. k + l /\ i <= k
  OBVIOUS
<1>3. \A i \in 1 .. l : k + i \in 1 .. k + l /\ ~(k + i <= k) /\ (k + i) - k = i
  OBVIOUS
<1>4. \A i \in 1 .. k : (s \o t)[i] = s[i]
  BY <1>1, <1>2
<1>5. \A i \in 1 .. l : (s \o t)[k + i] = t[i]
  <2> TAKE i \in 1 .. l
  <2> DEFINE j == k + i
  <2>1. j \in 1 .. k + l /\ ~(j <= k) /\ j - k = i
    BY <1>3
  <2> HIDE DEF j
  <2>2. (s \o t)[j] = IF j <= k THEN s[j] ELSE t[j - k]
    BY <1>1, <2>1, Zenon
  <2>3. (s \o t)[j] = t[i]
    BY <2>1, <2>2, Zenon
  <2> QED
    BY <2>3 DEF j
<1> QED
  BY <1>1, <1>4, <1>5, Zenon DEF JoinOf

\* Two numbers of two bytes behind each other.
FourOf(s, p, q) ==
    /\ s \in Seq(Byte) /\ Len(s) = 4
    /\ s[1] = p[1] /\ s[2] = p[2] /\ s[3] = q[1] /\ s[4] = q[2]

LEMMA FourBytes ==
    ASSUME NEW n \in Nat
    PROVE  FourOf(Network4(n), Network2(High(n)), Network2(n))
<1>1. Network4(n) = Network2(High(n)) \o Network2(n)
  BY SMT DEF Network4, High
<1>2. PICK s, t, u : s = Network2(High(n)) /\ t = Network2(n) /\ u = s \o t
  OBVIOUS
<1>3. TwoOf(s, High(n)) /\ TwoOf(t, n)
  BY <1>2, Words, TwoBytes, ZenonT(40)
<1>4. s \in Seq(Byte) /\ Len(s) = 2 /\ t \in Seq(Byte) /\ Len(t) = 2 /\ 2 \in Nat
  BY <1>3 DEF TwoOf
<1>5. JoinOf(u, s, t, 2, 2)
  BY <1>2, <1>4, Joined
<1>6. FourOf(u, s, t)
  BY <1>5 DEF JoinOf, FourOf
<1> QED
  BY <1>1, <1>2, <1>6, Zenon

LEMMA FarIsNat == FarLength \in Nat /\ FarWord \in Nat
BY SMT DEF FarLength, FarWord

LEMMA NotFar ==
    ASSUME NEW n \in Nat, n < FarLength
    PROVE  High(n) < FarWord /\ OneWord(High(n)) /\ HighHalf(n) = 0
<1>1. \A h \in Int : h >= 16384 => 65536 * h >= 65536 * 16384
  BY SMT
<1>2. n >= 65536 * (n \div 65536) /\ n \div 65536 \in Nat
  BY SMT
<1>3. n \div 65536 < 16384
  BY SMT, <1>1, <1>2 DEF FarLength, FarWord
<1> QED
  BY SMT, <1>2, <1>3 DEF FarWord, High, OneWord, HighHalf

LEMMA NoneHigh == High(0) = 0
BY SMT DEF High

\* Of a length that is not far, the high half is nothing, and the low half is
\* read back from four bytes.
LEMMA EightBytes ==
    ASSUME NEW n \in Nat, n < FarLength
    PROVE  /\ Network8(n) \in Seq(Byte) /\ Len(Network8(n)) = 8
           /\ FromNetwork8(Network8(n)) = n
<1>1. PICK h \in Nat : h = High(n)
  BY Words
<1>2. h < FarWord /\ OneWord(h) /\ HighHalf(n) = 0
  BY <1>1, NotFar
<1>3. PICK s, hi, lo : s = Network8(n) /\ hi = Network4(0) /\ lo = Network4(n)
  OBVIOUS
<1>4. s = hi \o lo
  BY <1>2, <1>3, Zenon DEF Network8
<1>5. /\ hi \in Seq(Byte) /\ Len(hi) = 4
      /\ hi[1] = 0 /\ hi[2] = 0 /\ hi[3] = 0 /\ hi[4] = 0
  <2>1. Network2(0) = << 0, 0 >> /\ 0 \in Nat
    BY DEF Network2
  <2>2. FourOf(hi, << 0, 0 >>, << 0, 0 >>)
    BY <1>3, <2>1, NoneHigh, FourBytes, Zenon
  <2> QED
    BY <2>2 DEF FourOf
<1>6. /\ lo \in Seq(Byte) /\ Len(lo) = 4
      /\ lo[1] \in Byte /\ lo[2] \in Byte /\ lo[3] \in Byte /\ lo[4] \in Byte
      /\ 256 * lo[1] + lo[2] = h
      /\ n = Weighed(h, 256 * lo[3] + lo[4])
  <2>1. PICK p, q : p = Network2(h) /\ q = Network2(n)
    OBVIOUS
  <2>2. TwoOf(p, h) /\ TwoOf(q, n) /\ FourOf(lo, p, q)
    BY <1>1, <1>3, <2>1, TwoBytes, FourBytes, Zenon
  <2>3. /\ lo \in Seq(Byte) /\ Len(lo) = 4
        /\ lo[1] = p[1] /\ lo[2] = p[2] /\ lo[3] = q[1] /\ lo[4] = q[2]
    BY <2>2 DEF FourOf
  <2> QED
    BY <1>1, <1>2, <2>2, <2>3, SMT DEF TwoOf
<1>7. JoinOf(s, hi, lo, 4, 4)
  <2>1. 4 \in Nat
    OBVIOUS
  <2> QED
    BY <1>4, <1>5, <1>6, <2>1, Joined
<1>8. /\ s \in Seq(Byte) /\ Len(s) = 8
      /\ s[1] = 0 /\ s[2] = 0 /\ s[3] = 0 /\ s[4] = 0
      /\ s[5] = lo[1] /\ s[6] = lo[2] /\ s[7] = lo[3] /\ s[8] = lo[4]
  BY <1>5, <1>7 DEF JoinOf
<1>9. PICK w : w = [i \in 1 .. 4 |-> 256 * s[2 * i - 1] + s[2 * i]]
  OBVIOUS
<1>10. w[1] = 0 /\ w[2] = 0 /\ w[3] = h /\ w[4] = 256 * lo[3] + lo[4]
  BY <1>6, <1>8, <1>9 DEF Byte
<1>11. FromNetwork8(s) = IF w[1] = 0 /\ w[2] = 0 /\ w[3] < FarWord
                         THEN Weighed(w[3], w[4]) ELSE FarLength
  BY <1>9, SMT DEF FromNetwork8, Weighed
<1>12. FromNetwork8(s) = n
  BY <1>2, <1>6, <1>10, <1>11, ZenonT(40)
<1> QED
  BY <1>3, <1>8, <1>12, Zenon

-----------------------------------------------------------------------------
(* Headers                                                                   *)

Opcodes == {WS_OPCODE_TEXT, WS_OPCODE_CLOSE}

\* The three forms of a header.
InOne(len)   == len <= 125
InTwo(len)   == len > 125 /\ len <= 65535
InEight(len) == len > 65535

LEMMA Forms ==
    ASSUME NEW len \in Nat
    PROVE  /\ InOne(len) \/ InTwo(len) \/ InEight(len)
           /\ InOne(len) => len \in 0 .. 125
           /\ InEight(len) <=> ~OneWord(len)
BY SMT DEF InOne, InTwo, InEight, OneWord

\* The two bytes every header begins with.
Opening(op, b) == << 128 + op, b >>

LEMMA MadeForms ==
    ASSUME NEW len \in Nat, NEW op
    PROVE  /\ InOne(len)   => ws_make_frame(op, len) = Opening(op, len)
           /\ InTwo(len)   => ws_make_frame(op, len)
                                  = Opening(op, 126) \o Network2(len)
           /\ InEight(len) => ws_make_frame(op, len)
                                  = Opening(op, 127) \o htonll(len)
BY SMT DEF ws_make_frame, Opening, InOne, InTwo, InEight

LEMMA SizeForms ==
    ASSUME NEW len \in Nat
    PROVE  /\ InOne(len)   => ws_calc_frame_size(len) = 2
           /\ InTwo(len)   => ws_calc_frame_size(len) = 4
           /\ InEight(len) => ws_calc_frame_size(len) = 10
BY SMT DEF ws_calc_frame_size, InOne, InTwo, InEight

ClientForm(h, op, len, key) ==
    /\ InOne(len)   => h = Opening(op, 128 + len) \o key
    /\ InTwo(len)   => h = (Opening(op, 128 + 126) \o Network2(len)) \o key
    /\ InEight(len) => h = (Opening(op, 128 + 127) \o Network8(len)) \o key

LEMMA ClientForms ==
    ASSUME NEW len \in Nat, NEW op, NEW key
    PROVE  ClientForm(ClientHeader(op, len, key), op, len, key)
<1> DEFINE one   == Opening(op, 128 + len)
           two   == Opening(op, 128 + 126) \o Network2(len)
           eight == Opening(op, 128 + 127) \o Network8(len)
           head  == IF len <= 125 THEN one ELSE IF len <= 65535 THEN two ELSE eight
<1>1. ClientHeader(op, len, key) = head \o key
  BY DEF ClientHeader, Opening
<1>2. /\ InOne(len) => head = one
      /\ InTwo(len) => head = two
      /\ InEight(len) => head = eight
  <2> HIDE DEF one, two, eight
  <2> QED
    BY SMT DEF InOne, InTwo, InEight
<1> HIDE DEF head
<1> QED
  BY <1>1, <1>2, Zenon DEF ClientForm

\* What lies behind a sequence is cut out of the two again.
LEMMA Behind ==
    ASSUME NEW s \in Seq(Byte), NEW t \in Seq(Byte), Len(t) > 0
    PROVE  SubSeq(s \o t, Len(s) + 1, Len(s) + Len(t)) = t
<1>0. PICK k \in Nat, l \in Nat : k = Len(s) /\ l = Len(t) /\ l > 0
  BY LenProperties
<1>1. /\ k + 1 \in k + 1 .. k + l /\ k + l \in k + 1 .. k + l
      /\ (k + 1) - k = 1 /\ (k + l) - k = l
  BY <1>0
<1>2. SubSeq(s \o t, k + 1, k + l) = SubSeq(t, (k + 1) - k, (k + l) - k)
  BY <1>0, <1>1, SubSeqOfConcat2
<1>3. SubSeq(t, 1, l) = t
  BY <1>0, SubSeqFull, Zenon
<1> QED
  BY <1>0, <1>1, <1>2, <1>3, Zenon

\* A cut in the first of two sequences.
LEMMA Before ==
    ASSUME NEW s \in Seq(Byte), NEW t \in Seq(Byte),
           NEW m \in 1 .. Len(s), NEW n \in 1 .. Len(s)
    PROVE  SubSeq(s \o t, m, n) = SubSeq(s, m, n)
BY SubSeqOfConcat1

\* Eight bytes are written in order where the halves are, and only lengths of
\* one word are free of them.
LEMMA KeptBytes ==
    ASSUME NEW len \in Nat, len < FarLength, HalvesKept
    PROVE  /\ htonll(len) = Network8(len)
           /\ ntohll(Network8(len)) = len
BY EightBytes, Zenon DEF htonll, ntohll

\* Either way the size is the one that was allocated.
LEMMA EightWritten ==
    ASSUME NEW len \in Nat
    PROVE  htonll(len) \in Seq(Byte) /\ Len(htonll(len)) = 8
<1>1. \A m \in Nat : Network4(m) \in Seq(Byte) /\ Len(Network4(m)) = 4
  BY FourBytes, Zenon DEF FourOf
<1>2. HighHalf(len) \in Nat
  BY SMT DEF HighHalf
<1>3. PICK p, q : p = Network4(HighHalf(len)) /\ q = Network4(len)
  OBVIOUS
<1>4. p \in Seq(Byte) /\ Len(p) = 4 /\ q \in Seq(Byte) /\ Len(q) = 4
  BY <1>1, <1>2, <1>3, Zenon
<1>5. JoinOf(p \o q, p, q, 4, 4) /\ JoinOf(q \o p, q, p, 4, 4)
  <2>1. 4 \in Nat
    OBVIOUS
  <2> QED
    BY <1>4, <2>1, Joined
<1>6. /\ p \o q \in Seq(Byte) /\ Len(p \o q) = 8
      /\ q \o p \in Seq(Byte) /\ Len(q \o p) = 8
  BY <1>5 DEF JoinOf
<1>7. htonll(len) = IF HalvesKept THEN p \o q ELSE q \o p
  BY <1>3, Zenon DEF htonll, Network8
<1> QED
  BY <1>6, <1>7, Zenon

\* A length the two ends read as it was written: any below a gigabyte where
\* the halves are kept, and elsewhere what two bytes hold.
Carried(len) == len \in Nat /\ len < FarLength /\ (HalvesKept \/ OneWord(len))

LEMMA FirstTwo ==
    ASSUME NEW op \in Opcodes, NEW b \in Byte
    PROVE  /\ Opening(op, b) \in Seq(Byte) /\ Len(Opening(op, b)) = 2
           /\ Opening(op, b)[1] = 128 + op /\ Opening(op, b)[2] = b
           /\ (128 + op) % 16 = op /\ (128 + op) \div 128 = 1
<1>1. 128 + op \in Byte /\ (128 + op) % 16 = op /\ (128 + op) \div 128 = 1
  BY DEF Opcodes, WS_OPCODE_TEXT, WS_OPCODE_CLOSE, Byte
<1> QED
  BY <1>1, Pair DEF Opening

\* The extended length is behind the first two bytes.
HeadOf(h, op, b, n) ==
    /\ h \in Seq(Byte) /\ Len(h) = 2 + n
    /\ h[1] = 128 + op /\ h[2] = b
    /\ (128 + op) % 16 = op /\ (128 + op) \div 128 = 1

CutOf(h, n, t) == SubSeq(h, 3, 2 + n) = t

LEMMA Extended ==
    ASSUME NEW op \in Opcodes, NEW b \in Byte, NEW t \in Seq(Byte), NEW n \in Nat,
           Len(t) = n, n > 0, NEW h, h = Opening(op, b) \o t
    PROVE  HeadOf(h, op, b, n) /\ CutOf(h, n, t)
<1>1. PICK s : s = Opening(op, b)
  OBVIOUS
<1>2. /\ s \in Seq(Byte) /\ Len(s) = 2 /\ s[1] = 128 + op /\ s[2] = b
      /\ (128 + op) % 16 = op /\ (128 + op) \div 128 = 1
  BY <1>1, FirstTwo
<1>3. 2 \in Nat /\ 2 + 1 = 3
  OBVIOUS
<1>4. JoinOf(s \o t, s, t, 2, n) /\ SubSeq(s \o t, 2 + 1, 2 + n) = t
  <2>1. JoinOf(s \o t, s, t, 2, n)
    BY <1>2, <1>3, Joined
  <2>2. SubSeq(s \o t, Len(s) + 1, Len(s) + Len(t)) = t
    BY <1>2, Behind
  <2> QED
    BY <1>2, <2>1, <2>2, Zenon
<1>5. h = s \o t
  BY <1>1
<1>6. HeadOf(h, op, b, n)
  BY <1>2, <1>4, <1>5 DEF JoinOf, HeadOf
<1>7. CutOf(h, n, t)
  BY <1>3, <1>4, <1>5 DEF CutOf
<1> QED
  BY <1>6, <1>7

LEMMA ReadForms ==
    ASSUME NEW h
    PROVE  /\ ReadHeader(h).opcode = h[1] % 16
           /\ h[2] = 126 => /\ ReadHeader(h).len = FromNetwork2(SubSeq(h, 3, 4))
                            /\ ReadHeader(h).size = 4
           /\ h[2] = 127 => /\ ReadHeader(h).len = FromNetwork8(SubSeq(h, 3, 10))
                            /\ ReadHeader(h).size = 10
           /\ h[2] # 126 /\ h[2] # 127 =>
                  ReadHeader(h).len = h[2] /\ ReadHeader(h).size = 2
<1> DEFINE two   == FromNetwork2(SubSeq(h, 3, 4))
           eight == FromNetwork8(SubSeq(h, 3, 10))
<1>1. ReadHeader(h) =
          [opcode |-> h[1] % 16,
           len    |-> CASE h[2] = 126 -> two [] h[2] = 127 -> eight [] OTHER -> h[2],
           size   |-> CASE h[2] = 126 -> 4 [] h[2] = 127 -> 10 [] OTHER -> 2]
  BY DEF ReadHeader
<1> HIDE DEF two, eight
<1> SUFFICES /\ ReadHeader(h).opcode = h[1] % 16
             /\ h[2] = 126 => ReadHeader(h).len = two /\ ReadHeader(h).size = 4
             /\ h[2] = 127 => ReadHeader(h).len = eight /\ ReadHeader(h).size = 10
             /\ h[2] # 126 /\ h[2] # 127 =>
                    ReadHeader(h).len = h[2] /\ ReadHeader(h).size = 2
  BY DEF two, eight
<1> QED
  BY <1>1

\* The node's header: its size is the one it allocated, whatever the length,
\* and a browser reads what was meant, if the length is carried.
THEOREM NodeHeader ==
    ASSUME NEW op \in Opcodes, NEW len \in Nat
    PROVE  LET h == ws_make_frame(op, len) IN
           /\ h \in Seq(Byte) /\ Len(h) = ws_calc_frame_size(len)
           /\ ReadHeader(h).opcode = op /\ ReadHeader(h).size = Len(h)
           /\ Carried(len) => ReadHeader(h).len = len
<1>1. PICK h : h = ws_make_frame(op, len)
  OBVIOUS
<1> SUFFICES /\ h \in Seq(Byte) /\ Len(h) = ws_calc_frame_size(len)
             /\ ReadHeader(h).opcode = op /\ ReadHeader(h).size = Len(h)
             /\ Carried(len) => ReadHeader(h).len = len
  BY <1>1, Zenon
<1>2. CASE InOne(len)
  <2>1. h = Opening(op, len) /\ len \in 0 .. 125
    BY <1>1, <1>2, MadeForms, Forms, Zenon
  <2>2. len \in Byte /\ len # 126 /\ len # 127
    BY <2>1 DEF Byte
  <2>3. h \in Seq(Byte) /\ Len(h) = 2 /\ h[1] % 16 = op /\ h[2] = len
    BY <2>1, <2>2, FirstTwo
  <2>4. ws_calc_frame_size(len) = 2
    BY <1>2, SizeForms
  <2> QED
    BY <2>2, <2>3, <2>4, ReadForms
<1>3. CASE InTwo(len)
  <2>1. PICK t : t = Network2(len)
    OBVIOUS
  <2>2. h = Opening(op, 126) \o t
    BY <1>1, <1>3, <2>1, MadeForms, Zenon
  <2>3. TwoOf(t, len) /\ OneWord(len)
    BY <1>3, <2>1, TwoBytes DEF InTwo, OneWord
  <2>4. 126 \in Byte /\ 2 \in Nat /\ 2 > 0
    BY DEF Byte
  <2>5. HeadOf(h, op, 126, 2) /\ CutOf(h, 2, t)
    <3>1. t \in Seq(Byte) /\ Len(t) = 2
      BY <2>3 DEF TwoOf
    <3> QED
      BY <2>2, <2>4, <3>1, Extended, ZenonT(40)
  <2>6. FromNetwork2(t) = len
    BY <2>3, Zenon DEF FromNetwork2, TwoOf
  <2>7. ws_calc_frame_size(len) = 4
    BY <1>3, SizeForms
  <2>8. /\ h \in Seq(Byte) /\ Len(h) = 4 /\ h[1] % 16 = op /\ h[2] = 126
        /\ SubSeq(h, 3, 4) = t
    BY <2>5 DEF HeadOf, CutOf
  <2>9. /\ ReadHeader(h).opcode = op /\ ReadHeader(h).size = 4
        /\ ReadHeader(h).len = FromNetwork2(t)
    BY <2>8, ReadForms, Zenon
  <2> QED
    BY <2>6, <2>7, <2>8, <2>9, Zenon
<1>4. CASE InEight(len)
  <2>1. PICK t : t = htonll(len)
    OBVIOUS
  <2>2. h = Opening(op, 127) \o t
    BY <1>1, <1>4, <2>1, MadeForms, Zenon
  <2>3. t \in Seq(Byte) /\ Len(t) = 8
    BY <2>1, EightWritten
  <2>4. 127 \in Byte /\ 8 \in Nat /\ 8 > 0
    BY DEF Byte
  <2>5. HeadOf(h, op, 127, 8) /\ CutOf(h, 8, t)
    <3>1. t \in Seq(Byte) /\ Len(t) = 8
      BY <2>3 DEF TwoOf
    <3> QED
      BY <2>2, <2>4, <3>1, Extended, ZenonT(40)
  <2>6. Carried(len) => FromNetwork8(t) = len
    BY <1>4, <2>1, Forms, KeptBytes, EightBytes, Zenon DEF Carried
  <2>7. ws_calc_frame_size(len) = 10
    BY <1>4, SizeForms
  <2>8. /\ h \in Seq(Byte) /\ Len(h) = 10 /\ h[1] % 16 = op /\ h[2] = 127
        /\ SubSeq(h, 3, 10) = t
    BY <2>5 DEF HeadOf, CutOf
  <2>9. /\ ReadHeader(h).opcode = op /\ ReadHeader(h).size = 10
        /\ ReadHeader(h).len = FromNetwork8(t)
    BY <2>8, ReadForms, Zenon
  <2> QED
    BY <2>6, <2>7, <2>8, <2>9, Zenon
<1> QED
  BY <1>2, <1>3, <1>4, Forms

\* The masking key lies behind the length.
MaskedOf(h, f, key, n) ==
    /\ h \in Seq(Byte) /\ Len(h) = 2 + n + 4
    /\ h[1] = f[1] /\ h[2] = f[2]
    /\ SubSeq(h, 3 + n, 6 + n) = key
    /\ n > 0 => SubSeq(h, 3, 2 + n) = SubSeq(f, 3, 2 + n)

LEMMA Masked ==
    ASSUME NEW f \in Seq(Byte), NEW key \in Seq(Byte), NEW n \in Nat,
           Len(f) = 2 + n, Len(key) = 4, NEW h, h = f \o key
    PROVE  MaskedOf(h, f, key, n)
<1>1. PICK k \in Nat : k = 2 + n
  OBVIOUS
<1>2. /\ k + 1 = 3 + n /\ k + 4 = 6 + n /\ k + 4 = 2 + n + 4
      /\ 4 \in Nat /\ 4 > 0 /\ 1 \in 1 .. k /\ 2 \in 1 .. k
      /\ n > 0 => 3 \in 1 .. k
      /\ k \in 1 .. k
  BY <1>1
<1>3. JoinOf(h, f, key, k, 4) /\ SubSeq(h, k + 1, k + 4) = key
  <2>1. k \in Nat /\ Len(f) = k /\ 4 \in Nat /\ 4 > 0
    BY <1>1, <1>2
  <2>2. JoinOf(f \o key, f, key, k, 4)
    BY <2>1, Joined
  <2>3. SubSeq(f \o key, k + 1, k + 4) = key
    <3>1. SubSeq(f \o key, Len(f) + 1, Len(f) + Len(key)) = key
      BY <2>1, Behind
    <3> QED
      BY <2>1, <3>1, Zenon
  <2> QED
    BY <2>2, <2>3, Zenon
<1>4. n > 0 => SubSeq(h, 3, k) = SubSeq(f, 3, k)
  BY <1>1, <1>2, Before
<1>5. h \in Seq(Byte) /\ Len(h) = k + 4 /\ h[1] = f[1] /\ h[2] = f[2]
  BY <1>2, <1>3 DEF JoinOf
<1>6. SubSeq(h, 3 + n, 6 + n) = key
  BY <1>2, <1>3
<1> QED
  BY <1>1, <1>2, <1>4, <1>5, <1>6 DEF MaskedOf

\* What ws_parse_frame makes of a header, for each value of its length field.
ParsedOf(p, h, n, len) ==
    /\ p # Malformed
    /\ p.size = 2 + n + 4 /\ p.fin = h[1] \div 128 /\ p.opcode = h[1] % 16
    /\ p.len = len /\ p.key = SubSeq(h, 3 + n, 6 + n)

LEMMA ParseForms ==
    ASSUME NEW h, NEW short \in 0 .. 127, h[2] = 128 + short
    PROVE  LET p == ws_parse_frame(h) IN
           /\ short = 126 => ParsedOf(p, h, 2, FromNetwork2(SubSeq(h, 3, 2 + 2)))
           /\ short = 127 => ParsedOf(p, h, 8, ntohll(SubSeq(h, 3, 2 + 8)))
           /\ short < 126 => ParsedOf(p, h, 0, short)
<1>1. h[2] % 128 = short /\ ~(h[2] < 128)
  OBVIOUS
<1>2. PICK width : width = CASE short = 126 -> 2 [] short = 127 -> 8 [] OTHER -> 0
  OBVIOUS
<1>3. PICK bytes, key : /\ bytes = SubSeq(h, 3, 2 + width)
                        /\ key = SubSeq(h, 3 + width, 6 + width)
  OBVIOUS
<1>4. PICK two, eight : two = FromNetwork2(bytes) /\ eight = ntohll(bytes)
  OBVIOUS
<1>5. ws_parse_frame(h) =
          [size   |-> 2 + width + 4,
           fin    |-> h[1] \div 128,
           opcode |-> h[1] % 16,
           len    |-> CASE short = 126 -> two [] short = 127 -> eight [] OTHER -> short,
           key    |-> key]
  BY <1>1, <1>2, <1>3, <1>4, ZenonT(40) DEF ws_parse_frame
<1>6. PICK p : p = ws_parse_frame(h)
  OBVIOUS
<1>7. /\ p.size = 2 + width + 4 /\ p.fin = h[1] \div 128 /\ p.opcode = h[1] % 16
      /\ p.key = key
      /\ p.len = CASE short = 126 -> two [] short = 127 -> eight [] OTHER -> short
  BY <1>5, <1>6
<1>8. width \in {0, 2, 8}
  BY <1>2
<1>9. p # Malformed
  <2>1. Malformed.size = -1
    BY DEF Malformed
  <2>2. 2 + width + 4 # -1
    BY <1>8
  <2> QED
    BY <1>7, <2>1, <2>2
<1>10. short = 126 => ParsedOf(p, h, 2, FromNetwork2(SubSeq(h, 3, 2 + 2)))
  BY <1>2, <1>3, <1>4, <1>7, <1>9 DEF ParsedOf
<1>11. short = 127 => ParsedOf(p, h, 8, ntohll(SubSeq(h, 3, 2 + 8)))
  BY <1>2, <1>3, <1>4, <1>7, <1>9 DEF ParsedOf
<1>12. short < 126 => ParsedOf(p, h, 0, short)
  BY <1>2, <1>3, <1>7, <1>9 DEF ParsedOf
<1> QED
  BY <1>6, <1>10, <1>11, <1>12, Zenon

\* A browser's header is taken for what it is, and its length for what was
\* meant, if it is carried.
ReadAs(h, op, len, key) ==
    LET p == ws_parse_frame(h) IN
    /\ p # Malformed
    /\ p.size = Len(h) /\ p.fin = 1 /\ p.opcode = op /\ p.key = key
    /\ Carried(len) => p.len = len

THEOREM PageHeader ==
    ASSUME NEW op \in Opcodes, NEW len \in Nat, len < FarLength,
           NEW key \in Seq(Byte), Len(key) = 4
    PROVE  LET h == ClientHeader(op, len, key) IN
           h \in Seq(Byte) /\ ReadAs(h, op, len, key)
<1>1. PICK h : h = ClientHeader(op, len, key)
  OBVIOUS
<1>2. PICK p : p = ws_parse_frame(h)
  OBVIOUS
<1>3. ClientForm(h, op, len, key)
  BY <1>1, ClientForms, Zenon
<1> SUFFICES ASSUME NEW n \in {0, 2, 8}, NEW f, NEW short, NEW l
             PROVE  /\ MaskedOf(h, f, key, n)
                    /\ f[1] = 128 + op /\ f[2] = 128 + short
                    /\ ParsedOf(p, h, n, l) /\ (Carried(len) => l = len)
                    /\ (128 + op) % 16 = op /\ (128 + op) \div 128 = 1
                    => h \in Seq(Byte) /\ ReadAs(h, op, len, key)
  <2>1. CASE InOne(len)
    <3>1. PICK f : f = Opening(op, 128 + len)
      OBVIOUS
    <3>2. len \in 0 .. 125
      BY <2>1, Forms
    <3>3. 128 + len \in Byte /\ len \in 0 .. 127 /\ len < 126
      BY <3>2 DEF Byte
    <3>4. /\ f \in Seq(Byte) /\ Len(f) = 2 /\ f[1] = 128 + op /\ f[2] = 128 + len
          /\ (128 + op) % 16 = op /\ (128 + op) \div 128 = 1
      BY <3>1, <3>3, FirstTwo
    <3>5. 0 \in Nat /\ Len(f) = 2 + 0
      BY <3>4
    <3>6. h = f \o key
      BY <1>3, <2>1, <3>1 DEF ClientForm
    <3>7. MaskedOf(h, f, key, 0)
      BY <3>4, <3>5, <3>6, Masked, Zenon
    <3>8. h[2] = 128 + len
      BY <3>4, <3>7, Zenon DEF MaskedOf
    <3>9. ParsedOf(p, h, 0, len)
      BY <1>2, <3>3, <3>8, ParseForms, Zenon
    <3> QED
      BY <1>1, <3>4, <3>7, <3>9
  <2>2. CASE InTwo(len)
    <3>1. PICK t, f : t = Network2(len) /\ f = Opening(op, 128 + 126) \o t
      OBVIOUS
    <3>2. TwoOf(t, len) /\ OneWord(len)
      BY <2>2, <3>1, TwoBytes DEF InTwo, OneWord
    <3>3. /\ 128 + 126 \in Byte /\ 2 \in Nat /\ 2 > 0 /\ 126 \in 0 .. 127
          /\ t \in Seq(Byte) /\ Len(t) = 2
      BY <3>2 DEF Byte, TwoOf
    <3>4. HeadOf(f, op, 128 + 126, 2) /\ CutOf(f, 2, t)
      BY <3>1, <3>3, Extended, ZenonT(40)
    <3>5. FromNetwork2(t) = len
      BY <3>2, Zenon DEF FromNetwork2, TwoOf
    <3>6. h = f \o key
      BY <1>3, <2>2, <3>1 DEF ClientForm
    <3>7. MaskedOf(h, f, key, 2)
      BY <3>3, <3>4, <3>6, Masked, Zenon DEF HeadOf
    <3>8. h[2] = 128 + 126 /\ SubSeq(h, 3, 2 + 2) = t
      BY <3>4, <3>7 DEF MaskedOf, HeadOf, CutOf
    <3>9. ParsedOf(p, h, 2, len)
      BY <1>2, <3>3, <3>5, <3>8, ParseForms
    <3> QED
      BY <1>1, <3>4, <3>7, <3>9, ZenonT(40) DEF HeadOf
  <2>3. CASE InEight(len)
    <3>1. PICK t, f : t = Network8(len) /\ f = Opening(op, 128 + 127) \o t
      OBVIOUS
    <3>2. t \in Seq(Byte) /\ Len(t) = 8 /\ (Carried(len) => ntohll(t) = len)
      BY <2>3, <3>1, Forms, EightBytes, KeptBytes, Zenon DEF Carried
    <3>3. 128 + 127 \in Byte /\ 8 \in Nat /\ 8 > 0 /\ 127 \in 0 .. 127
      BY DEF Byte
    <3>4. HeadOf(f, op, 128 + 127, 8) /\ CutOf(f, 8, t)
      BY <3>1, <3>2, <3>3, Extended, ZenonT(40)
    <3>6. h = f \o key
      BY <1>3, <2>3, <3>1 DEF ClientForm
    <3>7. MaskedOf(h, f, key, 8)
      BY <3>3, <3>4, <3>6, Masked, Zenon DEF HeadOf
    <3>8. h[2] = 128 + 127 /\ SubSeq(h, 3, 2 + 8) = t
      BY <3>4, <3>7 DEF MaskedOf, HeadOf, CutOf
    <3>9. ParsedOf(p, h, 8, ntohll(t))
      BY <1>2, <3>3, <3>8, ParseForms
    <3> QED
      BY <1>1, <3>2, <3>4, <3>7, <3>9, ZenonT(120) DEF HeadOf
  <2> QED
    BY <2>1, <2>2, <2>3, Forms
<1>4. HAVE /\ MaskedOf(h, f, key, n)
           /\ f[1] = 128 + op /\ f[2] = 128 + short
           /\ ParsedOf(p, h, n, l) /\ (Carried(len) => l = len)
           /\ (128 + op) % 16 = op /\ (128 + op) \div 128 = 1
<1> QED
  BY <1>2, <1>4 DEF MaskedOf, ParsedOf, ReadAs

-----------------------------------------------------------------------------
(* The frames there are                                                      *)

TextFrame(type, name) ==
    [header  |-> ws_make_frame(WS_OPCODE_TEXT, JsonLen(type, name)),
     content |-> [event |-> type, username |-> name],
     len     |-> JsonLen(type, name)]
AnswerFrame(l) ==
    [header  |-> ws_make_frame(WS_OPCODE_CLOSE, l),
     content |-> Content("none"), len |-> 0]
RequestFrame(len) ==
    [header  |-> ClientHeader(WS_OPCODE_TEXT, len, MaskKey),
     content |-> Content("connect"), len |-> len]
CloseFrame(event, len) ==
    [header  |-> ClientHeader(WS_OPCODE_CLOSE, len, MaskKey),
     content |-> Content(event), len |-> len]

Texts    == {TextFrame(type, name) : type \in Types, name \in Names}
Answers  == {AnswerFrame(0), AnswerFrame(2)}
Requests == {RequestFrame(len) : len \in ConnectLens}
Closes   == {CloseFrame("none", 0), CloseFrame("close code", 2)}

\* The lengths the node and the browser write in this configuration.
LengthsCarried ==
    /\ \A type \in Types, name \in Names : Carried(JsonLen(type, name))
    /\ \A len \in ConnectLens : Carried(len)

LEMMA MaskKeyIsSeq == MaskKey \in Seq(Byte) /\ Len(MaskKey) = 4
<1>1. MaskKey \in [1 .. 4 -> Byte] /\ 4 \in Nat
  BY FrontendAssumption
<1>2. MaskKey \in Seq(Byte)
  BY <1>1, SeqDef
<1>3. DOMAIN MaskKey = 1 .. 4
  BY <1>1
<1>4. DOMAIN MaskKey = 1 .. Len(MaskKey) /\ Len(MaskKey) \in Nat
  BY <1>2, LenProperties
<1>5. \A n \in Nat : 1 .. n = 1 .. 4 => n = 4
  <2> SUFFICES ASSUME NEW n \in Nat, 1 .. n = 1 .. 4 PROVE n = 4
    OBVIOUS
  <2>1. 4 \in 1 .. n /\ (n # 0 => n \in 1 .. 4)
    OBVIOUS
  <2> QED
    BY <2>1
<1> QED
  BY <1>2, <1>3, <1>4, <1>5, Zenon

LEMMA JsonLenType ==
    ASSUME NEW type \in Types, NEW name \in Names
    PROVE  JsonLen(type, name) \in Nat /\ JsonLen(type, name) < FarLength
<1>1. NameLen[name] \in Nat /\ NameLen[name] + 36 < FarLength /\ FarLength \in Nat
  BY FrontendAssumption, FarIsNat
<1>2. \A n \in Nat, f \in Nat : n + 36 < f => n + 35 < f /\ n + 35 \in Nat /\ n + 36 \in Nat
  OBVIOUS
<1>3. JsonLen(type, name) \in {NameLen[name] + 35, NameLen[name] + 36}
  BY Zenon DEF JsonLen
<1> QED
  BY <1>1, <1>2, <1>3, Zenon

\* What the two ends read of each kind.
TextRead(f) ==
    LET head == ReadHeader(f.header) IN
    /\ head.opcode = WS_OPCODE_TEXT /\ head.size = Len(f.header)
    /\ LengthsCarried => head.len = f.len
AnswerRead(f) ==
    LET head == ReadHeader(f.header) IN
    /\ head.opcode = WS_OPCODE_CLOSE /\ head.size = Len(f.header)
    /\ f.len = 0 /\ (head.len = f.len \/ head.len > f.len)
NodeRead(f, op) ==
    LET p == ws_parse_frame(f.header) IN
    /\ p # Malformed
    /\ p.size = Len(f.header) /\ p.fin = 1 /\ p.opcode = op /\ p.key = MaskKey

LEMMA SmallCarried == \A l \in {0, 2} : Carried(l) /\ l \in Nat /\ l < FarLength
BY SMT DEF Carried, OneWord, FarLength, FarWord

LEMMA OpcodesKnown ==
    /\ WS_OPCODE_TEXT \in Opcodes /\ WS_OPCODE_CLOSE \in Opcodes
    /\ WS_OPCODE_TEXT # WS_OPCODE_CLOSE
BY DEF Opcodes, WS_OPCODE_TEXT, WS_OPCODE_CLOSE

LEMMA TextIsRead ==
    ASSUME NEW type \in Types, NEW name \in Names
    PROVE  /\ TextRead(TextFrame(type, name))
           /\ TextFrame(type, name).header \in Seq(Byte)
<1>1. PICK f, h, len : /\ f = TextFrame(type, name)
                       /\ len = JsonLen(type, name)
                       /\ h = ws_make_frame(WS_OPCODE_TEXT, len)
  OBVIOUS
<1>2. f.header = h /\ f.len = len
  BY <1>1 DEF TextFrame
<1>3. len \in Nat /\ len < FarLength
  BY <1>1, JsonLenType
<1>4. /\ h \in Seq(Byte)
      /\ ReadHeader(h).opcode = WS_OPCODE_TEXT /\ ReadHeader(h).size = Len(h)
      /\ Carried(len) => ReadHeader(h).len = len
  BY <1>1, <1>3, NodeHeader, OpcodesKnown
<1>5. LengthsCarried => Carried(len)
  BY <1>1, Zenon DEF LengthsCarried
<1>6. TextRead(f)
  BY <1>2, <1>4, <1>5, Zenon DEF TextRead
<1> QED
  BY <1>1, <1>2, <1>4, <1>6, Zenon

LEMMA TextsAre ==
    /\ \A f \in Texts : \E type \in Types, name \in Names : f = TextFrame(type, name)
    /\ \A type \in Types, name \in Names : TextFrame(type, name) \in Texts
BY DEF Texts

LEMMA AnswerIsRead ==
    ASSUME NEW f \in Answers
    PROVE  AnswerRead(f) /\ f.header \in Seq(Byte)
<1>1. PICK l \in {0, 2} : f = AnswerFrame(l)
  BY Zenon DEF Answers
<1>2. PICK h : h = ws_make_frame(WS_OPCODE_CLOSE, l)
  OBVIOUS
<1>3. f.header = h /\ f.len = 0
  BY <1>1, <1>2 DEF AnswerFrame
<1>4. Carried(l) /\ l \in Nat
  BY SmallCarried
<1>5. /\ h \in Seq(Byte)
      /\ ReadHeader(h).opcode = WS_OPCODE_CLOSE /\ ReadHeader(h).size = Len(h)
      /\ ReadHeader(h).len = l
  BY <1>2, <1>4, NodeHeader, OpcodesKnown
<1>6. l = 0 \/ l > 0
  OBVIOUS
<1>7. AnswerRead(f)
  BY <1>3, <1>5, <1>6, Zenon DEF AnswerRead
<1> QED
  BY <1>3, <1>5, <1>7, Zenon

LEMMA RequestIsRead ==
    ASSUME NEW f \in Requests
    PROVE  /\ NodeRead(f, WS_OPCODE_TEXT) /\ f.header \in Seq(Byte)
           /\ LengthsCarried => ws_parse_frame(f.header).len = f.len
<1>1. PICK len \in ConnectLens : f = RequestFrame(len)
  BY Zenon DEF Requests
<1>2. PICK h : h = ClientHeader(WS_OPCODE_TEXT, len, MaskKey)
  OBVIOUS
<1>3. f.header = h /\ f.len = len
  BY <1>1, <1>2 DEF RequestFrame
<1>4. len \in Nat /\ len < FarLength
  BY FrontendAssumption, FarIsNat
<1>5. h \in Seq(Byte) /\ ReadAs(h, WS_OPCODE_TEXT, len, MaskKey)
  BY <1>2, <1>4, PageHeader, MaskKeyIsSeq, OpcodesKnown
<1>6. LengthsCarried => Carried(len)
  BY Zenon DEF LengthsCarried
<1> QED
  BY <1>3, <1>5, <1>6, Zenon DEF NodeRead, ReadAs

LEMMA CloseIsRead ==
    ASSUME NEW f \in Closes
    PROVE  /\ NodeRead(f, WS_OPCODE_CLOSE) /\ f.header \in Seq(Byte)
           /\ ws_parse_frame(f.header).len = f.len
           /\ f.len \in {0, 2}
<1>1. PICK event, len : f = CloseFrame(event, len) /\ len \in {0, 2}
  BY Zenon DEF Closes
<1>2. PICK h : h = ClientHeader(WS_OPCODE_CLOSE, len, MaskKey)
  OBVIOUS
<1>3. f.header = h /\ f.len = len
  BY <1>1, <1>2 DEF CloseFrame
<1>4. len \in Nat /\ len < FarLength /\ Carried(len)
  BY <1>1, SmallCarried
<1>5. h \in Seq(Byte) /\ ReadAs(h, WS_OPCODE_CLOSE, len, MaskKey)
  BY <1>2, <1>4, PageHeader, MaskKeyIsSeq, OpcodesKnown
<1> QED
  BY <1>1, <1>3, <1>4, <1>5, Zenon DEF NodeRead, ReadAs

-----------------------------------------------------------------------------
(* What the actions do to the frames                                         *)

FramesKnown ==
    /\ toPage \in Seq(Texts \cup Answers)
    /\ toNode \in Seq(Requests \cup Closes)

\* An event is written behind the others, or nobody hears of it.
LEMMA EventEffect ==
    ASSUME NEW type \in Types, NEW name \in Names, vcmp_api_event_user(type, name)
    PROVE  \/ api_user /\ toPage' = Append(toPage, TextFrame(type, name)) /\ gap' = gap
           \/ toPage' = toPage /\ gap' = TRUE
<1>1. SizesAgree(WS_OPCODE_TEXT, JsonLen(type, name))
  BY JsonLenType, NodeHeader, OpcodesKnown DEF SizesAgree
<1> QED
  BY <1>1, Zenon DEF vcmp_api_event_user, ws_client_send, TextFrame

\* A request leaves no trace but a misread length; a CLOSE is answered and the
\* user forgotten.
LEMMA ReadCbEffect ==
    ASSUME FramesKnown, read_cb
    PROVE  /\ conn /\ conn' = TRUE /\ handshake_done /\ toNode # << >>
           /\ toNode' = Tail(toNode)
           /\ misread' \in BOOLEAN
           /\ \/ /\ Head(toNode) \in Requests
                 /\ toPage' = toPage /\ api_user' = api_user
                 /\ LengthsCarried /\ ~misread => ~misread'
              \/ /\ Head(toNode) \in Closes
                 /\ toPage' = Append(toPage, AnswerFrame(Head(toNode).len))
                 /\ AnswerFrame(Head(toNode).len) \in Answers
                 /\ api_user' = FALSE
                 /\ ~misread => ~misread'
<1>1. PICK sent, p : sent = Head(toNode) /\ p = ws_parse_frame(sent.header)
  OBVIOUS
<1>2. toNode # << >>
  BY DEF read_cb
<1>3. sent \in Requests \cup Closes
  BY <1>1, <1>2, HeadTailProperties DEF FramesKnown
<1>4. /\ conn /\ handshake_done /\ toNode' = Tail(toNode) /\ conn' = (p # Malformed)
      /\ misread' = \/ misread
                    \/ p = Malformed
                    \/ p.size # Len(sent.header) \/ p.len # sent.len
                    \/ p.key # MaskKey \/ p.fin # 1
      /\ IF p # Malformed /\ p.opcode = WS_OPCODE_CLOSE
         THEN /\ api_user' = FALSE
              /\ toPage' = Append(toPage,
                     [header |-> ws_make_frame(p.opcode, p.len),
                      content |-> Content("none"), len |-> 0])
         ELSE toPage' = toPage /\ api_user' = api_user
  BY <1>1, Zenon DEF read_cb, close_cb
<1>5. misread' \in BOOLEAN /\ (p # Malformed => conn' = TRUE)
  BY <1>4
<1>6. CASE sent \in Requests
  <2>1. /\ p # Malformed /\ p.opcode = WS_OPCODE_TEXT
        /\ p.size = Len(sent.header) /\ p.fin = 1 /\ p.key = MaskKey
        /\ LengthsCarried => p.len = sent.len
    BY <1>1, <1>6, RequestIsRead, Zenon DEF NodeRead
  <2>2. /\ toPage' = toPage /\ api_user' = api_user
        /\ LengthsCarried /\ ~misread => ~misread'
    BY <1>4, <2>1, OpcodesKnown, Zenon
  <2> QED
    BY <1>1, <1>2, <1>4, <1>5, <1>6, <2>1, <2>2, Zenon
<1>7. CASE sent \in Closes
  <2>1. /\ p # Malformed /\ p.opcode = WS_OPCODE_CLOSE
        /\ p.size = Len(sent.header) /\ p.fin = 1 /\ p.key = MaskKey
        /\ p.len = sent.len /\ sent.len \in {0, 2}
    BY <1>1, <1>7, CloseIsRead, Zenon DEF NodeRead
  <2>2. AnswerFrame(sent.len) \in Answers
    BY <2>1, Zenon DEF Answers
  <2>3. toPage' = Append(toPage, AnswerFrame(sent.len))
    BY <1>4, <2>1, Zenon DEF AnswerFrame
  <2>4. api_user' = FALSE /\ (~misread => ~misread')
    BY <1>4, <2>1, Zenon
  <2> QED
    BY <1>1, <1>2, <1>4, <1>5, <1>7, <2>1, <2>2, <2>3, <2>4, Zenon
<1> QED
  BY <1>3, <1>6, <1>7

\* An event is heard while the socket is open, and the answer to a CLOSE ends
\* the connection or, if it announces a payload, leaves the browser waiting.
LEMMA ReadEffect ==
    ASSUME FramesKnown, Read, LengthsCarried, reader = "between frames"
    PROVE  /\ toPage # << >> /\ toPage' = Tail(toPage)
           /\ \/ /\ Head(toPage) \in Texts /\ reader' = reader
                 /\ socket' = socket
                 /\ \/ socket = "OPEN" /\ parseData(Head(toPage).content)
                    \/ socket = "CLOSING" /\ members' = members
              \/ /\ Head(toPage) \in Answers
                 /\ members' = members
                 /\ \/ reader' = reader /\ socket' = "CLOSED"
                    \/ reader' = "inside a frame" /\ socket' = socket
<1>1. PICK frame, head : frame = Head(toPage) /\ head = ReadHeader(frame.header)
  OBVIOUS
<1>2. toPage # << >> /\ toPage' = Tail(toPage)
  BY Zenon DEF Read
<1>3. frame \in Texts \cup Answers
  BY <1>1, <1>2, HeadTailProperties DEF FramesKnown
<1>4. PICK whole, cut :
          /\ whole <=> head.size = Len(frame.header) /\ head.len = frame.len
          /\ cut <=> head.size = Len(frame.header) /\ head.len > frame.len
          /\ socket \in {"OPEN", "CLOSING"}
          /\ reader' = IF whole THEN reader
                       ELSE IF cut THEN "inside a frame" ELSE "lost"
          /\ \/ /\ whole /\ head.opcode = WS_OPCODE_TEXT /\ socket = "OPEN"
                /\ parseData(frame.content)
                /\ socket' = socket
             \/ /\ whole /\ head.opcode = WS_OPCODE_CLOSE
                /\ socket' = "CLOSED" /\ members' = members
             \/ /\ ~whole \/ (head.opcode = WS_OPCODE_TEXT /\ socket = "CLOSING")
                /\ members' = members /\ socket' = socket
  BY <1>1, Zenon DEF Read, Close
<1>5. CASE frame \in Texts
  <2>1. /\ head.opcode = WS_OPCODE_TEXT /\ head.size = Len(frame.header)
        /\ head.len = frame.len
    <3>1. PICK type \in Types, name \in Names : frame = TextFrame(type, name)
      BY <1>5, TextsAre, Zenon
    <3>2. TextRead(frame)
      BY <3>1, TextIsRead, Zenon
    <3> QED
      BY <1>1, <3>2, Zenon DEF TextRead
  <2> QED
    BY <1>1, <1>2, <1>4, <1>5, <2>1, OpcodesKnown, Zenon
<1>6. CASE frame \in Answers
  <2>1. /\ head.opcode = WS_OPCODE_CLOSE /\ head.size = Len(frame.header)
        /\ head.len = frame.len \/ head.len > frame.len
    BY <1>1, <1>6, AnswerIsRead, Zenon DEF AnswerRead
  <2> QED
    BY <1>1, <1>2, <1>4, <1>6, <2>1, OpcodesKnown, Zenon
<1> QED
  BY <1>3, <1>5, <1>6

-----------------------------------------------------------------------------
(* Sequences of frames                                                       *)

Has(s, A)      == \E i \in 1 .. Len(s) : s[i] \in A
LastOnly(s, A) == \A i \in 1 .. Len(s) : s[i] \in A => i = Len(s)

LEMMA EmptyHas ==
    ASSUME NEW A
    PROVE  ~Has(<< >>, A) /\ LastOnly(<< >>, A)
BY DEF Has, LastOnly

LEMMA AppendHas ==
    ASSUME NEW S, NEW s \in Seq(S), NEW e \in S, NEW A
    PROVE  /\ Append(s, e) \in Seq(S)
           /\ Has(Append(s, e), A) <=> Has(s, A) \/ e \in A
           /\ ~Has(s, A) => LastOnly(Append(s, e), A)
           /\ Append(s, e) # << >>
<1>1. PICK t : t = Append(s, e)
  OBVIOUS
<1>2. /\ t \in Seq(S) /\ Len(t) = Len(s) + 1 /\ Len(s) \in Nat
      /\ t[Len(s) + 1] = e /\ \A i \in 1 .. Len(s) : t[i] = s[i]
  BY <1>1
<1>3. Has(t, A) <=> Has(s, A) \/ e \in A
  BY <1>2 DEF Has
<1>4. ~Has(s, A) => LastOnly(t, A)
  BY <1>2 DEF Has, LastOnly
<1> QED
  BY <1>1, <1>2, <1>3, <1>4

LEMMA TailHas ==
    ASSUME NEW S, NEW s \in Seq(S), s # << >>, NEW A
    PROVE  /\ Head(s) \in S /\ Tail(s) \in Seq(S)
           /\ Has(Tail(s), A) => Has(s, A)
           /\ Head(s) \in A => Has(s, A)
           /\ LastOnly(s, A) => LastOnly(Tail(s), A)
           /\ LastOnly(s, A) /\ Head(s) \in A => Tail(s) = << >>
<1>1. PICK t : t = Tail(s)
  OBVIOUS
<1>2. /\ t \in Seq(S) /\ Len(t) = Len(s) - 1 /\ Len(s) \in Nat /\ Len(s) > 0
      /\ Head(s) = s[1] /\ Head(s) \in S
      /\ \A i \in 1 .. Len(t) : t[i] = s[i + 1]
  BY <1>1
<1>3. /\ Has(t, A) => Has(s, A)
      /\ Head(s) \in A => Has(s, A)
  BY <1>2 DEF Has
<1>4. LastOnly(s, A) => LastOnly(t, A)
  BY <1>2 DEF LastOnly
<1>5. LastOnly(s, A) /\ Head(s) \in A => Len(t) = 0
  BY <1>2 DEF LastOnly
<1> QED
  BY <1>1, <1>2, <1>3, <1>4, <1>5, EmptySeq

-----------------------------------------------------------------------------
(* Only those frames are on their way                                        *)

LEMMA SendAppends ==
    /\ \A len : Send(WS_OPCODE_TEXT, Content("connect"), len)
                    => toNode' = Append(toNode, RequestFrame(len))
    /\ Send(WS_OPCODE_CLOSE, Content("none"), 0)
           => toNode' = Append(toNode, CloseFrame("none", 0))
    /\ Send(WS_OPCODE_CLOSE, Content("close code"), 2)
           => toNode' = Append(toNode, CloseFrame("close code", 2))
BY Zenon DEF Send, RequestFrame, CloseFrame

LEMMA ButtonEffect ==
    ASSUME SendButton
    PROVE  \E f \in Requests : toNode' = Append(toNode, f)
BY SendAppends, Zenon DEF SendButton, Requests

LEMMA ClosingEffect ==
    ASSUME StartClosing
    PROVE  \E f \in Closes : toNode' = Append(toNode, f)
BY SendAppends, Zenon DEF StartClosing, Closes

\* The steps, by what becomes of the frames in either direction.
LEMMA FramesMoved ==
    ASSUME FramesKnown, [Next]_vars
    PROVE  /\ \/ toPage' = toPage \/ toPage' = << >>
              \/ toPage # << >> /\ toPage' = Tail(toPage)
              \/ \E f \in Texts \cup Answers : toPage' = Append(toPage, f)
           /\ \/ toNode' = toNode \/ toNode' = << >>
              \/ toNode # << >> /\ toNode' = Tail(toNode)
              \/ \E f \in Requests \cup Closes : toNode' = Append(toNode, f)
<1>1. CASE UNCHANGED vars
  BY <1>1, Zenon DEF vars
<1>2. ASSUME NEW type \in Types, NEW name \in Names, vcmp_api_event_user(type, name)
      PROVE  /\ toNode' = toNode
             /\ \/ toPage' = toPage
                \/ \E f \in Texts \cup Answers : toPage' = Append(toPage, f)
  <2>1. toNode' = toNode
    BY <1>2, Zenon DEF vcmp_api_event_user
  <2>2. TextFrame(type, name) \in Texts \cup Answers
    BY TextsAre, Zenon
  <2> QED
    BY <1>2, <2>1, <2>2, EventEffect, Zenon
<1>3. CASE read_cb
  BY <1>3, ReadCbEffect, Zenon
<1>4. CASE Accept \/ event_cb \/ NodeEnds \/ Open \/ GiveUp \/ Reload
  BY <1>4, Zenon DEF Accept, event_cb, NodeEnds, Open, GiveUp, Reload, nodeVars,
                     pageVars
<1>5. CASE Read
  BY <1>5, Zenon DEF Read
<1>6. CASE SendButton
  <2>1. toPage' = toPage
    BY <1>6, Zenon DEF SendButton
  <2> QED
    BY <1>6, <2>1, ButtonEffect, Zenon
<1>7. CASE StartClosing
  <2>1. toPage' = toPage
    BY <1>7, Zenon DEF StartClosing
  <2> QED
    BY <1>7, <2>1, ClosingEffect, Zenon
<1>8. ASSUME NEW name \in Names, SubmitUsername(name)
      PROVE  toPage' = toPage /\ toNode' = toNode
  BY <1>8, Zenon DEF SubmitUsername
<1> QED
  BY <1>1, <1>2, <1>3, <1>4, <1>5, <1>6, <1>7, <1>8, Zenon DEF Next

LEMMA SeqMoved ==
    ASSUME NEW S, NEW s \in Seq(S), NEW t,
           \/ t = s \/ t = << >>
           \/ s # << >> /\ t = Tail(s)
           \/ \E f \in S : t = Append(s, f)
    PROVE  t \in Seq(S)
<1>1. CASE t = << >>
  BY <1>1
<1>2. CASE s # << >> /\ t = Tail(s)
  BY <1>2
<1>3. CASE \E f \in S : t = Append(s, f)
  BY <1>3
<1> QED
  BY <1>1, <1>2, <1>3

LEMMA FramesStep ==
    ASSUME FramesKnown, [Next]_vars
    PROVE  FramesKnown'
<1>1. toPage' \in Seq(Texts \cup Answers)
  BY FramesMoved, SeqMoved, Zenon DEF FramesKnown
<1>2. toNode' \in Seq(Requests \cup Closes)
  BY FramesMoved, SeqMoved, Zenon DEF FramesKnown
<1> QED
  BY <1>1, <1>2, Zenon DEF FramesKnown

LEMMA FramesAlways == Spec => []FramesKnown
<1>1. Init => FramesKnown
  BY EmptySeq, Zenon DEF Init, FramesKnown
<1>2. FramesKnown /\ [Next]_vars => FramesKnown'
  BY FramesStep
<1> QED
  BY <1>1, <1>2, PTL DEF Spec

LEMMA KindsApart ==
    /\ \A f \in Texts : f \notin Answers
    /\ \A f \in Requests : f \notin Closes
<1>1. \A f \in Texts : ReadHeader(f.header).opcode = WS_OPCODE_TEXT
  <2>1. \A f : TextRead(f) => ReadHeader(f.header).opcode = WS_OPCODE_TEXT
    BY Zenon DEF TextRead
  <2>2. ASSUME NEW f \in Texts PROVE TextRead(f)
    <3>1. PICK type \in Types, name \in Names : f = TextFrame(type, name)
      BY TextsAre, Zenon
    <3> QED
      BY <3>1, TextIsRead, Zenon
  <2> QED
    BY <2>1, <2>2, Zenon
<1>2. \A f \in Answers : ReadHeader(f.header).opcode = WS_OPCODE_CLOSE
  BY AnswerIsRead, Zenon DEF AnswerRead
<1>3. \A f \in Requests : ws_parse_frame(f.header).opcode = WS_OPCODE_TEXT
  BY RequestIsRead, Zenon DEF NodeRead
<1>4. \A f \in Closes : ws_parse_frame(f.header).opcode = WS_OPCODE_CLOSE
  BY CloseIsRead, Zenon DEF NodeRead
<1>5. \A f \in Texts : f \notin Answers
  BY <1>1, <1>2, OpcodesKnown
<1>6. \A f \in Requests : f \notin Closes
  BY <1>3, <1>4, OpcodesKnown
<1> QED
  BY <1>5, <1>6

-----------------------------------------------------------------------------
(* Both ends stay in step                                                    *)

Leaving == socket \in {"CLOSING", "CLOSED"}

\* A CLOSE is the last frame of either direction, and with the browser's on
\* its way, or the node's answer, or half of that read, nothing follows: the
\* page is leaving, and the API has forgotten the user once it was read.
CloseIsLast ==
    /\ LastOnly(toPage, Answers) /\ LastOnly(toNode, Closes)
    /\ Has(toNode, Closes) =>
           Leaving /\ ~Has(toPage, Answers) /\ reader = "between frames"
    /\ Has(toPage, Answers) =>
           /\ Leaving /\ ~api_user /\ handshake_done
           /\ toNode = << >> /\ reader = "between frames"
    /\ reader = "inside a frame" =>
           /\ Leaving /\ ~api_user /\ handshake_done
           /\ toNode = << >> /\ toPage = << >>

\* The inductive invariant.
SyncInv ==
    /\ CloseIsLast
    /\ ~misread
    /\ reader \in {"between frames", "inside a frame"}

LEMMA SyncInit == Init => SyncInv
BY EmptyHas, Zenon DEF Init, SyncInv, CloseIsLast

\* What the frames of an appended or shortened sequence are, for the two
\* directions.
LEMMA PageMoves ==
    ASSUME FramesKnown
    PROVE  /\ \A f \in Texts :
                  /\ Has(Append(toPage, f), Answers) <=> Has(toPage, Answers)
                  /\ ~Has(toPage, Answers) => LastOnly(Append(toPage, f), Answers)
           /\ \A f \in Answers :
                  /\ Has(Append(toPage, f), Answers)
                  /\ ~Has(toPage, Answers) => LastOnly(Append(toPage, f), Answers)
           /\ toPage # << >> =>
                  /\ Has(Tail(toPage), Answers) => Has(toPage, Answers)
                  /\ Head(toPage) \in Answers => Has(toPage, Answers)
                  /\ LastOnly(toPage, Answers) => LastOnly(Tail(toPage), Answers)
                  /\ LastOnly(toPage, Answers) /\ Head(toPage) \in Answers
                         => Tail(toPage) = << >>
<1>1. toPage \in Seq(Texts \cup Answers)
  BY DEF FramesKnown
<1>2. \A f \in Texts : f \in Texts \cup Answers /\ f \notin Answers
  BY KindsApart
<1>3. \A f \in Answers : f \in Texts \cup Answers
  OBVIOUS
<1>4. ASSUME NEW f \in Texts
      PROVE  /\ Has(Append(toPage, f), Answers) <=> Has(toPage, Answers)
             /\ ~Has(toPage, Answers) => LastOnly(Append(toPage, f), Answers)
  BY <1>1, <1>2, AppendHas, Zenon
<1>5. ASSUME NEW f \in Answers
      PROVE  /\ Has(Append(toPage, f), Answers)
             /\ ~Has(toPage, Answers) => LastOnly(Append(toPage, f), Answers)
  BY <1>1, <1>3, AppendHas, Zenon
<1>6. toPage # << >> =>
          /\ Has(Tail(toPage), Answers) => Has(toPage, Answers)
          /\ Head(toPage) \in Answers => Has(toPage, Answers)
          /\ LastOnly(toPage, Answers) => LastOnly(Tail(toPage), Answers)
          /\ LastOnly(toPage, Answers) /\ Head(toPage) \in Answers => Tail(toPage) = << >>
  BY <1>1, TailHas, Zenon
<1> QED
  BY <1>4, <1>5, <1>6, Zenon

LEMMA NodeMoves ==
    ASSUME FramesKnown
    PROVE  /\ \A f \in Requests :
                  /\ Has(Append(toNode, f), Closes) <=> Has(toNode, Closes)
                  /\ ~Has(toNode, Closes) => LastOnly(Append(toNode, f), Closes)
                  /\ Append(toNode, f) # << >>
           /\ \A f \in Closes :
                  /\ Has(Append(toNode, f), Closes)
                  /\ ~Has(toNode, Closes) => LastOnly(Append(toNode, f), Closes)
           /\ toNode # << >> =>
                  /\ Has(Tail(toNode), Closes) => Has(toNode, Closes)
                  /\ Head(toNode) \in Closes => Has(toNode, Closes)
                  /\ LastOnly(toNode, Closes) => LastOnly(Tail(toNode), Closes)
                  /\ LastOnly(toNode, Closes) /\ Head(toNode) \in Closes
                         => Tail(toNode) = << >>
<1>1. toNode \in Seq(Requests \cup Closes)
  BY DEF FramesKnown
<1>2. \A f \in Requests : f \in Requests \cup Closes /\ f \notin Closes
  BY KindsApart
<1>3. \A f \in Closes : f \in Requests \cup Closes
  OBVIOUS
<1>4. ASSUME NEW f \in Requests
      PROVE  /\ Has(Append(toNode, f), Closes) <=> Has(toNode, Closes)
             /\ ~Has(toNode, Closes) => LastOnly(Append(toNode, f), Closes)
             /\ Append(toNode, f) # << >>
  BY <1>1, <1>2, AppendHas, Zenon
<1>5. ASSUME NEW f \in Closes
      PROVE  /\ Has(Append(toNode, f), Closes)
             /\ ~Has(toNode, Closes) => LastOnly(Append(toNode, f), Closes)
  BY <1>1, <1>3, AppendHas, Zenon
<1>6. toNode # << >> =>
          /\ Has(Tail(toNode), Closes) => Has(toNode, Closes)
          /\ Head(toNode) \in Closes => Has(toNode, Closes)
          /\ LastOnly(toNode, Closes) => LastOnly(Tail(toNode), Closes)
          /\ LastOnly(toNode, Closes) /\ Head(toNode) \in Closes => Tail(toNode) = << >>
  BY <1>1, TailHas, Zenon
<1> QED
  BY <1>4, <1>5, <1>6, Zenon

LEMMA SocketNames ==
    /\ "OPEN" \notin {"CLOSING", "CLOSED"} /\ "CONNECTING" \notin {"CLOSING", "CLOSED"}
    /\ "CLOSING" \in {"CLOSING", "CLOSED"} /\ "CLOSED" \in {"CLOSING", "CLOSED"}
    /\ "between frames" # "inside a frame" /\ "lost" # "between frames"
    /\ "lost" # "inside a frame"
OBVIOUS

LEMMA SyncEvent ==
    ASSUME FramesKnown, SyncInv, NEW type \in Types, NEW name \in Names,
           vcmp_api_event_user(type, name)
    PROVE  SyncInv'
<1>1. /\ socket' = socket /\ reader' = reader /\ toNode' = toNode
      /\ api_user' = api_user /\ handshake_done' = handshake_done
      /\ misread' = misread
  BY Zenon DEF vcmp_api_event_user, pageVars, nodeVars
<1>2. CASE toPage' = toPage
  BY <1>1, <1>2, Zenon DEF SyncInv, CloseIsLast, Leaving
<1>3. CASE api_user /\ toPage' = Append(toPage, TextFrame(type, name))
  <2>1. TextFrame(type, name) \in Texts
    BY TextsAre, Zenon
  <2>2. ~Has(toPage, Answers) /\ reader # "inside a frame"
    BY <1>3, Zenon DEF SyncInv, CloseIsLast
  <2>3. ~Has(toPage', Answers) /\ LastOnly(toPage', Answers)
    BY <1>3, <2>1, <2>2, PageMoves, Zenon
  <2> QED
    BY <1>1, <2>2, <2>3, Zenon DEF SyncInv, CloseIsLast, Leaving
<1> QED
  BY <1>2, <1>3, EventEffect, Zenon

LEMMA SyncReadCb ==
    ASSUME FramesKnown, SyncInv, LengthsCarried, read_cb
    PROVE  SyncInv'
<1>1. /\ socket' = socket /\ reader' = reader /\ handshake_done' = handshake_done
      /\ toNode # << >> /\ toNode' = Tail(toNode)
  BY Zenon DEF read_cb, pageVars
<1>2. ~Has(toPage, Answers) /\ reader # "inside a frame"
  BY <1>1, Zenon DEF SyncInv, CloseIsLast
<1>3. CASE /\ toPage' = toPage /\ api_user' = api_user /\ ~misread'
  <2>1. /\ Has(toNode', Closes) => Has(toNode, Closes)
        /\ LastOnly(toNode', Closes)
    BY <1>1, NodeMoves, Zenon DEF SyncInv, CloseIsLast
  <2> QED
    BY <1>1, <1>2, <1>3, <2>1, Zenon DEF SyncInv, CloseIsLast, Leaving
<1>4. CASE /\ Head(toNode) \in Closes
           /\ \E f \in Answers : toPage' = Append(toPage, f)
           /\ ~api_user' /\ ~misread' /\ handshake_done
  <2>1. toNode' = << >> /\ Has(toNode, Closes)
    BY <1>1, <1>4, NodeMoves, Zenon DEF SyncInv, CloseIsLast
  <2>2. Leaving /\ reader = "between frames"
    BY <2>1, Zenon DEF SyncInv, CloseIsLast
  <2>3. LastOnly(toPage', Answers)
    BY <1>2, <1>4, PageMoves, Zenon
  <2>4. ~Has(toNode', Closes) /\ LastOnly(toNode', Closes)
    BY <2>1, EmptyHas, Zenon
  <2> QED
    BY <1>1, <1>4, <2>1, <2>2, <2>3, <2>4, SocketNames, Zenon
       DEF SyncInv, CloseIsLast, Leaving
<1> QED
  BY <1>3, <1>4, ReadCbEffect, Zenon DEF SyncInv

LEMMA SyncRead ==
    ASSUME FramesKnown, SyncInv, LengthsCarried, Read
    PROVE  SyncInv'
<1>1. /\ toNode' = toNode /\ api_user' = api_user /\ handshake_done' = handshake_done
      /\ misread' = misread /\ toPage # << >> /\ toPage' = Tail(toPage)
      /\ socket \in {"OPEN", "CLOSING"}
  BY Zenon DEF Read, nodeVars
<1>2. reader = "between frames"
  BY <1>1, Zenon DEF SyncInv, CloseIsLast
<1>3. /\ Has(toPage', Answers) => Has(toPage, Answers)
      /\ LastOnly(toPage', Answers)
  BY <1>1, PageMoves, Zenon DEF SyncInv, CloseIsLast
<1>4. CASE reader' = reader /\ (socket' = socket \/ socket' = "CLOSED")
  BY <1>1, <1>2, <1>3, <1>4, SocketNames, Zenon DEF SyncInv, CloseIsLast, Leaving
<1>5. CASE Head(toPage) \in Answers /\ reader' = "inside a frame" /\ socket' = socket
  <2>1. Has(toPage, Answers) /\ toPage' = << >>
    BY <1>1, <1>5, PageMoves, Zenon DEF SyncInv, CloseIsLast
  <2>2. Leaving /\ ~api_user /\ handshake_done /\ toNode = << >>
    BY <2>1, Zenon DEF SyncInv, CloseIsLast
  <2>3. ~Has(toPage', Answers) /\ ~Has(toNode', Closes)
    BY <1>1, <2>1, <2>2, EmptyHas, Zenon
  <2> QED
    BY <1>1, <1>3, <1>5, <2>1, <2>2, <2>3, SocketNames, Zenon
       DEF SyncInv, CloseIsLast, Leaving
<1> QED
  BY <1>2, <1>4, <1>5, ReadEffect, Zenon

LEMMA SyncSend ==
    ASSUME FramesKnown, SyncInv, SendButton \/ StartClosing
    PROVE  SyncInv'
<1>1. /\ socket = "OPEN" /\ reader' = reader /\ api_user' = api_user
      /\ handshake_done' = handshake_done /\ misread' = misread /\ toPage' = toPage
  BY Zenon DEF SendButton, StartClosing, nodeVars
<1>2. ~Leaving
  BY <1>1, SocketNames, Zenon DEF Leaving
<1>3. ~Has(toNode, Closes) /\ ~Has(toPage, Answers) /\ reader = "between frames"
  BY <1>2, Zenon DEF SyncInv, CloseIsLast
<1>4. CASE SendButton
  <2>1. PICK f \in Requests : toNode' = Append(toNode, f)
    BY <1>4, ButtonEffect
  <2>2. ~Has(toNode', Closes) /\ LastOnly(toNode', Closes)
    BY <1>3, <2>1, NodeMoves, Zenon
  <2> QED
    BY <1>1, <1>3, <2>2, SocketNames, Zenon DEF SyncInv, CloseIsLast, Leaving
<1>5. CASE StartClosing
  <2>1. PICK f \in Closes : toNode' = Append(toNode, f)
    BY <1>5, ClosingEffect
  <2>2. LastOnly(toNode', Closes)
    BY <1>3, <2>1, NodeMoves, Zenon
  <2>3. Leaving'
    BY <1>5, SocketNames, Zenon DEF StartClosing, Leaving
  <2> QED
    BY <1>1, <1>3, <2>2, <2>3, SocketNames, Zenon DEF SyncInv, CloseIsLast
<1> QED
  BY <1>4, <1>5

LEMMA SyncEnds ==
    ASSUME SyncInv, event_cb \/ NodeEnds \/ Reload
    PROVE  SyncInv'
<1>1. /\ toPage' = << >> /\ toNode' = << >> /\ misread' = misread
      /\ \/ reader' = "between frames"
         \/ /\ reader' = reader /\ socket' = socket /\ ~api_user'
            /\ handshake_done' = handshake_done
  BY Zenon DEF event_cb, close_cb, NodeEnds, Reload, pageVars
<1>2. /\ ~Has(toPage', Answers) /\ LastOnly(toPage', Answers)
      /\ ~Has(toNode', Closes) /\ LastOnly(toNode', Closes)
  BY <1>1, EmptyHas, Zenon
<1> QED
  BY <1>1, <1>2, SocketNames, Zenon DEF SyncInv, CloseIsLast, Leaving

LEMMA SyncOthers ==
    ASSUME SyncInv,
           \/ Accept \/ Open \/ GiveUp
           \/ (\E name \in Names : SubmitUsername(name)) \/ UNCHANGED vars
    PROVE  SyncInv'
<1>1. /\ toPage' = toPage /\ toNode' = toNode /\ misread' = misread
      /\ reader' = reader
      /\ \/ socket' = socket
         \/ socket' = "CLOSED"
         \/ socket = "CONNECTING"
      /\ \/ api_user' = api_user /\ handshake_done' = handshake_done
         \/ ~handshake_done /\ socket' = socket
  BY Zenon DEF Accept, Open, GiveUp, Close, SubmitUsername, vars, pageVars, nodeVars
<1>2. Leaving => Leaving'
  BY <1>1, SocketNames, Zenon DEF Leaving
<1>3. CASE api_user' = api_user /\ handshake_done' = handshake_done
  BY <1>1, <1>2, <1>3, Zenon DEF SyncInv, CloseIsLast
<1>4. CASE ~handshake_done
  <2>1. ~Has(toPage, Answers) /\ reader # "inside a frame"
    BY <1>4, Zenon DEF SyncInv, CloseIsLast
  <2> QED
    BY <1>1, <1>2, <2>1, Zenon DEF SyncInv, CloseIsLast
<1> QED
  BY <1>1, <1>3, <1>4

LEMMA SyncStep ==
    ASSUME FramesKnown, SyncInv, LengthsCarried, [Next]_vars
    PROVE  SyncInv'
BY SyncEvent, SyncReadCb, SyncRead, SyncSend, SyncEnds, SyncOthers, Zenon DEF Next

LEMMA SyncAlways ==
    ASSUME LengthsCarried
    PROVE  Spec => []SyncInv
<1>1. FramesKnown /\ SyncInv /\ [Next]_vars => SyncInv'
  BY SyncStep
<1> QED
  BY <1>1, SyncInit, FramesAlways, PTL DEF Spec

\* Where the halves of a length are kept in order, every length of this
\* configuration is carried.
LEMMA HalvesSuffice == HalvesKept => LengthsCarried
<1>1. \A type \in Types, name \in Names :
          JsonLen(type, name) \in Nat /\ JsonLen(type, name) < FarLength
  BY JsonLenType
<1>2. \A len \in ConnectLens : len \in Nat /\ len < FarLength
  BY FrontendAssumption, FarIsNat
<1> QED
  BY <1>1, <1>2, Zenon DEF LengthsCarried, Carried

\* Both ends find each other's frames where they begin, with any names, any
\* requests and any number of events, loads and restarts: if the build keeps
\* the halves of a length in order, or else if no frame is longer than what
\* two bytes hold.
THEOREM StreamsCorrect ==
    ASSUME LengthsCarried
    PROVE  Spec => []StreamsInSync
<1>1. SyncInv => StreamsInSync
  BY SocketNames, Zenon DEF SyncInv, CloseIsLast, StreamsInSync
<1> QED
  BY <1>1, SyncAlways, PTL

THEOREM KeptStreamsCorrect ==
    ASSUME HalvesKept
    PROVE  Spec => []StreamsInSync
BY HalvesSuffice, StreamsCorrect

-----------------------------------------------------------------------------
(* Lists of members                                                          *)

In(s, e)    == \E i \in 1 .. Len(s) : s[i] = e
Distinct(s) == \A i, j \in 1 .. Len(s) : FindsItself(s[i]) /\ s[i] = s[j] => i = j

\* An item is taken out of a list.
LEMMA Removed ==
    ASSUME NEW S, NEW s \in Seq(S), Distinct(s), NEW k \in 1 .. Len(s)
    PROVE  /\ RemoveAt(s, k) \in Seq(S) /\ Distinct(RemoveAt(s, k))
           /\ FindsItself(s[k]) => ~In(RemoveAt(s, k), s[k])
           /\ \A d : d # s[k] => (In(RemoveAt(s, k), d) <=> In(s, d))
           /\ \A d : In(RemoveAt(s, k), d) => In(s, d)
<1>1. PICK p, q, t : /\ p = SubSeq(s, 1, k - 1) /\ q = SubSeq(s, k + 1, Len(s))
                     /\ t = p \o q
  OBVIOUS
<1>2. Len(s) \in Nat /\ k \in Int /\ \A i \in 1 .. Len(s) : s[i] \in S
  BY LenProperties, ElementOfSeq
<1>3. /\ p \in Seq(S) /\ Len(p) = k - 1
      /\ \A i \in 1 .. k - 1 : p[i] = s[i]
  BY <1>1, <1>2, SubSeqProperties, SMTT(40)
<1>4. /\ q \in Seq(S) /\ Len(q) = Len(s) - k
      /\ \A i \in 1 .. Len(s) - k : q[i] = s[k + i]
  BY <1>1, <1>2, SubSeqProperties
<1>5. /\ t \in Seq(S) /\ Len(t) = Len(s) - 1
      /\ \A i \in 1 .. Len(s) - 1 : t[i] = IF i < k THEN s[i] ELSE s[i + 1]
  <2>1. /\ t \in Seq(S) /\ Len(t) = Len(p) + Len(q)
        /\ \A i \in 1 .. Len(p) + Len(q) : t[i] = IF i <= Len(p) THEN p[i] ELSE q[i - Len(p)]
    <3>1. p \in Seq(S) /\ q \in Seq(S)
      BY <1>3, <1>4
    <3>2. /\ p \o q \in Seq(S) /\ Len(p \o q) = Len(p) + Len(q)
          /\ \A i \in 1 .. Len(p) + Len(q) :
                 (p \o q)[i] = IF i <= Len(p) THEN p[i] ELSE q[i - Len(p)]
      BY <3>1, ConcatProperties, Zenon
    <3> QED
      BY <1>1, <3>2
  <2>2. Len(t) = Len(s) - 1
    BY <1>2, <1>3, <1>4, <2>1
  <2>3. ASSUME NEW i \in 1 .. Len(s) - 1
        PROVE  t[i] = IF i < k THEN s[i] ELSE s[i + 1]
    <3>1. t[i] = IF i <= k - 1 THEN p[i] ELSE q[i - (k - 1)]
      BY <1>2, <1>3, <1>4, <2>1
    <3>2. CASE i < k
      BY <1>2, <1>3, <3>1, <3>2
    <3>3. CASE ~(i < k)
      <4>1. i - (k - 1) \in 1 .. Len(s) - k /\ k + (i - (k - 1)) = i + 1
        BY <1>2, <3>3
      <4>2. q[i - (k - 1)] = s[i + 1]
        BY <1>4, <4>1
      <4> QED
        BY <1>2, <3>1, <3>3, <4>2
    <3> QED
      BY <3>2, <3>3
  <2> QED
    BY <2>1, <2>2, <2>3
<1>6. \A i \in 1 .. Len(t) :
          LET j == IF i < k THEN i ELSE i + 1 IN
          j \in 1 .. Len(s) /\ j # k /\ t[i] = s[j]
  BY <1>2, <1>5
<1>7. Distinct(t)
  BY <1>2, <1>5 DEF Distinct
<1>8. FindsItself(s[k]) => ~In(t, s[k])
  BY <1>6 DEF In, Distinct
<1>9. ASSUME NEW d, d # s[k] PROVE In(t, d) <=> In(s, d)
  <2>1. In(t, d) => In(s, d)
    BY <1>6 DEF In
  <2>2. ASSUME NEW j \in 1 .. Len(s), s[j] = d PROVE In(t, d)
    <3>1. j # k
      BY <1>9, <2>2
    <3>2. CASE j < k
      <4>1. j \in 1 .. Len(t) /\ t[j] = s[j]
        BY <1>2, <1>5, <3>2
      <4> QED
        BY <2>2, <4>1 DEF In
    <3>3. CASE j > k
      <4>1. j - 1 \in 1 .. Len(t) /\ t[j - 1] = s[j]
        BY <1>2, <1>5, <3>3
      <4> QED
        BY <2>2, <4>1 DEF In
    <3> QED
      BY <1>2, <3>1, <3>2, <3>3
  <2> QED
    BY <2>1, <2>2 DEF In
<1>10. \A d : In(t, d) => In(s, d)
  BY <1>6 DEF In
<1>11. RemoveAt(s, k) = t
  BY <1>1 DEF RemoveAt
<1> QED
  BY <1>5, <1>7, <1>8, <1>9, <1>10, <1>11, Zenon

LEMMA Added ==
    ASSUME NEW S, NEW s \in Seq(S), Distinct(s), NEW e \in S,
           FindsItself(e) => ~In(s, e)
    PROVE  /\ Append(s, e) \in Seq(S) /\ Distinct(Append(s, e))
           /\ \A d : In(Append(s, e), d) <=> In(s, d) \/ d = e
<1>1. PICK t : t = Append(s, e)
  OBVIOUS
<1>2. /\ t \in Seq(S) /\ Len(t) = Len(s) + 1 /\ Len(s) \in Nat
      /\ t[Len(s) + 1] = e /\ \A i \in 1 .. Len(s) : t[i] = s[i]
  BY <1>1
<1>3. Distinct(t)
  BY <1>2 DEF Distinct, In
<1>4. \A d : In(t, d) <=> In(s, d) \/ d = e
  BY <1>2 DEF In
<1> QED
  BY <1>1, <1>2, <1>3, <1>4

-----------------------------------------------------------------------------
(* The list shown                                                            *)

\* Names that are found at most once, and the others never; it needs nothing
\* of the connection.
ListInv ==
    /\ members \in Seq(Names)
    /\ Distinct(members)
    /\ \A d \in Throws : ~In(members, d)

LEMMA ContentOf ==
    ASSUME NEW type \in Types, NEW name \in Names
    PROVE  /\ TextFrame(type, name).content.event = type
           /\ TextFrame(type, name).content.username = name
BY DEF TextFrame

\* The page hears of what an event says, and of nothing else.
LEMMA ReadShown ==
    ASSUME FramesKnown, Read
    PROVE  \/ members' = members
           \/ \E name \in Names : members' = addMember(name) \/ members' = removeMember(name)
<1>1. PICK frame : frame = Head(toPage)
  OBVIOUS
<1>2. toPage # << >>
  BY Zenon DEF Read
<1>3. frame \in Texts \cup Answers
  BY <1>1, <1>2, HeadTailProperties DEF FramesKnown
<1>4. \/ members' = members
      \/ ReadHeader(frame.header).opcode = WS_OPCODE_TEXT /\ parseData(frame.content)
  BY <1>1, Zenon DEF Read, Close
<1>5. CASE frame \in Answers
  BY <1>4, <1>5, AnswerIsRead, OpcodesKnown, Zenon DEF AnswerRead
<1>6. CASE frame \in Texts
  <2>1. PICK type \in Types, name \in Names : frame = TextFrame(type, name)
    BY <1>6, TextsAre, Zenon
  <2>2. frame.content.username = name
    BY <2>1, ContentOf
  <2> QED
    BY <1>4, <2>2, Zenon DEF parseData
<1> QED
  BY <1>3, <1>5, <1>6

\* The item querySelector finds first.
LEMMA FoundFirst ==
    ASSUME ListInv, NEW name, existingMember(name) # {}
    PROVE  \E k \in 1 .. Len(members) :
               k = Min(existingMember(name)) /\ members[k] \in Matched[name]
<1>1. existingMember(name) \subseteq Nat
  BY DEF existingMember, ListInv
<1>2. PICK k : k = Min(existingMember(name)) /\ k \in existingMember(name)
  BY <1>1, MinProperties
<1> QED
  BY <1>2 DEF existingMember

LEMMA PlainIs ==
    ASSUME NEW d \in PlainNames
    PROVE  /\ d \in Names /\ d \notin Throws /\ Matched[d] = {d} /\ FindsItself(d)
           /\ \A name \in Names : name # d => name \in Throws \/ d \notin Matched[name]
BY Zenon DEF PlainNames, FindsItself

\* What the list is after each, if it was in order.
LEMMA ListAdded ==
    ASSUME ListInv, NEW name \in Names
    PROVE  /\ addMember(name) \in Seq(Names) /\ Distinct(addMember(name))
           /\ \A d \in Throws : ~In(addMember(name), d)
           /\ \A d \in PlainNames : In(addMember(name), d) <=> In(members, d) \/ d = name
<1>1. members \in Seq(Names) /\ Distinct(members) /\ \A d \in Throws : ~In(members, d)
  BY DEF ListInv
<1>2. ASSUME In(members, name), FindsItself(name) PROVE existingMember(name) # {}
  BY <1>2 DEF In, FindsItself, existingMember
<1>3. CASE addMember(name) = members /\ (name \in Throws \/ existingMember(name) # {})
  <2>1. ASSUME NEW d \in PlainNames, d = name PROVE In(members, d)
    <3>1. name \notin Throws /\ Matched[name] = {name}
      BY <2>1, PlainIs, Zenon
    <3>2. PICK k \in 1 .. Len(members) : members[k] \in Matched[name]
      BY <1>3, <3>1, FoundFirst, Zenon
    <3> QED
      BY <2>1, <3>1, <3>2, Zenon DEF In
  <2> QED
    BY <1>1, <1>3, <2>1, Zenon
<1>4. CASE addMember(name) = Append(members, name) /\ name \notin Throws
           /\ existingMember(name) = {}
  <2>1. FindsItself(name) => ~In(members, name)
    BY <1>2, <1>4
  <2>2. PICK t : t = Append(members, name)
    OBVIOUS
  <2>3. /\ t \in Seq(Names) /\ Distinct(t)
        /\ \A d : In(t, d) <=> In(members, d) \/ d = name
    BY <1>1, <2>1, <2>2, Added
  <2> QED
    BY <1>1, <1>4, <2>2, <2>3, Zenon
<1> QED
  BY <1>3, <1>4, Zenon DEF addMember

LEMMA ListRemoved ==
    ASSUME ListInv, NEW name \in Names
    PROVE  /\ removeMember(name) \in Seq(Names) /\ Distinct(removeMember(name))
           /\ \A d \in Throws : ~In(removeMember(name), d)
           /\ \A d \in PlainNames : In(removeMember(name), d) <=> In(members, d) /\ d # name
<1>1. members \in Seq(Names) /\ Distinct(members) /\ \A d \in Throws : ~In(members, d)
  BY DEF ListInv
<1>2. CASE removeMember(name) = members /\ (name \in Throws \/ existingMember(name) = {})
  <2>1. ASSUME NEW d \in PlainNames, In(members, d) PROVE d # name
    BY <1>2, <2>1, PlainIs DEF In, existingMember
  <2> QED
    BY <1>1, <1>2, <2>1, Zenon
<1>3. CASE /\ removeMember(name) = RemoveAt(members, Min(existingMember(name)))
           /\ name \notin Throws /\ existingMember(name) # {}
  <2>1. PICK k \in 1 .. Len(members) : /\ k = Min(existingMember(name))
                                       /\ members[k] \in Matched[name]
    BY <1>3, FoundFirst, Zenon
  <2>2. PICK t : t = RemoveAt(members, k) /\ removeMember(name) = t
    BY <1>3, <2>1
  <2>3. /\ t \in Seq(Names) /\ Distinct(t)
        /\ FindsItself(members[k]) => ~In(t, members[k])
        /\ \A d : d # members[k] => (In(t, d) <=> In(members, d))
        /\ \A d : In(t, d) => In(members, d)
    BY <1>1, <2>1, <2>2, Removed
  <2>4. ASSUME NEW d \in PlainNames PROVE In(t, d) <=> In(members, d) /\ d # name
    <3>1. CASE d = name
      <4>1. members[k] = d /\ FindsItself(d)
        BY <2>1, <3>1, PlainIs
      <4> QED
        BY <2>3, <3>1, <4>1, Zenon
    <3>2. CASE d # name
      <4>1. d # members[k]
        BY <1>3, <2>1, <3>2, PlainIs, Zenon
      <4> QED
        BY <2>3, <3>2, <4>1, Zenon
    <3> QED
      BY <3>1, <3>2
  <2> QED
    BY <1>1, <2>2, <2>3, <2>4, Zenon
<1> QED
  BY <1>2, <1>3, Zenon DEF removeMember

LEMMA EmptyList ==
    << >> \in Seq(Names) /\ Distinct(<< >>) /\ \A d : ~In(<< >>, d)
BY EmptySeq DEF Distinct, In

LEMMA ListStep ==
    ASSUME FramesKnown, ListInv, [Next]_vars
    PROVE  ListInv'
<1>1. \/ members' = members \/ members' = << >>
      \/ \E name \in Names : members' = addMember(name) \/ members' = removeMember(name)
  <2>1. CASE Read
    BY <2>1, ReadShown
  <2>2. CASE \/ \E type \in Types, name \in Names : vcmp_api_event_user(type, name)
             \/ Accept \/ read_cb \/ event_cb \/ NodeEnds
             \/ UNCHANGED vars
    BY <2>2, Zenon DEF vcmp_api_event_user, Accept, read_cb, event_cb, NodeEnds,
                       vars, pageVars
  <2>3. CASE Open \/ SendButton \/ StartClosing \/ GiveUp \/ Reload
    BY <2>3, Zenon DEF Open, SendButton, StartClosing, GiveUp, Reload, Close
  <2>4. CASE \E name \in Names : SubmitUsername(name)
    BY <2>4, Zenon DEF SubmitUsername
  <2> QED
    BY <2>1, <2>2, <2>3, <2>4, Zenon DEF Next
<1>2. CASE members' = members
  BY <1>2, Zenon DEF ListInv
<1>3. CASE members' = << >>
  BY <1>3, EmptyList, Zenon DEF ListInv
<1>4. ASSUME NEW name \in Names, members' = addMember(name) PROVE ListInv'
  BY <1>4, ListAdded, Zenon DEF ListInv
<1>5. ASSUME NEW name \in Names, members' = removeMember(name) PROVE ListInv'
  BY <1>5, ListRemoved, Zenon DEF ListInv
<1> QED
  BY <1>1, <1>2, <1>3, <1>4, <1>5

LEMMA ListAlways == Spec => []ListInv
<1>1. Init => ListInv
  BY EmptyList, Zenon DEF Init, ListInv
<1>2. FramesKnown /\ ListInv /\ [Next]_vars => ListInv'
  BY ListStep
<1> QED
  BY <1>1, <1>2, FramesAlways, PTL DEF Spec

-----------------------------------------------------------------------------
(* The list follows the room                                                 *)

Of(f, name) == f.content.username = name
SaysJoined(f)    == f.content.event = "user_join"

\* No frame of s is about that user, and the last one that is says he joined.
Silent(s, name)   == \A i \in 1 .. Len(s) : ~Of(s[i], name)
JoinLast(s, name) ==
    \E i \in 1 .. Len(s) :
        /\ Of(s[i], name) /\ SaysJoined(s[i])
        /\ \A j \in 1 .. Len(s) : j > i => ~Of(s[j], name)

\* What the page will show once it has read what is on its way.
Expected(name) ==
    JoinLast(toPage, name) \/ (In(members, name) /\ Silent(toPage, name))

\* While the page is connected and has missed nothing, that is the room; the
\* room alone is what the list shows only when nothing is on its way.
FollowInv ==
    (socket \in {"CONNECTING", "OPEN"}) /\ conn /\ ~gap =>
        \A name \in PlainNames \ {username} : Expected(name) <=> name \in roster

LEMMA EmptyTells ==
    ASSUME NEW name
    PROVE  ~JoinLast(<< >>, name) /\ Silent(<< >>, name)
BY DEF JoinLast, Silent

LEMMA AppendTells ==
    ASSUME NEW S, NEW s \in Seq(S), NEW f \in S, NEW name
    PROVE  /\ ~Of(f, name) =>
                  /\ JoinLast(Append(s, f), name) <=> JoinLast(s, name)
                  /\ Silent(Append(s, f), name) <=> Silent(s, name)
           /\ Of(f, name) =>
                  /\ JoinLast(Append(s, f), name) <=> SaysJoined(f)
                  /\ ~Silent(Append(s, f), name)
<1>1. PICK t : t = Append(s, f)
  OBVIOUS
<1>2. PICK n \in Nat : n = Len(s)
  OBVIOUS
<1>3. Len(t) = n + 1 /\ t[n + 1] = f /\ \A i \in 1 .. n : t[i] = s[i]
  BY <1>1, <1>2
<1>4. Silent(t, name) <=> Silent(s, name) /\ ~Of(f, name)
  BY <1>2, <1>3 DEF Silent
<1>5. ASSUME ~Of(f, name) PROVE JoinLast(t, name) <=> JoinLast(s, name)
  <2>1. ASSUME NEW i \in 1 .. n
        PROVE  /\ i \in 1 .. n + 1 /\ t[i] = s[i]
               /\ (\A j \in 1 .. n + 1 : j > i => ~Of(t[j], name))
                     <=> (\A j \in 1 .. n : j > i => ~Of(s[j], name))
    <3>1. \A j \in 1 .. n + 1 : j = n + 1 \/ (j \in 1 .. n /\ t[j] = s[j])
      BY <1>3
    <3>2. \A j \in 1 .. n : j \in 1 .. n + 1 /\ t[j] = s[j]
      BY <1>3
    <3> QED
      BY <1>3, <1>5, <3>1, <3>2
  <2>2. \A i \in 1 .. n + 1 : Of(t[i], name) => i \in 1 .. n
    BY <1>3, <1>5
  <2>3. JoinLast(t, name) => JoinLast(s, name)
    <3> SUFFICES ASSUME NEW i \in 1 .. n + 1, Of(t[i], name), SaysJoined(t[i]),
                        \A j \in 1 .. n + 1 : j > i => ~Of(t[j], name)
                 PROVE  JoinLast(s, name)
      BY <1>3 DEF JoinLast
    <3>1. i \in 1 .. n
      BY <2>2
    <3>2. t[i] = s[i] /\ \A j \in 1 .. n : j > i => ~Of(s[j], name)
      BY <2>1, <3>1
    <3> QED
      BY <1>2, <3>1, <3>2 DEF JoinLast
  <2>4. JoinLast(s, name) => JoinLast(t, name)
    <3> SUFFICES ASSUME NEW i \in 1 .. n, Of(s[i], name), SaysJoined(s[i]),
                        \A j \in 1 .. n : j > i => ~Of(s[j], name)
                 PROVE  JoinLast(t, name)
      BY <1>2 DEF JoinLast
    <3>1. /\ i \in 1 .. n + 1 /\ t[i] = s[i]
          /\ \A j \in 1 .. n + 1 : j > i => ~Of(t[j], name)
      BY <2>1
    <3> QED
      BY <1>3, <3>1 DEF JoinLast
  <2> QED
    BY <2>3, <2>4
<1>6. ASSUME Of(f, name) PROVE JoinLast(t, name) <=> SaysJoined(f)
  <2>1. n + 1 \in 1 .. n + 1 /\ \A i \in 1 .. n + 1 : n + 1 > i \/ i = n + 1
    OBVIOUS
  <2>2. \A j \in 1 .. n + 1 : ~(j > n + 1)
    OBVIOUS
  <2>3. JoinLast(t, name) => SaysJoined(f)
    BY <1>3, <1>6, <2>1 DEF JoinLast
  <2>4. SaysJoined(f) => JoinLast(t, name)
    BY <1>3, <1>6, <2>1, <2>2 DEF JoinLast
  <2> QED
    BY <2>3, <2>4
<1> QED
  BY <1>1, <1>4, <1>5, <1>6

LEMMA TailTells ==
    ASSUME NEW S, NEW s \in Seq(S), s # << >>, NEW name
    PROVE  /\ ~Of(Head(s), name) =>
                  /\ JoinLast(Tail(s), name) <=> JoinLast(s, name)
                  /\ Silent(Tail(s), name) <=> Silent(s, name)
           /\ Of(Head(s), name) =>
                  /\ ~Silent(s, name)
                  /\ JoinLast(s, name) <=>
                         \/ JoinLast(Tail(s), name)
                         \/ SaysJoined(Head(s)) /\ Silent(Tail(s), name)
<1>1. PICK t, f : t = Tail(s) /\ f = Head(s)
  OBVIOUS
<1>2. PICK n \in Nat : n = Len(t)
  BY <1>1
<1>3. Len(s) = n + 1 /\ s[1] = f /\ \A i \in 1 .. n : t[i] = s[i + 1]
  BY <1>1, <1>2
<1>4. \A i \in 1 .. n + 1 : i = 1 \/ (i - 1 \in 1 .. n /\ s[i] = t[i - 1])
  BY <1>3
<1>5. Silent(s, name) <=> Silent(t, name) /\ ~Of(f, name)
  <2>1. \A i \in 1 .. n : i + 1 \in 1 .. n + 1 /\ t[i] = s[i + 1]
    BY <1>3
  <2>2. Silent(s, name) => Silent(t, name) /\ ~Of(f, name)
    <3>1. 1 \in 1 .. n + 1
      OBVIOUS
    <3> QED
      BY <1>2, <1>3, <2>1, <3>1 DEF Silent
  <2>3. Silent(t, name) /\ ~Of(f, name) => Silent(s, name)
    BY <1>2, <1>3, <1>4 DEF Silent
  <2> QED
    BY <2>2, <2>3
<1>6. JoinLast(t, name) => JoinLast(s, name)
  <2> SUFFICES ASSUME NEW i \in 1 .. n, Of(t[i], name), SaysJoined(t[i]),
                      \A j \in 1 .. n : j > i => ~Of(t[j], name)
               PROVE  JoinLast(s, name)
    BY <1>2 DEF JoinLast
  <2>1. i + 1 \in 1 .. n + 1 /\ s[i + 1] = t[i]
    BY <1>3
  <2>2. \A j \in 1 .. n + 1 : j > i + 1 => ~Of(s[j], name)
    <3> SUFFICES ASSUME NEW j \in 1 .. n + 1, j > i + 1 PROVE ~Of(s[j], name)
      OBVIOUS
    <3>1. j - 1 \in 1 .. n /\ j - 1 > i /\ s[j] = t[j - 1]
      BY <1>4
    <3> QED
      BY <3>1
  <2> QED
    BY <1>3, <2>1, <2>2 DEF JoinLast
<1>7. ASSUME JoinLast(s, name), ~JoinLast(t, name)
      PROVE  Of(f, name) /\ SaysJoined(f) /\ Silent(t, name)
  <2>1. PICK i \in 1 .. n + 1 :
            /\ Of(s[i], name) /\ SaysJoined(s[i])
            /\ \A j \in 1 .. n + 1 : j > i => ~Of(s[j], name)
    BY <1>3, <1>7 DEF JoinLast
  <2>2. CASE i = 1
    <3>1. \A j \in 1 .. n : ~Of(t[j], name)
      BY <1>3, <2>1, <2>2
    <3> QED
      BY <1>2, <1>3, <2>1, <2>2, <3>1 DEF Silent
  <2>3. CASE i # 1
    <3>1. i - 1 \in 1 .. n /\ t[i - 1] = s[i]
      BY <1>4, <2>3
    <3>2. \A j \in 1 .. n : j > i - 1 => ~Of(t[j], name)
      BY <1>3, <2>1
    <3> QED
      BY <1>2, <1>7, <2>1, <3>1, <3>2 DEF JoinLast
  <2> QED
    BY <2>2, <2>3
<1>8. ASSUME Of(f, name), SaysJoined(f), Silent(t, name) PROVE JoinLast(s, name)
  <2>1. 1 \in 1 .. Len(s) /\ \A j \in 1 .. Len(s) : j > 1 => ~Of(s[j], name)
    BY <1>2, <1>3, <1>4, <1>8 DEF Silent
  <2> QED
    BY <1>3, <1>8, <2>1 DEF JoinLast
<1> QED
  BY <1>1, <1>5, <1>6, <1>7, <1>8

LEMMA TextTells ==
    ASSUME NEW type \in Types, NEW name \in Names, NEW f, f = TextFrame(type, name)
    PROVE  /\ \A d : Of(f, d) <=> d = name
           /\ SaysJoined(f) <=> type = "user_join"
BY ContentOf, Zenon DEF Of, SaysJoined

LEMMA FollowEvent ==
    ASSUME FramesKnown, FollowInv, NEW type \in Types, NEW name \in Names,
           vcmp_api_event_user(type, name)
    PROVE  FollowInv'
<1>1. /\ members' = members /\ username' = username /\ socket' = socket
      /\ conn' = conn /\ roster' = RosterAfter(type, name)
  BY Zenon DEF vcmp_api_event_user, pageVars, nodeVars
<1>2. CASE gap' = TRUE
  BY <1>2, Zenon DEF FollowInv
<1>3. CASE toPage' = Append(toPage, TextFrame(type, name)) /\ gap' = gap
  <2> PICK f : f = TextFrame(type, name)
    OBVIOUS
  <2>1. /\ toPage \in Seq(Texts \cup Answers) /\ f \in Texts \cup Answers
        /\ \A d : Of(f, d) <=> d = name
        /\ SaysJoined(f) <=> type = "user_join"
        /\ toPage' = Append(toPage, f)
    BY <1>3, TextsAre, TextTells, ZenonT(40) DEF FramesKnown
  <2>2. ASSUME NEW d \in PlainNames \ {username},
               Expected(d) <=> d \in roster
        PROVE  Expected(d)' <=> d \in roster'
    <3>1. CASE d = name
      <4>1. /\ JoinLast(toPage', d) <=> type = "user_join"
            /\ ~Silent(toPage', d)
        BY <2>1, <3>1, AppendTells, Zenon
      <4>2. d \in roster' <=> type = "user_join"
        BY <1>1, <3>1, Zenon DEF RosterAfter
      <4> QED
        BY <4>1, <4>2, Zenon DEF Expected
    <3>2. CASE d # name
      <4>1. /\ JoinLast(toPage', d) <=> JoinLast(toPage, d)
            /\ Silent(toPage', d) <=> Silent(toPage, d)
        BY <2>1, <3>2, AppendTells, Zenon
      <4>2. d \in roster' <=> d \in roster
        BY <1>1, <3>2, Zenon DEF RosterAfter
      <4> QED
        BY <1>1, <2>2, <4>1, <4>2, Zenon DEF Expected
    <3> QED
      BY <3>1, <3>2
  <2> QED
    BY <1>1, <1>3, <2>2, Zenon DEF FollowInv
<1> QED
  BY <1>2, <1>3, EventEffect, Zenon

LEMMA FollowRead ==
    ASSUME FramesKnown, SyncInv, ListInv, FollowInv, LengthsCarried, Read
    PROVE  FollowInv'
<1>1. /\ username' = username /\ conn' = conn /\ gap' = gap /\ roster' = roster
      /\ toPage # << >> /\ toPage' = Tail(toPage)
  BY Zenon DEF Read, nodeVars
<1>2. reader = "between frames"
  BY <1>1, Zenon DEF SyncInv, CloseIsLast
<1>3. CASE Leaving'
  BY <1>3, SocketNames, Zenon DEF FollowInv, Leaving
<1>4. CASE /\ Head(toPage) \in Answers
  <2>1. Leaving
    BY <1>1, <1>4, PageMoves, Zenon DEF SyncInv, CloseIsLast
  <2>2. socket' = socket \/ socket' = "CLOSED"
    BY Zenon DEF Read, Close
  <2> QED
    BY <1>3, <2>1, <2>2, SocketNames, Zenon DEF Leaving
<1>5. CASE /\ Head(toPage) \in Texts /\ socket' = socket
           /\ socket = "OPEN" /\ parseData(Head(toPage).content)
  <2>1. PICK type \in Types, name \in Names : Head(toPage) = TextFrame(type, name)
    BY <1>5, TextsAre, Zenon
  <2>2. /\ Head(toPage).content.event = type
        /\ Head(toPage).content.username = name
    BY <2>1, ContentOf
  <2>3. toPage \in Seq(Texts \cup Answers)
    BY Zenon DEF FramesKnown
  <2>4. PICK f : f = Head(toPage) /\ f = TextFrame(type, name)
    BY <2>1
  <2>5. /\ \A d : Of(f, d) <=> d = name
        /\ SaysJoined(f) <=> type = "user_join"
    BY <2>4, TextTells, Zenon
  <2>6. ASSUME NEW d
        PROVE  /\ ~Of(f, d) =>
                     /\ JoinLast(toPage', d) <=> JoinLast(toPage, d)
                     /\ Silent(toPage', d) <=> Silent(toPage, d)
               /\ Of(f, d) =>
                     /\ ~Silent(toPage, d)
                     /\ JoinLast(toPage, d) <=>
                            JoinLast(toPage', d) \/ (SaysJoined(f) /\ Silent(toPage', d))
    BY <1>1, <2>3, <2>4, TailTells
  <2>7. ASSUME NEW d \in PlainNames \ {username},
               Expected(d) <=> d \in roster
        PROVE  Expected(d)' <=> d \in roster
    <3>1. In(members', d) <=> IF d = name THEN type = "user_join" ELSE In(members, d)
      <4>1. IF type = "user_join" THEN members' = addMember(name)
            ELSE members' = removeMember(name)
        BY <1>5, <2>2, Zenon DEF parseData
      <4>2. CASE type = "user_join"
        BY <4>1, <4>2, ListAdded, ZenonT(40)
      <4>3. CASE type # "user_join"
        BY <4>1, <4>3, ListRemoved, ZenonT(40)
      <4> QED
        BY <4>2, <4>3
    <3>2. CASE d = name
      <4>1. /\ ~Silent(toPage, d)
            /\ JoinLast(toPage, d) <=>
                  \/ JoinLast(toPage', d)
                  \/ type = "user_join" /\ Silent(toPage', d)
        <5>1. Of(f, d)
          BY <2>5, <3>2, Zenon
        <5> QED
          BY <2>5, <2>6, <5>1, Zenon
      <4> QED
        BY <2>7, <3>1, <3>2, <4>1, Zenon DEF Expected
    <3>3. CASE d # name
      <4>1. /\ JoinLast(toPage', d) <=> JoinLast(toPage, d)
            /\ Silent(toPage', d) <=> Silent(toPage, d)
        BY <2>5, <2>6, <3>3, Zenon
      <4> QED
        BY <2>7, <3>1, <3>3, <4>1, Zenon DEF Expected
    <3> QED
      BY <3>2, <3>3
  <2> QED
    BY <1>1, <1>5, <2>7, Zenon DEF FollowInv
<1>6. CASE socket = "CLOSING" /\ socket' = socket
  BY <1>3, <1>6, SocketNames, Zenon DEF Leaving
<1> QED
  BY <1>2, <1>4, <1>5, <1>6, ReadEffect, Zenon

LEMMA FollowReadCb ==
    ASSUME FramesKnown, SyncInv, FollowInv, read_cb
    PROVE  FollowInv'
<1>1. /\ members' = members /\ username' = username /\ socket' = socket
      /\ gap' = gap /\ roster' = roster /\ conn
  BY Zenon DEF read_cb, pageVars
<1>2. CASE toPage' = toPage
  BY <1>1, <1>2, Zenon DEF FollowInv, Expected
<1>3. CASE Head(toNode) \in Closes /\ toNode # << >>
  <2>1. Leaving
    BY <1>3, NodeMoves, Zenon DEF SyncInv, CloseIsLast
  <2> QED
    BY <1>1, <2>1, SocketNames, Zenon DEF FollowInv, Leaving
<1> QED
  BY <1>2, <1>3, ReadCbEffect, Zenon

LEMMA FollowSubmit ==
    ASSUME ListInv, FollowInv,
           NEW name \in Names, SubmitUsername(name)
    PROVE  FollowInv'
<1>1. /\ username = NoName /\ username' = name /\ members' = addMember(name)
      /\ socket' = socket /\ conn' = conn /\ gap' = gap /\ roster' = roster
      /\ toPage' = toPage
  BY Zenon DEF SubmitUsername, nodeVars
<1>2. NoName \notin Names
  BY FrontendAssumption
<1>3. ASSUME NEW d \in PlainNames, d # name
      PROVE  d # username /\ (In(members', d) <=> In(members, d))
  BY <1>1, <1>2, <1>3, PlainIs, ListAdded, Zenon
<1> QED
  BY <1>1, <1>3, Zenon DEF FollowInv, Expected

LEMMA FollowOthers ==
    ASSUME FollowInv,
           \/ Accept \/ event_cb \/ NodeEnds \/ Open \/ SendButton
           \/ StartClosing \/ GiveUp \/ UNCHANGED vars
    PROVE  FollowInv'
<1>1. \/ ~conn' \/ Leaving'
      \/ /\ members' = members /\ username' = username /\ toPage' = toPage
         /\ conn' = conn /\ gap' = gap /\ roster' = roster
         /\ socket' = socket \/ socket = "CONNECTING"
  BY SocketNames, Zenon DEF Accept, event_cb, NodeEnds, Open, SendButton, StartClosing, GiveUp,
     Close, vars, pageVars, nodeVars, Leaving
<1>2. CASE ~conn' \/ Leaving'
  BY <1>2, SocketNames, Zenon DEF FollowInv, Leaving
<1>3. CASE /\ members' = members /\ username' = username /\ toPage' = toPage
           /\ conn' = conn /\ gap' = gap /\ roster' = roster
           /\ socket' = socket \/ socket = "CONNECTING"
  BY <1>3, Zenon DEF FollowInv, Expected
<1> QED
  BY <1>1, <1>2, <1>3

LEMMA FollowReload ==
    ASSUME Reload
    PROVE  FollowInv'
<1>1. /\ members' = << >> /\ toPage' = << >> /\ roster' = roster
      /\ ~gap' => roster = {}
  BY Zenon DEF Reload
<1>2. \A d : ~In(<< >>, d)
  BY DEF In
<1>3. \A d : ~Expected(d)'
  BY <1>1, <1>2, EmptyTells, Zenon DEF Expected
<1> QED
  BY <1>1, <1>3, Zenon DEF FollowInv

LEMMA FollowStep ==
    ASSUME FramesKnown, SyncInv, ListInv, FollowInv, LengthsCarried, [Next]_vars
    PROVE  FollowInv'
BY FollowEvent, FollowRead, FollowReadCb, FollowSubmit, FollowOthers, FollowReload,
   Zenon DEF Next

LEMMA FollowAlways ==
    ASSUME LengthsCarried
    PROVE  Spec => []FollowInv
<1>1. Init => FollowInv
  <2>1. \A d : ~In(<< >>, d)
    BY DEF In
  <2> QED
    BY <2>1, EmptyTells, Zenon DEF Init, FollowInv, Expected
<1>2. FramesKnown /\ SyncInv /\ ListInv /\ FollowInv /\ [Next]_vars => FollowInv'
  BY FollowStep
<1> QED
  BY <1>1, <1>2, FramesAlways, SyncAlways, ListAlways, PTL DEF Spec

\* A connected page that has read all that was sent, and missed nothing, shows
\* exactly who is in the room of those whose selectors find them and nobody
\* else, whatever the selectors of the others match, whatever came, in whatever
\* order, and whatever name was submitted meanwhile.
THEOREM MembersCorrect ==
    ASSUME LengthsCarried
    PROVE  Spec => []MembersFollowRoom
<1>1. ListInv /\ FollowInv => MembersFollowRoom
  <2> SUFFICES ASSUME ListInv, FollowInv, socket = "OPEN", conn, toPage = << >>, ~gap
               PROVE  /\ \A name \in PlainNames \ {username} :
                             Shown(name) <=> name \in roster
                      /\ \A i, j \in 1 .. Len(members) :
                             FindsItself(members[i]) /\ members[i] = members[j] => i = j
                      /\ \A name \in Throws : ~Shown(name)
    BY Zenon DEF MembersFollowRoom
  <2>1. \A name \in PlainNames \ {username} : Expected(name) <=> name \in roster
    BY Zenon DEF FollowInv
  <2>2. \A name : Expected(name) <=> Shown(name)
    BY EmptyTells, Zenon DEF Expected, Shown, In
  <2>3. \A name \in Throws : ~Shown(name)
    BY Zenon DEF ListInv, Shown, In
  <2>4. \A i, j \in 1 .. Len(members) :
            FindsItself(members[i]) /\ members[i] = members[j] => i = j
    BY Zenon DEF ListInv, Distinct
  <2> QED
    BY <2>1, <2>2, <2>3, <2>4, Zenon
<1> QED
  BY <1>1, ListAlways, FollowAlways, PTL

-----------------------------------------------------------------------------
(* The values the variables take                                             *)

LEMMA FramesTyped == Texts \cup Answers \subseteq Frames /\ Requests \cup Closes \subseteq Frames
<1>1. ASSUME NEW h \in Seq(Byte), NEW c \in Contents, NEW l \in Nat
      PROVE  [header |-> h, content |-> c, len |-> l] \in Frames
  BY <1>1, Zenon DEF Frames
<1>2. \A event \in {"connect", "close code", "none"} : Content(event) \in Contents
  BY Zenon DEF Content, Contents
<1>3. \A type \in Types, name \in Names : [event |-> type, username |-> name] \in Contents
  BY Zenon DEF Contents
<1>4. 0 \in Nat /\ 2 \in Nat
  OBVIOUS
<1>5. ASSUME NEW f \in Texts PROVE f \in Frames
  <2>1. PICK type \in Types, name \in Names : f = TextFrame(type, name)
    BY <1>5, TextsAre, Zenon
  <2>2. f.header \in Seq(Byte) /\ JsonLen(type, name) \in Nat
    BY <2>1, TextIsRead, JsonLenType, Zenon
  <2>3. f.header = ws_make_frame(WS_OPCODE_TEXT, JsonLen(type, name))
    BY <2>1 DEF TextFrame
  <2> QED
    BY <1>1, <1>3, <2>1, <2>2, <2>3, Zenon DEF TextFrame
<1>6. ASSUME NEW f \in Answers PROVE f \in Frames
  <2>1. PICK l : f = AnswerFrame(l)
    BY <1>6, Zenon DEF Answers
  <2>2. f.header \in Seq(Byte)
    BY <1>6, AnswerIsRead, Zenon
  <2>3. f.header = ws_make_frame(WS_OPCODE_CLOSE, l)
    BY <2>1 DEF AnswerFrame
  <2> QED
    BY <1>1, <1>2, <1>4, <2>1, <2>2, <2>3, Zenon DEF AnswerFrame
<1>7. ASSUME NEW f \in Requests PROVE f \in Frames
  <2>1. PICK len \in ConnectLens : f = RequestFrame(len)
    BY <1>7, Zenon DEF Requests
  <2>2. f.header \in Seq(Byte)
    BY <1>7, RequestIsRead, Zenon
  <2>3. f.header = ClientHeader(WS_OPCODE_TEXT, len, MaskKey)
    BY <2>1 DEF RequestFrame
  <2>4. len \in Nat
    BY FrontendAssumption, FarIsNat
  <2> QED
    BY <1>1, <1>2, <2>1, <2>2, <2>3, <2>4, Zenon DEF RequestFrame
<1>8. ASSUME NEW f \in Closes PROVE f \in Frames
  <2>1. PICK event \in {"none", "close code"}, len \in {0, 2} : f = CloseFrame(event, len)
    BY <1>8, Zenon DEF Closes
  <2>2. f.header \in Seq(Byte)
    BY <1>8, CloseIsRead, Zenon
  <2>3. f.header = ClientHeader(WS_OPCODE_CLOSE, len, MaskKey)
    BY <2>1 DEF CloseFrame
  <2> QED
    BY <1>1, <1>2, <1>4, <2>1, <2>2, <2>3, Zenon DEF CloseFrame
<1> QED
  BY <1>5, <1>6, <1>7, <1>8, Zenon

LEMMA Narrower ==
    ASSUME NEW S, NEW T, S \subseteq T, NEW s \in Seq(S)
    PROVE  s \in Seq(T)
OBVIOUS

\* The page's own state, and the node's: the user behind the API is a
\* connection that is there and has shaken hands.
PageType ==
    /\ username \in Names \cup {NoName}
    /\ isConnectionScheduled \in BOOLEAN
    /\ socket \in {"CONNECTING", "OPEN", "CLOSING", "CLOSED"}
    /\ reader \in {"between frames", "inside a frame", "lost"}
NodeType ==
    /\ conn \in BOOLEAN
    /\ handshake_done \in BOOLEAN
    /\ api_user \in BOOLEAN /\ (api_user => conn /\ handshake_done)
HistoryType ==
    /\ roster \subseteq Names
    /\ gap \in BOOLEAN
    /\ misread \in BOOLEAN
    /\ events \in 0 .. MaxEvents
    /\ loads \in 1 .. MaxLoads

LEMMA PageStep ==
    ASSUME PageType, [Next]_vars
    PROVE  PageType'
<1>1. CASE \/ \E type \in Types, name \in Names : vcmp_api_event_user(type, name)
           \/ Accept \/ read_cb \/ event_cb \/ NodeEnds \/ UNCHANGED vars
  <2>1. UNCHANGED pageVars
    BY <1>1, Zenon DEF vcmp_api_event_user, Accept, read_cb, event_cb, NodeEnds, vars
  <2> QED
    BY <2>1, Zenon DEF PageType, pageVars
<1>2. CASE Open \/ SendButton \/ StartClosing \/ GiveUp \/ Reload
  BY <1>2, Zenon DEF PageType, Open, SendButton, StartClosing, GiveUp, Reload, Close
<1>3. CASE Read
  <2>1. /\ username' = username /\ isConnectionScheduled' = isConnectionScheduled
        /\ reader' \in {reader, "inside a frame", "lost"}
        /\ socket' \in {socket, "CLOSED"}
    BY <1>3, Zenon DEF Read, Close
  <2> QED
    BY <2>1, Zenon DEF PageType
<1>4. CASE \E name \in Names : SubmitUsername(name)
  BY <1>4, Zenon DEF PageType, SubmitUsername
<1> QED
  BY <1>1, <1>2, <1>3, <1>4, Zenon DEF Next

LEMMA NodeStep ==
    ASSUME FramesKnown, NodeType, [Next]_vars
    PROVE  NodeType'
<1>1. CASE \/ \E type \in Types, name \in Names : vcmp_api_event_user(type, name)
           \/ Open \/ Read \/ SendButton \/ StartClosing \/ GiveUp
           \/ (\E name \in Names : SubmitUsername(name)) \/ UNCHANGED vars
  <2>1. UNCHANGED nodeVars
    BY <1>1, Zenon DEF vcmp_api_event_user, Open, Read, SendButton, StartClosing,
                       GiveUp, SubmitUsername, vars
  <2> QED
    BY <2>1, Zenon DEF NodeType, nodeVars
<1>2. CASE Accept \/ event_cb \/ NodeEnds \/ Reload
  <2>1. CASE conn /\ conn' = conn /\ handshake_done' = TRUE /\ api_user' = TRUE
    BY <2>1, Zenon DEF NodeType
  <2>2. CASE conn' = FALSE /\ handshake_done' = handshake_done /\ api_user' = FALSE
    BY <2>2, Zenon DEF NodeType
  <2>3. CASE ~conn /\ conn' = TRUE /\ handshake_done' = FALSE /\ api_user' = api_user
    BY <2>3, Zenon DEF NodeType
  <2> QED
    BY <1>2, <2>1, <2>2, <2>3, Zenon DEF Accept, event_cb, close_cb, NodeEnds, Reload
<1>3. CASE read_cb
  <2>1. handshake_done' = handshake_done
    BY <1>3, Zenon DEF read_cb
  <2>2. conn' = TRUE /\ (api_user' = api_user \/ api_user' = FALSE)
    BY <1>3, ReadCbEffect, Zenon
  <2>3. CASE api_user' = api_user
    BY <2>1, <2>2, <2>3, Zenon DEF NodeType
  <2>4. CASE api_user' = FALSE
    BY <2>1, <2>2, <2>4, Zenon DEF NodeType
  <2> QED
    BY <2>2, <2>3, <2>4, Zenon
<1> QED
  BY <1>1, <1>2, <1>3, Zenon DEF Next

LEMMA HistoryStep ==
    ASSUME FramesKnown, HistoryType, [Next]_vars
    PROVE  HistoryType'
<1>1. CASE \/ Accept \/ event_cb \/ Open \/ Read \/ SendButton \/ StartClosing
           \/ GiveUp \/ (\E name \in Names : SubmitUsername(name)) \/ UNCHANGED vars
  BY <1>1, Zenon DEF HistoryType, Accept, event_cb, Open, Read, SendButton,
                     StartClosing, GiveUp, SubmitUsername, vars
<1>2. ASSUME NEW type \in Types, NEW name \in Names, vcmp_api_event_user(type, name)
      PROVE  HistoryType'
  <2>1. /\ events < MaxEvents /\ events' = events + 1
        /\ misread' = misread /\ loads' = loads
        /\ roster' = RosterAfter(type, name)
    BY <1>2, Zenon DEF vcmp_api_event_user
  <2>2. gap' = gap \/ gap' = TRUE
    BY <1>2, EventEffect, Zenon
  <2>3. events' \in 0 .. MaxEvents
    BY <2>1, FrontendAssumption DEF HistoryType
  <2>4. roster' \subseteq Names
    BY <2>1, Zenon DEF HistoryType, RosterAfter
  <2> QED
    BY <2>1, <2>2, <2>3, <2>4, Zenon DEF HistoryType
<1>3. CASE read_cb
  <2>1. /\ roster' = roster /\ gap' = gap /\ events' = events /\ loads' = loads
    BY <1>3, Zenon DEF read_cb
  <2>2. misread' \in BOOLEAN
    BY <1>3, ReadCbEffect, Zenon
  <2> QED
    BY <2>1, <2>2, Zenon DEF HistoryType
<1>4. CASE NodeEnds
  BY <1>4, Zenon DEF NodeEnds, HistoryType
<1>5. CASE Reload
  <2>1. /\ roster' = roster /\ misread' = misread /\ events' = events
        /\ gap' \in BOOLEAN /\ loads < MaxLoads /\ loads' = loads + 1
    BY <1>5, Zenon DEF Reload
  <2>2. loads' \in 1 .. MaxLoads
    BY <2>1, FrontendAssumption DEF HistoryType
  <2> QED
    BY <2>1, <2>2, Zenon DEF HistoryType
<1> QED
  BY <1>1, <1>2, <1>3, <1>4, <1>5, Zenon DEF Next

\* Every variable keeps to the values it is given, at any lengths and on any
\* build; and the user behind the API is never a connection that is gone.
THEOREM TypeCorrect == Spec => []TypeOK
<1>1. 0 \in 0 .. MaxEvents /\ 1 \in 1 .. MaxLoads
  BY FrontendAssumption
<1>2. Init => PageType /\ NodeType /\ HistoryType
  BY <1>1, Zenon DEF Init, PageType, NodeType, HistoryType
<1>3. FramesKnown /\ (PageType /\ NodeType /\ HistoryType) /\ [Next]_vars
          => (PageType /\ NodeType /\ HistoryType)'
  BY PageStep, NodeStep, HistoryStep, Zenon
<1>4. FramesKnown => toPage \in Seq(Frames) /\ toNode \in Seq(Frames)
  BY FramesTyped, Narrower, Zenon DEF FramesKnown
<1>5. FramesKnown /\ ListInv /\ PageType /\ NodeType /\ HistoryType => TypeOK
  BY <1>4, Zenon DEF ListInv, PageType, NodeType, HistoryType, TypeOK
<1> QED
  BY <1>2, <1>3, <1>5, FramesAlways, ListAlways, PTL DEF Spec
=============================================================================
