------------------------- MODULE WsHandshakeProofs -------------------------
(***************************************************************************)
(* Proofs about WsHandshake, for arrays of any size, any requests and any  *)
(* contents of malloc's memory.                                            *)
(***************************************************************************)
EXTENDS WsHandshake, FiniteSetTheorems, TextLemmas

-----------------------------------------------------------------------------
(* Lemmas about the lines *)

\* line_end is the first newline from the line's first byte on, if there is one.
LEMMA LineEnd ==
    ASSUME data \in Seq(Bytes), line_begin \in 1 .. Len(data) + 1
    PROVE  \/ /\ line_end = 0
              /\ \A i \in line_begin .. Len(data) : data[i] # "LF"
           \/ /\ line_end \in line_begin .. Len(data)
              /\ data[line_end] = "LF"
              /\ \A i \in line_begin .. line_end - 1 : data[i] # "LF"
<1> DEFINE I == { i \in line_begin .. Len(data) : data[i] = "LF" }
<1>1. Len(data) \in Nat
  BY LenProperties
<1>2. I \subseteq Nat /\ I \subseteq line_begin .. Len(data)
  BY <1>1
<1>3. \A i \in line_begin .. Len(data) : i \in I <=> data[i] = "LF"
  OBVIOUS
<1>4. line_end = IF I # {} THEN Min(I) ELSE 0
  BY DEF line_end, SelectInSubSeq
<1> HIDE DEF I
<1>5. CASE I = {}
  BY <1>3, <1>4, <1>5, Zenon
<1>6. CASE I # {}
  <2>1. line_end \in I /\ \A n \in I : line_end <= n
    BY <1>2, <1>4, <1>6, MinProperties, Zenon
  <2>2. line_end \in line_begin .. Len(data) /\ data[line_end] = "LF"
    BY <1>2, <1>3, <2>1, Zenon
  <2>3. ASSUME NEW i \in line_begin .. line_end - 1, i \in I
        PROVE  FALSE
    BY <1>1, <2>1, <2>2, <2>3
  <2>4. ASSUME NEW i \in line_begin .. line_end - 1
        PROVE  i \in line_begin .. Len(data)
    BY <1>1, <2>2
  <2> QED
    BY <1>3, <2>2, <2>3, <2>4, Zenon
<1> QED
  BY <1>5, <1>6

-----------------------------------------------------------------------------
(* The type invariant, and the memory                                        *)

RequestOK == request \in Requests

\* The entries found are those allocated, until they are freed.
HeapInv == outcome \in {"parsing", "parsed", "misused"} => heap = Len(head)

LEMMA strncpyType ==
    ASSUME NEW memory \in Entries, NEW to \in Int, NEW b \in Int, NEW n \in Int,
           \A i \in to .. to + n - 1 : data[b + i - to] \in Bytes
    PROVE  strncpy(memory, to, b, n) \in Entries
BY DEF strncpy, Entries

LEMMA TypeInit == Init => RequestOK /\ TypeOK /\ HeapInv /\ EntriesFreed
<1> SUFFICES ASSUME Init
             PROVE  RequestOK /\ TypeOK /\ HeapInv /\ EntriesFreed
  OBVIOUS
<1>1. /\ request \in Requests /\ request.text \in Seq(Bytes) \ {<< >>}
  BY WsHandshakeAssumption DEF Init
<1>2. PICK cut \in 1 .. Len(request.text) : data = SubSeq(request.text, 1, cut)
  BY DEF Init
<1>3. PICK text : text = request.text
  OBVIOUS
<1>4. /\ data \in Seq(Bytes) /\ Len(data) = cut /\ cut <= Len(text) /\ cut \in Nat \ {0}
      /\ data = SubSeq(text, 1, cut)
  BY <1>1, <1>2, <1>3
<1>5. data # << >>
  BY <1>4
<1>6. IsPrefix(data, text)
  BY <1>4 DEF IsPrefix
<1>7. /\ line_begin = 1 /\ head = << >> /\ heap = 0 /\ outcome = "parsing" /\ key = << >>
      /\ clean = TRUE /\ failed = FALSE
  BY DEF Init
<1>8. head \in Seq(Entries) /\ Len(head) = 0
  BY <1>7
<1>9. line_begin \in 1 .. Len(data) + 1
  BY <1>4, <1>7
<1>10. heap <= Cardinality({ i \in 1 .. line_begin - 1 : data[i] = "LF" })
  <2>1. { i \in 1 .. line_begin - 1 : data[i] = "LF" } = {}
    BY <1>7
  <2>2. Cardinality({ i \in 1 .. line_begin - 1 : data[i] = "LF" }) = 0
    BY <2>1, FS_EmptySet, Zenon
  <2> QED
    BY <1>7, <2>2
<1>11. HeapInv /\ EntriesFreed
  BY <1>7, <1>8, Zenon DEF HeapInv, EntriesFreed
<1>12. IsPrefix(data, request.text)
  BY <1>3, <1>6, Zenon
<1>13. heap \in Nat
  BY <1>7
<1> QED
  BY <1>1, <1>4, <1>5, <1>7, <1>8, <1>9, <1>10, <1>11, <1>12, <1>13, Zenon
     DEF RequestOK, TypeOK, Outcomes

\* A step over a line ends behind a newline, one newline further on.
LEMMA NextLineType ==
    ASSUME TypeOK, line_end # 0, NextLine, UNCHANGED data
    PROVE  /\ line_begin' \in 1 .. Len(data) + 1
           /\ data[line_begin' - 1] = "LF"
           /\ heap <= Cardinality({ i \in 1 .. line_begin' - 1 : data[i] = "LF" })
           /\ heap + 1 <= Cardinality({ i \in 1 .. line_begin' - 1 : data[i] = "LF" })
<1> DEFINE S == { i \in 1 .. line_begin - 1 : data[i] = "LF" }
           T == { i \in 1 .. line_begin' - 1 : data[i] = "LF" }
<1>1. data \in Seq(Bytes) /\ Len(data) \in Nat /\ line_begin \in 1 .. Len(data) + 1
  BY LenProperties DEF TypeOK
<1>2. line_end \in line_begin .. Len(data) /\ data[line_end] = "LF"
  BY <1>1, LineEnd
<1>3. line_begin' = line_end + 1
  BY DEF NextLine
<1>4. line_begin' \in 1 .. Len(data) + 1 /\ line_begin' - 1 = line_end
  BY <1>1, <1>2, <1>3
<1>5. /\ line_begin - 1 \in Int /\ line_begin' - 1 \in Int
      /\ IsFiniteSet(1 .. line_begin - 1) /\ IsFiniteSet(1 .. line_begin' - 1)
  <2>1. 1 \in Int /\ line_begin - 1 \in Int /\ line_begin' - 1 \in Int
    BY <1>1, <1>4
  <2> QED
    BY <2>1, FS_Interval, Zenon
<1>6. IsFiniteSet(S) /\ IsFiniteSet(T)
  BY <1>5, FS_Subset
<1>7. line_end \notin S /\ S \cup {line_end} \subseteq T
  <2>1. line_end \notin 1 .. line_begin - 1
    BY <1>1, <1>2
  <2>a. PICK b, e, len : b = line_begin /\ e = line_end /\ len = Len(data)
    OBVIOUS
  <2>b. e \in b .. len /\ b \in 1 .. len + 1 /\ len \in Nat
    BY <1>1, <1>2, <2>a, Zenon
  <2>c. e \in 1 .. e /\ \A i \in 1 .. b - 1 : i \in 1 .. e
    BY <2>b
  <2>2. line_end \in 1 .. line_begin' - 1
    BY <1>4, <2>a, <2>c, Zenon
  <2>3. \A i \in 1 .. line_begin - 1 : i \in 1 .. line_begin' - 1
    BY <1>4, <2>a, <2>c, Zenon
  <2> QED
    BY <1>2, <2>1, <2>2, <2>3, Zenon
<1> HIDE DEF S, T
<1>8. Cardinality(S \cup {line_end}) = Cardinality(S) + 1 /\ Cardinality(S) \in Nat
  BY <1>6, <1>7, FS_AddElement, FS_CardinalityType
<1>9. Cardinality(S \cup {line_end}) <= Cardinality(T) /\ Cardinality(T) \in Nat
  BY <1>6, <1>7, FS_Subset, FS_CardinalityType
<1>10. heap <= Cardinality(S) /\ heap \in Nat
  BY Zenon DEF TypeOK, S
<1>11. heap <= Cardinality(T) /\ heap + 1 <= Cardinality(T)
  BY <1>8, <1>9, <1>10
<1> QED
  BY <1>2, <1>4, <1>11, Zenon DEF T

\* SelectInSeq gives the first place of a byte in a line, or 0.
LEMMA FirstColon ==
    ASSUME NEW s \in Seq(Bytes)
    PROVE  LET colon == SelectInSeq(s, LAMBDA c : c = ":") IN
           /\ colon \in 0 .. Len(s)
           /\ colon = 0 => \A i \in 1 .. Len(s) : s[i] # ":"
           /\ colon # 0 => s[colon] = ":" /\ \A i \in 1 .. colon - 1 : s[i] # ":"
<1> DEFINE I == { i \in 1 .. Len(s) : s[i] = ":" }
           colon == SelectInSeq(s, LAMBDA c : c = ":")
<1>1. Len(s) \in Nat
  BY LenProperties
<1>2. I \subseteq Nat
  BY <1>1
<1>3. \A i \in 1 .. Len(s) : i \in I <=> s[i] = ":"
  OBVIOUS
<1>4. I \subseteq 1 .. Len(s)
  OBVIOUS
<1>5. colon = IF I # {} THEN Min(I) ELSE 0
  BY DEF SelectInSeq
<1> HIDE DEF I, colon
<1>6. CASE I = {}
  <2>1. colon = 0 /\ \A i \in 1 .. Len(s) : s[i] # ":"
    BY <1>3, <1>5, <1>6, Zenon
  <2>2. 0 \in 0 .. Len(s)
    BY <1>1
  <2> QED
    BY <2>1, <2>2, Zenon DEF colon
<1>7. CASE I # {}
  <2>1. colon \in I /\ \A n \in I : colon <= n
    BY <1>2, <1>5, <1>7, MinProperties, Zenon
  <2>2. colon \in 1 .. Len(s) /\ s[colon] = ":"
    BY <1>3, <1>4, <2>1, Zenon
  <2>3. colon # 0 /\ colon \in 0 .. Len(s)
    BY <1>1, <2>2
  <2>4. ASSUME NEW i \in 1 .. colon - 1
        PROVE  i \in 1 .. Len(s) /\ ~(colon <= i)
    BY <1>1, <2>2
  <2>5. \A i \in 1 .. colon - 1 : s[i] # ":"
    BY <1>3, <2>1, <2>4, Zenon
  <2> QED
    BY <2>2, <2>3, <2>5, Zenon DEF colon
<1> QED
  BY <1>6, <1>7

\* What the line is.
LEMMA LineIs ==
    ASSUME data \in Seq(Bytes), line_begin \in 1 .. Len(data) + 1, line_end # 0
    PROVE  /\ line_end \in line_begin .. Len(data)
           /\ line_len \in Nat /\ line_len = line_end - line_begin
           /\ line \in Seq(Bytes) /\ Len(line) = line_len
           /\ \A i \in 1 .. line_len : line[i] = data[line_begin + i - 1]
<1>1. Len(data) \in Nat
  BY LenProperties
<1>2. line_end \in line_begin .. Len(data)
  BY LineEnd
<1>3. PICK e : e = line_end
  OBVIOUS
<1>4. e \in line_begin .. Len(data) /\ line = SubSeq(data, line_begin, e - 1)
      /\ line_len = e - line_begin
  BY <1>2, <1>3, Zenon DEF line, line_len
<1>5. line_len \in Nat
  BY <1>1, <1>4
<1>6. line \in Seq(Bytes) /\ Len(line) = line_len
  BY <1>1, <1>4
<1>7. \A i \in 1 .. line_len : line[i] = data[line_begin + i - 1]
  BY <1>1, <1>4
<1> QED
  BY <1>2, <1>3, <1>4, <1>5, <1>6, <1>7, Zenon

LEMMA DelimType ==
    ASSUME data \in Seq(Bytes), line_begin \in 1 .. Len(data) + 1, line_end # 0
    PROVE  delim_pos \in Nat /\ (delim_pos = 0 \/ delim_pos < line_len)
<1> DEFINE colon == SelectInSeq(line, LAMBDA c : c = ":")
<1>1. line \in Seq(Bytes) /\ Len(line) = line_len /\ line_len \in Nat
  BY LineIs
<1>2. colon \in 0 .. Len(line)
  BY <1>1, FirstColon
<1>3. delim_pos = IF colon = 0 THEN 0 ELSE colon - 1
  BY DEF delim_pos
<1> HIDE DEF colon
<1> QED
  BY <1>1, <1>2, <1>3

\* A name without a colon ends at the line's first one.
LEMMA DelimIs ==
    ASSUME data \in Seq(Bytes), line_begin \in 1 .. Len(data) + 1, line_end # 0,
           NEW n \in Nat, n < line_len, data[line_begin + n] = ":",
           \A i \in line_begin .. line_begin + n - 1 : data[i] # ":"
    PROVE  delim_pos = n
<1> DEFINE colon == SelectInSeq(line, LAMBDA c : c = ":")
<1>1. /\ line \in Seq(Bytes) /\ Len(line) = line_len /\ line_len \in Nat
      /\ \A i \in 1 .. line_len : line[i] = data[line_begin + i - 1]
  BY LineIs
<1>2. /\ colon \in 0 .. Len(line)
      /\ colon = 0 => \A i \in 1 .. Len(line) : line[i] # ":"
      /\ colon # 0 => line[colon] = ":" /\ \A i \in 1 .. colon - 1 : line[i] # ":"
  BY <1>1, FirstColon
<1>3. delim_pos = IF colon = 0 THEN 0 ELSE colon - 1
  BY DEF delim_pos
<1> HIDE DEF colon
<1>4. Len(data) \in Nat
  BY LenProperties
<1>5. n + 1 \in 1 .. Len(line) /\ line_begin + (n + 1) - 1 = line_begin + n
  BY <1>1, <1>4
<1>6. line[n + 1] = ":"
  BY <1>1, <1>5
<1>7. colon # 0 /\ ~(n + 1 \in 1 .. colon - 1)
  BY <1>2, <1>5, <1>6, Zenon
<1>8. ~(colon < n + 1)
  <2> SUFFICES ASSUME colon < n + 1
               PROVE  FALSE
    OBVIOUS
  <2>1. /\ colon \in 1 .. line_len
        /\ line_begin + colon - 1 \in line_begin .. line_begin + n - 1
    BY <1>1, <1>2, <1>4, <1>7
  <2>2. line[colon] = data[line_begin + colon - 1] /\ line[colon] = ":"
    BY <1>1, <1>2, <1>7, <2>1, Zenon
  <2> QED
    BY <2>1, <2>2, Zenon
<1>9. colon = n + 1
  BY <1>1, <1>2, <1>7, <1>8
<1> QED
  BY <1>3, <1>9

\* An entry that is added has its arrays' bytes, whatever the line.
LEMMA AddedType ==
    ASSUME TypeOK, line_end # 0, NEW memory \in Entries, val_len \in 0 .. Size
    PROVE  strncpy(strncpy(memory, 1, line_begin, delim_pos),
                   Size + 1, val_begin, val_len) \in Entries
<1>1. data \in Seq(Bytes) /\ Len(data) \in Nat /\ line_begin \in 1 .. Len(data) + 1
  BY LenProperties DEF TypeOK
<1>2. line_end \in line_begin .. Len(data) /\ line_len = line_end - line_begin
  BY <1>1, LineIs
<1>3. delim_pos \in Nat /\ (delim_pos = 0 \/ delim_pos < line_len)
  BY <1>1, DelimType
<1>4. Size \in Nat /\ Size + 1 \in Int
  <2>1. Size \in Nat
    BY WsHandshakeAssumption, Zenon
  <2> QED
    BY <2>1
<1>5. PICK b, e, len, d, v, vb :
         /\ b = line_begin /\ e = line_end /\ len = Len(data) /\ d = delim_pos
         /\ v = val_len /\ vb = val_begin
  OBVIOUS
<1>6. /\ len \in Nat /\ b \in 1 .. len + 1 /\ e \in b .. len
      /\ d \in Nat /\ (d = 0 \/ d < e - b) /\ vb = b + d + 2
      /\ v = (e - b) - 1 - d - 2 /\ v \in 0 .. Size /\ data \in Seq(Bytes) /\ len = Len(data)
  BY <1>1, <1>2, <1>3, <1>5, Zenon DEF val_begin, val_len
<1>7. \A i \in 1 .. len : data[i] \in Bytes
  BY <1>6
<1>8. \A i \in 1 .. 1 + d - 1 : data[b + i - 1] \in Bytes
  BY <1>6, <1>7
<1>9. \A i \in Size + 1 .. Size + 1 + v - 1 : vb + i - (Size + 1) \in 1 .. len
  BY <1>4, <1>6
<1>10. b \in Int /\ d \in Int /\ v \in Int /\ vb \in Int
  BY <1>4, <1>6
<1>11. strncpy(memory, 1, b, d) \in Entries
  BY <1>8, <1>10, strncpyType
<1>12. strncpy(strncpy(memory, 1, b, d), Size + 1, vb, v) \in Entries
  BY <1>4, <1>7, <1>9, <1>10, <1>11, strncpyType
<1> QED
  BY <1>5, <1>12, Zenon

LEMMA TypeNext == RequestOK /\ TypeOK /\ HeapInv /\ [Next]_vars => TypeOK'
<1> SUFFICES ASSUME TypeOK, HeapInv, [Next]_vars
             PROVE  TypeOK'
  OBVIOUS
<1> DEFINE Lines(b) == Cardinality({ i \in 1 .. b - 1 : data[i] = "LF" })
           Input == /\ data' \in Seq(Bytes) \ {<< >>} /\ IsPrefix(data', request'.text)
                    /\ line_begin' \in 1 .. Len(data') + 1
                    /\ line_begin' = 1 \/ data'[line_begin' - 1] = "LF"
           Rest == /\ outcome' \in Outcomes /\ (key' # << >> => outcome' = "answered")
                   /\ clean' \in BOOLEAN /\ failed' \in BOOLEAN
           HeapOK(n) == n \in Nat /\ n <= Cardinality({ i \in 1 .. line_begin' - 1 : data'[i] = "LF" })
<1>a. head' \in Seq(Entries) /\ Input /\ Rest /\ HeapOK(heap') => TypeOK'
  BY Zenon DEF TypeOK
<1>b. UNCHANGED << request, data, line_begin >>
        => Input /\ HeapOK(heap)
  BY Zenon DEF TypeOK
<1>c. line_end # 0 /\ NextLine /\ UNCHANGED << request, data >>
        => Input /\ HeapOK(heap) /\ HeapOK(heap + 1)
  <2> SUFFICES ASSUME line_end # 0, NextLine, UNCHANGED << request, data >>
               PROVE  Input /\ HeapOK(heap) /\ HeapOK(heap + 1)
    OBVIOUS
  <2>1. /\ line_begin' \in 1 .. Len(data) + 1
        /\ data[line_begin' - 1] = "LF"
        /\ heap <= Lines(line_begin') /\ heap + 1 <= Lines(line_begin')
    BY NextLineType, Zenon
  <2>2. data' = data /\ request' = request
    BY Zenon
  <2>3. heap \in Nat
    BY Zenon DEF TypeOK
  <2>4. heap + 1 \in Nat
    BY <2>3
  <2> QED
    BY <2>1, <2>2, <2>3, <2>4, Zenon DEF TypeOK
<1>d. outcome \in Outcomes /\ (key # << >> => outcome = "answered")
      /\ clean \in BOOLEAN /\ failed \in BOOLEAN /\ head \in Seq(Entries) /\ heap \in Nat
  BY Zenon DEF TypeOK
<1> HIDE DEF Input, HeapOK
<1>0. CASE UNCHANGED vars
  BY <1>0, <1>a, <1>b, <1>d, Zenon DEF vars
<1>1. CASE SkipFirstLine
  BY <1>1, <1>a, <1>c, <1>d, Zenon DEF SkipFirstLine
<1>2. CASE Overrun
  BY <1>2, <1>a, <1>b, <1>d, Zenon DEF Overrun, HeaderLine, Outcomes
<1>3. CASE NoMemory
  BY <1>3, <1>a, <1>b, <1>d, Zenon DEF NoMemory, HeaderLine, Outcomes
<1>4. CASE EndOfHeaders
  BY <1>4, <1>a, <1>b, <1>d, Zenon DEF EndOfHeaders, Outcomes
<1>5. ASSUME outcome = "parsed", ws_free_handshake PROVE heap' = 0
  <2>1. heap = Len(head)
    BY <1>5, Zenon DEF HeapInv
  <2>2. heap' = heap - Len(head) /\ heap \in Nat
    BY <1>5, <1>d DEF ws_free_handshake
  <2> QED
    BY <2>1, <2>2
<1>6. UNCHANGED << data, line_begin >> => HeapOK(0)
  <2>1. IsFiniteSet({ i \in 1 .. line_begin - 1 : data[i] = "LF" })
    <3>1. 1 \in Int /\ line_begin - 1 \in Int
      BY DEF TypeOK
    <3>2. IsFiniteSet(1 .. line_begin - 1)
      BY <3>1, FS_Interval, Zenon
    <3> QED
      BY <3>2, FS_Subset
  <2>2. Lines(line_begin) \in Nat
    BY <2>1, FS_CardinalityType, Zenon
  <2>3. 0 \in Nat /\ 0 <= Lines(line_begin)
    BY <2>2
  <2> QED
    BY <2>3, Zenon DEF HeapOK
<1>7. CASE Reject
  <2>1. failed' \in BOOLEAN /\ heap' = 0 /\ outcome' = "rejected"
    BY <1>5, <1>7, <1>d, Zenon DEF Reject
  <2>2. UNCHANGED << request, data, line_begin, head, key, clean >> /\ outcome = "parsed"
    BY <1>7, Zenon DEF Reject
  <2>3. Rest
    BY <1>d, <2>1, <2>2, Zenon DEF Outcomes
  <2> QED
    BY <1>6, <1>a, <1>b, <1>d, <2>1, <2>2, <2>3, Zenon
<1>8. CASE Answer
  <2>1. heap' = 0 /\ outcome' = "answered"
    BY <1>5, <1>8, Zenon DEF Answer
  <2>2. UNCHANGED << request, data, line_begin, head, clean, failed >>
    BY <1>8, Zenon DEF Answer
  <2>3. Rest
    BY <1>d, <2>1, <2>2, Zenon DEF Outcomes
  <2> QED
    BY <1>6, <1>a, <1>b, <1>d, <2>1, <2>2, <2>3, Zenon
<1>9. ASSUME NEW memory \in Memories, AddHeader(memory)
      PROVE  TypeOK'
  <2>1. /\ line_end # 0 /\ val_len \in 0 .. Size /\ NextLine /\ heap' = heap + 1
        /\ UNCHANGED << request, data, outcome, key, failed >>
    BY <1>9, Zenon DEF AddHeader, HeaderLine
  <2>2. memory \in Entries
    BY WsHandshakeAssumption, Zenon
  <2>3. PICK e : e = strncpy(strncpy(memory, 1, line_begin, delim_pos),
                             Size + 1, val_begin, val_len)
    OBVIOUS
  <2>4. e \in Entries
    BY <2>1, <2>2, <2>3, AddedType, Zenon
  <2>5. head' = << e >> \o head
    BY <1>9, <2>3, Zenon DEF AddHeader
  <2>6. head' \in Seq(Entries)
    BY <1>d, <2>4, <2>5
  <2>7. clean' \in BOOLEAN
    BY <1>9, <1>d, Zenon DEF AddHeader
  <2> QED
    BY <1>a, <1>c, <1>d, <2>1, <2>6, <2>7, Zenon
<1> QED
  BY <1>0, <1>1, <1>2, <1>3, <1>4, <1>7, <1>8, <1>9, Zenon DEF Next

LEMMA HeapNext == TypeOK /\ HeapInv /\ [Next]_vars => HeapInv'
<1> SUFFICES ASSUME TypeOK, HeapInv, [Next]_vars
             PROVE  HeapInv'
  OBVIOUS
<1>1. ASSUME NEW memory \in Memories, AddHeader(memory)
      PROVE  HeapInv'
  <2>1. PICK e : head' = << e >> \o head
    BY <1>1, Zenon DEF AddHeader
  <2>2. Len(head') = Len(head) + 1
    BY <2>1 DEF TypeOK
  <2>3. heap = Len(head) /\ heap' = heap + 1
    BY <1>1, Zenon DEF AddHeader, HeaderLine, HeapInv
  <2> QED
    BY <2>2, <2>3, Zenon DEF HeapInv
<1>2. CASE UNCHANGED << head, heap >> /\ outcome' \notin {"parsing", "parsed", "misused"}
  BY <1>2, Zenon DEF HeapInv
<1>3. CASE UNCHANGED vars
  BY <1>3, Zenon DEF vars, HeapInv
<1>4. CASE SkipFirstLine
  BY <1>4, Zenon DEF SkipFirstLine, HeapInv
<1>5. CASE Overrun
  BY <1>5, Zenon DEF Overrun, HeaderLine, HeapInv
<1>6. CASE EndOfHeaders
  BY <1>6, Zenon DEF EndOfHeaders, HeapInv
<1>7. CASE NoMemory \/ Reject \/ Answer
  <2>1. outcome' = "rejected" \/ outcome' = "answered"
    BY <1>7, Zenon DEF NoMemory, Reject, Answer
  <2> QED
    BY <2>1, Zenon DEF HeapInv
<1> QED
  BY <1>1, <1>3, <1>4, <1>5, <1>6, <1>7, Zenon DEF Next

LEMMA FreedNext == TypeOK /\ HeapInv /\ EntriesFreed /\ [Next]_vars => EntriesFreed'
<1> SUFFICES ASSUME TypeOK, HeapInv, EntriesFreed, [Next]_vars,
                    outcome' \in {"answered", "rejected"}, ~failed'
             PROVE  heap' = 0
  BY Zenon DEF EntriesFreed
<1>1. CASE UNCHANGED vars
  BY <1>1, Zenon DEF vars, EntriesFreed
<1>2. CASE outcome' = outcome /\ outcome = "parsing"
  BY <1>2, Zenon
<1>3. CASE SkipFirstLine \/ EndOfHeaders \/ Overrun \/ \E memory \in Memories : AddHeader(memory)
  <2>1. outcome' \in {"parsing", "parsed", "misused"}
    BY <1>3, Zenon DEF SkipFirstLine, EndOfHeaders, Overrun, AddHeader, HeaderLine
  <2> QED
    BY <2>1, Zenon
<1>4. CASE NoMemory
  BY <1>4, Zenon DEF NoMemory
<1>5. CASE Reject \/ Answer
  <2>1. heap = Len(head) /\ heap' = heap - Len(head)
    BY <1>5, Zenon DEF Reject, Answer, ws_free_handshake, HeapInv
  <2>2. heap \in Nat
    BY Zenon DEF TypeOK
  <2> QED
    BY <2>1, <2>2
<1> QED
  BY <1>1, <1>3, <1>4, <1>5, Zenon DEF Next

LEMMA RequestNext == RequestOK /\ [Next]_vars => RequestOK'
BY Zenon DEF RequestOK, Next, vars, SkipFirstLine, Overrun, NoMemory, EndOfHeaders,
             Reject, Answer, AddHeader, HeaderLine

LEMMA HandshakeBase == Spec => [](RequestOK /\ TypeOK /\ HeapInv /\ EntriesFreed)
BY TypeInit, TypeNext, HeapNext, FreedNext, RequestNext, PTL DEF Spec

\* Every variable keeps its type: a line begins behind a newline of what was
\* read, entries are two arrays of Size bytes each, and there is at most one
\* for each line.
THEOREM TypeCorrect == Spec => []TypeOK
BY HandshakeBase, PTL

\* Nothing ws_parse_handshake added is left when the handshake is over, unless
\* memory ran out in the middle of it, which the code never cleans up.
THEOREM FreedCorrect == Spec => []EntriesFreed
BY HandshakeBase, PTL

-----------------------------------------------------------------------------
(* How the lines of a well-formed request lie in its text                    *)

LEMMA Marks ==
    /\ ":" \in Bytes /\ " " \in Bytes /\ "CR" \in Bytes /\ "LF" \in Bytes /\ "NUL" \in Bytes
BY WsHandshakeAssumption, Zenon

LEMMA PairType ==
    ASSUME NEW a \in Bytes, NEW b \in Bytes
    PROVE  /\ << a, b >> \in Seq(Bytes) /\ Len(<< a, b >>) = 2
           /\ << a, b >>[1] = a /\ << a, b >>[2] = b
OBVIOUS

\* The lines of these headers.
TextsOf(headers) == [i \in 1 .. Len(headers) |-> HeaderText(headers[i])]

\* a, q, u and q again lie in s one behind the other.
LieIn(s, a, q, u) ==
    /\ s \in Seq(Bytes) /\ Len(s) = Len(a) + 2 + Len(u) + 2
    /\ \A i \in 1 .. Len(a) : s[i] = a[i]
    /\ s[Len(a) + 1] = q[1] /\ s[Len(a) + 2] = q[2]
    /\ \A i \in 1 .. Len(u) : s[Len(a) + 2 + i] = u[i]
    /\ s[Len(a) + 2 + Len(u) + 1] = q[1]
    /\ s[Len(a) + 2 + Len(u) + 2] = q[2]

LEMMA Pieces ==
    ASSUME NEW a \in Seq(Bytes), NEW q \in Seq(Bytes), NEW u \in Seq(Bytes)
    PROVE  Len(q) = 2 => LieIn(a \o q \o u \o q, a, q, u)
<1>0. SUFFICES ASSUME Len(q) = 2, NEW s, s = a \o q \o u \o q
               PROVE  LieIn(s, a, q, u)
  BY Zenon
<1>1. PICK b : b = a \o q
  OBVIOUS
<1>2. /\ b \in Seq(Bytes) /\ Len(b) = Len(a) + 2
      /\ \A i \in 1 .. Len(a) : b[i] = a[i]
      /\ b[Len(a) + 1] = q[1] /\ b[Len(a) + 2] = q[2]
  <2>1. /\ b \in Seq(Bytes) /\ Len(b) = Len(a) + Len(q)
        /\ \A i \in 1 .. Len(a) : b[i] = a[i]
        /\ \A i \in 1 .. Len(q) : b[Len(a) + i] = q[i]
    BY <1>1
  <2>2. 1 \in 1 .. 2 /\ 2 \in 1 .. 2
    OBVIOUS
  <2> QED
    BY <1>0, <2>1, <2>2, Zenon
<1>3. PICK c : c = b \o u
  OBVIOUS
<1>4. /\ c \in Seq(Bytes) /\ Len(c) = Len(b) + Len(u)
      /\ \A i \in 1 .. Len(b) : c[i] = b[i]
      /\ \A i \in 1 .. Len(u) : c[Len(b) + i] = u[i]
  <2>1. b \in Seq(Bytes)
    BY <1>2
  <2> QED
    BY <1>3, <2>1
<1>5. s = c \o q
  BY <1>0, <1>1, <1>3, Zenon
<1>6. /\ s \in Seq(Bytes) /\ Len(s) = Len(c) + 2
      /\ \A i \in 1 .. Len(c) : s[i] = c[i]
      /\ s[Len(c) + 1] = q[1] /\ s[Len(c) + 2] = q[2]
  <2>1. /\ s \in Seq(Bytes) /\ Len(s) = Len(c) + Len(q)
        /\ \A i \in 1 .. Len(c) : s[i] = c[i]
        /\ \A i \in 1 .. Len(q) : s[Len(c) + i] = q[i]
    <3>1. c \in Seq(Bytes)
      BY <1>4
    <3> QED
      BY <1>5, <3>1
  <2>2. 1 \in 1 .. 2 /\ 2 \in 1 .. 2
    OBVIOUS
  <2> QED
    BY <1>0, <2>1, <2>2, Zenon
<1>7. Len(a) \in Nat /\ Len(u) \in Nat
  BY LenProperties
<1>8. PICK m, n : m = Len(a) /\ n = Len(u)
  OBVIOUS
<1>9. m \in Nat /\ n \in Nat /\ Len(b) = m + 2 /\ Len(c) = (m + 2) + n
  BY <1>2, <1>4, <1>7, <1>8, Zenon
<1>10. /\ \A i \in 1 .. m : i \in 1 .. m + 2 /\ i \in 1 .. (m + 2) + n
       /\ m + 1 \in 1 .. m + 2 /\ m + 1 \in 1 .. (m + 2) + n
       /\ m + 2 \in 1 .. m + 2 /\ m + 2 \in 1 .. (m + 2) + n
       /\ \A i \in 1 .. n : (m + 2) + i \in 1 .. (m + 2) + n
  BY <1>9
<1>11. \A i \in 1 .. m : s[i] = a[i]
  BY <1>2, <1>4, <1>6, <1>8, <1>9, <1>10, Zenon
<1>12. s[m + 1] = q[1] /\ s[m + 2] = q[2]
  BY <1>2, <1>4, <1>6, <1>8, <1>9, <1>10, Zenon
<1>13. \A i \in 1 .. n : s[m + 2 + i] = u[i]
  <2>1. \A i \in 1 .. n : s[(m + 2) + i] = c[(m + 2) + i]
    BY <1>6, <1>9, <1>10, Zenon
  <2>2. \A i \in 1 .. n : c[(m + 2) + i] = u[i]
    BY <1>4, <1>8, <1>9, Zenon
  <2> QED
    BY <2>1, <2>2, Zenon
<1>14. Len(s) = m + 2 + n + 2 /\ s[m + 2 + n + 1] = q[1] /\ s[m + 2 + n + 2] = q[2]
  BY <1>6, <1>9, Zenon
<1> QED
  BY <1>6, <1>8, <1>11, <1>12, <1>13, <1>14, Zenon DEF LieIn

\* Where the parts of a header's text are.
LEMMA HeaderTextIs ==
    ASSUME NEW h, h.name \in Seq(Bytes), h.value \in Seq(Bytes)
    PROVE  LET n == Len(h.name)
               v == Len(h.value)
               s == HeaderText(h) IN
           /\ n \in Nat /\ v \in Nat
           /\ s \in Seq(Bytes) /\ Len(s) = n + v + 4
           /\ \A i \in 1 .. n : s[i] = h.name[i]
           /\ s[n + 1] = ":" /\ s[n + 2] = " "
           /\ \A i \in 1 .. v : s[n + 2 + i] = h.value[i]
           /\ s[n + v + 3] = "CR" /\ s[n + v + 4] = "LF"
<1>1. PICK name, value, p, q : /\ name = h.name /\ value = h.value
                               /\ p = << ":", " " >> /\ q = << "CR", "LF" >>
  OBVIOUS
<1>2. /\ p \in Seq(Bytes) /\ Len(p) = 2 /\ p[1] = ":" /\ p[2] = " "
      /\ q \in Seq(Bytes) /\ Len(q) = 2 /\ q[1] = "CR" /\ q[2] = "LF"
  BY <1>1, Marks, PairType, Zenon
<1>3. name \in Seq(Bytes) /\ value \in Seq(Bytes)
  BY <1>1
<1>4. PICK n, v : n = Len(name) /\ v = Len(value)
  OBVIOUS
<1>5. n \in Nat /\ v \in Nat
  BY <1>3, <1>4, LenProperties
<1>6. PICK a : a = name \o p
  OBVIOUS
<1>7. /\ a \in Seq(Bytes) /\ Len(a) = n + 2 /\ \A i \in 1 .. n : a[i] = name[i]
      /\ a[n + 1] = p[1] /\ a[n + 2] = p[2]
  <2>1. /\ a \in Seq(Bytes) /\ Len(a) = n + 2 /\ \A i \in 1 .. n : a[i] = name[i]
        /\ \A i \in 1 .. 2 : a[n + i] = p[i]
    <3>1. p \in Seq(Bytes) /\ name \in Seq(Bytes)
      BY <1>2, <1>3
    <3>2. /\ a \in Seq(Bytes) /\ Len(a) = Len(name) + Len(p)
          /\ \A i \in 1 .. Len(name) : a[i] = name[i]
          /\ \A i \in 1 .. Len(p) : a[Len(name) + i] = p[i]
      BY <1>6, <3>1
    <3> QED
      BY <1>2, <1>4, <3>2, Zenon
  <2>2. 1 \in 1 .. 2 /\ 2 \in 1 .. 2
    OBVIOUS
  <2> QED
    BY <2>1, <2>2, Zenon
<1>8. PICK b : b = a \o value
  OBVIOUS
<1>9. /\ b \in Seq(Bytes) /\ Len(b) = n + v + 2 /\ \A i \in 1 .. n + 2 : b[i] = a[i]
      /\ \A i \in 1 .. v : b[n + 2 + i] = value[i]
  <2>1. /\ b \in Seq(Bytes) /\ Len(b) = (n + 2) + v /\ \A i \in 1 .. n + 2 : b[i] = a[i]
        /\ \A i \in 1 .. v : b[n + 2 + i] = value[i]
    <3>1. a \in Seq(Bytes) /\ value \in Seq(Bytes)
      BY <1>3, <1>7
    <3>2. /\ b \in Seq(Bytes) /\ Len(b) = Len(a) + Len(value)
          /\ \A i \in 1 .. Len(a) : b[i] = a[i]
          /\ \A i \in 1 .. Len(value) : b[Len(a) + i] = value[i]
      BY <1>8, <3>1
    <3> QED
      BY <1>4, <1>7, <3>2, Zenon
  <2>2. (n + 2) + v = n + v + 2
    BY <1>5
  <2> QED
    BY <2>1, <2>2, Zenon
<1>10. PICK s : s = b \o q
  OBVIOUS
<1>11. /\ s \in Seq(Bytes) /\ Len(s) = n + v + 4 /\ \A i \in 1 .. n + v + 2 : s[i] = b[i]
       /\ s[n + v + 3] = q[1] /\ s[n + v + 4] = q[2]
  <2>1. /\ s \in Seq(Bytes) /\ Len(s) = (n + v + 2) + 2
        /\ \A i \in 1 .. n + v + 2 : s[i] = b[i]
        /\ \A i \in 1 .. 2 : s[(n + v + 2) + i] = q[i]
    <3>1. b \in Seq(Bytes) /\ q \in Seq(Bytes)
      BY <1>2, <1>9
    <3>2. /\ s \in Seq(Bytes) /\ Len(s) = Len(b) + Len(q)
          /\ \A i \in 1 .. Len(b) : s[i] = b[i]
          /\ \A i \in 1 .. Len(q) : s[Len(b) + i] = q[i]
      BY <1>10, <3>1
    <3> QED
      BY <1>2, <1>9, <3>2, Zenon
  <2>2. 1 \in 1 .. 2 /\ 2 \in 1 .. 2
    OBVIOUS
  <2>3. /\ (n + v + 2) + 2 = n + v + 4
        /\ (n + v + 2) + 1 = n + v + 3
    BY <1>5
  <2> QED
    BY <2>1, <2>2, <2>3, Zenon
<1>12. /\ \A i \in 1 .. n : s[i] = name[i]
       /\ s[n + 1] = p[1] /\ s[n + 2] = p[2]
       /\ \A i \in 1 .. v : s[n + 2 + i] = value[i]
  <2>1. ASSUME NEW i \in 1 .. n PROVE s[i] = name[i]
    <3>1. i \in 1 .. n + v + 2 /\ i \in 1 .. n + 2
      BY <1>5
    <3> QED
      BY <1>7, <1>9, <1>11, <3>1, Zenon
  <2>2. /\ n + 1 \in 1 .. n + v + 2 /\ n + 1 \in 1 .. n + 2
        /\ n + 2 \in 1 .. n + v + 2 /\ n + 2 \in 1 .. n + 2
    BY <1>5
  <2>3. s[n + 1] = p[1] /\ s[n + 2] = p[2]
    BY <1>7, <1>9, <1>11, <2>2, Zenon
  <2>4. ASSUME NEW i \in 1 .. v PROVE s[n + 2 + i] = value[i]
    <3>1. n + 2 + i \in 1 .. n + v + 2
      BY <1>5
    <3> QED
      BY <1>9, <1>11, <3>1, Zenon
  <2> QED
    BY <2>1, <2>3, <2>4
<1>13. HeaderText(h) = s
  BY <1>1, <1>6, <1>8, <1>10, Zenon DEF HeaderText
<1> QED
  BY <1>1, <1>2, <1>4, <1>5, <1>11, <1>12, <1>13, Zenon

\* Where the line of the k-th header ends.
EndOf(r, k) == Len(RequestText(r.first, SubSeq(r.headers, 1, k))) - 2

\* How the first line and the lines joined lie in a text.
LEMMA TextIs ==
    ASSUME NEW a \in Seq(Bytes), NEW hs, FlattenSeq(TextsOf(hs)) \in Seq(Bytes)
    PROVE  LieIn(RequestText(a, hs), a, << "CR", "LF" >>, FlattenSeq(TextsOf(hs)))
<1>1. PICK q, u : q = << "CR", "LF" >> /\ u = FlattenSeq(TextsOf(hs))
  OBVIOUS
<1>2. q \in Seq(Bytes) /\ Len(q) = 2 /\ u \in Seq(Bytes)
  BY <1>1, Marks, PairType, Zenon
<1>3. RequestText(a, hs) = a \o q \o u \o q
  BY <1>1, Zenon DEF RequestText, TextsOf
<1>4. LieIn(a \o q \o u \o q, a, q, u)
  BY <1>2, Pieces, Zenon
<1> QED
  BY <1>1, <1>3, <1>4, Zenon

LEMMA RequestType ==
    ASSUME NEW r \in Requests
    PROVE  /\ r.text \in Seq(Bytes) /\ r.text # << >> /\ r.first \in Seq(Bytes)
           /\ r.headers \in Seq(Headers)
           /\ \A i \in 1 .. Len(r.headers) :
                  r.headers[i].name \in Seq(Bytes) /\ r.headers[i].value \in Seq(Bytes)
<1>1. r \in [text : Seq(Bytes) \ {<< >>}, first : Seq(Bytes), headers : Seq(Headers)]
  BY WsHandshakeAssumption, Zenon
<1>2. /\ r.text \in Seq(Bytes) /\ r.text # << >> /\ r.first \in Seq(Bytes)
      /\ r.headers \in Seq(Headers)
  BY <1>1
<1>3. ASSUME NEW i \in 1 .. Len(r.headers)
      PROVE  r.headers[i].name \in Seq(Bytes) /\ r.headers[i].value \in Seq(Bytes)
  <2>1. r.headers[i] \in Headers
    BY <1>2, ElementOfSeq, Zenon
  <2> QED
    BY <2>1 DEF Headers
<1> QED
  BY <1>2, <1>3

LEMMA TextsType ==
    ASSUME NEW r \in Requests
    PROVE  /\ TextsOf(r.headers) \in Seq(Seq(Bytes))
           /\ Len(TextsOf(r.headers)) = Len(r.headers)
           /\ \A i \in 1 .. Len(r.headers) :
                  /\ HeaderText(r.headers[i]) \in Seq(Bytes)
                  /\ TextsOf(r.headers)[i] = HeaderText(r.headers[i])
<1>1. \A i \in 1 .. Len(r.headers) : HeaderText(r.headers[i]) \in Seq(Bytes)
  BY RequestType, HeaderTextIs, Zenon
<1>2. Len(r.headers) \in Nat
  BY RequestType, LenProperties
<1>3. PICK n, t : n = Len(r.headers) /\ t = TextsOf(r.headers)
  OBVIOUS
<1>4. t \in [1 .. n -> Seq(Bytes)] /\ \A i \in 1 .. n : t[i] = HeaderText(r.headers[i])
  BY <1>1, <1>3, Zenon DEF TextsOf
<1>5. t \in Seq(Seq(Bytes)) /\ Len(t) = n
  BY <1>2, <1>3, <1>4
<1> QED
  BY <1>1, <1>3, <1>4, <1>5, Zenon

\* The end of the k-th header's line, from the lines joined.
LEMMA EndIs ==
    ASSUME NEW r \in Requests, NEW f, Joins(f, Bytes, TextsOf(r.headers)),
           NEW k \in 0 .. Len(r.headers)
    PROVE  /\ f[k] \in Seq(Bytes)
           /\ EndOf(r, k) = Len(r.first) + 2 + Len(f[k])
<1>1. PICK H, n : H = r.headers /\ n = Len(H)
  OBVIOUS
<1>2. H \in Seq(Headers) /\ n \in Nat /\ k \in 0 .. n /\ Len(H) = n
  BY <1>1, RequestType, LenProperties, Zenon
<1>3. PICK hs : hs = SubSeq(H, 1, k)
  OBVIOUS
<1>4. k \in Nat /\ k <= n
  BY <1>2
<1>5. Len(hs) = k /\ \A i \in 1 .. k : hs[i] = H[i]
  BY <1>2, <1>3, <1>4
<1>6. PICK t : t = TextsOf(hs)
  OBVIOUS
<1>7. t = [i \in 1 .. k |-> HeaderText(hs[i])]
  BY <1>5, <1>6, Zenon DEF TextsOf
<1>8. \A i \in 1 .. k : i \in 1 .. n
  BY <1>2, <1>4
<1>9. \A i \in 1 .. k : t[i] = HeaderText(H[i]) /\ HeaderText(H[i]) \in Seq(Bytes)
  BY <1>1, <1>5, <1>7, <1>8, TextsType, Zenon
<1>10. t \in [1 .. k -> Seq(Bytes)]
  BY <1>7, <1>9, Zenon
<1>11. t \in Seq(Seq(Bytes)) /\ Len(t) = k
  BY <1>4, <1>10
<1>12. /\ f \in [0 .. n -> Seq(Bytes)] /\ f[0] = << >>
       /\ \A i \in 1 .. n : f[i] = f[i - 1] \o HeaderText(H[i])
  BY <1>1, TextsType, Zenon DEF Joins
<1>13. PICK g : g = [i \in 0 .. k |-> f[i]]
  OBVIOUS
<1>14. \A i \in 0 .. k : i \in 0 .. n
  BY <1>2, <1>4
<1>15. g \in [0 .. k -> Seq(Bytes)] /\ \A i \in 0 .. k : g[i] = f[i]
  BY <1>12, <1>13, <1>14, Zenon
<1>16. 0 \in 0 .. k /\ k \in 0 .. k /\ \A i \in 1 .. k : i \in 0 .. k /\ i - 1 \in 0 .. k
  BY <1>4
<1>17. \A i \in 1 .. k : g[i] = g[i - 1] \o t[i]
  BY <1>8, <1>9, <1>12, <1>15, <1>16, Zenon
<1>18. Joins(g, Bytes, t)
  BY <1>11, <1>12, <1>15, <1>16, <1>17, Zenon DEF Joins
<1>19. FlattenSeq(t) = f[k] /\ f[k] \in Seq(Bytes)
  BY <1>11, <1>12, <1>14, <1>15, <1>16, <1>18, FlattenIs, Zenon
<1>20. PICK first, u : first = r.first /\ u = f[k]
  OBVIOUS
<1>21. first \in Seq(Bytes) /\ u \in Seq(Bytes)
  BY <1>19, <1>20, RequestType, Zenon
<1>22. Len(RequestText(r.first, hs)) = Len(first) + 2 + Len(u) + 2
  <2>1. FlattenSeq(TextsOf(hs)) = u
    BY <1>6, <1>19, <1>20, Zenon
  <2>2. Len(RequestText(first, hs)) = Len(first) + 2 + Len(u) + 2
    BY <1>21, <2>1, TextIs, ZenonT(40) DEF LieIn
  <2> QED
    BY <1>20, <2>2, Zenon
<1>24. EndOf(r, k) = (Len(first) + 2 + Len(u) + 2) - 2
  BY <1>1, <1>3, <1>22, Zenon DEF EndOf
<1>25. Len(first) \in Nat /\ Len(u) \in Nat
  BY <1>21, LenProperties
<1>26. EndOf(r, k) = Len(first) + 2 + Len(u)
  BY <1>24, <1>25
<1> QED
  BY <1>19, <1>20, <1>26, Zenon

\* The lines of a request: the first one, one for each header, an empty one.
LaidOut(r) ==
    LET N == Len(r.headers) IN
    /\ N \in Nat \ {0}
    /\ Len(r.first) \in Nat /\ EndOf(r, 0) = Len(r.first) + 2
    /\ \A i \in 1 .. Len(r.first) : r.text[i] = r.first[i]
    /\ r.text[Len(r.first) + 1] = "CR" /\ r.text[Len(r.first) + 2] = "LF"
    /\ \A k \in 0 .. N : EndOf(r, k) \in Nat
    /\ \A k \in 1 .. N :
           /\ EndOf(r, k) = EndOf(r, k - 1) + Len(HeaderText(r.headers[k]))
           /\ \A i \in 1 .. Len(HeaderText(r.headers[k])) :
                  r.text[EndOf(r, k - 1) + i] = HeaderText(r.headers[k])[i]
    /\ Len(r.text) = EndOf(r, N) + 2
    /\ r.text[EndOf(r, N) + 1] = "CR" /\ r.text[EndOf(r, N) + 2] = "LF"

LEMMA RequestIsLaidOut ==
    ASSUME NEW r \in Requests, r.headers # << >>
    PROVE  LaidOut(r)
<1>1. PICK N, H, a, text : N = Len(H) /\ H = r.headers /\ a = r.first /\ text = r.text
  OBVIOUS
<1>2. H \in Seq(Headers) /\ H # << >> /\ a \in Seq(Bytes)
  BY <1>1, RequestType, Zenon
<1>3. N \in Nat \ {0} /\ Len(a) \in Nat
  BY <1>1, <1>2
<1>4. PICK f : Joins(f, Bytes, TextsOf(H))
  BY <1>1, TextsType, JoinsExist, Zenon
<1>5. /\ Len(TextsOf(H)) = N /\ TextsOf(H) \in Seq(Seq(Bytes))
      /\ \A i \in 1 .. N : HeaderText(H[i]) \in Seq(Bytes) /\ TextsOf(H)[i] = HeaderText(H[i])
  BY <1>1, TextsType, Zenon
<1>6. \A k \in 0 .. N : f[k] \in Seq(Bytes) /\ EndOf(r, k) = Len(a) + 2 + Len(f[k])
  BY <1>1, <1>4, EndIs, Zenon
<1>7. 0 \in 0 .. N /\ N \in 0 .. N
  BY <1>3
<1>8. FlattenSeq(TextsOf(H)) = f[N] /\ f[N] \in Seq(Bytes)
  BY <1>4, <1>5, <1>6, <1>7, FlattenIs, Zenon
<1>9. text = RequestText(a, H)
  BY <1>1, WsHandshakeAssumption, Zenon DEF WellFormed
<1>10. LieIn(text, a, << "CR", "LF" >>, f[N])
  BY <1>2, <1>8, <1>9, TextIs, Zenon
<1>11. << "CR", "LF" >>[1] = "CR" /\ << "CR", "LF" >>[2] = "LF"
  BY Marks, PairType, Zenon
<1>12. /\ Len(text) = Len(a) + 2 + Len(f[N]) + 2
       /\ \A i \in 1 .. Len(a) : text[i] = a[i]
       /\ text[Len(a) + 1] = "CR" /\ text[Len(a) + 2] = "LF"
       /\ \A i \in 1 .. Len(f[N]) : text[Len(a) + 2 + i] = f[N][i]
       /\ text[Len(a) + 2 + Len(f[N]) + 1] = "CR" /\ text[Len(a) + 2 + Len(f[N]) + 2] = "LF"
  BY <1>10, <1>11, Zenon DEF LieIn
<1>13. EndOf(r, 0) = Len(a) + 2
  <2>1. Len(f[0]) = 0
    <3>1. f[0] = << >>
      BY <1>4, Zenon DEF Joins
    <3> QED
      BY <3>1
  <2>2. EndOf(r, 0) = Len(a) + 2 + 0
    BY <1>6, <1>7, <2>1, Zenon
  <2> QED
    BY <1>3, <2>2
<1>14. \A k \in 0 .. N : EndOf(r, k) \in Nat
  <2>1. ASSUME NEW k \in 0 .. N PROVE EndOf(r, k) \in Nat
    <3>1. Len(f[k]) \in Nat
      BY <1>6, LenProperties
    <3>2. PICK x, y, z : x = EndOf(r, k) /\ y = Len(f[k]) /\ z = Len(a)
      OBVIOUS
    <3>3. x = z + 2 + y /\ y \in Nat /\ z \in Nat
      BY <1>3, <1>6, <3>1, <3>2, Zenon
    <3>4. x \in Nat
      BY <3>3
    <3> QED
      BY <3>2, <3>4, Zenon
  <2> QED
    BY <2>1
<1>15. ASSUME NEW k \in 1 .. N
       PROVE  /\ EndOf(r, k) = EndOf(r, k - 1) + Len(HeaderText(H[k]))
              /\ \A i \in 1 .. Len(HeaderText(H[k])) :
                     text[EndOf(r, k - 1) + i] = HeaderText(H[k])[i]
  <2>1. k \in 0 .. N /\ k - 1 \in 0 .. N
    BY <1>3
  <2>2. PICK t, u, v : t = HeaderText(H[k]) /\ u = f[k - 1] /\ v = f[k]
    OBVIOUS
  <2>3. v = u \o t
    BY <1>4, <1>5, <2>2, Zenon DEF Joins
  <2>4. t \in Seq(Bytes) /\ u \in Seq(Bytes)
    BY <1>5, <1>6, <2>1, <2>2, Zenon
  <2>5. Len(v) = Len(u) + Len(t) /\ \A i \in 1 .. Len(t) : v[Len(u) + i] = t[i]
    BY <2>3, <2>4
  <2>6. Len(u) \in Nat /\ Len(t) \in Nat
    BY <2>4, LenProperties
  <2>7. EndOf(r, k) = Len(a) + 2 + Len(v) /\ EndOf(r, k - 1) = Len(a) + 2 + Len(u)
    BY <1>6, <2>1, <2>2, Zenon
  <2>8. EndOf(r, k) = EndOf(r, k - 1) + Len(t)
    BY <1>3, <2>5, <2>6, <2>7
  <2>9. Len(v) <= Len(f[N]) /\ \A i \in 1 .. Len(v) : f[N][i] = v[i]
    <3>1. k \in 0 .. Len(TextsOf(H))
      BY <1>5, <2>1, Zenon
    <3>2. /\ Len(f[k]) <= Len(f[Len(TextsOf(H))])
          /\ \A i \in 1 .. Len(f[k]) : f[Len(TextsOf(H))][i] = f[k][i]
      BY <1>4, <1>5, <3>1, JoinsGrow
    <3> QED
      BY <1>5, <2>2, <3>2, Zenon
  <2>10. Len(f[N]) \in Nat /\ Len(v) \in Nat
    BY <1>8, <2>5, <2>6, LenProperties
  <2>11. ASSUME NEW i \in 1 .. Len(t)
         PROVE  text[EndOf(r, k - 1) + i] = t[i]
    <3>1. Len(u) + i \in 1 .. Len(v) /\ Len(u) + i \in 1 .. Len(f[N])
      BY <2>5, <2>6, <2>9, <2>10
    <3>2. f[N][Len(u) + i] = t[i]
      BY <2>5, <2>9, <3>1, Zenon
    <3>3. text[Len(a) + 2 + (Len(u) + i)] = t[i]
      BY <1>12, <3>1, <3>2, Zenon
    <3>4. Len(a) + 2 + (Len(u) + i) = EndOf(r, k - 1) + i
      BY <1>3, <2>6, <2>7
    <3> QED
      BY <3>3, <3>4, Zenon
  <2> QED
    BY <2>2, <2>8, <2>11, Zenon
<1>16. EndOf(r, N) = Len(a) + 2 + Len(f[N])
  BY <1>6, <1>7, Zenon
<1>17. /\ Len(text) = EndOf(r, N) + 2
       /\ text[EndOf(r, N) + 1] = "CR" /\ text[EndOf(r, N) + 2] = "LF"
  BY <1>12, <1>16, Zenon
<1> QED
  BY <1>1, <1>3, <1>12, <1>13, <1>14, <1>15, <1>17, Zenon DEF LaidOut

\* A header's line, which begins behind the last one.
HeaderAt(r, k) ==
    LET b == EndOf(r, k - 1)
        e == EndOf(r, k)
        n == Len(r.headers[k].name)
        v == Len(r.headers[k].value) IN
    /\ b \in Nat /\ n \in Nat /\ v \in Nat /\ e = b + n + v + 4
    /\ \A i \in 1 .. n : r.text[b + i] = r.headers[k].name[i]
    /\ r.text[b + n + 1] = ":"
    /\ \A i \in 1 .. v : r.text[b + n + 2 + i] = r.headers[k].value[i]
    /\ r.text[e] = "LF"
    /\ \A i \in b + 1 .. e - 1 : r.text[i] # "LF"
    /\ \A i \in b + 1 .. b + n : r.text[i] # ":"

LEMMA HeaderIsAt ==
    ASSUME NEW r \in Requests, r.headers # << >>, NEW k \in 1 .. Len(r.headers)
    PROVE  HeaderAt(r, k)
<1>1. PICK N, h, text, s, b, e : /\ N = Len(r.headers) /\ h = r.headers[k] /\ text = r.text
                                 /\ s = HeaderText(h) /\ b = EndOf(r, k - 1) /\ e = EndOf(r, k)
  OBVIOUS
<1>2. LaidOut(r)
  BY RequestIsLaidOut
<1>3. N \in Nat \ {0} /\ \A i \in 0 .. N : EndOf(r, i) \in Nat
  BY <1>1, <1>2, Zenon DEF LaidOut
<1>4. k - 1 \in 0 .. N /\ k \in 1 .. N
  BY <1>1, <1>3
<1>5. b \in Nat /\ e = b + Len(s) /\ \A i \in 1 .. Len(s) : text[b + i] = s[i]
  BY <1>1, <1>2, <1>3, <1>4, Zenon DEF LaidOut
<1>6. h.name \in Seq(Printable \ {":"}) /\ h.value \in Seq(Printable)
  BY <1>1, <1>4, WsHandshakeAssumption, Zenon DEF WellFormed
<1>7. PICK name, value, n, v : name = h.name /\ value = h.value /\ n = Len(name) /\ v = Len(value)
  OBVIOUS
<1>8. name \in Seq(Bytes) /\ value \in Seq(Bytes)
  BY <1>1, <1>4, <1>7, RequestType, Zenon
<1>9. /\ n \in Nat /\ v \in Nat /\ Len(s) = n + v + 4
      /\ \A i \in 1 .. n : s[i] = name[i]
      /\ s[n + 1] = ":" /\ s[n + 2] = " "
      /\ \A i \in 1 .. v : s[n + 2 + i] = value[i]
      /\ s[n + v + 3] = "CR" /\ s[n + v + 4] = "LF"
  <2>1. h.name \in Seq(Bytes) /\ h.value \in Seq(Bytes)
    BY <1>7, <1>8, Zenon
  <2> QED
    BY <1>1, <1>7, <2>1, HeaderTextIs, ZenonT(60)
<1>10. /\ \A i \in 1 .. n : name[i] \in Printable \ {":"}
       /\ \A i \in 1 .. v : value[i] \in Printable
  BY <1>6, <1>7, ElementOfSeq, Zenon
<1>11. /\ \A i \in 1 .. n : name[i] # "LF" /\ name[i] # ":"
       /\ \A i \in 1 .. v : value[i] # "LF"
  BY <1>10, Zenon DEF Printable
<1>a. PICK len : len = Len(s)
  OBVIOUS
<1>b. n \in Nat /\ v \in Nat /\ b \in Nat /\ len = n + v + 4 /\ e = b + len
  BY <1>5, <1>9, <1>a, Zenon
<1>12. \A i \in 1 .. n + v + 3 : i \in 1 .. n \/ i = n + 1 \/ i = n + 2
                                    \/ i = n + v + 3 \/ \E j \in 1 .. v : i = n + 2 + j
  <2>1. ASSUME NEW i \in 1 .. n + v + 3, i > n + 2, i < n + v + 3
        PROVE  i - (n + 2) \in 1 .. v /\ i = n + 2 + (i - (n + 2))
    BY <1>b, <2>1
  <2>2. ASSUME NEW i \in 1 .. n + v + 3
        PROVE  i \in 1 .. n \/ i = n + 1 \/ i = n + 2 \/ i = n + v + 3
                  \/ (i > n + 2 /\ i < n + v + 3)
    BY <1>b
  <2> QED
    BY <2>1, <2>2, Zenon
<1>13. "LF" # ":" /\ "LF" # " " /\ "LF" # "CR"
  BY Zenon
<1>14. \A i \in 1 .. n + v + 3 : s[i] # "LF"
  <2>1. \A i \in 1 .. n : s[i] # "LF"
    BY <1>9, <1>11, Zenon
  <2>2. \A i \in 1 .. v : s[n + 2 + i] # "LF"
    BY <1>9, <1>11, Zenon
  <2>3. s[n + 1] # "LF" /\ s[n + 2] # "LF" /\ s[n + v + 3] # "LF"
    BY <1>9, <1>13, Zenon
  <2> QED
    BY <1>12, <2>1, <2>2, <2>3, Zenon
<1>15. ASSUME NEW i \in b + 1 .. e - 1 PROVE text[i] # "LF"
  <2>1. i - b \in 1 .. n + v + 3 /\ i - b \in 1 .. len /\ b + (i - b) = i
    BY <1>b
  <2> QED
    BY <1>5, <1>14, <1>a, <2>1, Zenon
<1>16. \A i \in 1 .. n : i \in 1 .. len
  BY <1>b
<1>17. ASSUME NEW i \in b + 1 .. b + n PROVE text[i] # ":"
  <2>1. i - b \in 1 .. n /\ b + (i - b) = i
    BY <1>b
  <2> QED
    BY <1>5, <1>9, <1>11, <1>16, <1>a, <2>1, ZenonT(40)
<1>18. \A i \in 1 .. n : text[b + i] = name[i]
  BY <1>5, <1>9, <1>16, <1>a, Zenon
<1>19. /\ n + 1 \in 1 .. len /\ n + v + 4 \in 1 .. len
       /\ \A i \in 1 .. v : n + 2 + i \in 1 .. len
       /\ b + (n + 1) = b + n + 1 /\ \A i \in 1 .. v : b + (n + 2 + i) = b + n + 2 + i
       /\ b + (n + v + 4) = b + n + v + 4 /\ e = b + n + v + 4
  BY <1>b
<1>20. text[b + n + 1] = ":" /\ text[e] = "LF"
  <2>1. text[b + (n + 1)] = s[n + 1] /\ text[b + (n + v + 4)] = s[n + v + 4]
    BY <1>5, <1>19, <1>a, Zenon
  <2>2. s[n + 1] = ":" /\ s[n + v + 4] = "LF"
    BY <1>9, Zenon
  <2>3. b + (n + 1) = b + n + 1 /\ b + (n + v + 4) = e
    BY <1>b
  <2> QED
    BY <2>1, <2>2, <2>3, Zenon
<1>21. \A i \in 1 .. v : text[b + n + 2 + i] = value[i]
  BY <1>5, <1>9, <1>19, <1>a, Zenon
<1> QED
  BY <1>1, <1>7, <1>b, <1>15, <1>17, <1>18, <1>19, <1>20, <1>21, Zenon DEF HeaderAt

\* The lines follow each other.
LEMMA EndsGrow ==
    ASSUME NEW r \in Requests, r.headers # << >>,
           NEW k \in 0 .. Len(r.headers), NEW m \in 0 .. Len(r.headers), k <= m
    PROVE  EndOf(r, k) <= EndOf(r, m)
<1> DEFINE N == Len(r.headers)
           S == { n \in Nat : k + n <= N => EndOf(r, k) <= EndOf(r, k + n) }
<1>1. N \in Nat /\ \A i \in 0 .. N : EndOf(r, i) \in Nat
  BY RequestIsLaidOut, Zenon DEF LaidOut
<1> HIDE DEF N
<1>2. k \in 0 .. N /\ m \in 0 .. N
  BY DEF N
<1>3. EndOf(r, k) \in Nat
  BY <1>1, <1>2
<1>4. k + 0 = k
  BY <1>1, <1>2
<1>5. 0 \in S
  BY <1>3, <1>4
<1>6. ASSUME NEW n \in Nat, n \in S PROVE n + 1 \in S
  <2> SUFFICES ASSUME k + (n + 1) <= N
               PROVE  EndOf(r, k) <= EndOf(r, k + (n + 1))
    OBVIOUS
  <2>1. PICK i \in 1 .. N : i = k + (n + 1) /\ i - 1 = k + n /\ k + n <= N
    BY <1>1, <1>2
  <2>2. HeaderAt(r, i)
    BY <2>1, HeaderIsAt, Zenon DEF N
  <2>3. PICK b, e, p, q : b = EndOf(r, i - 1) /\ e = EndOf(r, i) /\ p = Len(r.headers[i].name)
                          /\ q = Len(r.headers[i].value)
    OBVIOUS
  <2>4. b \in Nat /\ p \in Nat /\ q \in Nat /\ e = b + p + q + 4
    BY <2>2, <2>3, Zenon DEF HeaderAt
  <2>5. b <= e /\ e \in Nat
    BY <2>4
  <2>6. EndOf(r, k) <= b
    BY <1>6, <2>1, <2>3
  <2>7. EndOf(r, k) <= e
    BY <1>3, <2>4, <2>5, <2>6
  <2> QED
    BY <2>1, <2>3, <2>7, Zenon
<1> HIDE DEF S
<1>7. \A n \in Nat : n \in S
  BY <1>5, <1>6, AllNaturals
<1>8. PICK n \in Nat : n = m - k /\ k + n = m /\ k + n <= N
  BY <1>1, <1>2
<1>9. n \in S
  BY <1>7
<1> QED
  BY <1>8, <1>9, Zenon DEF S

-----------------------------------------------------------------------------
(* The strings of an entry                                                   *)

\* SelectInSeq gives the first place of a set of them, or 0.
LEMMA FirstIn ==
    ASSUME NEW n \in Nat, NEW I, I \subseteq 1 .. n, NEW m, m = IF I # {} THEN Min(I) ELSE 0
    PROVE  /\ m \in 0 .. n
           /\ m = 0 => I = {}
           /\ m # 0 => m \in I /\ m \in 1 .. n /\ \A i \in 1 .. m - 1 : i \notin I
<1>1. CASE I = {}
  BY <1>1
<1>2. CASE I # {}
  <2>1. I \subseteq Nat
    OBVIOUS
  <2>2. m \in I /\ \A i \in I : m <= i
    BY <1>2, <2>1, MinProperties
  <2>3. m \in 1 .. n
    BY <2>2
  <2>4. ASSUME NEW i \in 1 .. m - 1, i \in I PROVE FALSE
    <3>1. m <= i
      BY <2>2, <2>4
    <3> QED
      BY <2>3, <3>1
  <2> QED
    BY <2>2, <2>3, <2>4
<1> QED
  BY <1>1, <1>2

LEMMA FirstNul ==
    ASSUME NEW C, NEW s \in Seq(C)
    PROVE  LET nul == SelectInSeq(s, LAMBDA c : c = "NUL") IN
           /\ nul \in 0 .. Len(s)
           /\ nul = 0 => \A i \in 1 .. Len(s) : s[i] # "NUL"
           /\ nul # 0 => /\ nul \in 1 .. Len(s) /\ s[nul] = "NUL"
                         /\ \A i \in 1 .. nul - 1 : s[i] # "NUL"
<1> DEFINE I == { i \in 1 .. Len(s) : s[i] = "NUL" }
           nul == SelectInSeq(s, LAMBDA c : c = "NUL")
<1>1. Len(s) \in Nat
  BY LenProperties
<1>2. /\ I \subseteq 1 .. Len(s)
      /\ \A i \in 1 .. Len(s) : i \in I <=> s[i] = "NUL"
  OBVIOUS
<1>3. nul = IF I # {} THEN Min(I) ELSE 0
  BY DEF SelectInSeq
<1> HIDE DEF I, nul
<1>4. /\ nul \in 0 .. Len(s)
      /\ nul = 0 => I = {}
      /\ nul # 0 => nul \in I /\ nul \in 1 .. Len(s) /\ \A i \in 1 .. nul - 1 : i \notin I
  BY <1>1, <1>2, <1>3, FirstIn
<1>5. ASSUME NEW i \in 1 .. nul - 1, nul # 0 PROVE i \in 1 .. Len(s)
  BY <1>1, <1>4, <1>5
<1> QED
  BY <1>2, <1>4, <1>5, Zenon DEF nul

\* The string at a place where a word without a terminator was written goes
\* on behind it as far as the memory does, and ends there if a terminator does.
LEMMA CStringIs ==
    ASSUME NEW entry \in Entries, NEW from \in 1 .. 2 * Size, NEW w \in Seq(Bytes),
           from + Len(w) <= 2 * Size,
           \A i \in 1 .. Len(w) : entry[from - 1 + i] = w[i] /\ w[i] # "NUL"
    PROVE  /\ IsPrefix(w, CString(entry, from))
           /\ entry[from + Len(w)] = "NUL" => CString(entry, from) = w
<1>1. Size \in Nat /\ Len(w) \in Nat
  BY WsHandshakeAssumption, LenProperties, Zenon
<1>2. PICK len, n : len = 2 * Size /\ n = Len(w)
  OBVIOUS
<1>3. len \in Nat /\ n \in Nat /\ from \in 1 .. len /\ from + n <= len
  BY <1>1, <1>2
<1>4. entry \in [1 .. len -> Bytes]
  BY <1>2, Zenon DEF Entries
<1>5. entry \in Seq(Bytes) /\ Len(entry) = len
  BY <1>3, <1>4
<1>6. PICK t, q : t = SubSeq(entry, from, Len(entry)) /\ q = (len - from) + 1
  OBVIOUS
<1>7. q \in Nat /\ n < q /\ len \in 1 .. len /\ \A i \in 1 .. q : from + i - 1 \in 1 .. len
  BY <1>3, <1>6
<1>8. t = SubSeq(entry, from, len)
  BY <1>5, <1>6, Zenon
<1>9. t \in Seq(Bytes) /\ Len(t) = q /\ \A i \in 1 .. q : t[i] = entry[from + i - 1]
  BY <1>3, <1>5, <1>6, <1>7, <1>8
<1>10. PICK end, bytes, C : /\ end = << "hh", "NUL" >> /\ bytes = t \o end
                            /\ C = Bytes \cup {"hh", "NUL"}
  OBVIOUS
<1>11. end \in Seq(C) /\ Len(end) = 2 /\ end[2] = "NUL"
  <2>1. PICK x, y : x = "hh" /\ y = "NUL"
    OBVIOUS
  <2>2. x \in C /\ y \in C /\ end = << x, y >>
    BY <1>10, <2>1, Zenon
  <2>3. end \in Seq(C) /\ Len(end) = 2 /\ end[2] = y
    BY <2>2
  <2> QED
    BY <2>1, <2>3, Zenon
<1>12. t \in Seq(C)
  BY <1>9, <1>10
<1>13. /\ bytes \in Seq(C) /\ Len(bytes) = q + 2
       /\ \A i \in 1 .. q : bytes[i] = entry[from + i - 1]
       /\ bytes[q + 2] = "NUL"
  <2>1. end \in Seq(C)
    BY <1>11
  <2>2. bytes = t \o end
    BY <1>10
  <2>3. /\ bytes \in Seq(C) /\ Len(bytes) = Len(t) + Len(end)
        /\ \A i \in 1 .. Len(t) : bytes[i] = t[i]
        /\ \A i \in 1 .. Len(end) : bytes[Len(t) + i] = end[i]
    BY <1>12, <2>1, <2>2
  <2>4. 2 \in 1 .. 2
    OBVIOUS
  <2> QED
    BY <1>9, <1>11, <2>3, <2>4, Zenon
<1>14. \A i \in 1 .. n : i \in 1 .. q /\ from + i - 1 = from - 1 + i
  BY <1>3, <1>7
<1>15. \A i \in 1 .. n : bytes[i] = w[i] /\ bytes[i] # "NUL"
  BY <1>2, <1>13, <1>14, Zenon
<1>16. PICK z : z = SelectInSeq(bytes, LAMBDA c : c = "NUL")
  OBVIOUS
<1>17. /\ z \in 0 .. Len(bytes)
       /\ z = 0 => \A i \in 1 .. Len(bytes) : bytes[i] # "NUL"
       /\ z # 0 => /\ z \in 1 .. Len(bytes) /\ bytes[z] = "NUL"
                   /\ \A i \in 1 .. z - 1 : bytes[i] # "NUL"
  BY <1>13, <1>16, FirstNul
<1>18. q + 2 \in 1 .. q + 2
  BY <1>7
<1>19. z \in 1 .. q + 2 /\ bytes[z] = "NUL" /\ \A i \in 1 .. z - 1 : bytes[i] # "NUL"
  BY <1>13, <1>17, <1>18, Zenon
<1>20. ~(z \in 1 .. n)
  BY <1>15, <1>19, Zenon
<1>21. z - 1 \in Nat /\ n <= z - 1 /\ z - 1 <= q + 1 /\ 1 \in Nat
  BY <1>3, <1>7, <1>19, <1>20
<1>22. PICK c : c = SubSeq(bytes, 1, z - 1)
  OBVIOUS
<1>23. c \in Seq(C) /\ Len(c) = z - 1 /\ \A i \in 1 .. z - 1 : c[i] = bytes[i]
  BY <1>7, <1>13, <1>21, <1>22
<1>24. CString(entry, from) = c
  BY <1>6, <1>10, <1>16, <1>22, Zenon DEF CString
<1>25. \A i \in 1 .. n : i \in 1 .. z - 1
  BY <1>3, <1>21
<1>26. \A i \in 1 .. n : c[i] = w[i]
  BY <1>15, <1>23, <1>25, Zenon
<1>27. SubSeq(w, 1, n) = SubSeq(c, 1, n)
  <2>1. PICK x, y : x = SubSeq(w, 1, n) /\ y = SubSeq(c, 1, n)
    OBVIOUS
  <2>2. x \in Seq(Bytes) /\ Len(x) = n /\ \A i \in 1 .. n : x[i] = w[i]
    BY <1>2, <1>3, <2>1
  <2>3. y \in Seq(C) /\ Len(y) = n /\ \A i \in 1 .. n : y[i] = c[i]
    BY <1>3, <1>21, <1>23, <2>1
  <2>4. x \in Seq(C)
    BY <1>10, <2>2
  <2>5. \A i \in 1 .. n : x[i] = y[i]
    BY <1>26, <2>2, <2>3, Zenon
  <2>6. x = y
    BY <2>2, <2>3, <2>4, <2>5, SeqEqual
  <2> QED
    BY <2>1, <2>6, Zenon
<1>28. IsPrefix(w, c)
  BY <1>2, <1>21, <1>23, <1>27, Zenon DEF IsPrefix
<1>29. ASSUME entry[from + n] = "NUL" PROVE c = w
  <2>1. n + 1 \in 1 .. q /\ from + (n + 1) - 1 = from + n
    BY <1>3, <1>7
  <2>2. bytes[n + 1] = "NUL"
    BY <1>13, <1>29, <2>1, Zenon
  <2>3. ~(n + 1 \in 1 .. z - 1)
    BY <1>19, <2>2, Zenon
  <2>4. z - 1 = n
    BY <1>3, <1>19, <1>21, <2>3
  <2>5. w \in Seq(C)
    BY <1>10
  <2>6. Len(c) = Len(w) /\ \A i \in 1 .. Len(w) : c[i] = w[i]
    BY <1>2, <1>23, <1>26, <2>4, Zenon
  <2> QED
    BY <1>23, <2>5, <2>6, SeqEqual
<1> QED
  BY <1>2, <1>24, <1>28, <1>29, Zenon

\* What two copies of data's bytes leave in an entry's memory.
Copied(memory, e, b, n, vb, v) ==
    /\ \A i \in 1 .. n : e[i] = data[b + i - 1]
    /\ \A i \in 1 .. v : e[Size + i] = data[vb + i - 1]
    /\ memory = Zeroed => e[n + 1] = "NUL" /\ e[Size + v + 1] = "NUL"

LEMMA CopiesAre ==
    ASSUME NEW memory \in Entries, NEW b \in Int, NEW n \in Nat, NEW vb \in Int, NEW v \in Nat,
           n < Size, v < Size,
           NEW e, e = strncpy(strncpy(memory, 1, b, n), Size + 1, vb, v)
    PROVE  Copied(memory, e, b, n, vb, v)
<1>1. Size \in Nat
  BY WsHandshakeAssumption, Zenon
<1>2. DOMAIN memory = 1 .. 2 * Size
  BY DEF Entries
<1>3. PICK d : d = strncpy(memory, 1, b, n)
  OBVIOUS
<1>4. d = [i \in 1 .. 2 * Size |->
              IF i \in 1 .. 1 + n - 1 THEN data[b + i - 1] ELSE memory[i]]
  BY <1>2, <1>3, Zenon DEF strncpy
<1>5. DOMAIN d = 1 .. 2 * Size
  BY <1>4, Zenon
<1>6. e = [i \in 1 .. 2 * Size |->
              IF i \in Size + 1 .. Size + 1 + v - 1
              THEN data[vb + i - (Size + 1)] ELSE d[i]]
  BY <1>3, <1>5, Zenon DEF strncpy
<1>7. ASSUME NEW i \in 1 .. n PROVE e[i] = data[b + i - 1]
  <2>1. /\ i \in 1 .. 2 * Size /\ i \in 1 .. 1 + n - 1
        /\ i \notin Size + 1 .. Size + 1 + v - 1
    BY <1>1
  <2> QED
    BY <1>4, <1>6, <2>1, Zenon
<1>8. ASSUME NEW i \in 1 .. v PROVE e[Size + i] = data[vb + i - 1]
  <2>1. /\ Size + i \in 1 .. 2 * Size /\ Size + i \in Size + 1 .. Size + 1 + v - 1
        /\ vb + (Size + i) - (Size + 1) = vb + i - 1
    BY <1>1
  <2>2. e[Size + i] = data[vb + (Size + i) - (Size + 1)]
    BY <1>6, <2>1, Zenon
  <2> QED
    BY <2>1, <2>2, Zenon
<1>9. ASSUME memory = Zeroed PROVE e[n + 1] = "NUL" /\ e[Size + v + 1] = "NUL"
  <2>1. /\ n + 1 \in 1 .. 2 * Size /\ n + 1 \notin 1 .. 1 + n - 1
        /\ n + 1 \notin Size + 1 .. Size + 1 + v - 1
        /\ Size + v + 1 \in 1 .. 2 * Size /\ Size + v + 1 \notin 1 .. 1 + n - 1
        /\ Size + v + 1 \notin Size + 1 .. Size + 1 + v - 1
    BY <1>1
  <2>2. e[n + 1] = memory[n + 1] /\ e[Size + v + 1] = memory[Size + v + 1]
    BY <1>4, <1>6, <2>1, Zenon
  <2>3. memory[n + 1] = "NUL" /\ memory[Size + v + 1] = "NUL"
    BY <1>9, <2>1, Zenon DEF Zeroed
  <2> QED
    BY <2>2, <2>3, Zenon
<1> QED
  BY <1>7, <1>8, <1>9, Zenon DEF Copied

-----------------------------------------------------------------------------
(* The lines as ws_parse_handshake finds them                                *)

\* What was read is the beginning of the text.
LEMMA DataIs ==
    ASSUME RequestOK, TypeOK
    PROVE  /\ data \in Seq(Bytes) /\ Len(data) \in Nat
           /\ Len(data) <= Len(request.text)
           /\ \A i \in 1 .. Len(data) : data[i] = request.text[i]
<1>1. data \in Seq(Bytes) /\ IsPrefix(data, request.text)
  BY DEF TypeOK
<1>2. request.text \in Seq(Bytes)
  BY RequestType DEF RequestOK
<1>3. PICK text, n : text = request.text /\ n = Len(data)
  OBVIOUS
<1>4. n \in Nat /\ n <= Len(text) /\ SubSeq(data, 1, n) = SubSeq(text, 1, n)
  BY <1>1, <1>3, LenProperties, Zenon DEF IsPrefix
<1>5. PICK x : x = SubSeq(data, 1, n)
  OBVIOUS
<1>6. \A i \in 1 .. n : x[i] = data[i]
  BY <1>1, <1>3, <1>4, <1>5
<1>7. text \in Seq(Bytes) /\ x = SubSeq(text, 1, n)
  BY <1>2, <1>3, <1>4, <1>5, Zenon
<1>8. \A i \in 1 .. n : x[i] = text[i]
  BY <1>4, <1>7
<1> QED
  BY <1>1, <1>3, <1>4, <1>6, <1>8, Zenon

\* A line that begins at b and whose newline is at e: line_end is there, if
\* it was read, and there is none otherwise.
LEMMA LineEndsAt ==
    ASSUME RequestOK, TypeOK, NEW e \in Nat, line_begin <= e,
           request.text[e] = "LF", \A i \in line_begin .. e - 1 : request.text[i] # "LF"
    PROVE  line_end = IF e <= Len(data) THEN e ELSE 0
<1>1. /\ data \in Seq(Bytes) /\ Len(data) \in Nat
      /\ \A i \in 1 .. Len(data) : data[i] = request.text[i]
  BY DataIs
<1>2. line_begin \in 1 .. Len(data) + 1
  BY DEF TypeOK
<1>3. \/ /\ line_end = 0
         /\ \A i \in line_begin .. Len(data) : data[i] # "LF"
      \/ /\ line_end \in line_begin .. Len(data)
         /\ data[line_end] = "LF"
         /\ \A i \in line_begin .. line_end - 1 : data[i] # "LF"
  BY <1>1, <1>2, LineEnd, Zenon
<1>4. PICK b, x, n : b = line_begin /\ x = line_end /\ n = Len(data)
  OBVIOUS
<1>5. b \in 1 .. n + 1 /\ n \in Nat /\ b <= e
  BY <1>1, <1>2, <1>4
<1>6. CASE e <= n
  <2>1. e \in b .. n /\ e \in 1 .. n
    BY <1>5, <1>6
  <2>2. data[e] = "LF"
    BY <1>1, <1>4, <2>1, Zenon
  <2>3. x \in b .. n /\ data[x] = "LF" /\ \A i \in b .. x - 1 : data[i] # "LF"
    BY <1>3, <1>4, <2>1, <2>2, Zenon
  <2>4. ~(e \in b .. x - 1)
    BY <2>2, <2>3, Zenon
  <2>5. x \in 1 .. n
    BY <1>5, <2>3
  <2>6. request.text[x] = "LF"
    BY <1>1, <1>4, <2>3, <2>5, Zenon
  <2>7. ~(x \in b .. e - 1)
    BY <1>4, <2>6, Zenon
  <2>8. x = e
    BY <1>5, <1>6, <2>1, <2>3, <2>4, <2>7
  <2> QED
    BY <1>4, <1>6, <2>8, Zenon
<1>7. CASE ~(e <= n)
  <2>1. ASSUME x \in b .. n PROVE data[x] # "LF"
    <3>1. x \in 1 .. n /\ x \in b .. e - 1
      BY <1>5, <1>7, <2>1
    <3> QED
      BY <1>1, <1>4, <3>1, Zenon
  <2>2. x = 0
    BY <1>3, <1>4, <2>1, Zenon
  <2> QED
    BY <1>4, <1>7, <2>2, Zenon
<1> QED
  BY <1>6, <1>7

\* The first line.
LEMMA FirstLine ==
    ASSUME RequestOK, TypeOK, request.headers # << >>, line_begin = 1
    PROVE  line_end = IF EndOf(request, 0) <= Len(data) THEN EndOf(request, 0) ELSE 0
<1>1. request \in Requests /\ LaidOut(request)
  BY RequestIsLaidOut DEF RequestOK
<1>2. PICK e, a, n, text : /\ e = EndOf(request, 0) /\ a = request.first /\ n = Len(a)
                           /\ text = request.text
  OBVIOUS
<1>3. /\ n \in Nat /\ e = n + 2 /\ \A i \in 1 .. n : text[i] = a[i]
      /\ text[n + 1] = "CR" /\ text[n + 2] = "LF"
  BY <1>1, <1>2, Zenon DEF LaidOut
<1>4. a \in Seq(Bytes \ {"LF"})
  BY <1>1, <1>2, WsHandshakeAssumption, Zenon DEF WellFormed
<1>5. \A i \in 1 .. n : a[i] # "LF"
  <2>1. \A i \in 1 .. n : a[i] \in Bytes \ {"LF"}
    BY <1>2, <1>4, ElementOfSeq, Zenon
  <2> QED
    BY <2>1, Zenon
<1>6. \A i \in 1 .. e - 1 : i \in 1 .. n \/ i = n + 1
  BY <1>3
<1>7. "CR" # "LF"
  BY Zenon
<1>8. \A i \in 1 .. e - 1 : text[i] # "LF"
  BY <1>3, <1>5, <1>6, <1>7, Zenon
<1>9. e \in Nat /\ 1 <= e
  BY <1>3
<1>10. text[e] = "LF"
  BY <1>3, Zenon
<1> QED
  BY <1>2, <1>8, <1>9, <1>10, LineEndsAt, Zenon

\* The empty line behind the headers.
LEMMA LastLine ==
    ASSUME RequestOK, TypeOK, request.headers # << >>,
           line_begin = EndOf(request, Len(request.headers)) + 1, line_end # 0
    PROVE  line_len = 1 /\ line_begin # 1
<1>1. request \in Requests /\ LaidOut(request)
  BY RequestIsLaidOut DEF RequestOK
<1>2. PICK N, e, text : /\ N = Len(request.headers) /\ e = EndOf(request, N)
                        /\ text = request.text
  OBVIOUS
<1>3. N \in Nat \ {0} /\ text[e + 1] = "CR" /\ text[e + 2] = "LF"
      /\ EndOf(request, 0) = Len(request.first) + 2 /\ Len(request.first) \in Nat
  BY <1>1, <1>2, Zenon DEF LaidOut
<1>4. N \in 0 .. N /\ 0 \in 0 .. N /\ 0 <= N
  BY <1>3
<1>5. e \in Nat /\ EndOf(request, 0) <= e
  BY <1>1, <1>2, <1>4, EndsGrow, Zenon DEF LaidOut
<1>6. PICK z : z = EndOf(request, 0) /\ z \in Nat /\ z >= 2 /\ z <= e
  BY <1>3, <1>5
<1>7. /\ e + 2 \in Nat /\ e + 1 <= e + 2 /\ e + 1 # 1
      /\ \A i \in e + 1 .. (e + 2) - 1 : i = e + 1
  BY <1>5, <1>6
<1>8. "CR" # "LF"
  BY Zenon
<1>9. \A i \in e + 1 .. (e + 2) - 1 : text[i] # "LF"
  BY <1>3, <1>7, <1>8, Zenon
<1>10. line_begin = e + 1
  BY <1>2, Zenon
<1>11. line_end = e + 2
  BY <1>2, <1>3, <1>7, <1>9, <1>10, LineEndsAt, Zenon
<1>12. line_len = (e + 2) - (e + 1)
  BY <1>10, <1>11, Zenon DEF line_len
<1>13. (e + 2) - (e + 1) = 1
  BY <1>5
<1> QED
  BY <1>7, <1>10, <1>12, <1>13, Zenon

\* A header's line: its newline, its colon and its value.
LEMMA HeaderLineIs ==
    ASSUME RequestOK, TypeOK, request.headers # << >>,
           NEW k \in 1 .. Len(request.headers), line_begin = EndOf(request, k - 1) + 1
    PROVE  LET n == Len(request.headers[k].name)
               v == Len(request.headers[k].value)
               e == EndOf(request, k) IN
           /\ line_end = IF e <= Len(data) THEN e ELSE 0
           /\ line_end # 0 => /\ line_len = n + v + 3 /\ delim_pos = n
                              /\ val_begin = line_begin + n + 2 /\ val_len = v
<1>1. request \in Requests
  BY DEF RequestOK
<1>2. HeaderAt(request, k)
  BY <1>1, HeaderIsAt
<1>3. PICK b, e, h, n, v, text : /\ b = EndOf(request, k - 1) /\ e = EndOf(request, k)
                        /\ h = request.headers[k] /\ n = Len(h.name) /\ v = Len(h.value)
                        /\ text = request.text
  OBVIOUS
<1>4. /\ b \in Nat /\ n \in Nat /\ v \in Nat /\ e = b + n + v + 4
      /\ text[b + n + 1] = ":" /\ text[e] = "LF"
      /\ \A i \in b + 1 .. e - 1 : text[i] # "LF"
      /\ \A i \in b + 1 .. b + n : text[i] # ":"
  BY <1>2, <1>3, Zenon DEF HeaderAt
<1>5. line_begin = b + 1 /\ e \in Nat
  <2>1. e = b + n + v + 4 /\ b \in Nat /\ n \in Nat /\ v \in Nat
    BY <1>4
  <2>2. e \in Nat
    BY <2>1
  <2> QED
    BY <1>3, <2>2, Zenon
<1>6. b + 1 <= e
  <2>1. e = b + n + v + 4 /\ b \in Nat /\ n \in Nat /\ v \in Nat
    BY <1>4
  <2> QED
    BY <2>1
<1>7. line_end = IF e <= Len(data) THEN e ELSE 0
  BY <1>3, <1>4, <1>5, <1>6, LineEndsAt, Zenon
<1>8. ASSUME line_end # 0
      PROVE  /\ line_len = n + v + 3 /\ delim_pos = n
             /\ val_begin = line_begin + n + 2 /\ val_len = v
  <2>1. line_end = e /\ e <= Len(data)
    BY <1>7, <1>8, Zenon
  <2>2. line_len = e - (b + 1)
    BY <1>5, <2>1, Zenon DEF line_len
  <2>a. e = b + n + v + 4 /\ b \in Nat /\ n \in Nat /\ v \in Nat
    BY <1>4
  <2>3. line_len = n + v + 3 /\ n < line_len
    BY <2>2, <2>a
  <2>4. /\ data \in Seq(Bytes) /\ Len(data) \in Nat
        /\ \A i \in 1 .. Len(data) : data[i] = text[i]
    BY <1>3, DataIs, Zenon
  <2>5. line_begin \in 1 .. Len(data) + 1
    BY Zenon DEF TypeOK
  <2>b. PICK len : len = Len(data)
    OBVIOUS
  <2>c. len \in Nat /\ e <= len
    BY <2>1, <2>4, <2>b, Zenon
  <2>6. /\ b + 1 + n = b + n + 1 /\ b + n + 1 \in 1 .. len
        /\ \A i \in b + 1 .. (b + 1) + n - 1 : i \in b + 1 .. b + n /\ i \in 1 .. len
    BY <2>a, <2>c
  <2>7. data[line_begin + n] = ":"
    BY <1>4, <1>5, <2>4, <2>6, <2>b, Zenon
  <2>8. \A i \in line_begin .. line_begin + n - 1 : data[i] # ":"
    BY <1>4, <1>5, <2>4, <2>6, <2>b, Zenon
  <2>9. delim_pos = n
    BY <1>4, <1>8, <2>3, <2>4, <2>5, <2>7, <2>8, DelimIs, Zenon
  <2>10. val_begin = line_begin + n + 2 /\ val_len = (n + v + 3) - 1 - n - 2
    BY <2>3, <2>9, Zenon DEF val_begin, val_len
  <2>11. (n + v + 3) - 1 - n - 2 = v
    BY <2>a
  <2> QED
    BY <2>3, <2>9, <2>10, <2>11, Zenon
<1> QED
  BY <1>3, <1>7, <1>8, Zenon

-----------------------------------------------------------------------------
(* The key                                                                   *)

\* What the copies of a header's name and value leave in its entry: no
\* terminator, unless the memory had one there.
EntryFor(e, i) ==
    LET name  == request.headers[i].name
        value == request.headers[i].value IN
    /\ \A j \in 1 .. Len(name) : e[j] = name[j]
    /\ \A j \in 1 .. Len(value) : e[Size + j] = value[j]
    /\ clean => e[Len(name) + 1] = "NUL" /\ e[Size + Len(value) + 1] = "NUL"

\* The parser stands at the line behind those of the headers it has added.
LineInv ==
    /\ Len(head) <= Len(request.headers)
    /\ \/ line_begin = 1 /\ Len(head) = 0
       \/ line_begin = EndOf(request, Len(head)) + 1

\* The entries are the headers', the last one added first.
EntriesInv ==
    \A i \in 1 .. Len(head) : Received(i) /\ EntryFor(head[Len(head) + 1 - i], i)

\* Parsing ends with an entry for every header received.
ParsedInv ==
    /\ outcome # "misused"
    /\ outcome = "parsed" =>
           \A i \in 1 .. Len(request.headers) : Received(i) => i <= Len(head)

KeyInv == Fits => LineInv /\ EntriesInv /\ ParsedInv

LEMMA ReceivedIs ==
    ASSUME NEW i
    PROVE  Received(i) <=> EndOf(request, i) <= Len(data)
BY DEF Received, EndOf

LEMMA FitsIs ==
    ASSUME RequestOK, Fits
    PROVE  /\ request \in Requests /\ request.headers # << >>
           /\ Len(request.headers) \in Nat \ {0}
           /\ \A i \in 1 .. Len(request.headers) :
                  /\ request.headers[i].name \in Seq(Bytes)
                  /\ request.headers[i].value \in Seq(Bytes)
                  /\ Len(request.headers[i].name) \in Nat
                  /\ Len(request.headers[i].value) \in Nat
                  /\ Len(request.headers[i].name) < Size
                  /\ Len(request.headers[i].value) < Size
                  /\ \A j \in 1 .. Len(request.headers[i].name) :
                         request.headers[i].name[j] # "NUL"
                  /\ \A j \in 1 .. Len(request.headers[i].value) :
                         request.headers[i].value[j] # "NUL"
<1>1. request \in Requests /\ request.headers # << >>
  BY Zenon DEF RequestOK, Fits
<1>2. Len(request.headers) \in Nat \ {0}
  BY <1>1, RequestIsLaidOut, Zenon DEF LaidOut
<1>3. WellFormed(request)
  BY <1>1, WsHandshakeAssumption, Zenon
<1>4. ASSUME NEW i \in 1 .. Len(request.headers)
      PROVE  /\ request.headers[i].name \in Seq(Bytes)
             /\ request.headers[i].value \in Seq(Bytes)
             /\ Len(request.headers[i].name) \in Nat
             /\ Len(request.headers[i].value) \in Nat
             /\ Len(request.headers[i].name) < Size
             /\ Len(request.headers[i].value) < Size
             /\ \A j \in 1 .. Len(request.headers[i].name) :
                    request.headers[i].name[j] # "NUL"
             /\ \A j \in 1 .. Len(request.headers[i].value) :
                    request.headers[i].value[j] # "NUL"
  <2>1. request.headers[i].name \in Seq(Bytes) /\ request.headers[i].value \in Seq(Bytes)
    BY <1>1, RequestType, Zenon
  <2>2. Len(request.headers[i].name) \in Nat /\ Len(request.headers[i].value) \in Nat
    BY <2>1, LenProperties
  <2>3. Len(request.headers[i].name) < Size /\ Len(request.headers[i].value) < Size
    BY Zenon DEF Fits
  <2>4. /\ request.headers[i].name \in Seq(Printable \ {":"})
        /\ request.headers[i].value \in Seq(Printable)
    BY <1>3, Zenon DEF WellFormed
  <2>5. /\ \A j \in 1 .. Len(request.headers[i].name) :
               request.headers[i].name[j] \in Printable \ {":"}
        /\ \A j \in 1 .. Len(request.headers[i].value) :
               request.headers[i].value[j] \in Printable
    BY <2>4, ElementOfSeq, Zenon
  <2> QED
    BY <2>1, <2>2, <2>3, <2>5, Zenon DEF Printable
<1> QED
  BY <1>1, <1>2, <1>4, Zenon

\* The line of the k-th header, as the parser finds it.
HeaderFound(k) ==
    LET n == Len(request.headers[k].name)
        v == Len(request.headers[k].value)
        e == EndOf(request, k) IN
    /\ line_end = IF e <= Len(data) THEN e ELSE 0
    /\ line_end # 0 => /\ line_len = n + v + 3 /\ delim_pos = n
                       /\ val_begin = line_begin + n + 2 /\ val_len = v

\* Where the parser stands tells which line it finds.
LEMMA LineFound ==
    ASSUME RequestOK, TypeOK, Fits, LineInv
    PROVE  LET m == Len(head)
               N == Len(request.headers) IN
           /\ m \in 0 .. N
           /\ line_begin = 1 => /\ m = 0
                                /\ line_end = IF EndOf(request, 0) <= Len(data)
                                              THEN EndOf(request, 0) ELSE 0
           /\ line_begin # 1 => line_begin = EndOf(request, m) + 1
           /\ line_begin # 1 /\ m = N => (line_end # 0 => line_len = 1)
           /\ line_begin # 1 /\ m # N => m + 1 \in 1 .. N /\ HeaderFound(m + 1)
<1>1. request \in Requests /\ request.headers # << >> /\ Len(request.headers) \in Nat \ {0}
  BY FitsIs
<1>2. PICK m, N : m = Len(head) /\ N = Len(request.headers)
  OBVIOUS
<1>3. m \in Nat
  BY <1>2, LenProperties DEF TypeOK
<1>4. /\ m <= N
      /\ (line_begin = 1 /\ m = 0) \/ line_begin = EndOf(request, m) + 1
  BY <1>2, Zenon DEF LineInv
<1>5. N \in Nat \ {0} /\ m \in 0 .. N /\ 0 \in 0 .. N /\ 0 <= m
  BY <1>1, <1>2, <1>3, <1>4
<1>6. EndOf(request, m) \in Nat /\ EndOf(request, 0) <= EndOf(request, m)
  BY <1>1, <1>2, <1>5, EndsGrow, RequestIsLaidOut, Zenon DEF LaidOut
<1>7. EndOf(request, 0) = Len(request.first) + 2 /\ Len(request.first) \in Nat
  BY <1>1, RequestIsLaidOut, Zenon DEF LaidOut
<1>8. EndOf(request, m) + 1 # 1
  <2>1. PICK x, y, z : x = EndOf(request, m) /\ y = EndOf(request, 0) /\ z = Len(request.first)
    OBVIOUS
  <2>2. x \in Nat /\ y <= x /\ y = z + 2 /\ z \in Nat
    BY <1>6, <1>7, <2>1, Zenon
  <2>3. x + 1 # 1
    BY <2>2
  <2> QED
    BY <2>1, <2>3, Zenon
<1>9. /\ line_begin = 1 => m = 0
      /\ line_begin # 1 => line_begin = EndOf(request, m) + 1
  BY <1>4, <1>8, Zenon
<1>10. ASSUME line_begin = 1
       PROVE  line_end = IF EndOf(request, 0) <= Len(data) THEN EndOf(request, 0) ELSE 0
  BY <1>1, <1>10, FirstLine, Zenon
<1>11. ASSUME line_begin # 1, m = N, line_end # 0 PROVE line_len = 1
  BY <1>1, <1>2, <1>9, <1>11, LastLine, Zenon
<1>12. ASSUME line_begin # 1, m # N PROVE m + 1 \in 1 .. N /\ HeaderFound(m + 1)
  <2>1. m + 1 \in 1 .. N /\ (m + 1) - 1 = m
    BY <1>5, <1>12
  <2>2. line_begin = EndOf(request, (m + 1) - 1) + 1
    BY <1>9, <1>12, <2>1, Zenon
  <2> QED
    BY <1>1, <1>2, <2>1, <2>2, HeaderLineIs, Zenon DEF HeaderFound
<1> QED
  BY <1>2, <1>5, <1>9, <1>10, <1>11, <1>12, Zenon

\* The bytes of a name and a value in an entry's memory.
Bears(e, memory, name, value) ==
    /\ \A j \in 1 .. Len(name) : e[j] = name[j]
    /\ \A j \in 1 .. Len(value) : e[Size + j] = value[j]
    /\ memory = Zeroed => e[Len(name) + 1] = "NUL" /\ e[Size + Len(value) + 1] = "NUL"

\* A header's line leaves no room for a misuse, and its entry is the header's.
LEMMA EntryAdded ==
    ASSUME RequestOK, TypeOK, Fits, NEW k \in 1 .. Len(request.headers),
           HeaderFound(k), line_begin = EndOf(request, k - 1) + 1, line_end # 0
    PROVE  /\ delim_pos <= Size /\ val_len \in 0 .. Size
           /\ line_len # 1
           /\ \A memory \in Entries :
                  Bears(strncpy(strncpy(memory, 1, line_begin, delim_pos),
                                Size + 1, val_begin, val_len),
                        memory, request.headers[k].name, request.headers[k].value)
<1>1. request \in Requests /\ request.headers # << >>
  BY FitsIs, Zenon
<1>2. PICK name, value, n, v, e, b, text :
         /\ name = request.headers[k].name /\ value = request.headers[k].value
         /\ n = Len(name) /\ v = Len(value) /\ e = EndOf(request, k)
         /\ b = EndOf(request, k - 1) /\ text = request.text
  OBVIOUS
<1>3. n \in Nat /\ v \in Nat /\ n < Size /\ v < Size
  BY <1>2, FitsIs, Zenon
<1>4. /\ b \in Nat /\ e = b + n + v + 4
      /\ \A i \in 1 .. n : text[b + i] = name[i]
      /\ \A i \in 1 .. v : text[b + n + 2 + i] = value[i]
  BY <1>1, <1>2, HeaderIsAt, ZenonT(40) DEF HeaderAt
<1>5. /\ line_end = IF e <= Len(data) THEN e ELSE 0
      /\ line_len = n + v + 3 /\ delim_pos = n /\ val_begin = line_begin + n + 2 /\ val_len = v
      /\ line_begin = b + 1
  BY <1>2, Zenon DEF HeaderFound
<1>6. PICK len : len = Len(data)
  OBVIOUS
<1>7. len \in Nat /\ e <= len /\ \A i \in 1 .. len : data[i] = text[i]
  BY <1>2, <1>5, <1>6, DataIs, Zenon
<1>8. Size \in Nat
  BY WsHandshakeAssumption, Zenon
<1>a. PICK lb, vb : lb = line_begin /\ vb = val_begin
  OBVIOUS
<1>b. lb = b + 1 /\ vb = lb + n + 2
  BY <1>5, <1>a, Zenon
<1>9. /\ n <= Size /\ v \in 0 .. Size /\ n + v + 3 # 1
      /\ \A i \in 1 .. n : lb + i - 1 = b + i /\ b + i \in 1 .. len
      /\ \A i \in 1 .. v : vb + i - 1 = b + n + 2 + i /\ b + n + 2 + i \in 1 .. len
      /\ lb \in Int /\ vb \in Int
  <2>1. e = b + n + v + 4 /\ b \in Nat
    BY <1>4
  <2>2. e <= len /\ len \in Nat
    BY <1>7
  <2> QED
    BY <1>3, <1>8, <1>b, <2>1, <2>2
<1>c. ASSUME NEW i \in 1 .. n PROVE data[lb + i - 1] = name[i]
  <2>1. lb + i - 1 = b + i /\ b + i \in 1 .. len /\ text[b + i] = name[i]
    BY <1>4, <1>9, Zenon
  <2> QED
    BY <1>7, <2>1, Zenon
<1>d. ASSUME NEW i \in 1 .. v PROVE data[vb + i - 1] = value[i]
  <2>1. /\ vb + i - 1 = b + n + 2 + i /\ b + n + 2 + i \in 1 .. len
        /\ text[b + n + 2 + i] = value[i]
    BY <1>4, <1>9, Zenon
  <2> QED
    BY <1>7, <2>1, Zenon
<1>10. ASSUME NEW memory \in Entries,
              NEW x, x = strncpy(strncpy(memory, 1, line_begin, delim_pos),
                                 Size + 1, val_begin, val_len)
       PROVE  Bears(x, memory, name, value)
  <2>1. x = strncpy(strncpy(memory, 1, lb, n), Size + 1, vb, v)
    BY <1>5, <1>10, <1>a, Zenon
  <2>2. lb \in Int /\ vb \in Int
    BY <1>9
  <2>3. Copied(memory, x, lb, n, vb, v)
    BY <1>3, <2>1, <2>2, CopiesAre, Zenon
  <2>4. /\ \A i \in 1 .. n : x[i] = data[lb + i - 1]
        /\ \A i \in 1 .. v : x[Size + i] = data[vb + i - 1]
        /\ memory = Zeroed => x[n + 1] = "NUL" /\ x[Size + v + 1] = "NUL"
    BY <2>3, Zenon DEF Copied
  <2> QED
    BY <1>2, <1>c, <1>d, <2>4, Zenon DEF Bears
<1> QED
  BY <1>2, <1>5, <1>9, <1>10, Zenon

LEMMA KeyInit == Init => KeyInv /\ KeyIsTheClients
<1> SUFFICES ASSUME Init PROVE KeyInv /\ KeyIsTheClients
  OBVIOUS
<1>1. RequestOK /\ head = << >> /\ line_begin = 1 /\ outcome = "parsing"
  BY Zenon DEF Init, RequestOK
<1>2. ASSUME Fits PROVE LineInv /\ EntriesInv /\ ParsedInv
  <2>1. Len(request.headers) \in Nat \ {0}
    BY <1>1, <1>2, FitsIs
  <2>2. Len(head) = 0
    BY <1>1
  <2>3. PICK N, m : N = Len(request.headers) /\ m = Len(head)
    OBVIOUS
  <2>4. m <= N /\ \A i \in 1 .. m : FALSE
    BY <2>1, <2>2, <2>3
  <2>5. LineInv /\ EntriesInv
    BY <1>1, <2>2, <2>3, <2>4, Zenon DEF LineInv, EntriesInv
  <2>6. ParsedInv
    BY <1>1, Zenon DEF ParsedInv
  <2> QED
    BY <2>5, <2>6
<1>3. KeyInv
  BY <1>2, Zenon DEF KeyInv
<1>4. KeyIsTheClients
  BY <1>1, Zenon DEF KeyIsTheClients
<1> QED
  BY <1>3, <1>4

\* Nothing else of the text is received later.
LEMMA StaysReceived ==
    ASSUME [Next]_vars
    PROVE  /\ UNCHANGED << request, data >>
           /\ \A i : Received(i)' <=> Received(i)
           /\ Fits' <=> Fits
<1>1. UNCHANGED << request, data >>
  BY Zenon DEF Next, vars, SkipFirstLine, Overrun, NoMemory, EndOfHeaders,
               Reject, Answer, AddHeader, HeaderLine
<1> QED
  BY <1>1, Zenon DEF Received, Fits

LEMMA EntriesStay ==
    ASSUME [Next]_vars, EntriesInv, UNCHANGED << head, clean >>
    PROVE  EntriesInv'
<1>1. ASSUME NEW e, NEW i PROVE EntryFor(e, i)' <=> EntryFor(e, i)
  BY StaysReceived, Zenon DEF EntryFor
<1>2. PICK m : m = Len(head)
  OBVIOUS
<1>3. Len(head') = m /\ \A i : head'[m + 1 - i] = head[m + 1 - i]
  BY <1>2, Zenon
<1>4. ASSUME NEW i \in 1 .. m PROVE Received(i)' /\ EntryFor(head[m + 1 - i], i)'
  BY <1>1, <1>2, <1>4, StaysReceived, Zenon DEF EntriesInv
<1> QED
  BY <1>3, <1>4, Zenon DEF EntriesInv

\* A header is added to the front of the list.
LEMMA KeyAdds ==
    ASSUME RequestOK, TypeOK, Fits, LineInv, EntriesInv,
           NEW memory \in Memories, AddHeader(memory)
    PROVE  LineInv' /\ EntriesInv'
<1>1. /\ line_begin # 1 /\ line_end # 0 /\ line_len # 1 /\ line_begin' = line_end + 1
      /\ UNCHANGED << request, data >> /\ clean' = (clean /\ memory = Zeroed)
  BY Zenon DEF AddHeader, HeaderLine, NextLine
<1>2. PICK m, N : m = Len(head) /\ N = Len(request.headers)
  OBVIOUS
<1>3. m \in 0 .. N /\ line_begin = EndOf(request, m) + 1 /\ m # N
  BY <1>1, <1>2, LineFound, Zenon
<1>4. m + 1 \in 1 .. N /\ HeaderFound(m + 1)
  BY <1>1, <1>2, <1>3, LineFound, Zenon
<1>5. m \in Nat /\ (m + 1) - 1 = m /\ N \in Nat
  <2>1. N \in Nat
    BY <1>2, FitsIs
  <2> QED
    BY <1>3, <2>1
<1>6. line_begin = EndOf(request, (m + 1) - 1) + 1
  BY <1>3, <1>5, Zenon
<1>7. PICK e : e = strncpy(strncpy(memory, 1, line_begin, delim_pos),
                           Size + 1, val_begin, val_len)
  OBVIOUS
<1>8. memory \in Entries /\ val_len \in 0 .. Size
  BY WsHandshakeAssumption, Zenon DEF AddHeader
<1>9. e \in Entries
  BY <1>1, <1>7, <1>8, AddedType, Zenon
<1>10. PICK new : new = head'
  OBVIOUS
<1>11. head \in Seq(Entries) /\ new = << e >> \o head
  BY <1>7, <1>10, Zenon DEF TypeOK, AddHeader
<1>12. Len(new) = m + 1 /\ new[1] = e /\ \A i \in 1 .. m : new[i + 1] = head[i]
  BY <1>2, <1>9, <1>11
<1>13. Bears(e, memory, request.headers[m + 1].name, request.headers[m + 1].value)
  BY <1>1, <1>2, <1>4, <1>6, <1>7, <1>8, EntryAdded, Zenon
<1>14. line_end = EndOf(request, m + 1) /\ EndOf(request, m + 1) <= Len(data)
  BY <1>1, <1>4, Zenon DEF HeaderFound
<1>15. LineInv'
  <2>1. line_begin' = EndOf(request, m + 1) + 1 /\ Len(head') = m + 1
    BY <1>1, <1>10, <1>12, <1>14, Zenon
  <2>2. m + 1 <= N
    BY <1>4, <1>5
  <2>3. EndOf(request, m + 1)' = EndOf(request, m + 1)
    BY <1>1, Zenon DEF EndOf
  <2>4. Len(head') <= Len(request'.headers)
    BY <1>1, <1>2, <2>1, <2>2, Zenon
  <2>5. line_begin' = EndOf(request', Len(head')) + 1
    BY <1>1, <2>1, Zenon
  <2> QED
    BY <2>4, <2>5, Zenon DEF LineInv
<1>16. ASSUME NEW i \in 1 .. m + 1
       PROVE  Received(i)' /\ EntryFor(new[(m + 1) + 1 - i], i)'
  <2>1. CASE i = m + 1
    <3>1. (m + 1) + 1 - (m + 1) = 1
      BY <1>5
    <3>2. new[(m + 1) + 1 - i] = e
      BY <1>12, <2>1, <3>1, Zenon
    <3>3. Received(m + 1)
      BY <1>14, ReceivedIs, Zenon
    <3>4. EntryFor(e, m + 1)'
      BY <1>1, <1>13, Zenon DEF EntryFor, Bears
    <3>5. Received(m + 1)'
      BY <1>1, <3>3, Zenon DEF Received
    <3> QED
      BY <2>1, <3>2, <3>4, <3>5, Zenon
  <2>2. CASE i # m + 1
    <3>1. i \in 1 .. m /\ m + 1 - i \in 1 .. m /\ (m + 1) + 1 - i = (m + 1 - i) + 1
      BY <1>5, <2>2
    <3>2. new[(m + 1) + 1 - i] = head[m + 1 - i]
      BY <1>12, <3>1, Zenon
    <3>3. Received(i) /\ EntryFor(head[m + 1 - i], i)
      BY <1>2, <3>1, Zenon DEF EntriesInv
    <3>4. Received(i)'
      BY <1>1, <3>3, Zenon DEF Received
    <3>5. PICK old : old = head[m + 1 - i]
      OBVIOUS
    <3>6. EntryFor(old, i)'
      BY <1>1, <3>3, <3>5, Zenon DEF EntryFor
    <3> QED
      BY <3>2, <3>4, <3>5, <3>6, Zenon
  <2> QED
    BY <2>1, <2>2
<1>17. EntriesInv'
  <2>1. Len(head') = m + 1
    BY <1>10, <1>12, Zenon
  <2> QED
    BY <1>10, <1>16, <2>1, Zenon DEF EntriesInv
<1> QED
  BY <1>15, <1>17

\* Where nothing is found any more, every header received has its entry.
LEMMA KeyParsed ==
    ASSUME RequestOK, TypeOK, Fits, LineInv, EndOfHeaders
    PROVE  \A i \in 1 .. Len(request.headers) : Received(i) => i <= Len(head)
<1>1. PICK m, N, len : m = Len(head) /\ N = Len(request.headers) /\ len = Len(data)
  OBVIOUS
<1>2. SUFFICES ASSUME NEW i \in 1 .. N, Received(i), ~(i <= m)
               PROVE  FALSE
  BY <1>1, Zenon
<1>3. request \in Requests /\ request.headers # << >> /\ N \in Nat \ {0}
  BY <1>1, FitsIs, Zenon
<1>4. m \in 0 .. N /\ len \in Nat
  BY <1>1, DataIs, LineFound, Zenon
<1>5. \A k \in 0 .. N : EndOf(request, k) \in Nat
  BY <1>1, <1>3, RequestIsLaidOut, Zenon DEF LaidOut
<1>6. EndOf(request, i) <= len
  BY <1>1, <1>2, ReceivedIs, Zenon
<1>7. ASSUME NEW k \in 0 .. N, k <= i PROVE EndOf(request, k) <= len
  <2>1. i \in 0 .. N
    BY <1>2, <1>3
  <2>2. EndOf(request, k) <= EndOf(request, i)
    BY <1>1, <1>3, <1>7, <2>1, EndsGrow, Zenon
  <2>3. PICK x, y : x = EndOf(request, k) /\ y = EndOf(request, i)
    OBVIOUS
  <2>4. x \in Nat /\ y \in Nat /\ x <= y /\ y <= len
    BY <1>5, <1>6, <2>1, <2>2, <2>3, Zenon
  <2>5. x <= len
    BY <1>4, <2>4
  <2> QED
    BY <2>3, <2>5, Zenon
<1>8. /\ 0 \in 0 .. N /\ 0 <= i /\ m # N
      /\ m + 1 \in 0 .. N /\ m + 1 \in 1 .. N /\ m + 1 <= i
  BY <1>2, <1>3, <1>4
<1>9. EndOf(request, 0) <= len /\ EndOf(request, m + 1) <= len
  BY <1>7, <1>8, Zenon
<1>10. CASE line_begin = 1
  <2>1. line_end = EndOf(request, 0)
    BY <1>1, <1>9, <1>10, LineFound, Zenon
  <2>2. line_end = 0
    BY <1>10, Zenon DEF EndOfHeaders
  <2>3. EndOf(request, 0) = Len(request.first) + 2 /\ Len(request.first) \in Nat
    BY <1>3, RequestIsLaidOut, Zenon DEF LaidOut
  <2>4. PICK z : z = Len(request.first)
    OBVIOUS
  <2>5. z \in Nat /\ z + 2 = 0
    BY <2>1, <2>2, <2>3, <2>4, Zenon
  <2> QED
    BY <2>5
<1>11. CASE line_begin # 1
  <2>1. HeaderFound(m + 1) /\ line_begin = EndOf(request, m) + 1
    BY <1>1, <1>8, <1>11, LineFound, Zenon
  <2>2. line_end = EndOf(request, m + 1)
    BY <1>1, <1>9, <2>1, Zenon DEF HeaderFound
  <2>3. HeaderAt(request, m + 1) /\ (m + 1) - 1 = m
    <3>1. HeaderAt(request, m + 1)
      BY <1>1, <1>3, <1>8, HeaderIsAt, Zenon
    <3> QED
      BY <1>4, <3>1
  <2>4. PICK b, n, v, e : /\ b = EndOf(request, (m + 1) - 1) /\ e = EndOf(request, m + 1)
                          /\ n = Len(request.headers[m + 1].name)
                          /\ v = Len(request.headers[m + 1].value)
    OBVIOUS
  <2>5. b \in Nat /\ n \in Nat /\ v \in Nat /\ e = b + n + v + 4
    BY <2>3, <2>4, Zenon DEF HeaderAt
  <2>6. e # 0 /\ n + v + 3 # 1
    BY <2>5
  <2>7. line_end # 0
    BY <2>2, <2>4, <2>6, Zenon
  <2>8. line_len # 1
    BY <2>1, <2>4, <2>6, <2>7, Zenon DEF HeaderFound
  <2> QED
    BY <2>7, <2>8, Zenon DEF EndOfHeaders
<1> QED
  BY <1>10, <1>11

LEMMA KeyNext ==
    ASSUME RequestOK, TypeOK, KeyInv, [Next]_vars
    PROVE  KeyInv'
<1>0. SUFFICES ASSUME Fits' PROVE LineInv' /\ EntriesInv' /\ ParsedInv'
  BY Zenon DEF KeyInv
<1>1. /\ UNCHANGED << request, data >>
      /\ \A i : Received(i)' <=> Received(i)
      /\ Fits
  BY <1>0, StaysReceived, Zenon
<1>2. LineInv /\ EntriesInv /\ ParsedInv
  BY <1>1, Zenon DEF KeyInv
<1>3. UNCHANGED << head, line_begin >> => LineInv'
  BY <1>1, <1>2, Zenon DEF LineInv, EndOf
<1>4. UNCHANGED << head, clean >> => EntriesInv'
  BY <1>2, EntriesStay, Zenon
<1>5. UNCHANGED << head, outcome >> => ParsedInv'
  BY <1>1, <1>2, Zenon DEF ParsedInv
<1>6. outcome' \notin {"misused", "parsed"} => ParsedInv'
  BY Zenon DEF ParsedInv
<1>7. CASE UNCHANGED vars
  BY <1>3, <1>4, <1>5, <1>7, Zenon DEF vars
<1>8. CASE SkipFirstLine
  <2>1. /\ line_begin = 1 /\ line_end # 0 /\ line_begin' = line_end + 1
        /\ UNCHANGED << head, clean, outcome >>
    BY <1>8, Zenon DEF SkipFirstLine, NextLine
  <2>2. Len(head) = 0 /\ line_end = EndOf(request, 0)
    BY <1>1, <1>2, <2>1, LineFound, Zenon
  <2>3. Len(head') = 0 /\ Len(head') <= Len(request'.headers)
    BY <1>1, <1>2, <2>1, <2>2, Zenon DEF LineInv
  <2>4. line_begin' = EndOf(request', Len(head')) + 1
    BY <1>1, <2>1, <2>2, <2>3, Zenon
  <2>5. LineInv'
    BY <2>3, <2>4, Zenon DEF LineInv
  <2> QED
    BY <1>4, <1>5, <2>1, <2>5, Zenon
<1>9. CASE Overrun
  <2>1. HeaderLine /\ ~(delim_pos <= Size /\ val_len \in 0 .. Size)
    BY <1>9, Zenon DEF Overrun
  <2>2. line_begin # 1 /\ line_end # 0 /\ line_len # 1
    BY <2>1, Zenon DEF HeaderLine
  <2>3. PICK m, N : m = Len(head) /\ N = Len(request.headers)
    OBVIOUS
  <2>4. /\ m \in 0 .. N /\ m + 1 \in 1 .. N /\ HeaderFound(m + 1)
        /\ line_begin = EndOf(request, m) + 1
    BY <1>1, <1>2, <2>2, <2>3, LineFound, Zenon
  <2>5. (m + 1) - 1 = m
    <3>1. N \in Nat
      BY <1>1, <2>3, FitsIs
    <3> QED
      BY <2>4, <3>1
  <2>6. delim_pos <= Size /\ val_len \in 0 .. Size
    BY <1>1, <2>2, <2>3, <2>4, <2>5, EntryAdded, Zenon
  <2> QED
    BY <2>1, <2>6, Zenon
<1>10. CASE NoMemory
  <2>1. UNCHANGED << head, line_begin, clean >> /\ outcome' = "rejected"
    BY <1>10, Zenon DEF NoMemory
  <2> QED
    BY <1>3, <1>4, <1>6, <2>1, Zenon
<1>11. CASE EndOfHeaders
  <2>1. UNCHANGED << head, line_begin, clean >> /\ outcome' = "parsed"
    BY <1>11, Zenon DEF EndOfHeaders
  <2>2. \A i \in 1 .. Len(request.headers) : Received(i) => i <= Len(head)
    BY <1>1, <1>2, <1>11, KeyParsed, Zenon
  <2>3. ParsedInv'
    BY <1>1, <2>1, <2>2, Zenon DEF ParsedInv
  <2> QED
    BY <1>3, <1>4, <2>1, <2>3, Zenon
<1>12. CASE Reject \/ Answer
  <2>1. UNCHANGED << head, line_begin, clean >> /\ outcome' \in {"rejected", "answered"}
    BY <1>12, Zenon DEF Reject, Answer
  <2>2. outcome' \notin {"misused", "parsed"}
    BY <2>1, Zenon
  <2> QED
    BY <1>3, <1>4, <1>6, <2>1, <2>2, Zenon
<1>13. ASSUME NEW memory \in Memories, AddHeader(memory)
       PROVE  LineInv' /\ EntriesInv' /\ ParsedInv'
  <2>1. LineInv' /\ EntriesInv'
    BY <1>1, <1>2, <1>13, KeyAdds, Zenon
  <2>2. outcome' = "parsing"
    BY <1>13, Zenon DEF AddHeader, HeaderLine
  <2>3. outcome' \notin {"misused", "parsed"}
    BY <2>2, Zenon
  <2> QED
    BY <1>6, <2>1, <2>3, Zenon
<1> QED
  BY <1>7, <1>8, <1>9, <1>10, <1>11, <1>12, <1>13, Zenon DEF Next

\* What an entry's strings are.
LEMMA EntryStrings ==
    ASSUME RequestOK, Fits, NEW i \in 1 .. Len(request.headers),
           NEW e \in Entries, EntryFor(e, i)
    PROVE  /\ IsPrefix(request.headers[i].value, CString(e, Size + 1))
           /\ clean => /\ CString(e, 1) = request.headers[i].name
                       /\ CString(e, Size + 1) = request.headers[i].value
<1>1. PICK name, value, n, v : /\ name = request.headers[i].name
                               /\ value = request.headers[i].value
                               /\ n = Len(name) /\ v = Len(value)
  OBVIOUS
<1>2. /\ name \in Seq(Bytes) /\ value \in Seq(Bytes) /\ n \in Nat /\ v \in Nat
      /\ n < Size /\ v < Size
      /\ \A j \in 1 .. n : name[j] # "NUL"
      /\ \A j \in 1 .. v : value[j] # "NUL"
  BY <1>1, FitsIs, Zenon
<1>3. Size \in Nat \ {0}
  BY WsHandshakeAssumption, Zenon
<1>4. /\ 1 \in 1 .. 2 * Size /\ 1 + n <= 2 * Size /\ 1 + n = n + 1
      /\ Size + 1 \in 1 .. 2 * Size /\ (Size + 1) + v <= 2 * Size
      /\ (Size + 1) + v = Size + v + 1
      /\ \A j \in 1 .. n : 1 - 1 + j = j
      /\ \A j \in 1 .. v : (Size + 1) - 1 + j = Size + j
  <2>1. n \in Nat /\ v \in Nat /\ n < Size /\ v < Size
    BY <1>2
  <2> QED
    BY <1>3, <2>1
<1>5. /\ \A j \in 1 .. n : e[j] = name[j]
      /\ \A j \in 1 .. v : e[Size + j] = value[j]
      /\ clean => e[n + 1] = "NUL" /\ e[Size + v + 1] = "NUL"
  BY <1>1, Zenon DEF EntryFor
<1>6. \A j \in 1 .. n : e[1 - 1 + j] = name[j] /\ name[j] # "NUL"
  BY <1>2, <1>4, <1>5, Zenon
<1>7. \A j \in 1 .. v : e[(Size + 1) - 1 + j] = value[j] /\ value[j] # "NUL"
  BY <1>2, <1>4, <1>5, Zenon
<1>8. /\ IsPrefix(name, CString(e, 1))
      /\ e[1 + n] = "NUL" => CString(e, 1) = name
  BY <1>1, <1>2, <1>4, <1>6, CStringIs, Zenon
<1>9. /\ IsPrefix(value, CString(e, Size + 1))
      /\ e[(Size + 1) + v] = "NUL" => CString(e, Size + 1) = value
  BY <1>1, <1>2, <1>4, <1>7, CStringIs, Zenon
<1> QED
  BY <1>1, <1>4, <1>5, <1>8, <1>9, Zenon

\* What HASH_FIND_STR finds.
LEMMA FoundIs ==
    ASSUME TypeOK, NEW name
    PROVE  LET i == ws_header_get(name) IN
           /\ i = 0 => \A j \in 1 .. Len(head) : CString(head[j], 1) # name
           /\ i # 0 => i \in 1 .. Len(head) /\ CString(head[i], 1) = name
<1> DEFINE I == { j \in 1 .. Len(head) : CString(head[j], 1) = name }
<1>1. Len(head) \in Nat
  BY LenProperties DEF TypeOK
<1>2. /\ I \subseteq 1 .. Len(head)
      /\ \A j \in 1 .. Len(head) : j \in I <=> CString(head[j], 1) = name
  BY Zenon
<1>3. ws_header_get(name) = IF I # {} THEN Min(I) ELSE 0
  BY DEF SelectInSeq, ws_header_get
<1> HIDE DEF I
<1>4. PICK i, n : i = ws_header_get(name) /\ n = Len(head)
  OBVIOUS
<1>5. /\ i \in 0 .. n
      /\ i = 0 => I = {}
      /\ i # 0 => i \in I /\ i \in 1 .. n
  BY <1>1, <1>2, <1>3, <1>4, FirstIn
<1> QED
  BY <1>2, <1>4, <1>5, Zenon

LEMMA ClientsNext ==
    ASSUME RequestOK, TypeOK, KeyInv, KeyIsTheClients, [Next]_vars
    PROVE  KeyIsTheClients'
<1> DEFINE sent == request.headers
           received == { i \in 1 .. Len(sent) : Received(i) }
           keys == { sent[i].value : i \in { j \in received : sent[j].name = WantedName } }
           Good == /\ outcome' # "misused"
                   /\ outcome' = "answered" => \E i \in received : IsPrefix(sent[i].value, key')
                   /\ clean' /\ outcome' = "answered" => key' \in keys
                   /\ clean' /\ outcome' = "rejected" => failed' \/ keys = {}
<1>1. /\ UNCHANGED << request, data >>
      /\ \A i : Received(i)' <=> Received(i)
      /\ Fits' <=> Fits
  BY StaysReceived, Zenon
<1>2. (Fits => Good) => KeyIsTheClients'
  BY <1>1, Zenon DEF KeyIsTheClients
<1>3. SUFFICES ASSUME Fits PROVE Good
  BY <1>2, Zenon
<1>4. LineInv /\ EntriesInv /\ ParsedInv
  BY <1>3, Zenon DEF KeyInv
<1>5. (LineInv /\ EntriesInv /\ ParsedInv)'
  BY <1>1, <1>3, KeyNext, Zenon DEF KeyInv
<1>6. outcome' # "misused"
  BY <1>5, Zenon DEF ParsedInv
<1>7. PICK m, N : m = Len(head) /\ N = Len(sent)
  OBVIOUS
<1>8. m \in 0 .. N /\ N \in Nat
  <2>1. m \in 0 .. N
    BY <1>3, <1>4, <1>7, LineFound, Zenon
  <2>2. N \in Nat
    BY <1>3, <1>7, FitsIs
  <2> QED
    BY <2>1, <2>2
<1>9. ASSUME NEW i \in 1 .. m
      PROVE  /\ i \in received
             /\ IsPrefix(sent[i].value, CString(head[m + 1 - i], Size + 1))
             /\ clean => /\ CString(head[m + 1 - i], 1) = sent[i].name
                         /\ CString(head[m + 1 - i], Size + 1) = sent[i].value
  <2>1. i \in 1 .. N /\ m + 1 - i \in 1 .. m
    BY <1>8
  <2>2. Received(i) /\ EntryFor(head[m + 1 - i], i)
    BY <1>4, <1>7, Zenon DEF EntriesInv
  <2>3. head[m + 1 - i] \in Entries
    BY <1>7, <2>1, ElementOfSeq, Zenon DEF TypeOK
  <2>4. i \in received
    BY <1>7, <2>1, <2>2, Zenon
  <2> QED
    BY <1>3, <1>7, <2>1, <2>2, <2>3, <2>4, EntryStrings, Zenon
<1>10. CASE UNCHANGED << outcome, key, clean, failed >>
  BY <1>3, <1>6, <1>10, Zenon DEF KeyIsTheClients
<1>11. CASE outcome' \notin {"answered", "rejected"}
  BY <1>6, <1>11, Zenon
<1>12. CASE Answer
  <2>1. PICK idx : idx = ws_header_get(WantedName)
    OBVIOUS
  <2>2. /\ idx # 0 /\ outcome' = "answered" /\ clean' = clean
        /\ key' = CString(head[idx], Size + 1)
    BY <1>12, <2>1, Zenon DEF Answer
  <2>3. idx \in 1 .. m /\ CString(head[idx], 1) = WantedName
    BY <1>7, <2>1, <2>2, FoundIs, Zenon
  <2>4. PICK i : i = m + 1 - idx
    OBVIOUS
  <2>5. i \in 1 .. m /\ m + 1 - i = idx
    BY <1>8, <2>3, <2>4
  <2>6. /\ i \in received /\ IsPrefix(sent[i].value, key')
        /\ clean => WantedName = sent[i].name /\ key' = sent[i].value
    BY <1>9, <2>2, <2>3, <2>5, Zenon
  <2>7. ASSUME clean PROVE key' \in keys
    BY <2>6, <2>7, Zenon
  <2>8. outcome' # "rejected"
    BY <2>2, Zenon
  <2> QED
    BY <1>6, <2>2, <2>6, <2>7, <2>8, Zenon
<1>13. CASE Reject
  <2>1. /\ outcome = "parsed" /\ outcome' = "rejected" /\ clean' = clean
        /\ ws_header_get(WantedName) # 0 => failed'
    BY <1>13, Zenon DEF Reject
  <2>2. ASSUME clean, ws_header_get(WantedName) = 0, NEW i \in received,
               sent[i].name = WantedName
        PROVE  FALSE
    <3>1. i \in 1 .. N /\ i <= m
      BY <1>4, <1>7, <2>1, Zenon DEF ParsedInv
    <3>2. i \in 1 .. m /\ m + 1 - i \in 1 .. m
      BY <1>8, <3>1
    <3>3. CString(head[m + 1 - i], 1) = WantedName
      BY <1>9, <2>2, <3>2, Zenon
    <3> QED
      BY <1>7, <2>2, <3>2, <3>3, FoundIs, Zenon
  <2>3. clean /\ ws_header_get(WantedName) = 0 => keys = {}
    BY <2>2, Zenon
  <2>4. outcome' # "answered"
    BY <2>1, Zenon
  <2> QED
    BY <1>6, <2>1, <2>3, <2>4, Zenon
<1>14. CASE NoMemory
  <2>1. outcome' = "rejected" /\ failed'
    BY <1>14, Zenon DEF NoMemory
  <2>2. outcome' # "answered"
    BY <2>1, Zenon
  <2> QED
    BY <1>6, <2>1, <2>2, Zenon
<1>15. CASE SkipFirstLine \/ Overrun \/ EndOfHeaders \/ \E memory \in Memories : AddHeader(memory)
  <2>1. outcome' \in {"parsing", "misused", "parsed"}
    BY <1>15, Zenon DEF SkipFirstLine, Overrun, EndOfHeaders, AddHeader, HeaderLine
  <2>2. outcome' \notin {"answered", "rejected"}
    BY <2>1, Zenon
  <2> QED
    BY <1>11, <2>2
<1>16. CASE UNCHANGED vars
  BY <1>10, <1>16, Zenon DEF vars
<1> QED
  BY <1>12, <1>13, <1>14, <1>15, <1>16, Zenon DEF Next

LEMMA KeyBase == Spec => [](KeyInv /\ KeyIsTheClients)
<1>1. RequestOK /\ TypeOK /\ KeyInv /\ KeyIsTheClients /\ [Next]_vars
        => KeyInv' /\ KeyIsTheClients'
  BY KeyNext, ClientsNext, Zenon
<1> QED
  BY <1>1, KeyInit, HandshakeBase, PTL DEF Spec

\* A well-formed request whose headers fit their arrays never makes strncpy
\* write outside them, wherever a read cuts it and whatever malloc's memory
\* holds; the key answered to begins with one the client sent and is that key
\* if the memory is zeroed; and then a client is turned away only if its
\* key is not in what was read, or an allocation or the answer's write failed.
THEOREM KeyCorrect == Spec => []KeyIsTheClients
BY KeyBase, PTL
=============================================================================
