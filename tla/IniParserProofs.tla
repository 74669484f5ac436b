-------------------------- MODULE IniParserProofs --------------------------
(***************************************************************************)
(* Proofs about IniParser, for any files, any memory behind them and any   *)
(* size of the parser's strings.                                           *)
(***************************************************************************)
EXTENDS IniParser, TextLemmas

-----------------------------------------------------------------------------
(* The parser's scans *)

\* There is a first position from p on with a character of the set, unless none
\* has one; then it is one past the memory.
LEMMA StopExists ==
    ASSUME mem \in Seq(Chars), NEW set, NEW p \in 1 .. Len(mem) + 1
    PROVE  \E q \in p .. Len(mem) + 1 :
               /\ q <= Len(mem) => mem[q] \in set
               /\ \A i \in p .. q - 1 : mem[i] \notin set
<1>1. PICK n, I : n = Len(mem) /\ I = { i \in p .. n : mem[i] \in set }
  OBVIOUS
<1>2. n \in Nat
  BY <1>1, LenProperties
<1>3. /\ I \subseteq Nat
      /\ \A i \in p .. n : i \in I <=> mem[i] \in set
      /\ I \subseteq p .. n
  BY <1>1, <1>2
<1>4. CASE I = {}
  <2>1. /\ n + 1 \in p .. n + 1
        /\ ~(n + 1 <= n)
        /\ p .. (n + 1) - 1 = p .. n
    BY <1>1, <1>2
  <2> QED
    BY <1>1, <1>3, <1>4, <2>1
<1>5. CASE I # {}
  <2>1. PICK m : m \in I /\ \A i \in I : m <= i
    BY <1>3, <1>5, MinProperties
  <2>2. m \in p .. n + 1 /\ m \in p .. n
    BY <1>2, <1>3, <2>1
  <2>3. \A i \in p .. m - 1 : i \in p .. n /\ ~(m <= i)
    BY <1>2, <2>2
  <2>4. \A i \in p .. m - 1 : mem[i] \notin set
    BY <1>3, <2>1, <2>3
  <2> QED
    BY <1>1, <1>3, <2>1, <2>2, <2>4
<1> QED
  BY <1>4, <1>5

\* Stop is that position.
LEMMA StopProperties ==
    ASSUME mem \in Seq(Chars), NEW set, NEW p \in 1 .. Len(mem) + 1
    PROVE  /\ Stop(set, p) \in p .. Len(mem) + 1
           /\ Stop(set, p) <= Len(mem) => mem[Stop(set, p)] \in set
           /\ \A i \in p .. Stop(set, p) - 1 : mem[i] \notin set
BY StopExists, Zenon DEF Stop

\* A piece of the memory without a terminator is a string.
LEMMA PieceIsString ==
    ASSUME mem \in Seq(Chars), NEW a \in 1 .. Len(mem) + 1, NEW b \in a .. Len(mem) + 1,
           \A i \in a .. b - 1 : mem[i] # "NUL"
    PROVE  SubSeq(mem, a, b - 1) \in Strings /\ Len(SubSeq(mem, a, b - 1)) = b - a
<1>0. Len(mem) \in Nat
  BY LenProperties
<1>1. \A i \in a .. b - 1 : mem[i] \in Chars \ {"NUL"}
  BY <1>0, ElementOfSeq
<1>2. a \in Int /\ b - 1 \in Int
  BY <1>0
<1> HIDE DEF Chars
<1>3. /\ SubSeq(mem, a, b - 1) \in Seq(Chars \ {"NUL"})
      /\ Len(SubSeq(mem, a, b - 1)) = IF a <= b - 1 THEN (b - 1) - a + 1 ELSE 0
  BY <1>1, <1>2, SubSeqProperties
<1> QED
  BY <1>0, <1>3 DEF Strings

-----------------------------------------------------------------------------
(* The lists keep their shape *)

LEMMA PairsGrow ==
    ASSUME NEW pairs \in Seq(Pairs), NEW pair \in Pairs
    PROVE  add_keyval(pairs, pair) \in Seq(Pairs)
BY AppendProperties DEF add_keyval

LEMMA SectionCreated ==
    ASSUME NEW c \in Configs, NEW name \in Strings
    PROVE  find_or_create_section(c, name) \in Configs
<1>1. [name |-> name, keyvals |-> << >>] \in Sections
  BY DEF Sections
<1>2. Append(c.sections, [name |-> name, keyvals |-> << >>]) \in Seq(Sections)
  BY <1>1, AppendProperties DEF Configs
<1> QED
  BY <1>2 DEF find_or_create_section, Configs

LEMMA PairAssigned ==
    ASSUME NEW c \in Configs, NEW section \in Strings, NEW name \in Strings,
           NEW value \in Strings
    PROVE  assign_keyval(c, section, name, value) \in Configs
<1> DEFINE pair == [name |-> name, value |-> value]
           held == find_or_create_section(c, section)
           k    == find_section(held, section)
<1>1. pair \in Pairs
  BY DEF Pairs
<1>2. held \in Configs
  BY SectionCreated
<1>3. [c EXCEPT !.globals = add_keyval(@, pair)] \in Configs
  <2>1. add_keyval(c.globals, pair) \in Seq(Pairs)
    BY <1>1, PairsGrow DEF Configs
  <2> QED
    BY <2>1 DEF Configs
<1> HIDE DEF pair, held, k
<1>4. [held EXCEPT !.sections[k].keyvals = add_keyval(@, pair)] \in Configs
  <2> DEFINE old == held.sections
             new == [old EXCEPT ![k].keyvals = add_keyval(@, pair)]
  <2>1. old \in Seq(Sections)
    BY <1>2 DEF Configs
  <2>2. Len(old) \in Nat /\ old \in [1 .. Len(old) -> Sections]
    BY <2>1, LenProperties
  <2>3. \A i \in 1 .. Len(old) :
            [old[i] EXCEPT !.keyvals = add_keyval(@, pair)] \in Sections
    <3> TAKE i \in 1 .. Len(old)
    <3>1. old[i] \in Sections
      BY <2>2
    <3>2. add_keyval(old[i].keyvals, pair) \in Seq(Pairs)
      BY <1>1, <3>1, PairsGrow DEF Sections
    <3> QED
      BY <3>1, <3>2 DEF Sections
  <2> HIDE DEF old
  <2>4. new \in [1 .. Len(old) -> Sections]
    BY <2>2, <2>3
  <2> HIDE DEF new
  <2>5. new \in Seq(Sections)
    BY <2>2, <2>4, SeqDef
  <2> QED
    BY <1>2, <2>5 DEF Configs, old, new
<1> QED
  BY <1>3, <1>4 DEF assign_keyval, pair, held, k

-----------------------------------------------------------------------------
(* Type correctness.  It rests on KeyBegun: a key's first character was      *)
(* consumed, so that bufp-- stays in the buffer.                             *)

KeyBegun == state = "KEY" => bufp > 1

IniInv == IniTypeOK /\ KeyBegun

LEMMA IniInitInv == IniInit => IniInv
<1> SUFFICES ASSUME IniInit PROVE IniInv
  OBVIOUS
<1>1. file \in Files /\ file.text \in Seq(Chars \ {"NUL"})
  BY IniAssumption DEF IniInit
<1>2. mem \in Seq(Chars)
  <2>1. PICK behind \in Leftovers : mem = file.text \o behind
    BY DEF IniInit
  <2> HIDE DEF Chars
  <2>2. file.text \in Seq(Chars)
    BY <1>1, SeqMonotonic
  <2>3. behind \in Seq(Chars)
    BY <2>1, IniAssumption
  <2> QED
    BY <2>1, <2>2, <2>3, ConcatProperties
<1>3. Len(mem) \in Nat
  BY <1>2, LenProperties
<1>4. << >> \in Strings /\ Len(<< >>) = 0
  BY EmptySeq DEF Strings
<1>5. ini_create \in Configs
  BY DEF ini_create, Configs
<1>6. state = "READY_FOR_DATA" /\ bufp = 1 /\ outcome = "parsing" /\ lost = FALSE
      /\ current_section = << >> /\ current_key = << >> /\ cfg = ini_create
  BY DEF IniInit
<1> HIDE DEF Strings, Chars, Configs, ini_create
<1>7. bufp \in 1 .. Len(mem) + 1 /\ KeyBegun
  BY <1>3, <1>6 DEF KeyBegun
<1>8. /\ current_section \in Strings /\ Len(current_section) < TmpSize
      /\ current_key \in Strings /\ Len(current_key) <= TmpSize
  BY <1>4, <1>6, IniAssumption
<1> QED
  BY <1>1, <1>2, <1>5, <1>6, <1>7, <1>8 DEF IniInv, IniTypeOK, States, Outcomes

\* bufp moves on, to a state that is not KEY or from a byte of the buffer.
LEMMA AdvanceInv ==
    ASSUME IniTypeOK, NEW next \in States, NEW p \in 1 .. Len(mem),
           Advance(next, p), mem' = mem
    PROVE  /\ bufp' \in 1 .. Len(mem') + 1
           /\ state' \in States
           /\ KeyBegun'
<1>1. Len(mem) \in Nat
  BY LenProperties DEF IniTypeOK
<1> QED
  BY <1>1 DEF Advance, KeyBegun

LEMMA FailInv == IniInv /\ Fail => IniInv'
<1>1. ini_create \in Configs
  BY DEF ini_create, Configs
<1> QED
  BY <1>1 DEF IniInv, IniTypeOK, KeyBegun, Fail, ini_free, Outcomes

LEMMA AstrayInv == ASSUME IniInv, NEW p, Astray(p) PROVE IniInv'
BY DEF IniInv, IniTypeOK, KeyBegun, Astray, Outcomes

LEMMA ReadyInv == IniInv /\ Ready => IniInv'
<1> SUFFICES ASSUME IniInv, Ready PROVE IniInv'
  OBVIOUS
<1>1. bufp \in 1 .. Len(mem)
  <2>1. Len(mem) \in Nat
    BY LenProperties DEF IniInv, IniTypeOK
  <2>2. bufp \in 1 .. Len(mem) + 1
    BY DEF IniInv, IniTypeOK
  <2>3. bufp <= Len(mem)
    BY DEF Ready, Going
  <2> QED
    BY <2>1, <2>2, <2>3
<1>2. PICK next \in States : Advance(next, bufp)
  BY DEF Ready, States
<1>3. UNCHANGED << file, mem, current_section, current_key, cfg, outcome, lost >>
  BY DEF Ready
<1> QED
  BY <1>1, <1>2, <1>3, AdvanceInv DEF IniInv, IniTypeOK

LEMMA CommentInv == IniInv /\ Comment => IniInv'
<1> SUFFICES ASSUME IniInv, Comment PROVE IniInv'
  OBVIOUS
<1> DEFINE stop == Stop(CommentEnd, bufp)
<1>1. mem \in Seq(Chars) /\ bufp \in 1 .. Len(mem) + 1 /\ Len(mem) \in Nat
  BY LenProperties DEF IniInv, IniTypeOK
<1>2. stop \in bufp .. Len(mem) + 1
  BY <1>1, StopProperties
<1> HIDE DEF stop
<1>3. CASE Astray(stop)
  BY <1>3, AstrayInv
<1>4. CASE /\ Advance("READY_FOR_DATA", stop)
           /\ UNCHANGED << file, mem, current_section, current_key, cfg, outcome,
                           lost >>
  <2>1. stop \in 1 .. Len(mem)
    BY <1>1, <1>2, <1>4 DEF Advance
  <2> QED
    BY <1>4, <2>1, AdvanceInv DEF IniInv, IniTypeOK, States
<1> QED
  BY <1>3, <1>4 DEF Comment, stop

\* Where the stages that copy text stop; each with the bounds of its copy.
SectionStop == Smaller(Stop({"]", "LF", "NUL"}, bufp), bufp + TmpSize - 1)
KeyEnd      == {" ", "TAB", "=", "LF", "NUL"}
KeyStop     == Smaller(Stop(KeyEnd, KeyStart), KeyStart + TmpSize)
KeySign     == Stop({"=", "LF", "NUL"}, KeyStop)
ValueBegin  == Stop(Chars \ {" ", "TAB"}, bufp)
ValueStop   == Stop(ValueEnd, ValueBegin)

LEMMA SectionStops ==
    ASSUME IniInv
    PROVE  /\ SectionStop \in bufp .. Len(mem) + 1
           /\ SectionStop <= bufp + TmpSize - 1
           /\ \A i \in bufp .. SectionStop - 1 : mem[i] \notin {"]", "LF", "NUL"}
<1> DEFINE end == Stop({"]", "LF", "NUL"}, bufp)
<1>1. /\ mem \in Seq(Chars) /\ bufp \in 1 .. Len(mem) + 1 /\ Len(mem) \in Nat
      /\ TmpSize \in Nat /\ TmpSize > 1
  BY LenProperties, IniAssumption DEF IniInv, IniTypeOK
<1>2. /\ end \in bufp .. Len(mem) + 1
      /\ \A i \in bufp .. end - 1 : mem[i] \notin {"]", "LF", "NUL"}
  BY <1>1, StopProperties
<1>3. SectionStop = IF end < bufp + TmpSize - 1 THEN end ELSE bufp + TmpSize - 1
  BY DEF SectionStop, Smaller
<1> HIDE DEF end
<1>4. SectionStop \in bufp .. end /\ SectionStop <= bufp + TmpSize - 1
  BY <1>1, <1>2, <1>3
<1> QED
  BY <1>1, <1>2, <1>4

LEMMA KeyStops ==
    ASSUME IniInv, state = "KEY"
    PROVE  /\ KeyStart \in 1 .. Len(mem)
           /\ KeyStop \in KeyStart .. Len(mem) + 1
           /\ KeyStop - KeyStart <= TmpSize
           /\ \A i \in KeyStart .. KeyStop - 1 : mem[i] \notin KeyEnd
           /\ KeySign \in KeyStop .. Len(mem) + 1
<1>1. /\ mem \in Seq(Chars) /\ bufp \in 1 .. Len(mem) + 1 /\ Len(mem) \in Nat
      /\ TmpSize \in Nat /\ TmpSize > 1 /\ bufp > 1
  BY LenProperties, IniAssumption DEF IniInv, IniTypeOK, KeyBegun
<1>2. PICK k \in 1 .. Len(mem) : k = KeyStart
  BY <1>1 DEF KeyStart
<1>3. k \in 1 .. Len(mem) + 1
  BY <1>1
<1>4. PICK end : end = Stop(KeyEnd, k)
  OBVIOUS
<1>5. /\ end \in k .. Len(mem) + 1
      /\ \A i \in k .. end - 1 : mem[i] \notin KeyEnd
  BY <1>1, <1>3, <1>4, StopProperties
<1>6. PICK stop : stop = KeyStop
  OBVIOUS
<1>7. stop = Smaller(end, k + TmpSize)
  BY <1>2, <1>4, <1>6 DEF KeyStop
<1>8. stop \in k .. end /\ stop - k <= TmpSize
  BY <1>1, <1>5, <1>7 DEF Smaller
<1>9. KeySign \in stop .. Len(mem) + 1
  <2>1. stop \in 1 .. Len(mem) + 1
    BY <1>1, <1>5, <1>8
  <2> QED
    BY <1>1, <1>6, <2>1, StopProperties DEF KeySign
<1>10. \A i \in k .. stop - 1 : mem[i] \notin KeyEnd
  BY <1>1, <1>5, <1>8
<1> QED
  BY <1>1, <1>2, <1>5, <1>6, <1>8, <1>9, <1>10

LEMMA ValueStops ==
    ASSUME IniInv
    PROVE  /\ ValueBegin \in bufp .. Len(mem) + 1
           /\ ValueStop \in ValueBegin .. Len(mem) + 1
           /\ \A i \in ValueBegin .. ValueStop - 1 : mem[i] \notin {"LF", "NUL"}
<1>1. mem \in Seq(Chars) /\ bufp \in 1 .. Len(mem) + 1 /\ Len(mem) \in Nat
  BY LenProperties DEF IniInv, IniTypeOK
<1>2. ValueBegin \in bufp .. Len(mem) + 1
  BY <1>1, StopProperties DEF ValueBegin
<1>3. ValueBegin \in 1 .. Len(mem) + 1
  BY <1>1, <1>2
<1> HIDE DEF ValueBegin
<1>4. /\ ValueStop \in ValueBegin .. Len(mem) + 1
      /\ \A i \in ValueBegin .. ValueStop - 1 : mem[i] \notin ValueEnd
  BY <1>1, <1>3, StopProperties DEF ValueStop
<1> QED
  BY <1>2, <1>4 DEF ValueEnd

LEMMA SectionNameInv == IniInv /\ SectionName => IniInv'
<1> SUFFICES ASSUME IniInv, SectionName PROVE IniInv'
  OBVIOUS
<1>1. /\ mem \in Seq(Chars) /\ bufp \in 1 .. Len(mem) + 1 /\ Len(mem) \in Nat
      /\ TmpSize \in Nat
  BY LenProperties, IniAssumption DEF IniInv, IniTypeOK
<1>2. PICK stop : stop = SectionStop
  OBVIOUS
<1>3. /\ stop \in bufp .. Len(mem) + 1
      /\ stop <= bufp + TmpSize - 1
      /\ \A i \in bufp .. stop - 1 : mem[i] # "NUL"
  BY <1>2, SectionStops
<1>4. CASE Astray(stop)
  BY <1>4, AstrayInv
<1>5. CASE Fail
  BY <1>5, FailInv
<1>6. CASE /\ Advance("READY_FOR_DATA", stop)
           /\ current_section' = SubSeq(mem, bufp, stop - 1)
           /\ UNCHANGED << file, mem, current_key, cfg, outcome, lost >>
  <2>1. stop \in 1 .. Len(mem)
    BY <1>1, <1>3, <1>6 DEF Advance
  <2>2. /\ current_section' \in Strings
        /\ Len(current_section') = stop - bufp
    BY <1>1, <1>3, <1>6, PieceIsString
  <2>3. Len(current_section') < TmpSize
    BY <1>1, <1>3, <2>1, <2>2
  <2> QED
    BY <1>6, <2>1, <2>2, <2>3, AdvanceInv DEF IniInv, IniTypeOK, States
<1> QED
  BY <1>2, <1>4, <1>5, <1>6 DEF SectionName, SectionStop

LEMMA KeyInv == IniInv /\ Key => IniInv'
<1> SUFFICES ASSUME IniInv, Key PROVE IniInv'
  OBVIOUS
<1>1. /\ mem \in Seq(Chars) /\ Len(mem) \in Nat /\ TmpSize \in Nat
      /\ state = "KEY"
  BY LenProperties, IniAssumption DEF IniInv, IniTypeOK, Key
<1>2. PICK k, stop, sign : k = KeyStart /\ stop = KeyStop /\ sign = KeySign
  OBVIOUS
<1>3. /\ k \in 1 .. Len(mem)
      /\ stop \in k .. Len(mem) + 1
      /\ stop - k <= TmpSize
      /\ \A i \in k .. stop - 1 : mem[i] \notin KeyEnd
      /\ sign \in stop .. Len(mem) + 1
  BY <1>1, <1>2, KeyStops
<1>4. \A i \in k .. stop - 1 : mem[i] # "NUL"
  BY <1>3, Zenon DEF KeyEnd
<1>5. CASE Astray(sign)
  BY <1>5, AstrayInv
<1>6. CASE Fail
  BY <1>6, FailInv
<1>7. CASE /\ Advance("VALUE", sign)
           /\ current_key' = SubSeq(mem, k, stop - 1)
           /\ UNCHANGED << file, mem, current_section, cfg, outcome, lost >>
  <2>1. sign \in 1 .. Len(mem)
    BY <1>1, <1>3, <1>7 DEF Advance
  <2>2. /\ current_key' \in Strings
        /\ Len(current_key') = stop - k
    <3>1. k \in 1 .. Len(mem) + 1
      BY <1>1, <1>3
    <3> QED
      BY <1>1, <1>3, <1>4, <1>7, <3>1, PieceIsString
  <2>3. Len(current_key') <= TmpSize
    BY <1>3, <2>2
  <2> QED
    BY <1>7, <2>1, <2>2, <2>3, AdvanceInv DEF IniInv, IniTypeOK, States
<1> QED
  BY <1>2, <1>5, <1>6, <1>7, Zenon DEF Key, KeyStop, KeySign, KeyEnd

\* A pair assigned or dropped leaves a configuration.
LEMMA AssignInv ==
    ASSUME IniTypeOK, NEW value \in Strings, Assign(value)
    PROVE  cfg' \in Configs /\ lost' \in BOOLEAN
<1>1. cfg \in Configs /\ current_section \in Strings /\ current_key \in Strings
      /\ lost \in BOOLEAN
  BY DEF IniTypeOK
<1>2. /\ assign_keyval(cfg, current_section, current_key, value) \in Configs
      /\ find_or_create_section(cfg, current_section) \in Configs
  BY <1>1, PairAssigned, SectionCreated
<1> QED
  BY <1>1, <1>2 DEF Assign

LEMMA ValueInv == IniInv /\ Value => IniInv'
<1> SUFFICES ASSUME IniInv, Value PROVE IniInv'
  OBVIOUS
<1>1. /\ mem \in Seq(Chars) /\ bufp \in 1 .. Len(mem) + 1 /\ Len(mem) \in Nat
  BY LenProperties DEF IniInv, IniTypeOK
<1>2. PICK begin, end : begin = ValueBegin /\ end = ValueStop
  OBVIOUS
<1>3. /\ begin \in bufp .. Len(mem) + 1
      /\ end \in begin .. Len(mem) + 1
      /\ \A i \in begin .. end - 1 : mem[i] # "NUL"
  BY <1>2, ValueStops
<1>4. CASE Astray(end)
  BY <1>4, AstrayInv
<1>5. CASE /\ outcome' = "misused"
           /\ UNCHANGED << file, mem, bufp, state, current_section,
                           current_key, cfg, lost >>
  BY <1>5 DEF IniInv, IniTypeOK, KeyBegun, Outcomes
<1>6. CASE /\ Advance("READY_FOR_DATA", end)
           /\ Assign(SubSeq(mem, begin, end - 1))
           /\ UNCHANGED << file, mem, current_section, current_key, outcome >>
  <2>1. end \in 1 .. Len(mem) /\ begin \in 1 .. Len(mem) + 1
    BY <1>1, <1>3, <1>6 DEF Advance
  <2>2. SubSeq(mem, begin, end - 1) \in Strings
    BY <1>1, <1>3, <2>1, PieceIsString
  <2>3. cfg' \in Configs /\ lost' \in BOOLEAN
    BY <1>6, <2>2, AssignInv DEF IniInv
  <2> QED
    BY <1>6, <2>1, <2>3, AdvanceInv DEF IniInv, IniTypeOK, States
<1> QED
  BY <1>2, <1>4, <1>5, <1>6, Zenon DEF Value, ValueBegin, ValueStop

LEMMA DoneInv == IniInv /\ Done => IniInv'
BY DEF IniInv, IniTypeOK, KeyBegun, Done, Outcomes

LEMMA IniStepInv == IniInv /\ [ini_parsebuf \/ ini_parse_Fails]_iniVars => IniInv'
<1> SUFFICES ASSUME IniInv, [ini_parsebuf \/ ini_parse_Fails]_iniVars
             PROVE  IniInv'
  OBVIOUS
<1>1. CASE Ready
  BY <1>1, ReadyInv
<1>2. CASE Comment
  BY <1>2, CommentInv
<1>3. CASE SectionName
  BY <1>3, SectionNameInv
<1>4. CASE Key
  BY <1>4, KeyInv
<1>5. CASE Value
  BY <1>5, ValueInv
<1>6. CASE Done
  BY <1>6, DoneInv
<1>7. CASE ini_parse_Fails
  BY <1>7, FailInv DEF ini_parse_Fails
<1>8. CASE UNCHANGED iniVars
  BY <1>8 DEF IniInv, IniTypeOK, KeyBegun, iniVars
<1> QED
  BY <1>1, <1>2, <1>3, <1>4, <1>5, <1>6, <1>7, <1>8 DEF ini_parsebuf

\* The parser's variables keep their types: the names it copies stay within
\* the strings they are copied to, with room for the terminator of a
\* section's, and bufp leaves the memory by at most one.
THEOREM IniTypeCorrect == IniSpec => []IniTypeOK
<1>1. IniInv => IniTypeOK
  BY DEF IniInv
<1> QED
  BY IniInitInv, IniStepInv, <1>1, PTL DEF IniSpec

-----------------------------------------------------------------------------
(* The parser stays in a text that ends with a newline and a terminator:     *)
(* whatever it looks for, it stops at that newline at the latest.            *)

\* The memory begins with the file.
TextHeld ==
    /\ Len(file.text) \in Nat \ {0}
    /\ Len(mem) >= Len(file.text)
    /\ \A i \in 1 .. Len(file.text) : mem[i] = file.text[i]

\* The inductive invariant of both properties.
WithinText ==
    Terminated =>
        /\ bufp <= Len(file.text) + 1
        /\ outcome # "astray"
        /\ ShortLines => Len(current_key) < TmpSize /\ outcome # "misused"

TextInv == IniInv /\ TextHeld /\ WithinText

\* What Terminated says of the memory.
LEMMA NewlineEnds ==
    ASSUME IniInv, TextHeld, Terminated
    PROVE  /\ Len(file.text) \in 1 .. Len(mem) - 1
           /\ mem[Len(file.text)] = "LF"
           /\ mem[Len(file.text) + 1] = "NUL"
<1>1. Len(mem) \in Nat
  BY LenProperties DEF IniInv, IniTypeOK
<1>2. Len(file.text) \in 1 .. Len(mem) - 1 /\ Len(file.text) \in 1 .. Len(file.text)
  BY <1>1 DEF TextHeld, Terminated
<1>3. mem[Len(file.text)] = file.text[Len(file.text)]
  BY <1>2 DEF TextHeld
<1> QED
  BY <1>2, <1>3 DEF Terminated, Last

\* A search from p that a later position would end ends there or before.
LEMMA StopAtMost ==
    ASSUME mem \in Seq(Chars), NEW set, NEW q \in 1 .. Len(mem), NEW p \in 1 .. q,
           mem[q] \in set
    PROVE  Stop(set, p) \in p .. q
<1>1. Len(mem) \in Nat
  BY LenProperties
<1>2. PICK stop : stop = Stop(set, p)
  OBVIOUS
<1>3. p \in 1 .. Len(mem) + 1
  BY <1>1
<1>4. stop \in p .. Len(mem) + 1 /\ \A i \in p .. stop - 1 : mem[i] \notin set
  BY <1>2, <1>3, StopProperties
<1>5. ~ (q < stop)
  BY <1>1, <1>4
<1> QED
  BY <1>1, <1>2, <1>4, <1>5

\* TmpSize bytes of a text of short lines hold a newline.
LEMMA NoLongPiece ==
    ASSUME IniInv, TextHeld, ShortLines, NEW a \in Nat \ {0}, NEW b \in Nat,
           b <= Len(file.text) + 1, b - a >= TmpSize
    PROVE  \E i \in a .. b - 1 : mem[i] = "LF"
<1>1. TmpSize \in Nat /\ TmpSize > 1 /\ Len(file.text) \in Nat
  BY IniAssumption DEF TextHeld
<1>2. a \in 1 .. Len(file.text) - TmpSize + 1
  BY <1>1
<1>3. PICK j \in a .. a + TmpSize - 1 : file.text[j] = "LF"
  BY <1>2 DEF ShortLines
<1>4. j \in 1 .. Len(file.text) /\ j \in a .. b - 1
  BY <1>1, <1>2
<1> QED
  BY <1>3, <1>4 DEF TextHeld

LEMMA TextInit == IniInit => TextInv
<1> SUFFICES ASSUME IniInit PROVE TextInv
  OBVIOUS
<1>1. file.text \in Seq(Chars) /\ file.text # << >>
  <2>1. file.text \in Seq(Chars \ {"NUL"}) /\ file.text # << >>
    BY IniAssumption DEF IniInit
  <2> HIDE DEF Chars
  <2> QED
    BY <2>1, SeqMonotonic
<1>2. PICK behind \in Seq(Chars) : mem = file.text \o behind
  BY IniAssumption DEF IniInit
<1> HIDE DEF Chars
<1>3. TextHeld
  <2>1. Len(file.text) \in Nat /\ Len(behind) \in Nat /\ Len(file.text) # 0
    BY <1>1, EmptySeq, LenProperties
  <2>2. /\ Len(mem) = Len(file.text) + Len(behind)
        /\ \A i \in 1 .. Len(file.text) : mem[i] = file.text[i]
    BY <1>1, <1>2, <2>1, ConcatProperties
  <2> QED
    BY <2>1, <2>2 DEF TextHeld
<1>4. WithinText
  <2>1. bufp = 1 /\ outcome = "parsing" /\ Len(current_key) = 0 /\ TmpSize > 1
    BY EmptySeq, IniAssumption DEF IniInit
  <2>2. Len(file.text) \in Nat \ {0} /\ TmpSize \in Nat
    BY <1>3, IniAssumption DEF TextHeld
  <2> QED
    BY <2>1, <2>2 DEF WithinText
<1> QED
  BY <1>3, <1>4, IniInitInv DEF TextInv

LEMMA TextKept ==
    ASSUME TextHeld, file' = file, mem' = mem
    PROVE  /\ TextHeld'
           /\ Terminated' <=> Terminated
           /\ ShortLines' <=> ShortLines
<1>1. TextHeld'
  BY DEF TextHeld
<1>2. Terminated' <=> Terminated
  BY DEF Terminated
<1>3. ShortLines' <=> ShortLines
  BY DEF ShortLines
<1> QED
  BY <1>1, <1>2, <1>3

LEMMA GoingInText ==
    ASSUME TextInv, Terminated, Going
    PROVE  bufp \in 1 .. Len(file.text)
<1>1. /\ Len(file.text) \in Nat /\ bufp \in 1 .. Len(mem) + 1
      /\ bufp <= Len(file.text) + 1
  BY NewlineEnds DEF TextInv, IniInv, IniTypeOK, WithinText, TextHeld
<1>2. bufp # Len(file.text) + 1
  BY NewlineEnds DEF TextInv, Going
<1> QED
  BY <1>1, <1>2

\* The bytes that end what the stages look for, the newline among them.
LEMMA NewlineStops ==
    ASSUME TextInv, Terminated, NEW p \in 1 .. Len(file.text), NEW set, "LF" \in set
    PROVE  Stop(set, p) \in p .. Len(file.text)
<1>1. mem \in Seq(Chars) /\ Len(mem) \in Nat
  BY LenProperties DEF TextInv, IniInv, IniTypeOK
<1>2. /\ Len(file.text) \in 1 .. Len(mem) - 1
      /\ mem[Len(file.text)] = "LF"
  BY NewlineEnds DEF TextInv
<1>3. Len(file.text) \in 1 .. Len(mem)
  BY <1>1, <1>2
<1> QED
  BY <1>1, <1>2, <1>3, StopAtMost

\* A step that moves bufp on inside the text.
LEMMA TextAdvance ==
    ASSUME TextInv, NEW p, NEW next, Advance(next, p), UNCHANGED << file, mem, outcome >>,
           Terminated => p \in 1 .. Len(file.text),
           Terminated /\ ShortLines => Len(current_key') < TmpSize
    PROVE  WithinText'
<1>1. Len(file.text) \in Nat
  BY DEF TextInv, TextHeld
<1>2. (Terminated' <=> Terminated) /\ (ShortLines' <=> ShortLines)
  BY TextKept DEF TextInv
<1>3. Terminated => bufp' <= Len(file.text) + 1
  BY <1>1 DEF Advance
<1> QED
  BY <1>2, <1>3 DEF TextInv, WithinText

\* A step that leaves bufp and the key, and does not go astray.
LEMMA TextStay ==
    ASSUME TextInv, UNCHANGED << file, mem, bufp, current_key >>,
           Terminated => outcome' # "astray",
           Terminated /\ ShortLines => outcome' # "misused"
    PROVE  WithinText'
<1>1. (Terminated' <=> Terminated) /\ (ShortLines' <=> ShortLines)
  BY TextKept DEF TextInv
<1> QED
  BY <1>1 DEF TextInv, WithinText

LEMMA FailText == TextInv /\ Fail => WithinText'
BY TextStay DEF Fail

LEMMA AstrayText ==
    ASSUME TextInv, NEW p, Astray(p), Terminated => p \in 1 .. Len(file.text)
    PROVE  WithinText'
<1>1. ~ Terminated
  <2> SUFFICES ASSUME Terminated PROVE FALSE
    OBVIOUS
  <2>1. Len(file.text) \in 1 .. Len(mem) - 1 /\ Len(mem) \in Nat
    BY NewlineEnds, LenProperties DEF TextInv, IniInv, IniTypeOK
  <2> QED
    BY <2>1 DEF Astray
<1> QED
  BY <1>1, TextKept DEF TextInv, WithinText, Astray

LEMMA ReadyText == TextInv /\ Ready => WithinText'
<1> SUFFICES ASSUME TextInv, Ready PROVE WithinText'
  OBVIOUS
<1>1. Terminated => bufp \in 1 .. Len(file.text)
  BY GoingInText DEF Ready
<1>2. PICK next : Advance(next, bufp)
  BY DEF Ready
<1>3. Terminated /\ ShortLines => Len(current_key') < TmpSize
  BY DEF Ready, TextInv, WithinText
<1> QED
  BY <1>1, <1>2, <1>3, TextAdvance DEF Ready

LEMMA CommentText == TextInv /\ Comment => WithinText'
<1> SUFFICES ASSUME TextInv, Comment PROVE WithinText'
  OBVIOUS
<1>1. PICK stop : stop = Stop(CommentEnd, bufp)
  OBVIOUS
<1>2. Terminated => stop \in 1 .. Len(file.text)
  <2> SUFFICES ASSUME Terminated PROVE stop \in 1 .. Len(file.text)
    OBVIOUS
  <2>1. bufp \in 1 .. Len(file.text) /\ Len(file.text) \in Nat
    BY GoingInText DEF Comment, TextInv, TextHeld
  <2>2. stop \in bufp .. Len(file.text)
    BY <1>1, <2>1, NewlineStops DEF CommentEnd
  <2> QED
    BY <2>1, <2>2
<1>3. CASE Astray(stop)
  BY <1>2, <1>3, AstrayText
<1>4. CASE /\ Advance("READY_FOR_DATA", stop)
           /\ UNCHANGED << file, mem, current_key, outcome >>
  BY <1>2, <1>4, TextAdvance DEF TextInv, WithinText
<1> QED
  BY <1>1, <1>3, <1>4 DEF Comment

LEMMA SectionNameText == TextInv /\ SectionName => WithinText'
<1> SUFFICES ASSUME TextInv, SectionName PROVE WithinText'
  OBVIOUS
<1>1. PICK stop, end : /\ stop = SectionStop
                       /\ end = Stop({"]", "LF", "NUL"}, bufp)
  OBVIOUS
<1>2. Terminated => stop \in 1 .. Len(file.text)
  <2> SUFFICES ASSUME Terminated PROVE stop \in 1 .. Len(file.text)
    OBVIOUS
  <2>1. /\ bufp \in 1 .. Len(file.text) /\ Len(file.text) \in Nat
        /\ TmpSize \in Nat /\ TmpSize > 1
    BY GoingInText, IniAssumption DEF SectionName, TextInv, TextHeld
  <2>2. end \in bufp .. Len(file.text)
    BY <1>1, <2>1, NewlineStops
  <2>3. stop = IF end < bufp + TmpSize - 1 THEN end ELSE bufp + TmpSize - 1
    BY <1>1 DEF SectionStop, Smaller
  <2> QED
    BY <2>1, <2>2, <2>3
<1>3. CASE Astray(stop)
  BY <1>2, <1>3, AstrayText
<1>4. CASE Fail
  BY <1>4, FailText
<1>5. CASE /\ Advance("READY_FOR_DATA", stop)
           /\ UNCHANGED << file, mem, current_key, outcome >>
  BY <1>2, <1>5, TextAdvance DEF TextInv, WithinText
<1> QED
  BY <1>1, <1>3, <1>4, <1>5 DEF SectionName, SectionStop

LEMMA KeyText == TextInv /\ Key => WithinText'
<1> SUFFICES ASSUME TextInv, Key PROVE WithinText'
  OBVIOUS
<1>1. /\ mem \in Seq(Chars) /\ Len(mem) \in Nat /\ TmpSize \in Nat /\ TmpSize > 1
      /\ state = "KEY" /\ IniInv
  BY LenProperties, IniAssumption DEF TextInv, IniInv, IniTypeOK, Key
<1>2. PICK k, end, stop, sign : /\ k = KeyStart /\ stop = KeyStop /\ sign = KeySign
                                /\ end = Stop(KeyEnd, k)
  OBVIOUS
<1>3. /\ k \in 1 .. Len(mem)
      /\ stop \in k .. Len(mem) + 1
      /\ stop - k <= TmpSize
      /\ \A i \in k .. stop - 1 : mem[i] \notin KeyEnd
  BY <1>1, <1>2, KeyStops
<1>4. \A i \in k .. stop - 1 : mem[i] # "LF"
  BY <1>3, Zenon DEF KeyEnd
<1>5. ASSUME Terminated
      PROVE  sign \in 1 .. Len(file.text) /\ stop \in 1 .. Len(file.text)
  <2>1. bufp \in 1 .. Len(file.text) /\ Len(file.text) \in Nat
    BY <1>5, GoingInText DEF Key, TextInv, TextHeld
  <2>2. k \in 1 .. Len(file.text)
    BY <1>2, <1>3, <2>1 DEF KeyStart
  <2>3. end \in k .. Len(file.text)
    <3>1. "LF" \in KeyEnd
      BY Zenon DEF KeyEnd
    <3> QED
      BY <1>2, <1>5, <2>2, <3>1, NewlineStops
  <2>4. stop = IF end < k + TmpSize THEN end ELSE k + TmpSize
    BY <1>2 DEF KeyStop, Smaller
  <2>5. stop \in 1 .. Len(file.text)
    BY <1>1, <2>1, <2>2, <2>3, <2>4
  <2>6. sign \in stop .. Len(file.text)
    <3>1. PICK set : set = {"=", "LF", "NUL"}
      OBVIOUS
    <3>2. "LF" \in set
      BY <3>1, Zenon
    <3>3. sign = Stop(set, stop)
      BY <1>2, <3>1, Zenon DEF KeySign
    <3> QED
      BY <1>5, <2>5, <3>2, <3>3, NewlineStops
  <2> QED
    BY <2>1, <2>5, <2>6
<1>6. CASE Astray(sign)
  BY <1>5, <1>6, AstrayText
<1>7. CASE Fail
  BY <1>7, FailText
<1>8. CASE /\ Advance("VALUE", sign)
           /\ current_key' = SubSeq(mem, k, stop - 1)
           /\ UNCHANGED << file, mem, outcome >>
  <2>1. Len(current_key') = stop - k
    <3>1. k \in 1 .. Len(mem) + 1 /\ \A i \in k .. stop - 1 : mem[i] # "NUL"
      <4>1. k \in 1 .. Len(mem) + 1
        BY <1>1, <1>3
      <4> QED
        BY <1>3, <4>1, Zenon DEF KeyEnd
    <3> QED
      BY <1>1, <1>3, <1>8, <3>1, PieceIsString
  <2>2. ASSUME Terminated, ShortLines
        PROVE  Len(current_key') < TmpSize
    <3> SUFFICES ASSUME stop - k >= TmpSize PROVE FALSE
      BY <1>1, <1>3, <2>1
    <3>1. /\ k \in Nat \ {0} /\ stop \in Nat /\ stop <= Len(file.text) + 1
          /\ stop - k >= TmpSize
      <4>1. Len(file.text) \in Nat
        BY DEF TextInv, TextHeld
      <4> QED
        BY <1>3, <1>5, <2>2, <4>1
    <3>2. \E i \in k .. stop - 1 : mem[i] = "LF"
      BY <1>1, <2>2, <3>1, NoLongPiece DEF TextInv
    <3> QED
      BY <1>4, <3>2
  <2> QED
    BY <1>5, <1>8, <2>2, TextAdvance
<1> QED
  BY <1>2, <1>6, <1>7, <1>8, Zenon DEF Key, KeyStop, KeySign, KeyEnd

LEMMA ValueText == TextInv /\ Value => WithinText'
<1> SUFFICES ASSUME TextInv, Value PROVE WithinText'
  OBVIOUS
<1>1. /\ mem \in Seq(Chars) /\ Len(mem) \in Nat /\ TmpSize \in Nat /\ IniInv
      /\ bufp \in 1 .. Len(mem) + 1
  BY LenProperties, IniAssumption DEF TextInv, IniInv, IniTypeOK
<1>2. PICK begin, end : begin = ValueBegin /\ end = ValueStop
  OBVIOUS
<1>3. /\ begin \in bufp .. Len(mem) + 1
      /\ end \in begin .. Len(mem) + 1
      /\ \A i \in begin .. end - 1 : mem[i] # "LF"
  BY <1>1, <1>2, ValueStops
<1>4. ASSUME Terminated PROVE end \in 1 .. Len(file.text)
  <2>1. bufp \in 1 .. Len(file.text) /\ Len(file.text) \in Nat
    BY <1>4, GoingInText DEF Value, TextInv, TextHeld
  <2>2. begin \in bufp .. Len(file.text)
    <3>1. PICK set : set = Chars \ {" ", "TAB"}
      OBVIOUS
    <3>2. "LF" \in set
      BY <3>1, Zenon DEF Chars, Special
    <3>3. begin = Stop(set, bufp)
      BY <1>2, <3>1, Zenon DEF ValueBegin
    <3> QED
      BY <1>4, <2>1, <3>2, <3>3, NewlineStops
  <2>3. begin \in 1 .. Len(file.text)
    BY <2>1, <2>2
  <2>4. end \in begin .. Len(file.text)
    BY <1>2, <1>4, <2>3, NewlineStops DEF ValueStop, ValueEnd
  <2> QED
    BY <2>1, <2>3, <2>4
<1>5. CASE Astray(end)
  BY <1>4, <1>5, AstrayText
<1>6. CASE /\ end - begin >= TmpSize \/ Len(current_key) = TmpSize
           /\ outcome' = "misused"
           /\ UNCHANGED << file, mem, bufp, current_key >>
  <2>1. ASSUME Terminated, ShortLines PROVE FALSE
    <3>1. Len(current_key) < TmpSize
      BY <2>1 DEF TextInv, WithinText
    <3>2. Len(current_key) \in Nat
      BY LenProperties DEF TextInv, IniInv, IniTypeOK, Strings
    <3>3. /\ begin \in Nat \ {0} /\ end \in Nat
          /\ end <= Len(file.text) + 1 /\ end - begin >= TmpSize
      <4>1. Len(file.text) \in Nat
        BY DEF TextInv, TextHeld
      <4> QED
        BY <1>1, <1>3, <1>4, <1>6, <2>1, <3>1, <3>2, <4>1
    <3>4. \E i \in begin .. end - 1 : mem[i] = "LF"
      BY <1>1, <2>1, <3>3, NoLongPiece DEF TextInv
    <3> QED
      BY <1>3, <3>4
  <2> QED
    BY <1>6, <2>1, TextStay
<1>7. CASE /\ Advance("READY_FOR_DATA", end)
           /\ UNCHANGED << file, mem, current_key, outcome >>
  BY <1>4, <1>7, TextAdvance DEF TextInv, WithinText
<1> QED
  BY <1>2, <1>5, <1>6, <1>7, Zenon DEF Value, ValueBegin, ValueStop

LEMMA DoneText == TextInv /\ Done => WithinText'
<1> SUFFICES ASSUME TextInv, Done PROVE WithinText'
  OBVIOUS
<1>1. Terminated => bufp <= Len(mem)
  <2> SUFFICES ASSUME Terminated PROVE bufp <= Len(mem)
    OBVIOUS
  <2>1. /\ Len(file.text) \in 1 .. Len(mem) - 1 /\ Len(mem) \in Nat
        /\ bufp \in 1 .. Len(mem) + 1 /\ bufp <= Len(file.text) + 1
    BY NewlineEnds, LenProperties DEF TextInv, IniInv, IniTypeOK, WithinText
  <2> QED
    BY <2>1
<1>2. UNCHANGED << file, mem, bufp, current_key >>
  BY DEF Done
<1>3. /\ Terminated => outcome' # "astray"
      /\ outcome' # "misused"
  <2>1. bufp \in 1 .. Len(mem) + 1 /\ Len(mem) \in Nat
    BY LenProperties DEF TextInv, IniInv, IniTypeOK
  <2> QED
    BY <1>1, <2>1 DEF Done
<1> QED
  BY <1>2, <1>3, TextStay

LEMMA TextStep == TextInv /\ [ini_parsebuf \/ ini_parse_Fails]_iniVars => TextInv'
<1> SUFFICES ASSUME TextInv, [ini_parsebuf \/ ini_parse_Fails]_iniVars
             PROVE  TextInv'
  OBVIOUS
<1>1. IniInv'
  BY IniStepInv DEF TextInv
<1>2. UNCHANGED << file, mem >>
  BY DEF ini_parsebuf, ini_parse_Fails, Ready, Comment, SectionName, Key, Value,
         Done, Fail, Astray, iniVars
<1>3. TextHeld'
  BY <1>2, TextKept DEF TextInv
<1>4. WithinText'
  <2>1. CASE Ready
    BY <2>1, ReadyText
  <2>2. CASE Comment
    BY <2>2, CommentText
  <2>3. CASE SectionName
    BY <2>3, SectionNameText
  <2>4. CASE Key
    BY <2>4, KeyText
  <2>5. CASE Value
    BY <2>5, ValueText
  <2>6. CASE Done
    BY <2>6, DoneText
  <2>7. CASE ini_parse_Fails
    BY <2>7, FailText DEF ini_parse_Fails
  <2>8. CASE UNCHANGED iniVars
    BY <2>8, TextStay DEF iniVars, TextInv, WithinText
  <2> QED
    BY <2>1, <2>2, <2>3, <2>4, <2>5, <2>6, <2>7, <2>8 DEF ini_parsebuf
<1> QED
  BY <1>1, <1>3, <1>4 DEF TextInv

\* Of a file that ends with a newline, with a terminator behind it, the parser
\* reads no byte behind that terminator, whatever the file says.
THEOREM StaysInTextCorrect == IniSpec => []StaysInText
<1>1. TextInv => StaysInText
  BY DEF TextInv, WithinText, StaysInText
<1> QED
  BY TextInit, TextStep, <1>1, PTL DEF IniSpec

\* If besides every line is shorter than tmp, the copies stay inside it, the
\* one without a bound among them.
THEOREM ShortLinesFitCorrect == IniSpec => []ShortLinesFit
<1>1. TextInv => ShortLinesFit
  BY DEF TextInv, WithinText, ShortLinesFit
<1> QED
  BY TextInit, TextStep, <1>1, PTL DEF IniSpec

-----------------------------------------------------------------------------
(* What a lookup finds after a pair is added                                 *)

\* A lookup by name finds the first element of that name, or returns 0.
Named(s, name) == { i \in 1 .. Len(s) : s[i].name = name }
FirstNamed(s, name) == IF Named(s, name) # {} THEN Min(Named(s, name)) ELSE 0

LEMMA FindIs == \A c, name : find_section(c, name) = FirstNamed(c.sections, name)
BY Zenon DEF find_section, SelectInSeq, FirstNamed, Named

LEMMA FirstNamedIn ==
    ASSUME NEW S, NEW s \in Seq(S), NEW name
    PROVE  /\ FirstNamed(s, name) \in 0 .. Len(s)
           /\ FirstNamed(s, name) # 0 => s[FirstNamed(s, name)].name = name
           /\ FirstNamed(s, name) = 0 => \A i \in 1 .. Len(s) : s[i].name # name
<1>1. PICK n, I : n = Len(s) /\ I = Named(s, name)
  OBVIOUS
<1>2. n \in Nat
  BY <1>1, LenProperties
<1>3. I = { i \in 1 .. n : s[i].name = name }
  BY <1>1, Zenon DEF Named
<1>4. I \subseteq Nat
  BY <1>2, <1>3
<1>5. I # {} => Min(I) \in I
  BY <1>4, MinProperties
<1>6. FirstNamed(s, name) = IF I # {} THEN Min(I) ELSE 0
  BY <1>1, Zenon DEF FirstNamed
<1> QED
  BY <1>1, <1>2, <1>3, <1>5, <1>6

\* The first element of that name is what it is known to be.
LEMMA FirstNamedIs ==
    ASSUME NEW S, NEW s \in Seq(S), NEW name, NEW k \in 1 .. Len(s),
           s[k].name = name, \A i \in 1 .. k - 1 : s[i].name # name
    PROVE  FirstNamed(s, name) = k
<1>1. PICK n, I : n = Len(s) /\ I = Named(s, name)
  OBVIOUS
<1>2. n \in Nat /\ k \in 1 .. n
  BY <1>1, LenProperties
<1>3. I = { i \in 1 .. n : s[i].name = name }
  BY <1>1, Zenon DEF Named
<1>4. I \subseteq Nat /\ k \in I
  BY <1>2, <1>3
<1>5. Min(I) \in I /\ \A i \in I : Min(I) <= i
  BY <1>4, MinProperties
<1>6. PICK m : m = Min(I)
  OBVIOUS
<1>7. m \in 1 .. n /\ m <= k /\ s[m].name = name
  BY <1>3, <1>4, <1>5, <1>6
<1>8. ~(m \in 1 .. k - 1)
  BY <1>7
<1>9. m = k
  BY <1>2, <1>7, <1>8
<1> QED
  BY <1>1, <1>4, <1>6, <1>9, Zenon DEF FirstNamed

LEMMA FirstNamedNone ==
    ASSUME NEW S, NEW s \in Seq(S), NEW name, \A i \in 1 .. Len(s) : s[i].name # name
    PROVE  FirstNamed(s, name) = 0
<1>1. Named(s, name) = {}
  BY DEF Named
<1> QED
  BY <1>1, Zenon DEF FirstNamed

\* An element appended is found if none of its name was there.
LEMMA FirstNamedAppend ==
    ASSUME NEW S, NEW s \in Seq(S), NEW x \in S, NEW name
    PROVE  FirstNamed(Append(s, x), name) =
               IF FirstNamed(s, name) # 0 THEN FirstNamed(s, name)
               ELSE IF x.name = name THEN Len(s) + 1 ELSE 0
<1>1. PICK t, n, k : t = Append(s, x) /\ n = Len(s) /\ k = FirstNamed(s, name)
  OBVIOUS
<1>2. /\ t \in Seq(S) /\ n \in Nat /\ Len(t) = n + 1 /\ t[n + 1] = x
      /\ \A i \in 1 .. n : t[i] = s[i]
  BY <1>1, AppendProperties, LenProperties
<1>3. /\ k \in 0 .. n
      /\ k # 0 => s[k].name = name
      /\ k = 0 => \A i \in 1 .. n : s[i].name # name
  BY <1>1, FirstNamedIn
<1>4. CASE k # 0
  <2>1. k \in 1 .. Len(t) /\ t[k].name = name
    BY <1>2, <1>3, <1>4
  <2>2. \A i \in 1 .. k - 1 : s[i].name # name
    <3>1. PICK I : I = Named(s, name)
      OBVIOUS
    <3>2. I = { i \in 1 .. n : s[i].name = name }
      BY <1>1, <3>1, Zenon DEF Named
    <3>3. I \subseteq Nat
      BY <1>2, <3>2
    <3>4. I # {} /\ k = Min(I)
      BY <1>1, <1>4, <3>1, Zenon DEF FirstNamed
    <3>5. \A i \in I : k <= i
      BY <3>3, <3>4, MinProperties
    <3> QED
      BY <1>2, <1>3, <3>2, <3>5
  <2>3. \A i \in 1 .. k - 1 : t[i].name # name
    BY <1>2, <1>3, <2>2
  <2>4. FirstNamed(t, name) = k
    BY <1>2, <2>1, <2>3, FirstNamedIs
  <2> QED
    BY <1>1, <1>4, <2>4, Zenon
<1>5. CASE k = 0 /\ x.name = name
  <2>1. n + 1 \in 1 .. Len(t) /\ t[n + 1].name = name
    BY <1>2, <1>5
  <2>2. \A i \in 1 .. (n + 1) - 1 : t[i].name # name
    BY <1>2, <1>3, <1>5
  <2>3. FirstNamed(t, name) = n + 1
    BY <1>2, <2>1, <2>2, FirstNamedIs
  <2> QED
    BY <1>1, <1>5, <2>3, Zenon
<1>6. CASE k = 0 /\ x.name # name
  <2>1. \A i \in 1 .. Len(t) : t[i].name # name
    BY <1>2, <1>3, <1>6
  <2>2. FirstNamed(t, name) = 0
    BY <1>2, <2>1, FirstNamedNone
  <2> QED
    BY <1>1, <1>6, <2>2, Zenon
<1> QED
  BY <1>4, <1>5, <1>6

\* The sections of a configuration are found by name alone.
LEMMA FirstNamedSame ==
    ASSUME NEW S, NEW s \in Seq(S), NEW t \in Seq(S), Len(s) = Len(t),
           \A i \in 1 .. Len(s) : s[i].name = t[i].name, NEW name
    PROVE  FirstNamed(s, name) = FirstNamed(t, name)
<1>1. Named(s, name) = Named(t, name)
  BY DEF Named
<1> QED
  BY <1>1, Zenon DEF FirstNamed

LEMMA NullIsNone == NULL \notin Strings
<1>1. ASSUME NULL \in Strings PROVE FALSE
  <2>1. PICK u : u = NULL
    OBVIOUS
  <2>2. Len(u) = 1 /\ u[1] = "NUL"
    BY <2>1 DEF NULL
  <2>3. u \in Seq(Chars \ {"NUL"})
    BY <1>1, <2>1, Zenon DEF Strings
  <2>4. 1 \in 1 .. Len(u)
    BY <2>2
  <2>5. u[1] \in Chars \ {"NUL"}
    BY <2>3, <2>4, ElementOfSeq
  <2> QED
    BY <2>2, <2>5
<1> QED
  BY <1>1

LEMMA FirstValueIs ==
    ASSUME NEW pairs \in Seq(Pairs), NEW key
    PROVE  /\ FirstValue(pairs, key) = IF FirstNamed(pairs, key) = 0 THEN NULL
                                       ELSE pairs[FirstNamed(pairs, key)].value
           /\ FirstNamed(pairs, key) # 0 =>
                 pairs[FirstNamed(pairs, key)].value \in Strings
<1>1. PICK i : i = SelectInSeq(pairs, LAMBDA p : p.name = key)
  OBVIOUS
<1>2. i = FirstNamed(pairs, key)
  BY <1>1, Zenon DEF SelectInSeq, FirstNamed, Named
<1>3. FirstValue(pairs, key) = IF i = 0 THEN NULL ELSE pairs[i].value
  BY <1>1, Zenon DEF FirstValue
<1>4. ASSUME i # 0 PROVE pairs[i].value \in Strings
  <2>1. i \in 0 .. Len(pairs) /\ Len(pairs) \in Nat
    BY <1>2, FirstNamedIn, LenProperties
  <2>2. i \in 1 .. Len(pairs)
    BY <1>4, <2>1
  <2>3. pairs[i] \in Pairs
    BY <2>2, ElementOfSeq
  <2> QED
    BY <2>3 DEF Pairs
<1> QED
  BY <1>2, <1>3, <1>4, Zenon

\* A pair added is what a key without a value gets.
LEMMA FirstValueAdded ==
    ASSUME NEW pairs \in Seq(Pairs), NEW pair \in Pairs, NEW key
    PROVE  FirstValue(add_keyval(pairs, pair), key) =
               IF FirstValue(pairs, key) = NULL /\ pair.name = key THEN pair.value
               ELSE FirstValue(pairs, key)
<1>1. PICK t, n, k : t = Append(pairs, pair) /\ n = Len(pairs) /\ k = FirstNamed(pairs, key)
  OBVIOUS
<1>2. /\ t \in Seq(Pairs) /\ n \in Nat /\ Len(t) = n + 1 /\ t[n + 1] = pair
      /\ \A i \in 1 .. n : t[i] = pairs[i]
  BY <1>1, AppendProperties, LenProperties
<1>3. k \in 0 .. n
  BY <1>1, FirstNamedIn
<1>4. PICK j : j = FirstNamed(t, key)
  OBVIOUS
<1>5. j = IF k # 0 THEN k ELSE IF pair.name = key THEN n + 1 ELSE 0
  BY <1>1, <1>4, FirstNamedAppend
<1>6. /\ FirstValue(t, key) = IF j = 0 THEN NULL ELSE t[j].value
      /\ FirstValue(pairs, key) = IF k = 0 THEN NULL ELSE pairs[k].value
      /\ k # 0 => pairs[k].value # NULL
  BY <1>1, <1>2, <1>4, FirstValueIs, NullIsNone
<1>7. CASE k # 0
  <2>1. j = k /\ k \in 1 .. n /\ t[k] = pairs[k]
    BY <1>2, <1>3, <1>5, <1>7
  <2> QED
    BY <1>1, <1>6, <1>7, <2>1, Zenon DEF add_keyval
<1>8. CASE k = 0 /\ pair.name = key
  <2>1. j = n + 1 /\ n + 1 # 0
    BY <1>2, <1>5, <1>8
  <2> QED
    BY <1>1, <1>2, <1>6, <1>8, <2>1, Zenon DEF add_keyval
<1>9. CASE k = 0 /\ pair.name # key
  <2>1. j = 0
    BY <1>5, <1>9
  <2> QED
    BY <1>1, <1>6, <1>9, <2>1, Zenon DEF add_keyval
<1> QED
  BY <1>7, <1>8, <1>9

LEMMA GetIs ==
    ASSUME NEW c, NEW section, NEW key, NEW g, NEW ss, NEW i,
           c.globals = g, c.sections = ss, FirstNamed(ss, section) = i
    PROVE  /\ section = << >> => ini_get_value(c, section, key) = FirstValue(g, key)
           /\ section # << >> /\ i = 0 => ini_get_value(c, section, key) = NULL
           /\ section # << >> /\ i # 0 =>
                 ini_get_value(c, section, key) = FirstValue(ss[i].keyvals, key)
BY FindIs, Zenon DEF ini_get_value

LEMMA SameGlobals ==
    ASSUME NEW c, NEW d, c.globals = d.globals, NEW section, section = << >>, NEW key
    PROVE  ini_get_value(c, section, key) = ini_get_value(d, section, key)
BY Zenon DEF ini_get_value

LEMMA EmptyValue == \A key : FirstValue(<< >>, key) = NULL
<1> TAKE key
<1>1. << >> \in Seq(Pairs) /\ Len(<< >>) = 0
  BY EmptySeq
<1>2. \A i \in 1 .. Len(<< >>) : << >>[i].name # key
  BY <1>1
<1>3. FirstNamed(<< >>, key) = 0
  BY <1>1, <1>2, FirstNamedNone
<1> QED
  BY <1>1, <1>3, FirstValueIs

\* A section created has no values.
LEMMA GetCreated ==
    ASSUME NEW c \in Configs, NEW name \in Strings, NEW held,
           held = find_or_create_section(c, name)
    PROVE  /\ held \in Configs /\ held.globals = c.globals
           /\ FirstNamed(held.sections, name) \in 1 .. Len(held.sections)
           /\ \A section, key :
                 ini_get_value(held, section, key) = ini_get_value(c, section, key)
<1> DEFINE fresh == [name |-> name, keyvals |-> << >>]
<1>1. c.sections \in Seq(Sections) /\ fresh \in Sections
  BY DEF Configs, Sections
<1>2. PICK n, k : n = Len(c.sections) /\ k = FirstNamed(c.sections, name)
  OBVIOUS
<1>3. n \in Nat /\ k \in 0 .. n
  BY <1>1, <1>2, LenProperties, FirstNamedIn
<1>4. held \in Configs
  BY SectionCreated
<1>5. CASE k # 0
  <2>1. held = c
    BY <1>2, <1>5, FindIs, Zenon DEF find_or_create_section
  <2>2. k \in 1 .. n
    BY <1>3, <1>5
  <2> QED
    BY <1>2, <1>4, <2>1, <2>2
<1>6. CASE k = 0
  <2>1. PICK t : t = Append(c.sections, fresh)
    OBVIOUS
  <2>2. held = [c EXCEPT !.sections = Append(@, fresh)]
    BY <1>2, <1>6, FindIs, Zenon DEF find_or_create_section
  <2>3. held.globals = c.globals /\ held.sections = t
    BY <2>1, <2>2 DEF Configs
  <2> HIDE DEF fresh
  <2>4. t \in Seq(Sections) /\ Len(t) = n + 1 /\ t[n + 1] = fresh /\ \A i \in 1 .. n : t[i] = c.sections[i]
    BY <1>1, <1>2, <2>1, AppendProperties
  <2>5. fresh.name = name /\ fresh.keyvals = << >>
    BY DEF fresh
  <2>6. ASSUME NEW section
        PROVE  FirstNamed(t, section) =
                   IF FirstNamed(c.sections, section) # 0 THEN FirstNamed(c.sections, section)
                   ELSE IF name = section THEN n + 1 ELSE 0
    BY <1>1, <1>2, <2>1, <2>5, FirstNamedAppend
  <2>7. FirstNamed(t, name) = n + 1
    BY <1>2, <1>6, <2>6
  <2>8. ASSUME NEW section, NEW key
        PROVE  ini_get_value(held, section, key) = ini_get_value(c, section, key)
    <3>1. PICK i, j, g, ss : /\ i = FirstNamed(ss, section) /\ j = FirstNamed(t, section)
                           /\ ss = c.sections /\ g = c.globals
      OBVIOUS
    <3>8. /\ held.globals = g /\ held.sections = t /\ FirstNamed(t, section) = j
          /\ c.globals = g /\ c.sections = ss /\ FirstNamed(ss, section) = i
      BY <2>3, <3>1
    <3>2. j = IF i # 0 THEN i ELSE IF name = section THEN n + 1 ELSE 0
      BY <2>3, <2>6, <3>1
    <3>3. i \in 0 .. n
      BY <1>1, <1>2, <3>1, FirstNamedIn
    <3>4. CASE section = << >>
      BY <2>3, <3>4, SameGlobals
    <3>5. CASE section # << >> /\ i # 0
      <4>1. j = i /\ j # 0 /\ t[j] = ss[i]
        <5>1. i \in 1 .. n
          BY <3>3, <3>5
        <5> QED
          BY <2>4, <3>1, <3>2, <3>5, <5>1
      <4>2. /\ ini_get_value(held, section, key) = FirstValue(t[j].keyvals, key)
            /\ ini_get_value(c, section, key) = FirstValue(ss[i].keyvals, key)
        BY <3>5, <3>8, <4>1, GetIs
      <4> QED
        BY <4>1, <4>2, Zenon
    <3>6. CASE section # << >> /\ i = 0 /\ name = section
      <4>1. j = n + 1 /\ n + 1 # 0
        BY <1>3, <3>2, <3>6
      <4>2. ini_get_value(held, section, key) = FirstValue(t[j].keyvals, key)
        BY <3>6, <3>8, <4>1, GetIs
      <4>3. t[j].keyvals = << >>
        BY <2>4, <2>5, <4>1, Zenon
      <4>4. ini_get_value(c, section, key) = NULL
        BY <3>6, <3>8, GetIs
      <4> QED
        BY <4>2, <4>3, <4>4, EmptyValue, Zenon
    <3>7. CASE section # << >> /\ i = 0 /\ name # section
      <4>1. j = 0
        BY <3>2, <3>7
      <4> QED
        BY <3>7, <3>8, <4>1, GetIs
    <3> QED
      BY <3>4, <3>5, <3>6, <3>7
  <2>9. FirstNamed(held.sections, name) \in 1 .. Len(held.sections)
    <3>1. n + 1 \in 1 .. n + 1
      BY <1>3
    <3> QED
      BY <2>3, <2>4, <2>7, <3>1, Zenon
  <2> QED
    BY <1>4, <2>3, <2>8, <2>9
<1> QED
  BY <1>5, <1>6

\* What a lookup finds once a pair is assigned: the same as before, or the
\* pair's value where there was none.
LEMMA GetAssigned ==
    ASSUME NEW c \in Configs, NEW at \in Strings, NEW name \in Strings,
           NEW value \in Strings, name # << >>, NEW section, NEW key, NEW d,
           d = assign_keyval(c, at, name, value)
    PROVE  ini_get_value(d, section, key) =
               IF ini_get_value(c, section, key) = NULL /\ at = section /\ name = key
               THEN value ELSE ini_get_value(c, section, key)
<1>1. PICK pair : pair = [name |-> name, value |-> value]
  OBVIOUS
<1>2. pair \in Pairs /\ pair.name = name /\ pair.value = value
  BY <1>1 DEF Pairs
<1>3. CASE at = << >>
  <2>1. d = [c EXCEPT !.globals = add_keyval(@, pair)]
    BY <1>1, <1>3, Zenon DEF assign_keyval
  <2>2. d.globals = add_keyval(c.globals, pair) /\ d.sections = c.sections /\ c.globals \in Seq(Pairs)
    BY <2>1 DEF Configs
  <2>3. CASE section = << >>
    <3>1. FirstValue(d.globals, key) = IF FirstValue(c.globals, key) = NULL /\ name = key
                                      THEN value ELSE FirstValue(c.globals, key)
      BY <1>2, <2>2, FirstValueAdded
    <3>2. /\ ini_get_value(d, section, key) = FirstValue(d.globals, key)
          /\ ini_get_value(c, section, key) = FirstValue(c.globals, key)
      BY <2>3, GetIs
    <3> QED
      BY <1>3, <2>3, <3>1, <3>2
  <2>4. CASE section # << >>
    <3>1. PICK ss, i : ss = c.sections /\ i = FirstNamed(ss, section)
      OBVIOUS
    <3>2. d.sections = ss
      BY <2>2, <3>1
    <3>3. ini_get_value(d, section, key) = ini_get_value(c, section, key)
      BY <2>4, <3>1, <3>2, GetIs
    <3> QED
      BY <1>3, <2>4, <3>3
  <2> QED
    BY <2>3, <2>4
<1>4. CASE at # << >>
  <2>1. PICK held : held = find_or_create_section(c, at)
    OBVIOUS
  <2>2. PICK k : k = FirstNamed(held.sections, at)
    OBVIOUS
  <2>3. /\ held \in Configs /\ held.globals = c.globals
        /\ k \in 1 .. Len(held.sections)
        /\ ini_get_value(held, section, key) = ini_get_value(c, section, key)
    <3>1. held \in Configs /\ held.globals = c.globals
      BY <2>1, GetCreated
    <3>2. FirstNamed(held.sections, at) \in 1 .. Len(held.sections)
      BY <2>1, GetCreated
    <3>3. ini_get_value(held, section, key) = ini_get_value(c, section, key)
      BY <2>1, GetCreated
    <3>4. k \in 1 .. Len(held.sections)
      BY <2>2, <3>2, Zenon
    <3> QED
      BY <3>1, <3>3, <3>4, Zenon
  <2>4. d = [held EXCEPT !.sections[k].keyvals = add_keyval(@, pair)]
    BY <1>1, <1>4, <2>1, <2>2, FindIs, Zenon DEF assign_keyval
  <2>5. PICK old : old = held.sections
    OBVIOUS
  <2>6. PICK new : new = [old EXCEPT ![k].keyvals = add_keyval(@, pair)]
    OBVIOUS
  <2>7. d.globals = c.globals /\ d.sections = new
    BY <2>3, <2>4, <2>5, <2>6 DEF Configs
  <2>8. old \in Seq(Sections) /\ k \in 1 .. Len(old) /\ k = FirstNamed(old, at)
    BY <2>2, <2>3, <2>5 DEF Configs
  <2>9. Len(old) \in Nat /\ old[k] \in Sections
    BY <2>8, LenProperties, ElementOfSeq
  <2>10. d \in Configs
    BY PairAssigned
  <2>11. new \in Seq(Sections)
    BY <2>7, <2>10 DEF Configs
  <2>12. /\ Len(new) = Len(old)
         /\ \A i \in 1 .. Len(old) : i # k => new[i] = old[i]
         /\ new[k].name = old[k].name
         /\ new[k].keyvals = add_keyval(old[k].keyvals, pair)
    BY <2>6, <2>8, <2>9 DEF Sections
  <2>13. old[k].name = at
    <3>1. k # 0
      BY <2>8, <2>9
    <3> QED
      BY <2>8, <3>1, FirstNamedIn
  <2>14. \A i \in 1 .. Len(old) : old[i].name = new[i].name
    BY <2>12
  <2>15. FirstNamed(new, section) = FirstNamed(old, section)
    BY <2>8, <2>11, <2>12, <2>14, FirstNamedSame
  <2>16. PICK i : i = FirstNamed(old, section)
    OBVIOUS
  <2>17. i \in 0 .. Len(old) /\ (i # 0 => old[i].name = section)
    BY <2>8, <2>16, FirstNamedIn
  <2>18. ini_get_value(d, section, key) =
             IF ini_get_value(held, section, key) = NULL /\ at = section /\ name = key
             THEN value ELSE ini_get_value(held, section, key)
    <3>1. CASE section = << >>
      <4>1. ini_get_value(d, section, key) = ini_get_value(held, section, key)
        BY <2>3, <2>7, <3>1, SameGlobals
      <4> QED
        BY <1>4, <3>1, <4>1
    <3>2. CASE section # << >> /\ section = at
      <4>1. i = k /\ i # 0
        BY <2>8, <2>9, <2>16, <3>2
      <4>2. /\ ini_get_value(d, section, key) = FirstValue(new[k].keyvals, key)
            /\ ini_get_value(held, section, key) = FirstValue(old[k].keyvals, key)
        <5>1. held.sections = old /\ d.sections = new
          BY <2>5, <2>7
        <5>2. FirstNamed(old, section) = i /\ FirstNamed(new, section) = i
          BY <2>15, <2>16
        <5>3. /\ ini_get_value(d, section, key) = FirstValue(new[i].keyvals, key)
              /\ ini_get_value(held, section, key) = FirstValue(old[i].keyvals, key)
          BY <3>2, <4>1, <5>1, <5>2, GetIs
        <5> QED
          BY <4>1, <5>3, Zenon
      <4>3. old[k].keyvals \in Seq(Pairs)
        BY <2>9 DEF Sections
      <4>4. FirstValue(new[k].keyvals, key) =
                IF FirstValue(old[k].keyvals, key) = NULL /\ name = key THEN value
                ELSE FirstValue(old[k].keyvals, key)
        BY <1>2, <2>12, <4>3, FirstValueAdded
      <4> QED
        BY <3>2, <4>2, <4>4
    <3>3. CASE section # << >> /\ section # at
      <4>1. ini_get_value(d, section, key) = ini_get_value(held, section, key)
        <5>3. held.sections = old /\ d.sections = new
          BY <2>5, <2>7
        <5>4. FirstNamed(old, section) = i /\ FirstNamed(new, section) = i
          BY <2>15, <2>16
        <5>1. CASE i = 0
          BY <3>3, <5>1, <5>3, <5>4, GetIs
        <5>2. CASE i # 0
          <6>1. i \in 1 .. Len(old) /\ i # k
            BY <2>9, <2>13, <2>17, <3>3, <5>2
          <6>2. new[i] = old[i]
            BY <2>12, <6>1
          <6> QED
            BY <3>3, <5>2, <5>3, <5>4, <6>2, GetIs
        <5> QED
          BY <5>1, <5>2
      <4> QED
        BY <3>3, <4>1
    <3> QED
      BY <3>1, <3>2, <3>3
  <2> QED
    BY <2>3, <2>18
<1> QED
  BY <1>3, <1>4

-----------------------------------------------------------------------------
(* What the first lines of a file say                                        *)

LEMMA LineKinds ==
    ASSUME NEW line \in Lines
    PROVE  /\ line.kind \in {"section", "pair", "comment", "blank"}
           /\ line.kind \in {"section", "pair", "comment"} => line.name \in Strings
           /\ line.kind = "pair" => line.value \in Strings
<1> HIDE DEF Strings
<1>1. CASE line \in [kind : {"section", "comment"}, name : Strings]
  BY <1>1
<1>2. CASE line \in [kind : {"pair"}, name : Strings, value : Strings]
  BY <1>2
<1>3. CASE line \in [kind : {"blank"}]
  BY <1>3
<1> QED
  BY <1>1, <1>2, <1>3 DEF Lines

SectionLines(doc, k) == { i \in 1 .. k : doc[i].kind = "section" }

LEMMA SectionAtIs ==
    ASSUME NEW doc, NEW k
    PROVE  SectionAt(doc, k) =
               IF SectionLines(doc, k) = {} THEN << >>
               ELSE IF Max(SectionLines(doc, k)) = 0 THEN << >>
               ELSE doc[Max(SectionLines(doc, k))].name
<1>1. SelectLastInSubSeq(doc, 1, k, LAMBDA line : line.kind = "section")
          = IF SectionLines(doc, k) # {} THEN Max(SectionLines(doc, k)) ELSE 0
  BY Zenon DEF SelectLastInSubSeq, SectionLines
<1> QED
  BY <1>1, Zenon DEF SectionAt

LEMMA SectionAtStart == \A doc : SectionAt(doc, 0) = << >>
<1> TAKE doc
<1>1. SectionLines(doc, 0) = {}
  BY DEF SectionLines
<1> QED
  BY <1>1, SectionAtIs, Zenon

LEMMA SectionAtNext ==
    ASSUME NEW doc, NEW k \in Nat
    PROVE  SectionAt(doc, k + 1) = IF doc[k + 1].kind = "section" THEN doc[k + 1].name
                                   ELSE SectionAt(doc, k)
<1>1. PICK n : n = k + 1
  OBVIOUS
<1>2. PICK I, J : I = SectionLines(doc, k) /\ J = SectionLines(doc, n)
  OBVIOUS
<1>3. /\ I = { i \in 1 .. k : doc[i].kind = "section" }
      /\ J = { i \in 1 .. n : doc[i].kind = "section" }
  BY <1>2, Zenon DEF SectionLines
<1>4. CASE doc[n].kind = "section"
  <2>1. n \in J /\ \A y \in J : y \in Nat /\ n >= y
    BY <1>1, <1>3, <1>4
  <2>2. Max(J) \in J /\ \A y \in J : Max(J) >= y
    BY <2>1, Zenon DEF Max
  <2>3. PICK m : m = Max(J)
    OBVIOUS
  <2>4. m = n /\ n # 0
    <3>1. m \in Nat /\ n \in Nat /\ m >= n /\ n >= m
      BY <1>1, <2>1, <2>2, <2>3
    <3> QED
      BY <1>1, <3>1
  <2>5. J # {}
    BY <2>1
  <2> QED
    BY <1>1, <1>2, <1>4, <2>3, <2>4, <2>5, SectionAtIs, Zenon
<1>5. CASE doc[n].kind # "section"
  <2>1. \A i : i \in I <=> i \in J
    <3>1. \A i : i \in 1 .. n <=> i \in 1 .. k \/ i = n
      BY <1>1
    <3> QED
      BY <1>3, <1>5, <3>1
  <2>2. I = J
    BY <2>1
  <2>3. SectionAt(doc, n) = SectionAt(doc, k)
    BY <1>2, <2>2, SectionAtIs, Zenon
  <2> QED
    BY <1>1, <1>5, <2>3, Zenon
<1> QED
  BY <1>4, <1>5

\* The lines among the first k that give a key its value, and that value.
Givers(doc, k, section, key) ==
    { i \in 1 .. k : /\ doc[i].kind = "pair" /\ doc[i].name = key
                     /\ SectionAt(doc, i) = section }
FirstOf(S) == CHOOSE i \in S : \A j \in S : i <= j
Told(doc, k, section, key) ==
    IF Givers(doc, k, section, key) = {} THEN NULL
    ELSE doc[FirstOf(Givers(doc, k, section, key))].value

LEMMA MeaningIsTold ==
    ASSUME NEW doc, NEW section, NEW key
    PROVE  Meaning(doc, section, key) = Told(doc, Len(doc), section, key)
BY Zenon DEF Meaning, Told, Givers, FirstOf

LEMMA ToldAtStart == \A doc, section, key : Told(doc, 0, section, key) = NULL
<1> TAKE doc, section, key
<1>1. Givers(doc, 0, section, key) = {}
  BY DEF Givers
<1> QED
  BY <1>1, Zenon DEF Told

LEMMA FirstOfIs ==
    ASSUME NEW S, S \subseteq Nat, S # {}
    PROVE  FirstOf(S) \in S /\ \A n \in S : FirstOf(S) <= n
<1>1. \E i \in S : \A j \in S : i <= j
  BY MinProperties
<1> QED
  BY <1>1, Zenon DEF FirstOf

\* A line says something new only of the key it gives, if nothing was said yet.
LEMMA ToldNext ==
    ASSUME NEW doc \in Seq(Lines), NEW k \in 0 .. Len(doc) - 1, NEW section, NEW key
    PROVE  /\ doc[k + 1].kind = "pair" =>
                  Told(doc, k + 1, section, key) =
                      IF /\ Told(doc, k, section, key) = NULL
                         /\ SectionAt(doc, k + 1) = section /\ doc[k + 1].name = key
                      THEN doc[k + 1].value ELSE Told(doc, k, section, key)
           /\ doc[k + 1].kind # "pair" =>
                  Told(doc, k + 1, section, key) = Told(doc, k, section, key)
<1>1. PICK n : n = k + 1
  OBVIOUS
<1>2. k \in Nat /\ n \in 1 .. Len(doc) /\ Len(doc) \in Nat /\ k < n
  BY <1>1, LenProperties
<1>3. PICK I, J : I = Givers(doc, k, section, key) /\ J = Givers(doc, n, section, key)
  OBVIOUS
<1> DEFINE Gives(i) == /\ doc[i].kind = "pair" /\ doc[i].name = key
                       /\ SectionAt(doc, i) = section
<1>4. I = { i \in 1 .. k : Gives(i) } /\ J = { i \in 1 .. n : Gives(i) }
  BY <1>3, Zenon DEF Givers
<1> HIDE DEF Gives
<1>5. I \subseteq Nat /\ J \subseteq Nat /\ I \subseteq 1 .. k
      /\ \A i : i \in J <=> i \in I \/ (i = n /\ Gives(n))
  BY <1>1, <1>2, <1>4
<1>6. /\ Told(doc, k, section, key) = IF I = {} THEN NULL ELSE doc[FirstOf(I)].value
      /\ Told(doc, n, section, key) = IF J = {} THEN NULL ELSE doc[FirstOf(J)].value
  BY <1>3, Zenon DEF Told
<1>7. CASE ~Gives(n)
  <2>1. I = J
    BY <1>5, <1>7
  <2>2. Told(doc, n, section, key) = Told(doc, k, section, key)
    BY <1>6, <2>1
  <2> QED
    BY <1>1, <1>7, <2>2, Zenon DEF Gives
<1>8. CASE Gives(n) /\ I = {}
  <2>1. J = {n}
    BY <1>5, <1>8
  <2>2. FirstOf(J) = n
    BY <1>5, <2>1, FirstOfIs
  <2>3. Told(doc, n, section, key) = doc[n].value
    BY <1>6, <2>1, <2>2
  <2>4. Told(doc, k, section, key) = NULL
    BY <1>6, <1>8
  <2> QED
    BY <1>1, <1>8, <2>3, <2>4, Zenon DEF Gives
<1>9. CASE Gives(n) /\ I # {}
  <2>1. PICK a, b : a = FirstOf(I) /\ b = FirstOf(J)
    OBVIOUS
  <2>2. a \in I /\ \A i \in I : a <= i
    BY <1>5, <1>9, <2>1, FirstOfIs
  <2>3. b \in J /\ \A i \in J : b <= i
    BY <1>5, <1>9, <2>1, FirstOfIs
  <2>4. a = b
    BY <1>2, <1>5, <2>2, <2>3
  <2>5. Told(doc, n, section, key) = doc[a].value /\ Told(doc, k, section, key) = doc[a].value
    <3>1. J # {}
      BY <2>3
    <3> QED
      BY <1>6, <1>9, <2>1, <2>4, <3>1
  <2>6. doc[a].value # NULL
    <3>1. a \in 1 .. k /\ Gives(a)
      BY <1>4, <2>2
    <3>2. doc[a] \in Lines /\ doc[a].kind = "pair"
      <4>1. a \in 1 .. Len(doc)
        BY <1>2, <3>1
      <4> QED
        BY <3>1, <4>1, ElementOfSeq DEF Gives
    <3> QED
      BY <3>2, LineKinds, NullIsNone
  <2>7. doc[n].kind = "pair"
    BY <1>9 DEF Gives
  <2> QED
    BY <1>1, <2>5, <2>6, <2>7, Zenon
<1> QED
  BY <1>7, <1>8, <1>9

-----------------------------------------------------------------------------
(* How the lines of a file lie in its text                                   *)

LEMMA WrittenIs ==
    ASSUME NEW line \in Lines
    PROVE  /\ line.kind = "section" =>
                  Written(line) = << "[" >> \o line.name \o << "]", "LF" >>
           /\ line.kind = "pair" =>
                  Written(line) = line.name \o << " ", "=", " " >> \o line.value \o << "LF" >>
           /\ line.kind = "comment" => Written(line) = << "#" >> \o line.name \o << "LF" >>
           /\ line.kind = "blank" => Written(line) = << "LF" >>
BY DEF Written

\* t lies behind u in w.
Behind(w, u, t, m, n) ==
    /\ Len(w) = m + n
    /\ \A j \in 1 .. m : w[j] = u[j]
    /\ \A j \in 1 .. n : w[m + j] = t[j]

LEMMA PutBehind ==
    ASSUME NEW C, NEW u \in Seq(C), NEW t \in Seq(C), NEW w, w = u \o t,
           NEW m, m = Len(u), NEW n, n = Len(t)
    PROVE  w \in Seq(C) /\ Behind(w, u, t, m, n) /\ m \in Nat /\ n \in Nat
<1>1. /\ w \in Seq(C) /\ Len(w) = Len(u) + Len(t)
      /\ \A j \in 1 .. Len(u) : w[j] = u[j]
      /\ \A j \in 1 .. Len(t) : w[Len(u) + j] = t[j]
  OBVIOUS
<1> QED
  BY <1>1, LenProperties DEF Behind

\* The characters of each kind of line.
SectionText(w, name, n) ==
    /\ w \in Seq(Chars) /\ n \in Nat /\ Len(w) = n + 3
    /\ w[1] = "[" /\ w[n + 2] = "]" /\ w[n + 3] = "LF"
    /\ \A j \in 1 .. n : w[1 + j] = name[j]

CommentWords(w, name, n) ==
    /\ w \in Seq(Chars) /\ n \in Nat /\ Len(w) = n + 2
    /\ w[1] = "#" /\ w[n + 2] = "LF"
    /\ \A j \in 1 .. n : w[1 + j] = name[j]

PairText(w, name, value, n, v) ==
    /\ w \in Seq(Chars) /\ n \in Nat /\ v \in Nat /\ Len(w) = n + v + 4
    /\ w[n + 1] = " " /\ w[n + 2] = "=" /\ w[n + 3] = " " /\ w[n + v + 4] = "LF"
    /\ \A j \in 1 .. n : w[j] = name[j]
    /\ \A j \in 1 .. v : w[n + 3 + j] = value[j]

LEMMA NameType ==
    ASSUME NEW name \in Strings
    PROVE  name \in Seq(Chars) /\ Len(name) \in Nat
BY DEF Strings

LEMMA SectionWritten ==
    ASSUME NEW line \in Lines, line.kind = "section", NEW name, name = line.name,
           NEW n, n = Len(name)
    PROVE  SectionText(Written(line), name, n)
<1>1. name \in Seq(Chars) /\ n \in Nat
  BY LineKinds, NameType
<1>2. PICK u, t : u = << "[" >> /\ t = << "]", "LF" >>
  OBVIOUS
<1>3. /\ u \in Seq(Chars) /\ t \in Seq(Chars) /\ Len(u) = 1 /\ Len(t) = 2
      /\ u[1] = "[" /\ t[1] = "]" /\ t[2] = "LF"
  BY <1>2 DEF Chars, Special
<1> HIDE DEF Chars
<1>4. PICK v, w : v = u \o name /\ w = v \o t
  OBVIOUS
<1>5. v \in Seq(Chars) /\ Behind(v, u, name, 1, n)
  BY <1>1, <1>3, <1>4, PutBehind
<1>6. Len(v) = 1 + n
  BY <1>5 DEF Behind
<1>7. w \in Seq(Chars) /\ Behind(w, v, t, 1 + n, 2)
  BY <1>3, <1>4, <1>5, <1>6, PutBehind
<1>8. /\ 1 \in 1 .. 1 /\ 1 \in 1 .. 1 + n /\ 1 \in 1 .. 2 /\ 2 \in 1 .. 2
      /\ (1 + n) + 1 = n + 2 /\ (1 + n) + 2 = n + 3
      /\ \A j \in 1 .. n : 1 + j \in 1 .. 1 + n
  BY <1>1
<1>9. w[1] = "[" /\ w[n + 2] = "]" /\ w[n + 3] = "LF"
  BY <1>3, <1>5, <1>7, <1>8, Zenon DEF Behind
<1>10. \A j \in 1 .. n : w[1 + j] = name[j]
  BY <1>5, <1>7, <1>8, Zenon DEF Behind
<1>11. Len(w) = n + 3
  BY <1>7, <1>8, Zenon DEF Behind
<1>12. Written(line) = w
  BY <1>2, <1>4, WrittenIs, Zenon
<1> QED
  BY <1>1, <1>7, <1>9, <1>10, <1>11, <1>12, Zenon DEF SectionText

LEMMA CommentWritten ==
    ASSUME NEW line \in Lines, line.kind = "comment", NEW name, name = line.name,
           NEW n, n = Len(name)
    PROVE  CommentWords(Written(line), name, n)
<1>1. name \in Seq(Chars) /\ n \in Nat
  BY LineKinds, NameType
<1>2. PICK u, t : u = << "#" >> /\ t = << "LF" >>
  OBVIOUS
<1>3. /\ u \in Seq(Chars) /\ t \in Seq(Chars) /\ Len(u) = 1 /\ Len(t) = 1
      /\ u[1] = "#" /\ t[1] = "LF"
  BY <1>2 DEF Chars, Special
<1> HIDE DEF Chars
<1>4. PICK v, w : v = u \o name /\ w = v \o t
  OBVIOUS
<1>5. v \in Seq(Chars) /\ Behind(v, u, name, 1, n)
  BY <1>1, <1>3, <1>4, PutBehind
<1>6. Len(v) = 1 + n
  BY <1>5 DEF Behind
<1>7. w \in Seq(Chars) /\ Behind(w, v, t, 1 + n, 1)
  BY <1>3, <1>4, <1>5, <1>6, PutBehind
<1>8. /\ 1 \in 1 .. 1 /\ 1 \in 1 .. 1 + n /\ (1 + n) + 1 = n + 2
      /\ \A j \in 1 .. n : 1 + j \in 1 .. 1 + n
  BY <1>1
<1>9. w[1] = "#" /\ w[n + 2] = "LF"
  BY <1>3, <1>5, <1>7, <1>8, Zenon DEF Behind
<1>10. \A j \in 1 .. n : w[1 + j] = name[j]
  BY <1>5, <1>7, <1>8, Zenon DEF Behind
<1>11. Len(w) = n + 2
  BY <1>7, <1>8, Zenon DEF Behind
<1>12. Written(line) = w
  BY <1>2, <1>4, WrittenIs, Zenon
<1> QED
  BY <1>1, <1>7, <1>9, <1>10, <1>11, <1>12, Zenon DEF CommentWords

LEMMA One ==
    ASSUME NEW a \in Chars
    PROVE  << a >> \in Seq(Chars) /\ Len(<< a >>) = 1 /\ << a >>[1] = a
OBVIOUS

LEMMA Three ==
    ASSUME NEW a \in Chars, NEW b \in Chars, NEW c \in Chars
    PROVE  /\ << a, b, c >> \in Seq(Chars) /\ Len(<< a, b, c >>) = 3
           /\ << a, b, c >>[1] = a /\ << a, b, c >>[2] = b /\ << a, b, c >>[3] = c
OBVIOUS

LEMMA SomeChars == " " \in Chars /\ "=" \in Chars /\ "LF" \in Chars
BY DEF Chars, Special

LEMMA SignIs ==
    \A u, t : u = << " ", "=", " " >> /\ t = << "LF" >> =>
        /\ u \in Seq(Chars) /\ t \in Seq(Chars) /\ Len(u) = 3 /\ Len(t) = 1
        /\ u[1] = " " /\ u[2] = "=" /\ u[3] = " " /\ t[1] = "LF"
<1> SUFFICES ASSUME NEW u, NEW t, u = << " ", "=", " " >>, t = << "LF" >>
             PROVE  /\ u \in Seq(Chars) /\ t \in Seq(Chars) /\ Len(u) = 3 /\ Len(t) = 1
                    /\ u[1] = " " /\ u[2] = "=" /\ u[3] = " " /\ t[1] = "LF"
  OBVIOUS
<1>1. PICK a, b, c : a = " " /\ b = "=" /\ c = "LF"
  OBVIOUS
<1>2. a \in Chars /\ b \in Chars /\ c \in Chars /\ u = << a, b, a >> /\ t = << c >>
  BY <1>1, SomeChars, Zenon
<1>3. /\ << a, b, a >> \in Seq(Chars) /\ Len(<< a, b, a >>) = 3
      /\ << a, b, a >>[1] = a /\ << a, b, a >>[2] = b /\ << a, b, a >>[3] = a
  BY <1>2, Three
<1>4. << c >> \in Seq(Chars) /\ Len(<< c >>) = 1 /\ << c >>[1] = c
  BY <1>2, One
<1> QED
  BY <1>1, <1>2, <1>3, <1>4, Zenon

LEMMA PairSums ==
    \A n, v \in Nat :
        /\ 1 \in 1 .. 3 /\ 2 \in 1 .. 3 /\ 3 \in 1 .. 3 /\ 1 \in 1 .. 1
        /\ n + 1 \in 1 .. n + 3 /\ n + 2 \in 1 .. n + 3 /\ n + 3 \in 1 .. n + 3
        /\ ((n + 3) + v) + 1 = n + v + 4
        /\ \A j \in 1 .. n : j \in 1 .. n + 3
        /\ \A j \in 1 .. n + 3 : j \in 1 .. (n + 3) + v
        /\ \A j \in 1 .. v : (n + 3) + j \in 1 .. (n + 3) + v
OBVIOUS

LEMMA PairWritten ==
    ASSUME NEW line \in Lines, line.kind = "pair", NEW name, name = line.name,
           NEW n, n = Len(name), NEW value, value = line.value, NEW v, v = Len(value)
    PROVE  PairText(Written(line), name, value, n, v)
<1>1. name \in Seq(Chars) /\ n \in Nat /\ value \in Seq(Chars) /\ v \in Nat
  BY LineKinds, NameType
<1>2. PICK u, t : u = << " ", "=", " " >> /\ t = << "LF" >>
  OBVIOUS
<1>3. /\ u \in Seq(Chars) /\ t \in Seq(Chars) /\ Len(u) = 3 /\ Len(t) = 1
      /\ u[1] = " " /\ u[2] = "=" /\ u[3] = " " /\ t[1] = "LF"
  BY <1>2, SignIs, Zenon
<1> HIDE DEF Chars
<1>4. PICK x, y, w : x = name \o u /\ y = x \o value /\ w = y \o t
  OBVIOUS
<1>5. x \in Seq(Chars) /\ Behind(x, name, u, n, 3)
  BY <1>1, <1>3, <1>4, PutBehind
<1>6. Len(x) = n + 3
  BY <1>5 DEF Behind
<1>7. y \in Seq(Chars) /\ Behind(y, x, value, n + 3, v)
  BY <1>1, <1>4, <1>5, <1>6, PutBehind
<1>8. Len(y) = (n + 3) + v
  BY <1>7 DEF Behind
<1>9. w \in Seq(Chars) /\ Behind(w, y, t, (n + 3) + v, 1)
  BY <1>3, <1>4, <1>7, <1>8, PutBehind
<1>10. /\ 1 \in 1 .. 3 /\ 2 \in 1 .. 3 /\ 3 \in 1 .. 3 /\ 1 \in 1 .. 1
       /\ n + 1 \in 1 .. n + 3 /\ n + 2 \in 1 .. n + 3 /\ n + 3 \in 1 .. n + 3
       /\ ((n + 3) + v) + 1 = n + v + 4
       /\ \A j \in 1 .. n : j \in 1 .. n + 3
       /\ \A j \in 1 .. n + 3 : j \in 1 .. (n + 3) + v
       /\ \A j \in 1 .. v : (n + 3) + j \in 1 .. (n + 3) + v
  BY <1>1, PairSums, Zenon
<1>11. \A j \in 1 .. (n + 3) + v : w[j] = y[j]
  BY <1>9, Zenon DEF Behind
<1>12. \A j \in 1 .. n + 3 : w[j] = x[j]
  <2>1. \A j \in 1 .. n + 3 : y[j] = x[j]
    BY <1>7, Zenon DEF Behind
  <2> QED
    BY <1>10, <1>11, <2>1, Zenon
<1>13. w[n + 1] = " " /\ w[n + 2] = "=" /\ w[n + 3] = " "
  <2>1. x[n + 1] = u[1] /\ x[n + 2] = u[2] /\ x[n + 3] = u[3]
    BY <1>5, <1>10, Zenon DEF Behind
  <2>2. w[n + 1] = x[n + 1] /\ w[n + 2] = x[n + 2] /\ w[n + 3] = x[n + 3]
    BY <1>10, <1>12, Zenon
  <2> QED
    BY <1>3, <2>1, <2>2, Zenon
<1>14. w[n + v + 4] = "LF" /\ Len(w) = n + v + 4
  <2>1. w[((n + 3) + v) + 1] = t[1] /\ Len(w) = ((n + 3) + v) + 1
    BY <1>9, <1>10, Zenon DEF Behind
  <2> QED
    BY <1>3, <1>10, <2>1, Zenon
<1>15. \A j \in 1 .. n : w[j] = name[j]
  <2>1. \A j \in 1 .. n : x[j] = name[j]
    BY <1>5, Zenon DEF Behind
  <2> QED
    BY <1>10, <1>12, <2>1, Zenon
<1>16. \A j \in 1 .. v : w[n + 3 + j] = value[j]
  <2>1. \A j \in 1 .. v : y[(n + 3) + j] = value[j]
    BY <1>7, Zenon DEF Behind
  <2> QED
    BY <1>10, <1>11, <2>1, Zenon
<1>17. Written(line) = w
  BY <1>2, <1>4, WrittenIs, Zenon
<1> QED
  BY <1>1, <1>9, <1>13, <1>14, <1>15, <1>16, <1>17, Zenon DEF PairText

LEMMA WrittenType ==
    ASSUME NEW line \in Lines
    PROVE  Written(line) \in Seq(Chars) /\ Len(Written(line)) \in Nat \ {0}
<1>1. ASSUME NEW n \in Nat, NEW v \in Nat
      PROVE  n + 3 \in Nat \ {0} /\ n + 2 \in Nat \ {0} /\ n + v + 4 \in Nat \ {0}
  OBVIOUS
<1>2. CASE line.kind = "section"
  <2>1. PICK name, n : name = line.name /\ n = Len(name)
    OBVIOUS
  <2>2. SectionText(Written(line), name, n)
    BY <1>2, <2>1, SectionWritten
  <2>3. Written(line) \in Seq(Chars) /\ n \in Nat /\ Len(Written(line)) = n + 3
    BY <2>2, Zenon DEF SectionText
  <2> QED
    BY <1>1, <2>3, Zenon
<1>3. CASE line.kind = "comment"
  <2>1. PICK name, n : name = line.name /\ n = Len(name)
    OBVIOUS
  <2>2. CommentWords(Written(line), name, n)
    BY <1>3, <2>1, CommentWritten
  <2>3. Written(line) \in Seq(Chars) /\ n \in Nat /\ Len(Written(line)) = n + 2
    BY <2>2, Zenon DEF CommentWords
  <2> QED
    BY <1>1, <2>3, Zenon
<1>4. CASE line.kind = "pair"
  <2>1. PICK n, v : n = Len(line.name) /\ v = Len(line.value)
    OBVIOUS
  <2>2. PairText(Written(line), line.name, line.value, n, v)
    BY <1>4, <2>1, PairWritten
  <2>3. /\ Written(line) \in Seq(Chars) /\ n \in Nat /\ v \in Nat
        /\ Len(Written(line)) = n + v + 4
    BY <2>2, Zenon DEF PairText
  <2> QED
    BY <1>1, <2>3, Zenon
<1>5. CASE line.kind = "blank"
  <2>1. PICK w : w = << "LF" >>
    OBVIOUS
  <2>2. w \in Seq(Chars) /\ Len(w) = 1 /\ 1 \in Nat \ {0}
    BY <2>1 DEF Chars, Special
  <2> QED
    BY <1>5, <2>1, <2>2, WrittenIs, Zenon
<1>6. line.kind \in {"section", "pair", "comment", "blank"}
  BY LineKinds
<1> QED
  BY <1>2, <1>3, <1>4, <1>5, <1>6

\* e gives where each line ends: its characters are those between the ends.
LaidOut(e) ==
    /\ e \in [0 .. Len(file.doc) -> Nat] /\ e[0] = 0
    /\ \A i \in 1 .. Len(file.doc) :
          /\ e[i] = e[i - 1] + Len(Written(file.doc[i]))
          /\ \A j \in 1 .. Len(Written(file.doc[i])) :
                mem[e[i - 1] + j] = Written(file.doc[i])[j]
    /\ \A i \in 0 .. Len(file.doc) : e[i] < Len(mem)
    /\ mem[e[Len(file.doc)] + 1] = "NUL"

\* The file is one of lines, and its text ends with the last of them.
LinesHeld == file.doc # << >> /\ Terminated

LEMMA DocType ==
    ASSUME IniInv, LinesHeld
    PROVE  /\ file.doc \in Seq(Lines) /\ Len(file.doc) \in Nat \ {0}
           /\ \A i \in 1 .. Len(file.doc) : WellFormedLine(file.doc[i])
           /\ file.text = Render(file.doc)
<1>1. file \in Files
  BY DEF IniInv, IniTypeOK
<1>2. Last(file.text) = "LF" /\ file.doc # << >>
  BY DEF LinesHeld, Terminated
<1>3. /\ file.doc \in Seq(Lines)
      /\ \A i \in 1 .. Len(file.doc) : WellFormedLine(file.doc[i])
      /\ file.text = Render(file.doc)
  BY <1>1, <1>2, FilesAssumption
<1>4. Len(file.doc) \in Nat \ {0}
  <2> HIDE DEF Lines
  <2> QED
    BY <1>2, <1>3, EmptySeq, LenProperties
<1> QED
  BY <1>3, <1>4

LEMMA LaidOutExists ==
    ASSUME IniInv, TextHeld, LinesHeld
    PROVE  \E e : LaidOut(e)
<1>1. PICK doc, n : doc = file.doc /\ n = Len(doc)
  OBVIOUS
<1>2. doc \in Seq(Lines) /\ n \in Nat \ {0} /\ file.text = Render(doc)
  BY <1>1, DocType
<1>3. PICK texts : texts = [i \in 1 .. n |-> Written(doc[i])]
  OBVIOUS
<1>4. /\ texts \in Seq(Seq(Chars)) /\ Len(texts) = n
      /\ \A i \in 1 .. n : texts[i] = Written(doc[i]) /\ texts[i] \in Seq(Chars)
  <2>1. \A i \in 1 .. n : Written(doc[i]) \in Seq(Chars)
    BY <1>1, <1>2, ElementOfSeq, WrittenType
  <2> HIDE DEF Chars
  <2>2. texts \in [1 .. n -> Seq(Chars)]
    BY <1>3, <2>1
  <2>3. texts \in Seq(Seq(Chars)) /\ Len(texts) = n
    BY <1>2, <2>2
  <2> QED
    BY <1>3, <2>1, <2>3
<1> HIDE DEF Chars
<1>5. PICK f : Joins(f, Chars, texts)
  BY <1>4, JoinsExist
<1>6. file.text = f[n]
  <2>1. Render(doc) = FlattenSeq(texts)
    BY <1>1, <1>3, Zenon DEF Render
  <2>2. FlattenSeq(texts) = f[n]
    BY <1>4, <1>5, FlattenIs, Zenon
  <2> QED
    BY <1>2, <2>1, <2>2, Zenon
<1>7. PICK e : e = [i \in 0 .. n |-> Len(f[i])]
  OBVIOUS
<1>8. /\ f \in [0 .. n -> Seq(Chars)] /\ f[0] = << >>
      /\ \A i \in 1 .. n : f[i] = f[i - 1] \o texts[i]
  BY <1>4, <1>5, Zenon DEF Joins
<1>9. e \in [0 .. n -> Nat] /\ e[0] = 0 /\ \A i \in 0 .. n : e[i] = Len(f[i])
  <2>1. \A i \in 0 .. n : Len(f[i]) \in Nat
    BY <1>8, LenProperties
  <2>2. 0 \in 0 .. n
    BY <1>2
  <2> QED
    BY <1>7, <1>8, <2>1, <2>2
<1>10. ASSUME NEW i \in 0 .. n
       PROVE  e[i] <= Len(file.text) /\ \A p \in 1 .. e[i] : file.text[p] = f[i][p]
  <2>1. Len(f[i]) <= Len(f[n]) /\ \A p \in 1 .. Len(f[i]) : f[n][p] = f[i][p]
    <3>1. i \in 0 .. Len(texts)
      BY <1>4
    <3>2. /\ Len(f[i]) <= Len(f[Len(texts)])
          /\ \A p \in 1 .. Len(f[i]) : f[Len(texts)][p] = f[i][p]
      BY <1>4, <1>5, <3>1, JoinsGrow
    <3> QED
      BY <1>4, <3>2, Zenon
  <2> QED
    BY <1>6, <1>9, <2>1
<1>11. /\ Len(file.text) \in Nat /\ Len(mem) \in Nat /\ Len(file.text) < Len(mem)
       /\ mem[Len(file.text) + 1] = "NUL"
       /\ \A p \in 1 .. Len(file.text) : mem[p] = file.text[p]
  <2>1. Len(mem) \in Nat
    BY LenProperties DEF IniInv, IniTypeOK
  <2> QED
    BY <2>1 DEF TextHeld, LinesHeld, Terminated
<1>12. ASSUME NEW i \in 1 .. n
       PROVE  /\ e[i] = e[i - 1] + Len(Written(doc[i]))
              /\ \A j \in 1 .. Len(Written(doc[i])) : mem[e[i - 1] + j] = Written(doc[i])[j]
  <2>1. PICK a, b, w, m : a = f[i - 1] /\ b = f[i] /\ w = Written(doc[i]) /\ m = Len(w)
    OBVIOUS
  <2>2. i - 1 \in 0 .. n /\ i \in 0 .. n
    BY <1>2
  <2>3. a \in Seq(Chars) /\ w \in Seq(Chars) /\ b = a \o w
    BY <1>4, <1>8, <2>1, <2>2
  <2>4. e[i - 1] = Len(a) /\ e[i] = Len(b)
    BY <1>9, <2>1, <2>2
  <2>5. Behind(b, a, w, e[i - 1], m) /\ e[i - 1] \in Nat /\ m \in Nat
    <3>1. PICK l : l = Len(a)
      OBVIOUS
    <3>2. Behind(b, a, w, l, m) /\ l \in Nat /\ m \in Nat
      BY <2>1, <2>3, <3>1, PutBehind
    <3> QED
      BY <2>4, <3>1, <3>2, Zenon
  <2>6. e[i] = e[i - 1] + m /\ \A j \in 1 .. m : b[e[i - 1] + j] = w[j]
    BY <2>4, <2>5, Zenon DEF Behind
  <2>7. ASSUME NEW j \in 1 .. m PROVE mem[e[i - 1] + j] = w[j]
    <3>1. PICK p : p = e[i - 1] + j
      OBVIOUS
    <3>2. p \in 1 .. e[i]
      BY <2>5, <2>6, <3>1
    <3>3. e[i] <= Len(file.text) /\ file.text[p] = b[p]
      BY <1>10, <2>1, <2>2, <3>2, Zenon
    <3>4. e[i] \in Nat
      BY <2>5, <2>6
    <3>5. p \in 1 .. Len(file.text)
      BY <1>11, <3>2, <3>3, <3>4
    <3> QED
      BY <1>11, <2>6, <3>1, <3>3, <3>5, Zenon
  <2> QED
    BY <2>1, <2>6, <2>7, Zenon
<1>13. \A i \in 0 .. n : e[i] < Len(mem)
  BY <1>9, <1>10, <1>11
<1>14. mem[e[n] + 1] = "NUL"
  <2>1. n \in 0 .. n
    BY <1>2
  <2>2. e[n] = Len(file.text)
    BY <1>6, <1>9, <2>1, Zenon
  <2> QED
    BY <1>11, <2>2, Zenon
<1>15. LaidOut(e)
  BY <1>1, <1>9, <1>12, <1>13, <1>14, Zenon DEF LaidOut
<1> QED
  BY <1>15

\* A search ends at the first character of the set.
LEMMA StopIs ==
    ASSUME mem \in Seq(Chars), NEW set, NEW q \in 1 .. Len(mem), NEW p \in 1 .. q,
           mem[q] \in set, \A i \in p .. q - 1 : mem[i] \notin set
    PROVE  Stop(set, p) = q
<1>1. PICK s : s = Stop(set, p)
  OBVIOUS
<1>2. Len(mem) \in Nat /\ p \in 1 .. Len(mem) + 1
  BY LenProperties
<1>3. s \in p .. q
  BY <1>1, StopAtMost
<1>4. s <= Len(mem) /\ s \in Nat
  BY <1>2, <1>3
<1>5. mem[s] \in set
  BY <1>1, <1>2, <1>4, StopProperties
<1>6. ~(s \in p .. q - 1)
  BY <1>5
<1> QED
  BY <1>1, <1>3, <1>6

\* The piece of a text that holds a name is the name.
LEMMA PieceIs ==
    ASSUME NEW C, NEW name \in Seq(C), NEW n, n = Len(name), NEW a \in Nat, NEW b,
           b = a + n + 1, \A j \in 1 .. n : mem[a + j] = name[j]
    PROVE  SubSeq(mem, a + 1, b - 1) = name
<1>1. n \in Nat /\ name \in [1 .. n -> C]
  BY LenProperties
<1>2. b - 1 = a + n /\ (a + n) - (a + 1) + 1 = n
  BY <1>1
<1>3. SubSeq(mem, a + 1, b - 1) = [i \in 1 .. n |-> mem[i + (a + 1) - 1]]
  BY <1>1, <1>2
<1>4. \A i \in 1 .. n : mem[i + (a + 1) - 1] = name[i]
  <2> TAKE i \in 1 .. n
  <2>1. i + (a + 1) - 1 = a + i
    BY <1>1
  <2> QED
    BY <2>1
<1> QED
  BY <1>1, <1>3, <1>4

LEMMA LineIn ==
    ASSUME IniInv, LinesHeld, NEW e, LaidOut(e), NEW k \in 0 .. Len(file.doc) - 1,
           NEW b, b = e[k], NEW c, c = e[k + 1], NEW line, line = file.doc[k + 1],
           NEW w, w = Written(line)
    PROVE  /\ line \in Lines /\ WellFormedLine(line)
           /\ mem \in Seq(Chars) /\ Len(mem) \in Nat
           /\ b \in Nat /\ c = b + Len(w) /\ c < Len(mem)
           /\ \A j \in 1 .. Len(w) : mem[b + j] = w[j]
<1>1. /\ file.doc \in Seq(Lines) /\ Len(file.doc) \in Nat
      /\ \A i \in 1 .. Len(file.doc) : WellFormedLine(file.doc[i])
  BY DocType
<1>2. PICK i : i = k + 1
  OBVIOUS
<1>3. i \in 1 .. Len(file.doc) /\ i - 1 = k /\ k \in 0 .. Len(file.doc) /\ i \in 0 .. Len(file.doc)
  BY <1>1, <1>2
<1>4. line \in Lines /\ WellFormedLine(line)
  BY <1>1, <1>2, <1>3, ElementOfSeq
<1>5. mem \in Seq(Chars) /\ Len(mem) \in Nat
  BY LenProperties DEF IniInv, IniTypeOK
<1>6. e \in [0 .. Len(file.doc) -> Nat]
  BY Zenon DEF LaidOut
<1>7. b \in Nat
  BY <1>3, <1>6
<1>8. /\ e[i] = e[i - 1] + Len(w)
      /\ \A j \in 1 .. Len(w) : mem[e[i - 1] + j] = w[j]
  BY <1>2, <1>3, Zenon DEF LaidOut
<1>9. e[i] < Len(mem)
  BY <1>3, Zenon DEF LaidOut
<1> QED
  BY <1>2, <1>3, <1>4, <1>5, <1>7, <1>8, <1>9, Zenon

\* A line of each kind lies behind position b, its newline at c.
SectionLies(b, c, name, n) ==
    /\ b \in Nat /\ n \in Nat /\ n < TmpSize /\ c = b + n + 3 /\ c < Len(mem)
    /\ mem[b + 1] = "[" /\ mem[b + n + 2] = "]" /\ mem[c] = "LF"
    /\ \A i \in b + 2 .. b + n + 1 : mem[i] \notin {"]", "LF", "NUL"}
    /\ SubSeq(mem, b + 2, b + n + 1) = name

CommentLies(b, c) ==
    /\ b \in Nat /\ c \in Nat /\ b + 2 <= c /\ c < Len(mem)
    /\ mem[b + 1] = "#" /\ mem[c] = "LF"
    /\ \A i \in b + 2 .. c - 1 : mem[i] \notin CommentEnd

PairLies(b, c, name, value, n, v) ==
    /\ b \in Nat /\ n \in Nat /\ v \in Nat /\ n > 0 /\ n < TmpSize /\ v < TmpSize
    /\ c = b + n + v + 4 /\ c < Len(mem)
    /\ mem[b + 1] \notin {"#", "[", "LF", " "}
    /\ mem[b + n + 1] = " " /\ mem[b + n + 2] = "=" /\ mem[b + n + 3] = " "
    /\ mem[c] = "LF"
    /\ mem[b + n + 4] \notin {" ", "TAB"}
    /\ \A i \in b + 1 .. b + n : mem[i] \notin KeyEnd
    /\ \A i \in b + n + 4 .. c - 1 : mem[i] \notin ValueEnd
    /\ SubSeq(mem, b + 1, b + n) = name
    /\ SubSeq(mem, b + n + 4, c - 1) = value

BlankLies(b, c) == b \in Nat /\ c = b + 1 /\ c < Len(mem) /\ mem[c] = "LF"

\* The characters of a name that has none of a set, where the name lies.
HeldAt(a, n, name) == \A j \in 1 .. n : mem[a + j] = name[j]
Apart(a, n, set)   == \A i \in a + 1 .. a + n : mem[i] \notin set /\ mem[i] # "NUL"

LEMMA NameLies ==
    ASSUME NEW name \in Strings, NEW n, n = Len(name), NEW a \in Nat,
           HeldAt(a, n, name), NEW set, Without(name, set)
    PROVE  Apart(a, n, set)
<1>1. n \in Nat
  BY NameType
<1>2. \A j \in 1 .. n : name[j] \notin set
  BY Zenon DEF Without
<1>3. \A j \in 1 .. n : name[j] # "NUL"
  BY ElementOfSeq DEF Strings
<1> SUFFICES ASSUME NEW i \in a + 1 .. a + n PROVE mem[i] \notin set /\ mem[i] # "NUL"
  BY Zenon DEF Apart
<1>4. PICK j : j = i - a
  OBVIOUS
<1>5. j \in 1 .. n /\ a + j = i
  BY <1>1, <1>4
<1>6. mem[i] = name[j]
  BY <1>5, Zenon DEF HeldAt
<1> QED
  BY <1>2, <1>3, <1>5, <1>6, Zenon

\* Where the pieces of a text that lies behind position b are.
HasName(w, l, name, n) ==
    n \in Nat /\ l \in Nat /\ n + 2 <= l /\ \A j \in 1 .. n : w[1 + j] = name[j]

NameAt(w, b, l, name, n) ==
    /\ mem[b + 1] = w[1] /\ mem[b + n + 2] = w[n + 2] /\ mem[b + l] = w[l]
    /\ \A j \in 1 .. n : mem[(b + 1) + j] = name[j]

LEMMA NamePlaced ==
    ASSUME NEW w, NEW b \in Nat, NEW l, \A j \in 1 .. l : mem[b + j] = w[j],
           NEW n, NEW name, HasName(w, l, name, n)
    PROVE  NameAt(w, b, l, name, n)
<1> DEFINE a == b + 1
           c == b + l
           d == b + n + 2
<1>0. n \in Nat /\ l \in Nat /\ n + 2 <= l /\ \A j \in 1 .. n : w[1 + j] = name[j]
  BY DEF HasName
<1>1. 1 \in 1 .. l /\ n + 2 \in 1 .. l /\ b + (n + 2) = d /\ l \in 1 .. l
  BY <1>0
<1>2. mem[a] = w[1] /\ mem[d] = w[n + 2] /\ mem[c] = w[l]
  <2>1. mem[b + 1] = w[1] /\ mem[b + (n + 2)] = w[n + 2] /\ mem[b + l] = w[l]
    BY <1>1, Zenon
  <2> QED
    BY <1>1, <2>1, Zenon
<1>3. ASSUME NEW j \in 1 .. n PROVE mem[a + j] = name[j]
  <2>1. 1 + j \in 1 .. l /\ b + (1 + j) = a + j
    BY <1>0
  <2>2. mem[b + (1 + j)] = w[1 + j]
    BY <2>1, Zenon
  <2> QED
    BY <1>0, <2>1, <2>2
<1> QED
  BY <1>2, <1>3, Zenon DEF NameAt

LEMMA SectionFits ==
    ASSUME NEW w, NEW l, l = Len(w), NEW b \in Nat, NEW c, c = b + l, c < Len(mem),
           \A j \in 1 .. l : mem[b + j] = w[j],
           NEW name \in Strings, NEW n, n = Len(name), n < TmpSize,
           SectionText(w, name, n), NEW set, Without(name, set), set = {"]", "LF"}
    PROVE  SectionLies(b, c, name, n)
<1>1. n \in Nat /\ l = n + 3
  BY Zenon DEF SectionText
<1>2. w[1] = "[" /\ w[n + 2] = "]" /\ w[n + 3] = "LF" /\ \A j \in 1 .. n : w[1 + j] = name[j]
  BY Zenon DEF SectionText
<1>3. PICK a, d : a = b + 1 /\ d = b + n + 2
  OBVIOUS
<1>4. /\ c = b + n + 3 /\ l \in Nat /\ n + 2 <= l /\ a \in Nat /\ a + 1 = b + 2
      /\ a + n = b + n + 1 /\ d - 1 = b + n + 1 /\ d = a + n + 1
  BY <1>1, <1>3
<1>5. /\ mem[b + 1] = w[1] /\ mem[b + n + 2] = w[n + 2] /\ mem[c] = w[l]
      /\ \A j \in 1 .. n : mem[a + j] = name[j]
  <2>1. HasName(w, l, name, n)
    BY <1>1, <1>2, <1>4, Zenon DEF HasName
  <2>2. NameAt(w, b, l, name, n)
    BY <2>1, NamePlaced
  <2> QED
    BY <1>3, <2>2, Zenon DEF NameAt
<1>6. \A i \in a + 1 .. a + n : mem[i] \notin set /\ mem[i] # "NUL"
  <2>1. a \in Nat /\ HeldAt(a, n, name)
    BY <1>4, <1>5, Zenon DEF HeldAt
  <2>2. Apart(a, n, set)
    BY <2>1, NameLies
  <2> QED
    BY <2>2, Zenon DEF Apart
<1>7. \A i \in b + 2 .. b + n + 1 : mem[i] \notin {"]", "LF", "NUL"}
  BY <1>4, <1>6, Zenon
<1>8. SubSeq(mem, a + 1, d - 1) = name
  <2>1. a \in Nat /\ d = a + n + 1 /\ \A j \in 1 .. n : mem[a + j] = name[j]
    BY <1>4, <1>5, Zenon
  <2>2. PICK S : S = Chars \ {"NUL"}
    OBVIOUS
  <2>3. name \in Seq(S)
    BY <2>2, Zenon DEF Strings
  <2> QED
    BY <2>1, <2>3, PieceIs
<1>9. SubSeq(mem, b + 2, b + n + 1) = name
  BY <1>4, <1>8, Zenon
<1>10. mem[b + 1] = "[" /\ mem[b + n + 2] = "]" /\ mem[c] = "LF"
  BY <1>1, <1>2, <1>5, Zenon
<1> QED
  BY <1>1, <1>4, <1>7, <1>9, <1>10, Zenon DEF SectionLies

\* The line lies between b and c.
LineAt(line, w, b, c) ==
    /\ line \in Lines /\ WellFormedLine(line) /\ w = Written(line)
    /\ b \in Nat /\ c = b + Len(w) /\ c < Len(mem)
    /\ \A j \in 1 .. Len(w) : mem[b + j] = w[j]

LEMMA SectionPlaced ==
    ASSUME NEW line, NEW w, NEW b, NEW c, LineAt(line, w, b, c), line.kind = "section",
           NEW name, name = line.name, NEW n, n = Len(name)
    PROVE  SectionLies(b, c, name, n)
<1>0. /\ line \in Lines /\ WellFormedLine(line) /\ w = Written(line)
      /\ b \in Nat /\ c = b + Len(w) /\ c < Len(mem)
      /\ \A j \in 1 .. Len(w) : mem[b + j] = w[j]
  BY Zenon DEF LineAt
<1>1. SectionText(w, name, n)
  BY <1>0, SectionWritten, Zenon
<1>2. n < TmpSize /\ Without(name, {"]", "LF"})
  BY <1>0, Zenon DEF WellFormedLine
<1>3. name \in Strings
  BY <1>0, LineKinds
<1> QED
  BY <1>0, <1>1, <1>2, <1>3, SectionFits, Zenon

LEMMA CommentFits ==
    ASSUME NEW w, NEW l, l = Len(w), NEW b \in Nat, NEW c, c = b + l, c < Len(mem),
           \A j \in 1 .. l : mem[b + j] = w[j],
           NEW name \in Strings, NEW n, n = Len(name),
           CommentWords(w, name, n), NEW set, Without(name, set), set = {"CR", "LF", "TAB"}
    PROVE  CommentLies(b, c)
<1>1. n \in Nat /\ l = n + 2
  BY Zenon DEF CommentWords
<1>2. w[1] = "#" /\ w[n + 2] = "LF" /\ \A j \in 1 .. n : w[1 + j] = name[j]
  BY Zenon DEF CommentWords
<1>3. PICK a, d : a = b + 1 /\ d = b + n + 2
  OBVIOUS
<1>4. /\ c \in Nat /\ b + 2 <= c /\ l \in Nat /\ n + 2 <= l /\ a \in Nat /\ a + 1 = b + 2
      /\ a + n = c - 1
  BY <1>1, <1>3
<1>5. /\ mem[b + 1] = w[1] /\ mem[c] = w[l] /\ \A j \in 1 .. n : mem[a + j] = name[j]
  <2>1. HasName(w, l, name, n)
    BY <1>1, <1>2, <1>4, Zenon DEF HasName
  <2>2. NameAt(w, b, l, name, n)
    BY <2>1, NamePlaced
  <2> QED
    BY <1>3, <2>2, Zenon DEF NameAt
<1>6. \A i \in a + 1 .. a + n : mem[i] \notin set /\ mem[i] # "NUL"
  <2>1. a \in Nat /\ HeldAt(a, n, name)
    BY <1>4, <1>5, Zenon DEF HeldAt
  <2>2. Apart(a, n, set)
    BY <2>1, NameLies
  <2> QED
    BY <2>2, Zenon DEF Apart
<1>7. \A i \in b + 2 .. c - 1 : mem[i] \notin CommentEnd
  BY <1>4, <1>6, Zenon DEF CommentEnd
<1>8. mem[b + 1] = "#" /\ mem[c] = "LF"
  BY <1>1, <1>2, <1>5, Zenon
<1> QED
  BY <1>4, <1>7, <1>8, Zenon DEF CommentLies

LEMMA CommentPlaced ==
    ASSUME NEW line, NEW w, NEW b, NEW c, LineAt(line, w, b, c), line.kind = "comment"
    PROVE  CommentLies(b, c)
<1>1. PICK name, n, l : name = line.name /\ n = Len(name) /\ l = Len(w)
  OBVIOUS
<1>0. /\ line \in Lines /\ WellFormedLine(line) /\ w = Written(line)
      /\ b \in Nat /\ c = b + Len(w) /\ c < Len(mem)
      /\ \A j \in 1 .. Len(w) : mem[b + j] = w[j]
  BY Zenon DEF LineAt
<1>2. CommentWords(w, name, n)
  BY <1>0, <1>1, CommentWritten, Zenon
<1>3. Without(name, {"CR", "LF", "TAB"})
  BY <1>0, <1>1, Zenon DEF WellFormedLine
<1>4. name \in Strings
  BY <1>0, <1>1, LineKinds
<1> QED
  BY <1>0, <1>1, <1>2, <1>3, <1>4, CommentFits, Zenon

LEMMA BlankPlaced ==
    ASSUME NEW line, NEW w, NEW b, NEW c, LineAt(line, w, b, c), line.kind = "blank"
    PROVE  BlankLies(b, c)
<1>1. w = << "LF" >>
  BY WrittenIs, Zenon DEF LineAt
<1>2. Len(w) = 1 /\ w[1] = "LF" /\ 1 \in 1 .. 1
  BY <1>1
<1> QED
  BY <1>2, Zenon DEF BlankLies, LineAt

HasPair(w, l, name, value, n, v) ==
    /\ n \in Nat /\ v \in Nat /\ l = n + v + 4
    /\ \A j \in 1 .. n : w[j] = name[j]
    /\ \A j \in 1 .. v : w[n + 3 + j] = value[j]

PairAt(w, b, l, name, value, n, v) ==
    /\ mem[b + n + 1] = w[n + 1] /\ mem[b + n + 2] = w[n + 2]
    /\ mem[b + n + 3] = w[n + 3] /\ mem[b + l] = w[l]
    /\ \A j \in 1 .. n : mem[b + j] = name[j]
    /\ \A j \in 1 .. v : mem[(b + n + 3) + j] = value[j]

LEMMA PairPlacedAt ==
    ASSUME NEW w, NEW b \in Nat, NEW l, \A j \in 1 .. l : mem[b + j] = w[j],
           NEW n, NEW v, NEW name, NEW value, HasPair(w, l, name, value, n, v)
    PROVE  PairAt(w, b, l, name, value, n, v)
<1>1. /\ n \in Nat /\ v \in Nat /\ l = n + v + 4
      /\ \A j \in 1 .. n : w[j] = name[j]
      /\ \A j \in 1 .. v : w[n + 3 + j] = value[j]
  BY DEF HasPair
<1>2. /\ n + 1 \in 1 .. l /\ n + 2 \in 1 .. l /\ n + 3 \in 1 .. l /\ l \in 1 .. l
      /\ b + (n + 1) = b + n + 1 /\ b + (n + 2) = b + n + 2 /\ b + (n + 3) = b + n + 3
  BY <1>1
<1>3. /\ mem[b + n + 1] = w[n + 1] /\ mem[b + n + 2] = w[n + 2]
      /\ mem[b + n + 3] = w[n + 3] /\ mem[b + l] = w[l]
  <2>1. /\ mem[b + (n + 1)] = w[n + 1] /\ mem[b + (n + 2)] = w[n + 2]
        /\ mem[b + (n + 3)] = w[n + 3] /\ mem[b + l] = w[l]
    BY <1>2, Zenon
  <2> QED
    BY <1>2, <2>1, Zenon
<1>4. ASSUME NEW j \in 1 .. n PROVE mem[b + j] = name[j]
  <2>1. j \in 1 .. l
    BY <1>1
  <2> QED
    BY <1>1, <2>1, Zenon
<1>5. ASSUME NEW j \in 1 .. v PROVE mem[(b + n + 3) + j] = value[j]
  <2>1. n + 3 + j \in 1 .. l /\ b + (n + 3 + j) = (b + n + 3) + j
    BY <1>1
  <2>2. mem[b + (n + 3 + j)] = w[n + 3 + j] /\ w[n + 3 + j] = value[j]
    BY <1>1, <2>1, Zenon
  <2> QED
    BY <2>1, <2>2, Zenon
<1> QED
  BY <1>3, <1>4, <1>5, Zenon DEF PairAt

LEMMA NameIs ==
    ASSUME NEW name \in Strings, NEW n, n = Len(name), NEW a \in Nat, HeldAt(a, n, name)
    PROVE  SubSeq(mem, a + 1, a + n) = name
<1>1. PICK S : S = Chars \ {"NUL"}
  OBVIOUS
<1>2. name \in Seq(S)
  BY <1>1, Zenon DEF Strings
<1>3. PICK b : b = a + n + 1
  OBVIOUS
<1>4. SubSeq(mem, a + 1, b - 1) = name
  BY <1>2, <1>3, PieceIs DEF HeldAt
<1>5. b - 1 = a + n
  BY <1>3, NameType
<1> QED
  BY <1>4, <1>5, Zenon

PairWords(name, value, v) ==
    /\ Without(name, {" ", "TAB", "=", "LF"}) /\ Without(value, {"LF"})
    /\ name[1] \notin {"#", "["} /\ (v # 0 => value[1] \notin {" ", "TAB"})

LEMMA PairFits ==
    ASSUME NEW w, NEW l, l = Len(w), NEW b \in Nat, NEW c, c = b + l, c < Len(mem),
           \A j \in 1 .. l : mem[b + j] = w[j],
           NEW name \in Strings, NEW n, n = Len(name), n \in 1 .. TmpSize - 1,
           NEW value \in Strings, NEW v, v = Len(value), v < TmpSize,
           PairText(w, name, value, n, v), PairWords(name, value, v)
    PROVE  PairLies(b, c, name, value, n, v)
<1>1. n \in Nat /\ v \in Nat /\ l = n + v + 4 /\ n > 0 /\ n < TmpSize
  <2>1. TmpSize \in Nat
    BY IniAssumption
  <2>2. v \in Nat /\ l = n + v + 4
    BY Zenon DEF PairText
  <2> QED
    BY <2>1, <2>2
<1>2. w[n + 1] = " " /\ w[n + 2] = "=" /\ w[n + 3] = " " /\ w[n + v + 4] = "LF"
  BY Zenon DEF PairText
<1>3. PairAt(w, b, l, name, value, n, v)
  <2>1. HasPair(w, l, name, value, n, v)
    BY <1>1, Zenon DEF PairText, HasPair
  <2> QED
    BY <2>1, PairPlacedAt
<1>4. PICK a, d, h : a = b + n + 3 /\ d = b + n + 1 /\ h = b + n + 4
  OBVIOUS
<1>5. /\ a \in Nat /\ a + 1 = h /\ a + v = c - 1 /\ c = a + v + 1 /\ c = b + n + v + 4
      /\ d = b + n + 1 /\ d - 1 = b + n /\ 1 \in 1 .. n /\ (v # 0 => 1 \in 1 .. v)
      /\ (v = 0 => c = h) /\ b + 1 \in b + 1 .. b + n
  BY <1>1, <1>4
<1>6. /\ \A j \in 1 .. n : mem[b + j] = name[j]
      /\ \A j \in 1 .. v : mem[a + j] = value[j]
  BY <1>3, <1>4, Zenon DEF PairAt
<1>0. PICK s, t : /\ s = {" ", "TAB", "=", "LF"} /\ t = {"LF"}
                  /\ Without(name, s) /\ Without(value, t)
  BY Zenon DEF PairWords
<1>7. \A i \in b + 1 .. b + n : mem[i] \notin s /\ mem[i] # "NUL"
  <2>1. Without(name, s) /\ HeldAt(b, n, name)
    BY <1>0, <1>6, Zenon DEF HeldAt
  <2>2. Apart(b, n, s)
    BY <2>1, NameLies
  <2> QED
    BY <2>2, Zenon DEF Apart
<1>8. \A i \in a + 1 .. a + v : mem[i] \notin t /\ mem[i] # "NUL"
  <2>1. a \in Nat /\ Without(value, t) /\ HeldAt(a, v, value)
    BY <1>0, <1>5, <1>6, Zenon DEF HeldAt
  <2>2. Apart(a, v, t)
    BY <2>1, NameLies
  <2> QED
    BY <2>2, Zenon DEF Apart
<1>9. \A i \in b + 1 .. b + n : mem[i] \notin KeyEnd
  BY <1>0, <1>7, Zenon DEF KeyEnd
<1>10. \A i \in b + n + 4 .. c - 1 : mem[i] \notin ValueEnd
  BY <1>0, <1>4, <1>5, <1>8, Zenon DEF ValueEnd
<1>11. SubSeq(mem, b + 1, b + n) = name
  <2>1. HeldAt(b, n, name)
    BY <1>6, Zenon DEF HeldAt
  <2> QED
    BY <2>1, NameIs
<1>12. SubSeq(mem, b + n + 4, c - 1) = value
  <2>1. a \in Nat /\ HeldAt(a, v, value)
    BY <1>5, <1>6, Zenon DEF HeldAt
  <2>2. SubSeq(mem, a + 1, a + v) = value
    BY <2>1, NameIs
  <2> QED
    BY <1>4, <1>5, <2>2, Zenon
<1>13. mem[b + n + 1] = " " /\ mem[b + n + 2] = "=" /\ mem[b + n + 3] = " " /\ mem[c] = "LF"
  BY <1>1, <1>2, <1>3, Zenon DEF PairAt
<1>14. mem[b + 1] \notin {"#", "[", "LF", " "}
  <2>1. mem[b + 1] = name[1]
    BY <1>5, <1>6, Zenon
  <2>2. mem[b + 1] \notin s
    BY <1>5, <1>7, Zenon
  <2> QED
    BY <1>0, <2>1, <2>2, Zenon DEF PairWords
<1>15. mem[h] \notin {" ", "TAB"}
  <2>1. CASE v = 0
    <3>1. mem[h] = "LF"
      BY <1>5, <1>13, <2>1, Zenon
    <3> QED
      BY <3>1
  <2>2. CASE v # 0
    <3>1. mem[a + 1] = value[1]
      BY <1>5, <1>6, <2>2, Zenon
    <3> QED
      BY <1>5, <2>2, <3>1, Zenon DEF PairWords
  <2> QED
    BY <2>1, <2>2
<1> QED
  BY <1>1, <1>4, <1>5, <1>9, <1>10, <1>11, <1>12, <1>13, <1>14, <1>15, Zenon DEF PairLies

LEMMA PairPlaced ==
    ASSUME NEW line, NEW w, NEW b, NEW c, LineAt(line, w, b, c), line.kind = "pair",
           NEW name, name = line.name, NEW n, n = Len(name),
           NEW value, value = line.value, NEW v, v = Len(value)
    PROVE  PairLies(b, c, name, value, n, v)
<1>0. /\ line \in Lines /\ WellFormedLine(line) /\ w = Written(line)
      /\ b \in Nat /\ c = b + Len(w) /\ c < Len(mem)
      /\ \A j \in 1 .. Len(w) : mem[b + j] = w[j]
  BY Zenon DEF LineAt
<1>1. PairText(w, name, value, n, v)
  BY <1>0, PairWritten, Zenon
<1>2. /\ n \in 1 .. TmpSize - 1 /\ v < TmpSize
      /\ Without(name, {" ", "TAB", "=", "LF"}) /\ Without(value, {"LF"})
      /\ name[1] \notin {"#", "["} /\ (value # << >> => value[1] \notin {" ", "TAB"})
  BY <1>0, Zenon DEF WellFormedLine
<1>3. name \in Strings /\ value \in Strings
  BY <1>0, LineKinds
<1>4. v # 0 => value # << >>
  <2>1. Len(<< >>) = 0
    OBVIOUS
  <2> QED
    BY <2>1, Zenon
<1>5. v # 0 => value[1] \notin {" ", "TAB"}
  BY <1>2, <1>4, Zenon
<1>6. PairWords(name, value, v)
  BY <1>2, <1>5, Zenon DEF PairWords
<1>7. PICK l : l = Len(w)
  OBVIOUS
<1>8. b \in Nat /\ c = b + l /\ c < Len(mem) /\ \A j \in 1 .. l : mem[b + j] = w[j]
  BY <1>0, <1>7, Zenon
<1>9. n \in 1 .. TmpSize - 1 /\ v < TmpSize
  BY <1>2, Zenon
<1> HIDE <1>0, <1>2
<1> QED
  BY <1>1, <1>3, <1>6, <1>7, <1>8, <1>9, PairFits, ZenonT(30)

-----------------------------------------------------------------------------
(* Where the parser is while it reads a line that lies behind position b     *)

AtLine(b, sec)    == state = "READY_FOR_DATA" /\ bufp = b + 1 /\ current_section = sec
InName(b)         == state = "SECTION_NAME" /\ bufp = b + 2
AtEnd(c, name)    == state = "READY_FOR_DATA" /\ bufp = c /\ current_section = name
InComment(b, sec) == state = "COMMENT" /\ bufp = b + 2 /\ current_section = sec
InKey(b, sec)     == state = "KEY" /\ bufp = b + 2 /\ current_section = sec
InValue(b, n, name, sec) ==
    /\ state = "VALUE" /\ bufp = b + n + 3 /\ current_section = sec
    /\ current_key = name

\* The configuration stays as it is.
SameConfig == UNCHANGED << cfg, lost, outcome, file, mem >>

\* What Ready does with the character it finds.
LEMMA ReadyMoves ==
    ASSUME Ready
    PROVE  /\ bufp' = bufp + 1 /\ current_section' = current_section /\ SameConfig
           /\ mem[bufp] = "#" => state' = "COMMENT"
           /\ mem[bufp] = "[" => state' = "SECTION_NAME"
           /\ mem[bufp] = "LF" => state' = "READY_FOR_DATA"
           /\ mem[bufp] \notin {"#", "[", "LF", " "} => state' = "KEY"
<1>1. PICK next : /\ next = CASE mem[bufp] = "#"           -> "COMMENT"
                              [] mem[bufp] = "["           -> "SECTION_NAME"
                              [] mem[bufp] \in {"LF", " "} -> "READY_FOR_DATA"
                              [] OTHER                     -> "KEY"
                  /\ Advance(next, bufp)
  BY DEF Ready
<1>2. /\ mem[bufp] = "#" => next = "COMMENT"
      /\ mem[bufp] = "[" => next = "SECTION_NAME"
      /\ mem[bufp] = "LF" => next = "READY_FOR_DATA"
      /\ mem[bufp] \notin {"#", "[", "LF", " "} => next = "KEY"
  BY <1>1
<1>3. state' = next /\ bufp' = bufp + 1
  BY <1>1, Zenon DEF Advance
<1>4. current_section' = current_section /\ SameConfig
  BY DEF Ready, SameConfig
<1> QED
  BY <1>2, <1>3, <1>4, Zenon

\* The name of a section is taken whole.
LEMMA NameTaken ==
    ASSUME IniInv, NEW b, NEW c, NEW name, NEW n, SectionLies(b, c, name, n),
           InName(b), SectionName
    PROVE  AtEnd(c, name)' /\ SameConfig
<1>1. mem \in Seq(Chars) /\ Len(mem) \in Nat /\ TmpSize \in Nat
  BY LenProperties, IniAssumption DEF IniInv, IniTypeOK
<1>2. PICK p, q : p = b + 2 /\ q = b + n + 2
  OBVIOUS
<1>3. b \in Nat /\ n \in Nat /\ n < TmpSize /\ c = b + n + 3 /\ c < Len(mem)
  BY Zenon DEF SectionLies
<1>4. /\ q \in 1 .. Len(mem) /\ p \in 1 .. q /\ q - 1 = b + n + 1 /\ q + 1 = c
      /\ q <= p + TmpSize - 1 /\ q <= Len(mem)
  BY <1>1, <1>2, <1>3
<1>5. PICK set : set = {"]", "LF", "NUL"}
  OBVIOUS
<1>6. mem[q] = "]" /\ \A i \in p .. q - 1 : mem[i] \notin set
  BY <1>2, <1>4, <1>5, Zenon DEF SectionLies
<1>7. bufp = p /\ state = "SECTION_NAME"
  BY <1>2, Zenon DEF InName
<1>8. Stop(set, p) = q
  <2>1. mem[q] \in set
    BY <1>5, <1>6, Zenon
  <2> QED
    BY <1>1, <1>4, <1>6, <2>1, StopIs
<1>9. SectionStop = q
  <2>1. PICK r : r = p + TmpSize - 1
    OBVIOUS
  <2>2. Smaller(q, r) = q
    BY <1>1, <1>3, <1>2, <1>4, <2>1 DEF Smaller
  <2> QED
    BY <1>5, <1>7, <1>8, <2>1, <2>2, Zenon DEF SectionStop
<1>10. /\ Advance("READY_FOR_DATA", q) /\ current_section' = SubSeq(mem, p, q - 1)
       /\ UNCHANGED << file, mem, current_key, cfg, outcome, lost >>
  <2>1. ~Astray(q)
    BY <1>1, <1>4 DEF Astray
  <2> QED
    BY <1>5, <1>6, <1>7, <1>8, <1>9, <2>1, Zenon DEF SectionName, SectionStop
<1>11. state' = "READY_FOR_DATA" /\ bufp' = c
  BY <1>4, <1>10, Zenon DEF Advance
<1>12. current_section' = name
  BY <1>2, <1>4, <1>10, Zenon DEF SectionLies
<1> QED
  BY <1>10, <1>11, <1>12, Zenon DEF AtEnd, SameConfig

LEMMA CommentSkipped ==
    ASSUME IniInv, NEW b, NEW c, NEW sec, CommentLies(b, c), InComment(b, sec), Comment
    PROVE  AtLine(c, sec)' /\ SameConfig
<1>1. mem \in Seq(Chars) /\ Len(mem) \in Nat
  BY LenProperties DEF IniInv, IniTypeOK
<1>2. PICK p : p = b + 2
  OBVIOUS
<1>3. b \in Nat /\ c \in Nat /\ b + 2 <= c /\ c < Len(mem)
  BY Zenon DEF CommentLies
<1>4. c \in 1 .. Len(mem) /\ p \in 1 .. c
  BY <1>1, <1>2, <1>3
<1>5. mem[c] = "LF" /\ \A i \in p .. c - 1 : mem[i] \notin CommentEnd
  BY <1>2, Zenon DEF CommentLies
<1>6. bufp = p /\ current_section = sec
  BY <1>2, Zenon DEF InComment
<1>7. Stop(CommentEnd, p) = c
  <2>1. mem[c] \in CommentEnd
    BY <1>5, Zenon DEF CommentEnd
  <2> QED
    BY <1>1, <1>4, <1>5, <2>1, StopIs
<1>8. /\ Advance("READY_FOR_DATA", c)
      /\ UNCHANGED << file, mem, current_section, current_key, cfg, outcome, lost >>
  <2>1. ~Astray(c)
    BY <1>1, <1>4 DEF Astray
  <2> QED
    BY <1>6, <1>7, <2>1, Zenon DEF Comment
<1> QED
  BY <1>6, <1>8, Zenon DEF AtLine, SameConfig, Advance

\* The key is taken whole, and the "=" found behind it.
LEMMA KeyTaken ==
    ASSUME IniInv, NEW b, NEW c, NEW name, NEW value, NEW n, NEW v, NEW sec,
           PairLies(b, c, name, value, n, v), InKey(b, sec), Key
    PROVE  InValue(b, n, name, sec)' /\ SameConfig
<1>1. mem \in Seq(Chars) /\ Len(mem) \in Nat /\ TmpSize \in Nat
  BY LenProperties, IniAssumption DEF IniInv, IniTypeOK
<1>2. PICK p, q, r : p = b + 1 /\ q = b + n + 1 /\ r = b + n + 2
  OBVIOUS
<1>3. /\ b \in Nat /\ n \in Nat /\ v \in Nat /\ n > 0 /\ n < TmpSize
      /\ c = b + n + v + 4 /\ c < Len(mem)
  BY Zenon DEF PairLies
<1>4. /\ q \in 1 .. Len(mem) /\ p \in 1 .. q /\ q - 1 = b + n
      /\ r \in 1 .. Len(mem) /\ q \in 1 .. r /\ r - 1 = q /\ r + 1 = b + n + 3
      /\ q <= p + TmpSize /\ (b + 2) - 1 = p /\ q \in Nat
  BY <1>1, <1>2, <1>3
<1>5. bufp = b + 2 /\ current_section = sec
  BY Zenon DEF InKey
<1>6. KeyStart = p
  BY <1>4, <1>5, Zenon DEF KeyStart
<1>7. /\ mem[q] = " " /\ mem[r] = "=" /\ \A i \in p .. q - 1 : mem[i] \notin KeyEnd
  BY <1>2, <1>4, Zenon DEF PairLies
<1>8. Stop(KeyEnd, p) = q
  <2>1. mem[q] \in KeyEnd
    BY <1>7, Zenon DEF KeyEnd
  <2> QED
    BY <1>1, <1>4, <1>7, <2>1, StopIs
<1>9. KeyStop = q
  <2>1. PICK d : d = p + TmpSize
    OBVIOUS
  <2>2. Smaller(q, d) = q
    BY <1>1, <1>2, <1>3, <1>4, <2>1 DEF Smaller
  <2> QED
    BY <1>6, <1>8, <2>1, <2>2, Zenon DEF KeyStop
<1>10. KeySign = r
  <2>1. PICK set : set = {"=", "LF", "NUL"}
    OBVIOUS
  <2>2. mem[r] \in set /\ mem[q] \notin set
    BY <1>7, <2>1
  <2>3. \A i \in q .. r - 1 : mem[i] \notin set
    <3>1. \A i \in q .. r - 1 : i = q
      BY <1>4
    <3> QED
      BY <2>2, <3>1, Zenon
  <2>4. Stop(set, q) = r
    BY <1>1, <1>4, <2>2, <2>3, StopIs
  <2> QED
    BY <1>9, <2>1, <2>4, Zenon DEF KeySign
<1>11. /\ Advance("VALUE", r) /\ current_key' = SubSeq(mem, p, q - 1)
       /\ UNCHANGED << file, mem, current_section, cfg, outcome, lost >>
  <2>1. ~Astray(r)
    BY <1>1, <1>4 DEF Astray
  <2> QED
    BY <1>6, <1>7, <1>8, <1>9, <1>10, <2>1, Zenon DEF Key, KeyStop, KeySign, KeyEnd
<1>12. current_key' = name
  BY <1>2, <1>4, <1>11, Zenon DEF PairLies
<1> QED
  BY <1>4, <1>5, <1>11, <1>12, Zenon DEF InValue, SameConfig, Advance

\* The value is taken whole, and assigned or dropped.
LEMMA ValueTaken ==
    ASSUME IniInv, NEW b, NEW c, NEW name, NEW value, NEW n, NEW v, NEW sec,
           PairLies(b, c, name, value, n, v), InValue(b, n, name, sec), n = Len(name),
           Value
    PROVE  /\ AtLine(c, sec)' /\ UNCHANGED << outcome, file, mem >>
           /\ \/ cfg' = assign_keyval(cfg, sec, name, value) /\ lost' = lost
              \/ lost' = TRUE
<1>1. mem \in Seq(Chars) /\ Len(mem) \in Nat /\ TmpSize \in Nat
  BY LenProperties, IniAssumption DEF IniInv, IniTypeOK
<1>2. PICK p, q : p = b + n + 3 /\ q = b + n + 4
  OBVIOUS
<1>3. /\ b \in Nat /\ n \in Nat /\ v \in Nat /\ n > 0 /\ n < TmpSize /\ v < TmpSize
      /\ c = b + n + v + 4 /\ c < Len(mem)
  BY Zenon DEF PairLies
<1>4. /\ q \in 1 .. Len(mem) /\ p \in 1 .. q /\ q - 1 = p
      /\ c \in 1 .. Len(mem) /\ q \in 1 .. c /\ c - q = v
  BY <1>1, <1>2, <1>3
<1>5. bufp = p /\ current_section = sec /\ current_key = name
  BY <1>2, Zenon DEF InValue
<1>6. /\ mem[p] = " " /\ mem[q] \notin {" ", "TAB"} /\ mem[c] = "LF"
      /\ \A i \in q .. c - 1 : mem[i] \notin ValueEnd
  BY <1>2, Zenon DEF PairLies
<1>7. ValueBegin = q
  <2>1. PICK set : set = Chars \ {" ", "TAB"}
    OBVIOUS
  <2>2. mem[q] \in Chars
    BY <1>1, <1>4, ElementOfSeq
  <2>3. mem[q] \in set /\ mem[p] \notin set
    BY <1>6, <2>1, <2>2, Zenon
  <2>4. \A i \in p .. q - 1 : mem[i] \notin set
    <3>1. \A i \in p .. q - 1 : i = p
      BY <1>4
    <3> QED
      BY <2>3, <3>1, Zenon
  <2>5. Stop(set, p) = q
    BY <1>1, <1>4, <2>3, <2>4, StopIs
  <2> QED
    BY <1>5, <2>1, <2>5, Zenon DEF ValueBegin
<1>8. ValueStop = c
  <2>1. mem[c] \in ValueEnd
    BY <1>6, Zenon DEF ValueEnd
  <2>2. Stop(ValueEnd, q) = c
    BY <1>1, <1>4, <1>6, <2>1, StopIs
  <2> QED
    BY <1>7, <2>2, Zenon DEF ValueStop
<1>9. /\ Advance("READY_FOR_DATA", c) /\ Assign(SubSeq(mem, q, c - 1))
      /\ UNCHANGED << file, mem, current_section, current_key, outcome >>
  <2>1. ~Astray(c) /\ ~(c - q >= TmpSize) /\ ~(Len(current_key) = TmpSize)
    <3>1. ~Astray(c)
      BY <1>1, <1>4 DEF Astray
    <3>2. ~(c - q >= TmpSize)
      BY <1>1, <1>3, <1>4
    <3>3. ~(n = TmpSize)
      BY <1>1, <1>3
    <3> QED
      BY <1>5, <3>1, <3>2, <3>3, Zenon
  <2> QED
    BY <1>7, <1>8, <2>1, Zenon DEF Value, ValueBegin, ValueStop
<1>10. SubSeq(mem, q, c - 1) = value
  BY <1>2, Zenon DEF PairLies
<1>11. \/ cfg' = assign_keyval(cfg, sec, name, value) /\ lost' = lost
       \/ lost' = TRUE
  BY <1>5, <1>9, <1>10, Zenon DEF Assign
<1> QED
  BY <1>5, <1>9, <1>11, Zenon DEF AtLine, Advance

\* Where the parser is inside a line whose text lies between b and c.
InLine(line, b, c, sec) ==
    \/ line.kind = "section" /\ (InName(b) \/ AtEnd(c, line.name))
    \/ line.kind = "comment" /\ InComment(b, sec)
    \/ line.kind = "pair" /\ \/ InKey(b, sec)
                             \/ InValue(b, Len(line.name), line.name, sec)

\* Before a terminator, the parser does what its state says.
LEMMA ActionIs ==
    ASSUME ini_parsebuf, ~(bufp > Len(mem)), mem[bufp] # "NUL"
    PROVE  /\ outcome = "parsing"
           /\ state = "READY_FOR_DATA" => Ready
           /\ state = "COMMENT" => Comment
           /\ state = "SECTION_NAME" => SectionName
           /\ state = "KEY" => Key
           /\ state = "VALUE" => Value
<1>1. ~Done
  BY Zenon DEF Done
<1>2. Ready \/ Comment \/ SectionName \/ Key \/ Value
  BY <1>1, Zenon DEF ini_parsebuf
<1>3. /\ Ready => state = "READY_FOR_DATA" /\ outcome = "parsing"
      /\ Comment => state = "COMMENT" /\ outcome = "parsing"
      /\ SectionName => state = "SECTION_NAME" /\ outcome = "parsing"
      /\ Key => state = "KEY" /\ outcome = "parsing"
      /\ Value => state = "VALUE" /\ outcome = "parsing"
  BY Zenon DEF Ready, Comment, SectionName, Key, Value, Going
<1> QED
  BY <1>2, <1>3

LEMMA SectionStep ==
    ASSUME IniInv, NEW b, NEW c, NEW name, NEW n, NEW sec, SectionLies(b, c, name, n),
           AtLine(b, sec) \/ InName(b) \/ AtEnd(c, name), ini_parsebuf
    PROVE  SameConfig /\ (InName(b)' \/ AtEnd(c, name)' \/ AtLine(c, name)')
<1>1. /\ b \in Nat /\ n \in Nat /\ c = b + n + 3 /\ c < Len(mem) /\ Len(mem) \in Nat
      /\ mem[b + 1] = "[" /\ mem[b + n + 2] = "]" /\ mem[c] = "LF"
      /\ \A i \in b + 2 .. b + n + 1 : mem[i] # "NUL"
  <2>1. Len(mem) \in Nat
    BY LenProperties DEF IniInv, IniTypeOK
  <2> QED
    BY <2>1, Zenon DEF SectionLies
<1>2. /\ ~(b + 1 > Len(mem)) /\ ~(b + 2 > Len(mem)) /\ ~(c > Len(mem))
      /\ (b + 1) + 1 = b + 2 /\ (b + 2 \in b + 2 .. b + n + 1 \/ b + 2 = b + n + 2)
  <2>1. b \in Nat /\ n \in Nat /\ c = b + n + 3 /\ c < Len(mem) /\ Len(mem) \in Nat
    BY <1>1
  <2> QED
    BY <2>1
<1>3. CASE AtLine(b, sec)
  <2>1. Ready
    BY <1>1, <1>2, <1>3, ActionIs, Zenon DEF AtLine
  <2>2. state' = "SECTION_NAME" /\ bufp' = b + 2 /\ SameConfig
    BY <1>1, <1>2, <1>3, <2>1, ReadyMoves, Zenon DEF AtLine
  <2> QED
    BY <2>2, Zenon DEF InName
<1>4. CASE InName(b)
  <2>1. mem[b + 2] # "NUL"
    BY <1>1, <1>2, Zenon
  <2>2. SectionName
    BY <1>2, <1>4, <2>1, ActionIs, Zenon DEF InName
  <2> QED
    BY <1>4, <2>2, NameTaken
<1>5. CASE AtEnd(c, name)
  <2>1. Ready
    BY <1>1, <1>2, <1>5, ActionIs, Zenon DEF AtEnd
  <2>2. state' = "READY_FOR_DATA" /\ bufp' = c + 1 /\ SameConfig /\ current_section' = name
    BY <1>1, <1>2, <1>5, <2>1, ReadyMoves, Zenon DEF AtEnd
  <2> QED
    BY <2>2, Zenon DEF AtLine
<1> QED
  BY <1>3, <1>4, <1>5, Zenon

LEMMA CommentStep ==
    ASSUME IniInv, NEW b, NEW c, NEW sec, CommentLies(b, c),
           AtLine(b, sec) \/ InComment(b, sec), ini_parsebuf
    PROVE  SameConfig /\ (InComment(b, sec)' \/ AtLine(c, sec)')
<1>1. /\ b \in Nat /\ c \in Nat /\ b + 2 <= c /\ c < Len(mem) /\ Len(mem) \in Nat
      /\ mem[b + 1] = "#" /\ mem[c] = "LF"
      /\ \A i \in b + 2 .. c - 1 : mem[i] # "NUL"
  <2>1. Len(mem) \in Nat
    BY LenProperties DEF IniInv, IniTypeOK
  <2> QED
    BY <2>1, Zenon DEF CommentLies, CommentEnd
<1>2. /\ ~(b + 1 > Len(mem)) /\ ~(b + 2 > Len(mem))
      /\ (b + 1) + 1 = b + 2 /\ (b + 2 \in b + 2 .. c - 1 \/ b + 2 = c)
  <2>1. b \in Nat /\ c \in Nat /\ b + 2 <= c /\ c < Len(mem) /\ Len(mem) \in Nat
    BY <1>1
  <2> QED
    BY <2>1
<1>3. CASE AtLine(b, sec)
  <2>1. Ready
    BY <1>1, <1>2, <1>3, ActionIs, Zenon DEF AtLine
  <2>2. state' = "COMMENT" /\ bufp' = b + 2 /\ SameConfig /\ current_section' = sec
    BY <1>1, <1>2, <1>3, <2>1, ReadyMoves, Zenon DEF AtLine
  <2> QED
    BY <2>2, Zenon DEF InComment
<1>4. CASE InComment(b, sec)
  <2>1. mem[b + 2] # "NUL"
    BY <1>1, <1>2, Zenon
  <2>2. Comment
    BY <1>2, <1>4, <2>1, ActionIs, Zenon DEF InComment
  <2> QED
    BY <1>4, <2>2, CommentSkipped
<1> QED
  BY <1>3, <1>4, Zenon

LEMMA BlankStep ==
    ASSUME IniInv, NEW b, NEW c, NEW sec, BlankLies(b, c), AtLine(b, sec), ini_parsebuf
    PROVE  SameConfig /\ AtLine(c, sec)'
<1>1. b \in Nat /\ c = b + 1 /\ c < Len(mem) /\ Len(mem) \in Nat /\ mem[c] = "LF"
  <2>1. Len(mem) \in Nat
    BY LenProperties DEF IniInv, IniTypeOK
  <2> QED
    BY <2>1, Zenon DEF BlankLies
<1>2. ~(c > Len(mem))
  <2>1. b \in Nat /\ c = b + 1 /\ c < Len(mem) /\ Len(mem) \in Nat
    BY <1>1
  <2> QED
    BY <2>1
<1>3. Ready
  BY <1>1, <1>2, ActionIs, Zenon DEF AtLine
<1>4. state' = "READY_FOR_DATA" /\ bufp' = c + 1 /\ SameConfig /\ current_section' = sec
  BY <1>1, <1>3, ReadyMoves, Zenon DEF AtLine
<1> QED
  BY <1>4, Zenon DEF AtLine

\* The pair of a line is assigned or dropped when its value was read.
LEMMA PairStep ==
    ASSUME IniInv, NEW b, NEW c, NEW name, NEW value, NEW n, NEW v, NEW sec,
           PairLies(b, c, name, value, n, v), n = Len(name),
           AtLine(b, sec) \/ InKey(b, sec) \/ InValue(b, n, name, sec), ini_parsebuf
    PROVE  \/ SameConfig /\ (InKey(b, sec)' \/ InValue(b, n, name, sec)')
           \/ /\ AtLine(c, sec)' /\ UNCHANGED << outcome, file, mem >>
              /\ \/ cfg' = assign_keyval(cfg, sec, name, value) /\ lost' = lost
                 \/ lost' = TRUE
<1>1. /\ b \in Nat /\ n \in Nat /\ v \in Nat /\ n > 0 /\ c = b + n + v + 4
      /\ c < Len(mem) /\ Len(mem) \in Nat
      /\ mem[b + 1] \notin {"#", "[", "LF", " "}
      /\ mem[b + n + 1] = " " /\ mem[b + n + 3] = " "
      /\ \A i \in b + 1 .. b + n : mem[i] # "NUL"
  <2>1. Len(mem) \in Nat
    BY LenProperties DEF IniInv, IniTypeOK
  <2> QED
    BY <2>1, Zenon DEF PairLies, KeyEnd
<1>2. /\ ~(b + 1 > Len(mem)) /\ ~(b + 2 > Len(mem)) /\ ~(b + n + 3 > Len(mem))
      /\ b + 1 \in b + 1 .. b + n
      /\ (b + 1) + 1 = b + 2 /\ (b + 2 \in b + 1 .. b + n \/ b + 2 = b + n + 1)
  <2>1. /\ b \in Nat /\ n \in Nat /\ v \in Nat /\ n > 0 /\ c = b + n + v + 4
        /\ c < Len(mem) /\ Len(mem) \in Nat
    BY <1>1
  <2> QED
    BY <2>1
<1>3. CASE AtLine(b, sec)
  <2>1. mem[b + 1] # "NUL"
    BY <1>1, <1>2, Zenon
  <2>2. Ready
    BY <1>2, <1>3, <2>1, ActionIs, Zenon DEF AtLine
  <2>3. state' = "KEY" /\ bufp' = b + 2 /\ SameConfig /\ current_section' = sec
    BY <1>1, <1>2, <1>3, <2>2, ReadyMoves, Zenon DEF AtLine
  <2> QED
    BY <2>3, Zenon DEF InKey
<1>4. CASE InKey(b, sec)
  <2>1. mem[b + 2] # "NUL"
    BY <1>1, <1>2, Zenon
  <2>2. Key
    BY <1>2, <1>4, <2>1, ActionIs, Zenon DEF InKey
  <2> QED
    BY <1>4, <2>2, KeyTaken
<1>5. CASE InValue(b, n, name, sec)
  <2>1. mem[b + n + 3] # "NUL"
    BY <1>1, Zenon
  <2>2. Value
    BY <1>2, <1>5, <2>1, ActionIs, Zenon DEF InValue
  <2> QED
    BY <1>5, <2>2, ValueTaken
<1> QED
  BY <1>3, <1>4, <1>5, Zenon

-----------------------------------------------------------------------------
(* The invariant: the parser is at some line of the file or inside it, and   *)
(* holds what the lines before it say.                                       *)

HoldsUpTo(k) ==
    ~lost => \A section, key :
                ini_get_value(cfg, section, key) = Told(file.doc, k, section, key)

OnLine(e, k) ==
    \/ AtLine(e[k], SectionAt(file.doc, k))
    \/ /\ k < Len(file.doc)
       /\ InLine(file.doc[k + 1], e[k], e[k + 1], SectionAt(file.doc, k))

Reading ==
    \E e : LaidOut(e) /\ \E k \in 0 .. Len(file.doc) : OnLine(e, k) /\ HoldsUpTo(k)

LinesRead ==
    LinesHeld =>
        /\ outcome \in {"parsing", "parsed", "failed"}
        /\ outcome = "parsing" => Reading
        /\ outcome = "parsed" => HoldsUpTo(Len(file.doc))
        /\ outcome = "failed" => bufp = 1

LinesInv == TextInv /\ LinesRead

LEMMA SameMeaning ==
    ASSUME UNCHANGED << file, mem >>
    PROVE  /\ LinesHeld' <=> LinesHeld
           /\ \A e : LaidOut(e)' <=> LaidOut(e)
BY DEF LinesHeld, Terminated, LaidOut

LEMMA HoldsKept ==
    ASSUME NEW k, NEW l, HoldsUpTo(k), UNCHANGED << cfg, lost, file >>,
           \A section, key : Told(file.doc, l, section, key) = Told(file.doc, k, section, key)
    PROVE  HoldsUpTo(l)'
BY Zenon DEF HoldsUpTo

\* What the pair of a line adds is what the line says.
LEMMA HoldsMore ==
    ASSUME IniInv, LinesHeld, NEW k \in 0 .. Len(file.doc) - 1, HoldsUpTo(k), file' = file,
           NEW line, line = file.doc[k + 1], line.kind = "pair", line.name # << >>,
           NEW sec, sec = SectionAt(file.doc, k), sec \in Strings,
           \/ cfg' = assign_keyval(cfg, sec, line.name, line.value) /\ lost' = lost
           \/ lost' = TRUE
    PROVE  HoldsUpTo(k + 1)'
<1>1. file.doc \in Seq(Lines)
  BY DocType
<1>2. line \in Lines /\ line.name \in Strings /\ line.value \in Strings
  <2>1. k + 1 \in 1 .. Len(file.doc)
    BY DocType
  <2>2. line \in Lines
    BY <1>1, <2>1, ElementOfSeq
  <2> QED
    BY <2>2, LineKinds
<1>3. cfg \in Configs
  BY DEF IniInv, IniTypeOK
<1>4. SectionAt(file.doc, k + 1) = sec
  <2>1. k \in Nat /\ file.doc[k + 1].kind # "section"
    BY DocType
  <2> QED
    BY <2>1, SectionAtNext
<1>5. SUFFICES ASSUME ~lost', NEW section, NEW key
               PROVE  ini_get_value(cfg', section, key)
                          = Told(file.doc, k + 1, section, key)
  BY Zenon DEF HoldsUpTo
<1>6. cfg' = assign_keyval(cfg, sec, line.name, line.value) /\ ~lost
  <2>1. lost' # TRUE
    BY <1>5
  <2>2. cfg' = assign_keyval(cfg, sec, line.name, line.value) /\ lost' = lost
    BY <2>1, Zenon
  <2> QED
    BY <1>5, <2>2
<1>7. ini_get_value(cfg, section, key) = Told(file.doc, k, section, key)
  BY <1>6, Zenon DEF HoldsUpTo
<1>8. ini_get_value(cfg', section, key) =
          IF ini_get_value(cfg, section, key) = NULL /\ sec = section /\ line.name = key
          THEN line.value ELSE ini_get_value(cfg, section, key)
  BY <1>2, <1>3, <1>6, GetAssigned
<1>9. Told(file.doc, k + 1, section, key) =
          IF /\ Told(file.doc, k, section, key) = NULL
             /\ SectionAt(file.doc, k + 1) = section /\ line.name = key
          THEN line.value ELSE Told(file.doc, k, section, key)
  <2>1. file.doc[k + 1].kind = "pair" => Told(file.doc, k + 1, section, key) =
            IF /\ Told(file.doc, k, section, key) = NULL
               /\ SectionAt(file.doc, k + 1) = section /\ file.doc[k + 1].name = key
            THEN file.doc[k + 1].value ELSE Told(file.doc, k, section, key)
    BY <1>1, ToldNext
  <2> QED
    BY <2>1, Zenon
<1>10. PICK g, h, t : /\ g = ini_get_value(cfg, section, key) /\ t = Told(file.doc, k + 1, section, key)
                      /\ h = ini_get_value(cfg', section, key)
  OBVIOUS
<1>11. /\ h = IF g = NULL /\ sec = section /\ line.name = key THEN line.value ELSE g
       /\ t = IF g = NULL /\ sec = section /\ line.name = key THEN line.value ELSE g
  BY <1>4, <1>7, <1>8, <1>9, <1>10, Zenon
<1> QED
  BY <1>10, <1>11, Zenon

\* The section of a line is a name.
LEMMA SectionAtType ==
    ASSUME NEW doc \in Seq(Lines), NEW k \in 0 .. Len(doc)
    PROVE  SectionAt(doc, k) \in Strings
<1>1. PICK n : n = Len(doc)
  OBVIOUS
<1>2. n \in Nat
  BY <1>1, LenProperties
<1> DEFINE S == { i \in Nat : i <= n => SectionAt(doc, i) \in Strings }
<1>3. 0 \in S
  <2>1. << >> \in Strings
    BY EmptySeq DEF Strings
  <2> QED
    BY <2>1, SectionAtStart
<1>4. ASSUME NEW i \in Nat, i \in S PROVE i + 1 \in S
  <2> SUFFICES ASSUME i + 1 <= n PROVE SectionAt(doc, i + 1) \in Strings
    OBVIOUS
  <2>1. i <= n /\ i + 1 \in 1 .. Len(doc)
    BY <1>1, <1>2
  <2>2. SectionAt(doc, i) \in Strings
    BY <1>4, <2>1
  <2>3. doc[i + 1] \in Lines
    BY <2>1, ElementOfSeq
  <2>4. doc[i + 1].kind = "section" => doc[i + 1].name \in Strings
    BY <2>3, LineKinds
  <2>5. SectionAt(doc, i + 1) = IF doc[i + 1].kind = "section" THEN doc[i + 1].name
                                ELSE SectionAt(doc, i)
    BY SectionAtNext
  <2> QED
    BY <2>2, <2>4, <2>5, Zenon
<1> HIDE DEF S
<1>5. \A i \in Nat : i \in S
  BY <1>3, <1>4, AllNaturals
<1>6. k \in Nat /\ k <= n
  BY <1>1, <1>2
<1>7. k \in S
  BY <1>5, <1>6
<1> QED
  BY <1>6, <1>7 DEF S

LEMMA StillOnLine ==
    ASSUME file' = file, NEW e, NEW k, k < Len(file.doc),
           NEW line, line = file.doc[k + 1], NEW b, b = e[k], NEW c, c = e[k + 1],
           NEW sec, sec = SectionAt(file.doc, k), InLine(line, b, c, sec)'
    PROVE  OnLine(e, k)'
<1>1. k < Len(file'.doc) /\ line = file'.doc[k + 1] /\ sec = SectionAt(file'.doc, k)
  BY Zenon
<1> QED
  BY <1>1, Zenon DEF OnLine

LEMMA OnNextLine ==
    ASSUME file' = file, NEW e, NEW k, NEW c, c = e[k + 1],
           NEW sec, sec = SectionAt(file.doc, k + 1), AtLine(c, sec)'
    PROVE  OnLine(e, k + 1)'
<1>1. sec = SectionAt(file'.doc, k + 1)
  BY Zenon
<1> QED
  BY <1>1, Zenon DEF OnLine

\* A step that is still in line k + 1, or at the next one.
Stepped(e, k) ==
    /\ outcome' = outcome
    /\ \/ OnLine(e, k)' /\ HoldsUpTo(k)'
       \/ OnLine(e, k + 1)' /\ HoldsUpTo(k + 1)'

LEMMA LineStep ==
    ASSUME IniInv, LinesHeld, NEW e, LaidOut(e), NEW k \in 0 .. Len(file.doc) - 1,
           OnLine(e, k), HoldsUpTo(k), ini_parsebuf, file' = file, mem' = mem
    PROVE  Stepped(e, k)
<1>1. PICK line, b, c, sec, w :
          /\ line = file.doc[k + 1] /\ b = e[k] /\ c = e[k + 1]
          /\ sec = SectionAt(file.doc, k) /\ w = Written(line)
  OBVIOUS
<1>2. line \in Lines /\ LineAt(line, w, b, c)
  <2>1. /\ line \in Lines /\ WellFormedLine(line) /\ b \in Nat /\ c = b + Len(w)
        /\ c < Len(mem) /\ \A j \in 1 .. Len(w) : mem[b + j] = w[j]
    BY <1>1, LineIn
  <2> QED
    BY <1>1, <2>1, Zenon DEF LineAt
<1>3. file.doc \in Seq(Lines) /\ Len(file.doc) \in Nat
  BY DocType
<1>4. k \in Nat /\ k < Len(file.doc) /\ k \in 0 .. Len(file.doc)
  BY <1>3
<1>5. sec \in Strings
  BY <1>1, <1>3, <1>4, SectionAtType
<1>6. AtLine(b, sec) \/ InLine(line, b, c, sec)
  BY <1>1, Zenon DEF OnLine
<1>7. SectionAt(file.doc, k + 1) = IF line.kind = "section" THEN line.name ELSE sec
  BY <1>1, <1>4, SectionAtNext
<1>8. ASSUME line.kind # "pair", SameConfig PROVE outcome' = outcome /\ HoldsUpTo(k)' /\ HoldsUpTo(k + 1)'
  <2>1. \A section, key : Told(file.doc, k + 1, section, key) = Told(file.doc, k, section, key)
    BY <1>1, <1>3, <1>8, ToldNext
  <2>2. UNCHANGED << cfg, lost, file >> /\ outcome' = outcome
    BY <1>8, Zenon DEF SameConfig
  <2>3. HoldsUpTo(k)'
    BY <2>2, HoldsKept
  <2>4. HoldsUpTo(k + 1)'
    BY <2>1, <2>2, HoldsKept
  <2> QED
    BY <2>2, <2>3, <2>4
<1>9. CASE line.kind = "section"
  <2>1. PICK name, n : name = line.name /\ n = Len(name)
    OBVIOUS
  <2>2. SectionLies(b, c, name, n)
    BY <1>2, <1>9, <2>1, SectionPlaced, Zenon
  <2>3. AtLine(b, sec) \/ InName(b) \/ AtEnd(c, name)
    BY <1>6, <1>9, <2>1, Zenon DEF InLine
  <2>4. SameConfig /\ (InName(b)' \/ AtEnd(c, name)' \/ AtLine(c, name)')
    BY <2>2, <2>3, SectionStep
  <2>5. line.kind # "pair" /\ SectionAt(file.doc, k + 1) = name
    BY <1>7, <1>9, <2>1, Zenon
  <2>6. CASE InName(b)' \/ AtEnd(c, name)'
    <3>1. InLine(line, b, c, sec)'
      BY <1>9, <2>1, <2>6, Zenon DEF InLine
    <3>2. OnLine(e, k)'
      BY <1>1, <1>4, <3>1, StillOnLine, Zenon
    <3> QED
      BY <1>8, <2>4, <2>5, <3>2, Zenon DEF Stepped
  <2>7. CASE AtLine(c, name)'
    <3>1. OnLine(e, k + 1)'
      BY <1>1, <2>5, <2>7, OnNextLine, Zenon
    <3> QED
      BY <1>8, <2>4, <2>5, <3>1, Zenon DEF Stepped
  <2> QED
    BY <2>4, <2>6, <2>7, Zenon
<1>10. CASE line.kind = "comment"
  <2>1. CommentLies(b, c)
    BY <1>2, <1>10, CommentPlaced, Zenon
  <2>2. AtLine(b, sec) \/ InComment(b, sec)
    BY <1>6, <1>10, Zenon DEF InLine
  <2>3. SameConfig /\ (InComment(b, sec)' \/ AtLine(c, sec)')
    BY <2>1, <2>2, CommentStep
  <2>4. line.kind # "pair" /\ SectionAt(file.doc, k + 1) = sec
    BY <1>7, <1>10, Zenon
  <2>5. CASE InComment(b, sec)'
    <3>1. InLine(line, b, c, sec)'
      BY <1>10, <2>5, Zenon DEF InLine
    <3>2. OnLine(e, k)'
      BY <1>1, <1>4, <3>1, StillOnLine, Zenon
    <3> QED
      BY <1>8, <2>3, <2>4, <3>2, Zenon DEF Stepped
  <2>6. CASE AtLine(c, sec)'
    <3>1. OnLine(e, k + 1)'
      BY <1>1, <2>4, <2>6, OnNextLine, Zenon
    <3> QED
      BY <1>8, <2>3, <2>4, <3>1, Zenon DEF Stepped
  <2> QED
    BY <2>3, <2>5, <2>6, Zenon
<1>11. CASE line.kind = "blank"
  <2>1. BlankLies(b, c)
    BY <1>2, <1>11, BlankPlaced, Zenon
  <2>2. AtLine(b, sec)
    BY <1>6, <1>11, Zenon DEF InLine
  <2>3. SameConfig /\ AtLine(c, sec)'
    BY <2>1, <2>2, BlankStep
  <2>4. line.kind # "pair" /\ SectionAt(file.doc, k + 1) = sec
    BY <1>7, <1>11, Zenon
  <2>5. OnLine(e, k + 1)'
    BY <1>1, <2>3, <2>4, OnNextLine, Zenon
  <2> QED
    BY <1>8, <2>3, <2>4, <2>5, Zenon DEF Stepped
<1>12. CASE line.kind = "pair"
  <2>1. PICK name, value, n, v : /\ name = line.name /\ n = Len(name)
                                 /\ value = line.value /\ v = Len(value)
    OBVIOUS
  <2>2. PairLies(b, c, name, value, n, v)
    BY <1>2, <1>12, <2>1, PairPlaced, Zenon
  <2>3. AtLine(b, sec) \/ InKey(b, sec) \/ InValue(b, n, name, sec)
    BY <1>6, <1>12, <2>1, Zenon DEF InLine
  <2>4. \/ SameConfig /\ (InKey(b, sec)' \/ InValue(b, n, name, sec)')
        \/ /\ AtLine(c, sec)' /\ UNCHANGED << outcome, file, mem >>
           /\ \/ cfg' = assign_keyval(cfg, sec, name, value) /\ lost' = lost
              \/ lost' = TRUE
    BY <2>1, <2>2, <2>3, PairStep
  <2>5. SectionAt(file.doc, k + 1) = sec
    BY <1>7, <1>12, Zenon
  <2>6. CASE SameConfig /\ (InKey(b, sec)' \/ InValue(b, n, name, sec)')
    <3>1. InLine(line, b, c, sec)'
      BY <1>12, <2>1, <2>6, Zenon DEF InLine
    <3>2. OnLine(e, k)'
      BY <1>1, <1>4, <3>1, StillOnLine, Zenon
    <3>3. UNCHANGED << cfg, lost, file >> /\ outcome' = outcome
      BY <2>6, Zenon DEF SameConfig
    <3>4. HoldsUpTo(k)'
      BY <3>3, HoldsKept
    <3> QED
      BY <3>2, <3>3, <3>4, Zenon DEF Stepped
  <2>7. CASE /\ AtLine(c, sec)' /\ UNCHANGED << outcome, file, mem >>
             /\ \/ cfg' = assign_keyval(cfg, sec, name, value) /\ lost' = lost
                \/ lost' = TRUE
    <3>1. OnLine(e, k + 1)'
      BY <1>1, <2>5, <2>7, OnNextLine, Zenon
    <3>2. line.name # << >>
      <4>1. n > 0 /\ n \in Nat
        BY <2>2, Zenon DEF PairLies
      <4>2. Len(<< >>) = 0
        OBVIOUS
      <4>3. n # 0
        BY <4>1
      <4> QED
        BY <2>1, <4>2, <4>3, Zenon
    <3>3. \/ cfg' = assign_keyval(cfg, sec, line.name, line.value) /\ lost' = lost
          \/ lost' = TRUE
      BY <2>1, <2>7, Zenon
    <3>4. HoldsUpTo(k + 1)'
      BY <1>1, <1>5, <1>12, <3>2, <3>3, HoldsMore, Zenon
    <3> QED
      BY <2>7, <3>1, <3>4, Zenon DEF Stepped
  <2> QED
    BY <2>4, <2>6, <2>7, Zenon
<1>13. line.kind \in {"section", "pair", "comment", "blank"}
  BY <1>2, LineKinds
<1> QED
  BY <1>9, <1>10, <1>11, <1>12, <1>13, Zenon

LEMMA NothingHeld ==
    \A section, key : ini_get_value(ini_create, section, key) = NULL
<1> TAKE section, key
<1>1. PICK c, s : c = ini_create /\ s = << >>
  OBVIOUS
<1>2. c.globals = s /\ c.sections = s
  BY <1>1 DEF ini_create
<1>3. FirstNamed(s, section) = 0
  <2>1. s \in Seq(Sections) /\ \A i \in 1 .. Len(s) : s[i].name # section
    BY <1>1
  <2> QED
    BY <2>1, FirstNamedNone
<1>4. FirstValue(s, key) = NULL
  BY <1>1, EmptyValue, Zenon
<1>5. /\ section = << >> => ini_get_value(c, section, key) = FirstValue(s, key)
      /\ section # << >> => ini_get_value(c, section, key) = NULL
  BY <1>2, <1>3, GetIs
<1> QED
  BY <1>1, <1>4, <1>5, Zenon

LEMMA LinesInit == IniInit => LinesInv
<1> SUFFICES ASSUME IniInit PROVE LinesInv
  OBVIOUS
<1>1. TextInv
  BY TextInit
<1>2. outcome = "parsing" /\ bufp = 1 /\ state = "READY_FOR_DATA" /\ current_section = << >>
      /\ cfg = ini_create
  BY DEF IniInit
<1>3. ASSUME LinesHeld PROVE Reading
  <2>1. PICK e : LaidOut(e)
    BY <1>1, <1>3, LaidOutExists DEF TextInv
  <2>2. e[0] = 0 /\ 0 + 1 = 1 /\ 0 \in 0 .. Len(file.doc)
    <3>1. e[0] = 0
      BY <2>1, Zenon DEF LaidOut
    <3>2. Len(file.doc) \in Nat
      BY <1>1, <1>3, DocType DEF TextInv
    <3> QED
      BY <3>1, <3>2
  <2>3. OnLine(e, 0)
    BY <1>2, <2>2, SectionAtStart, Zenon DEF OnLine, AtLine
  <2>4. HoldsUpTo(0)
    BY <1>2, NothingHeld, ToldAtStart, Zenon DEF HoldsUpTo
  <2> QED
    BY <2>1, <2>2, <2>3, <2>4, Zenon DEF Reading
<1> QED
  BY <1>1, <1>2, <1>3, Zenon DEF LinesInv, LinesRead

\* A step while the file is parsed, inside its lines or behind the last one.
LEMMA ParseStep ==
    ASSUME TextInv, LinesHeld, Reading, outcome = "parsing", ini_parsebuf,
           file' = file, mem' = mem
    PROVE  \/ outcome' = "parsing" /\ Reading'
           \/ outcome' = "parsed" /\ HoldsUpTo(Len(file.doc))'
<1>1. PICK e, k : LaidOut(e) /\ k \in 0 .. Len(file.doc) /\ OnLine(e, k) /\ HoldsUpTo(k)
  BY Zenon DEF Reading
<1>2. IniInv /\ Len(file.doc) \in Nat
  BY DocType DEF TextInv
<1>3. LaidOut(e)'
  BY <1>1, SameMeaning
<1>4. CASE k # Len(file.doc)
  <2>1. k \in 0 .. Len(file.doc) - 1 /\ k + 1 \in 0 .. Len(file'.doc) /\ k \in 0 .. Len(file'.doc)
    BY <1>1, <1>2, <1>4
  <2>2. Stepped(e, k)
    BY <1>1, <1>2, <2>1, LineStep
  <2> QED
    BY <1>3, <2>1, <2>2, Zenon DEF Stepped, Reading
<1>5. CASE k = Len(file.doc)
  <2>1. ~(k < Len(file.doc))
    BY <1>2, <1>5
  <2>2. AtLine(e[k], SectionAt(file.doc, k))
    BY <1>1, <2>1, Zenon DEF OnLine
  <2>3. bufp = e[k] + 1 /\ mem[bufp] = "NUL"
    <3>1. mem[e[k] + 1] = "NUL"
      BY <1>1, <1>5, Zenon DEF LaidOut
    <3> QED
      BY <2>2, <3>1, Zenon DEF AtLine
  <2>4. ~(bufp > Len(mem))
    <3>1. e[k] \in Nat /\ e[k] < Len(mem)
      <4>1. e \in [0 .. Len(file.doc) -> Nat] /\ e[k] < Len(mem)
        BY <1>1, Zenon DEF LaidOut
      <4> QED
        BY <1>1, <4>1
    <3>2. Len(mem) \in Nat
      BY <1>2, LenProperties DEF IniInv, IniTypeOK
    <3> QED
      BY <2>3, <3>1, <3>2
  <2>5. ~Going
    BY <2>3, Zenon DEF Going
  <2>6. Done
    BY <2>5, Zenon DEF ini_parsebuf, Ready, Comment, SectionName, Key, Value
  <2>7. outcome' = "parsed" /\ UNCHANGED << cfg, lost, file >>
    BY <2>4, <2>6, Zenon DEF Done
  <2>8. HoldsUpTo(k)'
    BY <1>1, <2>7, HoldsKept
  <2> QED
    BY <1>5, <2>7, <2>8, Zenon DEF HoldsUpTo
<1> QED
  BY <1>4, <1>5

LEMMA LinesStay == LinesRead /\ UNCHANGED iniVars => LinesRead'
<1> SUFFICES ASSUME LinesRead, UNCHANGED iniVars PROVE LinesRead'
  OBVIOUS
<1>1. UNCHANGED << file, mem, bufp, state, current_section, current_key, cfg, outcome, lost >>
  BY DEF iniVars
<1>2. (LinesHeld' <=> LinesHeld) /\ \A e : LaidOut(e)' <=> LaidOut(e)
  BY <1>1, SameMeaning
<1>3. ASSUME NEW e, NEW k PROVE OnLine(e, k)' <=> OnLine(e, k)
  BY <1>1 DEF OnLine, InLine, AtLine, InName, AtEnd, InComment, InKey, InValue
<1>4. ASSUME NEW k, HoldsUpTo(k) PROVE HoldsUpTo(k)'
  BY <1>1, <1>4, HoldsKept
<1>5. Reading => Reading'
  <2> SUFFICES ASSUME Reading PROVE Reading'
    OBVIOUS
  <2>1. PICK e, k : LaidOut(e) /\ k \in 0 .. Len(file.doc) /\ OnLine(e, k) /\ HoldsUpTo(k)
    BY Zenon DEF Reading
  <2>2. LaidOut(e)' /\ k \in 0 .. Len(file'.doc) /\ OnLine(e, k)' /\ HoldsUpTo(k)'
    BY <1>1, <1>2, <1>3, <1>4, <2>1
  <2> QED
    BY <2>2, Zenon DEF Reading
<1>6. HoldsUpTo(Len(file.doc)) => HoldsUpTo(Len(file.doc))'
  <2> SUFFICES ASSUME HoldsUpTo(Len(file.doc)) PROVE HoldsUpTo(Len(file.doc))'
    OBVIOUS
  <2>1. PICK k : k = Len(file.doc)
    OBVIOUS
  <2>2. HoldsUpTo(k)' /\ k = Len(file'.doc)
    BY <1>1, <1>4, <2>1
  <2> QED
    BY <2>2, Zenon DEF HoldsUpTo
<1>7. outcome' = outcome /\ bufp' = bufp
  BY <1>1
<1> QED
  BY <1>2, <1>5, <1>6, <1>7, Zenon DEF LinesRead

LEMMA LinesStep == LinesInv /\ [ini_parsebuf \/ ini_parse_Fails]_iniVars => LinesInv'
<1> SUFFICES ASSUME LinesInv, [ini_parsebuf \/ ini_parse_Fails]_iniVars
             PROVE  LinesInv'
  OBVIOUS
<1>1. TextInv /\ TextInv'
  BY TextStep DEF LinesInv
<1>2. file' = file /\ mem' = mem
  BY DEF ini_parsebuf, ini_parse_Fails, Ready, Comment, SectionName, Key, Value,
         Done, Fail, Astray, iniVars
<1>3. LinesRead'
  <2>1. CASE UNCHANGED iniVars
    BY <2>1, LinesStay DEF LinesInv
  <2>2. CASE ini_parsebuf \/ ini_parse_Fails
    <3>1. outcome = "parsing"
      BY <2>2, Zenon DEF ini_parsebuf, ini_parse_Fails, Ready, Comment, SectionName, Key,
                         Value, Done, Going
    <3> SUFFICES ASSUME LinesHeld' PROVE LinesRead'
      BY Zenon DEF LinesRead
    <3>2. LinesHeld /\ Reading
      BY <1>2, <3>1, SameMeaning, Zenon DEF LinesInv, LinesRead
    <3>3. CASE ini_parsebuf
      <4>1. \/ outcome' = "parsing" /\ Reading'
            \/ outcome' = "parsed" /\ HoldsUpTo(Len(file.doc))'
        BY <1>1, <1>2, <3>1, <3>2, <3>3, ParseStep
      <4> QED
        BY <1>2, <4>1, Zenon DEF LinesRead
    <3>4. CASE ini_parse_Fails
      <4>1. outcome' = "failed" /\ bufp' = 1
        BY <3>4, Zenon DEF ini_parse_Fails, Fail
      <4> QED
        BY <4>1, Zenon DEF LinesRead
    <3> QED
      BY <2>2, <3>3, <3>4
  <2> QED
    BY <2>1, <2>2
<1> QED
  BY <1>1, <1>3 DEF LinesInv

LEMMA LinesParsed == LinesInv => WellFormedParsed
<1>1. ASSUME LinesInv, LinesHeld
      PROVE  /\ outcome = "failed" => bufp = 1
             /\ outcome = "parsed" /\ ~lost => \A section, key :
                   ini_get_value(cfg, section, key) = Meaning(file.doc, section, key)
  BY <1>1, MeaningIsTold, Zenon DEF LinesInv, LinesRead, HoldsUpTo
<1> SUFFICES ASSUME LinesInv, LinesHeld PROVE WellFormedParsed
  BY Zenon DEF WellFormedParsed, LinesHeld
<1> QED
  BY <1>1, Zenon DEF WellFormedParsed

\* A file of well-formed lines that ends with a newline, a terminator behind
\* it, is parsed, and every lookup then finds what the lines say: no pair is
\* lost, cut, taken from a comment or put into another section.
THEOREM WellFormedParsedCorrect == IniSpec => []WellFormedParsed
BY LinesInit, LinesStep, LinesParsed, PTL DEF IniSpec
=============================================================================
