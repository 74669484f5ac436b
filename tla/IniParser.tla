----------------------------- MODULE IniParser -----------------------------
(***************************************************************************)
(* The configuration parser of lib/ini.c: ini_parsebuf, the lists it fills *)
(* and ini_get_value.  One action per case of the parser's switch, with    *)
(* the inner loops of the case and the bufp++ behind it.                   *)
(*                                                                         *)
(* ini_parse reads the file into a block of exactly its size and writes no *)
(* terminator behind it, so the parser walks on over whatever memory holds *)
(* there: mem is the file followed by those bytes.                         *)
(***************************************************************************)
EXTENDS Integers, Sequences, SequencesExt

CONSTANTS
    Letters,   \* the characters the parser does not tell apart
    Files,     \* what the file may be: [text, doc], see Render
    Leftovers, \* what may lie in memory behind the file
    TmpSize    \* sizeof(tmp), and of the three strings it is copied to

Special == {"#", "[", "]", "=", " ", "TAB", "LF", "CR", "NUL"}
Chars   == Letters \cup Special

ASSUME IniAssumption ==
    /\ Letters \cap Special = {}
    /\ \A f \in Files : f.text \in Seq(Chars \ {"NUL"})
    /\ Leftovers \subseteq Seq(Chars)
    /\ TmpSize \in Nat /\ TmpSize > 1

VARIABLES
    file,            \* the file read
    mem,             \* the bytes from filebuf on
    bufp,            \* index into mem of the next byte
    state,           \* the parser's state
    current_section,
    current_key,
    cfg,             \* the configuration
    outcome,         \* what became of the parse
    lost             \* history: an allocation failed and a pair was dropped

iniVars == << file, mem, bufp, state, current_section, current_key, cfg,
              outcome, lost >>

States   == {"READY_FOR_DATA", "COMMENT", "SECTION_NAME", "KEY", "VALUE"}
Outcomes == {"parsing", "parsed", "freed", "failed", "misused", "astray"}
Strings  == Seq(Chars \ {"NUL"})
NULL     == << "NUL" >>   \* the null pointer: no string
Pairs    == [name : Strings, value : Strings]
Sections == [name : Strings, keyvals : Seq(Pairs)]
Configs  == [globals : Seq(Pairs), sections : Seq(Sections)]

IniTypeOK ==
    /\ file \in Files
    /\ mem \in Seq(Chars)
    /\ bufp \in 1 .. Len(mem) + 1
    /\ state \in States
    /\ current_section \in Strings /\ Len(current_section) < TmpSize
    /\ current_key \in Strings /\ Len(current_key) <= TmpSize
    /\ cfg \in Configs
    /\ outcome \in Outcomes
    /\ lost \in BOOLEAN

ini_create == [globals |-> << >>, sections |-> << >>]

\* Every pair and section is freed with the configuration.
ini_free == cfg' = ini_create

\* ini_parse opened and read a file that is not empty.
IniInit ==
    /\ file \in { f \in Files : f.text # << >> }
    /\ \E behind \in Leftovers : mem = file.text \o behind
    /\ bufp = 1
    /\ state = "READY_FOR_DATA"
    /\ current_section = << >>
    /\ current_key = << >>
    /\ cfg = ini_create
    /\ outcome = "parsing"
    /\ lost = FALSE

-----------------------------------------------------------------------------
(* The lists *)

\* find_section, which find_or_create_section repeats: the index of the first
\* section of that name, or 0.
find_section(c, name) == SelectInSeq(c.sections, LAMBDA s : s.name = name)

\* add_keyval appends; of two pairs with one name the first stays in front.
\* Before it, the slip of putting the new pair in front.
add_keyval_InFront(pairs, pair) == << pair >> \o pairs

add_keyval(pairs, pair) == Append(pairs, pair)

find_or_create_section(c, name) ==
    IF find_section(c, name) # 0 THEN c
    ELSE [c EXCEPT !.sections = Append(@, [name |-> name, keyvals |-> << >>])]

assign_keyval(c, section, name, value) ==
    LET pair == [name |-> name, value |-> value]
        held == find_or_create_section(c, section)
    IN IF name = << >> THEN c
       ELSE IF section = << >>
       THEN [c EXCEPT !.globals = add_keyval(@, pair)]
       ELSE [held EXCEPT !.sections[find_section(held, section)].keyvals =
                 add_keyval(@, pair)]

FirstValue(pairs, key) ==
    LET i == SelectInSeq(pairs, LAMBDA p : p.name = key) IN
    IF i = 0 THEN NULL ELSE pairs[i].value

\* The value of the first pair of that name in the section, the empty name
\* standing for the pairs before any section; NULL if there is none.
ini_get_value(c, section, key) ==
    IF section = << >> THEN FirstValue(c.globals, key)
    ELSE IF find_section(c, section) = 0 THEN NULL
    ELSE FirstValue(c.sections[find_section(c, section)].keyvals, key)

-----------------------------------------------------------------------------
(* The parser *)

\* The first position from p on that holds one of these characters, or one
\* past the memory modelled.
Stop(set, p) ==
    CHOOSE q \in p .. Len(mem) + 1 :
        /\ q <= Len(mem) => mem[q] \in set
        /\ \A i \in p .. q - 1 : mem[i] \notin set

Smaller(a, b) == IF a < b THEN a ELSE b

\* The loop's condition: there is a byte, and it is not the terminator.
Going ==
    /\ outcome = "parsing"
    /\ bufp <= Len(mem)
    /\ mem[bufp] # "NUL"

\* "state = next; bufp++" behind a case that stopped at p.
Advance(next, p) ==
    /\ p <= Len(mem)
    /\ state' = next
    /\ bufp' = p + 1

\* goto fail: NULL is returned for the configuration.
Fail ==
    /\ outcome' = "failed"
    /\ ini_free
    /\ UNCHANGED << file, mem, bufp, state, current_section, current_key, lost >>

\* A case that runs off the memory modelled is not followed.
Astray(p) ==
    /\ p > Len(mem)
    /\ outcome' = "astray"
    /\ UNCHANGED << file, mem, bufp, state, current_section, current_key, cfg,
                    lost >>

\* A slip: "continue" for what starts nothing, which passes over the bufp++.
Ready_Continues ==
    /\ Going
    /\ state = "READY_FOR_DATA"
    /\ IF mem[bufp] \in {"LF", " "} THEN UNCHANGED << state, bufp >>
       ELSE Advance(CASE mem[bufp] = "#" -> "COMMENT"
                      [] mem[bufp] = "[" -> "SECTION_NAME"
                      [] OTHER           -> "KEY", bufp)
    /\ UNCHANGED << file, mem, current_section, current_key, cfg, outcome, lost >>

\* "#" stands for ';' too.  All else but a newline or a space begins a key.
Ready ==
    /\ Going
    /\ state = "READY_FOR_DATA"
    /\ Advance(CASE mem[bufp] = "#"           -> "COMMENT"
                 [] mem[bufp] = "["           -> "SECTION_NAME"
                 [] mem[bufp] \in {"LF", " "} -> "READY_FOR_DATA"
                 [] OTHER                     -> "KEY", bufp)
    /\ UNCHANGED << file, mem, current_section, current_key, cfg, outcome, lost >>

\* A slip: only a carriage return or a tab ends a comment.
CommentEnd_NoNewline == {"CR", "TAB", "NUL"}
CommentEnd == {"CR", "LF", "TAB", "NUL"}

\* A comment that the terminator ends takes bufp past it.
Comment ==
    /\ Going
    /\ state = "COMMENT"
    /\ LET stop == Stop(CommentEnd, bufp) IN
       \/ Astray(stop)
       \/ /\ Advance("READY_FOR_DATA", stop)
          /\ UNCHANGED << file, mem, current_section, current_key, cfg, outcome,
                          lost >>

\* At most TmpSize - 1 characters are taken; a longer name is cut there, the
\* character after it skipped and the rest taken for new data.
SectionName ==
    /\ Going
    /\ state = "SECTION_NAME"
    /\ LET end  == Stop({"]", "LF", "NUL"}, bufp)
           stop == Smaller(end, bufp + TmpSize - 1)
       IN \/ Astray(stop)
          \/ /\ stop <= Len(mem)
             /\ stop < bufp + TmpSize - 1
             /\ mem[stop] # "]"
             /\ Fail
          \/ /\ Advance("READY_FOR_DATA", stop)
             /\ stop = bufp + TmpSize - 1 \/ mem[stop] = "]"
             /\ current_section' = SubSeq(mem, bufp, stop - 1)
             /\ UNCHANGED << file, mem, current_key, cfg, outcome, lost >>

\* The key's first character was taken by Ready: bufp--.  Before it, the slip
\* of not going back.
KeyStart_NotBack == bufp
KeyStart == bufp - 1

\* At most TmpSize characters are taken, and what follows up to the "=" is
\* skipped, spaces or not.
Key ==
    /\ Going
    /\ state = "KEY"
    /\ LET end  == Stop({" ", "TAB", "=", "LF", "NUL"}, KeyStart)
           stop == Smaller(end, KeyStart + TmpSize)
           sign == Stop({"=", "LF", "NUL"}, stop)
       IN \/ Astray(sign)
          \/ sign <= Len(mem) /\ mem[sign] # "=" /\ Fail
          \/ /\ sign <= Len(mem) /\ mem[sign] = "="
             /\ Advance("VALUE", sign)
             /\ current_key' = SubSeq(mem, KeyStart, stop - 1)
             /\ UNCHANGED << file, mem, current_section, cfg, outcome, lost >>

\* A slip: the value is copied up to the terminator.
ValueEnd_TerminatorOnly == {"NUL"}
ValueEnd == {"LF", "NUL"}

\* A pair is assigned, or not for want of memory: then it is dropped, without
\* its section or with it, and the parse goes on.  (strdup, unchecked in the
\* code, is taken to succeed.)
Assign(value) ==
    \/ /\ cfg' = assign_keyval(cfg, current_section, current_key, value)
       /\ UNCHANGED lost
    \/ /\ current_key # << >>
       /\ cfg' \in { cfg, IF current_section = << >> THEN cfg
                          ELSE find_or_create_section(cfg, current_section) }
       /\ lost' = TRUE

\* The copy has no bound.  TmpSize characters leave the string without a
\* terminator, more are written past tmp; and a key of TmpSize characters has
\* no terminator either.  What follows then is not the program's any more.
Value ==
    /\ Going
    /\ state = "VALUE"
    /\ LET begin == Stop(Chars \ {" ", "TAB"}, bufp)
           end   == Stop(ValueEnd, begin)
       IN \/ Astray(end)
          \/ /\ end <= Len(mem)
             /\ end - begin >= TmpSize \/ Len(current_key) = TmpSize
             /\ outcome' = "misused"
             /\ UNCHANGED << file, mem, bufp, state, current_section,
                             current_key, cfg, lost >>
          \/ /\ end <= Len(mem)
             /\ end - begin < TmpSize /\ Len(current_key) < TmpSize
             /\ Advance("READY_FOR_DATA", end)
             /\ Assign(SubSeq(mem, begin, end - 1))
             /\ UNCHANGED << file, mem, current_section, current_key, outcome >>

\* The loop ends at a terminator, in whatever state it was.
Done ==
    /\ outcome = "parsing"
    /\ \/ bufp > Len(mem) /\ outcome' = "astray"
       \/ bufp <= Len(mem) /\ mem[bufp] = "NUL" /\ outcome' = "parsed"
    /\ UNCHANGED << file, mem, bufp, state, current_section, current_key, cfg,
                    lost >>

ini_parsebuf == Ready \/ Comment \/ SectionName \/ Key \/ Value \/ Done

\* ini_parse without a buffer: the file cannot be opened or read, or there is
\* no memory for it or for the configuration.
ini_parse_Fails ==
    /\ outcome = "parsing" /\ bufp = 1 /\ state = "READY_FOR_DATA"
    /\ Fail

IniSpec == IniInit /\ [][ini_parsebuf \/ ini_parse_Fails]_iniVars

-----------------------------------------------------------------------------
(* What a file is meant to say: a sequence of lines, with the names and      *)
(* values the parser has room for, and how they are written down.            *)

SectionLine(name)    == [kind |-> "section", name |-> name]
PairLine(key, value) == [kind |-> "pair", name |-> key, value |-> value]
CommentLine(text)    == [kind |-> "comment", name |-> text]
BlankLine            == [kind |-> "blank"]

Written(line) ==
    CASE line.kind = "section" -> << "[" >> \o line.name \o << "]", "LF" >>
      [] line.kind = "pair"    -> line.name \o << " ", "=", " " >>
                                      \o line.value \o << "LF" >>
      [] line.kind = "comment" -> << "#" >> \o line.name \o << "LF" >>
      [] line.kind = "blank"   -> << "LF" >>

Render(doc) == FlattenSeq([i \in 1 .. Len(doc) |-> Written(doc[i])])

\* The lines a file may be made of: names without what ends them, values that
\* begin with no space, and room in the parser's strings for both.
Lines == [kind : {"section", "comment"}, name : Strings]
    \cup [kind : {"pair"}, name : Strings, value : Strings]
    \cup [kind : {"blank"}]

Without(str, set) == \A i \in 1 .. Len(str) : str[i] \notin set

WellFormedLine(line) ==
    /\ line.kind = "section" =>
          Len(line.name) < TmpSize /\ Without(line.name, {"]", "LF"})
    /\ line.kind = "comment" => Without(line.name, {"CR", "LF", "TAB"})
    /\ line.kind = "pair" =>
          /\ Len(line.name) \in 1 .. TmpSize - 1
          /\ Without(line.name, {" ", "TAB", "=", "LF"})
          /\ line.name[1] \notin {"#", "["}
          /\ Len(line.value) < TmpSize
          /\ Without(line.value, {"LF"})
          /\ line.value # << >> => line.value[1] \notin {" ", "TAB"}

\* The text of a file is its lines, or is cut before the last newline.
ASSUME FilesAssumption ==
    \A f \in Files : f.doc # << >> =>
        /\ f.doc \in Seq(Lines)
        /\ \A i \in 1 .. Len(f.doc) : WellFormedLine(f.doc[i])
        /\ Last(f.text) = "LF" => f.text = Render(f.doc)

SectionAt(doc, i) ==
    LET j == SelectLastInSubSeq(doc, 1, i, LAMBDA line : line.kind = "section")
    IN IF j = 0 THEN << >> ELSE doc[j].name

\* What the lines say of a key: the first line that gives it a value in the
\* section decides.
Meaning(doc, section, key) ==
    LET says == { i \in 1 .. Len(doc) :
                      /\ doc[i].kind = "pair" /\ doc[i].name = key
                      /\ SectionAt(doc, i) = section }
    IN IF says = {} THEN NULL
       ELSE doc[CHOOSE i \in says : \A j \in says : i <= j].value

-----------------------------------------------------------------------------
(* Properties *)

\* The text ends with a newline, and a terminator happens to be behind it.
Terminated ==
    /\ Last(file.text) = "LF"
    /\ Len(mem) > Len(file.text)
    /\ mem[Len(file.text) + 1] = "NUL"

\* The parser never looks at a byte behind the terminator.  Without the last
\* newline it does: a value or a comment that the terminator ends is stepped
\* over by the bufp++ of the loop.
StaysInText ==
    Terminated => bufp <= Len(file.text) + 1 /\ outcome # "astray"

\* No line has TmpSize characters.
ShortLines ==
    \A i \in 1 .. Len(file.text) - TmpSize + 1 :
        \E j \in i .. i + TmpSize - 1 : file.text[j] = "LF"

\* The copies into tmp, one of which has no bound, stay inside it and leave
\* their terminator, if every line is shorter than tmp.
ShortLinesFit == Terminated /\ ShortLines => outcome # "misused"

NamesOf(lines, kind) ==
    { lines[i].name : i \in { j \in 1 .. Len(lines) : lines[j].kind = kind } }

KeysHeld ==
    UNION { { pairs[i].name : i \in 1 .. Len(pairs) } :
                pairs \in { cfg.globals } \cup
                    { cfg.sections[i].keyvals : i \in 1 .. Len(cfg.sections) } }

\* A file of well-formed lines is parsed, and every key is then found with the
\* value the file gives it first in that section, and no other: no pair is
\* lost, cut, taken from a comment or put into another section.
WellFormedParsed ==
    file.doc # << >> /\ Terminated =>
        /\ outcome = "failed" => bufp = 1
        /\ outcome = "parsed" /\ ~lost =>
              \A section \in {<< >>} \cup NamesOf(file.doc, "section"),
                 key \in NamesOf(file.doc, "pair") \cup KeysHeld :
                  ini_get_value(cfg, section, key) = Meaning(file.doc, section, key)
=============================================================================
