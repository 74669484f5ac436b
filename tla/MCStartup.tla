----------------------------- MODULE MCStartup -----------------------------
(***************************************************************************)
(* Constants for model-checking Startup: every short text, and every file  *)
(* of the shape of resources/config.ini, with and without its last         *)
(* newline.  The strings of the parser have 3 characters for the real 256, *)
(* ports are below 16 for 65536, and LONG_MAX is 20.                       *)
(***************************************************************************)
EXTENDS Startup

CONSTANTS
    RawChars,  \* characters of the short texts
    RawLen     \* bound: their length

MCLetters == {"l", "w", "a", "p", "1", "9", "+", "-"}
MCDigits  == [d \in {"1", "9"} |-> IF d = "1" THEN 1 ELSE 9]

\* Behind the short texts, names and values as long as the strings or longer.
Tails == BoundedSeq({"a", "LF", "="}, 3)
RawTexts == BoundedSeq(RawChars, RawLen)
    \cup { << "a", "=" >> \o t : t \in Tails }
    \cup { << "a", "a", "a" >> \o t : t \in Tails }
    \cup { << "[", "a", "a", "a" >> \o t : t \in Tails }

RawFiles == { [text |-> t, doc |-> << >>] : t \in RawTexts \ {<< >>} }

\* The lines of a section: its address and port, one of them missing, blank,
\* a comment or given twice; ports with a sign or a blank in front, beyond the
\* ports, beyond a long, and no numbers.
Plain(port_) == << PairLine(<< "a" >>, << "1" >>), PairLine(<< "p" >>, port_) >>

Bodies ==
    { << PairLine(<< "a" >>, addr), PairLine(<< "p" >>, << "1" >>) >> :
          addr \in {<< "a" >>, << >>} }
    \cup { Plain(port_) :
              port_ \in {<< "1" >>, << "9" >>, << "1", "9" >>, << "9", "9" >>, << "-", "1" >>,
                         << "+", "9" >>, << "CR", "1" >>, << "+", "-" >>, << "p" >>,
                         << "9", "p" >>} }
    \cup { << PairLine(<< "a" >>, << "1" >>), other >> :
              other \in {BlankLine, CommentLine(<< "p", "=" >>),
                         PairLine(<< "a" >>, << "9" >>)} }
    \cup { << other, PairLine(<< "p" >>, << "1" >>) >> :
              other \in {BlankLine, PairLine(<< "p" >>, << "9" >>)} }

Docs == { << SectionLine(<< "l" >>) >> \o x \o << SectionLine(<< "w" >>) >> \o y :
              << x, y >> \in (Bodies \X {Plain(<< "1" >>)})
                        \cup ({Plain(<< "9" >>)} \X Bodies) }

DocFiles == { [text |-> Render(d), doc |-> d] : d \in Docs }
       \cup { [text |-> Front(Render(d)), doc |-> d] :
                   d \in { e \in Docs : Last(e) # BlankLine } }

MCFiles     == RawFiles \cup DocFiles
MCLeftovers == {<< "NUL", "NUL" >>, << "NUL", "a", "NUL" >>, << "a", "NUL" >>}
MCAddresses == {<< "1" >>}
MCListener  == << "l" >>
MCApi       == << "w" >>
MCAddress   == << "a" >>
MCPort      == << "p" >>
=============================================================================
