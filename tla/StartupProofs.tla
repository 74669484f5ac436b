--------------------------- MODULE StartupProofs ---------------------------
(***************************************************************************)
(* Proofs about Startup: what a node has when it starts to serve, and what *)
(* main's two ways out free.                                               *)
(***************************************************************************)
EXTENDS Startup, IniParserProofs

-----------------------------------------------------------------------------
(* The configuration that GetValues looks in is one: IniInv of the parser    *)
(* holds in main too, which frees it.                                        *)

LEMMA IniInMain == IniInv /\ [Next]_vars => IniInv'
<1> SUFFICES ASSUME IniInv, [Next]_vars PROVE IniInv'
  OBVIOUS
<1>1. CASE UNCHANGED iniVars
  BY <1>1, IniStepInv
<1>2. CASE ReadConfig
  BY <1>2, IniStepInv DEF ReadConfig
<1>3. CASE GetValues
  <2>1. ini_create \in Configs
    BY DEF ini_create, Configs
  <2> QED
    BY <1>3, <2>1 DEF GetValues, ini_free, IniInv, IniTypeOK, KeyBegun, Outcomes
<1> QED
  BY <1>1, <1>2, <1>3
     DEF Next, Main, NoConfig, ConvertPorts, event_base_new, vcmp_listener_init,
         ws_server_init, DispatchReturns, ErrorExit, accept_error_cb, vars

LEMMA IniAtStart == Init => IniInv
BY IniInitInv DEF Init

\* The value of a pair is a string, or there is none.
LEMMA FirstValueType ==
    ASSUME NEW pairs \in Seq(Pairs), NEW key
    PROVE  FirstValue(pairs, key) \in Strings \cup {NULL}
BY FirstValueIs, Zenon

LEMMA GetValueType ==
    ASSUME NEW c \in Configs, NEW section, NEW key
    PROVE  ini_get_value(c, section, key) \in Strings \cup {NULL}
<1>1. PICK i : i = find_section(c, section)
  OBVIOUS
<1>2. c.globals \in Seq(Pairs) /\ c.sections \in Seq(Sections)
  BY DEF Configs
<1>3. i \in 0 .. Len(c.sections) /\ Len(c.sections) \in Nat
  <2>1. i = FirstNamed(c.sections, section)
    BY <1>1, FindIs, Zenon
  <2> QED
    BY <1>2, <2>1, FirstNamedIn, LenProperties
<1>4. i # 0 => FirstValue(c.sections[i].keyvals, key) \in Strings \cup {NULL}
  <2> SUFFICES ASSUME i # 0
               PROVE  FirstValue(c.sections[i].keyvals, key) \in Strings \cup {NULL}
    OBVIOUS
  <2>1. i \in 1 .. Len(c.sections)
    BY <1>3
  <2>2. c.sections[i] \in Sections
    BY <1>2, <2>1, ElementOfSeq
  <2>3. c.sections[i].keyvals \in Seq(Pairs)
    BY <2>2 DEF Sections
  <2> QED
    BY <2>3, FirstValueType
<1>5. FirstValue(c.globals, key) \in Strings \cup {NULL}
  BY <1>2, FirstValueType
<1> QED
  BY <1>1, <1>4, <1>5 DEF ini_get_value

\* A string, the null pointer and a pointer never set are told apart.
LEMMA UnsetIsNone == Unset \notin Strings \cup {NULL} /\ NULL \notin Strings
<1>1. Len(Unset) = 2 /\ Len(NULL) = 1 /\ Unset[1] = "NUL" /\ NULL[1] = "NUL"
  BY DEF Unset, NULL
<1>2. ASSUME NEW str \in Strings, Len(str) > 0 PROVE str[1] # "NUL"
  <2>1. 1 \in 1 .. Len(str)
    BY <1>2, LenProperties DEF Strings
  <2>2. str[1] \in Chars \ {"NUL"}
    BY <2>1, ElementOfSeq DEF Strings
  <2> QED
    BY <2>2
<1> QED
  BY <1>1, <1>2, SMTT(40)

-----------------------------------------------------------------------------
(* What is allocated, statement by statement.  A base pointer or a port      *)
(* string that is not NULL names a block, until main has freed it; one that  *)
(* was never set names none, and only before the base is created.            *)

Exits  == {"exit 0", "exit 1"}
Served == {"base", "listener", "api", "serving"}

HeapInv ==
    /\ DOMAIN bound = Servers
    /\ pc \in {"parsing", "ports", "base"} => base = "unset"
    /\ pc \in {"listener", "api", "serving"} => base = "base"
    /\ pc \in {"api", "serving"} => {KeyBlock, << "socket", "listener" >>} \subseteq heap
    /\ pc \in Served => \A s \in Servers : port_str[s] = NULL
    /\ pc \notin Exits => (BaseBlock \in heap <=> base = "base")
    /\ pc \notin Exits => \A s \in Servers :
          << "port", s >> \in heap <=> port_str[s] \notin {NULL, Unset}
    /\ \A s \in Servers : port_str[s] = Unset => base = "unset"
    /\ doubled => pc = "exit 1"

MainInv == HeapInv /\ ServingIsComplete /\ ExitsFreeOnce

LEMMA MainInit == Init => MainInv
BY UnsetIsNone DEF Init, MainInv, HeapInv, ServingIsComplete, ExitsFreeOnce, Served, Exits

LEMMA BlocksDiffer ==
    /\ BaseBlock # KeyBlock
    /\ \A s \in Servers : << "port", s >> \notin {BaseBlock, KeyBlock}
    /\ \A s, t \in Servers :
          /\ << "socket", s >> \notin {BaseBlock, KeyBlock, << "port", t >>}
          /\ << "address", s >> \notin {BaseBlock, KeyBlock, << "port", t >>}
          /\ << "port", s >> = << "port", t >> => s = t
BY DEF BaseBlock, KeyBlock, Servers

\* Steps that change none of what the invariant is about but pc.
LEMMA MainElsewhere ==
    ASSUME MainInv, UNCHANGED << base, port_str, port, heap, bound, ctx, doubled >>,
           pc' = pc \/ (pc \notin Exits /\ pc' \in {"error", "crashed"})
    PROVE  MainInv'
BY DEF MainInv, HeapInv, ServingIsComplete, ExitsFreeOnce, Served, Exits, PortBlocks

\* A string that was copied has its block; one that was not is NULL.
LEMMA CopiesAre ==
    ASSUME NEW failed \in SUBSET Found, NEW s \in Servers
    PROVE  /\ Copies("address", failed)[s] \in {NULL, Lookup(s, AddressKey)}
           /\ Copies("port", failed)[s] \in {NULL, Lookup(s, PortKey)}
           /\ << "port", s >> \in Found \ failed <=> Copies("port", failed)[s] # NULL
           /\ failed = {} =>
                 /\ Copies("address", failed)[s] = Lookup(s, AddressKey)
                 /\ Copies("port", failed)[s] = Lookup(s, PortKey)
<1>1. KeyOf["address"] = AddressKey /\ KeyOf["port"] = PortKey
  BY DEF KeyOf
<1>2. << "port", s >> \in Found <=> Lookup(s, PortKey) # NULL
  BY <1>1 DEF Found
<1>3. ASSUME NEW kind \in {"address", "port"}
      PROVE  Copies(kind, failed)[s] = IF << kind, s >> \in failed THEN NULL
                                       ELSE Lookup(s, KeyOf[kind])
  BY DEF Copies
<1>4. /\ Copies("address", failed)[s] = IF << "address", s >> \in failed THEN NULL
                                        ELSE Lookup(s, AddressKey)
      /\ Copies("port", failed)[s] = IF << "port", s >> \in failed THEN NULL
                                     ELSE Lookup(s, PortKey)
  BY <1>1, <1>3, Zenon
<1> QED
  BY <1>2, <1>4

LEMMA FoundBlocks ==
    /\ BaseBlock \notin Found
    /\ Found \subseteq Blocks
BY DEF Found, BaseBlock, Blocks

LEMMA ValuesInv == MainInv /\ IniInv /\ GetValues => MainInv'
<1> SUFFICES ASSUME MainInv, IniInv, GetValues PROVE MainInv'
  OBVIOUS
<1>1. PICK failed \in SUBSET Found :
          port_str' = Copies("port", failed) /\ heap' = Found \ failed
  BY Zenon DEF GetValues
<1>2. /\ pc = "parsing" /\ pc' = "ports"
      /\ UNCHANGED << base, port, bound, ctx, doubled >>
  BY DEF GetValues, Goto
<1>3. \A s \in Servers : port_str'[s] # Unset
  <2> TAKE s \in Servers
  <2>1. port_str'[s] \in {NULL, Lookup(s, PortKey)}
    BY <1>1, CopiesAre, Zenon
  <2>2. cfg \in Configs
    BY DEF IniInv, IniTypeOK
  <2>3. Lookup(s, PortKey) \in Strings \cup {NULL}
    BY <2>2, GetValueType DEF Lookup
  <2> QED
    BY <2>1, <2>3, UnsetIsNone
<1>4. BaseBlock \notin heap'
  BY <1>1, FoundBlocks
<1>5. \A s \in Servers : << "port", s >> \in heap' <=> port_str'[s] # NULL
  BY <1>1, CopiesAre, Zenon
<1>6. HeapInv'
  BY <1>2, <1>3, <1>4, <1>5 DEF MainInv, HeapInv, Served, Exits
<1> QED
  BY <1>2, <1>6 DEF MainInv, HeapInv, ServingIsComplete, ExitsFreeOnce

LEMMA PortsInv == MainInv /\ ConvertPorts => MainInv'
<1> SUFFICES ASSUME MainInv, ConvertPorts PROVE MainInv'
  OBVIOUS
<1>1. pc = "ports" /\ UNCHANGED << base, bound, ctx, doubled >>
  BY DEF ConvertPorts
<1>2. CASE pc' \in {"crashed", "error"} /\ UNCHANGED << port, heap, port_str >>
  BY <1>1, <1>2, MainElsewhere DEF Exits
<1>3. CASE pc' = "base" /\ FreePortStrings
  <2>1. \A s \in Servers : port_str'[s] = NULL /\ << "port", s >> \notin heap'
    BY <1>3 DEF FreePortStrings, PortBlocks
  <2>2. BaseBlock \in heap' <=> BaseBlock \in heap
    BY <1>3, BlocksDiffer DEF FreePortStrings, PortBlocks
  <2>3. HeapInv'
    BY <1>1, <1>3, <2>1, <2>2, UnsetIsNone DEF MainInv, HeapInv, Served, Exits
  <2> QED
    BY <1>1, <1>3, <2>3 DEF MainInv, HeapInv, ServingIsComplete, ExitsFreeOnce
<1> QED
  BY <1>2, <1>3, Zenon DEF ConvertPorts, Goto

LEMMA BaseInv == MainInv /\ event_base_new => MainInv'
<1> SUFFICES ASSUME MainInv, event_base_new PROVE MainInv'
  OBVIOUS
<1>1. /\ pc = "base" /\ UNCHANGED << port_str, port, bound, ctx, doubled >>
      /\ \A s \in Servers : port_str[s] = NULL
      /\ \/ base' = "NULL" /\ pc' = "error" /\ heap' = heap
         \/ base' = "base" /\ pc' = "listener" /\ heap' = heap \cup {BaseBlock}
  BY DEF event_base_new, Goto, MainInv, HeapInv, Served
<1>2. \A s \in Servers : << "port", s >> \in heap' <=> << "port", s >> \in heap
  BY <1>1, BlocksDiffer
<1>3. BaseBlock \in heap' <=> base' = "base"
  <2>1. BaseBlock \in heap <=> base = "base"
    BY <1>1 DEF MainInv, HeapInv, Exits
  <2>2. base # "base"
    BY <1>1 DEF MainInv, HeapInv
  <2> QED
    BY <1>1, <2>1, <2>2
<1>4. HeapInv'
  BY <1>1, <1>2, <1>3, UnsetIsNone DEF MainInv, HeapInv, Served, Exits
<1> QED
  BY <1>1, <1>4 DEF MainInv, HeapInv, ServingIsComplete, ExitsFreeOnce

\* A socket listening, or a step to error or a crash that keeps what is held.
LEMMA ListenCases ==
    ASSUME NEW s \in Servers, NEW next, NEW held, Listen(s, next, held)
    PROVE  \/ /\ pc' \in {"crashed", "error"}
              /\ heap' = heap \cup held /\ bound' = bound
           \/ /\ pc' = next
              /\ Free(s)
              /\ bound' = [bound EXCEPT ![s] = Endpoint(s)]
              /\ heap' = heap \cup held \cup {<< "socket", s >>}
BY DEF Listen, Goto

LEMMA ListenerInv == MainInv /\ vcmp_listener_init => MainInv'
<1> SUFFICES ASSUME MainInv, vcmp_listener_init PROVE MainInv'
  OBVIOUS
<1>1. /\ pc = "listener" /\ base = "base"
      /\ UNCHANGED << base, port_str, port, ctx, doubled >>
      /\ \A s \in Servers : port_str[s] = NULL
  BY DEF vcmp_listener_init, MainInv, HeapInv, Served
<1>2. \/ pc' \in {"crashed", "error"} /\ heap' = heap /\ bound' = bound
      \/ pc' \in {"crashed", "error"} /\ heap' = heap \cup {KeyBlock} /\ bound' = bound
      \/ /\ pc' = "api" /\ DOMAIN bound' = DOMAIN bound
         /\ heap' = heap \cup {KeyBlock} \cup {<< "socket", "listener" >>}
  <2>1. "listener" \in Servers
    BY DEF Servers
  <2> QED
    BY <2>1, ListenCases DEF vcmp_listener_init, Goto
<1>3. \A s \in Servers : << "port", s >> \in heap' <=> << "port", s >> \in heap
  BY <1>2, BlocksDiffer DEF Servers
<1>4. BaseBlock \in heap' <=> BaseBlock \in heap
  BY <1>2, BlocksDiffer DEF Servers
<1>5. pc' = "api" => {KeyBlock, << "socket", "listener" >>} \subseteq heap'
  BY <1>2
<1>6. HeapInv'
  BY <1>1, <1>2, <1>3, <1>4, <1>5, UnsetIsNone DEF MainInv, HeapInv, Served, Exits
<1> QED
  BY <1>1, <1>2, <1>6 DEF MainInv, HeapInv, ServingIsComplete, ExitsFreeOnce

LEMMA ApiInv == MainInv /\ ws_server_init => MainInv'
<1> SUFFICES ASSUME MainInv, ws_server_init PROVE MainInv'
  OBVIOUS
<1>0. "listener" \in Servers /\ "api" \in Servers /\ Servers = {"listener", "api"}
  BY DEF Servers
<1>1. /\ pc = "api" /\ base = "base" /\ DOMAIN bound = Servers
      /\ UNCHANGED << address, base, port_str, port, doubled >>
      /\ ctx' = (pc' = "serving")
      /\ \A s \in Servers : port_str[s] = NULL
      /\ {KeyBlock, << "socket", "listener" >>} \subseteq heap
      /\ BaseBlock \in heap
  BY DEF ws_server_init, MainInv, HeapInv, Served, Exits
<1>2. \/ pc' \in {"crashed", "error"} /\ heap' = heap /\ bound' = bound
      \/ /\ pc' = "serving" /\ Free("api")
         /\ bound' = [bound EXCEPT !["api"] = Endpoint("api")]
         /\ heap' = heap \cup {<< "socket", "api" >>}
  BY <1>0, ListenCases DEF ws_server_init
<1>3. \A s \in Servers : << "port", s >> \in heap' <=> << "port", s >> \in heap
  BY <1>0, <1>2, BlocksDiffer
<1>4. BaseBlock \in heap' <=> BaseBlock \in heap
  BY <1>0, <1>2, BlocksDiffer
<1>5. HeapInv'
  BY <1>1, <1>2, <1>3, <1>4, UnsetIsNone DEF MainInv, HeapInv, Served, Exits
<1>6. ASSUME pc' = "serving"
      PROVE  bound'["listener"] # bound'["api"] \/ port'["api"] = 0
  <2>1. bound'["listener"] = bound["listener"] /\ bound'["api"] = Endpoint("api")
    BY <1>0, <1>1, <1>2, <1>6
  <2>2. bound["listener"] = Endpoint("api") => port["api"] = 0
    BY <1>0, <1>2, <1>6 DEF Free
  <2> QED
    BY <1>1, <2>1, <2>2
<1>7. ASSUME pc' = "serving"
      PROVE  {KeyBlock, BaseBlock} \cup ({"socket"} \X Servers) \subseteq heap'
  <2>1. \A b \in {"socket"} \X Servers : b \in {<< "socket", "listener" >>, << "socket", "api" >>}
    BY <1>0
  <2> QED
    BY <1>1, <1>2, <1>7, <2>1
<1>8. ServingIsComplete'
  BY <1>1, <1>6, <1>7 DEF ServingIsComplete
<1> QED
  BY <1>1, <1>2, <1>5, <1>8 DEF MainInv, HeapInv, ExitsFreeOnce, Exits

LEMMA PortBlocksNamed == \A b \in PortBlocks : \E s \in Servers : b = << "port", s >>
BY DEF PortBlocks

LEMMA ReturnInv == MainInv /\ DispatchReturns => MainInv'
<1> SUFFICES ASSUME MainInv, DispatchReturns PROVE MainInv'
  OBVIOUS
<1>1. /\ pc = "serving" /\ pc' = "exit 0" /\ heap' = heap \ {BaseBlock}
      /\ UNCHANGED << base, port_str, port, bound, ctx, doubled >>
  BY DEF DispatchReturns, Goto
<1>2. \A s \in Servers : << "port", s >> \notin heap
  BY <1>1 DEF MainInv, HeapInv, Served, Exits
<1>3. heap' \cap ({BaseBlock} \cup PortBlocks) = {}
  <2>1. \A s \in Servers : << "port", s >> \notin heap'
    BY <1>1, <1>2
  <2>2. BaseBlock \notin heap'
    BY <1>1
  <2> QED
    BY <2>1, <2>2, PortBlocksNamed
<1> QED
  BY <1>1, <1>3 DEF MainInv, HeapInv, ServingIsComplete, ExitsFreeOnce, Served, Exits

LEMMA ErrorInv == MainInv /\ ErrorExit => MainInv'
<1> SUFFICES ASSUME MainInv, ErrorExit PROVE MainInv'
  OBVIOUS
<1>1. /\ pc = "error" /\ pc' = "exit 1" /\ ~doubled
      /\ UNCHANGED << base, port_str, port, bound, ctx >>
      /\ BaseBlock \in heap <=> base = "base"
      /\ \A s \in Servers : << "port", s >> \in heap <=> port_str[s] \notin {NULL, Unset}
  BY DEF ErrorExit, Goto, MainInv, HeapInv, Exits
<1>2. ~FreedBefore
  BY <1>1 DEF FreedBefore
<1>3. HasUnset => base = "unset"
  BY DEF HasUnset, MainInv, HeapInv
<1>4. doubled' => base = "unset"
  BY <1>2, <1>3 DEF ErrorExit
<1>5. \A s \in Servers : << "port", s >> \notin heap'
  BY <1>1 DEF ErrorExit
<1>6. BaseBlock \notin heap'
  BY <1>1 DEF ErrorExit
<1>7. heap' \cap ({BaseBlock} \cup PortBlocks) = {}
  BY <1>5, <1>6, PortBlocksNamed
<1> QED
  BY <1>1, <1>4, <1>7 DEF MainInv, HeapInv, ServingIsComplete, ExitsFreeOnce, Served, Exits

LEMMA MainNext == MainInv /\ IniInv /\ [Next]_vars => MainInv'
<1> SUFFICES ASSUME MainInv, IniInv, [Next]_vars PROVE MainInv'
  OBVIOUS
<1>1. CASE UNCHANGED mainVars
  BY <1>1, MainElsewhere DEF mainVars
<1>2. CASE NoConfig
  BY <1>2, MainElsewhere DEF NoConfig, Goto, Exits
<1>3. ASSUME NEW s \in Servers, accept_error_cb(s) PROVE MainInv'
  BY <1>3, MainElsewhere DEF accept_error_cb
<1> QED
  BY <1>1, <1>2, <1>3, ValuesInv, PortsInv, BaseInv, ListenerInv, ApiInv, ReturnInv, ErrorInv
     DEF Next, Main, ReadConfig, vars

\* Whatever the configuration and whichever step fails: a node that accepts
\* connections has its key pair, its base, both sockets and its callbacks, and
\* the sockets are two endpoints.
THEOREM ServingCorrect == Spec => []ServingIsComplete
<1>1. MainInv => ServingIsComplete
  BY DEF MainInv
<1> QED
  BY <1>1, MainInit, MainNext, IniAtStart, IniInMain, PTL DEF Spec

\* main's ways out free the base and the port strings, and none of them twice
\* once the base pointer has been set.
THEOREM ExitsCorrect == Spec => []ExitsFreeOnce
<1>1. MainInv => ExitsFreeOnce
  BY DEF MainInv
<1> QED
  BY <1>1, MainInit, MainNext, IniAtStart, IniInMain, PTL DEF Spec

-----------------------------------------------------------------------------
(* Type correctness, for which the number of a string has to be one.         *)

\* What is passed over is a piece of the string, from its start.
LEMMA FirstOutsideIs ==
    ASSUME NEW str \in Strings, NEW set, "NUL" \notin set
    PROVE  /\ FirstOutside(str, set) \in 1 .. Len(str) + 1
           /\ \A i \in 1 .. FirstOutside(str, set) - 1 : str[i] \in set
           /\ FirstOutside(str, set) # Len(str) + 1 => str[FirstOutside(str, set)] \notin set
<1>1. PICK t : t = Append(str, "NUL")
  OBVIOUS
<1>2. PICK n : n = Len(str)
  OBVIOUS
<1>3. n \in Nat /\ DOMAIN t = 1 .. n + 1 /\ Len(t) = n + 1 /\ t[n + 1] = "NUL"
      /\ \A i \in 1 .. n : t[i] = str[i]
  BY <1>1, <1>2 DEF Strings
<1>4. PICK I : I = { i \in 1 .. n + 1 : t[i] \notin set }
  OBVIOUS
<1>5. I \subseteq Nat /\ I \subseteq 1 .. n + 1 /\ n + 1 \in I
  BY <1>3, <1>4
<1>6. Min(I) \in I /\ \A i \in I : Min(I) <= i
  BY <1>5, MinProperties
<1>7. PICK m : m = Min(I)
  OBVIOUS
<1>8. /\ m \in 1 .. n + 1
      /\ \A i \in 1 .. m - 1 : i \in 1 .. n /\ t[i] \in set
      /\ t[m] \notin set
  <2>1. m \in 1 .. n + 1 /\ m \in I /\ \A i \in I : m <= i
    BY <1>5, <1>6, <1>7
  <2>2. \A i \in 1 .. m - 1 : i \in 1 .. n /\ i \in 1 .. n + 1 /\ i \notin I
    BY <1>3, <2>1
  <2>3. \A i \in 1 .. n + 1 : i \in I <=> t[i] \notin set
    BY <1>4, Zenon
  <2> QED
    BY <2>1, <2>2, <2>3
<1>9. SelectInSeq(t, LAMBDA c : c \notin set) = m
  <2>1. I # {}
    BY <1>5
  <2>2. I = { i \in 1 .. Len(t) : t[i] \notin set }
    BY <1>3, <1>4, Zenon
  <2> QED
    BY <1>7, <2>1, <2>2, Zenon DEF SelectInSeq
<1>10. FirstOutside(str, set) = m
  BY <1>1, <1>9, Zenon DEF FirstOutside
<1>11. \A i \in 1 .. m - 1 : str[i] \in set
  BY <1>3, <1>8
<1>12. m # n + 1 => str[m] \notin set
  BY <1>3, <1>8
<1> QED
  BY <1>2, <1>8, <1>10, <1>11, <1>12

LEMMA NulIsNone == "NUL" \notin Blanks /\ "NUL" \notin DOMAIN Digits
<1>1. "NUL" \notin Blanks
  BY Zenon DEF Blanks
<1>2. "NUL" \notin DOMAIN Digits
  BY StartupAssumption, IniAssumption DEF Special
<1> QED
  BY <1>1, <1>2

\* Behind blanks and sign there is a string.
LEMMA UnsignedType ==
    ASSUME NEW str \in Strings
    PROVE  Trimmed(str) \in Strings /\ Unsigned(str) \in Strings
<1>1. PICK m \in 1 .. Len(str) + 1 : m = FirstOutside(str, Blanks)
  BY NulIsNone, FirstOutsideIs
<1>2. Trimmed(str) \in Strings
  <2>1. SubSeq(str, m, Len(str)) \in Strings
    BY DEF Strings
  <2> QED
    BY <1>1, <2>1, Zenon DEF Trimmed
<1>3. Unsigned(str) \in Strings
  <2>1. PICK t : t = Trimmed(str)
    OBVIOUS
  <2>2. t # << >> => Tail(t) \in Strings
    BY <1>2, <2>1 DEF Strings
  <2> QED
    BY <1>2, <2>1, <2>2, Zenon DEF Unsigned, HasSign
<1> QED
  BY <1>2, <1>3

\* The digits strtol takes.
LEMMA DigitsLead ==
    ASSUME NEW str \in Strings
    PROVE  /\ LeadingDigits(str) \in 0 .. Len(str)
           /\ \A i \in 1 .. LeadingDigits(str) : str[i] \in DOMAIN Digits
           /\ \A i \in 1 .. LeadingDigits(str) : Digits[str[i]] \in 0 .. 9
<1>1. PICK m : m = FirstOutside(str, DOMAIN Digits)
  OBVIOUS
<1>2. m \in 1 .. Len(str) + 1 /\ \A i \in 1 .. m - 1 : str[i] \in DOMAIN Digits
  BY <1>1, NulIsNone, FirstOutsideIs, Zenon
<1>3. LeadingDigits(str) = m - 1
  BY <1>1, Zenon DEF LeadingDigits
<1>4. Len(str) \in Nat
  BY DEF Strings
<1>5. \A i \in 1 .. m - 1 : Digits[str[i]] \in 0 .. 9
  BY <1>2, StartupAssumption, Zenon
<1> QED
  BY <1>2, <1>3, <1>4, <1>5

\* f gives the number that each of the first n digits ends.
Numbers(f, str, n) ==
    /\ f \in [0 .. n -> Nat]
    /\ f[0] = 0
    /\ \A i \in 1 .. n : f[i] = 10 * f[i - 1] + Digits[str[i]]

LEMMA NumbersExist ==
    ASSUME NEW str, NEW m \in Nat, \A i \in 1 .. m : Digits[str[i]] \in 0 .. 9
    PROVE  \E f : Numbers(f, str, m)
<1> DEFINE S == { n \in Nat : n <= m => \E f : Numbers(f, str, n) }
<1>1. 0 \in S
  <2>1. PICK f : f = [i \in 0 .. 0 |-> 0]
    OBVIOUS
  <2>2. Numbers(f, str, 0)
    BY <2>1 DEF Numbers
  <2> QED
    BY <2>2
<1>2. ASSUME NEW n \in Nat, n \in S PROVE n + 1 \in S
  <2> SUFFICES ASSUME n + 1 <= m PROVE \E f : Numbers(f, str, n + 1)
    OBVIOUS
  <2>1. PICK f : Numbers(f, str, n)
    BY <1>2
  <2>2. PICK d : d = Digits[str[n + 1]]
    OBVIOUS
  <2>3. d \in 0 .. 9
    BY <2>2
  <2>4. PICK g : g = [i \in 0 .. n + 1 |-> IF i = n + 1 THEN 10 * f[n] + d ELSE f[i]]
    OBVIOUS
  <2>5. /\ f \in [0 .. n -> Nat] /\ f[0] = 0
        /\ \A i \in 1 .. n : f[i] = 10 * f[i - 1] + Digits[str[i]]
    BY <2>1 DEF Numbers
  <2>6. g \in [0 .. n + 1 -> Nat] /\ g[0] = 0
    BY <2>3, <2>4, <2>5
  <2>7. ASSUME NEW i \in 1 .. n + 1 PROVE g[i] = 10 * g[i - 1] + Digits[str[i]]
    <3>1. CASE i = n + 1
      BY <2>2, <2>4, <3>1
    <3>2. CASE i # n + 1
      BY <2>4, <2>5, <3>2
    <3> QED
      BY <3>1, <3>2
  <2>8. Numbers(g, str, n + 1)
    BY <2>6, <2>7 DEF Numbers
  <2> QED
    BY <2>8
<1> HIDE DEF S
<1>3. m \in S
  BY <1>1, <1>2, AllNaturals
<1> QED
  BY <1>3 DEF S

\* The digits from the front: each makes ten of what is before it.
LEMMA MagnitudeIs ==
    ASSUME NEW str \in Strings
    PROVE  \E f : Numbers(f, str, LeadingDigits(str)) /\ Magnitude(str) = f[LeadingDigits(str)]
<1>1. PICK m : m = LeadingDigits(str)
  OBVIOUS
<1>2. m \in Nat /\ \A i \in 1 .. m : Digits[str[i]] \in 0 .. 9
  <2>1. Len(str) \in Nat
    BY DEF Strings
  <2> QED
    BY <1>1, <2>1, DigitsLead
<1>3. PICK f : Numbers(f, str, m)
  BY <1>2, NumbersExist
<1> DEFINE Eq(h) == h = [n \in 0 .. m |-> IF n = 0 THEN 0 ELSE 10 * h[n - 1] + Digits[str[n]]]
           h == CHOOSE k : Eq(k)
<1>4. Eq(f)
  BY <1>2, <1>3 DEF Numbers
<1>5. Eq(h)
  BY <1>4, Zenon
<1>6. Magnitude(str) = h[m]
  BY <1>1, Zenon DEF Magnitude
<1> HIDE DEF h
<1>7. PICK k : k = h
  OBVIOUS
<1>8. k = [n \in 0 .. m |-> IF n = 0 THEN 0 ELSE 10 * k[n - 1] + Digits[str[n]]]
  BY <1>5, <1>7, Zenon
<1>9. DOMAIN k = 0 .. m /\ \A n \in 0 .. m : k[n] = IF n = 0 THEN 0 ELSE 10 * k[n - 1] + Digits[str[n]]
  BY <1>8, Zenon
<1> DEFINE S == { n \in Nat : n <= m => k[n] \in Nat }
<1>10. 0 \in S
  BY <1>2, <1>9
<1>11. ASSUME NEW n \in Nat, n \in S PROVE n + 1 \in S
  <2> SUFFICES ASSUME n + 1 <= m PROVE k[n + 1] \in Nat
    OBVIOUS
  <2>1. k[n] \in Nat /\ n + 1 \in 1 .. m /\ n + 1 \in 0 .. m /\ n + 1 # 0 /\ (n + 1) - 1 = n
    BY <1>2, <1>11
  <2>2. PICK d : d = Digits[str[n + 1]]
    OBVIOUS
  <2>3. k[n + 1] = 10 * k[n] + d
    BY <1>9, <2>1, <2>2
  <2>4. d \in 0 .. 9
    BY <1>2, <2>1, <2>2
  <2> QED
    BY <2>1, <2>3, <2>4
<1>12. \A n \in Nat : n \in S
  <2> HIDE DEF S
  <2> QED
    BY <1>10, <1>11, AllNaturals
<1>13. \A n \in 0 .. m : k[n] \in Nat
  BY <1>2, <1>12
<1>14. k \in [0 .. m -> Nat]
  <2>1. k = [n \in 0 .. m |-> k[n]]
    BY <1>8, Zenon
  <2> QED
    BY <1>13, <2>1, Zenon
<1>15. \A i \in 1 .. m : i \in 0 .. m /\ i # 0
  BY <1>2
<1>16. \A i \in 1 .. m : k[i] = 10 * k[i - 1] + Digits[str[i]]
  BY <1>9, <1>15, Zenon
<1>17. k[0] = 0
  BY <1>2, <1>9
<1>18. Numbers(k, str, m)
  BY <1>14, <1>16, <1>17, Zenon DEF Numbers
<1> QED
  BY <1>1, <1>6, <1>7, <1>18, Zenon

LEMMA ValueIsNumber == ASSUME NEW str \in Strings PROVE ValueOf(str) \in Int
<1>1. ASSUME NEW u \in Strings PROVE Magnitude(u) \in Nat
  <2>1. PICK m : m = LeadingDigits(u)
    OBVIOUS
  <2>2. PICK f : Numbers(f, u, m) /\ Magnitude(u) = f[m]
    BY <2>1, MagnitudeIs, Zenon
  <2>3. m \in Nat
    BY <2>1, DigitsLead DEF Strings
  <2> QED
    BY <2>2, <2>3 DEF Numbers
<1>2. PICK v \in Nat : v = Magnitude(Unsigned(str))
  BY <1>1, UnsignedType
<1>3. ValueOf(str) = v \/ ValueOf(str) = -v
  BY <1>2, Zenon DEF ValueOf
<1> QED
  BY <1>3

\* A string without error is converted to its value.
LEMMA Converts ==
    ASSUME NEW str, ~SetsErrno(str)
    PROVE  strtol(str) = ValueOf(str)
<1>1. ValueOf(str) \in Longs
  BY Zenon DEF SetsErrno
<1>2. PICK v \in Longs : v = ValueOf(str)
  BY <1>1
<1>3. ~(v > LongMax) /\ ~(v < -LongMax - 1)
  BY StartupAssumption DEF Longs
<1>4. strtol(str) = CASE v \in Longs -> v [] v > LongMax -> LongMax [] v < -LongMax - 1 -> -LongMax - 1
  BY <1>2, Zenon DEF strtol
<1> QED
  BY <1>2, <1>3, <1>4

\* The invariant: main's variables have their types, and the port strings that
\* ConvertPorts reads were set.
PortsRead == pc = "ports" => \A s \in Servers : port_str[s] # Unset

\* What TypeOK says of main's own variables.
MainTypeOK ==
    /\ pc \in Steps
    /\ base \in {"unset", "NULL", "base"}
    /\ address \in [Servers -> Strings \cup {NULL, Unset}]
    /\ port_str \in [Servers -> Strings \cup {NULL, Unset}]
    /\ port \in [Servers -> 0 .. PortRange - 1]
    /\ heap \subseteq Blocks
    /\ bound \in [Servers -> [address : Addresses \cup {NULL},
                              port : 0 .. PortRange - 1]]
    /\ ctx \in BOOLEAN
    /\ breaking \in BOOLEAN
    /\ uncopied \in BOOLEAN
    /\ doubled \in BOOLEAN
    /\ failed_accept \in BOOLEAN

MainTypeInv == MainTypeOK /\ PortsRead

LEMMA MainTypeInit == Init => MainTypeInv
<1> SUFFICES ASSUME Init PROVE MainTypeInv
  OBVIOUS
<1>1. 0 \in 0 .. PortRange - 1
  BY StartupAssumption
<1>2. NoEndpoint \in [address : Addresses \cup {NULL}, port : 0 .. PortRange - 1]
  BY <1>1 DEF NoEndpoint
<1> QED
  BY <1>1, <1>2 DEF Init, MainTypeInv, MainTypeOK, PortsRead, Steps

LEMMA ValuesType == MainTypeInv /\ IniInv /\ GetValues => MainTypeInv'
<1> SUFFICES ASSUME MainTypeInv, IniInv, GetValues PROVE MainTypeInv'
  OBVIOUS
<1>1. \A s \in Servers : \A key : Lookup(s, key) \in Strings \cup {NULL}
  BY GetValueType DEF Lookup, IniInv, IniTypeOK
<1>2. PICK failed \in SUBSET Found :
          /\ address' = Copies("address", failed)
          /\ port_str' = Copies("port", failed)
          /\ heap' = Found \ failed
          /\ uncopied' = (failed # {})
  BY Zenon DEF GetValues
<1>3. /\ pc' = "ports"
      /\ UNCHANGED << base, port, bound, ctx, breaking, doubled, failed_accept >>
  BY DEF GetValues, Goto
<1>4. ASSUME NEW s \in Servers
      PROVE  address'[s] \in Strings \cup {NULL} /\ port_str'[s] \in Strings \cup {NULL}
  <2>1. /\ address'[s] \in {NULL, Lookup(s, AddressKey)}
        /\ port_str'[s] \in {NULL, Lookup(s, PortKey)}
    BY <1>2, CopiesAre, Zenon
  <2>2. /\ Lookup(s, AddressKey) \in Strings \cup {NULL}
        /\ Lookup(s, PortKey) \in Strings \cup {NULL}
    BY <1>1
  <2> QED
    BY <2>1, <2>2
<1>5. address' = [s \in Servers |-> address'[s]] /\ port_str' = [s \in Servers |-> port_str'[s]]
  BY <1>2 DEF Copies
<1>6. /\ address' \in [Servers -> Strings \cup {NULL, Unset}]
      /\ port_str' \in [Servers -> Strings \cup {NULL, Unset}]
      /\ \A s \in Servers : port_str'[s] # Unset
  BY <1>4, <1>5, UnsetIsNone
<1>7. heap' \subseteq Blocks /\ uncopied' \in BOOLEAN
  BY <1>2, FoundBlocks
<1> QED
  BY <1>3, <1>6, <1>7 DEF MainTypeInv, MainTypeOK, PortsRead, Steps

LEMMA PortsType == MainTypeInv /\ ConvertPorts => MainTypeInv'
<1> SUFFICES ASSUME MainTypeInv, ConvertPorts PROVE MainTypeInv'
  OBVIOUS
<1>1. /\ pc = "ports" /\ pc' \in Steps /\ pc' # "ports"
      /\ UNCHANGED << base, address, bound, ctx, breaking, uncopied, doubled, failed_accept >>
  BY DEF ConvertPorts, Goto, Steps
<1>2. CASE UNCHANGED << port, heap, port_str >>
  BY <1>1, <1>2 DEF MainTypeInv, MainTypeOK, PortsRead
<1>3. CASE /\ \A s \in Servers : port_str[s] # NULL /\ ~SetsErrno(port_str[s])
           /\ port' = [s \in Servers |-> uint16_t(strtol(port_str[s]))]
           /\ FreePortStrings
  <2>1. ASSUME NEW s \in Servers
        PROVE  uint16_t(strtol(port_str[s])) \in 0 .. PortRange - 1
    <3>1. port_str[s] \in Strings
      BY <1>1, <1>3 DEF MainTypeInv, MainTypeOK, PortsRead
    <3>2. PICK v \in Int : v = strtol(port_str[s])
      BY <1>3, <3>1, ValueIsNumber, Converts
    <3>3. v % PortRange \in 0 .. PortRange - 1
      BY StartupAssumption
    <3> QED
      BY <3>2, <3>3 DEF uint16_t
  <2>2. port' \in [Servers -> 0 .. PortRange - 1]
    BY <1>3, <2>1
  <2>3. port_str' \in [Servers -> Strings \cup {NULL, Unset}] /\ heap' \subseteq Blocks
    BY <1>3 DEF FreePortStrings, MainTypeInv, MainTypeOK
  <2> QED
    BY <1>1, <2>2, <2>3 DEF MainTypeInv, MainTypeOK, PortsRead
<1> QED
  BY <1>2, <1>3, Zenon DEF ConvertPorts, Servers

LEMMA BlocksNamed ==
    /\ BaseBlock \in Blocks /\ KeyBlock \in Blocks
    /\ \A s \in Servers : << "socket", s >> \in Blocks
BY DEF Blocks, BaseBlock, KeyBlock

\* A server's initialiser: a socket bound to its endpoint, or none.
LEMMA ListenType ==
    ASSUME MainTypeOK, NEW s \in Servers, NEW next \in Steps,
           NEW held \in SUBSET Blocks, Listen(s, next, held)
    PROVE  /\ pc' \in {next, "crashed", "error"}
           /\ heap' \subseteq Blocks
           /\ bound' \in [Servers -> [address : Addresses \cup {NULL},
                                      port : 0 .. PortRange - 1]]
<1>1. address[s] \in Addresses =>
          Endpoint(s) \in [address : Addresses \cup {NULL}, port : 0 .. PortRange - 1]
  BY DEF MainTypeOK, Endpoint
<1> QED
  BY <1>1, BlocksNamed DEF Listen, Goto, MainTypeOK

LEMMA ServersType ==
    ASSUME MainTypeInv, vcmp_listener_init \/ ws_server_init
    PROVE  MainTypeInv'
<1>1. /\ UNCHANGED << base, address, port_str, port, breaking, uncopied, doubled, failed_accept >>
      /\ ctx' \in BOOLEAN
  BY DEF vcmp_listener_init, ws_server_init, MainTypeInv, MainTypeOK
<1>2. /\ pc' \in Steps \ {"ports"}
      /\ heap' \subseteq Blocks
      /\ bound' \in [Servers -> [address : Addresses \cup {NULL},
                                 port : 0 .. PortRange - 1]]
  <2>1. /\ "listener" \in Servers /\ "api" \in Servers
        /\ {"api", "serving", "crashed", "error"} \subseteq Steps \ {"ports"}
        /\ {KeyBlock} \in SUBSET Blocks /\ {} \in SUBSET Blocks
    BY BlocksNamed DEF Servers, Steps
  <2>2. CASE Goto("error") /\ UNCHANGED << heap, bound >>
    BY <2>1, <2>2 DEF Goto, MainTypeInv, MainTypeOK
  <2>3. CASE Listen("listener", "api", {KeyBlock})
    BY <2>1, <2>3, ListenType DEF MainTypeInv
  <2>4. CASE Listen("api", "serving", {})
    BY <2>1, <2>4, ListenType DEF MainTypeInv
  <2> QED
    BY <2>2, <2>3, <2>4 DEF vcmp_listener_init, ws_server_init
<1> QED
  BY <1>1, <1>2 DEF MainTypeInv, MainTypeOK, PortsRead

LEMMA MainTypeNext == MainTypeInv /\ IniInv /\ [Next]_vars => MainTypeInv'
<1> SUFFICES ASSUME MainTypeInv, IniInv, [Next]_vars PROVE MainTypeInv'
  OBVIOUS
<1>1. CASE UNCHANGED mainVars
  BY <1>1 DEF mainVars, MainTypeInv, MainTypeOK, PortsRead
<1>2. CASE NoConfig
  BY <1>2 DEF NoConfig, Goto, MainTypeInv, MainTypeOK, PortsRead, Steps
<1>3. CASE event_base_new
  BY <1>3, BlocksNamed
     DEF event_base_new, Goto, MainTypeInv, MainTypeOK, PortsRead, Steps
<1>4. CASE DispatchReturns
  BY <1>4 DEF DispatchReturns, Goto, MainTypeInv, MainTypeOK, PortsRead, Steps
<1>5. CASE ErrorExit
  <2>1. doubled' \in BOOLEAN
    BY <1>5 DEF ErrorExit, HasUnset
  <2>2. heap' \subseteq Blocks /\ pc' = "exit 1"
    BY <1>5 DEF ErrorExit, Goto, MainTypeInv, MainTypeOK
  <2>3. UNCHANGED << base, address, port_str, port, bound, ctx, breaking, uncopied,
                     failed_accept >>
    BY <1>5 DEF ErrorExit
  <2> QED
    BY <2>1, <2>2, <2>3 DEF MainTypeInv, MainTypeOK, PortsRead, Steps
<1>6. ASSUME NEW s \in Servers, accept_error_cb(s) PROVE MainTypeInv'
  BY <1>6 DEF accept_error_cb, event_base_loopexit, MainTypeInv, MainTypeOK, PortsRead
<1> QED
  BY <1>1, <1>2, <1>3, <1>4, <1>5, <1>6, ValuesType, PortsType, ServersType
     DEF Next, Main, ReadConfig, vars

\* Type correctness, for any digits, ports and files: a port is a number of 16
\* bits whatever the string was, and a socket is never bound to an address that
\* inet_pton does not take.
THEOREM StartupTypeCorrect == Spec => []TypeOK
<1>1. IniInv /\ MainTypeInv => TypeOK
  BY DEF IniInv, MainTypeInv, MainTypeOK, TypeOK
<1> QED
  BY <1>1, MainTypeInit, MainTypeNext, IniAtStart, IniInMain, PTL DEF Spec

-----------------------------------------------------------------------------
(* What the file says reaches the sockets: the parser's invariant holds until *)
(* the configuration is freed, and main's copies follow from there.           *)

LinesInMain == outcome # "freed" => LinesInv

LEMMA LinesAtStart == Init => LinesInMain
BY LinesInit DEF Init, LinesInMain

\* Every step of the parser finds it parsing.
LEMMA ParserParses == ini_parsebuf \/ ini_parse_Fails => outcome = "parsing"
BY Zenon DEF ini_parsebuf, ini_parse_Fails, Ready, Comment, SectionName, Key, Value,
             Done, Going

LEMMA LinesNext == LinesInMain /\ [Next]_vars => LinesInMain'
<1> SUFFICES ASSUME LinesInMain, [Next]_vars PROVE LinesInMain'
  OBVIOUS
<1>1. CASE UNCHANGED iniVars
  <2>1. outcome' = outcome
    BY <1>1 DEF iniVars
  <2> QED
    BY <1>1, <2>1, LinesStep, Zenon DEF LinesInMain
<1>2. CASE ReadConfig
  <2>1. ini_parsebuf \/ ini_parse_Fails
    BY <1>2, Zenon DEF ReadConfig
  <2>2. outcome = "parsing"
    BY <2>1, ParserParses, Zenon
  <2>3. LinesInv
    BY <2>2 DEF LinesInMain
  <2> QED
    BY <2>1, <2>3, LinesStep, Zenon DEF LinesInMain
<1>3. CASE GetValues
  <2>1. outcome' = "freed"
    BY <1>3, Zenon DEF GetValues
  <2> QED
    BY <2>1, Zenon DEF LinesInMain
<1> QED
  BY <1>1, <1>2, <1>3
     DEF Next, Main, NoConfig, ConvertPorts, event_base_new, vcmp_listener_init,
         ws_server_init, DispatchReturns, ErrorExit, accept_error_cb, vars

\* Says at each statement of main: what was looked up, converted and bound.
\* A copy that strdup did not give is NULL.
Given(s) == \/ address[s] = Says(s, AddressKey)
            \/ uncopied /\ address[s] = NULL
Taken(s) == \/ port_str[s] = Says(s, PortKey)
            \/ uncopied /\ port_str[s] = NULL
PortSaid(s) == ValueOf(Says(s, PortKey)) % PortRange
LookedUp ==
    pc = "ports" => \A s \in Servers : /\ Given(s) /\ Taken(s)
                                      /\ Says(s, PortKey) \in Strings \cup {NULL}
Converted ==
    pc \in {"base", "listener", "api", "serving"} =>
        \A s \in Servers : /\ Given(s)
                           /\ port[s] = PortSaid(s)
                           /\ Says(s, PortKey) \in Strings
ListenerBound ==
    pc \in {"api", "serving"} =>
        bound["listener"] = Endpoint("listener") /\ address["listener"] # NULL
ApiBound == pc = "serving" => bound["api"] = Endpoint("api") /\ address["api"] # NULL
CrashMissed ==
    pc = "crashed" =>
        \/ uncopied
        \/ \E s \in Servers : \E key \in {AddressKey, PortKey} : Says(s, key) = NULL

Follows == LookedUp /\ Converted /\ ListenerBound /\ ApiBound /\ CrashMissed
ConfInv == Configured => Follows

LEMMA ConfInit == Init => ConfInv
BY DEF Init, ConfInv, Follows, LookedUp, Converted, ListenerBound, ApiBound, CrashMissed

\* The parser's lookups are what the lines say.
LEMMA LookupsSaid ==
    ASSUME LinesInMain, Configured, outcome = "parsed", NEW s, NEW key
    PROVE  Lookup(s, key) = Says(s, key)
<1>1. LinesInv
  BY Zenon DEF LinesInMain
<1>2. LinesHeld /\ ~lost
  BY Zenon DEF Configured, LinesHeld
<1>3. HoldsUpTo(Len(file.doc))
  BY <1>1, <1>2, Zenon DEF LinesInv, LinesRead
<1> QED
  BY <1>2, <1>3, MeaningIsTold, Zenon DEF HoldsUpTo, Lookup, Says

\* What main does behind the parser changes no line.
LEMMA SaidStays ==
    ASSUME UNCHANGED << file, mem, lost >>
    PROVE  /\ Configured' <=> Configured
           /\ \A s, key : Says(s, key)' = Says(s, key)
           /\ \A s : PortSaid(s)' = PortSaid(s)
BY DEF Configured, Terminated, Says, PortSaid

\* A step that leaves the ports, addresses and sockets, and goes on to no
\* statement that the invariant tells more of.
LEMMA FollowsElsewhere ==
    ASSUME Follows, UNCHANGED << file, mem, lost, address, port, bound, uncopied >>,
           \/ pc' = pc /\ port_str' = port_str
           \/ pc = "base" /\ pc' = "listener"
           \/ pc' \in {"error", "exit 0", "exit 1"}
    PROVE  Follows'
<1>0. /\ \A s : Given(s)' <=> Given(s)
      /\ \A s : port_str' = port_str => (Taken(s)' <=> Taken(s))
  BY SaidStays DEF Given, Taken
<1>1. CASE pc' = pc /\ port_str' = port_str
  <2>1. LookedUp' /\ Converted' /\ CrashMissed'
    BY <1>0, <1>1, SaidStays DEF Follows, LookedUp, Converted, CrashMissed
  <2>2. ListenerBound' /\ ApiBound'
    BY <1>1 DEF Follows, ListenerBound, ApiBound, Endpoint
  <2> QED
    BY <2>1, <2>2 DEF Follows
<1>2. CASE pc = "base" /\ pc' = "listener"
  <2>1. Converted'
    BY <1>0, <1>2, SaidStays DEF Follows, Converted
  <2> QED
    BY <1>2, <2>1 DEF Follows, LookedUp, ListenerBound, ApiBound, CrashMissed
<1>3. CASE pc' \in {"error", "exit 0", "exit 1"}
  BY <1>3 DEF Follows, LookedUp, Converted, ListenerBound, ApiBound, CrashMissed
<1> QED
  BY <1>1, <1>2, <1>3

LEMMA ValuesFollow ==
    ASSUME LinesInMain, IniInv, Configured, GetValues
    PROVE  Follows'
<1>1. outcome = "parsed" /\ pc' = "ports" /\ UNCHANGED << file, mem, lost >>
  BY DEF GetValues, Goto
<1>2. PICK failed \in SUBSET Found :
          /\ address' = Copies("address", failed)
          /\ port_str' = Copies("port", failed)
          /\ uncopied' = (failed # {})
  BY Zenon DEF GetValues
<1>3. \A s, key : Lookup(s, key) = Says(s, key)
  BY <1>1, LookupsSaid
<1>4. \A s \in Servers : Lookup(s, PortKey) \in Strings \cup {NULL}
  BY GetValueType DEF Lookup, IniInv, IniTypeOK
<1>5. ASSUME NEW s \in Servers PROVE Given(s)' /\ Taken(s)'
  <2>1. /\ address'[s] = Says(s, AddressKey) \/ (uncopied' /\ address'[s] = NULL)
        /\ port_str'[s] = Says(s, PortKey) \/ (uncopied' /\ port_str'[s] = NULL)
    BY <1>2, <1>3, CopiesAre
  <2> QED
    BY <1>1, <2>1, SaidStays DEF Given, Taken
<1>6. LookedUp'
  BY <1>1, <1>3, <1>4, <1>5, SaidStays DEF LookedUp
<1> QED
  BY <1>1, <1>6 DEF Follows, Converted, ListenerBound, ApiBound, CrashMissed

LEMMA PortsFollow ==
    ASSUME Follows, ConvertPorts
    PROVE  Follows'
<1>1. pc = "ports" /\ UNCHANGED << file, mem, lost, address, bound, uncopied >>
  BY DEF ConvertPorts, iniVars
<1>2. \A s \in Servers : Given(s) /\ Taken(s) /\ Says(s, PortKey) \in Strings \cup {NULL}
  BY <1>1 DEF Follows, LookedUp
<1>3. CASE pc' = "error"
  BY <1>3 DEF Follows, LookedUp, Converted, ListenerBound, ApiBound, CrashMissed
<1>4. CASE pc' = "crashed" /\ \E s \in Servers : port_str[s] = NULL
  <2>1. uncopied \/ \E s \in Servers : Says(s, PortKey) = NULL
    BY <1>2, <1>4 DEF Taken
  <2>2. CrashMissed'
    BY <1>1, <2>1, SaidStays DEF CrashMissed
  <2> QED
    BY <1>4, <2>2 DEF Follows, LookedUp, Converted, ListenerBound, ApiBound
<1>5. CASE /\ pc' = "base"
           /\ \A s \in Servers : port_str[s] # NULL /\ ~SetsErrno(port_str[s])
           /\ port' = [s \in Servers |-> uint16_t(strtol(port_str[s]))]
  <2>1. ASSUME NEW s \in Servers
        PROVE  port'[s] = PortSaid(s) /\ Says(s, PortKey) \in Strings
    <3>1. port_str[s] = Says(s, PortKey) /\ port_str[s] # NULL /\ ~SetsErrno(port_str[s])
      BY <1>2, <1>5 DEF Taken
    <3>2. strtol(port_str[s]) = ValueOf(Says(s, PortKey))
      BY <3>1, Converts, Zenon
    <3>3. port'[s] = uint16_t(strtol(port_str[s]))
      BY <1>5
    <3> QED
      BY <1>2, <3>1, <3>2, <3>3 DEF uint16_t, PortSaid
  <2>2. \A s : Given(s)' <=> Given(s)
    BY <1>1, SaidStays DEF Given
  <2>3. Converted'
    BY <1>1, <1>2, <2>1, <2>2, SaidStays DEF Converted
  <2> QED
    BY <1>5, <2>3 DEF Follows, LookedUp, ListenerBound, ApiBound, CrashMissed
<1> QED
  BY <1>3, <1>4, <1>5, Zenon DEF ConvertPorts, Goto, Servers

\* An initialiser binds its server to the endpoint, or there is no address.
LEMMA ServersFollow ==
    ASSUME Follows, DOMAIN bound = Servers, vcmp_listener_init \/ ws_server_init
    PROVE  Follows'
<1>1. /\ UNCHANGED << file, mem, lost, address, port, uncopied >>
      /\ pc \in {"listener", "api"}
  BY DEF vcmp_listener_init, ws_server_init, iniVars
<1>2. \A s \in Servers : Given(s)
  BY <1>1 DEF Follows, Converted
<1>3. CASE pc' = "error"
  BY <1>3 DEF Follows, LookedUp, Converted, ListenerBound, ApiBound, CrashMissed
<1>4. CASE pc' = "crashed" /\ \E s \in Servers : address[s] = NULL
  <2>1. uncopied \/ \E s \in Servers : Says(s, AddressKey) = NULL
    BY <1>2, <1>4 DEF Given
  <2>2. CrashMissed'
    BY <1>1, <2>1, SaidStays DEF CrashMissed
  <2> QED
    BY <1>4, <2>2 DEF Follows, LookedUp, Converted, ListenerBound, ApiBound
<1>5. CASE \/ /\ pc' = "api" /\ address["listener"] # NULL
              /\ bound' = [bound EXCEPT !["listener"] = Endpoint("listener")]
           \/ /\ pc = "api" /\ pc' = "serving" /\ address["api"] # NULL
              /\ bound' = [bound EXCEPT !["api"] = Endpoint("api")]
  <2>1. \A s : Given(s)' <=> Given(s)
    BY <1>1, SaidStays DEF Given
  <2>2. Converted'
    BY <1>1, <2>1, SaidStays DEF Follows, Converted
  <2>3. \A s : Endpoint(s)' = Endpoint(s)
    BY <1>1 DEF Endpoint
  <2>4. ListenerBound' /\ ApiBound'
    BY <1>1, <1>5, <2>3 DEF Follows, ListenerBound, ApiBound, Servers
  <2> QED
    BY <1>5, <2>2, <2>4 DEF Follows, LookedUp, CrashMissed
<1>6. NULL \notin Addresses
  BY UnsetIsNone, StartupAssumption
<1> QED
  BY <1>3, <1>4, <1>5, <1>6 DEF vcmp_listener_init, ws_server_init, Listen, Goto, Servers

LEMMA ConfNext == ConfInv /\ LinesInMain /\ IniInv /\ HeapInv /\ [Next]_vars => ConfInv'
<1> SUFFICES ASSUME ConfInv, LinesInMain, IniInv, HeapInv, [Next]_vars, Configured' PROVE Follows'
  BY Zenon DEF ConfInv
<1>1. CASE ReadConfig
  <2>1. pc' = "parsing"
    BY <1>1 DEF ReadConfig, mainVars
  <2> QED
    BY <2>1 DEF Follows, LookedUp, Converted, ListenerBound, ApiBound, CrashMissed
<1>2. CASE UNCHANGED << file, mem, lost >>
  <2>1. Configured /\ Follows
    BY <1>2, SaidStays DEF ConfInv
  <2>2. CASE GetValues
    BY <2>1, <2>2, ValuesFollow
  <2>3. CASE ConvertPorts
    BY <2>1, <2>3, PortsFollow
  <2>4. CASE vcmp_listener_init \/ ws_server_init
    BY <2>1, <2>4, ServersFollow DEF HeapInv
  <2>5. CASE UNCHANGED mainVars \/ NoConfig \/ event_base_new \/ DispatchReturns \/ ErrorExit
    BY <1>2, <2>1, <2>5, FollowsElsewhere
       DEF NoConfig, event_base_new, DispatchReturns, ErrorExit, Goto, mainVars
  <2>6. ASSUME NEW s \in Servers, accept_error_cb(s) PROVE Follows'
    BY <1>2, <2>1, <2>6, FollowsElsewhere DEF accept_error_cb
  <2> QED
    BY <1>1, <2>2, <2>3, <2>4, <2>5, <2>6 DEF Next, Main, vars
<1> QED
  BY <1>1, <1>2
     DEF Next, Main, NoConfig, GetValues, ConvertPorts, event_base_new,
         vcmp_listener_init, ws_server_init, DispatchReturns, ErrorExit,
         accept_error_cb, vars, iniVars

-----------------------------------------------------------------------------
(* Decimal notation: what strtol computes from the first digit on is the      *)
(* number the notation gives from its last digit back.                        *)

\* f is what is left of the number when its last digits are divided off.
Divided(f, str, n) ==
    /\ f \in [0 .. Len(str) -> Nat]
    /\ f[0] = n
    /\ \A i \in 1 .. Len(str) : f[i] = f[i - 1] \div 10

LEMMA DividedExist ==
    ASSUME NEW str, NEW n \in Nat, NEW m \in Nat, Len(str) = m
    PROVE  \E f : Divided(f, str, n)
<1> DEFINE Upto(f, k) == /\ f \in [0 .. k -> Nat] /\ f[0] = n
                         /\ \A i \in 1 .. k : f[i] = f[i - 1] \div 10
           S == { k \in Nat : \E f : Upto(f, k) }
<1>1. 0 \in S
  <2>1. Upto([i \in 0 .. 0 |-> n], 0)
    OBVIOUS
  <2> QED
    BY <2>1
<1>2. ASSUME NEW k \in Nat, k \in S PROVE k + 1 \in S
  <2>1. PICK f : Upto(f, k)
    BY <1>2
  <2>2. PICK q \in Nat : q = f[k] \div 10
    BY <2>1
  <2>3. PICK g : g = [i \in 0 .. k + 1 |-> IF i = k + 1 THEN q ELSE f[i]]
    OBVIOUS
  <2>4. g \in [0 .. k + 1 -> Nat] /\ g[0] = n
    BY <2>1, <2>3
  <2>5. ASSUME NEW i \in 1 .. k + 1 PROVE g[i] = g[i - 1] \div 10
    <3>1. CASE i = k + 1
      <4>1. g[i] = q /\ g[i - 1] = f[k]
        BY <2>3, <3>1
      <4> QED
        BY <2>2, <4>1
    <3>2. CASE i # k + 1
      <4>1. g[i] = f[i] /\ g[i - 1] = f[i - 1] /\ i \in 1 .. k
        BY <2>3, <3>2
      <4> QED
        BY <2>1, <4>1
    <3> QED
      BY <3>1, <3>2
  <2>6. Upto(g, k + 1)
    BY <2>4, <2>5
  <2> HIDE DEF Upto
  <2>7. \E h : Upto(h, k + 1)
    BY <2>6
  <2> QED
    BY <2>7
<1> HIDE DEF S
<1>3. m \in S
  BY <1>1, <1>2, AllNaturals
<1>4. PICK f : Upto(f, m)
  BY <1>3 DEF S
<1> QED
  BY <1>4 DEF Divided

\* The function the notation defines is that one.
LEMMA DenotesIs ==
    ASSUME NEW str \in Strings, NEW n \in Nat, Denotes(str, n)
    PROVE  /\ str # << >>
           /\ \E f : /\ Divided(f, str, n)
                     /\ f[Len(str)] = 0
                     /\ \A i \in 1 .. Len(str) :
                            /\ str[i] \in DOMAIN Digits
                            /\ Digits[str[i]] = f[Len(str) - i] % 10
<1>1. PICK m \in Nat : m = Len(str)
  BY DEF Strings
<1>2. PICK f : Divided(f, str, n)
  BY <1>1, DividedExist
<1> DEFINE Eq(h) == h = [i \in 0 .. Len(str) |-> IF i = 0 THEN n ELSE h[i - 1] \div 10]
           h == CHOOSE k : Eq(k)
<1>3. Eq(f)
  BY <1>1, <1>2 DEF Divided
<1>4. Eq(h)
  BY <1>3, Zenon
<1>5. /\ str # << >> /\ h[Len(str)] = 0
      /\ \A i \in 1 .. Len(str) :
             /\ str[i] \in DOMAIN Digits
             /\ Digits[str[i]] = h[Len(str) - i] % 10
  BY Zenon DEF Denotes
<1> HIDE DEF h
<1>6. PICK k : k = h
  OBVIOUS
<1>7. k = [i \in 0 .. Len(str) |-> IF i = 0 THEN n ELSE k[i - 1] \div 10]
  BY <1>4, <1>6, Zenon
<1>8. \A i \in 0 .. m : k[i] = IF i = 0 THEN n ELSE k[i - 1] \div 10
  BY <1>1, <1>7, Zenon
<1> DEFINE S == { i \in Nat : i <= m => k[i] = f[i] }
<1>9. 0 \in S
  BY <1>1, <1>2, <1>8 DEF Divided
<1>10. ASSUME NEW i \in Nat, i \in S PROVE i + 1 \in S
  <2> SUFFICES ASSUME i + 1 <= m PROVE k[i + 1] = f[i + 1]
    OBVIOUS
  <2>1. k[i] = f[i] /\ i + 1 \in 1 .. m /\ i + 1 \in 0 .. m /\ i + 1 # 0 /\ (i + 1) - 1 = i
    BY <1>1, <1>10
  <2>2. k[i + 1] = k[i] \div 10
    BY <1>8, <2>1
  <2>3. f[i + 1] = f[i] \div 10
    BY <1>1, <1>2, <2>1 DEF Divided
  <2> QED
    BY <2>1, <2>2, <2>3
<1>11. \A i \in Nat : i \in S
  <2> HIDE DEF S
  <2> QED
    BY <1>9, <1>10, AllNaturals
<1>12. \A i \in 0 .. m : k[i] = f[i]
  BY <1>1, <1>11
<1>13. Len(str) \in 0 .. m /\ \A i \in 1 .. Len(str) : Len(str) - i \in 0 .. m
  BY <1>1
<1>14. f[Len(str)] = 0
  BY <1>5, <1>6, <1>12, <1>13, Zenon
<1>15. ASSUME NEW i \in 1 .. Len(str)
       PROVE  str[i] \in DOMAIN Digits /\ Digits[str[i]] = f[Len(str) - i] % 10
  <2>1. str[i] \in DOMAIN Digits /\ Digits[str[i]] = k[Len(str) - i] % 10
    BY <1>5, <1>6, Zenon
  <2>2. k[Len(str) - i] = f[Len(str) - i]
    BY <1>12, <1>13, Zenon
  <2> QED
    BY <2>1, <2>2, Zenon
<1> QED
  BY <1>2, <1>5, <1>14, <1>15, Zenon

LEMMA TenTimes == ASSUME NEW a \in Nat PROVE 10 * (a \div 10) + (a % 10) = a
OBVIOUS

LEMMA DenotesMagnitude ==
    ASSUME NEW str \in Strings, NEW n \in Nat, Denotes(str, n)
    PROVE  Magnitude(str) = n
<1>1. PICK m \in Nat : m = Len(str)
  BY DEF Strings
<1>2. PICK f : /\ Divided(f, str, n) /\ f[m] = 0
               /\ \A i \in 1 .. m : /\ str[i] \in DOMAIN Digits
                                     /\ Digits[str[i]] = f[m - i] % 10
  BY <1>1, DenotesIs
<1>3. LeadingDigits(str) = m
  <2>1. PICK p : p = FirstOutside(str, DOMAIN Digits)
    OBVIOUS
  <2>2. p \in 1 .. m + 1 /\ (p # m + 1 => str[p] \notin DOMAIN Digits)
    BY <1>1, <2>1, NulIsNone, FirstOutsideIs
  <2>3. p = m + 1
    BY <1>2, <2>2
  <2>4. LeadingDigits(str) = p - 1
    BY <2>1, Zenon DEF LeadingDigits
  <2> QED
    BY <2>3, <2>4
<1>4. PICK g : Numbers(g, str, m) /\ Magnitude(str) = g[m]
  BY <1>3, MagnitudeIs
<1> DEFINE S == { i \in Nat : i <= m => g[i] = f[m - i] }
<1>5. 0 \in S
  BY <1>2, <1>4 DEF Numbers
<1>6. ASSUME NEW i \in Nat, i \in S PROVE i + 1 \in S
  <2> SUFFICES ASSUME i + 1 <= m PROVE g[i + 1] = f[m - (i + 1)]
    OBVIOUS
  <2>1. g[i] = f[m - i] /\ i + 1 \in 1 .. m /\ (i + 1) - 1 = i
    BY <1>6
  <2>2. PICK a \in Nat : a = f[m - (i + 1)]
    <3>1. m - (i + 1) \in 0 .. m
      BY <2>1
    <3> QED
      BY <1>1, <1>2, <3>1 DEF Divided
  <2>3. f[m - i] = a \div 10
    <3>1. m - i \in 1 .. m /\ (m - i) - 1 = m - (i + 1)
      BY <2>1
    <3> QED
      BY <1>1, <1>2, <2>2, <3>1 DEF Divided
  <2>4. Digits[str[i + 1]] = a % 10
    BY <1>2, <2>1, <2>2
  <2>5. g[i + 1] = 10 * g[i] + Digits[str[i + 1]]
    BY <1>4, <2>1 DEF Numbers
  <2>6. g[i + 1] = 10 * (a \div 10) + (a % 10)
    BY <2>1, <2>3, <2>4, <2>5
  <2> QED
    BY <2>2, <2>6, TenTimes
<1> HIDE DEF S
<1>7. m \in S
  BY <1>5, <1>6, AllNaturals
<1>8. g[m] = f[0]
  BY <1>7 DEF S
<1> QED
  BY <1>2, <1>4, <1>8 DEF Divided

\* Only blanks are trimmed.
LEMMA TrimKeeps ==
    ASSUME NEW str \in Strings, str # << >>, str[1] \notin Blanks
    PROVE  Trimmed(str) = str
<1>1. PICK m : m = FirstOutside(str, Blanks)
  OBVIOUS
<1>2. m \in 1 .. Len(str) + 1 /\ \A i \in 1 .. m - 1 : str[i] \in Blanks
  BY <1>1, NulIsNone, FirstOutsideIs, Zenon
<1>3. Len(str) \in Nat
  BY DEF Strings
<1>4. m = 1
  BY <1>2, <1>3
<1>5. SubSeq(str, 1, Len(str)) = str
  BY DEF Strings
<1> QED
  BY <1>1, <1>4, <1>5, Zenon DEF Trimmed

LEMMA DenotesValue ==
    ASSUME NEW str \in Strings, NEW n \in Int, DenotesSigned(str, n)
    PROVE  ValueOf(str) = n
<1>1. "+" \notin Blanks /\ "-" \notin Blanks /\ "+" \in Signs /\ "-" \in Signs /\ "+" # "-"
  BY Zenon DEF Blanks, Signs
<1>2. CASE n >= 0 /\ Denotes(str, n)
  <2>1. n \in Nat /\ str # << >> /\ 1 \in 1 .. Len(str)
    BY <1>2, DenotesIs DEF Strings
  <2>2. str[1] \in DOMAIN Digits
    BY <1>2, <2>1, DenotesIs
  <2>3. str[1] \notin Blanks /\ str[1] \notin Signs
    BY <2>2, StartupAssumption
  <2>4. Trimmed(str) = str
    BY <2>1, <2>3, TrimKeeps
  <2>5. ValueOf(str) = Magnitude(str)
    BY <2>3, <2>4, Zenon DEF ValueOf, Negative, HasSign, Unsigned
  <2> QED
    BY <1>2, <2>1, <2>5, DenotesMagnitude
<1>3. CASE str # << >> /\ str[1] \in Signs
  <2>1. Trimmed(str) = str
    <3>1. str[1] \notin Blanks
      BY <1>1, <1>3 DEF Signs
    <3> QED
      BY <1>3, <3>1, TrimKeeps
  <2>2. Tail(str) \in Strings
    BY <1>3 DEF Strings
  <2>3. ValueOf(str) = IF str[1] = "-" THEN -Magnitude(Tail(str)) ELSE Magnitude(Tail(str))
    BY <1>3, <2>1, Zenon DEF ValueOf, Negative, HasSign, Unsigned
  <2>4. CASE n >= 0 /\ str[1] = "+" /\ Denotes(Tail(str), n)
    <3>1. Magnitude(Tail(str)) = n
      BY <2>2, <2>4, DenotesMagnitude
    <3> QED
      BY <1>1, <2>3, <2>4, <3>1, Zenon
  <2>5. CASE n <= 0 /\ str[1] = "-" /\ Denotes(Tail(str), -n)
    <3>1. -n \in Nat
      BY <2>5
    <3>2. Magnitude(Tail(str)) = -n
      BY <2>2, <2>5, <3>1, DenotesMagnitude
    <3>3. ValueOf(str) = -Magnitude(Tail(str))
      BY <2>3, <2>5
    <3> QED
      BY <3>2, <3>3
  <2>6. CASE n >= 0 /\ Denotes(str, n)
    BY <1>2, <2>6
  <2> QED
    BY <2>4, <2>5, <2>6 DEF DenotesSigned
<1> QED
  BY <1>1, <1>2, <1>3, Zenon DEF DenotesSigned

LEMMA ConfServes == ConfInv => ServesAsConfigured
<1> SUFFICES ASSUME ConfInv, Configured PROVE ServesAsConfigured
  BY Zenon DEF ServesAsConfigured
<1>1. ASSUME pc = "serving", NEW s \in Servers
      PROVE  /\ bound[s].address = Says(s, AddressKey)
             /\ \A n \in Longs : DenotesSigned(Says(s, PortKey), n)
                                    => bound[s].port = n % PortRange
  <2>1. /\ bound[s] = Endpoint(s) /\ address[s] # NULL /\ Given(s)
        /\ port[s] = PortSaid(s) /\ Says(s, PortKey) \in Strings
    BY <1>1 DEF ConfInv, Follows, Converted, ListenerBound, ApiBound, Servers
  <2>2. bound[s].address = Says(s, AddressKey)
    BY <2>1 DEF Endpoint, Given
  <2>3. bound[s].port = PortSaid(s)
    BY <2>1 DEF Endpoint
  <2>4. ASSUME NEW n \in Longs, DenotesSigned(Says(s, PortKey), n)
        PROVE  bound[s].port = n % PortRange
    <3>1. n \in Int
      BY StartupAssumption DEF Longs
    <3>2. ValueOf(Says(s, PortKey)) = n
      BY <2>1, <2>4, <3>1, DenotesValue
    <3> QED
      BY <2>3, <3>2, Zenon DEF PortSaid
  <2> QED
    BY <2>2, <2>4
<1>2. CrashMissed
  BY DEF ConfInv, Follows
<1> QED
  BY <1>1, <1>2, Zenon DEF ServesAsConfigured, CrashMissed

\* A node that serves listens where its file says, for every file of well-formed
\* lines: what the parser took from the text is what main looks up and binds,
\* and a port written as a number, signed or not, is bound as its low 16 bits;
\* and only a file that leaves out one of the four, or a copy of one that strdup
\* does not give, crashes it.
THEOREM ServesCorrect == Spec => []ServesAsConfigured
<1>1. MainInv => HeapInv
  BY DEF MainInv
<1> QED
  BY <1>1, ConfInit, ConfNext, ConfServes, LinesAtStart, LinesNext, MainInit, MainNext,
     IniAtStart, IniInMain, PTL DEF Spec
=============================================================================
