------------------------------ MODULE Startup ------------------------------
(***************************************************************************)
(* main.c with the initialisers it calls: vcmp_listener_init of            *)
(* listener.c, vcmp_api_init of api.c and ws_server_init of websockets.c.  *)
(* The configuration is read by IniParser's actions.  pc is the statement  *)
(* main is at; while it is in event_base_dispatch, pc is "serving".        *)
(*                                                                         *)
(* "goto error" can pass over the initialiser of a local, which then holds *)
(* whatever was on the stack: "unset".                                     *)
(***************************************************************************)
EXTENDS IniParser

CONSTANTS
    Digits,     \* a function from digit characters to their values
    Addresses,  \* the strings inet_pton takes
    ListenerName, ApiName, AddressKey, PortKey, \* names main looks up
    PortRange,  \* 2^16: ports are cast to uint16_t
    LongMax,    \* LONG_MAX
    EInval      \* whether strtol sets errno for text without digits: the BSDs
                \* and macOS do, glibc does not

Blanks == {" ", "TAB", "LF", "CR", "VT", "FF"}
Signs  == {"+", "-"}

ASSUME StartupAssumption ==
    /\ DOMAIN Digits \subseteq Letters \ (Blanks \cup Signs)
    /\ \A d \in DOMAIN Digits : Digits[d] \in 0 .. 9
    /\ Addresses \subseteq Strings
    /\ PortRange \in Nat \ {0} /\ LongMax \in Nat /\ LongMax >= PortRange
    /\ EInval \in BOOLEAN

VARIABLES
    pc,           \* where main is
    base,         \* main's pointer: "unset", "NULL" or "base"
    address,      \* listener_ip and api_ip
    port_str,     \* listener_port_str and api_port_str
    port,         \* listener_port and api_port
    heap,         \* blocks allocated by main and the initialisers, not freed
    bound,        \* the sockets listening: server -> [address, port]
    ctx,          \* whether _ctx holds the callbacks of the API
    breaking,     \* event_base_loopexit was called
    uncopied,     \* history: strdup gave no copy of a value that was found
    doubled,      \* history: a block was freed twice, or an unset pointer
    failed_accept \* history: accept failed on a listening socket

mainVars == << pc, base, address, port_str, port, heap, bound, ctx, breaking,
               uncopied, doubled, failed_accept >>
vars == << iniVars, mainVars >>

Servers == {"listener", "api"}
Section == [listener |-> ListenerName, api |-> ApiName]
Unset   == << "NUL", "NUL" >>   \* no string and not NULL
NoEndpoint == [address |-> NULL, port |-> 0]

Steps == {"parsing", "ports", "base", "listener", "api", "serving",
          "error", "exit 0", "exit 1", "crashed"}
Blocks == {"address", "port", "socket"} \X Servers
              \cup {<< "base", "main" >>, << "keypair", "listener" >>}
BaseBlock == << "base", "main" >>
KeyBlock  == << "keypair", "listener" >>

TypeOK ==
    /\ IniTypeOK
    /\ pc \in Steps
    /\ base \in {"unset", "NULL", "base"}
    /\ address \in [Servers -> Strings \cup {NULL, Unset}]
    /\ port_str \in [Servers -> Strings \cup {NULL, Unset}]
    /\ port \in [Servers -> 0 .. PortRange - 1]
    /\ heap \subseteq Blocks
    /\ bound \in [Servers -> [address : Addresses \cup {NULL},
                              port : 0 .. PortRange - 1]]
    /\ ctx \in BOOLEAN
    /\ breaking \in BOOLEAN
    /\ uncopied \in BOOLEAN
    /\ doubled \in BOOLEAN
    /\ failed_accept \in BOOLEAN

Init ==
    /\ IniInit
    /\ pc = "parsing"
    /\ base = "unset"
    /\ address = [s \in Servers |-> Unset]
    /\ port_str = [s \in Servers |-> Unset]
    /\ port = [s \in Servers |-> 0]
    /\ heap = {}
    /\ bound = [s \in Servers |-> NoEndpoint]
    /\ ctx = FALSE
    /\ breaking = FALSE
    /\ uncopied = FALSE
    /\ doubled = FALSE
    /\ failed_accept = FALSE

Goto(step) == pc' = step

-----------------------------------------------------------------------------
(* strtol, to the base 10: behind blanks and a sign the value of the leading *)
(* digits, none of which make 0; the nearest long where it does not fit.     *)

\* Where the string has its first character outside a set, or its terminator.
FirstOutside(str, set) == SelectInSeq(Append(str, "NUL"), LAMBDA c : c \notin set)

Trimmed(str)  == SubSeq(str, FirstOutside(str, Blanks), Len(str))
HasSign(str)  == Trimmed(str) # << >> /\ Trimmed(str)[1] \in Signs
Negative(str) == HasSign(str) /\ Trimmed(str)[1] = "-"
Unsigned(str) == IF HasSign(str) THEN Tail(Trimmed(str)) ELSE Trimmed(str)

LeadingDigits(str) == FirstOutside(str, DOMAIN Digits) - 1

Magnitude(str) ==
    LET value[n \in 0 .. LeadingDigits(str)] ==
            IF n = 0 THEN 0 ELSE 10 * value[n - 1] + Digits[str[n]]
    IN value[LeadingDigits(str)]

ValueOf(str) ==
    IF Negative(str) THEN -Magnitude(Unsigned(str)) ELSE Magnitude(Unsigned(str))

Longs == -LongMax - 1 .. LongMax
strtol(str) ==
    CASE ValueOf(str) \in Longs       -> ValueOf(str)
      [] ValueOf(str) > LongMax       -> LongMax
      [] ValueOf(str) < -LongMax - 1  -> -LongMax - 1

SetsErrno(str) ==
    \/ ValueOf(str) \notin Longs
    \/ EInval /\ LeadingDigits(Unsigned(str)) = 0

\* A slip: the conversion to 16 bits forgotten.
uint16_t_NotCast(n) == n
uint16_t(n) == n % PortRange

-----------------------------------------------------------------------------
(* main up to the event base *)

\* ini_parse, step by step, and what main does with its result: without a
\* configuration it goes to error with nothing initialised but cfg.
ReadConfig ==
    /\ pc = "parsing"
    /\ ini_parsebuf \/ ini_parse_Fails
    /\ UNCHANGED mainVars

NoConfig ==
    /\ pc = "parsing"
    /\ outcome = "failed"
    /\ Goto("error")
    /\ UNCHANGED << iniVars, base, address, port_str, port, heap, bound, ctx,
                    breaking, uncopied, doubled, failed_accept >>

Lookup(server, key) == ini_get_value(cfg, Section[server], key)

KeyOf  == [address |-> AddressKey, port |-> PortKey]
Found  == { w \in {"address", "port"} \X Servers : Lookup(w[2], KeyOf[w[1]]) # NULL }

\* The strings of one kind, NULL where there is none or strdup failed.
Copies(kind, failed) ==
    [s \in Servers |-> IF << kind, s >> \in failed THEN NULL
                                                ELSE Lookup(s, KeyOf[kind])]

\* The four strings are copies of what the configuration holds, which is freed.
\* Nothing tells main a copy that failed from a value that was not found.
GetValues ==
    /\ pc = "parsing"
    /\ outcome = "parsed"
    /\ \E failed \in SUBSET Found :
          /\ address' = Copies("address", failed)
          /\ port_str' = Copies("port", failed)
          /\ heap' = Found \ failed
          /\ uncopied' = (failed # {})
    /\ ini_free
    /\ outcome' = "freed"
    /\ Goto("ports")
    /\ UNCHANGED << file, mem, bufp, state, current_section, current_key, lost,
                    base, port, bound, ctx, breaking, doubled, failed_accept >>

PortBlocks == {"port"} \X Servers

\* A slip: the strings are freed and the pointers kept.
FreePortStrings_PointersKept ==
    /\ heap' = heap \ PortBlocks
    /\ UNCHANGED port_str

FreePortStrings ==
    /\ heap' = heap \ PortBlocks
    /\ port_str' = [s \in Servers |-> NULL]

\* The two conversions, in their order.  A string that was not found, or not
\* copied, is given to strtol as NULL.
ConvertPorts ==
    LET first  == port_str["listener"]
        second == port_str["api"]
    IN /\ pc = "ports"
       /\ \/ /\ first = NULL \/ (~SetsErrno(first) /\ second = NULL)
             /\ Goto("crashed")
             /\ UNCHANGED << port, heap, port_str >>
          \/ /\ first # NULL
             /\ SetsErrno(first) \/ (second # NULL /\ SetsErrno(second))
             /\ Goto("error")
             /\ UNCHANGED << port, heap, port_str >>
          \/ /\ first # NULL /\ second # NULL
             /\ ~SetsErrno(first) /\ ~SetsErrno(second)
             /\ port' = [s \in Servers |-> uint16_t(strtol(port_str[s]))]
             /\ FreePortStrings
             /\ Goto("base")
       /\ UNCHANGED << iniVars, base, address, bound, ctx, breaking, uncopied,
                       doubled, failed_accept >>

event_base_new ==
    /\ pc = "base"
    /\ \/ base' = "NULL" /\ Goto("error") /\ UNCHANGED heap
       \/ base' = "base" /\ Goto("listener") /\ heap' = heap \cup {BaseBlock}
    /\ UNCHANGED << iniVars, address, port_str, port, bound, ctx, breaking,
                    uncopied, doubled, failed_accept >>

-----------------------------------------------------------------------------
(* The two servers *)

Endpoint(s) == [address |-> address[s], port |-> port[s]]

\* An endpoint in use cannot be bound again; port 0 is any free port.
Free(s) ==
    \A t \in Servers : bound[t] = Endpoint(s) => port[s] = 0

\* inet_pton and evconnlistener_new_bind: a socket listening, with "next" to
\* follow, or an error, or a crash on an address that is NULL.  "held"
\* is what the initialiser allocated before.
Listen(s, next, held) ==
    \/ /\ address[s] = NULL
       /\ Goto("crashed")
       /\ heap' = heap \cup held
       /\ UNCHANGED bound
    \/ /\ address[s] # NULL
       /\ Goto("error")
       /\ heap' = heap \cup held
       /\ UNCHANGED bound
    \/ /\ address[s] \in Addresses
       /\ Free(s)
       /\ bound' = [bound EXCEPT ![s] = Endpoint(s)]
       /\ heap' = heap \cup held \cup {<< "socket", s >>}
       /\ Goto(next)

\* rsa_generate comes first, and keeps the pair for the process.
vcmp_listener_init ==
    /\ pc = "listener"
    /\ \/ Goto("error") /\ UNCHANGED << heap, bound >>
       \/ Listen("listener", "api", {KeyBlock})
    /\ UNCHANGED << iniVars, base, address, port_str, port, ctx, breaking,
                    uncopied, doubled, failed_accept >>

\* A slip of ws_server_init: it returns before it keeps the callbacks.
ws_server_init_NoContext ==
    /\ pc = "api"
    /\ Listen("api", "serving", {})
    /\ UNCHANGED << iniVars, base, address, port_str, port, ctx, breaking,
                    uncopied, doubled, failed_accept >>

\* vcmp_api_init hands over its callbacks, which are kept as the last step.
ws_server_init ==
    /\ pc = "api"
    /\ Listen("api", "serving", {})
    /\ ctx' = (pc' = "serving")
    /\ UNCHANGED << iniVars, base, address, port_str, port, breaking, uncopied,
                    doubled, failed_accept >>

-----------------------------------------------------------------------------
(* event_base_dispatch, and the two ways out *)

\* A slip of either callback: it only logs.
event_base_loopexit_Forgotten == UNCHANGED breaking
event_base_loopexit == breaking' = TRUE

\* accept fails on one of the sockets: accept_error_cb of listener.c or of
\* websockets.c, which differ only in what they log.
accept_error_cb(s) ==
    /\ pc = "serving"
    /\ << "socket", s >> \in heap
    /\ failed_accept' = TRUE
    /\ event_base_loopexit
    /\ UNCHANGED << iniVars, pc, base, address, port_str, port, heap, bound,
                    ctx, uncopied, doubled >>

\* The loop ends and main returns; sockets and strings go with the process.
DispatchReturns ==
    /\ pc = "serving"
    /\ breaking
    /\ heap' = heap \ {BaseBlock}
    /\ Goto("exit 0")
    /\ UNCHANGED << iniVars, base, address, port_str, port, bound, ctx,
                    breaking, uncopied, doubled, failed_accept >>

HasUnset == base = "unset" \/ \E s \in Servers : port_str[s] = Unset
FreedBefore ==
    \E s \in Servers :
        port_str[s] \notin {NULL, Unset} /\ << "port", s >> \notin heap

\* error: frees whatever its pointers are not NULL for.  cfg is NULL by then.
\* A pointer never set may happen to be NULL, or not.
ErrorExit ==
    /\ pc = "error"
    /\ heap' = heap \ ({ b \in {BaseBlock} : base = "base" }
                   \cup { << "port", s >> : s \in { t \in Servers :
                             port_str[t] \notin {NULL, Unset} } })
    /\ doubled' \in (IF FreedBefore THEN {TRUE} ELSE {FALSE, HasUnset})
    /\ Goto("exit 1")
    /\ UNCHANGED << iniVars, base, address, port_str, port, bound, ctx,
                    breaking, uncopied, failed_accept >>

Main == ReadConfig \/ NoConfig \/ GetValues \/ ConvertPorts \/ event_base_new
            \/ vcmp_listener_init \/ ws_server_init \/ DispatchReturns
            \/ ErrorExit

Next == Main \/ \E s \in Servers : accept_error_cb(s)

\* main goes on, and the loop with what it has to do.
Spec == Init /\ [][Next]_vars /\ WF_vars(Main)

-----------------------------------------------------------------------------
(* Properties *)

\* The file says where to listen, in lines the parser has room for.
Configured == file.doc # << >> /\ Terminated /\ ~lost
Says(s, key) == Meaning(file.doc, Section[s], key)

\* Decimal notation, read from the number's side: its last digits, divided off
\* one by one, are those of the string from the end, and nothing is left.
Denotes(str, n) ==
    LET left[i \in 0 .. Len(str)] == IF i = 0 THEN n ELSE left[i - 1] \div 10
    IN /\ str # << >>
       /\ \A i \in 1 .. Len(str) :
             /\ str[i] \in DOMAIN Digits
             /\ Digits[str[i]] = left[Len(str) - i] % 10
       /\ left[Len(str)] = 0

\* The same with a sign, or without.
DenotesSigned(str, n) ==
    \/ n >= 0 /\ Denotes(str, n)
    \/ n >= 0 /\ str # << >> /\ str[1] = "+" /\ Denotes(Tail(str), n)
    \/ n <= 0 /\ str # << >> /\ str[1] = "-" /\ Denotes(Tail(str), -n)

\* A node that serves listens at the two addresses its file gives and, where
\* it gives a number a long can hold, at that number's low 16 bits; and no
\* file that gives all four crashes it, unless strdup failed for one.
ServesAsConfigured ==
    Configured =>
        /\ pc = "serving" =>
              \A s \in Servers :
                  /\ bound[s].address = Says(s, AddressKey)
                  /\ \A n \in Longs : DenotesSigned(Says(s, PortKey), n)
                                         => bound[s].port = n % PortRange
        /\ (\A s \in Servers, key \in {AddressKey, PortKey} : Says(s, key) # NULL)
              /\ ~uncopied
              => pc # "crashed"

\* Every way out frees the base and the port strings, and each of them once -
\* but that an error before the base is created goes by a pointer never set.
ExitsFreeOnce ==
    /\ pc \in {"exit 0", "exit 1"} => heap \cap ({BaseBlock} \cup PortBlocks) = {}
    /\ doubled => base = "unset"

\* No connection is accepted before the node can serve it: its key pair is
\* generated, both sockets listen, and the WebSocket server has its callbacks.
ServingIsComplete ==
    pc = "serving" =>
        /\ {KeyBlock, BaseBlock} \cup ({"socket"} \X Servers) \subseteq heap
        /\ bound["listener"] # bound["api"] \/ port["api"] = 0
        /\ ctx

\* When accept fails on either socket, the loop ends and the process with it.
AcceptErrorEnds == failed_accept ~> pc = "exit 0"

\* Whatever the file, the node starts or gives up: the parser comes to an end
\* although it goes back over the text, and no step waits for anything.
StartsOrExits ==
    <>(\/ pc \in {"serving", "exit 0", "exit 1", "crashed"}
       \/ outcome \in {"misused", "astray"})

\* "set errno to 0 so we can reliably detect if the string to int convertion
\* was successful": a node serves only if both port strings were numbers.
PortsAreNumbers ==
    Configured /\ pc = "serving" =>
        \A s \in Servers : \E n \in Longs : DenotesSigned(Trimmed(Says(s, PortKey)), n)
=============================================================================
