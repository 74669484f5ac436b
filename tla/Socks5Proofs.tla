---------------------------- MODULE Socks5Proofs ----------------------------
(***************************************************************************)
(* Theorems about Socks5, for all lengths of names and all amounts of      *)
(* data: who frees what, what the proxy is asked for, that the client      *)
(* implements Attempt, and where the proxy's answers and the destination's *)
(* bytes are at each stage.                                                *)
(***************************************************************************)
EXTENDS Socks5, TLAPS

\* The context: which pointer its constructor set, which blocks it can hold,
\* and that there is no connection before it.
ContextInv ==
    /\ DOMAIN field = {"hostname", "ipv4_addr"}
    /\ destination.kind \in Kinds
    /\ destination.kind = "ipv4" =>
           /\ destination.len = 4
           /\ field["ipv4_addr"] = "set"
    /\ destination.kind = "name" =>
           /\ destination.len \in NameLens
           /\ field["hostname"] = "set"
           /\ field["ipv4_addr"] \in {"NULL", "wild"}
    /\ destination.kind = "none" =>
           bev = "none" /\ ~misused /\ heap \subseteq {"lost_ipv4"}
    /\ \A block \in heap :
           \/ block \in {"ctx", "lost_ipv4"}
           \/ block \in DOMAIN field /\ field[block] = "set"

\* What the user was told, while there is a context: nothing before stage
\* CONNECTED, and CONNECTED alone from then on.
ToldInv ==
    /\ bev \in {"none", "connecting", "open", "freed"}
    /\ bev \in {"none", "connecting"} => told = << >>
    /\ bev = "connecting" => Live /\ ~misused
    /\ Running => told = IF stage = "CONNECTED" THEN << "CONNECTED" >> ELSE << >>

\* The inductive invariant.
Inv ==
    /\ ContextInv
    /\ ToldInv
    /\ MisuseExplained
    /\ FreedTogether
    /\ bev = "none" => request = NoRequest
    /\ RequestNamesDestination

LEMMA InvInit == Init => Inv
BY DEF Init, Inv, ContextInv, ToldInv, MisuseExplained, FreedTogether,
       RequestNamesDestination, Running, Live, Kinds, NoRequest

-----------------------------------------------------------------------------
(* The operators the actions are made of *)

\* A freed context holds nothing, unless its unset pointer was not NULL.
LEMMA FreeEffect ==
    ASSUME ContextInv, socks5_ctx_free
    PROVE  /\ ~Live'
           /\ \A block \in heap' : block \in heap
           /\ misused' <=> Unset
           /\ heap' \subseteq {"lost_ipv4"}
BY DEF socks5_ctx_free, Live, Unset, ContextInv

\* read_cb's failures end the connection, and misuse memory only if the user
\* freed the bufferevent too or a pointer was unset.
LEMMA FailEffect ==
    ASSUME ContextInv, ~misused, Fail
    PROVE  /\ bev' = "freed"
           /\ \A block \in heap' : block \in heap
           /\ misused' => broken' \/ Unset
           /\ misused' \/ heap' \subseteq {"lost_ipv4"}
<1>1. bev' = "freed"
  BY DEF Fail, bufferevent_free
<1>2. CASE socks5_ctx_free
  BY <1>1, <1>2, FreeEffect
<1>3. CASE broken' = TRUE /\ misused' = TRUE /\ UNCHANGED heap
  BY <1>1, <1>3
<1> QED
  BY <1>2, <1>3 DEF Fail

\* event_cb's failures free the context, and keep the bufferevent only if the
\* user does.
LEMMA EventFailsEffect ==
    ASSUME ContextInv, NEW event, NEW read, NEW write,
           EventFails(event, read, write)
    PROVE  /\ ~Live'
           /\ bev' = "freed" \/ (bev' = "open" /\ broken')
           /\ \A block \in heap' : block \in heap
           /\ misused' => Unset
           /\ heap' \subseteq {"lost_ipv4"}
<1>1. socks5_ctx_free /\ UserFreesOrKeeps(read, write)
  BY DEF EventFails
<1> QED
  BY <1>1, FreeEffect DEF UserFreesOrKeeps, bufferevent_free

-----------------------------------------------------------------------------
(* The invariant *)

\* Steps that leave the context's fields and the request as they are need
\* only say what becomes of the blocks, the connection and what was told.
LEMMA ContextKept ==
    ASSUME Inv, UNCHANGED << context, request >>,
           destination.kind # "none" \/ UNCHANGED << bev, misused >>,
           \A block \in heap' : block \in heap,
           bev' = "none" => bev = "none"
    PROVE  /\ ContextInv'
           /\ bev' = "none" => request' = NoRequest
           /\ RequestNamesDestination'
           /\ Unset' <=> Unset
BY DEF Inv, ContextInv, RequestNamesDestination, Unset, Live, context

LEMMA InvNext == Inv /\ [Next]_vars => Inv'
<1> SUFFICES ASSUME Inv, [Next]_vars
             PROVE  Inv'
  OBVIOUS
<1>0. ContextInv
  BY DEF Inv
<1>1. CASE UNCHANGED vars
  BY <1>1 DEF Inv, vars, context, outcome, ContextInv, ToldInv, MisuseExplained,
     FreedTogether, RequestNamesDestination, Running, Live, Unset
<1>2. ASSUME NEW kind \in {"name", "ipv4"}, NEW len, NEW own, New(kind, len, own),
             kind = "name" => len \in NameLens /\ own = "hostname",
             kind = "ipv4" => len = 4 /\ own = "ipv4_addr"
      PROVE  Inv'
  <2>1. /\ destination' = [kind |-> kind, len |-> len]
        /\ bev = "none" /\ bev' = "none" /\ heap' = heap \cup {"ctx", own}
        /\ UNCHANGED << told, broken, misused, request, stage >>
    BY <1>2, <1>0 DEF New, ContextInv
  <2>2. PICK before \in {"NULL", "wild"} :
            field' = [f \in DOMAIN field |-> IF f = own THEN "set" ELSE before]
    BY <1>2 DEF New
  <2>3. ~misused /\ ~misused'
    BY <1>0, <1>2, <2>1 DEF New, ContextInv
  <2>4. /\ destination'.kind = kind /\ destination'.len = len
        /\ DOMAIN field' = {"hostname", "ipv4_addr"}
        /\ own \in DOMAIN field' /\ field'[own] = "set"
        /\ kind = "name" => field'["ipv4_addr"] \in {"NULL", "wild"}
    BY <1>0, <1>2, <2>1, <2>2 DEF ContextInv
  <2>5. heap \subseteq {"lost_ipv4"}
    BY <1>0, <1>2 DEF New, ContextInv
  <2>6. ContextInv'
    BY <1>2, <2>1, <2>4, <2>5 DEF ContextInv, Kinds
  <2>7. request = NoRequest /\ request' = NoRequest /\ told = << >> /\ told' = << >>
    BY <2>1 DEF Inv, ToldInv
  <2>8. ToldInv'
    BY <2>1, <2>7 DEF ToldInv, Running
  <2>9. MisuseExplained' /\ FreedTogether'
    BY <2>1, <2>3 DEF MisuseExplained, FreedTogether
  <2>10. RequestNamesDestination'
    BY <2>7 DEF RequestNamesDestination
  <2> QED
    BY <2>6, <2>7, <2>8, <2>9, <2>10 DEF Inv, NoRequest
\* The steps that change neither the context's fields nor the request.
<1>3. ASSUME UNCHANGED << context, request >>,
             destination.kind # "none" \/ UNCHANGED << bev, misused >>,
             \A block \in heap' : block \in heap,
             bev' = "none" => bev = "none",
             ToldInv', MisuseExplained', FreedTogether'
      PROVE  Inv'
  BY <1>3, ContextKept DEF Inv
\* The two ends of a connection that has a context.
<1>4. ASSUME Fail, ~misused, destination.kind # "none",
             UNCHANGED << context, request >>
      PROVE  Inv'
  <2>1. ToldInv' /\ MisuseExplained' /\ FreedTogether'
    BY <1>0, <1>4, FailEffect
       DEF ToldInv, MisuseExplained, FreedTogether, Running, Unset, context
  <2> QED
    BY <1>0, <1>3, <1>4, <2>1, FailEffect
<1>5. ASSUME NEW event, NEW read, NEW write, EventFails(event, read, write),
             destination.kind # "none", UNCHANGED << context, request >>
      PROVE  Inv'
  <2>1. ToldInv' /\ MisuseExplained' /\ FreedTogether'
    BY <1>0, <1>5, EventFailsEffect
       DEF ToldInv, MisuseExplained, FreedTogether, Running, Unset, context
  <2> QED
    BY <1>0, <1>3, <1>5, <2>1, EventFailsEffect
\* A callback and the user's closing need a context.
<1>6. Running => destination.kind # "none" /\ ~misused /\ Live
  BY <1>0 DEF Running, ContextInv
<1>7. CASE NewIpv4Fails
  <2>1. /\ bev = "none" /\ heap \subseteq {"lost_ipv4"}
        /\ heap' = heap \cup {"lost_ipv4"}
        /\ UNCHANGED << context, bev, told, broken, misused, stage, request >>
    BY <1>7, <1>0 DEF NewIpv4Fails, ContextInv
  <2>2. ContextInv'
    BY <1>0, <2>1 DEF ContextInv, context
  <2>3. ToldInv' /\ FreedTogether'
    BY <2>1 DEF Inv, ToldInv, FreedTogether, Running
  <2>4. MisuseExplained' /\ RequestNamesDestination'
    BY <2>1 DEF Inv, MisuseExplained, RequestNamesDestination, Unset, context
  <2> QED
    BY <2>1, <2>2, <2>3, <2>4 DEF Inv, NoRequest
<1>8. CASE socks5_client_init
  <2>1. /\ UNCHANGED << context, request, heap, told, broken, misused >>
        /\ bev = "none" /\ bev' = "connecting" /\ Live /\ ~misused
    BY <1>8 DEF socks5_client_init
  <2>2. destination.kind # "none"
    BY <1>0, <2>1 DEF ContextInv, Live
  <2>3. ToldInv' /\ MisuseExplained' /\ FreedTogether'
    BY <2>1 DEF Inv, ToldInv, MisuseExplained, FreedTogether, Live, Running
  <2> QED
    BY <1>3, <2>1, <2>2, <2>3
<1>9. CASE Connected
  <2>1. /\ bev = "connecting" /\ UNCHANGED << context, request >>
        /\ destination.kind # "none" /\ Live /\ ~misused /\ told = << >>
    BY <1>9, <1>0 DEF Connected, Inv, ContextInv, ToldInv
  <2>2. CASE Fail
    BY <1>4, <2>1, <2>2
  <2>3. CASE /\ bev' = "open" /\ stage' = "IDENT"
             /\ UNCHANGED << heap, told, broken, misused >>
    <3>1. ToldInv' /\ MisuseExplained' /\ FreedTogether'
      BY <2>1, <2>3
         DEF ToldInv, MisuseExplained, FreedTogether, Live, Running
    <3> QED
      BY <1>3, <2>1, <2>3, <3>1
  <2> QED
    BY <1>9, <2>2, <2>3 DEF Connected
<1>10. CASE Ended
  <2>1. PICK event, read, write : EventFails(event, read, write)
    BY <1>10 DEF Ended
  <2>2. UNCHANGED << context, request >>
    BY <1>10 DEF Ended
  <2>3. destination.kind # "none"
    BY <1>10, <1>0, <1>6 DEF Ended, ContextInv
  <2> QED
    BY <1>5, <2>1, <2>2, <2>3
<1>11. CASE StaleCallback
  <2>1. /\ bev = "open" /\ ~Live /\ misused' /\ bev' \in {"open", "freed"}
        /\ UNCHANGED << context, request, heap, broken >>
    BY <1>11 DEF StaleCallback, Kept, bufferevent_free
  <2>2. broken \/ Unset
    BY <2>1 DEF Inv, MisuseExplained, FreedTogether
  <2>3. destination.kind # "none"
    BY <1>0, <2>1 DEF ContextInv
  <2>4. ToldInv' /\ MisuseExplained' /\ FreedTogether'
    BY <2>1, <2>2
       DEF ToldInv, MisuseExplained, FreedTogether, Running, Unset, context
  <2> QED
    BY <1>3, <2>1, <2>3, <2>4
\* Steps of the connection that end nothing.
<1>12. ASSUME UNCHANGED << context, request, heap, bev, told, broken, misused,
                           stage >>
       PROVE  Inv'
  <2>1. ToldInv' /\ MisuseExplained' /\ FreedTogether'
    BY <1>12
       DEF Inv, ToldInv, MisuseExplained, FreedTogether, Running, Live, Unset,
           context
  <2> QED
    BY <1>3, <1>12, <2>1
<1>13. CASE read_cb
  <2>1. PICK k : ReadIdent(k) \/ ReadReply(k) \/ ReadData(k)
    BY <1>13 DEF read_cb
  <2>2. /\ Running /\ UNCHANGED context
        /\ destination.kind # "none" /\ ~misused /\ Live /\ bev = "open"
    BY <1>13, <1>6 DEF read_cb, Running
  <2>3. CASE ReadIdent(k)
    <3>1. CASE Fail /\ UNCHANGED request
      BY <1>4, <2>2, <3>1
    <3>2. CASE /\ socks5_send_req /\ stage = "IDENT" /\ stage' = "REQUEST"
               /\ UNCHANGED outcome
      <4>1. UNCHANGED << heap, bev, told, broken, misused >>
        BY <3>2 DEF outcome
      <4>2. ContextInv'
        BY <1>0, <2>2, <4>1 DEF ContextInv, context
      <4>3. ToldInv' /\ MisuseExplained' /\ FreedTogether'
        BY <2>2, <3>2, <4>1
           DEF Inv, ToldInv, MisuseExplained, FreedTogether, Running, Live, Unset,
               context
      <4>4. RequestNamesDestination'
        <5> SUFFICES ASSUME destination.kind = "name"
                                => ~Unset /\ destination.len < 256
                     PROVE  /\ request'.kind = destination.kind
                            /\ request'.from = "set"
                            /\ request'.announced = request'.bytes
          BY <2>2 DEF RequestNamesDestination, Unset, context
        <5>1. CASE destination.kind = "ipv4"
          BY <1>0, <3>2, <5>1
             DEF ContextInv, socks5_send_req, AddressRequest, NameRequest
        <5>2. CASE destination.kind = "name"
          <6>1. /\ field["ipv4_addr"] = "NULL" /\ field["hostname"] = "set"
                /\ destination.len \in Nat /\ destination.len < 256
            BY <1>0, <5>2, Socks5Assumption DEF ContextInv, Unset
          <6>2. destination.len % 256 = destination.len
            BY <6>1
          <6> QED
            BY <3>2, <5>2, <6>1, <6>2 DEF socks5_send_req, NameRequest
        <5> QED
          BY <1>0, <2>2, <5>1, <5>2 DEF ContextInv, Kinds
      <4> QED
        BY <2>2, <4>1, <4>2, <4>3, <4>4 DEF Inv
    <3> QED
      BY <2>3, <3>1, <3>2 DEF ReadIdent
  <2>4. CASE ReadReply(k)
    <3>1. stage = "REQUEST" /\ UNCHANGED request
      BY <2>4 DEF ReadReply
    <3>2. CASE Fail
      BY <1>4, <2>2, <3>1, <3>2
    <3>3. CASE /\ stage' = "CONNECTED" /\ told' = Append(told, "CONNECTED")
               /\ UNCHANGED << heap, bev, broken, misused >>
      <4>1. told' = << "CONNECTED" >>
        BY <2>2, <3>1, <3>3 DEF Inv, ToldInv
      <4>2. ToldInv' /\ MisuseExplained' /\ FreedTogether'
        BY <2>2, <3>3, <4>1
           DEF Inv, ToldInv, MisuseExplained, FreedTogether, Running, Live, Unset,
               context
      <4> QED
        BY <1>3, <2>2, <3>1, <3>3, <4>2
    <3> QED
      BY <2>4, <3>2, <3>3 DEF ReadReply
  <2>5. CASE ReadData(k)
    BY <1>12, <2>2, <2>5 DEF ReadData, outcome
  <2> QED
    BY <2>1, <2>3, <2>4, <2>5
<1>14. CASE write_cb \/ UserWrites \/ ProxyAnswers \/ DestinationSends
  BY <1>12, <1>14
     DEF write_cb, UserWrites, ProxyAnswers, DestinationSends, outcome, others
<1>15. CASE UserCloses \/ UserGivesUp
  <2>1. /\ destination.kind # "none" /\ socks5_ctx_free
        /\ UNCHANGED << context, request, told, broken >>
        /\ \/ bev' = "freed"
           \/ bev = "none" /\ bev' = "none"
    BY <1>0, <1>6, <1>15
       DEF UserCloses, UserGivesUp, bufferevent_free, ContextInv, Live
  <2>2. ToldInv' /\ MisuseExplained' /\ FreedTogether'
    BY <1>0, <2>1, FreeEffect
       DEF Inv, ToldInv, MisuseExplained, FreedTogether, Running, Unset, context
  <2> QED
    BY <1>0, <1>3, <2>1, <2>2, FreeEffect
<1> QED
  BY <1>1, <1>2, <1>7, <1>8, <1>9, <1>10, <1>11, <1>13, <1>14, <1>15
     DEF Next, event_cb, socks5_ctx_new_hostname, socks5_ctx_new_ipv4

LEMMA InvCorrect == Spec => []Inv
BY InvInit, InvNext, PTL DEF Spec

-----------------------------------------------------------------------------
(* Theorems *)

\* Memory of the context is misused only when the user frees, or keeps, the
\* bufferevent against the path its callback was called from, or when the
\* pointer the constructors leave unset is not NULL by chance.
THEOREM MisuseCorrect == Spec => []MisuseExplained
<1>1. Inv => MisuseExplained
  BY DEF Inv
<1> QED
  BY <1>1, InvCorrect, PTL

\* Otherwise context and bufferevent live and end together, with all blocks
\* the constructor allocated, on every path of event_cb and read_cb.
THEOREM FreedTogetherCorrect == Spec => []FreedTogether
<1>1. Inv => FreedTogether
  BY DEF Inv
<1> QED
  BY <1>1, InvCorrect, PTL

\* socks5_send_req asks for the address whatever the unset pointer holds, and
\* for a name of up to 255 bytes if that pointer is NULL.
THEOREM RequestCorrect == Spec => []RequestNamesDestination
<1>1. Inv => RequestNamesDestination
  BY DEF Inv
<1> QED
  BY <1>1, InvCorrect, PTL

-----------------------------------------------------------------------------
(* Refinement *)

LEMMA AttemptInit == Init => A!Init
BY DEF Init, A!Init, Kept

LEMMA AttemptNext ==
    Inv /\ [Next]_vars => [A!Next]_<< bev # "none", told, Kept >>
<1> SUFFICES ASSUME Inv, Next
             PROVE  A!Next \/ UNCHANGED << bev # "none", told, Kept >>
  BY DEF vars, outcome, Kept, Live
<1> USE DEF A!Next
<1>0. Kept' \in BOOLEAN
  BY DEF Kept
<1>1. CASE socks5_client_init
  BY <1>1 DEF socks5_client_init, A!Ask, Kept
<1>2. CASE Connected
  <2>1. bev = "connecting" /\ told = << >> /\ Live /\ bev' \in {"freed", "open"}
    BY <1>2 DEF Connected, Inv, ToldInv, Fail, bufferevent_free
  <2>2. \/ told' = Append(told, "ERROR")
        \/ told' = told /\ heap' = heap
    BY <1>2 DEF Connected, Fail
  <2>3. CASE told' = Append(told, "ERROR")
    BY <1>0, <2>1, <2>3 DEF A!TellFailure
  <2>4. CASE told' = told /\ heap' = heap
    BY <2>1, <2>4 DEF Kept, Live
  <2> QED
    BY <2>2, <2>3, <2>4
<1>3. CASE Ended
  <2>1. bev # "none" /\ bev' # "none"
    BY <1>3 DEF Ended, EventFails, UserFreesOrKeeps, bufferevent_free, Running
  <2>2. told \in {<< >>, << "CONNECTED" >>}
    BY <1>3 DEF Ended, Inv, ToldInv
  <2>3. \E failure \in {"ERROR", "EOF"} : told' = Append(told, failure)
    BY <1>3 DEF Ended, EventFails
  <2> QED
    BY <1>0, <2>1, <2>2, <2>3 DEF A!TellFailure
\* A bufferevent that was kept tells what its memory holds, and the promise is
\* off: until it is freed every step that tells is TellAgain.
<1>4. CASE StaleCallback
  <2>1. Kept /\ bev # "none" /\ bev' # "none"
    BY <1>4 DEF StaleCallback, Kept, bufferevent_free
  <2>2. \/ told' = told /\ bev' = bev /\ heap' = heap
        \/ \E event \in {"CONNECTED", "ERROR", "EOF"} : told' = Append(told, event)
    BY <1>4 DEF StaleCallback
  <2>3. CASE told' = told /\ bev' = bev /\ heap' = heap
    BY <2>3 DEF Kept, Live
  <2>4. CASE \E event \in {"CONNECTED", "ERROR", "EOF"} : told' = Append(told, event)
    BY <1>0, <2>1, <2>4 DEF A!TellAgain
  <2> QED
    BY <2>2, <2>3, <2>4
<1>5. CASE read_cb
  <2>1. PICK k : ReadIdent(k) \/ ReadReply(k) \/ ReadData(k)
    BY <1>5 DEF read_cb
  <2>2. bev = "open" /\ Live /\ bev' # "none"
    BY <1>5, <2>1
       DEF read_cb, ReadIdent, ReadReply, ReadData, Fail, bufferevent_free,
           Running, outcome
  <2>3. told = IF stage = "CONNECTED" THEN << "CONNECTED" >> ELSE << >>
    BY <1>5 DEF read_cb, Inv, ToldInv
  <2>4. \/ told' = told /\ bev' = bev /\ heap' = heap
        \/ told' = Append(told, "ERROR")
        \/ /\ stage = "REQUEST" /\ told' = Append(told, "CONNECTED")
           /\ bev' = bev /\ heap' = heap
    BY <2>1 DEF ReadIdent, ReadReply, ReadData, Fail, outcome
  <2>5. CASE told' = told /\ bev' = bev /\ heap' = heap
    BY <2>5 DEF Kept, Live
  <2>6. CASE told' = Append(told, "ERROR")
    BY <1>0, <2>2, <2>3, <2>6 DEF A!TellFailure
  <2>7. CASE /\ stage = "REQUEST" /\ told' = Append(told, "CONNECTED")
             /\ bev' = bev /\ heap' = heap
    BY <2>2, <2>3, <2>7 DEF A!TellConnected, Kept, Live
  <2> QED
    BY <2>4, <2>5, <2>6, <2>7
<1>6. CASE UserCloses
  BY <1>6 DEF UserCloses, bufferevent_free, Running, Kept
<1>7. CASE UserGivesUp \/ NewIpv4Fails
  BY <1>7 DEF UserGivesUp, NewIpv4Fails, Kept, Live
<1>8. CASE socks5_ctx_new_hostname \/ socks5_ctx_new_ipv4
  <2>1. bev = "none" /\ bev' = "none" /\ told' = told
    BY <1>8 DEF socks5_ctx_new_hostname, socks5_ctx_new_ipv4, New, Inv, ContextInv
  <2> QED
    BY <2>1 DEF Kept
<1>9. CASE write_cb \/ UserWrites \/ ProxyAnswers \/ DestinationSends
  BY <1>9
     DEF write_cb, UserWrites, ProxyAnswers, DestinationSends, outcome, Kept, Live
<1> QED
  BY <1>1, <1>2, <1>3, <1>4, <1>5, <1>6, <1>7, <1>8, <1>9 DEF Next, event_cb

\* The client implements Attempt: whatever the proxy sends, in whatever
\* pieces, the user hears CONNECTED at most once, one failure at most, and
\* nothing after it - unless it keeps the bufferevent event_cb leaves to it.
\* Then callbacks on the freed context may tell it anything until it frees the
\* bufferevent, and nothing from then on.
THEOREM AttemptCorrect == Spec => ImplementsAttempt
BY AttemptInit, AttemptNext, InvCorrect, PTL
   DEF Spec, ImplementsAttempt, A!Spec

-----------------------------------------------------------------------------
(* The values the variables take                                             *)

\* The same as TypeOK, by what the actions change together.
ContextType ==
    /\ destination \in [kind : Kinds, len : NameLens \cup {0, 4}]
    /\ field \in [{"hostname", "ipv4_addr"} -> Pointers]
    /\ heap \subseteq Blocks
    /\ request \in [kind : Kinds, from : Pointers, announced : 0 .. 255,
                    bytes : Nat]
FlagType ==
    /\ bev \in {"none", "connecting", "open", "freed"}
    /\ reading \in BOOLEAN /\ writing \in BOOLEAN
    /\ broken \in BOOLEAN /\ misused \in BOOLEAN
    /\ told \in Seq({"CONNECTED", "ERROR", "EOF"})
PlaceType ==
    /\ stage \in Stages
    /\ output \in {"none", "ident", "request", "app"}
    /\ proxy \in Proxies
    /\ short \in BOOLEAN /\ whole \in BOOLEAN
StreamType ==
    /\ input \in Seq(Nat) /\ wire \in Seq(Nat) /\ received \in Seq(Nat)
    /\ ndata \in 0 .. MaxData

LEMMA TypeParts == TypeOK <=> ContextType /\ FlagType /\ PlaceType /\ StreamType
BY Zenon DEF TypeOK, ContextType, FlagType, PlaceType, StreamType

LEMMA FreeType ==
    ASSUME socks5_ctx_free
    PROVE  heap' \subseteq heap /\ misused' \in BOOLEAN
<1>1. heap' \subseteq heap
  BY Zenon DEF socks5_ctx_free
<1>2. misused' \in BOOLEAN
  BY DEF socks5_ctx_free
<1> QED
  BY <1>1, <1>2

LEMMA FailType ==
    ASSUME FlagType, Fail
    PROVE  /\ FlagType' /\ heap' \subseteq heap
           /\ bev' = "freed" /\ told' = Append(told, "ERROR")
           /\ output' = "none" /\ input' = << >> /\ wire' = << >>
<1>1. /\ told' = Append(told, "ERROR")
      /\ bev' = "freed" /\ reading' = FALSE /\ writing' = FALSE
      /\ output' = "none" /\ input' = << >> /\ wire' = << >>
  BY Zenon DEF Fail, bufferevent_free
<1>2. told' \in Seq({"CONNECTED", "ERROR", "EOF"})
  BY <1>1 DEF FlagType
<1>3. heap' \subseteq heap /\ broken' \in BOOLEAN /\ misused' \in BOOLEAN
  <2>1. CASE socks5_ctx_free /\ UNCHANGED broken
    BY <2>1, FreeType, Zenon DEF FlagType
  <2>2. CASE broken' = TRUE /\ misused' = TRUE /\ UNCHANGED heap
    BY <2>2, Zenon
  <2> QED
    BY <2>1, <2>2, Zenon DEF Fail
<1> QED
  BY <1>1, <1>2, <1>3, Zenon DEF FlagType

LEMMA EventFailsType ==
    ASSUME FlagType, NEW event \in {"ERROR", "EOF"},
           NEW read \in BOOLEAN, NEW write \in BOOLEAN,
           EventFails(event, read, write)
    PROVE  /\ FlagType' /\ heap' \subseteq heap
           /\ told' = Append(told, event)
           /\ output' \in {output, "none"} /\ input' \in {input, << >>} /\ wire' = << >>
<1>1. /\ told' = Append(told, event) /\ socks5_ctx_free
      /\ UserFreesOrKeeps(read, write)
  BY Zenon DEF EventFails
<1>2. told' \in Seq({"CONNECTED", "ERROR", "EOF"})
  BY <1>1 DEF FlagType
<1>3. heap' \subseteq heap /\ misused' \in BOOLEAN
  BY <1>1, FreeType
<1>4. CASE bufferevent_free /\ UNCHANGED broken
  <2>1. /\ bev' = "freed" /\ reading' = FALSE /\ writing' = FALSE /\ broken' = broken
        /\ output' = "none" /\ input' = << >> /\ wire' = << >>
    BY <1>4, Zenon DEF bufferevent_free
  <2> QED
    BY <1>1, <1>2, <1>3, <2>1, Zenon DEF FlagType
<1>5. CASE /\ bev' = "open" /\ reading' = read /\ writing' = write
           /\ broken' = TRUE /\ wire' = << >>
           /\ UNCHANGED << output, input >>
  BY <1>1, <1>2, <1>3, <1>5, Zenon DEF FlagType
<1> QED
  BY <1>1, <1>4, <1>5, Zenon DEF UserFreesOrKeeps

LEMMA TypeInit == Init => TypeOK
<1>1. 0 \in 0 .. MaxData /\ 0 \in 0 .. 255 /\ 0 \in Nat
  BY Socks5Assumption
<1>2. NoRequest \in [kind : Kinds, from : Pointers, announced : 0 .. 255, bytes : Nat]
  BY <1>1, Zenon DEF NoRequest, Kinds, Pointers
<1>3. \A S : << >> \in Seq(S)
  OBVIOUS
<1> SUFFICES ASSUME Init PROVE TypeOK
  OBVIOUS
<1>4. ContextType
  <2>1. destination \in [kind : Kinds, len : NameLens \cup {0, 4}]
    BY Zenon DEF Init, Kinds
  <2>2. field \in [{"hostname", "ipv4_addr"} -> Pointers]
    BY DEF Init, Pointers
  <2> QED
    BY <1>2, <2>1, <2>2, Zenon DEF Init, ContextType
<1>5. FlagType
  BY <1>3, Zenon DEF Init, FlagType
<1>6. PlaceType
  BY Zenon DEF Init, PlaceType, Stages, Proxies
<1>7. StreamType
  BY <1>1, <1>3, Zenon DEF Init, StreamType
<1> QED
  BY <1>4, <1>5, <1>6, <1>7, TypeParts

\* What a step of the end of a connection leaves alone or shortens.
Ends ==
    /\ FlagType' /\ heap' \subseteq heap
    /\ output' \in {output, "none"} /\ input' \in {input, << >>} /\ wire' = << >>

LEMMA EndedEnds ==
    ASSUME FlagType, Ended
    PROVE  Ends
<1>1. ASSUME NEW event \in {"ERROR", "EOF"}, NEW read \in BOOLEAN,
             NEW write \in BOOLEAN, EventFails(event, read, write)
      PROVE  Ends
  BY <1>1, EventFailsType, Zenon DEF Ends
<1>2. reading \in BOOLEAN /\ writing \in BOOLEAN /\ FALSE \in BOOLEAN
  BY Zenon DEF FlagType
<1> QED
  BY <1>1, <1>2, Zenon DEF Ended

LEMMA FailEnds ==
    ASSUME FlagType, Fail
    PROVE  Ends
BY FailType, Zenon DEF Ends

LEMMA ClosesEnds ==
    ASSUME FlagType, UserCloses
    PROVE  Ends
<1>1. heap' \subseteq heap /\ misused' \in BOOLEAN
  BY FreeType, Zenon DEF UserCloses
<1> QED
  BY <1>1, Zenon DEF UserCloses, bufferevent_free, Ends, FlagType

\* What a callback on the freed context leaves alone, tells or empties.
StaleEffect ==
    /\ FlagType' /\ heap' = heap
    /\ output' \in {output, "none"} /\ input' \in {input, << >>} /\ wire' \in {wire, << >>}

LEMMA StaleEnds ==
    ASSUME FlagType, StaleCallback
    PROVE  StaleEffect
<1>1. told' \in Seq({"CONNECTED", "ERROR", "EOF"})
  <2>1. \/ told' = told
        \/ \E event \in {"CONNECTED", "ERROR", "EOF"} : told' = Append(told, event)
    BY Zenon DEF StaleCallback
  <2>2. told \in Seq({"CONNECTED", "ERROR", "EOF"})
    BY Zenon DEF FlagType
  <2> QED
    BY <2>1, <2>2
<1>2. misused' = TRUE /\ UNCHANGED << heap, broken >>
  BY Zenon DEF StaleCallback
<1>3. CASE UNCHANGED << bev, reading, writing, buffers >>
  BY <1>1, <1>2, <1>3, Zenon DEF FlagType, buffers, StaleEffect
<1>4. CASE bufferevent_free
  BY <1>1, <1>2, <1>4, Zenon DEF bufferevent_free, FlagType, StaleEffect
<1> QED
  BY <1>3, <1>4, Zenon DEF StaleCallback

LEMMA FlagStep ==
    ASSUME TypeOK, [Next]_vars
    PROVE  FlagType'
<1>1. FlagType
  BY TypeParts
<1>2. CASE Ended
  BY <1>1, <1>2, EndedEnds, Zenon DEF Ends
<1>3. CASE Connected
  <2>1. CASE Fail
    BY <1>1, <2>1, FailEnds, Zenon DEF Ends
  <2>2. CASE /\ bev' = "open"
             /\ UNCHANGED << heap, reading, writing, told, broken, misused, input, wire >>
    BY <1>1, <2>2, Zenon DEF FlagType
  <2> QED
    BY <1>3, <2>1, <2>2, Zenon DEF Connected
<1>4. CASE read_cb
  <2>1. PICK k : ReadIdent(k) \/ ReadReply(k) \/ ReadData(k)
    BY <1>4, Zenon DEF read_cb
  <2>2. CASE Fail
    BY <1>1, <2>2, FailEnds, Zenon DEF Ends
  <2>3. CASE UNCHANGED outcome
    BY <1>1, <2>3, Zenon DEF FlagType, outcome
  <2>4. CASE /\ told' = Append(told, "CONNECTED")
             /\ UNCHANGED << heap, bev, reading, writing, broken, misused, output >>
    <3>1. told' \in Seq({"CONNECTED", "ERROR", "EOF"})
      BY <1>1, <2>4 DEF FlagType
    <3> QED
      BY <1>1, <2>4, <3>1, Zenon DEF FlagType
  <2> QED
    BY <2>1, <2>2, <2>3, <2>4, Zenon DEF ReadIdent, ReadReply, ReadData
<1>5. CASE UserCloses
  BY <1>1, <1>5, ClosesEnds, Zenon DEF Ends
<1>6. CASE UserGivesUp
  <2>1. misused' \in BOOLEAN
    BY <1>6, FreeType, Zenon DEF UserGivesUp
  <2> QED
    BY <1>1, <1>6, <2>1, Zenon DEF UserGivesUp, FlagType
<1>7. CASE write_cb \/ UserWrites \/ ProxyAnswers \/ DestinationSends \/ UNCHANGED vars
  BY <1>1, <1>7, Zenon
     DEF write_cb, UserWrites, ProxyAnswers, DestinationSends, vars, outcome, FlagType
<1>8. CASE NewIpv4Fails \/ socks5_client_init
  BY <1>1, <1>8, Zenon DEF NewIpv4Fails, socks5_client_init, FlagType
<1>10. CASE StaleCallback
  BY <1>1, <1>10, StaleEnds, Zenon DEF StaleEffect
<1>9. CASE socks5_ctx_new_hostname \/ socks5_ctx_new_ipv4
  BY <1>1, <1>9, Zenon DEF socks5_ctx_new_hostname, socks5_ctx_new_ipv4, New, FlagType
<1> QED
  BY <1>2, <1>3, <1>4, <1>5, <1>6, <1>7, <1>8, <1>9, <1>10, Zenon DEF Next, event_cb

LEMMA PlaceStep ==
    ASSUME TypeOK, [Next]_vars
    PROVE  PlaceType'
<1>1. FlagType /\ PlaceType
  BY TypeParts
<1>2. CASE Ended
  BY <1>1, <1>2, EndedEnds, Zenon DEF Ended, Ends, others, history, PlaceType
<1>3. CASE Connected
  <2>1. CASE Fail /\ UNCHANGED stage
    BY <1>1, <1>3, <2>1, FailEnds, Zenon DEF Connected, Ends, others, history, PlaceType
  <2>2. CASE output' = "ident" /\ stage' = "IDENT"
    BY <1>1, <1>3, <2>2, Zenon DEF Connected, others, history, PlaceType, Stages
  <2> QED
    BY <1>3, <2>1, <2>2, Zenon DEF Connected
<1>4. CASE read_cb
  <2>1. PICK k : ReadIdent(k) \/ ReadReply(k) \/ ReadData(k)
    BY <1>4, Zenon DEF read_cb
  <2>2. proxy' = proxy
    BY <1>4, Zenon DEF read_cb, others
  <2>3. short' \in BOOLEAN /\ whole' \in BOOLEAN
    BY <1>1, <2>1 DEF ReadIdent, ReadReply, ReadData, history, PlaceType
  <2>4. stage' \in Stages
    BY <1>1, <2>1, Zenon DEF ReadIdent, ReadReply, ReadData, PlaceType, Stages
  <2>5. output' \in {output, "none", "request"}
    <3>1. CASE Fail
      BY <1>1, <3>1, FailEnds, Zenon DEF Ends
    <3> QED
      BY <2>1, <3>1, Zenon DEF ReadIdent, ReadReply, ReadData, socks5_send_req
  <2> QED
    BY <1>1, <2>2, <2>3, <2>4, <2>5, Zenon DEF PlaceType
<1>5. CASE UserCloses
  BY <1>1, <1>5, ClosesEnds, Zenon DEF UserCloses, Ends, others, history, PlaceType
<1>6. CASE write_cb \/ UserWrites
  BY <1>1, <1>6, Zenon DEF write_cb, UserWrites, others, history, PlaceType, Proxies
<1>7. CASE ProxyAnswers
  BY <1>1, <1>7, Zenon DEF ProxyAnswers, history, PlaceType, Proxies
<1>8. CASE \/ DestinationSends \/ UNCHANGED vars \/ NewIpv4Fails \/ socks5_client_init
           \/ UserGivesUp
  BY <1>1, <1>8, Zenon
     DEF DestinationSends, vars, NewIpv4Fails, socks5_client_init, UserGivesUp,
         buffers, others, history, PlaceType
<1>10. CASE StaleCallback
  BY <1>1, <1>10, StaleEnds, Zenon DEF StaleCallback, StaleEffect, others, history, PlaceType
<1>9. CASE socks5_ctx_new_hostname \/ socks5_ctx_new_ipv4
  BY <1>1, <1>9, Zenon
     DEF socks5_ctx_new_hostname, socks5_ctx_new_ipv4, New, buffers, others, history,
         PlaceType
<1> QED
  BY <1>2, <1>3, <1>4, <1>5, <1>6, <1>7, <1>8, <1>9, <1>10, Zenon DEF Next, event_cb

\* What a new context points at.
LEMMA NewType ==
    ASSUME ContextType, NEW kind \in Kinds, NEW len \in NameLens \cup {4},
           NEW own \in {"hostname", "ipv4_addr"}, New(kind, len, own)
    PROVE  ContextType'
<1>1. destination' \in [kind : Kinds, len : NameLens \cup {0, 4}]
  BY Zenon DEF New
<1>2. field' \in [{"hostname", "ipv4_addr"} -> Pointers]
  BY DEF New, ContextType, Pointers
<1>3. heap' \subseteq Blocks /\ request' = request
  BY Zenon DEF New, ContextType, Blocks
<1> QED
  BY <1>1, <1>2, <1>3, Zenon DEF ContextType

\* What socks5_send_req writes is a request.
LEMMA RequestType ==
    ASSUME ContextType, socks5_send_req
    PROVE  request' \in [kind : Kinds, from : Pointers, announced : 0 .. 255, bytes : Nat]
<1>1. destination.len \in Nat
  <2>1. destination.len \in NameLens \cup {0, 4}
    BY Zenon DEF ContextType
  <2>2. \A len \in NameLens \cup {0, 4} : len \in Nat
    BY Socks5Assumption
  <2> QED
    BY <2>1, <2>2, Zenon
<1>2. destination.len % 256 \in 0 .. 255 /\ 4 \in 0 .. 255 /\ 4 \in Nat
  BY <1>1
<1>3. field["hostname"] \in Pointers /\ field["ipv4_addr"] \in Pointers
  BY Zenon DEF ContextType
<1>4. request' = AddressRequest \/ request' = NameRequest
  BY Zenon DEF socks5_send_req
<1>5. "name" \in Kinds /\ "ipv4" \in Kinds
  BY Zenon DEF Kinds
<1> QED
  <2>1. ASSUME NEW kind \in Kinds, NEW from \in Pointers, NEW announced \in 0 .. 255,
               NEW bytes \in Nat
        PROVE  [kind |-> kind, from |-> from, announced |-> announced, bytes |-> bytes]
                   \in [kind : Kinds, from : Pointers, announced : 0 .. 255, bytes : Nat]
    BY <2>1
  <2>2. \/ request' = [kind |-> "ipv4", from |-> field["ipv4_addr"], announced |-> 4,
                       bytes |-> 4]
        \/ request' = [kind |-> "name", from |-> field["hostname"],
                       announced |-> destination.len % 256, bytes |-> destination.len]
    BY <1>4 DEF AddressRequest, NameRequest
  <2> QED
    BY <1>1, <1>2, <1>3, <1>5, <2>1, <2>2, SMT

LEMMA ContextStep ==
    ASSUME TypeOK, [Next]_vars
    PROVE  ContextType'
<1>1. ContextType /\ FlagType
  BY TypeParts
<1>2. ASSUME UNCHANGED << destination, field, request >>, heap' \subseteq heap
      PROVE  ContextType'
  BY <1>1, <1>2, Zenon DEF ContextType
<1>3. CASE Ended
  BY <1>1, <1>2, <1>3, EndedEnds, Zenon DEF Ended, Ends, context
<1>4. CASE Connected
  <2>1. heap' \subseteq heap
    BY <1>1, <1>4, FailEnds, Zenon DEF Connected, Ends
  <2> QED
    BY <1>2, <1>4, <2>1, Zenon DEF Connected, context
<1>5. CASE read_cb
  <2>1. PICK k : ReadIdent(k) \/ ReadReply(k) \/ ReadData(k)
    BY <1>5, Zenon DEF read_cb
  <2>2. destination' = destination /\ field' = field
    BY <1>5, Zenon DEF read_cb, context
  <2>3. heap' \subseteq heap
    BY <1>1, <2>1, FailEnds, Zenon DEF ReadIdent, ReadReply, ReadData, outcome, Ends
  <2>4. request' = request \/ socks5_send_req
    BY <2>1, Zenon DEF ReadIdent, ReadReply, ReadData
  <2> QED
    BY <1>1, <2>2, <2>3, <2>4, RequestType, Zenon DEF ContextType
<1>6. CASE UserCloses
  BY <1>1, <1>2, <1>6, ClosesEnds, Zenon DEF UserCloses, Ends, context
<1>7. CASE UserGivesUp
  BY <1>2, <1>7, FreeType, Zenon DEF UserGivesUp, context
<1>8. CASE \/ write_cb \/ UserWrites \/ ProxyAnswers \/ DestinationSends
           \/ UNCHANGED vars \/ socks5_client_init \/ StaleCallback
  BY <1>2, <1>8, Zenon
     DEF write_cb, UserWrites, ProxyAnswers, DestinationSends, vars, socks5_client_init,
         StaleCallback, context, outcome
<1>9. CASE NewIpv4Fails
  BY <1>1, <1>9, Zenon DEF NewIpv4Fails, context, ContextType, Blocks
<1>10. CASE socks5_ctx_new_hostname \/ socks5_ctx_new_ipv4
  <2>1. "name" \in Kinds /\ "ipv4" \in Kinds
    BY Zenon DEF Kinds
  <2> QED
    BY <1>1, <1>10, <2>1, NewType, Zenon DEF socks5_ctx_new_hostname, socks5_ctx_new_ipv4
<1> QED
  BY <1>3, <1>4, <1>5, <1>6, <1>7, <1>8, <1>9, <1>10, Zenon DEF Next, event_cb

\* What is read, what is left and what comes.
LEMMA PieceType ==
    ASSUME StreamType, NEW k \in 1 .. Len(wire)
    PROVE  Got(k) \in Seq(Nat) /\ Rest(k) \in Seq(Nat)
<1>1. k \in Nat /\ k >= 1 /\ k <= Len(wire) /\ Len(wire) \in Nat
  BY DEF StreamType
<1>2. SubSeq(wire, 1, k) \in Seq(Nat)
  <2>1. \A i \in 1 .. k : i \in 1 .. Len(wire) /\ wire[i] \in Nat
    BY <1>1 DEF StreamType
  <2> QED
    BY <1>1, <2>1 DEF StreamType
<1>3. SubSeq(wire, k + 1, Len(wire)) \in Seq(Nat)
  BY <1>1 DEF StreamType
<1> QED
  BY <1>2, <1>3 DEF Got, Rest, StreamType

LEMMA StreamStep ==
    ASSUME TypeOK, [Next]_vars
    PROVE  StreamType'
<1>1. FlagType /\ StreamType
  BY TypeParts
<1>2. << >> \in Seq(Nat)
  OBVIOUS
<1>3. ASSUME Ends, UNCHANGED << received, ndata >>
      PROVE  StreamType'
  BY <1>1, <1>2, <1>3, Zenon DEF Ends, StreamType
<1>4. CASE Ended
  BY <1>1, <1>3, <1>4, EndedEnds, Zenon DEF Ended, others
<1>5. CASE Connected
  <2>1. UNCHANGED << received, ndata >>
    BY <1>5, Zenon DEF Connected, others
  <2>2. CASE UNCHANGED << input, wire >>
    BY <1>1, <2>1, <2>2, Zenon DEF StreamType
  <2> QED
    BY <1>1, <1>3, <1>5, <2>1, <2>2, FailEnds, Zenon DEF Connected
<1>6. CASE read_cb
  <2>1. PICK k \in 1 .. Len(wire) : ReadIdent(k) \/ ReadReply(k) \/ ReadData(k)
    BY <1>6, Zenon DEF read_cb
  <2>2. ndata' = ndata
    BY <1>6, Zenon DEF read_cb, others
  <2>3. Got(k) \in Seq(Nat) /\ Rest(k) \in Seq(Nat)
    BY <1>1, <2>1, PieceType
  <2>4. CASE Fail /\ UNCHANGED received
    BY <1>1, <1>3, <2>2, <2>4, FailEnds, Zenon
  <2>5. CASE input' = << >> /\ wire' = Rest(k) /\ UNCHANGED received
    BY <1>1, <1>2, <2>2, <2>3, <2>5, Zenon DEF StreamType
  <2>6. CASE input' = << >> /\ wire' = Rest(k) /\ received' = received \o Got(k)
    <3>1. received \o Got(k) \in Seq(Nat)
      BY <1>1, <2>3 DEF StreamType
    <3> QED
      BY <1>1, <1>2, <2>2, <2>3, <2>6, <3>1, Zenon DEF StreamType
  <2> QED
    BY <2>1, <2>4, <2>5, <2>6, Zenon DEF ReadIdent, ReadReply, ReadData, Drained
<1>7. CASE UserCloses
  BY <1>1, <1>3, <1>7, ClosesEnds, Zenon DEF UserCloses, others
<1>8. CASE ProxyAnswers
  <2>1. PICK bytes \in Seq(Nat) : wire' = wire \o bytes
    <3>1. \A a, b \in Nat : << a, b >> \in Seq(Nat)
      OBVIOUS
    <3>2. \A a, b, c, d \in Nat : << a, b, c, d >> \in Seq(Nat)
      OBVIOUS
    <3>3. /\ {4, VERSION} \subseteq Nat /\ {NO_AUTH, 255} \subseteq Nat
          /\ {SUCCEEDED, 1} \subseteq Nat /\ RESERVED \in Nat /\ 127 \in Nat
          /\ VERSION \in Nat
      BY DEF VERSION, NO_AUTH, SUCCEEDED, RESERVED
    <3>4. CASE \E version \in {4, VERSION}, method \in {NO_AUTH, 255} :
                  wire' = wire \o << version, method >>
      <4>1. PICK version \in {4, VERSION}, method \in {NO_AUTH, 255} :
                wire' = wire \o << version, method >>
        BY <3>4, Zenon
      <4>2. version \in Nat /\ method \in Nat
        BY <3>3, Zenon
      <4> QED
        BY <3>1, <4>1, <4>2, Zenon
    <3>5. CASE \E reply \in {SUCCEEDED, 1} :
                  wire' = wire \o << VERSION, reply, RESERVED, 127 >>
      <4>1. PICK reply \in {SUCCEEDED, 1} :
                wire' = wire \o << VERSION, reply, RESERVED, 127 >>
        BY <3>5, Zenon
      <4>2. reply \in Nat
        BY <3>3, Zenon
      <4> QED
        BY <3>2, <3>3, <4>1, <4>2, Zenon
    <3> QED
      BY <1>8, <3>4, <3>5, Zenon DEF ProxyAnswers
  <2>2. wire' \in Seq(Nat)
    BY <1>1, <2>1 DEF StreamType
  <2> QED
    BY <1>1, <1>8, <2>2, Zenon DEF ProxyAnswers, StreamType
<1>9. CASE DestinationSends
  <2>1. ndata' = ndata + 1 /\ ndata < MaxData /\ wire' = Append(wire, Destined(ndata + 1))
    BY <1>9, Zenon DEF DestinationSends
  <2>2. wire' \in Seq(Nat) /\ ndata' \in 0 .. MaxData
    BY <1>1, <2>1, Socks5Assumption DEF StreamType, Destined
  <2> QED
    BY <1>1, <1>9, <2>2, Zenon DEF DestinationSends, StreamType
<1>10. CASE write_cb \/ UserWrites \/ UNCHANGED vars
  BY <1>1, <1>10, Zenon DEF write_cb, UserWrites, vars, buffers, others, StreamType
<1>11. CASE NewIpv4Fails \/ socks5_client_init \/ UserGivesUp
  BY <1>1, <1>11, Zenon
     DEF NewIpv4Fails, socks5_client_init, UserGivesUp, buffers, others, StreamType
<1>13. CASE StaleCallback
  BY <1>1, <1>2, <1>13, StaleEnds, Zenon DEF StaleCallback, StaleEffect, others, StreamType
<1>12. CASE socks5_ctx_new_hostname \/ socks5_ctx_new_ipv4
  BY <1>1, <1>12, Zenon
     DEF socks5_ctx_new_hostname, socks5_ctx_new_ipv4, New, buffers, others, StreamType
<1> QED
  BY <1>4, <1>5, <1>6, <1>7, <1>8, <1>9, <1>10, <1>11, <1>12, <1>13, Zenon DEF Next, event_cb

LEMMA TypeNext == TypeOK /\ [Next]_vars => TypeOK'
BY ContextStep, FlagStep, PlaceStep, StreamStep, TypeParts, ZenonT(40)
   DEF TypeOK, ContextType, FlagType, PlaceType, StreamType

\* Every variable keeps to its values, the request's fields and the bytes on
\* their way included, for any lengths of names and any amount of data.
THEOREM TypeCorrect == Spec => []TypeOK
BY TypeInit, TypeNext, PTL DEF Spec

-----------------------------------------------------------------------------
(* Where the proxy's answers are                                             *)

\* Nothing has happened on the connection yet.
Fresh ==
    /\ stage = "unset" /\ output = "none" /\ proxy = "listening"
    /\ wire = << >> /\ received = << >> /\ ndata = 0 /\ ~short /\ whole

\* What is on its way at each stage, once nothing was guessed: at most the
\* answer to the message last written, and the destination's bytes behind a
\* grant.
IdentWire ==
    /\ received = << >> /\ ndata = 0
    /\ \/ output = "ident" /\ proxy = "listening" /\ wire = << >>
       \/ output = "none" /\ proxy = "ident" /\ wire = << >>
       \/ output = "none" /\ proxy = "method" /\ Len(wire) = MethodLen
RequestWire ==
    /\ received = << >>
    /\ \/ output = "request" /\ proxy = "method" /\ wire = << >> /\ ndata = 0
       \/ output = "none" /\ proxy = "request" /\ wire = << >> /\ ndata = 0
       \/ output = "none" /\ proxy = "refused" /\ Len(wire) = ReplyLen /\ wire[2] # SUCCEEDED
       \/ /\ output = "none" /\ proxy = "granted" /\ Len(wire) = ReplyLen + ndata
          /\ \A i \in 1 .. ndata : wire[ReplyLen + i] = Destined(i)
ConnectedWire ==
    /\ proxy = "granted" /\ output \in {"none", "app"}
    /\ whole =>
           /\ Len(received) + Len(wire) = ndata
           /\ \A i \in 1 .. Len(received) : received[i] = Destined(i)
           /\ \A i \in 1 .. Len(wire) : wire[i] = Destined(Len(received) + i)

StageWire ==
    /\ stage \in {"IDENT", "REQUEST", "CONNECTED"}
    /\ ~short =>
           /\ stage = "IDENT" => IdentWire
           /\ stage = "REQUEST" => RequestWire
           /\ stage = "CONNECTED" => ConnectedWire

\* The inductive invariant.
WireInv ==
    /\ input = << >>
    /\ whole => ~short
    /\ bev \in {"none", "connecting"} => Fresh
    /\ Running => StageWire
    /\ ConnectedMeansGranted

LEMMA WireInit == Init => WireInv
BY DEF Init, WireInv, Fresh, Running, ConnectedMeansGranted

\* The user was told CONNECTED.
ToldConnected(t) == \E i \in 1 .. Len(t) : t[i] = "CONNECTED"

LEMMA TellOther ==
    ASSUME NEW t \in Seq({"CONNECTED", "ERROR", "EOF"}), NEW event \in {"ERROR", "EOF"}
    PROVE  ToldConnected(Append(t, event)) => ToldConnected(t)
<1>1. PICK u : u = Append(t, event)
  OBVIOUS
<1>2. /\ Len(u) = Len(t) + 1 /\ Len(t) \in Nat /\ u[Len(t) + 1] # "CONNECTED"
      /\ \A i \in 1 .. Len(t) : u[i] = t[i]
  BY <1>1
<1>3. ToldConnected(u) => ToldConnected(t)
  BY <1>2 DEF ToldConnected
<1> QED
  BY <1>1, <1>3

\* A step that ends the connection, for which it is enough that the proxy
\* stays where it is and the history with what was told.
LEMMA WireEnds ==
    ASSUME TypeOK, WireInv, input' = << >>, bev' \notin {"none", "connecting"},
           ~Running', proxy' = proxy, short' = short, whole' = whole,
           ~misused' => ~misused,
           misused' \/ told' = told \/ \E event \in {"ERROR", "EOF"} : told' = Append(told, event)
    PROVE  WireInv'
<1>1. told \in Seq({"CONNECTED", "ERROR", "EOF"})
  BY Zenon DEF TypeOK
<1>2. ~misused' => (ToldConnected(told') => ToldConnected(told))
  BY <1>1, TellOther, Zenon
<1>3. ConnectedMeansGranted'
  BY <1>2, Zenon DEF WireInv, ConnectedMeansGranted, ToldConnected
<1> QED
  BY <1>3, Zenon DEF WireInv

\* One that ends it in the middle of a read of the handshake.
LEMMA WireFails ==
    ASSUME TypeOK, WireInv, Running, Fail, proxy' = proxy, short => short',
           whole' => ~short'
    PROVE  WireInv'
<1>1. /\ bev' = "freed" /\ input' = << >> /\ told' = Append(told, "ERROR")
  BY Zenon DEF Fail, bufferevent_free
<1>2. ToldConnected(told') => ToldConnected(told)
  BY <1>1, TellOther, Zenon DEF TypeOK
<1>3. ConnectedMeansGranted'
  BY <1>2, Zenon DEF WireInv, ConnectedMeansGranted, ToldConnected, Running
<1> QED
  BY <1>1, <1>3, Zenon DEF WireInv, Running

\* While nothing is told, that invariant is about the wire alone.
LEMMA WireKept ==
    ASSUME WireInv, input' = << >>, told' = told, ~misused' => ~misused, whole' => ~short', short => short',
           bev' \in {"none", "connecting"} => Fresh',
           Running' => StageWire',
           ToldConnected(told) /\ ~short' /\ proxy = "granted" => proxy' = "granted"
    PROVE  WireInv'
BY Zenon DEF WireInv, ConnectedMeansGranted, ToldConnected

\* Before stage CONNECTED the user was told nothing.
LEMMA NotTold ==
    ASSUME Inv, Running, stage # "CONNECTED"
    PROVE  ~ToldConnected(told)
<1>1. told = << >>
  BY DEF Inv, ToldInv
<1> QED
  BY <1>1 DEF ToldConnected

\* A read takes the first k bytes on the wire.
LEMMA Pieces ==
    ASSUME wire \in Seq(Nat), input = << >>, NEW k \in 1 .. Len(wire)
    PROVE  /\ Got(k) \in Seq(Nat) /\ Len(Got(k)) = k
           /\ \A i \in 1 .. k : Got(k)[i] = wire[i]
           /\ Rest(k) \in Seq(Nat) /\ Len(Rest(k)) = Len(wire) - k
           /\ \A i \in 1 .. Len(wire) - k : Rest(k)[i] = wire[k + i]
<1>1. PICK p, q : p = SubSeq(wire, 1, k) /\ q = SubSeq(wire, k + 1, Len(wire))
  OBVIOUS
<1>2. k \in Nat /\ k >= 1 /\ k <= Len(wire) /\ Len(wire) \in Nat
  OBVIOUS
<1>3. p \in Seq(Nat) /\ Len(p) = k /\ \A i \in 1 .. k : p[i] = wire[i]
  <2>1. \A i \in 1 .. k : i \in 1 .. Len(wire) /\ wire[i] \in Nat
    BY <1>2
  <2> QED
    BY <1>1, <1>2, <2>1
<1>4. /\ q \in Seq(Nat) /\ Len(q) = Len(wire) - k
      /\ \A i \in 1 .. Len(wire) - k : q[i] = wire[k + i]
  BY <1>1, <1>2
<1>5. Got(k) = p /\ Rest(k) = q
  BY <1>1, <1>3 DEF Got, Rest
<1> QED
  BY <1>3, <1>4, <1>5

LEMMA WireReadIdent ==
    ASSUME TypeOK, Inv, WireInv, Running, NEW k \in 1 .. Len(wire), ReadIdent(k),
           UNCHANGED << context, others >>
    PROVE  WireInv'
<1>1. /\ wire \in Seq(Nat) /\ input = << >> /\ stage = "IDENT"
      /\ short \in BOOLEAN /\ whole \in BOOLEAN
  BY Zenon DEF TypeOK, WireInv, ReadIdent
<1>2. /\ Len(Got(k)) = k /\ k \in Nat /\ k <= Len(wire) /\ Len(wire) \in Nat
      /\ Rest(k) \in Seq(Nat) /\ Len(Rest(k)) = Len(wire) - k
  BY <1>1, Pieces
<1>3. /\ short' = (short \/ k < MethodLen)
      /\ whole' = (whole /\ k = MethodLen)
      /\ received' = received /\ proxy' = proxy /\ ndata' = ndata
  BY <1>2, Zenon DEF ReadIdent, others
<1>4. /\ short => short'
      /\ whole' => ~short'
      /\ ~short' => ~short /\ k >= MethodLen
  <2>1. (k = MethodLen => ~(k < MethodLen)) /\ (~(k < MethodLen) => k >= MethodLen)
    BY <1>2 DEF MethodLen
  <2> QED
    BY <1>3, <2>1, Zenon DEF WireInv
<1>5. CASE Fail
  BY <1>3, <1>4, <1>5, WireFails
<1>6. CASE /\ output' = "request" /\ stage' = "REQUEST"
           /\ input' = << >> /\ wire' = Rest(k) /\ UNCHANGED outcome
  <2>1. ASSUME ~short' PROVE RequestWire'
    <3>1. IdentWire
      BY <1>1, <1>4, <2>1, Zenon DEF WireInv, StageWire
    <3>2. wire # << >>
      BY <1>1
    <3>3. proxy = "method" /\ Len(wire) = MethodLen /\ received = << >> /\ ndata = 0
      BY <3>1, <3>2, Zenon DEF IdentWire
    <3>4. Len(wire') = 0
      BY <1>2, <1>4, <1>6, <2>1, <3>3 DEF MethodLen
    <3>5. wire' = << >>
      BY <1>2, <1>6, <3>4
    <3> QED
      BY <1>3, <1>6, <3>3, <3>5, Zenon DEF RequestWire
  <2>2. StageWire'
    BY <1>6, <2>1 DEF StageWire
  <2>3. told' = told /\ misused' = misused /\ bev' = "open"
    BY <1>6, Zenon DEF outcome, Running
  <2> QED
    BY <1>3, <1>4, <1>6, <2>2, <2>3, WireKept, Zenon
<1> QED
  BY <1>5, <1>6, Zenon DEF ReadIdent, socks5_send_req, Drained

LEMMA WireReadReply ==
    ASSUME TypeOK, Inv, WireInv, Running, NEW k \in 1 .. Len(wire), ReadReply(k),
           UNCHANGED << context, others >>
    PROVE  WireInv'
<1>1. /\ wire \in Seq(Nat) /\ input = << >> /\ stage = "REQUEST"
      /\ short \in BOOLEAN /\ whole \in BOOLEAN /\ ndata \in Nat
  BY DEF TypeOK, WireInv, ReadReply
<1>2. /\ Len(Got(k)) = k /\ k \in Nat /\ k <= Len(wire) /\ Len(wire) \in Nat
      /\ \A i \in 1 .. k : Got(k)[i] = wire[i]
      /\ Rest(k) \in Seq(Nat) /\ Len(Rest(k)) = Len(wire) - k
      /\ \A i \in 1 .. Len(wire) - k : Rest(k)[i] = wire[k + i]
  BY <1>1, Pieces
<1>3. /\ short' = (short \/ k < 3)
      /\ whole' = (whole /\ k = ReplyLen)
      /\ received' = received /\ proxy' = proxy /\ ndata' = ndata
  BY <1>2, Zenon DEF ReadReply, others
<1>4. /\ short => short'
      /\ whole' => ~short' /\ whole /\ k = ReplyLen
      /\ ~short' => ~short /\ k >= 3
  <2>1. (k = ReplyLen => ~(k < 3)) /\ (~(k < 3) => k >= 3)
    BY <1>2 DEF ReplyLen
  <2> QED
    BY <1>3, <2>1, Zenon DEF WireInv
<1>5. CASE Fail
  BY <1>3, <1>4, <1>5, WireFails
<1>6. CASE /\ \E reply \in Peek(Got(k), 2) : reply = SUCCEEDED
           /\ input' = << >> /\ wire' = Rest(k) /\ stage' = "CONNECTED"
           /\ told' = Append(told, "CONNECTED")
           /\ UNCHANGED << heap, bev, reading, writing, broken, misused, output >>
  <2>1. ASSUME ~short' PROVE ConnectedWire'
    <3>1. RequestWire
      BY <1>1, <1>4, <2>1, Zenon DEF WireInv, StageWire
    <3>2. wire # << >>
      BY <1>1
    <3>3. wire[2] = SUCCEEDED
      BY <1>2, <1>4, <1>6, <2>1 DEF Peek
    <3>4. /\ received = << >> /\ output = "none" /\ proxy = "granted"
          /\ Len(wire) = ReplyLen + ndata
          /\ \A i \in 1 .. ndata : wire[ReplyLen + i] = Destined(i)
      BY <3>1, <3>2, <3>3, Zenon DEF RequestWire
    <3>5. ASSUME whole'
          PROVE  /\ Len(received') = 0
                 /\ Len(received') + Len(wire') = ndata'
                 /\ \A i \in 1 .. Len(received') : received'[i] = Destined(i)
                 /\ \A i \in 1 .. Len(wire') : wire'[i] = Destined(Len(received') + i)
      <4>1. k = ReplyLen
        BY <1>4, <3>5
      <4>2. Len(received') = 0
        BY <1>3, <3>4
      <4>3. Len(wire') = ndata /\ \A i \in 1 .. ndata : wire'[i] = Destined(i)
        <5>1. PICK rest : rest = Rest(k)
          OBVIOUS
        <5>2. Len(rest) = ndata /\ \A i \in 1 .. ndata : rest[i] = wire[ReplyLen + i]
          BY <1>1, <1>2, <3>4, <4>1, <5>1 DEF ReplyLen
        <5>3. wire' = rest
          BY <1>6, <5>1, Zenon
        <5> QED
          BY <3>4, <5>2, <5>3, Zenon
      <4>4. \A i \in 1 .. ndata : Len(received') + i = i
        BY <1>1, <4>2
      <4> QED
        BY <1>1, <1>3, <4>2, <4>3, <4>4
    <3> QED
      BY <1>3, <1>6, <3>4, <3>5, Zenon DEF ConnectedWire
  <2>2. StageWire'
    BY <1>6, <2>1 DEF StageWire
  <2>3. ConnectedMeansGranted'
    BY <2>1, Zenon DEF ConnectedMeansGranted, ConnectedWire
  <2>4. bev' = "open"
    BY <1>6, Zenon DEF Running
  <2> QED
    BY <1>4, <1>6, <2>2, <2>3, <2>4, Zenon DEF WireInv
<1>7. \A version, reply, reserved : ~Refused(version, reply, reserved) => reply = SUCCEEDED
  BY Zenon DEF Refused
<1> QED
  BY <1>5, <1>6, <1>7, Zenon DEF ReadReply, Drained

LEMMA WireReadData ==
    ASSUME TypeOK, Inv, WireInv, Running, NEW k \in 1 .. Len(wire), ReadData(k),
           UNCHANGED << context, others >>
    PROVE  WireInv'
<1>1. /\ wire \in Seq(Nat) /\ received \in Seq(Nat) /\ input = << >>
      /\ stage = "CONNECTED" /\ ndata \in Nat
  BY DEF TypeOK, WireInv, ReadData
<1>2. PICK got, rest : got = Got(k) /\ rest = Rest(k)
  OBVIOUS
<1>3. /\ got \in Seq(Nat) /\ Len(got) = k /\ k \in Nat
      /\ k <= Len(wire) /\ Len(wire) \in Nat
      /\ \A i \in 1 .. k : got[i] = wire[i]
      /\ rest \in Seq(Nat) /\ Len(rest) = Len(wire) - k
      /\ \A i \in 1 .. Len(wire) - k : rest[i] = wire[k + i]
  <2>1. /\ got \in Seq(Nat) /\ Len(got) = k /\ \A i \in 1 .. k : got[i] = wire[i]
        /\ rest \in Seq(Nat) /\ Len(rest) = Len(wire) - k
        /\ \A i \in 1 .. Len(wire) - k : rest[i] = wire[k + i]
    BY <1>1, <1>2, Pieces, Zenon
  <2>2. k \in Nat /\ k <= Len(wire) /\ Len(wire) \in Nat
    BY <1>1
  <2> QED
    BY <2>1, <2>2
<1>4. /\ received' = received \o got /\ input' = << >> /\ wire' = rest
      /\ short' = short /\ whole' = whole /\ proxy' = proxy /\ ndata' = ndata
      /\ output' = output /\ stage' = stage
      /\ heap' = heap /\ bev' = bev /\ told' = told /\ misused' = misused
  BY <1>2, Zenon DEF ReadData, others, history, outcome
<1>5. /\ Len(received') = Len(received) + k /\ Len(received) \in Nat
      /\ \A i \in 1 .. Len(received) : received'[i] = received[i]
      /\ \A i \in 1 .. k : received'[Len(received) + i] = wire[i]
  <2>1. PICK r : r = received \o got
    OBVIOUS
  <2>2. /\ Len(r) = Len(received) + k /\ Len(received) \in Nat
        /\ \A i \in 1 .. Len(received) : r[i] = received[i]
    BY <1>1, <1>3, <2>1
  <2>3. \A i \in 1 .. k : r[Len(received) + i] = got[i]
    BY <1>1, <1>3, <2>1
  <2>4. received' = r
    BY <1>4, <2>1
  <2> QED
    BY <1>3, <2>2, <2>3, <2>4, Zenon
<1>6. ASSUME ConnectedWire PROVE ConnectedWire'
  <2>1. ASSUME whole
        PROVE  /\ Len(received') + Len(wire') = ndata'
               /\ \A i \in 1 .. Len(received') : received'[i] = Destined(i)
               /\ \A i \in 1 .. Len(wire') : wire'[i] = Destined(Len(received') + i)
    <3>1. /\ Len(received) + Len(wire) = ndata
          /\ \A i \in 1 .. Len(received) : received[i] = Destined(i)
          /\ \A i \in 1 .. Len(wire) : wire[i] = Destined(Len(received) + i)
      BY <1>6, <2>1, Zenon DEF ConnectedWire
    <3>2. Len(received') + Len(wire') = ndata'
      <4>1. Len(wire') = Len(wire) - k /\ ndata' = ndata
        BY <1>3, <1>4
      <4> QED
        BY <1>3, <1>5, <3>1, <4>1
    <3>3. ASSUME NEW i \in 1 .. Len(received') PROVE received'[i] = Destined(i)
      <4>1. CASE i <= Len(received)
        BY <1>5, <3>1, <4>1
      <4>2. CASE i > Len(received)
        <5>1. i - Len(received) \in 1 .. k /\ i - Len(received) \in 1 .. Len(wire)
          BY <1>3, <1>5, <4>2
        <5>2. Len(received) + (i - Len(received)) = i
          BY <1>3, <1>5
        <5> QED
          BY <1>5, <3>1, <5>1, <5>2
      <4> QED
        BY <1>5, <4>1, <4>2
    <3>4. ASSUME NEW i \in 1 .. Len(wire') PROVE wire'[i] = Destined(Len(received') + i)
      <4>1. /\ i \in 1 .. Len(wire) - k /\ k + i \in 1 .. Len(wire)
            /\ Len(received) + (k + i) = Len(received') + i
        BY <1>3, <1>4, <1>5
      <4> QED
        BY <1>3, <1>4, <3>1, <4>1
    <3> QED
      BY <3>2, <3>3, <3>4
  <2>2. proxy' = "granted" /\ output' \in {"none", "app"}
    BY <1>4, <1>6, Zenon DEF ConnectedWire
  <2> QED
    BY <1>4, <2>1, <2>2, Zenon DEF ConnectedWire
<1>7. StageWire'
  BY <1>1, <1>4, <1>6 DEF WireInv, StageWire
<1>8. bev' = "open"
  BY <1>4, Zenon DEF Running
<1> QED
  BY <1>4, <1>7, <1>8, WireKept, Zenon DEF WireInv

\* A step of the open connection that neither reads nor ends it.
LEMMA WireOn ==
    ASSUME Inv, WireInv, bev = "open", UNCHANGED << outcome, stage, input, received, history >>,
           Running /\ ~short =>
               /\ stage = "IDENT" => IdentWire'
               /\ stage = "REQUEST" => RequestWire'
               /\ stage = "CONNECTED" => ConnectedWire',
           Running \/ proxy' = proxy \/ proxy # "granted"
    PROVE  WireInv'
<1>1. bev' = "open" /\ told' = told /\ misused' = misused /\ input' = << >> /\ short' = short /\ whole' = whole
      /\ stage' = stage
  BY Zenon DEF outcome, history, WireInv
<1>2. Running' <=> Running
  BY Zenon DEF Running, Live, outcome
<1>3. Running' => StageWire'
  BY <1>1, <1>2, Zenon DEF WireInv, StageWire
<1>4. ToldConnected(told) /\ ~short' /\ proxy = "granted" => proxy' = "granted"
  <2>1. ASSUME Running, ~short, ToldConnected(told) PROVE proxy' = "granted"
    BY <2>1, NotTold, Zenon DEF ConnectedWire
  <2> QED
    BY <1>1, <2>1, Zenon
<1> QED
  BY <1>1, <1>3, <1>4, WireKept, Zenon DEF WireInv

LEMMA WireWrite ==
    ASSUME TypeOK, Inv, WireInv, write_cb
    PROVE  WireInv'
<1>1. /\ bev = "open" /\ Running /\ output # "none" /\ output' = "none"
      /\ proxy' = IF output \in {"ident", "request"} THEN output ELSE proxy
      /\ UNCHANGED << outcome, stage, input, received, history >>
      /\ UNCHANGED << wire, ndata, short, whole >>
  BY Zenon DEF write_cb, Running, history
<1>2. ASSUME IdentWire PROVE IdentWire'
  <2>1. output = "ident" /\ wire = << >> /\ received = << >> /\ ndata = 0
    BY <1>1, <1>2, Zenon DEF IdentWire
  <2> QED
    BY <1>1, <2>1, Zenon DEF IdentWire
<1>3. ASSUME RequestWire PROVE RequestWire'
  <2>1. output = "request" /\ wire = << >> /\ received = << >> /\ ndata = 0
    BY <1>1, <1>3, Zenon DEF RequestWire
  <2> QED
    BY <1>1, <2>1, Zenon DEF RequestWire
<1>4. ASSUME ConnectedWire PROVE ConnectedWire' /\ proxy' = proxy
  <2>1. proxy' = proxy /\ output = "app"
    BY <1>1, <1>4, Zenon DEF ConnectedWire
  <2> QED
    BY <1>1, <1>4, <2>1, Zenon DEF ConnectedWire
<1>5. StageWire
  BY <1>1, Zenon DEF WireInv
<1> QED
  BY <1>1, <1>2, <1>3, <1>4, <1>5, WireOn, Zenon DEF StageWire

\* The proxy answers only what the client asked last, and nothing else of its
\* is on the wire then.
LEMMA WireAnswers ==
    ASSUME TypeOK, Inv, WireInv, ProxyAnswers
    PROVE  WireInv'
<1>1. /\ bev = "open" /\ proxy # "granted" /\ proxy \in {"ident", "request"}
      /\ UNCHANGED << outcome, stage, input, received, history >>
      /\ UNCHANGED << output, ndata, short, whole >>
  BY Zenon DEF ProxyAnswers, history
<1>2. ASSUME IdentWire PROVE IdentWire'
  <2>1. proxy = "ident" /\ output = "none" /\ wire = << >> /\ received = << >> /\ ndata = 0
    BY <1>1, <1>2, Zenon DEF IdentWire
  <2>2. proxy' = "method" /\ \E version, method : wire' = wire \o << version, method >>
    BY <2>1, Zenon DEF ProxyAnswers
  <2>3. Len(wire') = MethodLen
    <3>1. PICK version, method : wire' = wire \o << version, method >>
      BY <2>2, Zenon
    <3>2. wire = << >>
      BY <2>1
    <3> QED
      BY <3>1, <3>2 DEF MethodLen
  <2> QED
    BY <1>1, <2>1, <2>2, <2>3, Zenon DEF IdentWire
<1>3. ASSUME RequestWire PROVE RequestWire'
  <2>1. proxy = "request" /\ output = "none" /\ wire = << >> /\ received = << >> /\ ndata = 0
    BY <1>1, <1>3, Zenon DEF RequestWire
  <2>2. PICK reply \in {SUCCEEDED, 1} :
            /\ wire' = wire \o << VERSION, reply, RESERVED, 127 >>
            /\ proxy' = IF reply = SUCCEEDED THEN "granted" ELSE "refused"
    BY <2>1, Zenon DEF ProxyAnswers
  <2>3. Len(wire') = 4 /\ wire'[2] = reply
    <3>1. wire = << >> /\ wire' = wire \o << VERSION, reply, RESERVED, 127 >>
      BY <2>1, <2>2
    <3> QED
      BY <3>1
  <2>4. Len(wire') = ReplyLen /\ Len(wire') = ReplyLen + 0
    BY <2>3 DEF ReplyLen
  <2>5. \A i \in 1 .. 0 : FALSE
    OBVIOUS
  <2>6. CASE reply = SUCCEEDED
    BY <1>1, <2>1, <2>2, <2>4, <2>5, <2>6, Zenon DEF RequestWire
  <2>7. CASE reply # SUCCEEDED
    BY <1>1, <2>1, <2>2, <2>3, <2>4, <2>7, Zenon DEF RequestWire
  <2> QED
    BY <2>6, <2>7
<1>4. ~ConnectedWire
  BY <1>1, Zenon DEF ConnectedWire
<1>5. Running => StageWire
  BY Zenon DEF WireInv
<1> QED
  BY <1>1, <1>2, <1>3, <1>4, <1>5, WireOn, Zenon DEF StageWire

LEMMA WireSends ==
    ASSUME TypeOK, Inv, WireInv, DestinationSends
    PROVE  WireInv'
<1>1. /\ bev = "open" /\ proxy = "granted" /\ proxy' = proxy
      /\ UNCHANGED << outcome, stage, input, received, history >>
      /\ UNCHANGED << output, short, whole >>
      /\ ndata' = ndata + 1 /\ wire' = Append(wire, Destined(ndata + 1))
  BY Zenon DEF DestinationSends, history
<1>2. /\ Len(wire') = Len(wire) + 1 /\ Len(wire) \in Nat /\ ndata \in Nat
      /\ \A i \in 1 .. Len(wire) : wire'[i] = wire[i]
      /\ wire'[Len(wire) + 1] = Destined(ndata + 1)
      /\ Len(received) \in Nat
  <2>1. PICK w : w = Append(wire, Destined(ndata + 1))
    OBVIOUS
  <2>2. wire \in Seq(Nat) /\ received \in Seq(Nat) /\ ndata \in Nat
    BY DEF TypeOK
  <2>3. /\ Len(w) = Len(wire) + 1 /\ Len(wire) \in Nat /\ Len(received) \in Nat
        /\ \A i \in 1 .. Len(wire) : w[i] = wire[i]
        /\ w[Len(wire) + 1] = Destined(ndata + 1)
    BY <2>1, <2>2 DEF Destined
  <2> QED
    BY <1>1, <2>1, <2>2, <2>3, Zenon
<1>3. ~IdentWire
  BY <1>1, Zenon DEF IdentWire
<1>4. ASSUME RequestWire PROVE RequestWire'
  <2>1. /\ output = "none" /\ received = << >> /\ Len(wire) = ReplyLen + ndata
        /\ \A i \in 1 .. ndata : wire[ReplyLen + i] = Destined(i)
    BY <1>1, <1>4, Zenon DEF RequestWire
  <2>2. /\ Len(wire') = ReplyLen + ndata'
        /\ \A i \in 1 .. ndata' : wire'[ReplyLen + i] = Destined(i)
    <3>1. ReplyLen = 4
      BY DEF ReplyLen
    <3>2. Len(wire') = ReplyLen + ndata'
      BY <1>1, <1>2, <2>1, <3>1
    <3>3. ASSUME NEW i \in 1 .. ndata' PROVE wire'[ReplyLen + i] = Destined(i)
      <4>1. CASE i = ndata + 1
        <5>1. ReplyLen + i = Len(wire) + 1
          BY <1>2, <2>1, <3>1, <4>1
        <5> QED
          BY <1>2, <4>1, <5>1, Zenon
      <4>2. CASE i # ndata + 1
        <5>1. i \in 1 .. ndata /\ ReplyLen + i \in 1 .. Len(wire)
          BY <1>1, <1>2, <2>1, <3>1, <4>2
        <5> QED
          BY <1>2, <2>1, <5>1, Zenon
      <4> QED
        BY <4>1, <4>2
    <3> QED
      BY <3>2, <3>3
  <2> QED
    BY <1>1, <2>1, <2>2, Zenon DEF RequestWire
<1>5. ASSUME ConnectedWire PROVE ConnectedWire'
  <2>1. ASSUME whole
        PROVE  /\ Len(received') + Len(wire') = ndata'
               /\ \A i \in 1 .. Len(received') : received'[i] = Destined(i)
               /\ \A i \in 1 .. Len(wire') : wire'[i] = Destined(Len(received') + i)
    <3>1. /\ Len(received) + Len(wire) = ndata
          /\ \A i \in 1 .. Len(received) : received[i] = Destined(i)
          /\ \A i \in 1 .. Len(wire) : wire[i] = Destined(Len(received) + i)
      BY <1>5, <2>1, Zenon DEF ConnectedWire
    <3>2. received' = received
      BY <1>1
    <3>3. Len(received) + Len(wire') = ndata'
      BY <1>1, <1>2, <3>1
    <3>4. ASSUME NEW i \in 1 .. Len(wire') PROVE wire'[i] = Destined(Len(received) + i)
      <4>1. CASE i = Len(wire) + 1
        <5>1. Len(received) + i = ndata + 1
          BY <1>2, <3>1, <4>1
        <5> QED
          BY <1>2, <4>1, <5>1, Zenon
      <4>2. CASE i # Len(wire) + 1
        <5>1. i \in 1 .. Len(wire)
          BY <1>2, <4>2
        <5> QED
          BY <1>2, <3>1, <5>1, Zenon
      <4> QED
        BY <4>1, <4>2
    <3> QED
      BY <3>1, <3>2, <3>3, <3>4, Zenon
  <2> QED
    BY <1>1, <1>5, <2>1, Zenon DEF ConnectedWire
<1>6. Running => StageWire
  BY Zenon DEF WireInv
<1> QED
  BY <1>1, <1>3, <1>4, <1>5, <1>6, WireOn, Zenon DEF StageWire

LEMMA WireUserWrites ==
    ASSUME Inv, WireInv, UserWrites
    PROVE  WireInv'
<1>1. /\ bev = "open" /\ stage = "CONNECTED" /\ proxy' = proxy /\ output' = "app"
      /\ UNCHANGED << outcome, stage, input, received, history >>
      /\ UNCHANGED << wire, ndata, short, whole >>
  BY Zenon DEF UserWrites, history, others
<1>2. ASSUME ConnectedWire PROVE ConnectedWire'
  BY <1>1, <1>2, Zenon DEF ConnectedWire
<1>3. Running => StageWire
  BY Zenon DEF WireInv
<1>4. "CONNECTED" # "IDENT" /\ "CONNECTED" # "REQUEST"
  OBVIOUS
<1> QED
  BY <1>1, <1>2, <1>3, <1>4, WireOn, Zenon DEF StageWire

\* Before there is a connection nothing is on the wire.
LEMMA WireBefore ==
    ASSUME Inv, WireInv,
           \/ socks5_ctx_new_hostname \/ socks5_ctx_new_ipv4 \/ NewIpv4Fails
           \/ socks5_client_init \/ UserGivesUp
    PROVE  WireInv'
<1>1. UNCHANGED << told, stage, buffers, others, received, history >>
  BY Zenon DEF socks5_ctx_new_hostname, socks5_ctx_new_ipv4, New, NewIpv4Fails,
               socks5_client_init, UserGivesUp
<1>2. bev = "none"
  BY Zenon DEF socks5_ctx_new_hostname, socks5_ctx_new_ipv4, New, NewIpv4Fails,
               socks5_client_init, UserGivesUp, Inv, ContextInv
<1>3. bev' \in {"none", "connecting"}
  BY <1>2, Zenon DEF socks5_ctx_new_hostname, socks5_ctx_new_ipv4, New, NewIpv4Fails,
                     socks5_client_init, UserGivesUp
<1>4. Fresh /\ Fresh'
  BY <1>1, <1>2, Zenon DEF WireInv, Fresh, buffers, others, history
<1>5. ~Running'
  BY <1>3, Zenon DEF Running
<1>6. ~misused
  BY <1>2, Zenon DEF socks5_ctx_new_hostname, socks5_ctx_new_ipv4, New, NewIpv4Fails,
                     socks5_client_init, UserGivesUp, Inv, ContextInv
<1> QED
  BY <1>1, <1>4, <1>5, <1>6, WireKept, Zenon DEF WireInv, buffers, others, history

LEMMA WireConnects ==
    ASSUME TypeOK, Inv, WireInv, Connected
    PROVE  WireInv'
<1>1. bev = "connecting" /\ ~misused /\ UNCHANGED << received, proxy, ndata, short, whole >>
  BY Zenon DEF Connected, others, history, Inv, ToldInv
<1>2. Fresh
  BY <1>1, Zenon DEF WireInv
<1>3. CASE Fail
  <2>1. bev' = "freed" /\ input' = << >> /\ told' = Append(told, "ERROR")
    BY <1>3, Zenon DEF Fail, bufferevent_free
  <2>2. bev' \notin {"none", "connecting"} /\ ~Running'
    BY <2>1, Zenon DEF Running
  <2> QED
    BY <1>1, <2>1, <2>2, WireEnds, Zenon
<1>4. CASE /\ bev' = "open" /\ output' = "ident" /\ stage' = "IDENT"
           /\ UNCHANGED << heap, reading, writing, told, broken, misused, input, wire >>
  <2>1. IdentWire'
    BY <1>1, <1>2, <1>4, Zenon DEF Fresh, IdentWire
  <2>2. StageWire'
    BY <1>4, <2>1, Zenon DEF StageWire
  <2> QED
    BY <1>1, <1>4, <2>2, WireKept, Zenon DEF WireInv
<1> QED
  BY <1>3, <1>4, Zenon DEF Connected

LEMMA WireEnded ==
    ASSUME TypeOK, Inv, WireInv, Ended \/ StaleCallback \/ UserCloses
    PROVE  WireInv'
<1>1. UNCHANGED << proxy, short, whole >> /\ (~misused' => ~misused)
  BY Zenon DEF Ended, StaleCallback, UserCloses, Running, others, history
<1>2. input = << >> /\ ContextInv
  BY Zenon DEF WireInv, Inv
<1>3. CASE Ended
  <2>1. PICK event \in {"ERROR", "EOF"} :
            \E read, write : EventFails(event, read, write)
    BY <1>3, Zenon DEF Ended
  <2>2. PICK read, write : EventFails(event, read, write)
    BY <2>1, Zenon
  <2>3. ~Live' /\ (bev' = "freed" \/ bev' = "open")
    BY <1>2, <2>2, EventFailsEffect, Zenon
  <2>4. told' = Append(told, event) /\ input' = << >>
    BY <1>2, <2>2, Zenon DEF EventFails, UserFreesOrKeeps, bufferevent_free
  <2>5. bev' \notin {"none", "connecting"} /\ ~Running'
    BY <2>3, Zenon DEF Running
  <2> QED
    BY <1>1, <2>4, <2>5, WireEnds, Zenon
<1>4. CASE StaleCallback
  <2>1. bev' \in {"open", "freed"} /\ misused' = TRUE /\ input' = << >>
    BY <1>2, <1>4, Zenon DEF StaleCallback, Kept, bufferevent_free, buffers
  <2>2. bev' \notin {"none", "connecting"} /\ ~Running'
    BY <2>1, Zenon DEF Running
  <2> QED
    BY <1>1, <2>1, <2>2, WireEnds, Zenon
<1>5. CASE UserCloses
  <2>1. bev' = "freed" /\ input' = << >> /\ told' = told
    BY <1>5, Zenon DEF UserCloses, bufferevent_free
  <2>2. bev' \notin {"none", "connecting"} /\ ~Running'
    BY <2>1, Zenon DEF Running
  <2> QED
    BY <1>1, <2>1, <2>2, WireEnds, Zenon
<1> QED
  BY <1>3, <1>4, <1>5

LEMMA WireNext == TypeOK /\ Inv /\ WireInv /\ [Next]_vars => WireInv'
<1> SUFFICES ASSUME TypeOK, Inv, WireInv, [Next]_vars
             PROVE  WireInv'
  OBVIOUS
<1>1. CASE read_cb
  <2>1. PICK k \in 1 .. Len(wire) : ReadIdent(k) \/ ReadReply(k) \/ ReadData(k)
    BY <1>1, Zenon DEF read_cb
  <2>2. Running /\ UNCHANGED << context, others >>
    BY <1>1, Zenon DEF read_cb
  <2> QED
    BY <2>1, <2>2, WireReadIdent, WireReadReply, WireReadData, Zenon
<1>2. CASE UNCHANGED vars
  <2>1. /\ UNCHANGED << heap, bev, misused, told, stage, input, wire, output, proxy >>
        /\ UNCHANGED << ndata, received, short, whole >>
    BY <1>2, Zenon DEF vars, outcome, buffers, others, history
  <2>2. /\ Running' <=> Running
        /\ Fresh' <=> Fresh
    BY <2>1, Zenon DEF Running, Live, Fresh
  <2>3. /\ IdentWire' <=> IdentWire
        /\ RequestWire' <=> RequestWire
        /\ ConnectedWire' <=> ConnectedWire
    BY <2>1 DEF IdentWire, RequestWire, ConnectedWire
  <2>4. StageWire' <=> StageWire
    BY <2>1, <2>3, Zenon DEF StageWire
  <2> QED
    BY <2>1, <2>2, <2>4, WireKept, Zenon DEF WireInv
<1> QED
  BY <1>1, <1>2, WireBefore, WireConnects, WireEnded, WireWrite, WireAnswers, WireSends,
     WireUserWrites, Zenon DEF Next, event_cb

LEMMA WireCorrect == Spec => [](TypeOK /\ Inv /\ WireInv)
<1>1. Init => TypeOK /\ Inv /\ WireInv
  BY TypeInit, InvInit, WireInit
<1>2. TypeOK /\ Inv /\ WireInv /\ [Next]_vars => (TypeOK /\ Inv /\ WireInv)'
  BY TypeNext, InvNext, WireNext
<1> QED
  BY <1>1, <1>2, PTL DEF Spec

\* CONNECTED is told of a grant of the proxy's alone, as long as no callback
\* looked at bytes that had not come: what is read at stage REQUEST is then
\* the reply to the request, and its second byte the grant.
THEOREM ConnectedCorrect == Spec => []ConnectedMeansGranted
<1>1. TypeOK /\ Inv /\ WireInv => ConnectedMeansGranted
  BY DEF WireInv
<1> QED
  BY <1>1, WireCorrect, PTL

\* What the user reads, and what it has still to read, is what the destination
\* sent, all of it and in order, when each answer of the proxy was read whole
\* and alone.
THEOREM ReadsCorrect == Spec => []UserReadsDestination
<1>1. ASSUME TypeOK, Inv, WireInv PROVE UserReadsDestination
  <2>1. SUFFICES ASSUME whole, Running, stage = "CONNECTED"
                 PROVE  received \o input \o wire = [i \in 1 .. ndata |-> Destined(i)]
    BY Zenon DEF UserReadsDestination
  <2>2. ConnectedWire /\ input = << >>
    BY <1>1, <2>1, Zenon DEF WireInv, StageWire
  <2>3. /\ Len(received) + Len(wire) = ndata
        /\ \A i \in 1 .. Len(received) : received[i] = Destined(i)
        /\ \A i \in 1 .. Len(wire) : wire[i] = Destined(Len(received) + i)
    BY <2>1, <2>2, Zenon DEF ConnectedWire
  <2>4. received \in Seq(Nat) /\ wire \in Seq(Nat)
    BY <1>1 DEF TypeOK
  <2>5. PICK all : all = received \o input \o wire
    OBVIOUS
  <2>6. /\ all \in Seq(Nat) /\ Len(all) = ndata
        /\ \A i \in 1 .. Len(received) : all[i] = received[i]
        /\ \A i \in 1 .. Len(wire) : all[Len(received) + i] = wire[i]
    BY <2>2, <2>3, <2>4, <2>5
  <2>7. ASSUME NEW i \in 1 .. ndata PROVE all[i] = Destined(i)
    <3>1. CASE i <= Len(received)
      <4>1. i \in 1 .. Len(received)
        BY <2>4, <3>1
      <4> QED
        BY <2>3, <2>6, <4>1, Zenon
    <3>2. CASE i > Len(received)
      <4>1. i - Len(received) \in 1 .. Len(wire) /\ Len(received) + (i - Len(received)) = i
        BY <2>3, <2>4, <3>2
      <4> QED
        BY <2>3, <2>6, <4>1, Zenon
    <3> QED
      BY <2>3, <2>4, <3>1, <3>2
  <2>8. all = [i \in 1 .. ndata |-> Destined(i)]
    BY <2>3, <2>4, <2>6, <2>7
  <2> QED
    BY <2>5, <2>8
<1> QED
  BY <1>1, WireCorrect, PTL
=============================================================================
