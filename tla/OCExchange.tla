------------------------------ MODULE OCExchange ------------------------------
(***************************************************************************)
(* Requests and their answers: OCDoRequest, OCCancel and OCHandleResponse  *)
(* of a client (oocf_client.c, occlientcb.c), the entity handlers and the  *)
(* request tree of a server (oocf_server.c, ocserverrequest.c), and the    *)
(* message handler of both (camessagehandler.c) with its send thread,      *)
(* receive queue and retransmission list, over a network that loses,       *)
(* delays and reorders.  Copies come from retransmission.                  *)
(*                                                                         *)
(* A request is named by its token.  A message id is <<token, attempt>>:   *)
(* attempt 0 is the request of OCDoRequest, the later ones are reissues in *)
(* plain CBOR after 4.06.  Between handing a message to the transport and  *)
(* recording it for retransmission the send thread holds it in wire.  What *)
(* CARetransmission does with a record is seen from above.                 *)
(***************************************************************************)
EXTENDS Integers, Sequences, FiniteSets, Functions, Lists

CONSTANTS Token,        \* requests
          Con,          \* the confirmable ones
          Slow,         \* those whose resource may be slow
          Legacy,       \* those to a server that knows only plain CBOR
          TryingCount,  \* retransmissions of a confirmable message
          MaxAttempt,   \* bound: reissues of one request
          MaxInFlight,  \* bound: the network drops what goes beyond
          MaxQueue,     \* bound: nothing is received beyond it
          MaxOwed,      \* bound: slow executions of one request
          None          \* no token, no message

ASSUME ExchangeAssumption ==
  /\ Con \subseteq Token /\ Slow \subseteq Token /\ Legacy \subseteq Token
  /\ None \notin Token
  /\ TryingCount \in Nat \ {0} /\ MaxAttempt \in Nat
  /\ MaxInFlight \in Nat /\ MaxQueue \in Nat /\ MaxOwed \in Nat

Id == {m \in Token \X (0 .. MaxAttempt) : m[2] = 0 \/ m[1] \in Legacy}
TokenOf(m) == m[1]
IsCon(m) == TokenOf(m) \in Con

VARIABLES
  cbList,     \* client: g_cbList, the tokens of the callbacks
  expired,    \* client: callbacks whose TTL has passed
  attempt,    \* client: the last attempt of each request, -1 before it
  sendQ,      \* client: g_sendThread
  wire,       \* client: the message sent and not yet recorded
  tried,      \* client: retransmissions of each recorded message, else None
  recvQ,      \* client: g_receiveThread
  request,    \* server: the entry of each token in g_serverRequestTree
  owed,       \* server: calls of OCDoResponse that slow handlers still owe
  conOut,     \* server: slow responses in the retransmission list
  told,       \* history: the last word with the application
  executed,   \* history: requests that an entity handler has executed
  unsettled,  \* history: acknowledged without an answer, or not parsed
  net         \* the messages under way

client == <<cbList, expired, attempt, sendQ, wire, tried, recvQ, told, unsettled>>
server == <<request, owed, conOut, executed>>
vars == <<client, server, net>>

(* "empty" is the server's empty ACK; clientAck and clientRst are what the *)
(* client sends for a response; timeout and error only come in queues.     *)
Kind == {"request", "content", "refused", "notAcceptable", "empty", "clientAck", "clientRst"}
Message == [kind : Kind, id : Id, type : {"CON", "NON", "ACK"}]
Item == [kind : {"content", "refused", "notAcceptable", "empty", "timeout", "error"},
         id : Id, type : {"CON", "NON", "ACK"}]

Msg(kind, id, type) == [kind |-> kind, id |-> id, type |-> type]
RequestMsg(id) == Msg("request", id, IF IsCon(id) THEN "CON" ELSE "NON")
Direct(kind, id) == Msg(kind, id, IF IsCon(id) THEN "ACK" ELSE "NON")

Init ==
  /\ cbList = << >> /\ expired = {} /\ attempt = [t \in Token |-> -1]
  /\ sendQ = << >> /\ wire = None /\ tried = [m \in Id |-> None] /\ recvQ = << >>
  /\ request = [t \in Token |-> None] /\ owed = [m \in Id |-> 0]
  /\ conOut = {}
  /\ told = [t \in Token |-> "none"]
  /\ executed = {} /\ unsettled = {}
  /\ net = {}

Live(t) == t \in Range(cbList)
Recorded(m) == tried[m] # None

-----------------------------------------------------------------------------
(* The network.                                                            *)
Emit(n, out) ==
  IF Cardinality(n \cup out) <= MaxInFlight THEN n \cup out ELSE n

Receive(m, out) ==
  m \in net /\ net' = Emit(net \ {m}, out)

Lose(m) == Receive(m, {}) /\ UNCHANGED <<client, server>>

-----------------------------------------------------------------------------
(* The callback list.  GetClientCBUsingToken and GetClientCBUsingHandle    *)
(* walk it up to the callback they look for, and delete those on their way *)
(* whose TTL has passed.  The one they find is not asked for its age.      *)
Lookup(list, t) ==
  LET n == IF t \in Range(list) THEN CHOOSE i \in DOMAIN list : list[i] = t ELSE Len(list) + 1
  IN  Kept(list, {i \in DOMAIN list : i < n => list[i] \notin expired})

DeleteClientCB(list, t) == Kept(list, {i \in DOMAIN list : list[i] # t})
Cancel(list, t) == DeleteClientCB(Lookup(list, t), t)

(* The TTL goes with its callback.                                         *)
Relist(list) == cbList' = list /\ expired' = expired \cap Range(list)

(* The list when a callback has run that may have called OCCancel for u.   *)
AfterCallback(list, u) == IF u = None THEN list ELSE Cancel(list, u)

OCDoRequest(t) ==
  /\ attempt[t] = -1
  /\ attempt' = [attempt EXCEPT ![t] = 0]
  /\ cbList' = Append(cbList, t)
  /\ sendQ' = Append(sendQ, <<t, 0>>)
  /\ UNCHANGED <<expired, wire, tried, recvQ, told, unsettled, server, net>>

(* OCCancel for GET, PUT, POST, DELETE and discovery.                      *)
OCCancel(t) ==
  /\ attempt[t] # -1
  /\ Relist(Cancel(cbList, t))
  /\ told' = IF Live(t) THEN [told EXCEPT ![t] = "cancelled"] ELSE told
  /\ UNCHANGED <<attempt, sendQ, wire, tried, recvQ, unsettled, server, net>>

(* The clock passes a callback's TTL.                                      *)
Expire(t) ==
  /\ Live(t) /\ t \notin expired
  /\ expired' = expired \cup {t}
  /\ UNCHANGED <<cbList, attempt, sendQ, wire, tried, recvQ, told, unsettled,
                 server, net>>

-----------------------------------------------------------------------------
(* CAProcessSendData on the send thread: hand over, then record.           *)
SendUnicastData ==
  /\ sendQ # << >> /\ wire = None
  /\ sendQ' = Tail(sendQ)
  /\ wire' = IF IsCon(Head(sendQ)) THEN Head(sendQ) ELSE None
  /\ net' = Emit(net, {RequestMsg(Head(sendQ))})
  /\ UNCHANGED <<cbList, expired, attempt, tried, recvQ, told, unsettled, server>>

(* The PDU cannot be generated or handed over: nothing is recorded.        *)
SendFails ==
  /\ sendQ # << >> /\ wire = None
  /\ sendQ' = Tail(sendQ)
  /\ recvQ' = Append(recvQ, Msg("error", Head(sendQ), "NON"))
  /\ UNCHANGED <<cbList, expired, attempt, wire, tried, told, unsettled,
                 server, net>>

SentData ==
  /\ wire # None
  /\ tried' = [tried EXCEPT ![wire] = 0]
  /\ wire' = None
  /\ UNCHANGED <<cbList, expired, attempt, sendQ, recvQ, told, unsettled,
                 server, net>>

(* sendto fails on the transport's own thread, before the message is       *)
(* recorded or after it: CAErrorHandler takes the record out, as a RESET   *)
(* would, and queues the error.                                            *)
CAErrorHandlerSilent(m) == tried' = [tried EXCEPT ![m] = None] /\ UNCHANGED recvQ \* mutant
CAErrorHandler(m) == /\ tried' = [tried EXCEPT ![m] = None]
                     /\ recvQ' = Append(recvQ, Msg("error", m, "NON"))

SendtoFails(m) ==
  /\ RequestMsg(m) \in net /\ Len(recvQ) < MaxQueue
  /\ net' = net \ {RequestMsg(m)}
  /\ CAErrorHandler(m)
  /\ UNCHANGED <<cbList, expired, attempt, sendQ, wire, told, unsettled, server>>

(* The retransmission thread; the last retransmission is reported as a     *)
(* timeout at once.                                                        *)
LastTryLate(m) == tried[m] = TryingCount                              \* mutant
LastTry(m) == tried[m] + 1 = TryingCount

Retransmit(m) ==
  /\ Recorded(m)
  /\ net' = Emit(net, {RequestMsg(m)})
  /\ IF LastTry(m)
     THEN /\ tried' = [tried EXCEPT ![m] = None]
          /\ recvQ' = Append(recvQ, Msg("timeout", m, "CON"))
     ELSE /\ tried' = [tried EXCEPT ![m] = @ + 1]
          /\ UNCHANGED recvQ
  /\ UNCHANGED <<cbList, expired, attempt, sendQ, wire, told, unsettled, server>>

(* mh_CAReceivedPacketCallback for a response.  An ACK ends the            *)
(* retransmission of its id; an empty one gets its token from the record,  *)
(* and means nothing to the layer above if there is none.                  *)
Reissues(t) == Cardinality({i \in DOMAIN recvQ :
                             recvQ[i].kind = "notAcceptable" /\ TokenOf(recvQ[i].id) = t})

ReceiveResponse(r) ==
  /\ r.kind \in {"content", "refused", "notAcceptable", "empty"}
  /\ Len(recvQ) < MaxQueue
  /\ r.kind = "notAcceptable" => attempt[TokenOf(r.id)] + Reissues(TokenOf(r.id)) < MaxAttempt
  /\ Receive(r, {})
  /\ tried' = IF r.type = "ACK" THEN [tried EXCEPT ![r.id] = None] ELSE tried
  /\ recvQ' = IF r.kind = "empty" /\ ~Recorded(r.id) THEN recvQ ELSE Append(recvQ, r)
  /\ UNCHANGED <<cbList, expired, attempt, sendQ, wire, told, unsettled, server>>

-----------------------------------------------------------------------------
(* OCHandleResponse and HandleCAErrorResponse, called by OCProcess.        *)
Taken(kinds) == recvQ # << >> /\ Head(recvQ).kind \in kinds /\ recvQ' = Tail(recvQ)
Subject == TokenOf(Head(recvQ).id)

(* A callback.  The application may call OCCancel in it, also for the      *)
(* request that it is called for.                                          *)
Told(r, u) ==
  /\ u = None \/ u \in Range(Lookup(cbList, Subject))
  /\ told' = [t \in Token |-> IF t = u THEN "cancelled" ELSE IF t = Subject THEN r ELSE told[t]]

(* A regular response: the callback, then DeleteClientCB or a new TTL,     *)
(* then the ACK of a confirmable one.                                      *)
HandleRegular(keep, u) ==
  /\ Taken({"content", "refused"}) /\ Live(Subject)
  /\ Told(IF Head(recvQ).kind = "content" THEN "answer" ELSE "refusal", u)
  /\ LET list == AfterCallback(Lookup(cbList, Subject), u)
         kept == IF keep THEN list ELSE DeleteClientCB(list, Subject)
     IN  cbList' = kept /\ expired' = (expired \ {Subject}) \cap Range(kept)
  /\ net' = Emit(net, IF Head(recvQ).type = "CON"
                      THEN {Msg("clientAck", Head(recvQ).id, "ACK")} ELSE {})
  /\ UNCHANGED <<attempt, sendQ, wire, tried, unsettled, server>>

(* Only the first word to the application is waited for.                   *)
Unsettle(t) == IF Live(t) /\ told[t] = "none" THEN unsettled \cup {t} ELSE unsettled

(* The payload is not parsed, or has too many options: nobody is told, and *)
(* a confirmable response is not acknowledged.                             *)
HandleNotParsed ==
  /\ Taken({"content", "refused"}) /\ Live(Subject)
  /\ Relist(Lookup(cbList, Subject))
  /\ unsettled' = Unsettle(Subject)
  /\ UNCHANGED <<attempt, sendQ, wire, tried, told, server, net>>

(* 4.06 without a payload format: the request is sent again as plain CBOR, *)
(* under its token.                                                        *)
HandleNotAcceptable ==
  /\ Taken({"notAcceptable"}) /\ Live(Subject)
  /\ Relist(Lookup(cbList, Subject))
  /\ attempt' = [attempt EXCEPT ![Subject] = @ + 1]
  /\ sendQ' = Append(sendQ, <<Subject, attempt[Subject] + 1>>)
  /\ UNCHANGED <<wire, tried, told, unsettled, server, net>>

AfterTimeoutKept(list, t) == list                                     \* mutant
AfterTimeout(list, t) == DeleteClientCB(list, t)

HandleTimeout(u) ==
  /\ Taken({"timeout"}) /\ Live(Subject)
  /\ Told("timeout", u)
  /\ Relist(AfterTimeout(AfterCallback(Lookup(cbList, Subject), u), Subject))
  /\ UNCHANGED <<attempt, sendQ, wire, tried, unsettled, server, net>>

HandleCAErrorResponse(keep, u) ==
  /\ Taken({"error"}) /\ Live(Subject)
  /\ Told("error", u)
  /\ LET list == AfterCallback(Lookup(cbList, Subject), u)
     IN  Relist(IF keep THEN list ELSE DeleteClientCB(list, Subject))
  /\ UNCHANGED <<attempt, sendQ, wire, tried, unsettled, server, net>>

(* An ACK without an answer: a slow resource.                              *)
HandleEmpty ==
  /\ Taken({"empty"})
  /\ Relist(Lookup(cbList, Subject))
  /\ unsettled' = Unsettle(Subject)
  /\ UNCHANGED <<attempt, sendQ, wire, tried, told, server, net>>

(* No callback: whatever is not empty and no local error is answered with  *)
(* a RESET, the timeout included.                                          *)
HandleUnknown ==
  /\ Taken({"content", "refused", "notAcceptable", "timeout", "error"}) /\ ~Live(Subject)
  /\ Relist(Lookup(cbList, Subject))
  /\ net' = Emit(net, IF Head(recvQ).kind = "error" THEN {}
                      ELSE {Msg("clientRst", Head(recvQ).id, "ACK")})
  /\ UNCHANGED <<attempt, sendQ, wire, tried, told, unsettled, server>>

OCProcess == \/ \E u \in Token \cup {None} :
                  \/ \E keep \in BOOLEAN : HandleRegular(keep, u) \/ HandleCAErrorResponse(keep, u)
                  \/ HandleTimeout(u)
             \/ HandleNotParsed \/ HandleNotAcceptable \/ HandleEmpty \/ HandleUnknown

-----------------------------------------------------------------------------
(* The server.  A retransmitted request is handled again: the duplicate    *)
(* filter is asked for NON requests only.  A request whose token is in the *)
(* tree is processed as the entry that is there.                           *)
Entry(m) == IF request[TokenOf(m)] # None THEN request[TokenOf(m)]
            ELSE [id |-> m, slow |-> FALSE]

(* The response of HandleSingleResponse to an entry: piggybacked on the    *)
(* ACK, or confirmable if the request was slow, and under the request's    *)
(* own message id in either case.  A server that knows only plain CBOR     *)
(* accepts the first attempt only if the response has no payload.          *)
Answers(e) ==
  {Msg(kind, e.id, IF ~IsCon(e.id) THEN "NON" ELSE IF e.slow THEN "CON" ELSE "ACK") :
     kind \in {"content"} \cup (IF TokenOf(e.id) \in Legacy /\ e.id[2] = 0 THEN {"notAcceptable"} ELSE {})}

(* A second record under the same message id is refused.                   *)
RecordCon(a) == IF a.type = "CON" /\ \A b \in conOut : b.id # a.id
                THEN conOut \cup {a} ELSE conOut

(* A request comes in and out goes back.                                   *)
Handled(m, out) ==
  Receive(RequestMsg(m), out) /\ UNCHANGED client

(* The entity handler calls OCDoResponse before it returns.                *)
ExecuteAtOnce(m) ==
  \E a \in Answers(Entry(m)) :
    /\ Handled(m, {a})
    /\ request' = [request EXCEPT ![TokenOf(m)] = None]
    /\ conOut' = RecordCon(a)
    /\ executed' = executed \cup {TokenOf(m)}
    /\ UNCHANGED owed

(* HandleSingleResponse returns early (location path too long, payload not *)
(* converted): no response, and the entry stays in the tree.               *)
ExecuteWithoutAnswer(m) ==
  /\ Handled(m, {})
  /\ request' = [request EXCEPT ![TokenOf(m)] = Entry(m)]
  /\ executed' = executed \cup {TokenOf(m)}
  /\ UNCHANGED <<owed, conOut>>

(* OC_EH_SLOW: an empty ACK now, the response later, by the handle.        *)
ExecuteSlow(m) ==
  LET e == Entry(m) IN
    /\ TokenOf(m) \in Slow /\ owed[e.id] < MaxOwed
    /\ Handled(m, IF IsCon(m) THEN {Msg("empty", m, "ACK")} ELSE {})
    /\ request' = [request EXCEPT ![TokenOf(m)] = [e EXCEPT !.slow = TRUE]]
    /\ owed' = [owed EXCEPT ![e.id] = @ + 1]
    /\ executed' = executed \cup {TokenOf(m)}
    /\ UNCHANGED conOut

(* An error: OCHandleRequests answers with SendDirectStackResponse.  Only  *)
(* OC_EH_ERROR takes the entry out of the tree.                            *)
Refuse(m) ==
  /\ Handled(m, {Direct("refused", m)})
  /\ \E e \in {None, Entry(m)} : request' = [request EXCEPT ![TokenOf(m)] = e]
  /\ UNCHANGED <<owed, conOut, executed>>

Valid(m) == request[TokenOf(m)] # None /\ request[TokenOf(m)].id = m

(* OCDoResponse for a slow request: the response is sent and the entry     *)
(* freed, or HandleSingleResponse returns early.                           *)
OCDoResponse(m) ==
  /\ owed[m] > 0 /\ Valid(m)
  /\ owed' = [owed EXCEPT ![m] = @ - 1]
  /\ \/ \E a \in Answers(request[TokenOf(m)]) :
          /\ net' = Emit(net, {a})
          /\ conOut' = RecordCon(a)
          /\ request' = [request EXCEPT ![TokenOf(m)] = None]
     \/ UNCHANGED <<net, conOut, request>>
  /\ UNCHANGED <<client, executed>>

(* The handle's entry has been freed.  What the code reads there is        *)
(* undefined: the old entry, which is answered again, or nothing useful.   *)
OCDoResponseFreed(m) ==
  /\ owed[m] > 0 /\ ~Valid(m)
  /\ owed' = [owed EXCEPT ![m] = @ - 1]
  /\ \/ \E a \in Answers([id |-> m, slow |-> TRUE]) :
          net' = Emit(net, {a}) /\ conOut' = RecordCon(a)
     \/ UNCHANGED <<net, conOut>>
  /\ UNCHANGED <<client, request, executed>>

(* Retransmission on the server's side, and its end.                       *)
ServerRetransmit(a) == /\ a \in conOut
                       /\ net' = Emit(net, {a})
                       /\ UNCHANGED <<client, server>>

ServerTimeout(a) == /\ a \in conOut
                    /\ conOut' = conOut \ {a}
                    /\ UNCHANGED <<client, request, owed, executed, net>>

ServerSettled(r) ==
  /\ r.kind \in {"clientAck", "clientRst"}
  /\ Receive(r, {})
  /\ conOut' = {a \in conOut : a.id # r.id}
  /\ UNCHANGED <<client, request, owed, executed>>

-----------------------------------------------------------------------------
ClientNext ==
  \/ \E t \in Token : OCDoRequest(t) \/ OCCancel(t) \/ Expire(t)
  \/ SendUnicastData \/ SendFails \/ SentData
  \/ \E m \in Id : SendtoFails(m) \/ Retransmit(m)
  \/ \E r \in net : ReceiveResponse(r)
  \/ OCProcess

ServerNext ==
  \/ \E m \in Id :
       \/ ExecuteAtOnce(m) \/ ExecuteWithoutAnswer(m) \/ ExecuteSlow(m)
       \/ Refuse(m) \/ OCDoResponse(m) \/ OCDoResponseFreed(m)
  \/ \E a \in conOut : ServerRetransmit(a) \/ ServerTimeout(a)
  \/ \E r \in net : ServerSettled(r)

Next == ClientNext \/ ServerNext \/ \E r \in net : Lose(r)

(* The client's threads run: the send thread, the retransmission thread    *)
(* (CARetransmission's property Decided) and OCProcess.  Nothing is asked  *)
(* of the network, the server or the application.                          *)
Fairness == /\ WF_vars(SendUnicastData \/ SendFails) /\ WF_vars(SentData)
            /\ \A m \in Id : WF_vars(Retransmit(m))
            /\ WF_vars(OCProcess)

Spec == Init /\ [][Next]_vars /\ Fairness

-----------------------------------------------------------------------------
TypeOK ==
  /\ cbList \in Seq(Token) /\ IsInjective(cbList) /\ expired \subseteq Range(cbList)
  /\ attempt \in [Token -> -1 .. MaxAttempt]
  /\ sendQ \in Seq(Id) /\ wire \in Id \cup {None}
  /\ tried \in [Id -> 0 .. TryingCount - 1 \cup {None}]
  /\ recvQ \in Seq(Item)
  /\ request \in [Token -> [id : Id, slow : BOOLEAN] \cup {None}]
  /\ owed \in [Id -> 0 .. MaxOwed]
  /\ conOut \subseteq Message
  /\ told \in [Token -> {"none", "answer", "refusal", "timeout", "error", "cancelled"}]
  /\ executed \subseteq Token /\ unsettled \subseteq Token
  /\ net \subseteq Message /\ Cardinality(net) <= MaxInFlight

(* The exchange keeps the contract of OCDoRequest, whatever the network    *)
(* does to the messages and whenever OCCancel is called, also inside a     *)
(* callback: each request ends once, for a reason the application knows or *)
(* because its TTL passed, is told nothing afterwards, and is told an      *)
(* answer only if an entity handler ran for it.                            *)
Contract == INSTANCE RequestContract WITH
  phase <- [t \in Token |-> IF attempt[t] = -1 THEN "idle" ELSE IF Live(t) THEN "open" ELSE "closed"]
KeepsContract == Contract!Spec

(* OCHandleResponse brings every confirmable request to a word to the      *)
(* application, unless that cancels it first, its TTL passes, or one of    *)
(* the code's two gaps opens: the request is acknowledged by a slow server *)
(* whose response never comes, or the response cannot be parsed.           *)
EveryRequestSettled ==
  \A t \in Con : attempt[t] # -1 ~> told[t] # "none" \/ ~Live(t) \/ t \in unsettled
=============================================================================
