------------------------------ MODULE OCObserve ------------------------------
(***************************************************************************)
(* Observation of one resource: a server (ocobserve.c, ocstack.c,          *)
(* ocresource.c, oocf_server.c), its clients (oocf_client.c, occlientcb.c, *)
(* OCCancel of ocstack.c) and a network between them that loses, delays,   *)
(* reorders and duplicates.                                                *)
(*                                                                         *)
(* An observation o is one OCDoRequest(OC_REST_OBSERVE) and stands for its *)
(* token, which every message about it carries.  The network is a set from *)
(* which messages are received in any order or lost; at most MaxDups       *)
(* receptions leave their message in place to be received again.           *)
(* Retransmission is seen from above, through what CARetransmission        *)
(* guarantees: a confirmable message stays outstanding until its           *)
(* acknowledgement or reset comes in or it is reported as timed out.       *)
(* The resource is observable, its entity handler answers at once, and     *)
(* responses to confirmable requests are piggybacked on the ACK.           *)
(***************************************************************************)
EXTENDS Integers, Sequences, FiniteSets, Functions

CONSTANTS Obs,                       \* observations (tokens)
          RequestCon,                \* confirmability of observe requests
          MAX_SEQUENCE_NUMBER,       \* largest sequence number, 2^24 - 1
          MAX_OBSERVER_FAILED_COMM,  \* failures forgiven in a row
          MAX_OBSERVER_NON_COUNT,    \* NON notifications in a row
          MaxDups,                   \* bound: receptions that duplicate
          MaxInFlight,               \* bound: nothing new is sent beyond it
          NotifyBound                \* bound: notify only up to this number

ASSUME BoundAssumption ==
  /\ RequestCon \subseteq BOOLEAN
  /\ MAX_SEQUENCE_NUMBER \in Nat /\ MAX_SEQUENCE_NUMBER >= 3
  /\ MAX_OBSERVER_FAILED_COMM \in Nat /\ MAX_OBSERVER_NON_COUNT \in Nat
  /\ MaxDups \in Nat /\ MaxInFlight \in Nat /\ NotifyBound \in Nat

VARIABLES
  cb,         \* client: the callback (ClientCB) of each observation
  pendReq,    \* client: confirmable requests without an answer yet
  observers,  \* server: resource->observersHead, a list of tokens
  node,       \* server: the ResourceObserver of each token in the list
  leaked,     \* server: deregistrations still in the server request list
  seqNum,     \* server: resource->sequenceNum
  conOut,     \* server: outstanding confirmable notifications
  nonRun,     \* history: NON notifications sent since the last CON one,
              \* counted up to one more than MAX_OBSERVER_NON_COUNT
  net, dups   \* the messages under way; duplications so far

vars == <<cb, pendReq, observers, node, leaked, seqNum, conOut, nonRun, net, dups>>
serverVars == <<observers, node, leaked, seqNum, conOut, nonRun>>
clientVars == <<cb, pendReq>>

OC_OBSERVE_REGISTER == 0       \* value of the observe option in requests
OC_OBSERVE_DEREGISTER == 1
OC_OFFSET_SEQUENCE_NUMBER == 0
NoOption == MAX_SEQUENCE_NUMBER + 1   \* what a missing observe option reads as

QoS == {"OC_LOW_QOS", "OC_HIGH_QOS", "OC_NA_QOS"}
SeqNo == 0 .. MAX_SEQUENCE_NUMBER + 1

(* "content" answers a deregistration: 2.05 without an observe option.     *)
RequestKind == {"register", "deregister"}
ResponseKind == {"registered", "regError", "deregError", "notify"}
Message == [kind : RequestKind \cup ResponseKind \cup {"content", "ack", "rst"},
            o : Obs, seq : SeqNo, con : BOOLEAN]

Msg(kind, o, seq, con) == [kind |-> kind, o |-> o, seq |-> seq, con |-> con]

NewNode(con) == [qos |-> IF con THEN "OC_HIGH_QOS" ELSE "OC_LOW_QOS",
                 failedCommCount |-> 0, lowQosCount |-> 0, forceHighQos |-> FALSE]

Init == /\ cb = [o \in Obs |-> [st |-> "idle", seq |-> 0, ttl |-> FALSE]]
        /\ pendReq = {}
        /\ observers = << >>
        /\ node = [o \in Obs |-> NewNode(FALSE)]
        /\ leaked = {}
        /\ seqNum = OC_OFFSET_SEQUENCE_NUMBER
        /\ conOut = {}
        /\ nonRun = [o \in Obs |-> 0]
        /\ net = {} /\ dups = 0

-----------------------------------------------------------------------------
(* The network takes in the messages of out and hands over m, which a      *)
(* duplication leaves in place.                                            *)
Receive(m, out) ==
  /\ m \in net
  /\ \/ net' = (net \ {m}) \cup out /\ UNCHANGED dups
     \/ dups < MaxDups /\ net' = net \cup out /\ dups' = dups + 1

Transmit(out) == /\ Cardinality(net \cup out) <= MaxInFlight
                 /\ net' = net \cup out
                 /\ UNCHANGED dups

Lose(m) == m \in net /\ net' = net \ {m} /\ UNCHANGED <<dups, clientVars, serverVars>>

(* The callback is in g_cbList, and DeleteClientCB.                        *)
Live(o) == cb[o].st \in {"on", "cancelling"}
DeleteClientCB(o) == [cb EXCEPT ![o] = [st |-> "gone", seq |-> 0, ttl |-> FALSE]]

-----------------------------------------------------------------------------
(* Client.  OCDoRequest adds the callback, with TTL 0, and then sends.     *)
Observe(o, con) ==
  /\ cb[o].st = "idle"
  /\ cb' = [cb EXCEPT ![o] = [st |-> "on", seq |-> 0, ttl |-> FALSE]]
  /\ pendReq' = IF con THEN pendReq \cup {<<"register", o>>} ELSE pendReq
  /\ Transmit({Msg("register", o, OC_OBSERVE_REGISTER, con)})
  /\ UNCHANGED serverVars

(* OCCancel with a QoS below OC_HIGH_QOS over IP forgets the callback.     *)
CancelLow(o) ==
  /\ Live(o)
  /\ cb' = DeleteClientCB(o)
  /\ UNCHANGED <<pendReq, net, dups, serverVars>>

(* OCCancel with OC_HIGH_QOS sends a deregistration under the same token   *)
(* and keeps the callback for the answer; one call per observation.        *)
CancelHigh(o) ==
  /\ cb[o].st = "on"
  /\ cb' = [cb EXCEPT ![o].st = "cancelling"]
  /\ pendReq' = pendReq \cup {<<"deregister", o>>}
  /\ Transmit({Msg("deregister", o, OC_OBSERVE_DEREGISTER, TRUE)})
  /\ UNCHANGED serverVars

(* A callback the application kept has a TTL of two hours; the next lookup *)
(* in g_cbList that walks past it afterwards deletes it without a word.    *)
CheckAndDeleteTimedOutCB(o) ==
  /\ Live(o) /\ cb[o].ttl
  /\ cb' = DeleteClientCB(o)
  /\ UNCHANGED <<pendReq, net, dups, serverVars>>

(* CA_RETRANSMIT_TIMEOUT for a request: the callback is called and deleted.*)
RequestTimeout(kind, o) ==
  /\ <<kind, o>> \in pendReq
  /\ pendReq' = pendReq \ {<<kind, o>>}
  /\ cb' = IF Live(o) THEN DeleteClientCB(o) ELSE cb
  /\ UNCHANGED <<net, dups, serverVars>>

(* HandleCAErrorResponse at the client: the request could not be sent; the *)
(* application is told, and the callback goes unless it keeps it.          *)
RequestSendError(m, keep) ==
  /\ m.kind \in RequestKind
  /\ cb' = IF Live(m.o) /\ ~keep THEN DeleteClientCB(m.o) ELSE cb
  /\ pendReq' = pendReq \ {<<m.kind, m.o>>}
  /\ m \in net /\ net' = net \ {m}
  /\ UNCHANGED <<dups, serverVars>>

(* The requests a response acknowledges; a notification answers none.      *)
AnswerTo == [register |-> {"registered", "regError"},
             deregister |-> {"content", "deregError"}]
Answered(m) == {<<r, m.o>> : r \in {k \in RequestKind : m.kind \in AnswerTo[k]}}

Acked(m) == IF m.con THEN {Msg("ack", m.o, m.seq, TRUE)} ELSE {}

(* Fault: a last response without an observe option is not let through.    *)
IsStaleNoOption(m, c) == m.seq > OC_OFFSET_SEQUENCE_NUMBER /\ m.seq <= c.seq

(* The client's test for a notification that is not newer than the last    *)
(* one it handed to the application.                                       *)
IsStale(m, c) == /\ m.seq > OC_OFFSET_SEQUENCE_NUMBER
                 /\ c.seq <= MAX_SEQUENCE_NUMBER
                 /\ m.seq <= c.seq

(* OCHandleResponse, regular response: the application is called; it keeps *)
(* the transaction, which sets the TTL, or ends it.  A confirmable         *)
(* notification is acknowledged.                                           *)
HandleRegular(m, keep) ==
  /\ m.kind \in ResponseKind
  /\ Live(m.o) /\ ~IsStale(m, cb[m.o])
  /\ cb' = IF keep THEN [cb EXCEPT ![m.o].seq = m.seq, ![m.o].ttl = TRUE]
                   ELSE DeleteClientCB(m.o)
  /\ pendReq' = pendReq \ Answered(m)
  /\ Receive(m, Acked(m))
  /\ UNCHANGED serverVars

(* Fault: a stale notification is answered with a RESET.                   *)
HandleStaleResets(m) ==
  /\ m.kind \in ResponseKind
  /\ Live(m.o) /\ IsStale(m, cb[m.o])
  /\ pendReq' = pendReq \ Answered(m)
  /\ Receive(m, {Msg("rst", m.o, m.seq, m.con)})
  /\ UNCHANGED <<cb, serverVars>>

(* The same for a stale notification: acknowledged, not handed on.         *)
HandleStale(m) ==
  /\ m.kind \in ResponseKind
  /\ Live(m.o) /\ IsStale(m, cb[m.o])
  /\ pendReq' = pendReq \ Answered(m)
  /\ Receive(m, Acked(m))
  /\ UNCHANGED <<cb, serverVars>>

(* 2.05 without an observe option ends the observation.                    *)
HandleCancelled(m) ==
  /\ m.kind = "content"
  /\ Live(m.o)
  /\ cb' = DeleteClientCB(m.o)
  /\ pendReq' = pendReq \ Answered(m)
  /\ Receive(m, {})
  /\ UNCHANGED serverVars

(* No callback for the token: RESET.  The reset of anything other than a   *)
(* notification finds no outstanding message at the server and is left out.*)
HandleUnknown(m) ==
  /\ m.kind \in ResponseKind \cup {"content"}
  /\ ~Live(m.o)
  /\ pendReq' = pendReq \ Answered(m)
  /\ Receive(m, IF m.kind = "notify" THEN {Msg("rst", m.o, m.seq, m.con)} ELSE {})
  /\ UNCHANGED <<cb, serverVars>>

-----------------------------------------------------------------------------
(* Server.  A registration (HandleResourceWithEntityHandler) whose token   *)
(* is in the list gets no answer at all.                                   *)
RegisterDuplicate(m) ==
  /\ m.kind = "register"
  /\ m.o \in Range(observers)
  /\ Receive(m, {})
  /\ UNCHANGED <<clientVars, serverVars>>

(* Fault: the registration does not look for its token in the list.        *)
RegisterAgain(m) ==
  /\ m.kind = "register"
  /\ m.o \notin leaked
  /\ observers' = Append(observers, m.o)
  /\ node' = [node EXCEPT ![m.o] = NewNode(m.con)]
  /\ nonRun' = [nonRun EXCEPT ![m.o] = 0]
  /\ Receive(m, {Msg("registered", m.o, m.seq, FALSE)})
  /\ UNCHANGED <<clientVars, leaked, seqNum, conOut>>

(* A new one is appended; the answer's observe option is the request's.    *)
Register(m) ==
  /\ m.kind = "register"
  /\ m.o \notin Range(observers) \cup leaked
  /\ observers' = Append(observers, m.o)
  /\ node' = [node EXCEPT ![m.o] = NewNode(m.con)]
  /\ nonRun' = [nonRun EXCEPT ![m.o] = 0]
  /\ Receive(m, {Msg("registered", m.o, m.seq, FALSE)})
  /\ UNCHANGED <<clientVars, leaked, seqNum, conOut>>

(* The first node with the token is taken out of the list; it is no error  *)
(* if there is none.                                                       *)
FirstAt(list, o) == CHOOSE i \in DOMAIN list :
                      list[i] = o /\ \A j \in 1 .. i - 1 : list[j] # o

Unlisted(list, o) ==
  IF o \in Range(list)
  THEN SubSeq(list, 1, FirstAt(list, o) - 1) \o SubSeq(list, FirstAt(list, o) + 1, Len(list))
  ELSE list

DeleteObserverUsingToken(o) ==
  /\ observers' = Unlisted(observers, o)
  /\ node' = [node EXCEPT ![o] = NewNode(FALSE)]
  /\ nonRun' = [nonRun EXCEPT ![o] = 0]

Deregister(m) ==
  /\ m.kind = "deregister"
  /\ m.o \in Range(observers)
  /\ DeleteObserverUsingToken(m.o)
  /\ Receive(m, {Msg("content", m.o, NoOption, FALSE)})
  /\ UNCHANGED <<clientVars, leaked, seqNum, conOut>>

(* A deregistration for an unknown token fails, and its server request     *)
(* stays in the list: a later request with the token finds it there and is *)
(* processed as that deregistration.  The error response repeats the       *)
(* request's options; the observe option survives if it is the only one.   *)
RequestFails(m) ==
  /\ \/ m.kind = "deregister"
     \/ m.kind = "register" /\ m.o \in leaked
  /\ m.o \notin Range(observers)
  /\ leaked' = leaked \cup {m.o}
  /\ \E option \in {m.seq, NoOption} :
        Receive(m, {Msg(IF m.kind = "register" THEN "regError" ELSE "deregError",
                        m.o, option, FALSE)})
  /\ UNCHANGED <<clientVars, observers, node, seqNum, conOut, nonRun>>

(* DetermineObserverQoS: the QoS to use for a node when the caller asks    *)
(* for app, and the node's NON count afterwards.                           *)
ForceCon(n) == n.forceHighQos \/ n.lowQosCount >= MAX_OBSERVER_NON_COUNT

(* Fault: the count of NON notifications has no consequence.               *)
DecidedQoSUnforced(n, app) == IF app = "OC_NA_QOS" THEN n.qos ELSE app

DecidedQoS(n, app) == IF app # "OC_HIGH_QOS" /\ ForceCon(n) THEN "OC_HIGH_QOS"
                      ELSE IF app = "OC_NA_QOS" THEN n.qos ELSE app

LowCount(n, app) == IF app = "OC_HIGH_QOS" THEN n.lowQosCount
                    ELSE IF ForceCon(n) THEN 0 ELSE n.lowQosCount + 1

(* incrementSequenceNumber.                                                *)
NextSeq == IF seqNum + 1 = MAX_SEQUENCE_NUMBER THEN OC_OFFSET_SEQUENCE_NUMBER + 1
                                               ELSE seqNum + 1

(* OCNotifyAllObservers and SendAllObserverNotification.  The loop assigns *)
(* each observer's QoS to the variable that is the next one's request.     *)
(* No number comes round again while a notification of it is outstanding.  *)
OCNotifyAllObservers(qos) ==
  \E asked \in [0 .. Len(observers) -> QoS] :     \* qos after i observers
    LET listed == Range(observers)
        con == {o \in listed : asked[FirstAt(observers, o)] = "OC_HIGH_QOS"}
    IN /\ asked[0] = qos
       /\ \A i \in DOMAIN observers : asked[i] = DecidedQoS(node[observers[i]], asked[i - 1])
       /\ seqNum <= NotifyBound
       /\ \A c \in conOut : c[2] # NextSeq
       /\ seqNum' = NextSeq
       /\ node' = [o \in Obs |-> IF o \in listed
            THEN [node[o] EXCEPT !.lowQosCount =
                    LowCount(node[o], asked[FirstAt(observers, o) - 1])]
            ELSE node[o]]
       /\ nonRun' = [o \in Obs |-> IF o \in con THEN 0
                                   ELSE IF o \in listed /\ nonRun[o] <= MAX_OBSERVER_NON_COUNT
                                        THEN nonRun[o] + 1 ELSE nonRun[o]]
       /\ conOut' = conOut \cup {<<o, NextSeq>> : o \in con}
       /\ Transmit({Msg("notify", o, NextSeq, o \in con) : o \in listed})
       /\ UNCHANGED <<clientVars, observers, leaked>>

(* CheckTimedOutObserver: an observer whose TTL of a day has passed gets a *)
(* confirmable notification with the current number.  Every notification   *)
(* renews the TTL, so none has been outstanding for a long time.           *)
CheckTimedOutObserver(o) ==
  /\ o \in Range(observers)
  /\ \A c \in conOut : c[1] # o
  /\ conOut' = conOut \cup {<<o, seqNum>>}
  /\ nonRun' = [nonRun EXCEPT ![o] = 0]
  /\ Transmit({Msg("notify", o, seqNum, TRUE)})
  /\ UNCHANGED <<clientVars, observers, node, leaked, seqNum>>

(* OCStackFeedBack(OC_OBSERVER_STILL_INTERESTED): the ACK of an            *)
(* outstanding notification.                                               *)
StillInterested(m) ==
  /\ m.kind = "ack"
  /\ <<m.o, m.seq>> \in conOut
  /\ conOut' = conOut \ {<<m.o, m.seq>>}
  /\ node' = IF m.o \in Range(observers)
             THEN [node EXCEPT ![m.o].failedCommCount = 0, ![m.o].forceHighQos = FALSE]
             ELSE node
  /\ Receive(m, {})
  /\ UNCHANGED <<clientVars, observers, leaked, seqNum, nonRun>>

(* OCStackFeedBack(OC_OBSERVER_NOT_INTERESTED): the RESET of one.          *)
NotInterested(m) ==
  /\ m.kind = "rst" /\ m.con
  /\ <<m.o, m.seq>> \in conOut
  /\ conOut' = conOut \ {<<m.o, m.seq>>}
  /\ DeleteObserverUsingToken(m.o)
  /\ Receive(m, {})
  /\ UNCHANGED <<clientVars, leaked, seqNum>>

(* An empty message that answers nothing outstanding has no token.         *)
EmptyIgnored(m) ==
  /\ m.kind \in {"ack", "rst"}
  /\ ~(m.con /\ <<m.o, m.seq>> \in conOut)
  /\ Receive(m, {})
  /\ UNCHANGED <<clientVars, serverVars>>

(* Fault: one failure more is forgiven than there are.                     *)
FailedCommLate(o) ==
  IF o \notin Range(observers) THEN UNCHANGED <<observers, node, nonRun>>
  ELSE \/ /\ node[o].failedCommCount > MAX_OBSERVER_FAILED_COMM
          /\ DeleteObserverUsingToken(o)
       \/ /\ node[o].failedCommCount <= MAX_OBSERVER_FAILED_COMM
          /\ node' = [node EXCEPT ![o].failedCommCount = @ + 1, ![o].forceHighQos = TRUE]
          /\ UNCHANGED <<observers, nonRun>>

(* OCStackFeedBack(OC_OBSERVER_FAILED_COMM).                               *)
FailedComm(o) ==
  IF o \notin Range(observers) THEN UNCHANGED <<observers, node, nonRun>>
  ELSE \/ /\ node[o].failedCommCount >= MAX_OBSERVER_FAILED_COMM
          /\ DeleteObserverUsingToken(o)
       \/ /\ node[o].failedCommCount < MAX_OBSERVER_FAILED_COMM
          /\ node' = [node EXCEPT ![o].failedCommCount = @ + 1, ![o].forceHighQos = TRUE]
          /\ UNCHANGED <<observers, nonRun>>

(* The retransmission of a notification gives up.                          *)
NotifyTimeout(o, seq) ==
  /\ <<o, seq>> \in conOut
  /\ conOut' = conOut \ {<<o, seq>>}
  /\ FailedComm(o)
  /\ UNCHANGED <<clientVars, leaked, seqNum, net, dups>>

(* HandleCAErrorResponse at the server.  CAErrorHandler has removed the    *)
(* notification's retransmission record; only a communication error counts *)
(* as a failure (CA_SEND_FAILED: no PDU, or TCP), and the UDP sender       *)
(* reports a failing sendto as CA_STATUS_INVALID_PARAM, which is none.     *)
SendError(m) ==
  /\ m.kind = "notify"
  /\ conOut' = conOut \ {<<m.o, m.seq>>}
  /\ FailedComm(m.o) \/ UNCHANGED <<observers, node, nonRun>>
  /\ m \in net /\ net' = net \ {m}
  /\ UNCHANGED <<clientVars, leaked, seqNum, dups>>

-----------------------------------------------------------------------------
Client == \E o \in Obs : \/ \E con \in RequestCon : Observe(o, con)
                         \/ CancelLow(o)
                         \/ CancelHigh(o)
                         \/ CheckAndDeleteTimedOutCB(o)
                         \/ \E kind \in RequestKind : RequestTimeout(kind, o)

ClientReceives == \E m \in net : \/ \E keep \in BOOLEAN : \/ HandleRegular(m, keep)
                                                       \/ RequestSendError(m, keep)
                                 \/ HandleStale(m)
                                 \/ HandleCancelled(m)
                                 \/ HandleUnknown(m)

ServerReceives == \E m \in net : \/ RegisterDuplicate(m)
                                 \/ Register(m)
                                 \/ Deregister(m)
                                 \/ RequestFails(m)
                                 \/ StillInterested(m)
                                 \/ NotInterested(m)
                                 \/ EmptyIgnored(m)
                                 \/ SendError(m)

Notify == \E qos \in QoS : OCNotifyAllObservers(qos)

Server == \/ Notify
          \/ \E o \in Obs : CheckTimedOutObserver(o)
          \/ \E c \in conOut : NotifyTimeout(c[1], c[2])

NetworkLoses == \E m \in net : Lose(m)

Next == Client \/ ClientReceives \/ ServerReceives \/ Server \/ NetworkLoses

(* The application of the server keeps notifying, and the network does not *)
(* stay full for ever.  Retransmission comes to an end (CARetransmission,  *)
(* Decided); that it does so by a timeout again and again, and not always  *)
(* by a failing sendto, is strong fairness: a sendto that fails for ever   *)
(* keeps an observer for ever.                                             *)
Fairness == /\ WF_vars(Notify)
            /\ WF_vars(NetworkLoses)
            /\ \A o \in Obs : SF_vars(\E seq \in SeqNo : NotifyTimeout(o, seq))

Spec == Init /\ [][Next]_vars /\ Fairness

-----------------------------------------------------------------------------
(* Variables have their types: the counters of a node stay within the      *)
(* limits DetermineObserverQoS and OCStackFeedBack keep.                   *)
TypeOK ==
  /\ cb \in [Obs -> [st : {"idle", "on", "cancelling", "gone"}, seq : SeqNo, ttl : BOOLEAN]]
  /\ pendReq \subseteq RequestKind \X Obs
  /\ observers \in Seq(Obs)
  /\ node \in [Obs -> [qos : QoS \ {"OC_NA_QOS"}, failedCommCount : 0 .. MAX_OBSERVER_FAILED_COMM,
                       lowQosCount : 0 .. MAX_OBSERVER_NON_COUNT, forceHighQos : BOOLEAN]]
  /\ leaked \subseteq Obs
  /\ seqNum \in 0 .. MAX_SEQUENCE_NUMBER - 1
  /\ conOut \subseteq Obs \X SeqNo
  /\ nonRun \in [Obs -> 0 .. MAX_OBSERVER_NON_COUNT + 1]
  /\ net \subseteq Message
  /\ dups \in 0 .. MaxDups

(* A retransmitted or duplicated registration never lists an observer      *)
(* twice: it would get every notification twice and survive its            *)
(* deregistration (HandleResourceWithEntityHandler's check for duplicates).*)
NoDoubleObserver ==
  \A i, j \in 1 .. Len(observers) : observers[i] = observers[j] => i = j

(* "At some point we have to send CON to check on the availability of      *)
(* observer" (DetermineObserverQoS): no observer gets more than            *)
(* MAX_OBSERVER_NON_COUNT non-confirmable notifications in a row, whatever *)
(* QoS the application asks for and whatever the observers before it in    *)
(* the list did to that QoS.                                               *)
ConWithinBound == \A o \in Range(observers) : nonRun[o] <= MAX_OBSERVER_NON_COUNT

(* The server drops an observer only for cause: its client has no callback *)
(* any more, or is cancelling, or the server could not reach it more than  *)
(* MAX_OBSERVER_FAILED_COMM times in a row.  In particular no late,        *)
(* duplicated or misdirected RESET ends a live observation.                *)
DroppedForCause ==
  [][\A o \in Range(observers) \ Range(observers') :
        \/ cb[o].st \in {"cancelling", "gone"}
        \/ node[o].failedCommCount = MAX_OBSERVER_FAILED_COMM]_vars

(* The notification with the resource's newest number is discarded as      *)
(* stale only if the client has that number already.                       *)
NewestAccepted ==
  [][\A m \in net : HandleStale(m) /\ m.kind = "notify" /\ m.seq = seqNum
                       => cb[m.o].seq = seqNum]_vars

(* The server ends up without observers that nobody listens to: an         *)
(* observation whose client callback is gone is removed from the list and  *)
(* stays out of it, even if every RESET is lost, registrations arrive late *)
(* or twice, and the application only asks for NON notifications.          *)
GhostsRemoved ==
  \A o \in Obs : <>[](cb[o].st = "gone" => o \notin Range(observers))
=============================================================================
