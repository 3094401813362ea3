--------------------------- MODULE OCObserve_proof ---------------------------
(***************************************************************************)
(* Observation, for every number of observations and every value of the    *)
(* limits of ocobserve.c.  The inductive invariant adds three facts to the *)
(* properties: the server's own count of NON notifications is never below  *)
(* the number really sent (RunCounted), what a message says about its      *)
(* client's callback stays true while the message is under way             *)
(* (NetMeant), and no observer is listed that never asked (ListMeant).     *)
(***************************************************************************)
EXTENDS OCObserve, SequenceTheorems, TLAPS

Callback == [st : {"idle", "on", "cancelling", "gone"}, seq : SeqNo, ttl : BOOLEAN]
ResourceObserver == [qos : QoS \ {"OC_NA_QOS"}, failedCommCount : 0 .. MAX_OBSERVER_FAILED_COMM,
                     lowQosCount : 0 .. MAX_OBSERVER_NON_COUNT, forceHighQos : BOOLEAN]

ClientOK == /\ cb \in [Obs -> Callback]
            /\ pendReq \subseteq RequestKind \X Obs
ListOK == /\ observers \in Seq(Obs)
          /\ node \in [Obs -> ResourceObserver]
          /\ nonRun \in [Obs -> 0 .. MAX_OBSERVER_NON_COUNT + 1]
RestOK == /\ leaked \subseteq Obs
          /\ seqNum \in 0 .. MAX_SEQUENCE_NUMBER - 1
          /\ conOut \subseteq Obs \X SeqNo
NetOK == net \subseteq Message /\ dups \in 0 .. MaxDups

LEMMA TypeParts == TypeOK <=> ClientOK /\ ListOK /\ RestOK /\ NetOK
  BY DEF TypeOK, ClientOK, ListOK, RestOK, NetOK, Callback, ResourceObserver

(* A list without a repeated token; NoDoubleObserver says it of observers. *)
Distinct(list) == \A i, j \in 1 .. Len(list) : list[i] = list[j] => i = j

(* The NON notifications an observer got in a row are counted in its node. *)
RunCounted == \A o \in Range(observers) : nonRun[o] <= node[o].lowQosCount

(* What a message tells about the callback of its observation: it existed, *)
(* a deregistration that it is being cancelled, a RESET that it is gone.   *)
Meant(m) == /\ cb[m.o].st # "idle"
            /\ m.kind = "deregister" => cb[m.o].st \in {"cancelling", "gone"}
            /\ m.kind = "rst" => cb[m.o].st = "gone"

NetMeant == \A m \in net : Meant(m)

(* Only observations that were asked for are listed.                       *)
ListMeant == \A o \in Range(observers) : cb[o].st # "idle"

IndInv == TypeOK /\ NoDoubleObserver /\ RunCounted /\ NetMeant /\ ListMeant

-----------------------------------------------------------------------------
(* The search of DeleteObserverUsingToken finds a listed token.            *)
LEMMA FirstAtFinds ==
  ASSUME NEW list \in Seq(Obs), Distinct(list), NEW i \in 1 .. Len(list)
  PROVE  FirstAt(list, list[i]) = i
<1>1. DOMAIN list = 1 .. Len(list) /\ Len(list) \in Nat
  OBVIOUS
<1>2. i \in DOMAIN list /\ \A j \in 1 .. i - 1 : list[j] # list[i]
  BY <1>1 DEF Distinct
<1>3. \A k \in DOMAIN list : list[k] = list[i] => k = i
  BY <1>1 DEF Distinct
<1> QED  BY <1>2, <1>3 DEF FirstAt

(* Taking a token out of the list leaves the others, once each.            *)
LEMMA UnlistedRemoves ==
  ASSUME NEW list \in Seq(Obs), Distinct(list), NEW o \in Obs
  PROVE  /\ Unlisted(list, o) \in Seq(Obs)
         /\ Distinct(Unlisted(list, o))
         /\ Range(Unlisted(list, o)) = Range(list) \ {o}
<1>0. DOMAIN list = 1 .. Len(list) /\ Len(list) \in Nat
  OBVIOUS
<1>1. CASE o \notin Range(list)
  BY <1>1 DEF Unlisted
<1>2. CASE o \in Range(list)
  <2>1. PICK i \in 1 .. Len(list) : list[i] = o
    BY <1>0, <1>2 DEF Range
  <2>2. FirstAt(list, o) = i
    BY <2>1, FirstAtFinds
  <2> DEFINE pre == SubSeq(list, 1, i - 1)
             post == SubSeq(list, i + 1, Len(list))
             new == pre \o post
  <2>3. Unlisted(list, o) = new
    BY <1>2, <2>2 DEF Unlisted
  <2>4. pre \in Seq(Obs) /\ Len(pre) = i - 1 /\ \A k \in 1 .. i - 1 : pre[k] = list[k]
    BY <1>0
  <2>5. post \in Seq(Obs) /\ Len(post) = Len(list) - i
        /\ \A k \in 1 .. Len(list) - i : post[k] = list[i + k]
    <3>1. \A k \in i + 1 .. Len(list) : list[k] \in Obs
      BY <1>0
    <3>2. i + 1 \in Int /\ Len(list) \in Int
      BY <1>0
    <3> QED  BY <3>1, <3>2, SubSeqProperties
  <2> HIDE DEF pre, post
  <2>6. new \in Seq(Obs) /\ Len(new) = Len(list) - 1
    <3>1. new \in Seq(Obs) /\ Len(new) = Len(pre) + Len(post)
      BY <2>4, <2>5, ConcatProperties
    <3> QED  BY <3>1, <2>4, <2>5, <1>0
  <2>7. \A k \in 1 .. Len(list) - 1 : new[k] = IF k < i THEN list[k] ELSE list[k + 1]
    <3> SUFFICES ASSUME NEW k \in 1 .. Len(list) - 1
                 PROVE  new[k] = IF k < i THEN list[k] ELSE list[k + 1]
      OBVIOUS
    <3>1. new[k] = IF k <= i - 1 THEN pre[k] ELSE post[k - (i - 1)]
      <4>1. k \in 1 .. Len(pre) + Len(post)
        BY <2>4, <2>5, <1>0
      <4>2. new[k] = IF k <= Len(pre) THEN pre[k] ELSE post[k - Len(pre)]
        BY <2>4, <2>5, <4>1, ConcatProperties
      <4> QED  BY <4>2, <2>4
    <3>2. CASE k < i
      <4>1. k <= i - 1 /\ k \in 1 .. i - 1
        BY <3>2, <1>0
      <4> QED  BY <3>1, <3>2, <4>1, <2>4
    <3>3. CASE ~(k < i)
      <4>1. ~(k <= i - 1) /\ k - (i - 1) \in 1 .. Len(list) - i /\ i + (k - (i - 1)) = k + 1
        BY <3>3, <1>0
      <4> QED  BY <3>1, <3>3, <4>1, <2>5
    <3> QED  BY <3>2, <3>3
  <2> HIDE DEF new
  <2>8. Distinct(new)
    BY <2>6, <2>7, <1>0 DEF Distinct
  <2>9. Range(new) = Range(list) \ {o}
    <3>1. DOMAIN new = 1 .. Len(list) - 1
      BY <2>6
    <3>2. ASSUME NEW k \in 1 .. Len(list) - 1 PROVE new[k] \in Range(list) \ {o}
      BY <1>0, <2>1, <2>7 DEF Range, Distinct
    <3>3. ASSUME NEW k \in 1 .. Len(list), list[k] # o PROVE list[k] \in Range(new)
      <4>1. CASE k < i
        <5>1. k \in 1 .. Len(list) - 1 /\ new[k] = list[k]
          BY <4>1, <2>7, <1>0
        <5> QED  BY <5>1, <3>1 DEF Range
      <4>2. CASE k > i
        <5>1. k - 1 \in 1 .. Len(list) - 1 /\ new[k - 1] = list[k]
          BY <4>2, <2>7, <1>0
        <5> QED  BY <5>1, <3>1 DEF Range
      <4> QED  BY <4>1, <4>2, <2>1, <3>3
    <3> QED  BY <3>1, <3>2, <3>3, <1>0 DEF Range
  <2> QED  BY <2>3, <2>6, <2>8, <2>9
<1> QED  BY <1>1, <1>2

(* A registration that found no node appends a token that is not listed.   *)
LEMMA AppendLists ==
  ASSUME NEW list \in Seq(Obs), Distinct(list), NEW o \in Obs, o \notin Range(list)
  PROVE  /\ Append(list, o) \in Seq(Obs)
         /\ Distinct(Append(list, o))
         /\ Range(Append(list, o)) = Range(list) \cup {o}
<1> DEFINE new == Append(list, o)
<1>1. /\ new \in Seq(Obs) /\ Len(new) = Len(list) + 1
      /\ \A i \in 1 .. Len(list) : new[i] = list[i]
      /\ new[Len(list) + 1] = o
  BY AppendProperties
<1>2. DOMAIN list = 1 .. Len(list) /\ Len(list) \in Nat /\ DOMAIN new = 1 .. Len(list) + 1
  BY <1>1
<1>3. \A i \in 1 .. Len(list) : list[i] # o
  BY <1>2 DEF Range
<1> HIDE DEF new
<1>4. Distinct(new)
  BY <1>1, <1>2, <1>3 DEF Distinct
<1>5. Range(new) = Range(list) \cup {o}
  BY <1>1, <1>2 DEF Range
<1> QED  BY <1>1, <1>4, <1>5 DEF new

LEMMA ListedInObs == ASSUME TypeOK PROVE Range(observers) \subseteq Obs
  BY DEF TypeOK, Range

-----------------------------------------------------------------------------
(* The network.                                                            *)
LEMMA MsgTyped ==
  ASSUME NEW k \in RequestKind \cup ResponseKind \cup {"content", "ack", "rst"},
         NEW o \in Obs, NEW s \in SeqNo, NEW c \in BOOLEAN
  PROVE  /\ Msg(k, o, s, c) \in Message
         /\ Msg(k, o, s, c).kind = k /\ Msg(k, o, s, c).o = o
  BY DEF Msg, Message

LEMMA ReceiveNet ==
  ASSUME NetOK, NEW m, NEW out \in SUBSET Message, Receive(m, out)
  PROVE  NetOK' /\ net' \subseteq net \cup out
  BY BoundAssumption DEF NetOK, Receive

LEMMA TransmitNet ==
  ASSUME NetOK, NEW out \in SUBSET Message, Transmit(out)
  PROVE  NetOK' /\ net' \subseteq net \cup out
  BY DEF NetOK, Transmit

(* The client's acknowledgement of a message.                              *)
LEMMA AckedTyped ==
  ASSUME NEW m \in Message
  PROVE  /\ Acked(m) \in SUBSET Message
         /\ \A a \in Acked(m) : a.o = m.o /\ a.kind = "ack"
<1>1. m.o \in Obs /\ m.seq \in SeqNo
  BY DEF Message
<1>2. LET a == Msg("ack", m.o, m.seq, TRUE) IN a \in Message /\ a.kind = "ack" /\ a.o = m.o
  BY <1>1, MsgTyped
<1> QED  BY <1>2 DEF Acked

(* A callback moves from idle over on and cancelling to gone, never back.  *)
Forward == \A o \in Obs :
             /\ cb[o].st # "idle" => cb'[o].st # "idle"
             /\ cb[o].st \in {"cancelling", "gone"} => cb'[o].st \in {"cancelling", "gone"}
             /\ cb[o].st = "gone" => cb'[o].st = "gone"

LEMMA StillMeant ==
  ASSUME TypeOK, NetMeant, Forward, \A m \in net' \ net : Meant(m)'
  PROVE  NetMeant'
<1>1. ASSUME NEW m \in net PROVE Meant(m)'
  <2>1. m.o \in Obs /\ Meant(m)
    BY DEF TypeOK, Message, NetMeant
  <2> QED  BY <2>1 DEF Forward, Meant
<1> QED  BY <1>1 DEF NetMeant

LEMMA StillListMeant ==
  ASSUME TypeOK, ListMeant, Forward, Range(observers') \subseteq Range(observers)
  PROVE  ListMeant'
  BY ListedInObs DEF ListMeant, Forward

LEMMA NoMove == ASSUME UNCHANGED cb PROVE Forward
  BY DEF Forward

(* DeleteClientCB of a callback that is in the list.                       *)
LEMMA DeleteClientCBMoves ==
  ASSUME ClientOK, NEW o \in Obs, cb[o].st # "idle", cb' = DeleteClientCB(o)
  PROVE  cb' \in [Obs -> Callback] /\ Forward
<1>1. 0 \in SeqNo
  BY BoundAssumption DEF SeqNo
<1>2. [st |-> "gone", seq |-> 0, ttl |-> FALSE] \in Callback
  BY <1>1 DEF Callback
<1>3. cb' \in [Obs -> Callback]
  BY <1>2 DEF ClientOK, DeleteClientCB
<1>4. \A p \in Obs : cb'[p].st = IF p = o THEN "gone" ELSE cb[p].st
  BY DEF ClientOK, DeleteClientCB
<1> QED  BY <1>3, <1>4 DEF Forward

LEMMA LiveNotIdle == \A o \in Obs : Live(o) => cb[o].st # "idle"
  BY DEF Live

-----------------------------------------------------------------------------
(* The list of observers and the nodes in it.                              *)
ListInv == ListOK /\ NoDoubleObserver /\ RunCounted

LEMMA NoDoubleDistinct == NoDoubleObserver <=> Distinct(observers)
  BY DEF NoDoubleObserver, Distinct

LEMMA NewNodeTyped == \A con \in BOOLEAN : /\ NewNode(con) \in ResourceObserver
                                           /\ NewNode(con).lowQosCount = 0
  BY BoundAssumption DEF NewNode, ResourceObserver, QoS

(* DeleteObserverUsingToken.                                               *)
LEMMA DeleteList ==
  ASSUME ListInv, NEW o \in Obs, DeleteObserverUsingToken(o)
  PROVE  ListInv' /\ Range(observers') = Range(observers) \ {o}
<1>1. observers \in Seq(Obs) /\ Distinct(observers)
  BY NoDoubleDistinct DEF ListInv, ListOK
<1>2. /\ observers' \in Seq(Obs)
      /\ Distinct(observers')
      /\ Range(observers') = Range(observers) \ {o}
  BY <1>1, UnlistedRemoves DEF DeleteObserverUsingToken
<1>3. node' \in [Obs -> ResourceObserver]
  BY NewNodeTyped DEF DeleteObserverUsingToken, ListInv, ListOK
<1>4. nonRun' \in [Obs -> 0 .. MAX_OBSERVER_NON_COUNT + 1]
  BY BoundAssumption DEF DeleteObserverUsingToken, ListInv, ListOK
<1>5. NoDoubleObserver'
  BY <1>2 DEF NoDoubleObserver, Distinct
<1>6. RunCounted'
  <2>1. Range(observers) \subseteq Obs
    BY <1>1 DEF Range
  <2>2. \A p \in Range(observers) \ {o} : node'[p] = node[p] /\ nonRun'[p] = nonRun[p]
    BY <2>1 DEF DeleteObserverUsingToken, ListInv, ListOK
  <2> QED  BY <1>2, <2>2 DEF RunCounted, ListInv
<1> QED  BY <1>2, <1>3, <1>4, <1>5, <1>6 DEF ListInv, ListOK

(* A first registration.                                                   *)
LEMMA RegisterList ==
  ASSUME ListInv, NEW m \in Message, Register(m)
  PROVE  ListInv' /\ Range(observers') = Range(observers) \cup {m.o}
<1>1. observers \in Seq(Obs) /\ Distinct(observers)
  BY NoDoubleDistinct DEF ListInv, ListOK
<1>2. m.o \in Obs /\ m.con \in BOOLEAN
  BY DEF Message
<1>3. /\ observers' \in Seq(Obs)
      /\ Distinct(observers')
      /\ Range(observers') = Range(observers) \cup {m.o}
  BY <1>1, <1>2, AppendLists DEF Register
<1>4. /\ node' \in [Obs -> ResourceObserver]
      /\ node'[m.o].lowQosCount = 0
  BY <1>2, NewNodeTyped DEF Register, ListInv, ListOK
<1>5. nonRun' \in [Obs -> 0 .. MAX_OBSERVER_NON_COUNT + 1] /\ nonRun'[m.o] = 0
  BY <1>2, BoundAssumption DEF Register, ListInv, ListOK
<1>6. NoDoubleObserver'
  BY <1>3 DEF NoDoubleObserver, Distinct
<1>7. RunCounted'
  <2>1. Range(observers) \subseteq Obs
    BY <1>1 DEF Range
  <2>2. \A p \in Range(observers) : node'[p] = node[p] /\ nonRun'[p] = nonRun[p]
    BY <2>1 DEF Register, ListInv, ListOK
  <2> QED  BY <1>3, <1>4, <1>5, <2>2 DEF RunCounted, ListInv
<1> QED  BY <1>3, <1>4, <1>5, <1>6, <1>7 DEF ListInv, ListOK

(* A step that keeps the list and every node's NON count.                  *)
LEMMA SameCounts ==
  ASSUME ListInv, UNCHANGED observers,
         node' \in [Obs -> ResourceObserver],
         \A o \in Obs : node'[o].lowQosCount = node[o].lowQosCount,
         nonRun' \in [Obs -> 0 .. MAX_OBSERVER_NON_COUNT + 1],
         \A o \in Obs : nonRun'[o] \in {0, nonRun[o]}
  PROVE  ListInv'
<1>1. Range(observers) \subseteq Obs
  BY DEF ListInv, ListOK, Range
<1>2. \A o \in Obs : node'[o].lowQosCount \in Nat
  BY BoundAssumption DEF ResourceObserver
<1>3. RunCounted'
  BY <1>1, <1>2 DEF ListInv, RunCounted
<1> QED  BY <1>3 DEF ListInv, ListOK, NoDoubleObserver

(* OC_OBSERVER_FAILED_COMM: an observer goes only at its last failure.     *)
LEMMA FailedCommList ==
  ASSUME ListInv, NEW o \in Obs, FailedComm(o)
  PROVE  /\ ListInv'
         /\ Range(observers') \subseteq Range(observers)
         /\ \A p \in Range(observers) \ Range(observers') :
               node[p].failedCommCount = MAX_OBSERVER_FAILED_COMM
<1>0. node \in [Obs -> ResourceObserver] /\ nonRun \in [Obs -> 0 .. MAX_OBSERVER_NON_COUNT + 1]
  BY DEF ListInv, ListOK
<1>1. CASE UNCHANGED <<observers, node, nonRun>>
  BY <1>1, <1>0, SameCounts
<1>2. CASE /\ node[o].failedCommCount >= MAX_OBSERVER_FAILED_COMM
           /\ DeleteObserverUsingToken(o)
  <2>1. node[o].failedCommCount = MAX_OBSERVER_FAILED_COMM
    BY <1>0, <1>2, BoundAssumption DEF ResourceObserver
  <2> QED  BY <1>2, <2>1, DeleteList
<1>3. CASE /\ node[o].failedCommCount < MAX_OBSERVER_FAILED_COMM
           /\ node' = [node EXCEPT ![o].failedCommCount = @ + 1, ![o].forceHighQos = TRUE]
           /\ UNCHANGED <<observers, nonRun>>
  <2>0. node[o] \in ResourceObserver /\ node[o].failedCommCount + 1 \in 0 .. MAX_OBSERVER_FAILED_COMM
    BY <1>0, <1>3, BoundAssumption DEF ResourceObserver
  <2>1. node' \in [Obs -> ResourceObserver]
    <3> DEFINE n == [node[o] EXCEPT !.failedCommCount = @ + 1, !.forceHighQos = TRUE]
    <3>1. n \in ResourceObserver
      BY <2>0 DEF ResourceObserver
    <3>2. node' = [node EXCEPT ![o] = n]
      BY <1>0, <1>3
    <3> HIDE DEF n
    <3> QED  BY <1>0, <3>1, <3>2
  <2>2. \A p \in Obs : node'[p].lowQosCount = node[p].lowQosCount
    BY <1>0, <1>3 DEF ResourceObserver
  <2> QED  BY <1>0, <1>3, <2>1, <2>2, SameCounts
<1> QED  BY <1>1, <1>2, <1>3 DEF FailedComm

(* incrementSequenceNumber stays below the largest number.                 *)
LEMMA NextSeqTyped == ASSUME RestOK
                      PROVE  NextSeq \in 0 .. MAX_SEQUENCE_NUMBER - 1 /\ NextSeq \in SeqNo
  BY BoundAssumption DEF RestOK, NextSeq, SeqNo, OC_OFFSET_SEQUENCE_NUMBER

(* DetermineObserverQoS: the count stays in its range, and it grows unless *)
(* the notification is confirmable.                                        *)
LEMMA DecidedCounts ==
  ASSUME NEW n \in ResourceObserver, NEW app \in QoS
  PROVE  /\ LowCount(n, app) \in 0 .. MAX_OBSERVER_NON_COUNT
         /\ DecidedQoS(n, app) # "OC_HIGH_QOS" => LowCount(n, app) = n.lowQosCount + 1
<1>1. n.lowQosCount \in 0 .. MAX_OBSERVER_NON_COUNT
  BY DEF ResourceObserver
<1>2. CASE app = "OC_HIGH_QOS"
  BY <1>1, <1>2 DEF LowCount, DecidedQoS
<1>3. CASE app # "OC_HIGH_QOS" /\ ForceCon(n)
  BY <1>3, BoundAssumption DEF LowCount, DecidedQoS
<1>4. CASE app # "OC_HIGH_QOS" /\ ~ForceCon(n)
  <2>1. n.lowQosCount + 1 \in 0 .. MAX_OBSERVER_NON_COUNT
    BY <1>1, <1>4, BoundAssumption DEF ForceCon
  <2>2. LowCount(n, app) = n.lowQosCount + 1
    BY <1>4 DEF LowCount
  <2> QED  BY <2>1, <2>2
<1> QED  BY <1>2, <1>3, <1>4

(* OCNotifyAllObservers, whatever QoS the observers hand on to each other. *)
LEMMA NotifyList ==
  ASSUME TypeOK, ListInv, NEW qos \in QoS, OCNotifyAllObservers(qos)
  PROVE  ListInv' /\ RestOK' /\ NetOK' /\ UNCHANGED <<observers, cb, pendReq>>
         /\ \E out \in SUBSET Message : /\ net' \subseteq net \cup out
                                        /\ \A m \in out : m.kind = "notify" /\ m.o \in Range(observers)
<1> DEFINE listed == Range(observers)
<1>0. /\ observers \in Seq(Obs) /\ Distinct(observers)
      /\ DOMAIN observers = 1 .. Len(observers) /\ Len(observers) \in Nat
      /\ node \in [Obs -> ResourceObserver]
      /\ nonRun \in [Obs -> 0 .. MAX_OBSERVER_NON_COUNT + 1]
      /\ RestOK /\ NetOK
      /\ listed \subseteq Obs
  BY NoDoubleDistinct, TypeParts, ListedInObs DEF ListInv, ListOK
<1>1. PICK asked \in [0 .. Len(observers) -> QoS] :
        LET con == {o \in listed : asked[FirstAt(observers, o)] = "OC_HIGH_QOS"}
        IN /\ \A i \in DOMAIN observers : asked[i] = DecidedQoS(node[observers[i]], asked[i - 1])
           /\ seqNum' = NextSeq
           /\ node' = [o \in Obs |-> IF o \in listed
                THEN [node[o] EXCEPT !.lowQosCount =
                        LowCount(node[o], asked[FirstAt(observers, o) - 1])]
                ELSE node[o]]
           /\ nonRun' = [o \in Obs |-> IF o \in con THEN 0
                                       ELSE IF o \in listed /\ nonRun[o] <= MAX_OBSERVER_NON_COUNT
                                            THEN nonRun[o] + 1 ELSE nonRun[o]]
           /\ conOut' = conOut \cup {<<o, NextSeq>> : o \in con}
           /\ Transmit({Msg("notify", o, NextSeq, o \in con) : o \in listed})
           /\ UNCHANGED <<clientVars, observers, leaked>>
  BY DEF OCNotifyAllObservers
<1> DEFINE con == {o \in listed : asked[FirstAt(observers, o)] = "OC_HIGH_QOS"}
           app(o) == asked[FirstAt(observers, o) - 1]
           out == {Msg("notify", o, NextSeq, o \in con) : o \in listed}
<1>2. ASSUME NEW o \in listed
      PROVE  /\ app(o) \in QoS
             /\ asked[FirstAt(observers, o)] = DecidedQoS(node[o], app(o))
  <2>1. PICK i \in 1 .. Len(observers) : observers[i] = o
    BY <1>0 DEF Range
  <2>2. FirstAt(observers, o) = i
    BY <1>0, <2>1, FirstAtFinds
  <2>3. i - 1 \in 0 .. Len(observers)
    BY <1>0
  <2> QED  BY <1>0, <1>1, <2>1, <2>2, <2>3
<1>3. ASSUME NEW o \in Obs
      PROVE  /\ node'[o] \in ResourceObserver
             /\ nonRun'[o] \in 0 .. MAX_OBSERVER_NON_COUNT + 1
             /\ o \in listed => nonRun'[o] <= node'[o].lowQosCount
  <2>1. node[o] \in ResourceObserver /\ nonRun[o] \in 0 .. MAX_OBSERVER_NON_COUNT + 1
    BY <1>0
  <2>2. CASE o \notin listed
    BY <1>1, <2>1, <2>2
  <2>3. CASE o \in listed
    <3> DEFINE low == LowCount(node[o], app(o))
    <3>1. low \in 0 .. MAX_OBSERVER_NON_COUNT
      BY <1>2, <2>1, <2>3, DecidedCounts
    <3>2. o \notin con => low = node[o].lowQosCount + 1
      BY <1>2, <2>1, <2>3, DecidedCounts
    <3>3. node'[o] = [node[o] EXCEPT !.lowQosCount = low]
      BY <1>1, <2>3
    <3>4. nonRun[o] <= node[o].lowQosCount /\ node[o].lowQosCount \in 0 .. MAX_OBSERVER_NON_COUNT
      BY <2>1, <2>3 DEF ListInv, RunCounted, ResourceObserver
    <3>5. nonRun'[o] = IF o \in con THEN 0 ELSE nonRun[o] + 1
      BY <1>1, <2>1, <2>3, <3>4, BoundAssumption
    <3> HIDE DEF low, con
    <3>6. node'[o] \in ResourceObserver /\ node'[o].lowQosCount = low
      BY <2>1, <3>1, <3>3 DEF ResourceObserver
    <3> QED  BY <2>1, <3>1, <3>2, <3>4, <3>5, <3>6, BoundAssumption
  <2> QED  BY <2>2, <2>3
<1>4. DOMAIN node' = Obs /\ DOMAIN nonRun' = Obs
  BY <1>1
<1>5. node' \in [Obs -> ResourceObserver]
  <2>1. node' = [o \in Obs |-> node'[o]]
    BY <1>1
  <2> QED  BY <1>3, <2>1
<1>6. nonRun' \in [Obs -> 0 .. MAX_OBSERVER_NON_COUNT + 1]
  <2>1. nonRun' = [o \in Obs |-> nonRun'[o]]
    BY <1>1
  <2> QED  BY <1>3, <2>1
<1>7. ListInv'
  BY <1>0, <1>1, <1>3, <1>5, <1>6 DEF ListInv, ListOK, NoDoubleObserver, RunCounted
<1>8. RestOK'
  <2>1. con \subseteq Obs
    BY <1>0
  <2> HIDE DEF con
  <2>2. {<<o, NextSeq>> : o \in con} \subseteq Obs \X SeqNo
    BY <1>0, <2>1, NextSeqTyped
  <2> QED  BY <1>0, <1>1, <2>2, NextSeqTyped DEF RestOK, con
<1>9. out \in SUBSET Message /\ \A m \in out : m.kind = "notify" /\ m.o \in listed
  <2>1. "notify" \in ResponseKind
    BY DEF ResponseKind
  <2>2. ASSUME NEW o \in listed
        PROVE  LET m == Msg("notify", o, NextSeq, o \in con)
               IN m \in Message /\ m.kind = "notify" /\ m.o \in listed
    <3>1. o \in Obs /\ NextSeq \in SeqNo /\ (o \in con) \in BOOLEAN
      BY <1>0, NextSeqTyped
    <3> HIDE DEF con
    <3> QED  BY <2>1, <3>1, MsgTyped
  <2> QED  BY <2>2
<1>10. NetOK' /\ net' \subseteq net \cup out
  BY <1>0, <1>1, <1>9, TransmitNet
<1>11. UNCHANGED <<observers, cb, pendReq>>
  BY <1>1 DEF clientVars
<1> QED  BY <1>7, <1>8, <1>9, <1>10, <1>11

-----------------------------------------------------------------------------
(* What a step that drops an observer needs as its cause.                  *)
ForCause == \A o \in Range(observers) \ Range(observers') :
               \/ cb[o].st \in {"cancelling", "gone"}
               \/ node[o].failedCommCount = MAX_OBSERVER_FAILED_COMM

LEMMA IndParts == IndInv <=> ClientOK /\ ListInv /\ RestOK /\ NetOK /\ NetMeant /\ ListMeant
  BY TypeParts DEF IndInv, ListInv

(* A step of the client leaves the server alone.                           *)
LEMMA ClientStep ==
  ASSUME IndInv, UNCHANGED serverVars, ClientOK', NetOK', Forward,
         \A m \in net' \ net : Meant(m)'
  PROVE  IndInv' /\ ForCause
<1>1. UNCHANGED <<observers, node, nonRun>> /\ RestOK'
  BY IndParts DEF serverVars, RestOK
<1>2. ListInv' /\ ForCause
  BY <1>1, IndParts DEF ListInv, ListOK, NoDoubleObserver, RunCounted, ForCause
<1>3. NetMeant'
  BY StillMeant DEF IndInv
<1>4. ListMeant'
  BY <1>1, StillListMeant DEF IndInv
<1>5. IndInv'
  BY <1>1, <1>2, <1>3, <1>4, TypeParts DEF IndInv, ListInv, TypeOK, ClientOK, ListOK,
     RestOK, NetOK, Callback, ResourceObserver
<1> QED  BY <1>2, <1>5

(* A step of the server leaves the clients alone; it sends notifications   *)
(* and answers, and lists only those who asked.                            *)
LEMMA ServerStep ==
  ASSUME IndInv, UNCHANGED clientVars, ListInv', RestOK', NetOK',
         \A m \in net' \ net : m.kind \notin {"deregister", "rst"} /\ cb[m.o].st # "idle",
         \A o \in Range(observers') : cb[o].st # "idle"
  PROVE  IndInv'
<1>1. UNCHANGED cb /\ ClientOK'
  BY IndParts DEF clientVars, ClientOK
<1>2. \A m \in net' \ net : Meant(m)'
  BY <1>1 DEF Meant
<1>3. NetMeant'
  BY <1>1, <1>2, StillMeant, NoMove DEF IndInv
<1>4. ListMeant'
  BY <1>1 DEF ListMeant
<1> QED  BY <1>1, <1>3, <1>4 DEF IndInv, ListInv, TypeOK, ClientOK, ListOK,
         RestOK, NetOK, Callback, ResourceObserver

(* Types of what a message in the network carries.                         *)
LEMMA NetMessage ==
  ASSUME IndInv, NEW m \in net
  PROVE  /\ m \in Message /\ m.o \in Obs /\ m.seq \in SeqNo /\ m.con \in BOOLEAN
         /\ Meant(m) /\ cb[m.o].st # "idle"
<1>1. m \in Message
  BY DEF IndInv, TypeOK
<1>2. m.o \in Obs /\ m.seq \in SeqNo /\ m.con \in BOOLEAN
  BY <1>1 DEF Message
<1> QED  BY <1>1, <1>2 DEF IndInv, NetMeant, Meant

-----------------------------------------------------------------------------
(* The application's calls and the client's timers.                        *)
LEMMA ClientActs == ASSUME IndInv, Client PROVE IndInv' /\ ForCause
<1>0. ClientOK /\ NetOK /\ TypeOK
  BY IndParts DEF IndInv
<1>1. PICK o \in Obs : \/ \E con \in RequestCon : Observe(o, con)
                       \/ CancelLow(o)
                       \/ CancelHigh(o)
                       \/ CheckAndDeleteTimedOutCB(o)
                       \/ \E kind \in RequestKind : RequestTimeout(kind, o)
  BY DEF Client
<1>2. CASE \E con \in RequestCon : Observe(o, con)
  <2>1. PICK con \in RequestCon : Observe(o, con)
    BY <1>2
  <2>2. con \in BOOLEAN /\ 0 \in SeqNo /\ 1 \in SeqNo
    BY BoundAssumption DEF SeqNo
  <2>3. [st |-> "on", seq |-> 0, ttl |-> FALSE] \in Callback
    BY <2>2 DEF Callback
  <2>4. cb' \in [Obs -> Callback] /\ cb'[o].st = "on"
        /\ \A p \in Obs : p # o => cb'[p] = cb[p]
    BY <1>0, <2>1, <2>3 DEF Observe, ClientOK
  <2>5. Forward
    BY <2>1, <2>4 DEF Forward, Observe
  <2>6. ClientOK'
    BY <1>0, <2>1, <2>4 DEF ClientOK, Observe, RequestKind
  <2> DEFINE m == Msg("register", o, OC_OBSERVE_REGISTER, con)
  <2>7. m \in Message /\ m.kind = "register" /\ m.o = o
    BY <2>2, MsgTyped DEF OC_OBSERVE_REGISTER, RequestKind
  <2> HIDE DEF m
  <2>8. NetOK' /\ net' \subseteq net \cup {m}
    BY <1>0, <2>1, <2>7, TransmitNet DEF Observe, m
  <2>9. Meant(m)'
    BY <2>4, <2>7 DEF Meant
  <2> QED  BY <2>1, <2>5, <2>6, <2>8, <2>9, ClientStep DEF serverVars, Observe
<1>3. CASE CancelLow(o) \/ CheckAndDeleteTimedOutCB(o)
  <2>1. /\ Live(o) /\ cb' = DeleteClientCB(o)
        /\ UNCHANGED <<pendReq, net, dups, serverVars>>
    BY <1>3 DEF CancelLow, CheckAndDeleteTimedOutCB
  <2>2. cb' \in [Obs -> Callback] /\ Forward
    BY <1>0, <2>1, DeleteClientCBMoves, LiveNotIdle
  <2>3. ClientOK' /\ NetOK' /\ net' \subseteq net \cup {}
    BY <1>0, <2>1, <2>2 DEF ClientOK, NetOK
  <2> QED  BY <2>1, <2>2, <2>3, ClientStep
<1>4. CASE CancelHigh(o)
  <2>1. 1 \in SeqNo
    BY BoundAssumption DEF SeqNo
  <2>2. cb' \in [Obs -> Callback] /\ \A p \in Obs : cb'[p].st = IF p = o THEN "cancelling" ELSE cb[p].st
    BY <1>0, <1>4 DEF CancelHigh, ClientOK, Callback
  <2>3. Forward
    BY <1>4, <2>2 DEF Forward, CancelHigh
  <2>4. ClientOK'
    BY <1>0, <1>4, <2>2 DEF ClientOK, CancelHigh, RequestKind
  <2> DEFINE m == Msg("deregister", o, OC_OBSERVE_DEREGISTER, TRUE)
  <2>5. m \in Message /\ m.kind = "deregister" /\ m.o = o
    BY <2>1, MsgTyped DEF OC_OBSERVE_DEREGISTER, RequestKind
  <2> HIDE DEF m
  <2>6. NetOK' /\ net' \subseteq net \cup {m}
    BY <1>0, <1>4, <2>5, TransmitNet DEF CancelHigh, m
  <2>7. Meant(m)'
    BY <2>2, <2>5 DEF Meant
  <2> QED  BY <1>4, <2>3, <2>4, <2>6, <2>7, ClientStep DEF serverVars, CancelHigh
<1>5. CASE \E kind \in RequestKind : RequestTimeout(kind, o)
  <2>1. /\ \/ cb' = DeleteClientCB(o) /\ Live(o)
           \/ UNCHANGED cb
        /\ pendReq' \subseteq pendReq
        /\ UNCHANGED <<net, dups, serverVars>>
    BY <1>5 DEF RequestTimeout
  <2>2. cb' \in [Obs -> Callback] /\ Forward
    BY <1>0, <2>1, DeleteClientCBMoves, LiveNotIdle, NoMove DEF ClientOK
  <2>3. ClientOK' /\ NetOK' /\ net' \subseteq net \cup {}
    BY <1>0, <2>1, <2>2 DEF ClientOK, NetOK
  <2> QED  BY <2>1, <2>2, <2>3, ClientStep
<1> QED  BY <1>1, <1>2, <1>3, <1>4, <1>5

(* What reaches the client.                                                *)
LEMMA ClientReceivesActs == ASSUME IndInv, ClientReceives PROVE IndInv' /\ ForCause
<1>0. ClientOK /\ NetOK /\ TypeOK
  BY IndParts DEF IndInv
<1>1. PICK m \in net : \/ \E keep \in BOOLEAN : HandleRegular(m, keep) \/ RequestSendError(m, keep)
                       \/ HandleStale(m)
                       \/ HandleCancelled(m)
                       \/ HandleUnknown(m)
  BY DEF ClientReceives
<1>2. /\ m \in Message /\ m.o \in Obs /\ m.seq \in SeqNo /\ m.con \in BOOLEAN
      /\ Meant(m) /\ cb[m.o].st # "idle"
  BY NetMessage
<1>3. CASE \E keep \in BOOLEAN : HandleRegular(m, keep)
  <2>1. PICK keep \in BOOLEAN : HandleRegular(m, keep)
    BY <1>3
  <2>2. cb' \in [Obs -> Callback] /\ Forward
    <3>1. CASE ~keep
      BY <1>0, <1>2, <2>1, <3>1, DeleteClientCBMoves DEF HandleRegular
    <3>2. CASE keep
      <4> DEFINE c == [cb[m.o] EXCEPT !.seq = m.seq, !.ttl = TRUE]
      <4>1. cb' = [cb EXCEPT ![m.o] = c]
        BY <1>0, <2>1, <3>2 DEF HandleRegular, ClientOK
      <4>2. cb[m.o] \in Callback
        BY <1>0, <1>2 DEF ClientOK
      <4>3. c \in Callback /\ c.st = cb[m.o].st
        BY <1>2, <4>2 DEF Callback
      <4> HIDE DEF c
      <4>4. cb' \in [Obs -> Callback] /\ \A p \in Obs : cb'[p].st = cb[p].st
        BY <1>0, <1>2, <4>1, <4>3 DEF ClientOK
      <4> QED  BY <4>4 DEF Forward
    <3> QED  BY <3>1, <3>2
  <2>3. ClientOK'
    BY <1>0, <2>1, <2>2 DEF ClientOK, HandleRegular
  <2>4. NetOK' /\ net' \subseteq net \cup Acked(m)
    BY <1>0, <1>2, <2>1, AckedTyped, ReceiveNet DEF HandleRegular
  <2>5. \A a \in Acked(m) : Meant(a)'
    BY <1>2, <2>2, AckedTyped DEF Meant, Forward
  <2> QED  BY <2>1, <2>2, <2>3, <2>4, <2>5, ClientStep DEF serverVars, HandleRegular
<1>4. CASE \E keep \in BOOLEAN : RequestSendError(m, keep)
  <2>1. /\ cb' = DeleteClientCB(m.o) \/ UNCHANGED cb
        /\ pendReq' \subseteq pendReq /\ net' \subseteq net \cup {}
        /\ UNCHANGED <<dups, serverVars>>
    BY <1>4 DEF RequestSendError
  <2>2. cb' \in [Obs -> Callback] /\ Forward
    BY <1>0, <1>2, <2>1, DeleteClientCBMoves, NoMove DEF ClientOK
  <2>3. ClientOK' /\ NetOK'
    BY <1>0, <2>1, <2>2 DEF ClientOK, NetOK
  <2> QED  BY <2>1, <2>2, <2>3, ClientStep
<1>5. CASE HandleStale(m)
  <2>1. NetOK' /\ net' \subseteq net \cup Acked(m)
    BY <1>0, <1>2, <1>5, AckedTyped, ReceiveNet DEF HandleStale
  <2>2. ClientOK' /\ Forward
    BY <1>0, <1>5, NoMove DEF ClientOK, HandleStale
  <2>3. \A a \in Acked(m) : Meant(a)'
    BY <1>2, <2>2, AckedTyped DEF Meant, Forward
  <2> QED  BY <1>5, <2>1, <2>2, <2>3, ClientStep DEF serverVars, HandleStale
<1>6. CASE HandleCancelled(m)
  <2>1. cb' \in [Obs -> Callback] /\ Forward
    BY <1>0, <1>2, <1>6, DeleteClientCBMoves DEF HandleCancelled
  <2>2. ClientOK' /\ NetOK' /\ net' \subseteq net \cup {}
    BY <1>0, <1>6, <2>1, ReceiveNet DEF ClientOK, HandleCancelled
  <2> QED  BY <1>6, <2>1, <2>2, ClientStep DEF serverVars, HandleCancelled
<1>7. CASE HandleUnknown(m)
  <2> DEFINE r == Msg("rst", m.o, m.seq, m.con)
             out == IF m.kind = "notify" THEN {r} ELSE {}
  <2>1. r \in Message /\ r.kind = "rst" /\ r.o = m.o
    BY <1>2, MsgTyped
  <2>2. cb[m.o].st = "gone" /\ UNCHANGED cb
    <3>1. cb[m.o].st \in {"idle", "on", "cancelling", "gone"}
      BY <1>0, <1>2 DEF ClientOK, Callback
    <3> QED  BY <1>2, <1>7, <3>1 DEF HandleUnknown, Live
  <2> HIDE DEF r
  <2>3. NetOK' /\ net' \subseteq net \cup out
    BY <1>0, <1>7, <2>1, ReceiveNet DEF HandleUnknown, r
  <2>4. \A a \in out : Meant(a)'
    BY <2>1, <2>2 DEF Meant
  <2>5. ClientOK' /\ Forward
    BY <1>0, <1>7, <2>2, NoMove DEF ClientOK, HandleUnknown
  <2> QED  BY <1>7, <2>3, <2>4, <2>5, ClientStep DEF serverVars, HandleUnknown
<1> QED  BY <1>1, <1>3, <1>4, <1>5, <1>6, <1>7

-----------------------------------------------------------------------------
(* What reaches the server.                                                *)
LEMMA ServerReceivesActs == ASSUME IndInv, ServerReceives PROVE IndInv' /\ ForCause
<1>0. ListInv /\ RestOK /\ NetOK /\ TypeOK /\ ListMeant
  BY IndParts DEF IndInv
<1>1. PICK m \in net : \/ RegisterDuplicate(m)
                       \/ Register(m)
                       \/ Deregister(m)
                       \/ RequestFails(m)
                       \/ StillInterested(m)
                       \/ NotInterested(m)
                       \/ EmptyIgnored(m)
                       \/ SendError(m)
  BY DEF ServerReceives
<1>2. /\ m \in Message /\ m.o \in Obs /\ m.seq \in SeqNo /\ m.con \in BOOLEAN
      /\ Meant(m) /\ cb[m.o].st # "idle"
  BY NetMessage
<1>3. \A o \in Range(observers) : cb[o].st # "idle"
  BY <1>0 DEF ListMeant
<1>4. CASE RegisterDuplicate(m) \/ EmptyIgnored(m)
  <2>1. NetOK' /\ net' \subseteq net \cup {}
    BY <1>0, <1>4, ReceiveNet DEF RegisterDuplicate, EmptyIgnored
  <2>2. ClientOK' /\ Forward /\ UNCHANGED serverVars
    BY <1>4, NoMove, IndParts DEF RegisterDuplicate, EmptyIgnored, clientVars, ClientOK
  <2> QED  BY <2>1, <2>2, ClientStep
<1>5. CASE Register(m)
  <2>1. ListInv' /\ Range(observers') = Range(observers) \cup {m.o}
    BY <1>0, <1>2, <1>5, RegisterList
  <2> DEFINE a == Msg("registered", m.o, m.seq, FALSE)
  <2>2. a \in Message /\ a.kind = "registered" /\ a.o = m.o
    BY <1>2 DEF Msg, Message, ResponseKind
  <2> HIDE DEF a
  <2>3. NetOK' /\ net' \subseteq net \cup {a}
    BY <1>0, <1>5, <2>2, ReceiveNet DEF Register, a
  <2>4. RestOK'
    BY <1>0, <1>5 DEF Register, RestOK
  <2>5. IndInv'
    BY <1>2, <1>3, <1>5, <2>1, <2>2, <2>3, <2>4, ServerStep DEF clientVars, Register
  <2> QED  BY <2>1, <2>5 DEF ForCause
<1>6. CASE Deregister(m)
  <2>1. ListInv' /\ Range(observers') = Range(observers) \ {m.o}
    BY <1>0, <1>2, <1>6, DeleteList DEF Deregister
  <2> DEFINE a == Msg("content", m.o, NoOption, FALSE)
  <2>2. a \in Message /\ a.kind = "content" /\ a.o = m.o
    <3>1. NoOption \in SeqNo
      BY BoundAssumption DEF NoOption, SeqNo
    <3> QED  BY <1>2, <3>1 DEF Msg, Message
  <2> HIDE DEF a
  <2>3. NetOK' /\ net' \subseteq net \cup {a}
    BY <1>0, <1>6, <2>2, ReceiveNet DEF Deregister, a
  <2>4. RestOK'
    BY <1>0, <1>6 DEF Deregister, RestOK
  <2>5. IndInv'
    BY <1>2, <1>3, <1>6, <2>1, <2>2, <2>3, <2>4, ServerStep DEF clientVars, Deregister
  <2>6. cb[m.o].st \in {"cancelling", "gone"}
    BY <1>2, <1>6 DEF Deregister, Meant
  <2> QED  BY <2>1, <2>5, <2>6 DEF ForCause
<1>7. CASE RequestFails(m)
  <2> DEFINE kind == IF m.kind = "register" THEN "regError" ELSE "deregError"
  <2>1. PICK option \in {m.seq, NoOption} : Receive(m, {Msg(kind, m.o, option, FALSE)})
    BY <1>7 DEF RequestFails
  <2> DEFINE a == Msg(kind, m.o, option, FALSE)
  <2>2. a \in Message /\ a.kind = kind /\ a.o = m.o
    <3>1. option \in SeqNo
      BY <1>2, <2>1, BoundAssumption DEF NoOption, SeqNo
    <3>2. kind \in ResponseKind
      BY DEF ResponseKind
    <3> HIDE DEF kind
    <3> QED  BY <1>2, <3>1, <3>2 DEF Msg, Message
  <2>3. NetOK' /\ net' \subseteq net \cup {a}
    BY <1>0, <2>1, <2>2, ReceiveNet
  <2>4. RestOK' /\ UNCHANGED <<observers, node, nonRun>> /\ UNCHANGED clientVars
    BY <1>0, <1>2, <1>7 DEF RequestFails, RestOK
  <2>5. ListInv' /\ ForCause
    BY <1>0, <2>4 DEF ListInv, ListOK, NoDoubleObserver, RunCounted, ForCause
  <2>6. a.kind \notin {"deregister", "rst"}
    BY <2>2
  <2> HIDE DEF a
  <2>7. IndInv'
    BY <1>2, <1>3, <2>2, <2>3, <2>4, <2>5, <2>6, ServerStep
  <2> QED  BY <2>5, <2>7
<1>8. CASE StillInterested(m)
  <2>1. node' \in [Obs -> ResourceObserver] /\ \A o \in Obs : node'[o].lowQosCount = node[o].lowQosCount
    <3> DEFINE n == [node[m.o] EXCEPT !.failedCommCount = 0, !.forceHighQos = FALSE]
    <3>1. node \in [Obs -> ResourceObserver]
      BY <1>0 DEF ListInv, ListOK
    <3>2. n \in ResourceObserver /\ n.lowQosCount = node[m.o].lowQosCount
      <4>1. node[m.o] \in ResourceObserver /\ 0 \in 0 .. MAX_OBSERVER_FAILED_COMM
        BY <1>2, <3>1, BoundAssumption
      <4> QED  BY <4>1 DEF ResourceObserver
    <3>3. node' = node \/ node' = [node EXCEPT ![m.o] = n]
      BY <1>8, <3>1 DEF StillInterested
    <3> HIDE DEF n
    <3> QED  BY <1>2, <3>1, <3>2, <3>3
  <2>2. ListInv' /\ UNCHANGED observers
    BY <1>0, <1>8, <2>1, SameCounts DEF StillInterested, ListInv, ListOK
  <2>3. RestOK'
    BY <1>0, <1>8 DEF StillInterested, RestOK
  <2>4. NetOK' /\ net' \subseteq net \cup {}
    BY <1>0, <1>8, ReceiveNet DEF StillInterested
  <2>5. IndInv'
    BY <1>3, <1>8, <2>2, <2>3, <2>4, ServerStep DEF clientVars, StillInterested
  <2> QED  BY <2>2, <2>5 DEF ForCause
<1>9. CASE NotInterested(m)
  <2>1. ListInv' /\ Range(observers') = Range(observers) \ {m.o}
    BY <1>0, <1>2, <1>9, DeleteList DEF NotInterested
  <2>2. RestOK'
    BY <1>0, <1>9 DEF NotInterested, RestOK
  <2>3. NetOK' /\ net' \subseteq net \cup {}
    BY <1>0, <1>9, ReceiveNet DEF NotInterested
  <2>4. IndInv'
    BY <1>3, <1>9, <2>1, <2>2, <2>3, ServerStep DEF clientVars, NotInterested
  <2>5. cb[m.o].st = "gone"
    BY <1>2, <1>9 DEF NotInterested, Meant
  <2> QED  BY <2>1, <2>4, <2>5 DEF ForCause
<1>10. CASE SendError(m)
  <2>1. ListInv' /\ Range(observers') \subseteq Range(observers)
        /\ \A p \in Range(observers) \ Range(observers') :
              node[p].failedCommCount = MAX_OBSERVER_FAILED_COMM
    <3>1. CASE FailedComm(m.o)
      BY <1>0, <1>2, <3>1, FailedCommList
    <3>2. CASE UNCHANGED <<observers, node, nonRun>>
      BY <1>0, <3>2 DEF ListInv, ListOK, NoDoubleObserver, RunCounted
    <3> QED  BY <1>10, <3>1, <3>2 DEF SendError
  <2>2. RestOK' /\ NetOK' /\ net' \subseteq net \cup {}
    BY <1>0, <1>10 DEF SendError, RestOK, NetOK
  <2>3. IndInv'
    BY <1>3, <1>10, <2>1, <2>2, ServerStep DEF clientVars, SendError
  <2> QED  BY <2>1, <2>3 DEF ForCause
<1> QED  BY <1>1, <1>4, <1>5, <1>6, <1>7, <1>8, <1>9, <1>10

(* Notifications, the daily check on an observer and the retransmission    *)
(* that gives up.                                                          *)
LEMMA ServerActs == ASSUME IndInv, Server PROVE IndInv' /\ ForCause
<1>0. ListInv /\ RestOK /\ NetOK /\ TypeOK /\ ListMeant
  BY IndParts DEF IndInv
<1>1. \A o \in Range(observers) : cb[o].st # "idle"
  BY <1>0 DEF ListMeant
<1>2. CASE Notify
  <2>1. PICK qos \in QoS : OCNotifyAllObservers(qos)
    BY <1>2 DEF Notify
  <2>2. ListInv' /\ RestOK' /\ NetOK' /\ UNCHANGED <<observers, cb, pendReq>>
        /\ \E out \in SUBSET Message : /\ net' \subseteq net \cup out
                                       /\ \A m \in out : m.kind = "notify" /\ m.o \in Range(observers)
    BY <1>0, <2>1, NotifyList
  <2>3. PICK out \in SUBSET Message : /\ net' \subseteq net \cup out
                                      /\ \A m \in out : m.kind = "notify" /\ m.o \in Range(observers)
    BY <2>2
  <2>4. IndInv'
    BY <1>1, <2>2, <2>3, ServerStep DEF clientVars
  <2> QED  BY <2>2, <2>4 DEF ForCause
<1>3. ASSUME NEW o \in Obs, CheckTimedOutObserver(o) PROVE IndInv' /\ ForCause
  <2>0. seqNum \in SeqNo
    BY <1>0, BoundAssumption DEF RestOK, SeqNo
  <2> DEFINE m == Msg("notify", o, seqNum, TRUE)
  <2>1. m \in Message /\ m.kind = "notify" /\ m.o = o
    BY <2>0, MsgTyped DEF ResponseKind
  <2> HIDE DEF m
  <2>2. NetOK' /\ net' \subseteq net \cup {m}
    BY <1>0, <1>3, <2>1, TransmitNet DEF CheckTimedOutObserver, m
  <2>3. RestOK'
    BY <1>0, <1>3, <2>0 DEF CheckTimedOutObserver, RestOK
  <2>4. node \in [Obs -> ResourceObserver] /\ nonRun \in [Obs -> 0 .. MAX_OBSERVER_NON_COUNT + 1]
    BY <1>0 DEF ListInv, ListOK
  <2>5. /\ nonRun' \in [Obs -> 0 .. MAX_OBSERVER_NON_COUNT + 1]
        /\ \A p \in Obs : nonRun'[p] \in {0, nonRun[p]}
    BY <1>3, <2>4, BoundAssumption DEF CheckTimedOutObserver
  <2>6. ListInv' /\ UNCHANGED observers
    BY <1>0, <1>3, <2>4, <2>5, SameCounts DEF CheckTimedOutObserver
  <2>7. IndInv'
    BY <1>1, <1>3, <2>1, <2>2, <2>3, <2>6, ServerStep DEF clientVars, CheckTimedOutObserver
  <2> QED  BY <2>6, <2>7 DEF ForCause
<1>4. ASSUME NEW c \in conOut, NotifyTimeout(c[1], c[2]) PROVE IndInv' /\ ForCause
  <2>1. c[1] \in Obs
    BY <1>0 DEF RestOK
  <2>2. /\ ListInv' /\ Range(observers') \subseteq Range(observers)
        /\ \A p \in Range(observers) \ Range(observers') :
              node[p].failedCommCount = MAX_OBSERVER_FAILED_COMM
    BY <1>0, <1>4, <2>1, FailedCommList DEF NotifyTimeout
  <2>3. RestOK' /\ NetOK' /\ net' \subseteq net \cup {}
    BY <1>0, <1>4 DEF NotifyTimeout, RestOK, NetOK
  <2>4. IndInv'
    BY <1>1, <1>4, <2>2, <2>3, ServerStep DEF clientVars, NotifyTimeout
  <2> QED  BY <2>2, <2>4 DEF ForCause
<1> QED  BY <1>2, <1>3, <1>4 DEF Server

-----------------------------------------------------------------------------
LEMMA InitHolds == Init => IndInv
<1> SUFFICES ASSUME Init PROVE IndInv
  OBVIOUS
<1>1. 0 \in SeqNo
  BY BoundAssumption DEF SeqNo
<1>2. ClientOK
  BY <1>1 DEF Init, ClientOK, Callback
<1>3. node \in [Obs -> ResourceObserver]
  BY NewNodeTyped DEF Init
<1>4. ListOK
  <2>1. nonRun \in [Obs -> 0 .. MAX_OBSERVER_NON_COUNT + 1]
    BY BoundAssumption DEF Init
  <2>2. observers \in Seq(Obs)
    BY DEF Init
  <2> QED  BY <1>3, <2>1, <2>2 DEF ListOK
<1>5. Range(observers) = {} /\ Len(observers) = 0
  BY DEF Init, Range
<1>6. RestOK /\ NetOK /\ NetMeant /\ ListMeant
  BY <1>5, BoundAssumption DEF Init, RestOK, NetOK, NetMeant, ListMeant, OC_OFFSET_SEQUENCE_NUMBER
<1>7. NoDoubleObserver /\ RunCounted
  BY <1>5 DEF NoDoubleObserver, RunCounted
<1> QED  BY <1>2, <1>4, <1>6, <1>7, TypeParts DEF IndInv

LEMMA NextStep == IndInv /\ [Next]_vars => IndInv' /\ ForCause
<1> SUFFICES ASSUME IndInv, [Next]_vars PROVE IndInv' /\ ForCause
  OBVIOUS
<1>1. CASE NetworkLoses
  <2>1. net' \subseteq net \cup {} /\ UNCHANGED <<dups, cb, pendReq>> /\ UNCHANGED serverVars
    BY <1>1 DEF NetworkLoses, Lose, clientVars
  <2>2. ClientOK' /\ NetOK' /\ Forward
    BY <2>1, IndParts, NoMove DEF ClientOK, NetOK
  <2> QED  BY <2>1, <2>2, ClientStep
<1>2. CASE UNCHANGED vars
  <2>1. net' \subseteq net \cup {} /\ UNCHANGED <<dups, cb, pendReq>> /\ UNCHANGED serverVars
    BY <1>2 DEF vars, serverVars
  <2>2. ClientOK' /\ NetOK' /\ Forward
    BY <2>1, IndParts, NoMove DEF ClientOK, NetOK
  <2> QED  BY <2>1, <2>2, ClientStep
<1> QED  BY <1>1, <1>2, ClientActs, ClientReceivesActs, ServerReceivesActs, ServerActs DEF Next

LEMMA Invariance == Spec => []IndInv
  BY InitHolds, NextStep, PTL DEF Spec

(* Variables keep their types: whatever is lost, repeated or reordered,    *)
(* a node's counters stay within the limits of DetermineObserverQoS and    *)
(* OCStackFeedBack, and the sequence number stays below the largest.       *)
THEOREM ObserveTypes == Spec => []TypeOK
<1>1. IndInv => TypeOK
  BY DEF IndInv
<1> QED  BY <1>1, Invariance, PTL

(* No observer is listed twice, for any number of observers and however    *)
(* often a registration is repeated.                                       *)
THEOREM NeverListedTwice == Spec => []NoDoubleObserver
<1>1. IndInv => NoDoubleObserver
  BY DEF IndInv
<1> QED  BY <1>1, Invariance, PTL

(* Every observer is checked with a CON notification after at most         *)
(* MAX_OBSERVER_NON_COUNT NON ones, for any number of observers, although  *)
(* SendAllObserverNotification hands one observer's QoS to the next.       *)
THEOREM CheckedInTime == Spec => []ConWithinBound
<1>1. IndInv => ConWithinBound
  <2> SUFFICES ASSUME IndInv, NEW o \in Range(observers)
               PROVE  nonRun[o] <= MAX_OBSERVER_NON_COUNT
    BY DEF ConWithinBound
  <2>1. o \in Obs
    BY ListedInObs DEF IndInv
  <2>2. /\ nonRun[o] \in 0 .. MAX_OBSERVER_NON_COUNT + 1
        /\ node[o].lowQosCount \in 0 .. MAX_OBSERVER_NON_COUNT
    BY <2>1 DEF IndInv, TypeOK
  <2>3. nonRun[o] <= node[o].lowQosCount
    BY DEF IndInv, RunCounted
  <2> QED  BY <2>2, <2>3, BoundAssumption
<1> QED  BY <1>1, Invariance, PTL

(* An observer is dropped only when its client cancels or has gone, or     *)
(* after more than MAX_OBSERVER_FAILED_COMM failures in a row.             *)
THEOREM OnlyDroppedForCause == Spec => DroppedForCause
<1>1. IndInv /\ [Next]_vars =>
        [\A o \in Range(observers) \ Range(observers') :
            \/ cb[o].st \in {"cancelling", "gone"}
            \/ node[o].failedCommCount = MAX_OBSERVER_FAILED_COMM]_vars
  BY NextStep DEF ForCause
<1> QED  BY <1>1, Invariance, PTL DEF Spec, DroppedForCause
=============================================================================
