----------------------- MODULE CARetransmission_proof -----------------------
(***************************************************************************)
(* Proofs about CARetransmission, for every set of messages, assignment of *)
(* message ids, set of timeouts and trying count.                          *)
(*                                                                         *)
(* UniqueKeys is inductive with the type invariant.  Fates needs that a    *)
(* message not yet recorded was never resent, NoRecordSkipped that what is *)
(* still due lies at or behind the walk's index; both need UniqueKeys, so  *)
(* that removing one record removes all there is of its message.           *)
(* FullBackoff rests on a second invariant, Backoff: a record has waited   *)
(* for all the timeouts before it, which add up to one less than a power   *)
(* of two.                                                                 *)
(***************************************************************************)
EXTENDS CARetransmission, FiniteSetTheorems, TLAPS

NotRecorded == \A s \in Send : status[s] = "none" => resent[s] = 0

DueAhead ==
    wpc = "walk" =>
      \A s \in due :
        \E i \in DOMAIN list : i >= pos /\ list[i].send = s /\ CACheckTimeout(list[i])

IndInv == TypeOK /\ UniqueKeys /\ Fates /\ NotRecorded /\ DueAhead

-----------------------------------------------------------------------------
LEMMA SignalledSubset ==
    ASSUME NEW W, NEW V \in Signalled(W)
    PROVE  V \subseteq W
BY DEF Signalled

LEMMA ListFacts ==
    ASSUME list \in Seq(Entry)
    PROVE  /\ Len(list) \in Nat /\ DOMAIN list = 1..Len(list)
           /\ \A i \in DOMAIN list : /\ list[i] \in Entry
                                     /\ list[i].send \in Confirmable
                                     /\ list[i].send \in Send
                                     /\ list[i].tried \in 0..(TryingCount - 1)
<1>1. /\ Len(list) \in Nat /\ DOMAIN list = 1..Len(list)
      /\ \A i \in DOMAIN list : list[i] \in Entry
  OBVIOUS
<1> QED BY <1>1, ConfirmableAssumption DEF Entry

(* Removing one element keeps the others, in order.                        *)
LEMMA RemoveFacts ==
    ASSUME list \in Seq(Entry), NEW i \in DOMAIN list
    PROVE  /\ RemoveAt(list, i) \in Seq(Entry)
           /\ Len(RemoveAt(list, i)) = Len(list) - 1
           /\ DOMAIN RemoveAt(list, i) = 1..(Len(list) - 1)
           /\ \A k \in 1..(Len(list) - 1) :
                RemoveAt(list, i)[k] = IF k < i THEN list[k] ELSE list[k + 1]
<1> DEFINE r == [k \in 1..(Len(list) - 1) |-> IF k < i THEN list[k] ELSE list[k + 1]]
<1>1. Len(list) \in Nat \ {0} /\ DOMAIN list = 1..Len(list)
      /\ \A k \in 1..Len(list) : list[k] \in Entry
  OBVIOUS
<1>2. Len(list) - 1 \in Nat
  BY <1>1
<1>3. \A k \in 1..(Len(list) - 1) : r[k] \in Entry
  BY <1>1
<1>4. r \in Seq(Entry) /\ Len(r) = Len(list) - 1 /\ DOMAIN r = 1..(Len(list) - 1)
  BY <1>2, <1>3
<1>5. RemoveAt(list, i) = r
  BY DEF RemoveAt
<1> QED BY <1>4, <1>5

-----------------------------------------------------------------------------
LEMMA InitIndInv == Init => IndInv
<1> SUFFICES ASSUME Init PROVE IndInv
  OBVIOUS
<1> USE TryingCountAssumption, MaxWaitAssumption DEF Init
<1>1. TypeOK
  <2>1. list \in Seq(Entry) /\ wpc # "walk"
    OBVIOUS
  <2>2. /\ status \in [Send -> Status]
        /\ resent \in [Send -> Nat] /\ reported \in [Send -> Nat]
        /\ waited \in [Send -> 0..MaxWait]
    BY DEF Status
  <2>3. isStop \in BOOLEAN /\ waiters \subseteq {"worker", "owner"} /\ due \subseteq Send
    BY Zenon
  <2>4. wpc \in WorkerPC /\ opc \in OwnerPC /\ pos \in Nat \ {0}
    BY DEF WorkerPC, OwnerPC
  <2> QED BY <2>1, <2>2, <2>3, <2>4 DEF TypeOK
<1>2. DOMAIN list = {}
  BY SMT
<1>3. UniqueKeys /\ DueAhead /\ NotRecorded
  BY <1>2 DEF UniqueKeys, DueAhead, NotRecorded
<1>4. Fates
  <2>1. \A s \in Send : ~Listed(s) /\ status[s] = "none" /\ resent[s] = 0 /\ reported[s] = 0
    BY <1>2 DEF Listed
  <2> SUFFICES ASSUME NEW s \in Send
               PROVE  /\ status[s] = "pending" <=> Listed(s)
                      /\ \A i \in DOMAIN list : list[i].send = s => list[i].tried = resent[s]
                      /\ status[s] = "timeout" => resent[s] = TryingCount /\ reported[s] = 1
                      /\ status[s] # "timeout" => resent[s] < TryingCount /\ reported[s] = 0
    BY DEF Fates
  <2> QED BY <1>2, <2>1
<1> QED BY <1>1, <1>3, <1>4 DEF IndInv

(* The steps that append, change or remove a record, one lemma for each.   *)
LEMMA TickStep ==
    ASSUME IndInv, Tick
    PROVE  IndInv'
<1> USE DEF IndInv
<1>1. /\ list \in Seq(Entry) /\ Len(list) \in Nat /\ DOMAIN list = 1..Len(list)
      /\ \A i \in DOMAIN list : list[i] \in Entry
  BY ListFacts DEF TypeOK
<1>2. /\ list' = [i \in DOMAIN list |->
                   [list[i] EXCEPT !.age = IF @ < MaxAge THEN @ + 1 ELSE @]]
      /\ UNCHANGED <<isStop, wpc, opc, waiters, pos, status, resent, reported, due>>
  BY DEF Tick, control
<1>3. \A i \in DOMAIN list :
         [list[i] EXCEPT !.age = IF @ < MaxAge THEN @ + 1 ELSE @] \in Entry
  <2> SUFFICES ASSUME NEW i \in DOMAIN list
               PROVE  [list[i] EXCEPT !.age = IF @ < MaxAge THEN @ + 1 ELSE @] \in Entry
    OBVIOUS
  <2>1. list[i] \in [send : Confirmable, age : 0..MaxAge, timeout : Timeouts,
                     tried : 0..(TryingCount - 1)]
    BY <1>1 DEF Entry
  <2>2. (IF list[i].age < MaxAge THEN list[i].age + 1 ELSE list[i].age) \in 0..MaxAge
    BY <2>1, MaxAgeAssumption
  <2> QED BY <2>1, <2>2 DEF Entry
<1>4. list' \in Seq(Entry) /\ Len(list') = Len(list) /\ DOMAIN list' = DOMAIN list
  BY <1>1, <1>2, <1>3
<1>5. \A i \in DOMAIN list : list'[i].send = list[i].send /\ list'[i].tried = list[i].tried
  BY <1>1, <1>2 DEF Entry
<1>6. waited' \in [Send -> 0..MaxWait]
  BY MaxWaitAssumption DEF Tick, TypeOK
<1>7. TypeOK'
  BY <1>2, <1>4, <1>6 DEF TypeOK
<1>8. UniqueKeys' /\ NotRecorded'
  BY <1>2, <1>4, <1>5 DEF UniqueKeys, NotRecorded
<1>10. \A i \in DOMAIN list : CACheckTimeout(list[i]) => CACheckTimeout(list'[i])
  <2> SUFFICES ASSUME NEW i \in DOMAIN list, CACheckTimeout(list[i])
               PROVE  CACheckTimeout(list'[i])
    OBVIOUS
  <2> DEFINE limit == list[i].timeout * 2^list[i].tried
  <2>1. list[i].age >= limit
    BY DEF CACheckTimeout
  <2>2. limit \in 0..MaxAge /\ list[i].age \in 0..MaxAge /\ MaxAge \in Nat
    BY <1>1, MaxAgeAssumption DEF Entry
  <2>3. /\ list'[i].age \in {list[i].age, list[i].age + 1}
        /\ list'[i].timeout * 2^list'[i].tried = limit
    BY <1>1, <1>2 DEF Entry
  <2> HIDE DEF limit
  <2>4. list'[i].age >= limit
    BY <2>1, <2>2, <2>3
  <2> QED BY <2>3, <2>4 DEF CACheckTimeout
<1>11. DueAhead'
  BY <1>2, <1>4, <1>5, <1>10 DEF DueAhead
<1>9. Fates'
  <2>1. \A s : Listed(s)' <=> Listed(s)
    BY <1>4, <1>5 DEF Listed
  <2> QED BY <1>2, <1>4, <1>5, <2>1 DEF Fates
<1> QED BY <1>7, <1>8, <1>9, <1>11

LEMMA SentDataStep ==
    ASSUME IndInv, NEW s \in Send, SentData(s)
    PROVE  IndInv'
<1> USE DEF IndInv
<1>1. PICK t \in Timeouts :
         list' = Append(list, [send |-> s, age |-> 0, timeout |-> t, tried |-> 0])
  BY DEF SentData
<1> DEFINE e == [send |-> s, age |-> 0, timeout |-> t, tried |-> 0]
<1>2. /\ list \in Seq(Entry) /\ Len(list) \in Nat /\ DOMAIN list = 1..Len(list)
      /\ \A i \in DOMAIN list : list[i] \in Entry /\ list[i].send \in Send
  BY ListFacts DEF TypeOK
<1>3. e \in Entry /\ e.send = s /\ e.tried = 0
  BY TryingCountAssumption, MaxAgeAssumption DEF SentData, Entry
<1>4. /\ list' \in Seq(Entry) /\ Len(list') = Len(list) + 1
      /\ DOMAIN list' = 1..(Len(list) + 1)
      /\ \A i \in DOMAIN list : list'[i] = list[i]
      /\ list'[Len(list) + 1] = e
  BY <1>1, <1>2, <1>3
<1>5. /\ status' = [status EXCEPT ![s] = "pending"]
      /\ status[s] = "none" /\ wpc # "walk"
      /\ UNCHANGED <<isStop, wpc, opc, pos, resent, reported, waited, due>>
  BY DEF SentData, control, MutexFree
<1>6. TypeOK'
  BY <1>4, <1>5, SignalledSubset DEF TypeOK, SentData, Status
<1>7. \A i \in DOMAIN list : Key[list[i].send] # Key[s] /\ list[i].send # s
  BY DEF SentData, KeyTaken, HasKey
<1>8. UniqueKeys'
  <2> SUFFICES ASSUME NEW i \in DOMAIN list', NEW j \in DOMAIN list',
                      Key[list'[i].send] = Key[list'[j].send]
               PROVE  i = j
    BY <1>5 DEF UniqueKeys
  <2>1. CASE i \in DOMAIN list /\ j \in DOMAIN list
    BY <1>4, <2>1 DEF UniqueKeys
  <2>2. CASE i = Len(list) + 1 /\ j \in DOMAIN list
    BY <1>3, <1>4, <1>7, <2>2
  <2>3. CASE i \in DOMAIN list /\ j = Len(list) + 1
    BY <1>3, <1>4, <1>7, <2>3
  <2> QED BY <1>2, <1>4, <2>1, <2>2, <2>3
<1>9. NotRecorded' /\ DueAhead'
  BY <1>5 DEF NotRecorded, DueAhead, TypeOK
<1>10. Fates'
  <2>1. \A u \in Send : Listed(u)' <=> Listed(u) \/ u = s
    BY <1>2, <1>3, <1>4 DEF Listed
  <2>2. resent[s] = 0 /\ reported[s] = 0
    BY <1>5 DEF NotRecorded, Fates
  <2>3. ASSUME NEW u \in Send
        PROVE  \A i \in DOMAIN list' : list'[i].send = u => list'[i].tried = resent'[u]
    BY <1>2, <1>3, <1>4, <1>5, <2>2 DEF Fates
  <2> QED BY <1>5, <2>1, <2>2, <2>3, TryingCountAssumption DEF Fates, TypeOK
<1> QED BY <1>6, <1>8, <1>9, <1>10

(* What the removal of record i does to the list.                          *)
LEMMA RemovalStep ==
    ASSUME list \in Seq(Entry), UniqueKeys, NEW i \in DOMAIN list, list' = RemoveAt(list, i)
    PROVE  /\ list' \in Seq(Entry) /\ Len(list') = Len(list) - 1
           /\ UniqueKeys'
           /\ \A u : Listed(u)' <=> Listed(u) /\ u # list[i].send
           /\ \A k \in DOMAIN list' : \E j \in DOMAIN list : list'[k] = list[j]
           /\ \A j \in DOMAIN list : j > i => j - 1 \in DOMAIN list' /\ list'[j - 1] = list[j]
           /\ \A j \in DOMAIN list : j < i => j \in DOMAIN list' /\ list'[j] = list[j]
<1>1. /\ Len(list) \in Nat /\ DOMAIN list = 1..Len(list)
      /\ i \in 1..Len(list)
  BY ListFacts
<1>2. /\ list' \in Seq(Entry) /\ Len(list') = Len(list) - 1
      /\ DOMAIN list' = 1..(Len(list) - 1)
      /\ \A k \in 1..(Len(list) - 1) : list'[k] = IF k < i THEN list[k] ELSE list[k + 1]
  BY RemoveFacts
<1> DEFINE from(k) == IF k < i THEN k ELSE k + 1
<1>3. \A k \in DOMAIN list' : from(k) \in DOMAIN list /\ from(k) # i /\ list'[k] = list[from(k)]
  BY <1>1, <1>2
<1>4. \A k, l \in DOMAIN list' : from(k) = from(l) => k = l
  BY <1>1, <1>2
<1>5. \A j \in DOMAIN list : j > i => j - 1 \in DOMAIN list' /\ list'[j - 1] = list[j]
  <2> SUFFICES ASSUME NEW j \in DOMAIN list, j > i
               PROVE  j - 1 \in DOMAIN list' /\ list'[j - 1] = list[j]
    OBVIOUS
  <2>1. j - 1 \in 1..(Len(list) - 1) /\ ~(j - 1 < i) /\ (j - 1) + 1 = j
    BY <1>1
  <2> QED BY <1>2, <2>1
<1>6. \A j \in DOMAIN list : j < i => j \in DOMAIN list' /\ list'[j] = list[j]
  BY <1>1, <1>2
<1> HIDE DEF from
<1>7. UniqueKeys'
  BY <1>3, <1>4 DEF UniqueKeys
<1>8. ASSUME NEW u PROVE Listed(u)' <=> Listed(u) /\ u # list[i].send
  <2>1. ASSUME NEW k \in DOMAIN list', list'[k].send = u
        PROVE  Listed(u) /\ u # list[i].send
    <3>1. list[from(k)].send = u /\ from(k) \in DOMAIN list /\ from(k) # i
      BY <1>3, <2>1
    <3> QED BY <3>1 DEF Listed, UniqueKeys
  <2>2. ASSUME NEW j \in DOMAIN list, list[j].send = u, u # list[i].send
        PROVE  \E k \in DOMAIN list' : list'[k].send = u
    <3>1. j > i \/ j < i
      BY <1>1, <2>2
    <3> QED BY <1>5, <1>6, <2>2, <3>1
  <2> QED BY <2>1, <2>2 DEF Listed
<1> QED BY <1>2, <1>3, <1>5, <1>6, <1>7, <1>8

LEMMA ReceivedDataStep ==
    ASSUME IndInv, NEW k, ReceivedData(k)
    PROVE  IndInv'
<1> USE DEF IndInv
<1>1. PICK i \in DOMAIN list : /\ list' = RemoveAt(list, i)
                               /\ status' = [status EXCEPT ![list[i].send] = "acked"]
  BY DEF ReceivedData
<1>2. /\ wpc # "walk"
      /\ UNCHANGED <<isStop, wpc, opc, waiters, pos, resent, reported, waited, due>>
  BY DEF ReceivedData, control, MutexFree
<1> DEFINE s == list[i].send
<1>3. list \in Seq(Entry) /\ s \in Send
  BY ListFacts DEF TypeOK
<1>4. /\ list' \in Seq(Entry) /\ UniqueKeys'
      /\ \A u : Listed(u)' <=> Listed(u) /\ u # s
      /\ \A l \in DOMAIN list' : \E j \in DOMAIN list : list'[l] = list[j]
  BY <1>1, <1>3, RemovalStep
<1>5. status' \in [Send -> Status] /\ status'[s] = "acked"
      /\ \A u \in Send : u # s => status'[u] = status[u]
  BY <1>1, <1>3 DEF TypeOK, Status
<1>6. TypeOK'
  BY <1>2, <1>4, <1>5 DEF TypeOK
<1>7. NotRecorded' /\ DueAhead'
  BY <1>2, <1>5 DEF NotRecorded, DueAhead
<1>8. Listed(s) /\ status[s] = "pending"
  BY <1>3 DEF Listed, Fates
<1>9. Fates'
  BY <1>2, <1>3, <1>4, <1>5, <1>8 DEF Fates
<1> QED BY <1>4, <1>6, <1>7, <1>9

LEMMA WalkResendStep ==
    ASSUME IndInv, WalkResend
    PROVE  IndInv'
<1> USE DEF IndInv
<1> DEFINE s == list[pos].send
           e == [list[pos] EXCEPT !.age = 0, !.tried = list[pos].tried + 1]
<1>1. /\ wpc = "walk" /\ pos \in DOMAIN list /\ pos \in Nat \ {0}
      /\ list \in Seq(Entry) /\ Len(list) \in Nat /\ DOMAIN list = 1..Len(list)
      /\ s \in Send /\ list[pos] \in Entry
  BY ListFacts DEF WalkResend, AtEntry, TypeOK
<1>2. /\ list' = [list EXCEPT ![pos] = e]
      /\ resent' = [resent EXCEPT ![s] = @ + 1]
      /\ due' = due \ {s} /\ pos' = pos + 1
      /\ UNCHANGED <<isStop, wpc, opc, waiters, status, reported, waited>>
  BY <1>1 DEF WalkResend, control
<1>3. list[pos].tried + 1 < TryingCount /\ list[pos].tried \in Nat
  BY <1>1, TryingCountAssumption DEF WalkResend, LastTry, Entry
<1>4. e \in Entry /\ e.send = s /\ e.tried = list[pos].tried + 1
  <2>1. list[pos] \in [send : Confirmable, age : 0..MaxAge, timeout : Timeouts,
                       tried : 0..(TryingCount - 1)]
    BY <1>1 DEF Entry
  <2>2. 0 \in 0..MaxAge /\ list[pos].tried + 1 \in 0..(TryingCount - 1)
    BY <1>3, MaxAgeAssumption, TryingCountAssumption
  <2> QED BY <2>1, <2>2 DEF Entry
<1> HIDE DEF e
<1>5. /\ list' \in Seq(Entry) /\ Len(list') = Len(list) /\ DOMAIN list' = DOMAIN list
      /\ list'[pos] = e
      /\ \A i \in DOMAIN list : i # pos => list'[i] = list[i]
  BY <1>1, <1>2, <1>4
<1>6. \A i \in DOMAIN list : list'[i].send = list[i].send
  BY <1>4, <1>5
<1>7. UniqueKeys'
  BY <1>5, <1>6 DEF UniqueKeys
<1>8. Listed(s) /\ status[s] = "pending" /\ list[pos].tried = resent[s]
  BY <1>1 DEF Listed, Fates
<1>9. /\ resent' \in [Send -> Nat] /\ resent'[s] = resent[s] + 1
      /\ \A u \in Send : u # s => resent'[u] = resent[u]
  BY <1>1, <1>2 DEF TypeOK
<1>10. TypeOK'
  BY <1>1, <1>2, <1>5, <1>9 DEF TypeOK
<1>11. \A i \in DOMAIN list : i # pos => list[i].send # s
  BY <1>1 DEF UniqueKeys
<1>12. Fates'
  <2>1. \A u : Listed(u)' <=> Listed(u)
    BY <1>5, <1>6 DEF Listed
  <2> SUFFICES ASSUME NEW u \in Send
               PROVE  /\ status'[u] = "pending" <=> Listed(u)'
                      /\ \A i \in DOMAIN list' : list'[i].send = u => list'[i].tried = resent'[u]
                      /\ status'[u] = "timeout" => resent'[u] = TryingCount /\ reported'[u] = 1
                      /\ status'[u] # "timeout" => resent'[u] < TryingCount /\ reported'[u] = 0
    BY DEF Fates
  <2>2. CASE u = s
    BY <1>2, <1>3, <1>4, <1>5, <1>6, <1>8, <1>9, <1>11, <2>1, <2>2 DEF Fates
  <2>3. CASE u # s
    BY <1>2, <1>4, <1>5, <1>6, <1>9, <2>1, <2>3 DEF Fates
  <2> QED BY <2>2, <2>3
<1>13. NotRecorded'
  BY <1>2, <1>8, <1>9 DEF NotRecorded
<1>14. DueAhead'
  <2> SUFFICES ASSUME NEW u \in due, u # s
               PROVE  \E i \in DOMAIN list' :
                         i >= pos + 1 /\ list'[i].send = u /\ CACheckTimeout(list'[i])
    BY <1>2 DEF DueAhead
  <2>1. PICK i \in DOMAIN list : i >= pos /\ list[i].send = u /\ CACheckTimeout(list[i])
    BY <1>1 DEF DueAhead
  <2>2. i # pos /\ i >= pos + 1
    BY <1>1, <2>1
  <2> QED BY <1>5, <2>1, <2>2
<1> QED BY <1>7, <1>10, <1>12, <1>13, <1>14

LEMMA WalkGiveUpStep ==
    ASSUME IndInv, WalkGiveUp
    PROVE  IndInv'
<1> USE DEF IndInv
<1> DEFINE s == list[pos].send
<1>1. /\ wpc = "walk" /\ pos \in DOMAIN list /\ pos \in Nat \ {0}
      /\ list \in Seq(Entry) /\ Len(list) \in Nat /\ DOMAIN list = 1..Len(list)
      /\ s \in Send /\ list[pos].tried \in 0..(TryingCount - 1)
  <2>1. /\ list \in Seq(Entry) /\ wpc = "walk" /\ pos \in Nat \ {0} /\ pos <= Len(list)
    BY DEF WalkGiveUp, AtEntry, TypeOK
  <2>2. Len(list) \in Nat /\ DOMAIN list = 1..Len(list) /\ pos \in DOMAIN list
    BY <2>1
  <2> QED BY <2>1, <2>2, ListFacts
<1>2. /\ list' = RemoveAt(list, pos)
      /\ resent' = [resent EXCEPT ![s] = @ + 1]
      /\ reported' = [reported EXCEPT ![s] = @ + 1]
      /\ status' = [status EXCEPT ![s] = "timeout"]
      /\ due' = due \ {s} /\ pos' = pos
      /\ UNCHANGED <<isStop, wpc, opc, waiters, waited>>
  BY DEF WalkGiveUp, control, PosAfterRemove
<1>3. list[pos].tried + 1 = TryingCount
  BY <1>1, TryingCountAssumption DEF WalkGiveUp, LastTry
<1>4. /\ list' \in Seq(Entry) /\ Len(list') = Len(list) - 1 /\ UniqueKeys'
      /\ \A u : Listed(u)' <=> Listed(u) /\ u # s
      /\ \A l \in DOMAIN list' : \E j \in DOMAIN list : list'[l] = list[j]
      /\ \A j \in DOMAIN list : j > pos => j - 1 \in DOMAIN list' /\ list'[j - 1] = list[j]
  BY <1>1, <1>2, RemovalStep
<1>5. Listed(s) /\ status[s] = "pending" /\ list[pos].tried = resent[s] /\ reported[s] = 0
  BY <1>1 DEF Listed, Fates
<1>6. /\ resent' \in [Send -> Nat] /\ resent'[s] = TryingCount
      /\ reported' \in [Send -> Nat] /\ reported'[s] = 1
      /\ status' \in [Send -> Status] /\ status'[s] = "timeout"
      /\ \A u \in Send : u # s => /\ resent'[u] = resent[u]
                                  /\ reported'[u] = reported[u]
                                  /\ status'[u] = status[u]
  <2>1. /\ resent \in [Send -> Nat] /\ reported \in [Send -> Nat]
        /\ status \in [Send -> Status] /\ "timeout" \in Status
    BY DEF TypeOK, Status
  <2>2. resent[s] + 1 = TryingCount /\ reported[s] + 1 = 1 /\ TryingCount \in Nat
    BY <1>3, <1>5, TryingCountAssumption
  <2>3. resent' \in [Send -> Nat] /\ resent'[s] = TryingCount
        /\ \A u \in Send : u # s => resent'[u] = resent[u]
    BY <1>1, <1>2, <2>1, <2>2
  <2>4. reported' \in [Send -> Nat] /\ reported'[s] = 1
        /\ \A u \in Send : u # s => reported'[u] = reported[u]
    BY <1>1, <1>2, <2>1, <2>2
  <2>5. status' \in [Send -> Status] /\ status'[s] = "timeout"
        /\ \A u \in Send : u # s => status'[u] = status[u]
    BY <1>1, <1>2, <2>1
  <2> QED BY <2>3, <2>4, <2>5
<1>7. TypeOK'
  <2>1. pos' \in Nat \ {0} /\ pos' <= Len(list') + 1
    BY <1>1, <1>2, <1>4
  <2>2. due' \subseteq Send
    BY <1>2 DEF TypeOK
  <2> QED BY <1>2, <1>4, <1>6, <2>1, <2>2 DEF TypeOK
<1>8. Fates'
  <2> SUFFICES ASSUME NEW u \in Send
               PROVE  /\ status'[u] = "pending" <=> Listed(u)'
                      /\ \A i \in DOMAIN list' : list'[i].send = u => list'[i].tried = resent'[u]
                      /\ status'[u] = "timeout" => resent'[u] = TryingCount /\ reported'[u] = 1
                      /\ status'[u] # "timeout" => resent'[u] < TryingCount /\ reported'[u] = 0
    BY DEF Fates
  <2>1. \A i \in DOMAIN list' : list'[i].send # s
    BY <1>1, <1>4 DEF Listed
  <2>2. CASE u = s
    BY <1>4, <1>6, <2>1, <2>2
  <2>3. CASE u # s
    <3>1. resent'[u] = resent[u] /\ reported'[u] = reported[u] /\ status'[u] = status[u]
      BY <1>6, <2>3
    <3>2. Listed(u)' <=> Listed(u)
      BY <1>4, <2>3
    <3>3. /\ status[u] = "pending" <=> Listed(u)
          /\ \A i \in DOMAIN list : list[i].send = u => list[i].tried = resent[u]
          /\ status[u] = "timeout" => resent[u] = TryingCount /\ reported[u] = 1
          /\ status[u] # "timeout" => resent[u] < TryingCount /\ reported[u] = 0
      BY DEF Fates
    <3>4. ASSUME NEW i \in DOMAIN list', list'[i].send = u
          PROVE  list'[i].tried = resent'[u]
      <4>1. PICK j \in DOMAIN list : list'[i] = list[j]
        BY <1>4
      <4> QED BY <4>1, <3>1, <3>3, <3>4
    <3> QED BY <3>1, <3>2, <3>3, <3>4
  <2> QED BY <2>2, <2>3
<1>9. NotRecorded'
  BY <1>6 DEF NotRecorded
<1>10. DueAhead'
  <2> SUFFICES ASSUME NEW u \in due, u # s
               PROVE  \E i \in DOMAIN list' :
                         i >= pos /\ list'[i].send = u /\ CACheckTimeout(list'[i])
    BY <1>2 DEF DueAhead
  <2>1. PICK i \in DOMAIN list : i >= pos /\ list[i].send = u /\ CACheckTimeout(list[i])
    BY <1>1 DEF DueAhead
  <2>2. i > pos /\ i - 1 >= pos
    BY <1>1, <2>1
  <2> QED BY <1>4, <2>1, <2>2
<1> QED BY <1>4, <1>7, <1>8, <1>9, <1>10

(* The other two outcomes of SentData only record the answer.              *)
LEMMA SentDataRefusedStep ==
    ASSUME IndInv, NEW s \in Send, SentDataRefused(s) \/ SentDataDuplicate(s)
    PROVE  IndInv'
<1> USE DEF IndInv
<1>1. PICK r \in {"refused", "duplicate"} : status' = [status EXCEPT ![s] = r]
  BY DEF SentDataRefused, SentDataDuplicate
<1>2. /\ status[s] = "none"
      /\ UNCHANGED <<isStop, wpc, opc, list, waiters, pos, resent, reported, waited, due>>
  BY DEF SentDataRefused, SentDataDuplicate, control
<1>3. /\ status' \in [Send -> Status] /\ status'[s] = r
      /\ \A u \in Send : u # s => status'[u] = status[u]
  BY <1>1 DEF TypeOK, Status
<1>4. TypeOK'
  BY <1>2, <1>3 DEF TypeOK
<1>5. UniqueKeys' /\ DueAhead'
  BY <1>2 DEF UniqueKeys, DueAhead
<1>6. NotRecorded'
  BY <1>2, <1>3 DEF NotRecorded
<1>7. Fates'
  <2>1. \A u : Listed(u)' <=> Listed(u)
    BY <1>2 DEF Listed
  <2> SUFFICES ASSUME NEW u \in Send
               PROVE  /\ status'[u] = "pending" <=> Listed(u)'
                      /\ \A i \in DOMAIN list' : list'[i].send = u => list'[i].tried = resent'[u]
                      /\ status'[u] = "timeout" => resent'[u] = TryingCount /\ reported'[u] = 1
                      /\ status'[u] # "timeout" => resent'[u] < TryingCount /\ reported'[u] = 0
    BY DEF Fates
  <2>2. CASE u = s
    BY <1>1, <1>2, <1>3, <2>1, <2>2 DEF Fates
  <2>3. CASE u # s
    BY <1>2, <1>3, <2>1, <2>3 DEF Fates
  <2> QED BY <2>2, <2>3
<1> QED BY <1>4, <1>5, <1>6, <1>7

(* A walk begins at the first record, so all that is due lies ahead.       *)
LEMMA WalkBeginStep ==
    ASSUME IndInv, WalkBegin
    PROVE  IndInv'
<1> USE DEF IndInv
<1>1. /\ wpc' = "walk" /\ pos' = 1 /\ due' = Overdue
      /\ UNCHANGED <<isStop, list, waiters, opc, status, resent, reported, waited>>
  BY DEF WalkBegin
<1>2. /\ list \in Seq(Entry) /\ Len(list) \in Nat /\ DOMAIN list = 1..Len(list)
      /\ \A i \in DOMAIN list : list[i].send \in Send
  BY ListFacts DEF TypeOK
<1>3. \A u \in Overdue :
        \E i \in DOMAIN list : i >= 1 /\ list[i].send = u /\ CACheckTimeout(list[i])
  BY <1>2 DEF Overdue
<1>4. due' \subseteq Send
  BY <1>1, <1>2, <1>3 DEF TypeOK
<1>5. TypeOK'
  <2>1. pos' \in Nat \ {0} /\ pos' <= Len(list') + 1
    BY <1>1, <1>2
  <2> QED BY <1>1, <1>4, <2>1 DEF TypeOK, WorkerPC
<1>6. DueAhead'
  BY <1>1, <1>3 DEF DueAhead
<1>7. UniqueKeys' /\ NotRecorded' /\ Fates'
  BY <1>1 DEF UniqueKeys, NotRecorded, Fates, Listed
<1> QED BY <1>5, <1>6, <1>7

LEMMA WalkKeepStep ==
    ASSUME IndInv, WalkKeep
    PROVE  IndInv'
<1> USE DEF IndInv
<1>1. /\ wpc = "walk" /\ pos' = pos + 1 /\ pos \in Nat \ {0} /\ pos <= Len(list)
      /\ list \in Seq(Entry) /\ Len(list) \in Nat /\ DOMAIN list = 1..Len(list)
      /\ UNCHANGED <<isStop, wpc, opc, list, waiters, status, resent, reported, waited, due>>
  BY ListFacts DEF WalkKeep, AtEntry, control, history, TypeOK
<1>2. ~CACheckTimeout(list[pos])
  BY DEF WalkKeep
<1>3. TypeOK'
  BY <1>1 DEF TypeOK
<1>4. DueAhead'
  <2> SUFFICES ASSUME NEW u \in due
               PROVE  \E i \in DOMAIN list :
                         i >= pos + 1 /\ list[i].send = u /\ CACheckTimeout(list[i])
    BY <1>1 DEF DueAhead
  <2>1. PICK i \in DOMAIN list : i >= pos /\ list[i].send = u /\ CACheckTimeout(list[i])
    BY <1>1 DEF DueAhead
  <2>2. i >= pos + 1
    BY <1>1, <1>2, <2>1
  <2> QED BY <2>1, <2>2
<1>5. UniqueKeys' /\ NotRecorded' /\ Fates'
  BY <1>1 DEF UniqueKeys, NotRecorded, Fates, Listed
<1> QED BY <1>3, <1>4, <1>5

LEMMA DestroyStep ==
    ASSUME IndInv, Destroy, wpc # "walk"
    PROVE  IndInv'
<1> USE DEF IndInv
<1>1. /\ list' = <<>> /\ opc' = "freed"
      /\ status' = [s \in Send |-> IF Listed(s) THEN "dropped" ELSE status[s]]
      /\ UNCHANGED <<isStop, waiters, wpc, pos, resent, reported, waited, due>>
  BY DEF Destroy
<1>2. list' \in Seq(Entry) /\ DOMAIN list' = {}
  BY <1>1
<1>3. status' \in [Send -> Status]
  BY <1>1 DEF TypeOK, Status
<1>4. TypeOK'
  BY <1>1, <1>2, <1>3 DEF TypeOK, OwnerPC
<1>5. UniqueKeys' /\ DueAhead'
  BY <1>1, <1>2 DEF UniqueKeys, DueAhead
<1>6. NotRecorded'
  BY <1>1 DEF NotRecorded
<1>7. Fates'
  <2>1. \A u : ~Listed(u)'
    BY <1>2 DEF Listed
  <2>2. ASSUME NEW u \in Send
        PROVE  /\ status'[u] # "pending"
               /\ status'[u] = "timeout" <=> status[u] = "timeout"
    BY <1>1 DEF Fates
  <2> QED BY <1>1, <1>2, <2>1, <2>2 DEF Fates
<1> QED BY <1>4, <1>5, <1>6, <1>7

(* All other steps only move a thread or change who waits.                 *)
LEMMA ControlStep ==
    ASSUME IndInv, UNCHANGED <<list, pos, history>>,
           isStop' \in BOOLEAN, wpc' \in WorkerPC, opc' \in OwnerPC,
           waiters' \subseteq {"worker", "owner"}, wpc' = "walk" => wpc = "walk"
    PROVE  IndInv'
<1> USE DEF IndInv, history
<1>1. TypeOK'
  BY DEF TypeOK
<1>2. UniqueKeys' /\ DueAhead' /\ NotRecorded'
  BY DEF UniqueKeys, DueAhead, NotRecorded
<1>3. Fates'
  BY DEF Fates, Listed
<1> QED BY <1>1, <1>2, <1>3

(* The teardown frees nothing while the retransmission thread is alive.    *)
LEMMA JoinedStep ==
    TypeOK /\ NoUseAfterFree /\ [Next]_vars => NoUseAfterFree'
<1> SUFFICES ASSUME TypeOK, NoUseAfterFree, [Next]_vars PROVE NoUseAfterFree'
  OBVIOUS
<1> USE DEF NoUseAfterFree, control
<1>1. CASE Worker
  BY <1>1 DEF Worker, WorkerLoop, WorkerLock, WorkerWoken, PeriodElapsed, WorkerCheck, WalkBegin, AtEntry,
              WalkKeep, WalkResend, WalkGiveUp, WalkEnd, WorkerExit
<1>2. CASE Owner
  BY <1>2 DEF Owner, Start, StartFails, Stop, StopReturn, ThreadPoolFree, JoinReady, Destroy
<1>3. CASE UNCHANGED <<wpc, opc>>
  BY <1>3
<1> QED
  BY <1>1, <1>2, <1>3
  DEF Next, Tick, SentDataRefused, SentDataDuplicate, SentData, ReceivedData, SpuriousWake,
      Terminated, vars

LEMMA NextIndInv ==
    IndInv /\ NoUseAfterFree /\ [Next]_vars => IndInv'
<1> SUFFICES ASSUME IndInv, NoUseAfterFree, [Next]_vars PROVE IndInv'
  OBVIOUS
<1>1. CASE Tick
  BY <1>1, TickStep
<1>2. ASSUME NEW s \in Send, SentDataRefused(s) \/ SentDataDuplicate(s) \/ SentData(s)
      PROVE  IndInv'
  BY <1>2, SentDataRefusedStep, SentDataStep
<1>3. ASSUME NEW k, ReceivedData(k) PROVE IndInv'
  BY <1>3, ReceivedDataStep
<1>4. CASE WalkBegin
  BY <1>4, WalkBeginStep
<1>5. CASE WalkKeep
  BY <1>5, WalkKeepStep
<1>6. CASE WalkResend
  BY <1>6, WalkResendStep
<1>7. CASE WalkGiveUp
  BY <1>7, WalkGiveUpStep
<1>8. CASE Destroy
  <2>1. wpc # "walk"
    BY <1>8 DEF Destroy, NoUseAfterFree
  <2> QED BY <1>8, <2>1, DestroyStep
<1>9. CASE \/ WorkerLoop \/ WorkerLock \/ WorkerWoken \/ PeriodElapsed \/ WorkerCheck \/ WalkEnd
           \/ WorkerExit \/ (\E t \in {"worker", "owner"} : SpuriousWake(t))
  <2>1. UNCHANGED <<isStop, opc, list, pos, history>> /\ (wpc' = "walk" => wpc = "walk")
    BY <1>9 DEF WorkerLoop, WorkerLock, WorkerWoken, PeriodElapsed, WorkerCheck, WalkEnd, WorkerExit,
                SpuriousWake, control
  <2>2. wpc' \in WorkerPC /\ waiters' \subseteq {"worker", "owner"}
    BY <1>9, SignalledSubset
    DEF WorkerLoop, WorkerLock, WorkerWoken, PeriodElapsed, WorkerCheck, WalkEnd, WorkerExit,
        SpuriousWake, control, IndInv, TypeOK, WorkerPC
  <2> QED BY <2>1, <2>2, ControlStep DEF IndInv, TypeOK
<1>10. CASE Start \/ StartFails \/ Stop \/ StopReturn \/ ThreadPoolFree
  <2>1. UNCHANGED <<list, pos, history>> /\ (wpc' = "walk" => wpc = "walk")
    BY <1>10 DEF Start, StartFails, Stop, StopReturn, ThreadPoolFree
  <2>2. wpc' \in WorkerPC /\ opc' \in OwnerPC /\ waiters' \subseteq {"worker", "owner"}
    BY <1>10, SignalledSubset
    DEF Start, StartFails, Stop, StopReturn, ThreadPoolFree, IndInv, TypeOK, WorkerPC, OwnerPC
  <2>3. isStop' \in BOOLEAN
    BY <1>10 DEF Start, StartFails, Stop, StopReturn, ThreadPoolFree, IndInv, TypeOK
  <2> QED BY <2>1, <2>2, <2>3, ControlStep
<1>11. CASE UNCHANGED vars
  BY <1>11, ControlStep DEF vars, history, IndInv, TypeOK
<1> QED
  BY <1>1, <1>2, <1>3, <1>4, <1>5, <1>6, <1>7, <1>8, <1>9, <1>10, <1>11
  DEF Next, Worker, Owner, Terminated

LEMMA Invariance == Spec => [](IndInv /\ NoUseAfterFree)
<1>1. Init => NoUseAfterFree
  BY DEF Init, NoUseAfterFree
<1>2. IndInv => TypeOK
  BY DEF IndInv
<1> QED BY <1>1, <1>2, InitIndInv, NextIndInv, JoinedStep, PTL DEF Spec

-----------------------------------------------------------------------------
(* The type invariant: records stay below the trying count, and the walk   *)
(* of CACheckRetransmissionList never reads past the end of the list.      *)
THEOREM TypeCorrect == Spec => []TypeOK
<1>1. IndInv => TypeOK
  BY DEF IndInv
<1> QED BY <1>1, Invariance, PTL

(* At most one record per message id and adapter.                          *)
THEOREM KeysUnique == Spec => []UniqueKeys
<1>1. IndInv => UniqueKeys
  BY DEF IndInv
<1> QED BY <1>1, Invariance, PTL

(* Every message has one fate: retransmission stops at the answer, and a   *)
(* timeout is reported once, after exactly TryingCount retransmissions.    *)
THEOREM FatesCorrect == Spec => []Fates
<1>1. IndInv => Fates
  BY DEF IndInv
<1> QED BY <1>1, Invariance, PTL

(* A walk handles every record that was overdue when it began, although it *)
(* removes records from the list it walks through.                         *)
THEOREM WalkComplete == Spec => []NoRecordSkipped
<1>1. IndInv => NoRecordSkipped
  <2> SUFFICES ASSUME IndInv, wpc = "walk", pos > Len(list), NEW s \in due PROVE FALSE
    BY DEF NoRecordSkipped
  <2>1. PICK i \in DOMAIN list : i >= pos
    BY DEF IndInv, DueAhead
  <2>2. DOMAIN list = 1..Len(list) /\ Len(list) \in Nat /\ pos \in Nat
    BY ListFacts DEF IndInv, TypeOK
  <2> QED BY <2>1, <2>2
<1> QED BY <1>1, Invariance, PTL

(* The join, not CARetransmissionStop, is what makes Destroy safe.         *)
THEOREM TeardownSafe == Spec => []NoUseAfterFree
BY Invariance, PTL

(* A decided message is neither sent nor reported again.                   *)
THEOREM FatesFinal == Spec => FateIsFinal
<1> DEFINE Final == \A s \in Send : status[s] \in {"acked", "timeout", "dropped"} =>
                      /\ status'[s] = status[s]
                      /\ resent'[s] = resent[s]
                      /\ reported'[s] = reported[s]
<1>1. IndInv /\ [Next]_vars => Final
  <2> SUFFICES ASSUME IndInv, [Next]_vars, NEW u \in Send,
                      status[u] \in {"acked", "timeout", "dropped"}
               PROVE  /\ status'[u] = status[u]
                      /\ resent'[u] = resent[u]
                      /\ reported'[u] = reported[u]
    OBVIOUS
  <2>1. ~Listed(u)
    BY DEF IndInv, Fates
  <2>2. /\ status \in [Send -> Status] /\ resent \in [Send -> Nat]
        /\ reported \in [Send -> Nat] /\ list \in Seq(Entry)
        /\ DOMAIN list = 1..Len(list) /\ pos \in Nat \ {0} /\ Len(list) \in Nat
    BY ListFacts DEF IndInv, TypeOK
  <2>3. ASSUME NEW s \in Send, SentDataRefused(s) \/ SentDataDuplicate(s) \/ SentData(s)
        PROVE  status'[u] = status[u] /\ resent' = resent /\ reported' = reported
    <3>1. s # u
      BY <2>3 DEF SentDataRefused, SentDataDuplicate, SentData
    <3> QED BY <2>2, <2>3, <3>1 DEF SentDataRefused, SentDataDuplicate, SentData
  <2>4. ASSUME NEW k, ReceivedData(k)
        PROVE  status'[u] = status[u] /\ resent' = resent /\ reported' = reported
    BY <2>1, <2>2, <2>4 DEF ReceivedData, Listed
  <2>5. CASE WalkResend \/ WalkGiveUp
    <3>1. pos \in DOMAIN list
      BY <2>2, <2>5 DEF WalkResend, WalkGiveUp, AtEntry
    <3>2. list[pos].send # u
      BY <2>1, <3>1 DEF Listed
    <3> QED BY <2>2, <2>5, <3>2 DEF WalkResend, WalkGiveUp
  <2>6. CASE Destroy
    BY <2>1, <2>6 DEF Destroy
  <2>7. CASE UNCHANGED <<status, resent, reported>>
    BY <2>7
  <2>8. CASE \/ Tick \/ WorkerLoop \/ WorkerLock \/ WorkerWoken \/ PeriodElapsed \/ WorkerCheck \/ WalkBegin
             \/ WalkKeep \/ WalkEnd \/ WorkerExit
             \/ (\E t \in {"worker", "owner"} : SpuriousWake(t))
    BY <2>7, <2>8 DEF Tick, WorkerLoop, WorkerLock, WorkerWoken, PeriodElapsed, WorkerCheck, WalkBegin,
                      WalkKeep, WalkEnd, WorkerExit, SpuriousWake, history
  <2>9. CASE Start \/ StartFails \/ Stop \/ StopReturn \/ ThreadPoolFree \/ UNCHANGED vars
    BY <2>7, <2>9 DEF Start, StartFails, Stop, StopReturn, ThreadPoolFree, history, vars
  <2> QED
    BY <2>3, <2>4, <2>5, <2>6, <2>8, <2>9 DEF Next, Worker, Owner, Terminated
<1>2. IndInv /\ [Next]_vars => [Final]_vars
  BY <1>1
<1> QED BY <1>2, Invariance, PTL DEF Spec, FateIsFinal
-----------------------------------------------------------------------------
(* The backoff.  The law of powers that is needed comes from the number of *)
(* subsets of an interval.                                                 *)
LEMMA PowerOfTwo ==
    ASSUME NEW n \in Nat
    PROVE  2^n \in Nat /\ 2^(n + 1) = 2^n + 2^n
<1> DEFINE S == SUBSET (1..n)
           T == {A \cup {n + 1} : A \in S}
           f == [A \in S |-> A \cup {n + 1}]
<1>1. /\ IsFiniteSet(1..n) /\ Cardinality(1..n) = n
      /\ IsFiniteSet(1..(n + 1)) /\ Cardinality(1..(n + 1)) = n + 1
  <2>1. IsFiniteSet(1..n) /\ Cardinality(1..n) = IF 1 > n THEN 0 ELSE n - 1 + 1
    BY FS_Interval
  <2>2. /\ IsFiniteSet(1..(n + 1))
        /\ Cardinality(1..(n + 1)) = IF 1 > n + 1 THEN 0 ELSE (n + 1) - 1 + 1
    BY FS_Interval
  <2> QED BY <2>1, <2>2
<1>2. IsFiniteSet(S) /\ Cardinality(S) = 2^n /\ Cardinality(S) \in Nat
  BY <1>1, FS_SUBSET, FS_CardinalityType
<1>3. Cardinality(SUBSET (1..(n + 1))) = 2^(n + 1)
  BY <1>1, FS_SUBSET
<1>4. \A A \in S : n + 1 \notin A
  OBVIOUS
<1>5. f \in Bijection(S, T)
  <2>1. f \in [S -> T]
    OBVIOUS
  <2>2. \A A, B \in S : f[A] = f[B] => A = B
    <3> SUFFICES ASSUME NEW A \in S, NEW B \in S, A \cup {n + 1} = B \cup {n + 1} PROVE A = B
      OBVIOUS
    <3> QED BY <1>4
  <2>3. \A C \in T : \E A \in S : f[A] = C
    OBVIOUS
  <2> QED BY <2>1, <2>2, <2>3 DEF Bijection, Injection, Surjection, IsInjective
<1>6. IsFiniteSet(T) /\ Cardinality(T) = 2^n
  BY <1>2, <1>5, FS_Bijection DEF ExistsBijection
<1>7. SUBSET (1..(n + 1)) = S \cup T
  <2>1. ASSUME NEW C \in SUBSET (1..(n + 1)) PROVE C \in S \cup T
    <3>1. CASE n + 1 \in C
      <4>1. C \ {n + 1} \in S /\ C = (C \ {n + 1}) \cup {n + 1}
        BY <3>1
      <4> QED BY <4>1
    <3>2. CASE n + 1 \notin C
      BY <3>2
    <3> QED BY <3>1, <3>2
  <2>2. \A A \in S : A \in SUBSET (1..(n + 1)) /\ A \cup {n + 1} \in SUBSET (1..(n + 1))
    <3>1. 1..n \subseteq 1..(n + 1) /\ n + 1 \in 1..(n + 1)
      OBVIOUS
    <3> QED BY <3>1, Zenon
  <2> DEFINE U == SUBSET (1..(n + 1))
  <2>3. \A C \in S \cup T : C \in U
    <3>1. \A A \in S : A \in U /\ A \cup {n + 1} \in U
      BY <2>2
    <3>2. \A C \in T : \E A \in S : C = A \cup {n + 1}
      OBVIOUS
    <3> HIDE DEF S, T, U
    <3>3. \A C \in T : C \in U
      BY <3>1, <3>2
    <3> QED BY <3>1, <3>3
  <2>4. \A C \in U : C \in S \cup T
    BY <2>1
  <2> HIDE DEF S, T, U
  <2>5. U = S \cup T
    BY <2>3, <2>4
  <2> QED BY <2>5 DEF U
<1>8. S \cap T = {}
  BY <1>4
<1> HIDE DEF S, T
<1>9. Cardinality(S \cup T) = 2^n + 2^n - 0
  BY <1>2, <1>6, <1>8, FS_Union, FS_EmptySet
<1> DEFINE p == 2^n
           q == 2^(n + 1)
<1> HIDE DEF p, q
<1>10. p \in Nat /\ q = p + p - 0
  BY <1>2, <1>3, <1>7, <1>9 DEF p, q
<1> QED BY <1>10 DEF p, q

(* What a message has waited when its clock was started for the n-th time. *)
Waits(t, n) == t * (2^n - 1)

LEMMA WaitsDouble ==
    ASSUME NEW t \in Nat, NEW n \in Nat
    PROVE  /\ Waits(t, n) \in Int /\ t * 2^n \in Nat
           /\ Waits(t, n + 1) = Waits(t, n) + t * 2^n
           /\ Waits(t, 0) = 0
<1> DEFINE p == 2^n
           q == 2^(n + 1)
<1>1. p \in Nat /\ q = p + p
  BY PowerOfTwo
<1>2. Waits(t, n) = t * (p - 1) /\ Waits(t, n + 1) = t * (q - 1) /\ t * 2^n = t * p
  BY DEF Waits
<1>3. Waits(t, 0) = 0
  <2>1. 2^0 = 1
    OBVIOUS
  <2> QED BY <2>1 DEF Waits
<1> HIDE DEF p, q
<1>4. t * (p - 1) \in Int /\ t * p \in Nat /\ t * (q - 1) = t * (p - 1) + t * p
  BY <1>1
<1> QED BY <1>2, <1>3, <1>4

(* A record that was retransmitted has waited for it, and since.           *)
Backoff ==
    \A i \in DOMAIN list :
      \/ waited[list[i].send] = MaxWait
      \/ waited[list[i].send] >= Waits(list[i].timeout, list[i].tried) + list[i].age

LEMMA EntryFacts ==
    ASSUME list \in Seq(Entry), NEW i \in DOMAIN list
    PROVE  /\ list[i].send \in Send /\ list[i].timeout \in Timeouts /\ list[i].timeout \in Nat
           /\ list[i].tried \in Nat /\ list[i].age \in Nat
           /\ Waits(list[i].timeout, list[i].tried) \in Int
<1>1. list[i] \in Entry /\ list[i].send \in Send
  BY ListFacts
<1>2. /\ list[i].timeout \in Timeouts /\ list[i].timeout \in Nat
      /\ list[i].tried \in Nat /\ list[i].age \in Nat
  <2>1. /\ list[i].timeout \in Timeouts /\ list[i].tried \in 0..(TryingCount - 1)
        /\ list[i].age \in 0..MaxAge
    BY <1>1 DEF Entry
  <2>2. \A t \in Timeouts : t \in Nat
    BY TimeoutsAssumption, Zenon
  <2>3. list[i].tried \in Nat
    BY <2>1
  <2>4. list[i].age \in Nat
    BY <2>1
  <2> QED BY <2>1, <2>2, <2>3, <2>4
<1> QED BY <1>1, <1>2, WaitsDouble

LEMMA TickBackoff ==
    ASSUME IndInv, Backoff, Tick
    PROVE  Backoff'
<1>1. /\ list \in Seq(Entry) /\ DOMAIN list' = DOMAIN list /\ waited \in [Send -> 0..MaxWait]
      /\ MaxWait \in Nat
  BY MaxWaitAssumption DEF IndInv, TypeOK, Tick
<1> SUFFICES ASSUME NEW i \in DOMAIN list
             PROVE  \/ waited'[list'[i].send] = MaxWait
                    \/ waited'[list'[i].send] >= Waits(list'[i].timeout, list'[i].tried) + list'[i].age
  BY <1>1 DEF Backoff
<1> DEFINE s == list[i].send
           w == Waits(list[i].timeout, list[i].tried)
<1>2. list[i] \in Entry /\ s \in Send /\ list[i].age \in Nat /\ w \in Int
  BY <1>1, EntryFacts, ListFacts
<1>3. /\ list'[i].send = s /\ list'[i].timeout = list[i].timeout /\ list'[i].tried = list[i].tried
      /\ list'[i].age \in {list[i].age, list[i].age + 1}
  BY <1>1, <1>2 DEF Tick, Entry
<1>4. Listed(s)
  BY DEF Listed
<1>5. waited'[s] = IF waited[s] < MaxWait THEN waited[s] + 1 ELSE waited[s]
  BY <1>2, <1>4 DEF Tick
<1>6. Waits(list'[i].timeout, list'[i].tried) = w
  BY <1>3
<1>7. waited[s] = MaxWait \/ waited[s] >= w + list[i].age
  BY DEF Backoff
<1>8. waited[s] \in 0..MaxWait
  BY <1>1, <1>2
<1> HIDE DEF s, w
<1>9. waited'[s] = MaxWait \/ waited'[s] >= w + list'[i].age
  BY <1>1, <1>2, <1>3, <1>5, <1>7, <1>8
<1> QED BY <1>3, <1>6, <1>9

LEMMA SentDataBackoff ==
    ASSUME IndInv, Backoff, NEW s \in Send, SentData(s)
    PROVE  Backoff'
<1>1. PICK t \in Timeouts :
         list' = Append(list, [send |-> s, age |-> 0, timeout |-> t, tried |-> 0])
  BY DEF SentData
<1> DEFINE e == [send |-> s, age |-> 0, timeout |-> t, tried |-> 0]
<1>2. list \in Seq(Entry) /\ waited' = waited /\ waited[s] \in Nat /\ t \in Nat
  BY TimeoutsAssumption, MaxWaitAssumption DEF IndInv, TypeOK, SentData
<1>3. /\ Len(list) \in Nat /\ DOMAIN list = 1..Len(list) /\ DOMAIN list' = 1..(Len(list) + 1)
      /\ \A i \in DOMAIN list : list'[i] = list[i]
      /\ list'[Len(list) + 1] = e
  BY <1>1, <1>2
<1>4. waited'[e.send] >= Waits(e.timeout, e.tried) + e.age
  <2>1. Waits(t, 0) = 0
    BY <1>2, WaitsDouble
  <2> QED BY <1>2, <2>1
<1> HIDE DEF e
<1> SUFFICES ASSUME NEW i \in DOMAIN list'
             PROVE  \/ waited'[list'[i].send] = MaxWait
                    \/ waited'[list'[i].send] >= Waits(list'[i].timeout, list'[i].tried) + list'[i].age
  BY DEF Backoff
<1>5. CASE i \in DOMAIN list
  BY <1>2, <1>3, <1>5 DEF Backoff
<1>6. CASE i = Len(list) + 1
  BY <1>3, <1>4, <1>6
<1> QED BY <1>3, <1>5, <1>6

(* What a removal leaves in the list has waited as long as before.         *)
LEMMA RemovalBackoff ==
    ASSUME IndInv, Backoff, waited' = waited,
           NEW i \in DOMAIN list, list' = RemoveAt(list, i)
    PROVE  Backoff'
<1>1. \A k \in DOMAIN list' : \E j \in DOMAIN list : list'[k] = list[j]
  BY RemovalStep DEF IndInv, TypeOK
<1> QED BY <1>1 DEF Backoff

LEMMA WalkResendBackoff ==
    ASSUME IndInv, Backoff, WalkResend
    PROVE  Backoff'
<1> DEFINE e == [list[pos] EXCEPT !.age = 0, !.tried = list[pos].tried + 1]
           t == list[pos].timeout
           n == list[pos].tried
           s == list[pos].send
<1>1. list \in Seq(Entry) /\ pos \in DOMAIN list /\ waited \in [Send -> 0..MaxWait] /\ waited' = waited
  <2>1. list \in Seq(Entry) /\ pos \in Nat \ {0} /\ pos <= Len(list)
    BY DEF IndInv, TypeOK, WalkResend, AtEntry
  <2>2. pos \in DOMAIN list
    BY <2>1
  <2> QED BY <2>1, <2>2 DEF IndInv, TypeOK, WalkResend
<1>2. list[pos] \in Entry /\ t \in Nat /\ n \in Nat /\ list[pos].age \in Nat /\ s \in Send
  BY <1>1, ListFacts, EntryFacts
<1>3. list' = [list EXCEPT ![pos] = e]
  BY <1>1 DEF WalkResend
<1>4. e.send = s /\ e.timeout = t /\ e.tried = n + 1 /\ e.age = 0
  BY <1>2 DEF Entry
<1>5. list[pos].age >= t * 2^n
  BY DEF WalkResend, CACheckTimeout
<1>6. waited[s] = MaxWait \/ waited[s] >= Waits(t, n) + list[pos].age
  BY <1>1 DEF Backoff
<1>7. Waits(t, n) \in Int /\ t * 2^n \in Nat /\ Waits(t, n + 1) = Waits(t, n) + t * 2^n
  BY <1>2, WaitsDouble
<1>8. waited[s] \in Nat
  BY <1>1, <1>2, MaxWaitAssumption
<1>9. /\ DOMAIN list' = DOMAIN list /\ list'[pos] = e
      /\ \A i \in DOMAIN list : i # pos => list'[i] = list[i]
  BY <1>1, <1>3
<1> DEFINE w == Waits(t, n)
           v == Waits(t, n + 1)
           x == t * 2^n
           a == list[pos].age
<1> HIDE DEF e, t, n, s, w, v, x, a
<1>10. waited[s] = MaxWait \/ waited[s] >= v + 0
  <2>1. a >= x /\ w \in Int /\ x \in Nat /\ v = w + x /\ a \in Nat
    BY <1>2, <1>5, <1>7 DEF w, v, x, a
  <2>2. waited[s] = MaxWait \/ waited[s] >= w + a
    BY <1>6 DEF w, a
  <2> QED BY <1>8, <2>1, <2>2
<1> SUFFICES ASSUME NEW i \in DOMAIN list
             PROVE  \/ waited'[list'[i].send] = MaxWait
                    \/ waited'[list'[i].send] >= Waits(list'[i].timeout, list'[i].tried) + list'[i].age
  BY <1>9 DEF Backoff
<1>11. CASE i = pos
  BY <1>1, <1>4, <1>9, <1>10, <1>11 DEF v
<1>12. CASE i # pos
  BY <1>1, <1>9, <1>12 DEF Backoff
<1> QED BY <1>11, <1>12

(* The record that is given up has waited for all its retransmissions.     *)
LEMMA GivenUp ==
    ASSUME IndInv, Backoff, WalkGiveUp
    PROVE  LET e == list[pos]
           IN  /\ pos \in DOMAIN list /\ e.send \in Send /\ e.timeout \in Timeouts
               /\ waited[e.send] = MaxWait \/ waited[e.send] >= Waits(e.timeout, TryingCount)
<1> DEFINE t == list[pos].timeout
           n == list[pos].tried
           s == list[pos].send
           w == Waits(t, n)
           x == t * 2^n
           a == list[pos].age
<1>1. list \in Seq(Entry) /\ pos \in DOMAIN list /\ waited \in [Send -> 0..MaxWait]
  <2>1. list \in Seq(Entry) /\ pos \in Nat \ {0} /\ pos <= Len(list)
    BY DEF IndInv, TypeOK, WalkGiveUp, AtEntry
  <2>2. pos \in DOMAIN list
    BY <2>1
  <2> QED BY <2>1, <2>2 DEF IndInv, TypeOK
<1>2. /\ list[pos] \in Entry /\ t \in Nat /\ t \in Timeouts /\ n \in Nat /\ a \in Nat /\ s \in Send
      /\ n \in 0..(TryingCount - 1)
  BY <1>1, ListFacts, EntryFacts
<1>3. n + 1 = TryingCount
  BY <1>2, TryingCountAssumption DEF WalkGiveUp, LastTry
<1>4. a >= x
  BY DEF WalkGiveUp, CACheckTimeout
<1>5. waited[s] = MaxWait \/ waited[s] >= w + a
  BY <1>1 DEF Backoff
<1>6. w \in Int /\ x \in Nat /\ Waits(t, TryingCount) = w + x
  BY <1>2, <1>3, WaitsDouble
<1>7. waited[s] \in Nat
  BY <1>1, <1>2, MaxWaitAssumption
<1> HIDE DEF t, n, s, w, x, a
<1>8. waited[s] = MaxWait \/ waited[s] >= Waits(t, TryingCount)
  BY <1>2, <1>4, <1>5, <1>6, <1>7
<1> QED BY <1>1, <1>2, <1>8 DEF s, t

LEMMA NextBackoff ==
    IndInv /\ Backoff /\ [Next]_vars => Backoff'
<1> SUFFICES ASSUME IndInv, Backoff, [Next]_vars PROVE Backoff'
  OBVIOUS
<1>1. CASE Tick
  BY <1>1, TickBackoff
<1>2. ASSUME NEW s \in Send, SentData(s) PROVE Backoff'
  BY <1>2, SentDataBackoff
<1>3. ASSUME NEW k, ReceivedData(k) PROVE Backoff'
  BY <1>3, RemovalBackoff DEF ReceivedData
<1>4. CASE WalkResend
  BY <1>4, WalkResendBackoff
<1>5. CASE WalkGiveUp
  BY <1>5, GivenUp, RemovalBackoff DEF WalkGiveUp
<1>6. CASE Destroy
  <2>1. DOMAIN list' = {}
    BY <1>6 DEF Destroy
  <2> QED BY <2>1 DEF Backoff
<1>7. CASE UNCHANGED <<list, waited>>
  BY <1>7 DEF Backoff
<1> QED
  BY <1>1, <1>2, <1>3, <1>4, <1>5, <1>6, <1>7
  DEF Next, Worker, Owner, Terminated, vars, history, SentDataRefused, SentDataDuplicate, SpuriousWake,
      WorkerLoop, WorkerLock, WorkerWoken, PeriodElapsed, WorkerCheck, WalkBegin, WalkKeep, WalkEnd,
      WorkerExit, Start, StartFails, Stop, StopReturn, ThreadPoolFree

(* With a clock that runs for long enough: a message is reported as timed  *)
(* out only when every one of its TryingCount doubled timeouts has passed, *)
(* whatever was sent, answered and removed from the list in between.       *)
THEOREM BackoffIsFull ==
    ASSUME \A t \in Timeouts : t * (2^TryingCount - 1) <= MaxWait
    PROVE  Spec => []FullBackoff
<1>1. Init => Backoff /\ FullBackoff
  <2> SUFFICES ASSUME Init PROVE Backoff /\ FullBackoff
    OBVIOUS
  <2>1. DOMAIN list = {} /\ \A s \in Send : status[s] = "none"
    BY DEF Init
  <2> QED BY <2>1 DEF Backoff, FullBackoff
<1>2. IndInv /\ Backoff /\ FullBackoff /\ [Next]_vars => FullBackoff'
  <2> SUFFICES ASSUME IndInv, Backoff, FullBackoff, [Next]_vars, NEW u \in Send, status'[u] = "timeout"
               PROVE  \E t \in Timeouts : waited'[u] >= t * (2^TryingCount - 1)
    BY DEF FullBackoff
  <2>1. /\ status \in [Send -> Status] /\ waited \in [Send -> 0..MaxWait] /\ MaxWait \in Nat
        /\ list \in Seq(Entry)
    BY MaxWaitAssumption DEF IndInv, TypeOK
  <2>2. \A t \in Timeouts : Waits(t, TryingCount) = t * (2^TryingCount - 1) /\ Waits(t, TryingCount) \in Int
    BY TimeoutsAssumption, TryingCountAssumption, WaitsDouble DEF Waits
  <2>3. CASE status[u] = "timeout"
    <3>1. PICK t \in Timeouts : waited[u] >= Waits(t, TryingCount)
      BY <2>2, <2>3 DEF FullBackoff
    <3>2. waited'[u] \in {waited[u], waited[u] + 1}
      <4>1. CASE Tick
        BY <2>1, <4>1 DEF Tick
      <4>2. CASE waited' = waited
        BY <4>2
      <4> QED
        BY <4>1, <4>2
        DEF Next, Worker, Owner, Terminated, vars, history, SentDataRefused, SentDataDuplicate, SentData,
            ReceivedData, SpuriousWake, WorkerLoop, WorkerLock, WorkerWoken, PeriodElapsed, WorkerCheck,
            WalkBegin, WalkKeep, WalkResend, WalkGiveUp, WalkEnd, WorkerExit, Start, StartFails, Stop,
            StopReturn, ThreadPoolFree, Destroy
    <3>3. waited[u] \in Nat
      BY <2>1
    <3>4. waited'[u] >= Waits(t, TryingCount)
      BY <2>2, <3>1, <3>2, <3>3
    <3> QED BY <2>2, <3>4
  <2>4. CASE status[u] # "timeout"
    <3>1. WalkGiveUp /\ list[pos].send = u
      <4>1. CASE WalkGiveUp
        <5>1. list[pos].send \in Send
          BY <4>1, GivenUp
        <5> QED BY <2>1, <2>4, <4>1, <5>1 DEF WalkGiveUp
      <4>2. ASSUME NEW s \in Send, SentDataRefused(s) \/ SentDataDuplicate(s) \/ SentData(s) PROVE FALSE
        BY <2>1, <2>4, <4>2 DEF SentDataRefused, SentDataDuplicate, SentData
      <4>3. ASSUME NEW k, ReceivedData(k) PROVE FALSE
        BY <2>1, <2>4, <4>3 DEF ReceivedData
      <4>4. CASE Destroy
        BY <2>4, <4>4 DEF Destroy
      <4>5. CASE UNCHANGED status
        BY <2>4, <4>5
      <4> QED
        BY <4>1, <4>2, <4>3, <4>4, <4>5
        DEF Next, Worker, Owner, Terminated, vars, history, Tick, SpuriousWake, WorkerLoop, WorkerLock,
            WorkerWoken, PeriodElapsed, WorkerCheck, WalkBegin, WalkKeep, WalkResend, WalkEnd, WorkerExit,
            Start, StartFails, Stop, StopReturn, ThreadPoolFree
    <3> DEFINE t == list[pos].timeout
    <3>2. t \in Timeouts /\ (waited[u] = MaxWait \/ waited[u] >= Waits(t, TryingCount))
      BY <3>1, GivenUp
    <3>3. waited' = waited
      BY <3>1 DEF WalkGiveUp
    <3> HIDE DEF t
    <3>4. waited'[u] >= Waits(t, TryingCount)
      BY <2>1, <2>2, <3>2, <3>3
    <3> QED BY <2>2, <3>2, <3>4
  <2> QED BY <2>3, <2>4
<1> QED BY <1>1, <1>2, NextBackoff, Invariance, PTL DEF Spec
=============================================================================
