----------------------- MODULE CAQueueingThread_proof -----------------------
(***************************************************************************)
(* Proofs about CAQueueingThread, for every set of messages and every      *)
(* number of starts.                                                       *)
(*                                                                         *)
(* ExactlyOnce is not inductive: that the head of the queue has not been   *)
(* handed out before follows from the order in which messages travel       *)
(* (FIFO) and from no message being added twice.  IndInv adds these, and   *)
(* accounts for every message that was dequeued: held or destroyed once.   *)
(***************************************************************************)
EXTENDS CAQueueingThread, TLAPS

Taken(m) == \E i \in DOMAIN taken : taken[i] = m

(* The worker that Start is about to create has not run yet.               *)
FreshWorkers ==
    /\ \A w \in Workers : w > starts => pc[w] = "none"
    /\ pc[Owner] = "addtask" => starts \in Workers /\ pc[starts] = "none"

AddedOnce == \A i, j \in DOMAIN added : added[i] = added[j] => i = j

OneHolder == \A v, w \in Workers : cur[v] = cur[w] /\ cur[v] # NoMsg => v = w

Accounted ==
    \A m \in Msg :
        /\ Held(m) => Taken(m)
        /\ destroyed[m] = IF Taken(m) /\ ~Held(m) THEN 1 ELSE 0

IndInv ==
    TypeOK /\ FreshWorkers /\ AddedOnce /\ FIFO /\ OneHolder /\ Accounted

-----------------------------------------------------------------------------
LEMMA ThreadFacts ==
    /\ Owner \in Threads /\ Owner \notin Workers
    /\ Workers \subseteq Threads
    /\ \A t \in Threads : t # Owner => t \in Workers
BY MaxStartsAssumption DEF Threads, Workers, Owner

LEMMA SignalledSubset ==
    ASSUME NEW W, NEW V \in Signalled(W)
    PROVE  V \subseteq W
BY DEF Signalled

(* Appending at the end of a concatenation.                                *)
LEMMA ConcatAppend ==
    ASSUME NEW s \in Seq(Msg), NEW t \in Seq(Msg), NEW e \in Msg
    PROVE  Append(s \o t, e) = s \o Append(t, e)
OBVIOUS

(* Moving the head of the second part to the end of the first.             *)
LEMMA ConcatMove ==
    ASSUME NEW s \in Seq(Msg), NEW t \in Seq(Msg), t # <<>>
    PROVE  /\ Head(t) \in Msg
           /\ Tail(t) \in Seq(Msg)
           /\ Append(s, Head(t)) \in Seq(Msg)
           /\ Append(s, Head(t)) \o Tail(t) = s \o t
<1>1. Head(t) \in Msg /\ Tail(t) \in Seq(Msg) /\ Append(s, Head(t)) \in Seq(Msg)
  OBVIOUS
<1>2. Len(Append(s, Head(t)) \o Tail(t)) = Len(s \o t)
  OBVIOUS
<1>3. \A i \in 1..Len(s \o t) : (Append(s, Head(t)) \o Tail(t))[i] = (s \o t)[i]
  OBVIOUS
<1> QED BY <1>1, <1>2, <1>3

(* The elements of a sequence after Append.                                *)
LEMMA AppendElements ==
    ASSUME NEW s \in Seq(Msg), NEW e \in Msg
    PROVE  \A x : (\E i \in DOMAIN Append(s, e) : Append(s, e)[i] = x)
                  <=> (\E i \in DOMAIN s : s[i] = x) \/ x = e
<1>1. /\ DOMAIN Append(s, e) = 1..(Len(s) + 1)
      /\ DOMAIN s = 1..Len(s)
      /\ Len(s) \in Nat
      /\ \A i \in 1..Len(s) : Append(s, e)[i] = s[i]
      /\ Append(s, e)[Len(s) + 1] = e
  OBVIOUS
<1> QED BY <1>1

(* The elements of a concatenation.                                        *)
LEMMA ConcatElements ==
    ASSUME NEW s \in Seq(Msg), NEW t \in Seq(Msg)
    PROVE  \A x : (\E i \in DOMAIN (s \o t) : (s \o t)[i] = x)
                  <=> (\E i \in DOMAIN s : s[i] = x) \/ (\E i \in DOMAIN t : t[i] = x)
<1>1. /\ DOMAIN (s \o t) = 1..(Len(s) + Len(t))
      /\ DOMAIN s = 1..Len(s) /\ DOMAIN t = 1..Len(t)
      /\ Len(s) \in Nat /\ Len(t) \in Nat
      /\ \A i \in 1..Len(s) : (s \o t)[i] = s[i]
      /\ \A i \in 1..Len(t) : (s \o t)[Len(s) + i] = t[i]
      /\ \A i \in 1..(Len(s) + Len(t)) : i > Len(s) => (s \o t)[i] = t[i - Len(s)]
  OBVIOUS
<1>2. SUFFICES ASSUME NEW x
               PROVE  (\E i \in DOMAIN (s \o t) : (s \o t)[i] = x)
                      <=> (\E i \in DOMAIN s : s[i] = x) \/ (\E i \in DOMAIN t : t[i] = x)
  OBVIOUS
<1>3. ASSUME NEW i \in DOMAIN (s \o t), (s \o t)[i] = x
      PROVE  (\E k \in DOMAIN s : s[k] = x) \/ (\E k \in DOMAIN t : t[k] = x)
  <2>1. CASE i \in 1..Len(s)
    BY <1>1, <1>3, <2>1
  <2>2. CASE i \notin 1..Len(s)
    <3>1. i - Len(s) \in 1..Len(t) /\ i > Len(s)
      BY <1>1, <2>2
    <3> QED BY <1>1, <1>3, <3>1
  <2> QED BY <2>1, <2>2
<1>4. ASSUME NEW i \in DOMAIN s, s[i] = x
      PROVE  \E k \in DOMAIN (s \o t) : (s \o t)[k] = x
  BY <1>1, <1>4
<1>5. ASSUME NEW i \in DOMAIN t, t[i] = x
      PROVE  \E k \in DOMAIN (s \o t) : (s \o t)[k] = x
  <2>1. Len(s) + i \in 1..(Len(s) + Len(t)) /\ i \in 1..Len(t)
    BY <1>1
  <2> QED BY <1>1, <1>5, <2>1
<1> QED BY <1>3, <1>4, <1>5

-----------------------------------------------------------------------------
LEMMA InitIndInv == Init => IndInv
<1> SUFFICES ASSUME Init PROVE IndInv
  OBVIOUS
<1> USE ThreadFacts, MaxStartsAssumption, NoMsgAssumption DEF Init
<1>1. TypeOK
  BY DEF TypeOK, OwnerPC, WorkerPC
<1>2. FreshWorkers
  BY DEF FreshWorkers
<1>3. AddedOnce /\ OneHolder
  BY DEF AddedOnce, OneHolder
<1>4. FIFO
  BY DEF FIFO
<1>5. Accounted
  <2>1. \A m \in Msg : ~Held(m)
    BY DEF Held
  <2>2. \A m \in Msg : ~Taken(m)
    <3>1. DOMAIN taken = {}
      BY SMT
    <3> QED BY <3>1 DEF Taken
  <2>3. \A m \in Msg : destroyed[m] = 0
    OBVIOUS
  <2> QED BY <2>1, <2>2, <2>3 DEF Accounted
<1> QED BY <1>1, <1>2, <1>3, <1>4, <1>5 DEF IndInv

(* Types, and the freshness of the worker Start creates.                   *)
LEMMA TypeStep == TypeOK /\ FreshWorkers /\ [Next]_vars => TypeOK' /\ FreshWorkers'
<1> SUFFICES ASSUME TypeOK, FreshWorkers, [Next]_vars
             PROVE  TypeOK' /\ FreshWorkers'
  OBVIOUS
<1> USE ThreadFacts, MaxStartsAssumption, NoMsgAssumption
    DEF TypeOK, OwnerPC, WorkerPC, FreshWorkers
<1>1. ASSUME NEW m \in Msg, AddData(m) PROVE TypeOK' /\ FreshWorkers'
  BY <1>1, SignalledSubset DEF AddData
<1>2. ASSUME NEW t \in Threads, SpuriousWake(t) PROVE TypeOK' /\ FreshWorkers'
  BY <1>2 DEF SpuriousWake
<1>3. ASSUME NEW w \in Workers, WorkerLoop(w) PROVE TypeOK' /\ FreshWorkers'
  BY <1>3 DEF WorkerLoop
<1>4. ASSUME NEW w \in Workers, WorkerWait(w) PROVE TypeOK' /\ FreshWorkers'
  BY <1>4 DEF WorkerWait
<1>5. ASSUME NEW w \in Workers, WorkerBack(w) PROVE TypeOK' /\ FreshWorkers'
  BY <1>5 DEF WorkerBack, PastWait
<1>6. ASSUME NEW w \in Workers, WorkerTake(w) PROVE TypeOK' /\ FreshWorkers'
  <2>1. Head(queue) \in Msg /\ Tail(queue) \in Seq(Msg)
    BY <1>6 DEF WorkerTake
  <2> QED BY <1>6, <2>1 DEF WorkerTake, PastWait
<1>7. ASSUME NEW w \in Workers, WorkerTask(w) PROVE TypeOK' /\ FreshWorkers'
  BY <1>7 DEF WorkerTask
<1>8. ASSUME NEW w \in Workers, WorkerExit(w) PROVE TypeOK' /\ FreshWorkers'
  BY <1>8, SignalledSubset DEF WorkerExit
<1>9. CASE Start
  <2>1. starts' \in 0..MaxStarts /\ starts' \in Workers /\ starts' > starts
    BY <1>9 DEF Start, Workers
  <2>2. \A w \in Workers : pc'[w] = pc[w] /\ (w > starts' => w > starts)
    BY <1>9, <2>1 DEF Start, Workers
  <2> QED BY <1>9, <2>1, <2>2 DEF Start
<1>10. CASE AddTask
  <2>1. /\ starts \in Workers /\ starts # Owner /\ pc[starts] = "none"
        /\ pc' = [pc EXCEPT ![Owner] = "idle", ![starts] = "loop"]
    BY <1>10 DEF AddTask
  <2>2. /\ pc'[Owner] = "idle" /\ pc'[starts] = "loop"
        /\ \A w \in Workers : w # starts => pc'[w] = pc[w]
        /\ pc' \in [Threads -> OwnerPC \cup WorkerPC]
    BY <2>1
  <2>3. \A w \in Workers : w > starts => w # starts
    BY DEF Workers
  <2> QED BY <1>10, <2>1, <2>2, <2>3 DEF AddTask
<1>11. CASE AddTaskFails
  BY <1>11 DEF AddTaskFails
<1>12. CASE Stop
  BY <1>12, SignalledSubset DEF Stop
<1>13. CASE StopReturn
  BY <1>13 DEF StopReturn
<1>14. CASE BeginFree
  BY <1>14 DEF BeginFree
<1>15. CASE ThreadPoolFree
  BY <1>15 DEF ThreadPoolFree
<1>16. CASE DestroyOne
  BY <1>16 DEF DestroyOne
<1>17. CASE DestroyEnd
  BY <1>17 DEF DestroyEnd
<1>18. CASE UNCHANGED vars
  BY <1>18 DEF vars
<1> QED
  BY <1>1, <1>2, <1>3, <1>4, <1>5, <1>6, <1>7, <1>8, <1>9, <1>10, <1>11,
     <1>12, <1>13, <1>14, <1>15, <1>16, <1>17, <1>18
  DEF Next, WorkerStep, OwnerStep, Terminated
-----------------------------------------------------------------------------
(* The parts of IndInv that are about messages.                            *)
MsgInv == AddedOnce /\ FIFO /\ OneHolder /\ Accounted

(* The head of the queue has not been dequeued before.                     *)
LEMMA HeadNotTaken ==
    ASSUME TypeOK, AddedOnce, FIFO, queue # <<>>
    PROVE  ~Taken(Head(queue))
<1> USE DEF TypeOK
<1>1. /\ Len(taken) + 1 \in DOMAIN added
      /\ added[Len(taken) + 1] = Head(queue)
  BY DEF FIFO
<1>2. \A i \in DOMAIN taken : i \in DOMAIN added /\ added[i] = taken[i] /\ i # Len(taken) + 1
  BY DEF FIFO
<1> QED BY <1>1, <1>2 DEF AddedOnce, Taken

(* What a message step does to FIFO when the head moves to taken.          *)
LEMMA DequeueFIFO ==
    ASSUME TypeOK, FIFO, queue # <<>>, taken' = Append(taken, Head(queue)),
           queue' = Tail(queue), added' = added
    PROVE  FIFO' /\ Head(queue) \in Msg /\ (\A m : Taken(m)' <=> Taken(m) \/ m = Head(queue))
<1>1. queue \in Seq(Msg) /\ taken \in Seq(Msg)
  BY DEF TypeOK
<1>2. Head(queue) \in Msg /\ Append(taken, Head(queue)) \o Tail(queue) = taken \o queue
  BY <1>1, ConcatMove
<1>3. \A m : Taken(m)' <=> Taken(m) \/ m = Head(queue)
  <2> DEFINE s == Append(taken, Head(queue))
  <2>1. \A x : (\E i \in DOMAIN s : s[i] = x)
               <=> (\E i \in DOMAIN taken : taken[i] = x) \/ x = Head(queue)
    BY <1>1, <1>2, AppendElements
  <2>2. taken' = s
    OBVIOUS
  <2> HIDE DEF s
  <2> QED BY <2>1, <2>2 DEF Taken
<1> QED BY <1>2, <1>3 DEF FIFO

LEMMA AddDataStep ==
    ASSUME TypeOK, MsgInv, NEW m \in Msg, AddData(m)
    PROVE  MsgInv'
<1> USE DEF MsgInv
<1>1. queue \in Seq(Msg) /\ taken \in Seq(Msg) /\ added \in Seq(Msg)
  BY DEF TypeOK
<1>2. /\ queue' = Append(queue, m) /\ added' = Append(added, m)
      /\ taken' = taken /\ cur' = cur /\ destroyed' = destroyed
      /\ \A i \in DOMAIN added : added[i] # m
  BY DEF AddData
<1>3. FIFO'
  <2>1. Append(taken \o queue, m) = taken \o Append(queue, m)
    BY <1>1, ConcatAppend
  <2> QED BY <1>2, <2>1 DEF FIFO
<1>4. AddedOnce'
  BY <1>1, <1>2 DEF AddedOnce
<1>5. OneHolder' /\ Accounted'
  BY <1>2 DEF OneHolder, Accounted, Held, Taken
<1> QED BY <1>3, <1>4, <1>5

LEMMA TakeStep ==
    ASSUME TypeOK, MsgInv, NEW w \in Workers, WorkerTake(w)
    PROVE  MsgInv'
<1> USE DEF MsgInv
<1> DEFINE h == Head(queue)
<1>1. /\ queue # <<>> /\ taken' = Append(taken, h) /\ queue' = Tail(queue)
      /\ added' = added /\ destroyed' = destroyed
      /\ cur' = [cur EXCEPT ![w] = h]
      /\ cur[w] = NoMsg
  BY DEF WorkerTake, PastWait, TypeOK
<1>2. FIFO' /\ h \in Msg /\ (\A m : Taken(m)' <=> Taken(m) \/ m = h)
  BY <1>1, DequeueFIFO
<1>3. ~Taken(h)
  BY <1>1, HeadNotTaken
<1>4. /\ cur'[w] = h
      /\ \A v \in Workers : v # w => cur'[v] = cur[v]
  BY <1>1 DEF TypeOK
<1>5. \A v \in Workers : cur[v] # h
  BY <1>2, <1>3 DEF Accounted, Held
<1>6. \A m \in Msg : Held(m)' <=> Held(m) \/ m = h
  BY <1>1, <1>4, NoMsgAssumption DEF Held
<1>7. OneHolder'
  BY <1>4, <1>5 DEF OneHolder
<1>8. Accounted'
  <2> SUFFICES ASSUME NEW m \in Msg
               PROVE  /\ Held(m)' => Taken(m)'
                      /\ destroyed'[m] = IF Taken(m)' /\ ~Held(m)' THEN 1 ELSE 0
    BY DEF Accounted
  <2>1. /\ Held(m) => Taken(m)
        /\ destroyed[m] = IF Taken(m) /\ ~Held(m) THEN 1 ELSE 0
    BY DEF Accounted
  <2>2. CASE m = h
    BY <1>1, <1>2, <1>3, <1>6, <2>1, <2>2
  <2>3. CASE m # h
    BY <1>1, <1>2, <1>6, <2>1, <2>3
  <2> QED BY <2>2, <2>3
<1>9. AddedOnce'
  BY <1>1 DEF AddedOnce
<1> QED BY <1>2, <1>7, <1>8, <1>9

LEMMA TaskStep ==
    ASSUME TypeOK, MsgInv, NEW w \in Workers, WorkerTask(w)
    PROVE  MsgInv'
<1> USE DEF MsgInv
<1> DEFINE c == cur[w]
<1>1. /\ taken' = taken /\ queue' = queue /\ added' = added
      /\ destroyed' = [destroyed EXCEPT ![c] = @ + 1]
      /\ cur' = [cur EXCEPT ![w] = NoMsg]
      /\ c # NoMsg /\ c \in Msg
  BY DEF WorkerTask, TypeOK
<1>2. /\ cur'[w] = NoMsg
      /\ \A v \in Workers : v # w => cur'[v] = cur[v] /\ cur[v] # c
  BY <1>1 DEF TypeOK, OneHolder
<1>3. \A m \in Msg : Held(m)' <=> Held(m) /\ m # c
  BY <1>1, <1>2, NoMsgAssumption DEF Held
<1>4. /\ Held(c) /\ Taken(c) /\ destroyed[c] = 0
  BY <1>1 DEF Held, Accounted
<1>5. /\ destroyed'[c] = 1
      /\ \A m \in Msg : m # c => destroyed'[m] = destroyed[m]
  BY <1>1, <1>4 DEF TypeOK
<1>6. \A m : Taken(m)' <=> Taken(m)
  BY <1>1 DEF Taken
<1>7. Accounted'
  <2> SUFFICES ASSUME NEW m \in Msg
               PROVE  /\ Held(m)' => Taken(m)'
                      /\ destroyed'[m] = IF Taken(m)' /\ ~Held(m)' THEN 1 ELSE 0
    BY DEF Accounted
  <2>1. /\ Held(m) => Taken(m)
        /\ destroyed[m] = IF Taken(m) /\ ~Held(m) THEN 1 ELSE 0
    BY DEF Accounted
  <2>2. CASE m = c
    BY <1>3, <1>4, <1>5, <1>6, <2>2
  <2>3. CASE m # c
    BY <1>3, <1>5, <1>6, <2>1, <2>3
  <2> QED BY <2>2, <2>3
<1>8. OneHolder'
  BY <1>2 DEF OneHolder
<1>9. AddedOnce' /\ FIFO'
  BY <1>1 DEF AddedOnce, FIFO
<1> QED BY <1>7, <1>8, <1>9

LEMMA DestroyOneStep ==
    ASSUME TypeOK, MsgInv, DestroyOne
    PROVE  MsgInv'
<1> USE DEF MsgInv
<1> DEFINE h == Head(queue)
<1>1. /\ queue # <<>> /\ taken' = Append(taken, h) /\ queue' = Tail(queue)
      /\ added' = added /\ cur' = cur
      /\ destroyed' = [destroyed EXCEPT ![h] = @ + 1]
  BY DEF DestroyOne
<1>2. FIFO' /\ h \in Msg /\ (\A m : Taken(m)' <=> Taken(m) \/ m = h)
  BY <1>1, DequeueFIFO
<1>3. ~Taken(h)
  BY <1>1, HeadNotTaken
<1>4. ~Held(h) /\ destroyed[h] = 0
  BY <1>2, <1>3 DEF Accounted
<1>5. \A m \in Msg : Held(m)' <=> Held(m)
  BY <1>1 DEF Held
<1>6. /\ destroyed'[h] = 1
      /\ \A m \in Msg : m # h => destroyed'[m] = destroyed[m]
  BY <1>1, <1>2, <1>4 DEF TypeOK
<1>7. Accounted'
  <2> SUFFICES ASSUME NEW m \in Msg
               PROVE  /\ Held(m)' => Taken(m)'
                      /\ destroyed'[m] = IF Taken(m)' /\ ~Held(m)' THEN 1 ELSE 0
    BY DEF Accounted
  <2>1. /\ Held(m) => Taken(m)
        /\ destroyed[m] = IF Taken(m) /\ ~Held(m) THEN 1 ELSE 0
    BY DEF Accounted
  <2>2. CASE m = h
    BY <1>2, <1>4, <1>5, <1>6, <2>2
  <2>3. CASE m # h
    BY <1>2, <1>5, <1>6, <2>1, <2>3
  <2> QED BY <2>2, <2>3
<1>8. OneHolder' /\ AddedOnce'
  BY <1>1 DEF OneHolder, AddedOnce
<1> QED BY <1>2, <1>7, <1>8

(* Every other action leaves the messages alone.                           *)
LEMMA OtherStep ==
    ASSUME MsgInv, UNCHANGED <<queue, added, taken, cur, destroyed>>
    PROVE  MsgInv'
BY DEF MsgInv, AddedOnce, FIFO, OneHolder, Accounted, Held, Taken

LEMMA NextIndInv == IndInv /\ [Next]_vars => IndInv'
<1> SUFFICES ASSUME IndInv, [Next]_vars PROVE IndInv'
  OBVIOUS
<1>1. TypeOK /\ FreshWorkers /\ MsgInv
  BY DEF IndInv, MsgInv
<1>2. TypeOK' /\ FreshWorkers'
  BY <1>1, TypeStep
<1>3. MsgInv'
  <2>1. ASSUME NEW m \in Msg, AddData(m) PROVE MsgInv'
    BY <1>1, <2>1, AddDataStep
  <2>2. ASSUME NEW w \in Workers, WorkerTake(w) PROVE MsgInv'
    BY <1>1, <2>2, TakeStep
  <2>3. ASSUME NEW w \in Workers, WorkerTask(w) PROVE MsgInv'
    BY <1>1, <2>3, TaskStep
  <2>4. CASE DestroyOne
    BY <1>1, <2>4, DestroyOneStep
  <2>5. CASE UNCHANGED <<queue, added, taken, cur, destroyed>>
    BY <1>1, <2>5, OtherStep
  <2>6. ASSUME NEW t \in Threads, SpuriousWake(t)
        PROVE  UNCHANGED <<queue, added, taken, cur, destroyed>>
    BY <2>6 DEF SpuriousWake
  <2>7. ASSUME NEW w \in Workers,
               WorkerLoop(w) \/ WorkerWait(w) \/ WorkerBack(w) \/ WorkerExit(w)
        PROVE  UNCHANGED <<queue, added, taken, cur, destroyed>>
    BY <2>7 DEF WorkerLoop, WorkerWait, WorkerBack, WorkerExit
  <2>8. CASE \/ Start \/ AddTask \/ AddTaskFails \/ Stop \/ StopReturn
             \/ BeginFree \/ ThreadPoolFree \/ DestroyEnd
    <3>1. UNCHANGED <<queue, added, taken, cur, destroyed>>
      BY <2>8 DEF Start, AddTask, AddTaskFails, Stop, StopReturn, BeginFree,
                  ThreadPoolFree, DestroyEnd
    <3> QED BY <3>1, <2>5
  <2>9. CASE UNCHANGED vars
    BY <2>5, <2>9 DEF vars
  <2> QED
    BY <2>1, <2>2, <2>3, <2>4, <2>5, <2>6, <2>7, <2>8, <2>9
    DEF Next, WorkerStep, OwnerStep, Terminated
<1> QED BY <1>2, <1>3 DEF IndInv, MsgInv

-----------------------------------------------------------------------------
(* The type invariant: in particular a worker holds a message exactly      *)
(* while CAQueueingThreadBaseRoutine runs threadTask on it.                *)
THEOREM TypeCorrect == Spec => []TypeOK
<1>1. IndInv => TypeOK
  BY DEF IndInv
<1> QED BY <1>1, InitIndInv, NextIndInv, PTL DEF Spec

(* Messages are dequeued in the order AddData enqueued them, whatever      *)
(* stops, restarts and wakeups happen in between.                          *)
THEOREM QueueIsFIFO == Spec => []FIFO
<1>1. IndInv => FIFO
  BY DEF IndInv
<1> QED BY <1>1, InitIndInv, NextIndInv, PTL DEF Spec

(* Every message is processed by at most one worker, destroyed at most     *)
(* once, and never lost: even when an early return of CAQueueingThreadStop *)
(* and a new Start leave several workers on the same queue.                *)
THEOREM MessagesExactlyOnce == Spec => []ExactlyOnce
<1>1. IndInv => ExactlyOnce
  <2> SUFFICES ASSUME IndInv PROVE ExactlyOnce
    OBVIOUS
  <2> USE DEF IndInv
  <2>1. queue \in Seq(Msg) /\ taken \in Seq(Msg)
    BY DEF TypeOK
  <2>2. \A m : WasAdded(m) <=> Taken(m) \/ Queued(m)
    <3>1. \A x : (\E i \in DOMAIN (taken \o queue) : (taken \o queue)[i] = x)
                 <=> \/ \E i \in DOMAIN taken : taken[i] = x
                     \/ \E i \in DOMAIN queue : queue[i] = x
      BY <2>1, ConcatElements
    <3>2. added = taken \o queue
      BY DEF FIFO
    <3> QED BY <3>1, <3>2 DEF WasAdded, Taken, Queued
  <2>3. \A m : ~(Taken(m) /\ Queued(m))
    <3> SUFFICES ASSUME NEW i \in DOMAIN taken, NEW j \in DOMAIN queue, taken[i] = queue[j]
                 PROVE  FALSE
      BY DEF Taken, Queued
    <3>1. /\ i \in DOMAIN added /\ added[i] = taken[i]
          /\ Len(taken) + j \in DOMAIN added /\ added[Len(taken) + j] = queue[j]
          /\ i # Len(taken) + j
      BY <2>1 DEF FIFO
    <3> QED BY <3>1 DEF AddedOnce
  <2> QED BY <2>2, <2>3 DEF ExactlyOnce, Accounted, OneHolder
<1> QED BY <1>1, InitIndInv, NextIndInv, PTL DEF Spec

(* After ca_thread_pool_free no worker is left to touch what Destroy frees:*)
(* the join is what makes the teardown safe, not CAQueueingThreadStop.     *)
THEOREM TeardownSafe == Spec => []NoUseAfterFree
<1>1. Init => NoUseAfterFree
  BY ThreadFacts DEF Init, NoUseAfterFree
<1>2. TypeOK /\ FreshWorkers /\ NoUseAfterFree /\ [Next]_vars => NoUseAfterFree'
  <2> SUFFICES ASSUME TypeOK, FreshWorkers, NoUseAfterFree, [Next]_vars PROVE NoUseAfterFree'
    OBVIOUS
  <2> USE ThreadFacts DEF NoUseAfterFree, TypeOK
  <2>1. ASSUME NEW w \in Workers, WorkerStep(w) PROVE NoUseAfterFree'
    BY <2>1 DEF WorkerStep, WorkerLoop, WorkerWait, WorkerBack, PastWait, WorkerTake,
                WorkerTask, WorkerExit
  <2>2. CASE OwnerStep
    BY <2>2 DEF OwnerStep, Start, AddTask, AddTaskFails, Stop, StopReturn, BeginFree,
                ThreadPoolFree, JoinReady, DestroyOne, DestroyEnd, FreshWorkers
  <2>3. CASE UNCHANGED pc
    BY <2>3
  <2> QED
    BY <2>1, <2>2, <2>3 DEF Next, AddData, SpuriousWake, Terminated, vars
<1>3. IndInv => TypeOK /\ FreshWorkers
  BY DEF IndInv
<1> QED BY <1>1, <1>2, <1>3, InitIndInv, NextIndInv, PTL DEF Spec
=============================================================================
