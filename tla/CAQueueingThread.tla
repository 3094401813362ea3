------------------------- MODULE CAQueueingThread -------------------------
(***************************************************************************)
(* The queueing thread of the CA layer (src/comm/caqueueingthread.c) and   *)
(* the thread pool it runs in (src/comm/cathreadpool_pthreads.c).          *)
(*                                                                         *)
(* One CAQueueingThread_t is a FIFO of messages, one mutex, ONE condition  *)
(* variable shared by the worker (waiting for work) and by                 *)
(* CAQueueingThreadStop (waiting for the worker to leave), and the flag    *)
(* isStop, which the worker also reads without the mutex.                  *)
(*                                                                         *)
(* A section between oc_mutex_lock and oc_mutex_unlock (or oc_cond_wait)   *)
(* is one action; what happens outside the mutex is an action of its own.  *)
(* Thread 0 is the owner, which calls Start, Stop, ca_thread_pool_free and *)
(* Destroy; threads 1..MaxStarts are the workers, one per successful Start.*)
(***************************************************************************)
EXTENDS Naturals, Sequences

CONSTANTS
    Msg,        \* the messages producers may hand to AddData, each once
    NoMsg,      \* no message (NULL)
    MaxStarts   \* how often the owner calls CAQueueingThreadStart (a bound)

ASSUME MaxStartsAssumption == MaxStarts \in Nat \ {0}
ASSUME NoMsgAssumption == NoMsg \notin Msg

Workers == 1..MaxStarts
Owner   == 0
Threads == 0..MaxStarts

VARIABLES
    isStop,     \* thread->isStop
    queue,      \* thread->dataQueue
    waiters,    \* the threads blocked on thread->threadCond
    pc,         \* where each thread is
    cur,        \* the message a worker took out and has not yet destroyed
    starts,     \* number of calls of CAQueueingThreadStart that cleared isStop
    added,      \* history: messages in the order AddData enqueued them
    taken,      \* history: messages in the order they were dequeued
    destroyed   \* history: how often each message was destroyed

vars == <<isStop, queue, waiters, pc, cur, starts, added, taken, destroyed>>

OwnerPC  == {"idle", "addtask", "stopwait", "join", "joined", "freed"}
WorkerPC == {"none", "loop", "lock", "wait", "task", "exit", "done"}

(* Every variable has its type; a worker holds a message exactly while it  *)
(* runs threadTask on it (BaseRoutine frees it before the next iteration). *)
TypeOK ==
    /\ isStop \in BOOLEAN
    /\ queue \in Seq(Msg)
    /\ waiters \subseteq Threads
    /\ pc \in [Threads -> OwnerPC \cup WorkerPC]
    /\ pc[Owner] \in OwnerPC
    /\ \A w \in Workers : pc[w] \in WorkerPC
    /\ cur \in [Workers -> Msg \cup {NoMsg}]
    /\ \A w \in Workers : cur[w] # NoMsg <=> pc[w] = "task"
    /\ starts \in 0..MaxStarts
    /\ added \in Seq(Msg)
    /\ taken \in Seq(Msg)
    /\ destroyed \in [Msg -> Nat]

(* CAQueueingThreadInitialize: a queue, a mutex, a condition, isStop set.  *)
Init ==
    /\ isStop = TRUE
    /\ queue = <<>>
    /\ waiters = {}
    /\ pc = [t \in Threads |-> IF t = Owner THEN "idle" ELSE "none"]
    /\ cur = [w \in Workers |-> NoMsg]
    /\ starts = 0
    /\ added = <<>>
    /\ taken = <<>>
    /\ destroyed = [m \in Msg |-> 0]

-----------------------------------------------------------------------------
(* oc_cond_signal wakes one waiter, if there is one; a woken thread is one *)
(* whose pc is a waiting one and that is no longer in waiters.             *)
SignalledLost(W) == {W}   \* mutant: no signal
Signalled(W) == IF W = {} THEN {{}} ELSE {W \ {t} : t \in W}

(* pthread_cond_wait may return although nobody signalled.                 *)
SpuriousWake(t) ==
    /\ t \in waiters
    /\ waiters' = waiters \ {t}
    /\ UNCHANGED <<isStop, queue, pc, cur, starts, added, taken, destroyed>>

-----------------------------------------------------------------------------
(* CAQueueingThreadAddData: enqueue and signal, whatever isStop is.  The   *)
(* producers are the application and other threads of the pool; they are   *)
(* gone once ca_thread_pool_free has joined them.                          *)
AddDataInFront(m) ==      \* mutant: a stack instead of a queue
    /\ pc[Owner] \notin {"joined", "freed"}
    /\ \A i \in DOMAIN added : added[i] # m
    /\ queue' = <<m>> \o queue
    /\ added' = Append(added, m)
    /\ waiters' \in Signalled(waiters)
    /\ UNCHANGED <<isStop, pc, cur, starts, taken, destroyed>>
AddData(m) ==
    /\ pc[Owner] \notin {"joined", "freed"}
    /\ \A i \in DOMAIN added : added[i] # m
    /\ queue' = Append(queue, m)
    /\ added' = Append(added, m)
    /\ waiters' \in Signalled(waiters)
    /\ UNCHANGED <<isStop, pc, cur, starts, taken, destroyed>>

-----------------------------------------------------------------------------
(* CAQueueingThreadBaseRoutine, run by worker w.                           *)

(* while (!thread->isStop), read without the mutex.                        *)
WorkerLoop(w) ==
    /\ pc[w] = "loop"
    /\ pc' = [pc EXCEPT ![w] = IF isStop THEN "exit" ELSE "lock"]
    /\ UNCHANGED <<isStop, queue, waiters, cur, starts, added, taken, destroyed>>

(* Under the mutex, nothing to do: block on the condition.                 *)
WorkerWait(w) ==
    /\ pc[w] = "lock"
    /\ ~isStop
    /\ queue = <<>>
    /\ pc' = [pc EXCEPT ![w] = "wait"]
    /\ waiters' = waiters \cup {w}
    /\ UNCHANGED <<isStop, queue, cur, starts, added, taken, destroyed>>

(* Past the wait: the worker has the mutex, either because it did not have *)
(* to wait or because it was woken.  It does not test the queue again, so  *)
(* after a wakeup it may find it empty (message == NULL, continue).        *)
PastWait(w) ==
    \/ pc[w] = "lock" /\ (isStop \/ queue # <<>>)
    \/ pc[w] = "wait" /\ w \notin waiters

WorkerBack(w) ==
    /\ PastWait(w)
    /\ isStop \/ queue = <<>>
    /\ pc' = [pc EXCEPT ![w] = "loop"]
    /\ UNCHANGED <<isStop, queue, waiters, cur, starts, added, taken, destroyed>>

WorkerPeek(w) ==          \* mutant: u_queue_get_head, the message stays queued
    /\ PastWait(w)
    /\ ~isStop
    /\ queue # <<>>
    /\ cur' = [cur EXCEPT ![w] = Head(queue)]
    /\ taken' = Append(taken, Head(queue))
    /\ pc' = [pc EXCEPT ![w] = "task"]
    /\ UNCHANGED <<isStop, queue, waiters, starts, added, destroyed>>
WorkerTake(w) ==
    /\ PastWait(w)
    /\ ~isStop
    /\ queue # <<>>
    /\ cur' = [cur EXCEPT ![w] = Head(queue)]
    /\ taken' = Append(taken, Head(queue))
    /\ queue' = Tail(queue)
    /\ pc' = [pc EXCEPT ![w] = "task"]
    /\ UNCHANGED <<isStop, waiters, starts, added, destroyed>>

(* threadTask, then destroy and free, outside the mutex.                   *)
WorkerTaskKeeps(w) ==     \* mutant: the freed message is not forgotten
    /\ pc[w] = "task"
    /\ destroyed' = [destroyed EXCEPT ![cur[w]] = @ + 1]
    /\ pc' = [pc EXCEPT ![w] = "loop"]
    /\ UNCHANGED <<isStop, queue, waiters, cur, starts, added, taken>>
WorkerTask(w) ==
    /\ pc[w] = "task"
    /\ destroyed' = [destroyed EXCEPT ![cur[w]] = @ + 1]
    /\ cur' = [cur EXCEPT ![w] = NoMsg]
    /\ pc' = [pc EXCEPT ![w] = "loop"]
    /\ UNCHANGED <<isStop, queue, waiters, starts, added, taken>>

(* The last section signals the condition for CAQueueingThreadStop.        *)
WorkerExitSilent(w) ==    \* mutant: no signal to Stop
    /\ pc[w] = "exit"
    /\ pc' = [pc EXCEPT ![w] = "done"]
    /\ UNCHANGED <<isStop, queue, waiters, cur, starts, added, taken, destroyed>>
WorkerExit(w) ==
    /\ pc[w] = "exit"
    /\ waiters' \in Signalled(waiters)
    /\ pc' = [pc EXCEPT ![w] = "done"]
    /\ UNCHANGED <<isStop, queue, cur, starts, added, taken, destroyed>>

-----------------------------------------------------------------------------
(* The owner.                                                              *)

(* CAQueueingThreadStart: nothing if isStop is already clear.              *)
Start ==
    /\ pc[Owner] = "idle"
    /\ isStop
    /\ starts < MaxStarts
    /\ isStop' = FALSE
    /\ starts' = starts + 1
    /\ pc' = [pc EXCEPT ![Owner] = "addtask"]
    /\ UNCHANGED <<queue, waiters, cur, added, taken, destroyed>>

(* ca_thread_pool_add_task: a new thread runs the base routine ...         *)
AddTask ==
    /\ pc[Owner] = "addtask"
    /\ pc' = [pc EXCEPT ![Owner] = "idle", ![starts] = "loop"]
    /\ UNCHANGED <<isStop, queue, waiters, cur, starts, added, taken, destroyed>>

(* ... or no thread could be made, and Start sets isStop again.            *)
AddTaskFails ==
    /\ pc[Owner] = "addtask"
    /\ isStop' = TRUE
    /\ pc' = [pc EXCEPT ![Owner] = "idle"]
    /\ UNCHANGED <<queue, waiters, cur, starts, added, taken, destroyed>>

(* CAQueueingThreadStop: nothing if isStop is already set, else set it,    *)
(* signal the condition once and wait once on that same condition.         *)
StopSilent ==             \* mutant: the worker is not woken
    /\ pc[Owner] = "idle"
    /\ ~isStop
    /\ isStop' = TRUE
    /\ waiters' = waiters \cup {Owner}
    /\ pc' = [pc EXCEPT ![Owner] = "stopwait"]
    /\ UNCHANGED <<queue, cur, starts, added, taken, destroyed>>
Stop ==
    /\ pc[Owner] = "idle"
    /\ ~isStop
    /\ isStop' = TRUE
    /\ \E W \in Signalled(waiters) : waiters' = W \cup {Owner}
    /\ pc' = [pc EXCEPT ![Owner] = "stopwait"]
    /\ UNCHANGED <<queue, cur, starts, added, taken, destroyed>>

StopReturn ==
    /\ pc[Owner] = "stopwait"
    /\ Owner \notin waiters
    /\ pc' = [pc EXCEPT ![Owner] = "idle"]
    /\ UNCHANGED <<isStop, queue, waiters, cur, starts, added, taken, destroyed>>

(* The end of CATerminateMessageHandler: once the thread is stopped, the   *)
(* pool is freed, which joins every thread ever added to it ...            *)
BeginFree ==
    /\ pc[Owner] = "idle"
    /\ isStop
    /\ pc' = [pc EXCEPT ![Owner] = "join"]
    /\ UNCHANGED <<isStop, queue, waiters, cur, starts, added, taken, destroyed>>

JoinSkipped == TRUE       \* mutant: the pool is freed without joining
JoinReady == \A w \in Workers : pc[w] \in {"none", "done"}

ThreadPoolFree ==
    /\ pc[Owner] = "join"
    /\ JoinReady
    /\ pc' = [pc EXCEPT ![Owner] = "joined"]
    /\ UNCHANGED <<isStop, queue, waiters, cur, starts, added, taken, destroyed>>

(* ... and CAQueueingThreadDestroy destroys what is left in the queue, one *)
(* message after the other, then frees queue, mutex and condition.         *)
DestroyOne ==
    /\ pc[Owner] = "joined"
    /\ queue # <<>>
    /\ destroyed' = [destroyed EXCEPT ![Head(queue)] = @ + 1]
    /\ taken' = Append(taken, Head(queue))
    /\ queue' = Tail(queue)
    /\ UNCHANGED <<isStop, waiters, pc, cur, starts, added>>

DestroyEnd ==
    /\ pc[Owner] = "joined"
    /\ queue = <<>>
    /\ pc' = [pc EXCEPT ![Owner] = "freed"]
    /\ UNCHANGED <<isStop, queue, waiters, cur, starts, added, taken, destroyed>>

Terminated == pc[Owner] = "freed" /\ UNCHANGED vars

-----------------------------------------------------------------------------
WorkerStep(w) ==
    \/ WorkerLoop(w) \/ WorkerWait(w) \/ WorkerBack(w) \/ WorkerTake(w)
    \/ WorkerTask(w) \/ WorkerExit(w)

OwnerStep ==
    \/ Start \/ AddTask \/ AddTaskFails \/ Stop \/ StopReturn
    \/ BeginFree \/ ThreadPoolFree \/ DestroyOne \/ DestroyEnd

Next ==
    \/ \E m \in Msg : AddData(m)
    \/ \E t \in Threads : SpuriousWake(t)
    \/ \E w \in Workers : WorkerStep(w)
    \/ OwnerStep
    \/ Terminated

(* A running thread is scheduled, and threadTask returns.  The owner runs  *)
(* on once it is inside Start, Stop or the teardown; nothing obliges it to *)
(* call them, nor a producer to add data.                                  *)
Fairness ==
    /\ \A w \in Workers : WF_vars(WorkerStep(w))
    /\ WF_vars(AddTask \/ AddTaskFails)
    /\ WF_vars(StopReturn)
    /\ WF_vars(ThreadPoolFree)
    /\ WF_vars(DestroyOne \/ DestroyEnd)

Spec == Init /\ [][Next]_vars /\ Fairness

-----------------------------------------------------------------------------
(* Every message handed to AddData is in exactly one place: still queued,  *)
(* held by the one worker that runs threadTask on it, or destroyed, and    *)
(* destroyed once.  Two workers never get the same message, and Destroy    *)
(* never frees what a worker still holds (BaseRoutine, Destroy).           *)
Queued(m)   == \E i \in DOMAIN queue : queue[i] = m
Held(m)     == \E w \in Workers : cur[w] = m
WasAdded(m) == \E i \in DOMAIN added : added[i] = m

ExactlyOnce ==
    /\ \A v, w \in Workers : cur[v] = cur[w] /\ cur[v] # NoMsg => v = w
    /\ \A m \in Msg :
        /\ destroyed[m] <= 1
        /\ destroyed[m] = 1 => ~Queued(m) /\ ~Held(m)
        /\ ~(Queued(m) /\ Held(m))
        /\ WasAdded(m) => Queued(m) \/ Held(m) \/ destroyed[m] = 1

(* Messages leave the queue in the order in which AddData put them in,     *)
(* through stops, restarts, spurious wakeups and the final drain.          *)
FIFO == added = taken \o queue

(* Once Destroy has freed the mutex, the condition and the queue, no       *)
(* worker is left that could touch them: CAQueueingThreadStop alone does   *)
(* not give that (an AddData or a spurious wakeup ends its wait while the  *)
(* worker is still in threadTask), the join in ca_thread_pool_free does.   *)
NoUseAfterFree ==
    pc[Owner] \in {"joined", "freed"} =>
        \A w \in Workers : pc[w] \in {"none", "done"}

(* No wakeup is lost: a message queued while the thread is started is      *)
(* taken by a worker unless the owner stops the thread first.              *)
QueuedIsTaken ==
    \A m \in Msg : (Queued(m) /\ ~isStop) ~> (~Queued(m) \/ isStop)

(* The wait inside CAQueueingThreadStop ends: the worker leaves its loop   *)
(* and signals the condition that Stop waits on.  Stated for a thread that *)
(* was started once, as the message handler does.                          *)
StopReturns ==
    pc[Owner] = "stopwait" /\ starts = 1 ~> pc[Owner] = "idle"

(* The teardown ends: no worker sleeps on the condition for ever while     *)
(* ca_thread_pool_free joins it, and Destroy drains the queue.  Stated for *)
(* one Start too: a worker left over from an earlier Start may sleep on.   *)
TeardownComplete ==
    pc[Owner] = "join" /\ starts = 1 ~> pc[Owner] = "freed"
=============================================================================
