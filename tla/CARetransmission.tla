-------------------------- MODULE CARetransmission --------------------------
(***************************************************************************)
(* The retransmission of confirmable CoAP messages                         *)
(* (src/comm/caretransmission.c).                                          *)
(*                                                                         *)
(* The send thread records every confirmable message it has sent           *)
(* (SentData), a receiver thread removes the record when an ACK or RST     *)
(* arrives (ReceivedData), and one retransmission thread walks through the *)
(* list about once a second (CACheckRetransmissionList), sends again what  *)
(* is overdue, with a timeout that doubles, and after TryingCount          *)
(* retransmissions removes the record and reports a timeout.               *)
(*                                                                         *)
(* The walk keeps the mutex from its first to its last entry but calls the *)
(* send method and the timeout callback on the way, so it is a sequence of *)
(* steps here; every other section of the mutex is one action.  Time is an *)
(* age per record, in ticks, that stops at MaxAge, above every threshold.  *)
(***************************************************************************)
EXTENDS Naturals, Sequences

CONSTANTS
    Send,          \* the messages handed to SentData, each once
    Confirmable,   \* those of type CON on an adapter in config.supportType
    Key,           \* the (messageId, adapter) pair of each message
    Timeouts,      \* the values of CAGetTimeoutValue, in ticks
    TryingCount,   \* config.tryingCount
    MaxAge,        \* a bound on ages, not below any timeout << triedCount
    MaxWait        \* a bound on the total waiting time that is recorded

ASSUME ConfirmableAssumption == Confirmable \subseteq Send
ASSUME TimeoutsAssumption == Timeouts \subseteq Nat \ {0} /\ Timeouts # {}
ASSUME TryingCountAssumption == TryingCount \in Nat \ {0}
ASSUME MaxWaitAssumption == MaxWait \in Nat
ASSUME MaxAgeAssumption ==
    MaxAge \in Nat /\ \A t \in Timeouts, n \in 0..(TryingCount - 1) : t * 2^n \in 0..MaxAge

VARIABLES
    isStop,     \* context->isStop
    list,       \* context->dataList
    waiters,    \* the threads blocked on context->threadCond
    wpc,        \* where the retransmission thread is
    opc,        \* where the owner (initialization and teardown) is
    pos,        \* i of CACheckRetransmissionList, from 1
    status,     \* history: the fate of each message
    resent,     \* history: calls of dataSendMethod per message
    reported,   \* history: calls of timeoutCallback per message
    waited,     \* history: ticks since SentData recorded the message
    due         \* history: overdue when the walk began, not yet visited

vars == <<isStop, list, waiters, wpc, opc, pos, status, resent,
          reported, waited, due>>
control == <<isStop, wpc, opc>>
history == <<status, resent, reported, waited, due>>

Entry == [send : Confirmable, age : 0..MaxAge, timeout : Timeouts, tried : 0..(TryingCount - 1)]

Status   == {"none", "refused", "duplicate", "pending", "acked", "timeout", "dropped"}
WorkerPC == {"none", "loop", "lock", "wait", "timedwait", "check", "enter", "walk",
             "exit", "done"}
OwnerPC  == {"init", "idle", "stopwait", "join", "joined", "freed"}

(* Every variable has its type; a record is in the list with fewer tries   *)
(* than TryingCount, and the walk's index stays within the list.           *)
TypeOK ==
    /\ isStop \in BOOLEAN
    /\ list \in Seq(Entry)
    /\ waiters \subseteq {"worker", "owner"}
    /\ wpc \in WorkerPC
    /\ opc \in OwnerPC
    /\ pos \in Nat \ {0}
    /\ wpc = "walk" => pos <= Len(list) + 1
    /\ status \in [Send -> Status]
    /\ resent \in [Send -> Nat]
    /\ reported \in [Send -> Nat]
    /\ waited \in [Send -> 0..MaxWait]
    /\ due \subseteq Send

(* CARetransmissionInitialize: unlike the queueing thread's, isStop is     *)
(* clear from the beginning.                                               *)
Init ==
    /\ isStop = FALSE
    /\ list = <<>>
    /\ waiters = {}
    /\ wpc = "none"
    /\ opc = "init"
    /\ pos = 1
    /\ status = [s \in Send |-> "none"]
    /\ resent = [s \in Send |-> 0]
    /\ reported = [s \in Send |-> 0]
    /\ waited = [s \in Send |-> 0]
    /\ due = {}

-----------------------------------------------------------------------------
(* oc_cond_signal.                                                         *)
SignalledLost(W) == {W}              \* mutant: no signal
Signalled(W) == IF W = {} THEN {{}} ELSE {W \ {t} : t \in W}

(* u_arraylist_remove: what is behind the index moves down by one.         *)
RemoveAt(seq, i) == [k \in 1..(Len(seq) - 1) |-> IF k < i THEN seq[k] ELSE seq[k + 1]]

(* CACheckTimeout: the timeout doubles with every retransmission.          *)
CACheckTimeoutFlat(e) == e.age >= e.timeout      \* mutant: no backoff
CACheckTimeout(e) == e.age >= e.timeout * 2^e.tried

(* The retransmission that is due now is the last one.                     *)
LastTryLate(e) == e.tried >= TryingCount         \* mutant: one too many
LastTry(e) == e.tried + 1 >= TryingCount

Overdue == {list[i].send : i \in {j \in DOMAIN list : CACheckTimeout(list[j])}}

(* The walk is the only section of the mutex that takes several steps.     *)
MutexFree == wpc # "walk"

(* Messages are sent and received once initialization has succeeded; the   *)
(* threads that call in from outside are gone after the join.              *)
Callable == wpc # "none" /\ opc \notin {"joined", "freed"}

Listed(s) == \E i \in DOMAIN list : list[i].send = s

(* Time passes for every record.                                           *)
Tick ==
    /\ \E i \in DOMAIN list : list[i].age < MaxAge
    /\ list' = [i \in DOMAIN list |->
                  [list[i] EXCEPT !.age = IF @ < MaxAge THEN @ + 1 ELSE @]]
    /\ waited' = [s \in Send |-> IF Listed(s) /\ waited[s] < MaxWait
                                 THEN waited[s] + 1 ELSE waited[s]]
    /\ UNCHANGED <<control, waiters, pos, status, resent, reported, due>>

-----------------------------------------------------------------------------
(* CARetransmissionSentData, after the message was sent.                   *)
HasKey(i, k) == Key[list[i].send] = k

KeyTakenNever(s) == FALSE            \* mutant: message ids are not compared
KeyTaken(s) == \E i \in DOMAIN list : HasKey(i, Key[s])

(* Not a CON message, or not an adapter that needs retransmission.         *)
SentDataRefused(s) ==
    /\ Callable
    /\ status[s] = "none"
    /\ s \notin Confirmable
    /\ status' = [status EXCEPT ![s] = "refused"]
    /\ UNCHANGED <<control, list, waiters, pos, resent, reported, waited, due>>

(* A record with the same message id on the same adapter: refused, even if *)
(* the two messages went to different peers.                               *)
SentDataDuplicate(s) ==
    /\ Callable
    /\ MutexFree
    /\ status[s] = "none"
    /\ s \in Confirmable
    /\ KeyTaken(s)
    /\ status' = [status EXCEPT ![s] = "duplicate"]
    /\ UNCHANGED <<control, list, waiters, pos, resent, reported, waited, due>>

SentData(s) ==
    /\ Callable
    /\ MutexFree
    /\ status[s] = "none"
    /\ s \in Confirmable
    /\ ~KeyTaken(s)
    /\ \E t \in Timeouts :
         list' = Append(list, [send |-> s, age |-> 0, timeout |-> t, tried |-> 0])
    /\ status' = [status EXCEPT ![s] = "pending"]
    /\ waiters' \in Signalled(waiters)
    /\ UNCHANGED <<control, pos, resent, reported, waited, due>>

(* CARetransmissionReceivedData for an ACK or an empty RST: the first      *)
(* record with this message id and adapter is removed, whoever sent the    *)
(* answer.  For any other message, or key, it changes nothing.             *)
ReceivedDataKeeps(k) ==              \* mutant: the record is not removed
    /\ Callable
    /\ MutexFree
    /\ \E i \in DOMAIN list :
         /\ HasKey(i, k)
         /\ status' = [status EXCEPT ![list[i].send] = "acked"]
    /\ UNCHANGED <<control, list, waiters, pos, resent, reported, waited, due>>
ReceivedData(k) ==
    /\ Callable
    /\ MutexFree
    /\ \E i \in DOMAIN list :
         /\ HasKey(i, k)
         /\ \A j \in 1..(i - 1) : ~HasKey(j, k)
         /\ list' = RemoveAt(list, i)
         /\ status' = [status EXCEPT ![list[i].send] = "acked"]
    /\ UNCHANGED <<control, waiters, pos, resent, reported, waited, due>>

-----------------------------------------------------------------------------
(* CARetransmissionBaseRoutine.                                            *)

(* The two unlocked reads of isStop.                                       *)
WorkerLoop ==
    /\ wpc = "loop"
    /\ wpc' = IF isStop THEN "exit" ELSE "lock"
    /\ UNCHANGED <<isStop, list, waiters, opc, pos, history>>

WorkerLock ==
    /\ wpc = "lock"
    /\ wpc' = CASE isStop -> "check"
                [] ~isStop /\ list = <<>> -> "wait"
                [] OTHER -> "timedwait"
    /\ waiters' = IF isStop THEN waiters ELSE waiters \cup {"worker"}
    /\ UNCHANGED <<isStop, list, opc, pos, history>>

(* oc_cond_wait returns after a signal, or spuriously; oc_cond_wait_for    *)
(* also after RETRANSMISSION_CHECK_PERIOD_SEC.                             *)
WorkerWoken ==
    /\ wpc \in {"wait", "timedwait"}
    /\ "worker" \notin waiters
    /\ wpc' = "check"
    /\ UNCHANGED <<isStop, list, waiters, opc, pos, history>>

PeriodElapsed ==
    /\ wpc = "timedwait"
    /\ waiters' = waiters \ {"worker"}
    /\ wpc' = "check"
    /\ UNCHANGED <<isStop, list, opc, pos, history>>

SpuriousWake(t) ==
    /\ t \in waiters
    /\ waiters' = waiters \ {t}
    /\ UNCHANGED <<control, list, pos, history>>

(* The mutex is free while the flag is read: Stop may come in between.     *)
WorkerCheck ==
    /\ wpc = "check"
    /\ wpc' = IF isStop THEN "loop" ELSE "enter"
    /\ UNCHANGED <<isStop, list, waiters, opc, pos, history>>

-----------------------------------------------------------------------------
(* CACheckRetransmissionList, one entry per step; pos is the loop index.   *)
WalkBegin ==
    /\ wpc = "enter"
    /\ wpc' = "walk"
    /\ pos' = 1
    /\ due' = Overdue
    /\ UNCHANGED <<isStop, list, waiters, opc, status, resent, reported, waited>>

AtEntry == wpc = "walk" /\ pos <= Len(list)

WalkKeep ==
    /\ AtEntry
    /\ ~CACheckTimeout(list[pos])
    /\ pos' = pos + 1
    /\ UNCHANGED <<control, list, waiters, history>>

(* Send again, restart the clock, count.                                   *)
WalkResend ==
    /\ AtEntry
    /\ CACheckTimeout(list[pos])
    /\ ~LastTry(list[pos])
    /\ list' = [list EXCEPT ![pos].age = 0, ![pos].tried = @ + 1]
    /\ resent' = [resent EXCEPT ![list[pos].send] = @ + 1]
    /\ due' = due \ {list[pos].send}
    /\ pos' = pos + 1
    /\ UNCHANGED <<control, waiters, status, reported, waited>>

(* The last retransmission: the record is removed and the timeout reported *)
(* at once.  --i and the loop's i++ leave the index where it is.           *)
PosAfterRemoveSkips(i) == i + 1      \* mutant: no --i after the removal
PosAfterRemove(i) == i

WalkGiveUp ==
    /\ AtEntry
    /\ CACheckTimeout(list[pos])
    /\ LastTry(list[pos])
    /\ list' = RemoveAt(list, pos)
    /\ resent' = [resent EXCEPT ![list[pos].send] = @ + 1]
    /\ reported' = [reported EXCEPT ![list[pos].send] = @ + 1]
    /\ status' = [status EXCEPT ![list[pos].send] = "timeout"]
    /\ due' = due \ {list[pos].send}
    /\ pos' = PosAfterRemove(pos)
    /\ UNCHANGED <<control, waiters, waited>>

WalkEnd ==
    /\ wpc = "walk"
    /\ pos > Len(list)
    /\ wpc' = "loop"
    /\ UNCHANGED <<isStop, list, waiters, opc, pos, history>>

(* After the loop: one signal for CARetransmissionStop.                    *)
WorkerExitSilent ==                  \* mutant: Stop is not signalled
    /\ wpc = "exit"
    /\ wpc' = "done"
    /\ UNCHANGED <<isStop, list, waiters, opc, pos, history>>
WorkerExit ==
    /\ wpc = "exit"
    /\ waiters' \in Signalled(waiters)
    /\ wpc' = "done"
    /\ UNCHANGED <<isStop, list, opc, pos, history>>

-----------------------------------------------------------------------------
(* The owner: CAInitializeMessageHandler and CATerminateMessageHandler.    *)

(* CARetransmissionStart, when the pool can create the thread.             *)
Start ==
    /\ opc = "init"
    /\ opc' = "idle"
    /\ wpc' = "loop"
    /\ UNCHANGED <<isStop, list, waiters, pos, history>>

(* Otherwise CAInitialize fails and calls CATerminateMessageHandler, which *)
(* stops a retransmission thread that does not exist.                      *)
StartFails ==
    /\ opc = "init"
    /\ opc' = "idle"
    /\ UNCHANGED <<isStop, list, waiters, wpc, pos, history>>

(* CARetransmissionStop: no test of isStop, one signal, one wait.          *)
Stop ==
    /\ opc = "idle"
    /\ MutexFree
    /\ isStop' = TRUE
    /\ \E W \in Signalled(waiters) : waiters' = W \cup {"owner"}
    /\ opc' = "stopwait"
    /\ UNCHANGED <<list, wpc, pos, history>>

StopReturn ==
    /\ opc = "stopwait"
    /\ MutexFree
    /\ "owner" \notin waiters
    /\ opc' = "join"
    /\ UNCHANGED <<isStop, list, waiters, wpc, pos, history>>

(* ca_thread_pool_free.                                                    *)
JoinSkipped == TRUE                  \* mutant: no join
JoinReady == wpc \in {"none", "done"}

ThreadPoolFree ==
    /\ opc = "join"
    /\ JoinReady
    /\ opc' = "joined"
    /\ UNCHANGED <<isStop, list, waiters, wpc, pos, history>>

(* CARetransmissionDestroy frees every record, the mutex, the condition *)
(* and the list.                                                           *)
Destroy ==
    /\ opc = "joined"
    /\ status' = [s \in Send |->
         IF Listed(s) THEN "dropped" ELSE status[s]]
    /\ list' = <<>>
    /\ opc' = "freed"
    /\ UNCHANGED <<isStop, waiters, wpc, pos, resent, reported, waited, due>>

Terminated == opc = "freed" /\ UNCHANGED vars

-----------------------------------------------------------------------------
Worker ==
    \/ WorkerLoop \/ WorkerLock \/ WorkerWoken \/ PeriodElapsed
    \/ WorkerCheck \/ WalkBegin \/ WalkKeep \/ WalkResend \/ WalkGiveUp \/ WalkEnd \/ WorkerExit

Owner == Start \/ StartFails \/ Stop \/ StopReturn \/ ThreadPoolFree \/ Destroy

Next ==
    \/ Tick
    \/ \E s \in Send : SentDataRefused(s) \/ SentDataDuplicate(s) \/ SentData(s)
    \/ \E k \in {Key[s] : s \in Send} : ReceivedData(k)
    \/ \E t \in {"worker", "owner"} : SpuriousWake(t)
    \/ Worker
    \/ Owner
    \/ Terminated

(* The retransmission thread runs, time passes, and the owner goes on once *)
(* it is in Start, Stop or the teardown.  No answer need ever arrive.      *)
Fairness ==
    /\ WF_vars(Worker)
    /\ WF_vars(Tick)
    /\ WF_vars(Start \/ StartFails)
    /\ WF_vars(StopReturn)
    /\ WF_vars(ThreadPoolFree)
    /\ WF_vars(Destroy)

Spec == Init /\ [][Next]_vars /\ Fairness

-----------------------------------------------------------------------------
(* No two records have the same message id and adapter, so the answer to a *)
(* message can only remove one record, and the same one that SentData      *)
(* would call a duplicate.                                                 *)
UniqueKeys ==
    \A i, j \in DOMAIN list : Key[list[i].send] = Key[list[j].send] => i = j

(* A message is on the list exactly while its fate is open; the number of  *)
(* retransmissions agrees with its record; the timeout callback is called  *)
(* once, exactly for the messages given up, after TryingCount              *)
(* retransmissions; an answered message was retransmitted fewer times.     *)
Fates ==
    \A s \in Send :
        /\ status[s] = "pending" <=> Listed(s)
        /\ \A i \in DOMAIN list : list[i].send = s => list[i].tried = resent[s]
        /\ status[s] = "timeout" => resent[s] = TryingCount /\ reported[s] = 1
        /\ status[s] # "timeout" => resent[s] < TryingCount /\ reported[s] = 0

(* One walk visits every record: what was overdue when it began has been   *)
(* retransmitted or given up when it ends, removals on the way or not.     *)
NoRecordSkipped == wpc = "walk" /\ pos > Len(list) => due = {}

(* A message whose fate is decided is never sent again and never reported  *)
(* again: an ACK that ReceivedData processed ends its retransmission.      *)
FateIsFinal ==
    [][\A s \in Send : status[s] \in {"acked", "timeout", "dropped"} =>
          /\ status'[s] = status[s]
          /\ resent'[s] = resent[s]
          /\ reported'[s] = reported[s]]_vars

(* A message is given up only after the full exponential backoff: with     *)
(* TryingCount = n, not before (2^n - 1) times the shortest timeout.       *)
FullBackoff ==
    \A s \in Send : status[s] = "timeout" =>
        \E t \in Timeouts : waited[s] >= t * (2^TryingCount - 1)

(* No thread is left that could use the freed mutex and list.              *)
NoUseAfterFree == opc \in {"joined", "freed"} => wpc \in {"none", "done"}

(* Every recorded message is answered or given up unless the owner stops.  *)
Decided == \A s \in Send : status[s] = "pending" ~> status[s] # "pending" \/ isStop

(* Stop and the teardown return, provided the retransmission thread was    *)
(* created; if not, nobody signals and CARetransmissionStop waits for ever.*)
TeardownComplete == opc = "stopwait" /\ wpc # "none" ~> opc = "freed"
=============================================================================
