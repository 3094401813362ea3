--------------------------- MODULE RequestContract ---------------------------
(***************************************************************************)
(* What OCDoRequest promises to an application, without lists, queues,     *)
(* identifiers or a network.  A request is open from the call until its    *)
(* callback is forgotten, which happens for one of three reasons only: the *)
(* application said so (its callback returned                              *)
(* OC_STACK_DELETE_TRANSACTION, or it called OCCancel), the request was    *)
(* given up and the application was told, or its lifetime is over.  Only   *)
(* an open request is told anything, and it is told an answer only if a    *)
(* server has executed it.  Requests are independent of each other.        *)
(***************************************************************************)
CONSTANT Token

VARIABLES phase,      \* of each request: idle, open, closed
          told,       \* the last word with the application about it
          executed,   \* requests that an entity handler has executed
          expired     \* open requests whose lifetime is over

vars == <<phase, told, executed, expired>>

Init == /\ phase = [t \in Token |-> "idle"]
        /\ told = [t \in Token |-> "none"]
        /\ executed = {} /\ expired = {}

(* Request t comes to be in phase p, with w as the last word about it.     *)
Becomes(t, p, w) == phase'[t] = p /\ told'[t] = w

SameAge(t) == t \in expired' <=> t \in expired
SameWork(t) == t \in executed' <=> t \in executed

Issue(t) == /\ phase[t] = "idle" /\ Becomes(t, "open", told[t])
            /\ SameAge(t) /\ SameWork(t)

Execute(t) == /\ phase[t] # "idle" /\ Becomes(t, phase[t], told[t])
              /\ t \in executed' /\ SameAge(t)

Expire(t) == /\ phase[t] = "open" /\ Becomes(t, "open", told[t])
             /\ t \in expired' /\ SameWork(t)

(* A callback.  An answer, a refusal or an error of the local stack may    *)
(* leave the request open, and then renew its lifetime; a timeout closes   *)
(* it.                                                                     *)
Tell(t, r) ==
  /\ phase[t] = "open" /\ SameWork(t)
  /\ r = "answer" => t \in executed
  /\ \/ Becomes(t, "closed", r) /\ t \notin expired'
     \/ r # "timeout" /\ Becomes(t, "open", r) /\ (t \in expired' => t \in expired)

(* OCCancel, inside a callback or outside.                                 *)
Cancel(t) == /\ phase[t] = "open" /\ Becomes(t, "closed", "cancelled")
             /\ t \notin expired' /\ SameWork(t)

Forget(t) == /\ phase[t] = "open" /\ t \in expired
             /\ Becomes(t, "closed", told[t])
             /\ t \notin expired' /\ SameWork(t)

Step(t) == \/ Issue(t) \/ Execute(t) \/ Expire(t) \/ Cancel(t) \/ Forget(t)
           \/ \E r \in {"answer", "refusal", "timeout", "error"} : Tell(t, r)

Idle(t) == Becomes(t, phase[t], told[t]) /\ SameAge(t) /\ SameWork(t)

Spec == Init /\ [][\A t \in Token : Step(t) \/ Idle(t)]_vars
=============================================================================
