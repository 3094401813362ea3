------------------------------ MODULE CAHistory ------------------------------
(***************************************************************************)
(* The duplicate filter for inbound requests: CADropSecondMessage and its  *)
(* one caller, the request branch of CAGenerateHandlerData                 *)
(* (camessagehandler.c).  A multicast request normally arrives twice, once *)
(* over IPv4 and once over IPv6; a ring of HISTORYSIZE records remembers   *)
(* the last requests so that the second copy is dropped.                   *)
(*                                                                         *)
(* A token is a model value; NoToken is the token of length 0.  A record's *)
(* token bytes and tokenLength are always written together, so the record  *)
(* keeps them as one field and "tokenLength = 0" is "token = NoToken".     *)
(***************************************************************************)
EXTENDS Integers, Sequences

CONSTANTS HISTORYSIZE,   \* slots of the ring
          MsgId,         \* CoAP message ids that occur
          Token,         \* tokens of requests; may contain NoToken
          NoToken,       \* the empty token
          IfIndex,       \* interface indices requests arrive on
          MaxRequests    \* bound: requests that reach the filter

ASSUME SizeAssumption == HISTORYSIZE \in Nat \ {0}

(* 0 is what a slot that was never written holds; the system's interface   *)
(* indices start at 1.                                                     *)
ASSUME IfIndexAssumption == IfIndex \subseteq Nat \ {0}

ASSUME MsgIdAssumption == MsgId \subseteq Nat

VARIABLES items,      \* history->items
          nextIndex,  \* history->nextIndex
          seen        \* history variable: the requests that reached the
                      \* filter, in order, each with the verdict "dropped"

vars == <<items, nextIndex, seen>>

Family == {"CA_IPV4", "CA_IPV6"}
Slot == 0 .. HISTORYSIZE - 1

(* What the filter reads of a request and its endpoint.                    *)
Request == [flags : Family, messageId : MsgId, token : Token, ifindex : IfIndex]

Item == [flags : Family \cup {"CA_DEFAULT_FLAGS"}, messageId : MsgId \cup {0},
         token : Token \cup {NoToken}, ifindex : IfIndex \cup {0}]

(* requestHistory is a static: all of its bytes are zero.                  *)
BlankItem == [flags |-> "CA_DEFAULT_FLAGS", messageId |-> 0,
              token |-> NoToken, ifindex |-> 0]

Init == /\ items = [i \in Slot |-> BlankItem]
        /\ nextIndex = 0
        /\ seen = << >>

-----------------------------------------------------------------------------
(* The comparison of the search loop: message id, token (its length        *)
(* included) and interface, not the address family.                        *)
Matches(item, r) == /\ item.messageId = r.messageId
                    /\ item.token = r.token
                    /\ item.ifindex = r.ifindex

(* What the slot holds after it is overwritten: a request without a token  *)
(* leaves the slot's old token and length in place.                        *)
Recorded(old, r) == [r EXCEPT !.token = IF r.token # NoToken THEN r.token
                                                             ELSE old.token]

(* Two faults of the wrap-around below: the index wraps one slot late, or  *)
(* one slot early, so that the ring forgets a request too soon.            *)
NextSlotLate(i) == IF i + 1 > HISTORYSIZE THEN 0 ELSE i + 1
NextSlotEarly(i) == IF i + 1 >= HISTORYSIZE - 1 THEN 0 ELSE i + 1

NextSlot(i) == IF i + 1 >= HISTORYSIZE THEN 0 ELSE i + 1

(* The filter's whole call.  A confirmable request, and one that came over *)
(* another adapter than CA_ADAPTER_IP, is handed on before the filter      *)
(* reads or writes anything: it is a stuttering step here.                 *)
CADropSecondMessage(r) ==
  /\ Len(seen) < MaxRequests
  /\ seen' = Append(seen, [req |-> r, dropped |-> \E i \in Slot : Matches(items[i], r)])
  /\ items' = [items EXCEPT ![nextIndex] = Recorded(@, r)]
  /\ nextIndex' = NextSlot(nextIndex)

Next == \E r \in Request : CADropSecondMessage(r)

Spec == Init /\ [][Next]_vars

-----------------------------------------------------------------------------
(* Variables have their types; the write index stays inside the ring.      *)
TypeOK == /\ items \in [Slot -> Item]
          /\ nextIndex \in Slot
          /\ seen \in Seq([req : Request, dropped : BOOLEAN])

SameMessage(r, q) == /\ r.messageId = q.messageId
                     /\ r.token = q.token
                     /\ r.ifindex = q.ifindex

(* Request k repeats one of the HISTORYSIZE requests just before it.       *)
IsRepeat(k) == \E j \in 1 .. k - 1 : /\ j >= k - HISTORYSIZE
                                     /\ SameMessage(seen[j].req, seen[k].req)

(* The verdict is exact: a request is dropped if and only if one of the    *)
(* last HISTORYSIZE requests had its message id, token and interface.  So  *)
(* no copy slips through while the ring wraps, and no request is lost to a *)
(* record that should have been overwritten.  Holds when every request     *)
(* carries a token, as the requests this stack builds do.                  *)
DropsExactlyRepeats == \A k \in 1 .. Len(seen) : seen[k].dropped <=> IsRepeat(k)

=============================================================================
