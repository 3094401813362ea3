--------------------------- MODULE CAHistory_proof ---------------------------
(***************************************************************************)
(* The duplicate filter's verdict is exact for every ring size and every   *)
(* number of requests, provided that every request carries a token.        *)
(*                                                                         *)
(* The strengthening says what the ring holds: slot i holds the request    *)
(* numbered Record(i), the youngest one written there, or is still blank   *)
(* when that number is not positive.  The numbers of the HISTORYSIZE slots *)
(* are the last HISTORYSIZE numbers, so searching the ring is searching    *)
(* the last HISTORYSIZE requests.                                          *)
(***************************************************************************)
EXTENDS CAHistory, TLAPS

(* The number of the request that was last written to slot i.              *)
Record(i) == IF i < nextIndex THEN Len(seen) - nextIndex + i + 1
                              ELSE Len(seen) - nextIndex + i + 1 - HISTORYSIZE

(* Slot i holds its request, or nothing was written to it yet.             *)
RingHolds == \A i \in Slot :
                items[i] = IF Record(i) >= 1 THEN seen[Record(i)].req ELSE BlankItem

IndInv == TypeOK /\ RingHolds /\ DropsExactlyRepeats

-----------------------------------------------------------------------------
(* The wrap-around of CADropSecondMessage keeps the index in the ring.     *)
LEMMA NextSlotInRing == \A i \in Slot : NextSlot(i) \in Slot
  BY SizeAssumption DEF NextSlot, Slot

(* Variables of the filter keep their types, empty tokens included.        *)
LEMMA TypeStep == ASSUME TypeOK, NEW r \in Request, CADropSecondMessage(r)
                  PROVE  TypeOK'
<1>1. Recorded(items[nextIndex], r) \in Item
  <2>1. items[nextIndex] \in Item
    BY DEF TypeOK
  <2>2. items[nextIndex].token \in Token \cup {NoToken}
    BY <2>1 DEF Item
  <2>3. (IF r.token # NoToken THEN r.token ELSE items[nextIndex].token) \in Token \cup {NoToken}
    BY <2>2 DEF Request
  <2> QED  BY <2>3 DEF Recorded, Item, Request
<1>2. items' \in [Slot -> Item]
  BY <1>1 DEF TypeOK, CADropSecondMessage
<1>3. nextIndex' \in Slot
  BY NextSlotInRing DEF TypeOK, CADropSecondMessage
<1>4. seen' \in Seq([req : Request, dropped : BOOLEAN])
  <2>1. (\E i \in Slot : Matches(items[i], r)) \in BOOLEAN
    OBVIOUS
  <2> DEFINE v == [req |-> r, dropped |-> \E i \in Slot : Matches(items[i], r)]
  <2>2. v \in [req : Request, dropped : BOOLEAN]
    BY <2>1, Zenon
  <2>3. seen' = Append(seen, v)
    BY DEF CADropSecondMessage
  <2> HIDE DEF v
  <2> QED  BY <2>2, <2>3 DEF TypeOK
<1> QED  BY <1>2, <1>3, <1>4 DEF TypeOK

(* Searching the ring is searching the last HISTORYSIZE requests.          *)
LEMMA RingSearch ==
  ASSUME TypeOK, RingHolds, NEW r \in Request
  PROVE  (\E i \in Slot : Matches(items[i], r)) <=>
         (\E j \in 1 .. Len(seen) : /\ j >= Len(seen) + 1 - HISTORYSIZE
                                    /\ SameMessage(seen[j].req, r))
<1>0. /\ nextIndex \in 0 .. HISTORYSIZE - 1
      /\ Len(seen) \in Nat
      /\ HISTORYSIZE \in Nat \ {0}
  BY SizeAssumption DEF TypeOK, Slot
<1>1. ASSUME NEW i \in Slot, Matches(items[i], r)
      PROVE  \E j \in 1 .. Len(seen) : /\ j >= Len(seen) + 1 - HISTORYSIZE
                                       /\ SameMessage(seen[j].req, r)
  <2>1. r.ifindex # 0
    BY IfIndexAssumption DEF Request
  <2>2. items[i] # BlankItem
    BY <1>1, <2>1 DEF Matches, BlankItem
  <2>3. Record(i) >= 1 /\ items[i] = seen[Record(i)].req
    BY <2>2 DEF RingHolds
  <2>4. i \in 0 .. HISTORYSIZE - 1
    BY DEF Slot
  <2>5. Record(i) \in 1 .. Len(seen) /\ Record(i) >= Len(seen) + 1 - HISTORYSIZE
    BY <1>0, <2>3, <2>4 DEF Record
  <2>6. SameMessage(seen[Record(i)].req, r)
    BY <1>1, <2>3 DEF Matches, SameMessage
  <2> QED  BY <2>5, <2>6
<1>2. ASSUME NEW j \in 1 .. Len(seen), j >= Len(seen) + 1 - HISTORYSIZE,
             SameMessage(seen[j].req, r)
      PROVE  \E i \in Slot : Matches(items[i], r)
  <2> DEFINE i == IF j > Len(seen) - nextIndex THEN j - 1 - (Len(seen) - nextIndex)
                                          ELSE j - 1 - (Len(seen) - nextIndex) + HISTORYSIZE
  <2>1. i \in Slot /\ Record(i) = j
    BY <1>0, <1>2 DEF Slot, Record
  <2> HIDE DEF i
  <2>2. items[i] = seen[j].req
    BY <2>1 DEF RingHolds
  <2>3. Matches(items[i], r)
    BY <1>2, <2>2 DEF Matches, SameMessage
  <2> QED  BY <2>1, <2>3
<1> QED  BY <1>1, <1>2

(* Writing the next slot keeps the ring's account of itself.               *)
LEMMA RingStep ==
  ASSUME TypeOK, RingHolds, NoToken \notin Token,
         NEW r \in Request, CADropSecondMessage(r)
  PROVE  RingHolds'
<1> DEFINE v == [req |-> r, dropped |-> \E i \in Slot : Matches(items[i], r)]
<1>0. /\ nextIndex \in 0 .. HISTORYSIZE - 1
      /\ Len(seen) \in Nat
      /\ HISTORYSIZE \in Nat \ {0}
  BY SizeAssumption DEF TypeOK, Slot
<1>1. seen' = Append(seen, v) /\ v.req = r
  BY DEF CADropSecondMessage
<1> HIDE DEF v
<1>2. /\ Len(seen') = Len(seen) + 1
      /\ seen'[Len(seen) + 1].req = r
      /\ \A k \in 1 .. Len(seen) : seen'[k] = seen[k]
  BY <1>1 DEF TypeOK
<1>3. Recorded(items[nextIndex], r) = r
  <2>1. r.token # NoToken
    BY DEF Request
  <2> QED  BY <2>1 DEF Recorded, Request
<1>4. items' = [items EXCEPT ![nextIndex] = r]
  BY <1>3 DEF CADropSecondMessage
<1>5. nextIndex' = IF nextIndex + 1 >= HISTORYSIZE THEN 0 ELSE nextIndex + 1
  BY DEF CADropSecondMessage, NextSlot
<1>6. SUFFICES ASSUME NEW i \in Slot
               PROVE  items'[i] = IF Record(i)' >= 1 THEN seen'[Record(i)'].req ELSE BlankItem
  BY DEF RingHolds, Slot
<1>7. i \in 0 .. HISTORYSIZE - 1
  BY DEF Slot
<1>8. CASE i = nextIndex
  <2>1. Record(i)' = Len(seen) + 1
    BY <1>0, <1>2, <1>5, <1>7, <1>8 DEF Record
  <2>2. items'[i] = r
    BY <1>4, <1>8 DEF TypeOK
  <2> QED  BY <1>0, <1>2, <2>1, <2>2
<1>9. CASE i # nextIndex
  <2>1. Record(i)' = Record(i)
    BY <1>0, <1>2, <1>5, <1>7, <1>9 DEF Record
  <2>2. items'[i] = items[i]
    BY <1>4, <1>9 DEF TypeOK
  <2>3. Record(i) \in Int /\ Record(i) <= Len(seen)
    BY <1>0, <1>7 DEF Record
  <2>4. CASE Record(i) >= 1
    <3>1. seen'[Record(i)] = seen[Record(i)]
      BY <1>2, <2>3, <2>4
    <3> QED  BY <2>1, <2>2, <2>4, <3>1 DEF RingHolds
  <2>5. CASE ~(Record(i) >= 1)
    BY <2>1, <2>2, <2>5 DEF RingHolds
  <2> QED  BY <2>4, <2>5
<1> QED  BY <1>8, <1>9

(* The verdict on the new request is exact and older verdicts stay so.     *)
LEMMA VerdictStep ==
  ASSUME TypeOK, RingHolds, DropsExactlyRepeats,
         NEW r \in Request, CADropSecondMessage(r)
  PROVE  DropsExactlyRepeats'
<1> DEFINE hit == \E i \in Slot : Matches(items[i], r)
           v == [req |-> r, dropped |-> hit]
<1>0. Len(seen) \in Nat /\ HISTORYSIZE \in Nat \ {0}
  BY SizeAssumption DEF TypeOK
<1>1. seen' = Append(seen, v) /\ v.req = r /\ (v.dropped <=> hit)
  BY DEF CADropSecondMessage
<1>2. hit <=> (\E j \in 1 .. Len(seen) : /\ j >= Len(seen) + 1 - HISTORYSIZE
                                         /\ SameMessage(seen[j].req, r))
  BY RingSearch
<1> HIDE DEF v, hit
<1>3. /\ Len(seen') = Len(seen) + 1
      /\ seen'[Len(seen) + 1] = v
      /\ \A k \in 1 .. Len(seen) : seen'[k] = seen[k]
  BY <1>1 DEF TypeOK
<1>4. SUFFICES ASSUME NEW k \in 1 .. Len(seen')
               PROVE  seen'[k].dropped <=> IsRepeat(k)'
  BY DEF DropsExactlyRepeats
<1>5. CASE k = Len(seen) + 1
  <2>1. IsRepeat(k)' <=> \E j \in 1 .. Len(seen) : /\ j >= Len(seen) + 1 - HISTORYSIZE
                                                   /\ SameMessage(seen[j].req, r)
    BY <1>0, <1>1, <1>3, <1>5 DEF IsRepeat
  <2> QED  BY <1>1, <1>2, <1>3, <1>5, <2>1
<1>6. CASE k # Len(seen) + 1
  <2>1. k \in 1 .. Len(seen)
    BY <1>0, <1>3, <1>4, <1>6
  <2>2. IsRepeat(k)' <=> IsRepeat(k)
    BY <1>0, <1>3, <2>1 DEF IsRepeat
  <2> QED  BY <1>3, <2>1, <2>2 DEF DropsExactlyRepeats
<1> QED  BY <1>5, <1>6

(* The invariant of the filter holds initially.                            *)
LEMMA InitInv == Init => IndInv
<1> SUFFICES ASSUME Init PROVE IndInv
  OBVIOUS
<1>0. HISTORYSIZE \in Nat \ {0}
  BY SizeAssumption
<1>1. seen = << >> /\ Len(seen) = 0 /\ nextIndex = 0 /\ items = [i \in Slot |-> BlankItem]
  BY DEF Init
<1>2. TypeOK
  <2>1. BlankItem \in Item
    BY DEF BlankItem, Item
  <2>2. nextIndex \in Slot
    BY <1>0, <1>1 DEF Slot
  <2> QED  BY <1>1, <2>1, <2>2 DEF TypeOK
<1>3. RingHolds
  <2> SUFFICES ASSUME NEW i \in Slot
               PROVE  items[i] = IF Record(i) >= 1 THEN seen[Record(i)].req ELSE BlankItem
    BY DEF RingHolds
  <2>1. ~(Record(i) >= 1)
    BY <1>0, <1>1 DEF Record, Slot
  <2> QED  BY <1>1, <2>1
<1>4. DropsExactlyRepeats
  BY <1>1 DEF DropsExactlyRepeats
<1> QED  BY <1>2, <1>3, <1>4 DEF IndInv

-----------------------------------------------------------------------------
(* Type correctness of the filter (CADropSecondMessage), empty tokens      *)
(* included: nextIndex never leaves the ring.                              *)
THEOREM TypeCorrect == Spec => []TypeOK
<1>1. Init => TypeOK
  BY InitInv DEF IndInv
<1>2. TypeOK /\ [Next]_vars => TypeOK'
  <2> SUFFICES ASSUME TypeOK, [Next]_vars PROVE TypeOK'
    OBVIOUS
  <2>1. CASE Next
    BY <2>1, TypeStep DEF Next
  <2>2. CASE UNCHANGED vars
    BY <2>2 DEF vars, TypeOK
  <2> QED  BY <2>1, <2>2
<1> QED  BY <1>1, <1>2, PTL DEF Spec

(* CADropSecondMessage drops a request if and only if one of the last      *)
(* HISTORYSIZE requests had its message id, token and interface, for every *)
(* ring size, as long as no request has an empty token.                    *)
THEOREM FilterExact == ASSUME NoToken \notin Token
                       PROVE  Spec => []DropsExactlyRepeats
<1>1. Init => IndInv
  BY InitInv
<1>2. IndInv /\ [Next]_vars => IndInv'
  <2> SUFFICES ASSUME IndInv, [Next]_vars PROVE IndInv'
    OBVIOUS
  <2>1. CASE Next
    <3>1. PICK r \in Request : CADropSecondMessage(r)
      BY <2>1 DEF Next
    <3> QED  BY <3>1, TypeStep, RingStep, VerdictStep DEF IndInv
  <2>2. CASE UNCHANGED vars
    BY <2>2 DEF vars, IndInv, TypeOK, RingHolds, Record, DropsExactlyRepeats, IsRepeat
  <2> QED  BY <2>1, <2>2
<1>3. IndInv => DropsExactlyRepeats
  BY DEF IndInv
<1> QED  BY <1>1, <1>2, <1>3, PTL DEF Spec
=============================================================================
