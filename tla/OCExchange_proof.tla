-------------------------- MODULE OCExchange_proof --------------------------
(***************************************************************************)
(* The exchange keeps the contract of OCDoRequest, for every set of        *)
(* requests and every value of the limits.  Retransmission, the queues and *)
(* the network carry messages of requests that were issued, answers only   *)
(* of requests that were executed, and 4.06 only from servers that know    *)
(* plain CBOR alone (Known); the tree holds an entry under its own token.  *)
(* Reissues and the 4.06 still queued never exceed the bound together.     *)
(* Of the callback list the contract needs its tokens only: a lookup loses *)
(* expired ones, never the one it looks for.                               *)
(***************************************************************************)
EXTENDS OCExchange, FiniteSetTheorems, SequenceTheorems, WellFoundedInduction, TLAPS

-----------------------------------------------------------------------------
(* What a walk over a list keeps.                                          *)
LEMMA LeastNat ==
  ASSUME NEW T \in SUBSET Nat, T # {}
  PROVE  \E x \in T : \A y \in T : x <= y
<1>1. PICK x \in T : \A y \in T : ~ (<<y, x>> \in OpToRel(<, Nat))
  BY NatLessThanWellFounded, WFMin, Zenon
<1>2. \A y \in T : ~ (y < x)
  BY <1>1 DEF OpToRel
<1> QED  BY <1>2

(* The number of places of S up to i.                                      *)
Rank(S, i) == Cardinality({j \in S : j <= i})

LEMMA RankType ==
  ASSUME NEW n \in Nat, NEW S \in SUBSET (1 .. n), NEW i
  PROVE  /\ IsFiniteSet(S) /\ Cardinality(S) \in Nat
         /\ IsFiniteSet({j \in S : j <= i}) /\ Rank(S, i) \in Nat
         /\ Rank(S, i) <= Cardinality(S)
<1>1. IsFiniteSet(S)
  <2>1. IsFiniteSet(1 .. n)
    BY FS_Interval
  <2> QED  BY <2>1, FS_Subset
<1> DEFINE U == {j \in S : j <= i}
<1>2. U \in SUBSET S
  OBVIOUS
<1> HIDE DEF U
<1>3. IsFiniteSet(U) /\ Cardinality(U) <= Cardinality(S)
  BY <1>1, <1>2, FS_Subset
<1>4. Cardinality(S) \in Nat /\ Cardinality(U) \in Nat
  BY <1>1, <1>3, FS_CardinalityType
<1> QED  BY <1>1, <1>3, <1>4 DEF Rank, U

LEMMA RankGrows ==
  ASSUME NEW n \in Nat, NEW S \in SUBSET (1 .. n), NEW i \in 0 .. n, NEW k \in S, i < k
  PROVE  Rank(S, i) < Rank(S, k)
<1> DEFINE U == {j \in S : j <= i}
           V == {j \in S : j <= k}
<1>1. i \in Nat /\ k \in Nat /\ \A j \in S : j \in Nat
  OBVIOUS
<1>2. U \cup {k} \in SUBSET V /\ k \notin U
  <2>1. \A j \in S : j <= i => j <= k
    BY <1>1
  <2>2. k <= k /\ ~(k <= i)
    BY <1>1
  <2> QED  BY <2>1, <2>2
<1>3. IsFiniteSet(U) /\ IsFiniteSet(V) /\ Rank(S, i) = Cardinality(U) /\ Rank(S, k) = Cardinality(V)
  BY RankType DEF Rank
<1>4. Cardinality(U) \in Nat /\ Cardinality(V) \in Nat
  BY <1>3, FS_CardinalityType
<1> HIDE DEF U, V
<1>5. Cardinality(U \cup {k}) = Cardinality(U) + 1
  BY <1>2, <1>3, FS_AddElement
<1>6. Cardinality(U \cup {k}) <= Cardinality(V)
  BY <1>2, <1>3, FS_Subset
<1> QED  BY <1>3, <1>4, <1>5, <1>6

LEMMA RankAt ==
  ASSUME NEW n \in Nat, NEW S \in SUBSET (1 .. n), NEW k \in 1 .. Cardinality(S)
  PROVE  \E i \in S : Rank(S, i) = k
<1> DEFINE T == {i \in 0 .. n : Rank(S, i) >= k}
<1>1. Cardinality(S) \in Nat /\ \A i \in 0 .. n : Rank(S, i) \in Nat
  BY RankType
<1>2. k \in Nat /\ 1 <= k /\ k <= Cardinality(S)
  BY <1>1
<1>3. \A j \in S : j \in Nat /\ 1 <= j /\ j <= n
  OBVIOUS
<1>4. Rank(S, n) = Cardinality(S) /\ Rank(S, 0) = 0
  <2>1. {j \in S : j <= n} = S /\ {j \in S : j <= 0} = {}
    <3>1. \A j \in S : j <= n /\ ~(j <= 0)
      BY <1>3
    <3> QED  BY <3>1
  <2> QED  BY <2>1, FS_EmptySet DEF Rank
<1>5. n \in T /\ T \in SUBSET Nat
  BY <1>2, <1>4
<1>6. PICK i \in T : \A y \in T : i <= y
  BY <1>5, LeastNat
<1>7. i \in 0 .. n /\ Rank(S, i) >= k /\ i # 0
  BY <1>2, <1>4, <1>6
<1>8. i - 1 \in 0 .. n /\ ~(i <= i - 1)
  BY <1>7
<1>9. ~(Rank(S, i - 1) >= k) /\ Rank(S, i - 1) \in Nat /\ Rank(S, i) \in Nat
  <2>1. i - 1 \notin T
    BY <1>6, <1>8
  <2> QED  BY <1>1, <1>7, <1>8, <2>1
<1>10. \A j \in S : j <= i <=> j <= i - 1 \/ j = i
  BY <1>3, <1>7
<1>11. CASE i \notin S
  <2>1. {j \in S : j <= i} = {j \in S : j <= i - 1}
    BY <1>10, <1>11
  <2>2. Rank(S, i) = Rank(S, i - 1)
    BY <2>1 DEF Rank
  <2> QED  BY <1>7, <1>9, <2>2
<1>12. CASE i \in S
  <2> DEFINE U == {j \in S : j <= i - 1}
  <2>1. i <= i
    BY <1>7
  <2>2. {j \in S : j <= i} = U \cup {i} /\ i \notin U
    BY <1>8, <1>10, <1>12, <2>1
  <2>3. IsFiniteSet(U)
    BY RankType
  <2>4. Rank(S, i) = Cardinality(U \cup {i}) /\ Rank(S, i - 1) = Cardinality(U)
    BY <2>2 DEF Rank
  <2>5. i \notin U
    BY <2>2
  <2> HIDE DEF U
  <2>6. Cardinality(U \cup {i}) = Cardinality(U) + 1
    BY <2>3, <2>5, FS_AddElement
  <2>7. Rank(S, i) = k
    BY <1>2, <1>7, <1>9, <2>4, <2>6
  <2> QED  BY <1>12, <2>7
<1> QED  BY <1>11, <1>12

(* The list that is left has the elements at the places kept, once each if *)
(* they were in the list once each.                                        *)
LEMMA KeptElements ==
  ASSUME NEW list \in Seq(Token), IsInjective(list), NEW S \in SUBSET (DOMAIN list)
  PROVE  /\ Kept(list, S) \in Seq(Token) /\ IsInjective(Kept(list, S))
         /\ Range(Kept(list, S)) = {list[i] : i \in S}
<1> DEFINE n == Len(list)
           at(k) == CHOOSE i \in S : Rank(S, i) = k
           new == Kept(list, S)
<1>1. n \in Nat /\ S \in SUBSET (1 .. n) /\ \A i \in S : list[i] \in Token /\ i \in DOMAIN list
  OBVIOUS
<1>2. Cardinality(S) \in Nat
  BY <1>1, RankType
<1>3. \A k \in 1 .. Cardinality(S) : at(k) \in S /\ Rank(S, at(k)) = k
  BY <1>1, RankAt
<1>4. \A i, j \in S : Rank(S, i) = Rank(S, j) => i = j
  <2> SUFFICES ASSUME NEW i \in S, NEW j \in S, Rank(S, i) = Rank(S, j), i # j PROVE FALSE
    OBVIOUS
  <2> HIDE DEF n
  <2>1. /\ i \in 0 .. n /\ j \in 0 .. n
        /\ Rank(S, i) \in Nat /\ Rank(S, j) \in Nat
    <3>1. i \in 1 .. n /\ j \in 1 .. n
      BY <1>1
    <3>2. i \in 0 .. n /\ j \in 0 .. n
      BY <1>1, <3>1
    <3> QED  BY <1>1, <3>2, RankType
  <2>2. i < j \/ j < i
    BY <2>1
  <2>3. Rank(S, i) < Rank(S, j) \/ Rank(S, j) < Rank(S, i)
    BY <1>1, <2>1, <2>2, RankGrows
  <2> QED  BY <2>1, <2>3
<1>5. \A i \in S : Rank(S, i) \in 1 .. Cardinality(S) /\ at(Rank(S, i)) = i
  <2> TAKE i \in S
  <2>1. Rank(S, i) \in Nat /\ Rank(S, i) <= Cardinality(S)
    BY <1>1, RankType
  <2>2. Rank(S, 0) \in Nat /\ Rank(S, 0) < Rank(S, i)
    <3> HIDE DEF n
    <3>1. i \in 1 .. n
      BY <1>1
    <3>2. 0 \in 0 .. n /\ 0 < i
      BY <1>1, <3>1
    <3> QED  BY <1>1, <3>2, RankType, RankGrows
  <2>3. Rank(S, i) \in 1 .. Cardinality(S)
    BY <1>2, <2>1, <2>2
  <2> QED  BY <1>3, <1>4, <2>3
<1>6. new = [k \in 1 .. Cardinality(S) |-> list[at(k)]]
  BY DEF Kept, Rank
<1> HIDE DEF at, new, n
<1>7. DOMAIN new = 1 .. Cardinality(S) /\ \A k \in 1 .. Cardinality(S) : new[k] = list[at(k)]
  BY <1>6
<1>8. new \in Seq(Token)
  <2>1. new \in [1 .. Cardinality(S) -> Token]
    BY <1>1, <1>3, <1>6
  <2> QED  BY <1>2, <2>1
<1>9. IsInjective(new)
  <2> SUFFICES ASSUME NEW a \in 1 .. Cardinality(S), NEW b \in 1 .. Cardinality(S), new[a] = new[b]
               PROVE  a = b
    BY <1>7 DEF IsInjective
  <2>1. at(a) = at(b)
    BY <1>1, <1>3, <1>7 DEF IsInjective
  <2> QED  BY <1>3, <2>1
<1>10. Range(new) = {list[i] : i \in S}
  <2>1. \A k \in 1 .. Cardinality(S) : new[k] \in {list[i] : i \in S}
    BY <1>3, <1>7
  <2>2. \A i \in S : \E k \in 1 .. Cardinality(S) : new[k] = list[i]
    BY <1>5, <1>7
  <2> QED  BY <1>7, <2>1, <2>2 DEF Range
<1> QED  BY <1>8, <1>9, <1>10 DEF new

(* A list of callbacks.                                                    *)
IsList(l) == l \in Seq(Token) /\ IsInjective(l)

(* DeleteClientCB.                                                         *)
LEMMA DeleteLeaves ==
  ASSUME NEW l, IsList(l), NEW t
  PROVE  IsList(DeleteClientCB(l, t)) /\ Range(DeleteClientCB(l, t)) = Range(l) \ {t}
<1> DEFINE S == {i \in DOMAIN l : l[i] # t}
<1>1. S \in SUBSET (DOMAIN l) /\ {l[i] : i \in S} = Range(l) \ {t}
  BY DEF Range
<1> HIDE DEF S
<1>2. IsList(Kept(l, S)) /\ Range(Kept(l, S)) = Range(l) \ {t}
  BY <1>1, KeptElements DEF IsList
<1> QED  BY <1>2 DEF DeleteClientCB, S

(* A lookup loses expired callbacks only, and not the one it looks for.    *)
LEMMA LookupLeaves ==
  ASSUME NEW l, IsList(l), NEW t
  PROVE  /\ IsList(Lookup(l, t))
         /\ Range(Lookup(l, t)) \subseteq Range(l)
         /\ \A u \in Range(l) \ Range(Lookup(l, t)) : u \in expired /\ u # t
<1> DEFINE n == IF t \in Range(l) THEN CHOOSE i \in DOMAIN l : l[i] = t ELSE Len(l) + 1
           S == {i \in DOMAIN l : i < n => l[i] \notin expired}
<1>1. S \in SUBSET (DOMAIN l)
  OBVIOUS
<1>2. \A i \in DOMAIN l : l[i] = t => i \in S
  <2> SUFFICES ASSUME NEW i \in DOMAIN l, l[i] = t PROVE ~(i < n)
    OBVIOUS
  <2>1. t \in Range(l)
    BY DEF Range
  <2>2. n \in DOMAIN l /\ l[n] = t
    BY <2>1 DEF Range
  <2>3. n = i
    BY <2>2 DEF IsList, IsInjective
  <2>4. i \in Nat
    BY DEF IsList
  <2> HIDE DEF n
  <2> QED  BY <2>3, <2>4
<1>3. Lookup(l, t) = Kept(l, S)
  BY DEF Lookup
<1>4. \A i \in DOMAIN l : i \notin S => l[i] \in expired
  OBVIOUS
<1> HIDE DEF S, n
<1>5. IsList(Kept(l, S)) /\ Range(Kept(l, S)) = {l[i] : i \in S}
  BY <1>1, KeptElements DEF IsList
<1> QED  BY <1>1, <1>2, <1>3, <1>4, <1>5 DEF Range

(* So does a callback in which the application may call OCCancel for u.    *)
LEMMA CallbackLeaves ==
  ASSUME NEW l, IsList(l), NEW u
  PROVE  /\ IsList(AfterCallback(l, u))
         /\ Range(AfterCallback(l, u)) \subseteq Range(l)
         /\ u # None => u \notin Range(AfterCallback(l, u))
         /\ \A v \in Range(l) \ Range(AfterCallback(l, u)) : v \in expired \/ v = u
<1>1. CASE u = None
  BY <1>1 DEF AfterCallback
<1>2. CASE u # None
  <2>1. AfterCallback(l, u) = DeleteClientCB(Lookup(l, u), u)
    BY <1>2 DEF AfterCallback, Cancel
  <2> DEFINE k == Lookup(l, u)
  <2>2. IsList(k) /\ Range(k) \subseteq Range(l) /\ \A v \in Range(l) \ Range(k) : v \in expired
    BY LookupLeaves
  <2> HIDE DEF k
  <2>3. IsList(DeleteClientCB(k, u)) /\ Range(DeleteClientCB(k, u)) = Range(k) \ {u}
    BY <2>2, DeleteLeaves
  <2> QED  BY <2>1, <2>2, <2>3 DEF k
<1> QED  BY <1>1, <1>2

-----------------------------------------------------------------------------
(* The 4.06 answers for t that are queued.                                 *)
Again(x, t) == x.kind = "notAcceptable" /\ TokenOf(x.id) = t
Places(q, t) == {i \in 1 .. Len(q) : Again(q[i], t)}
Count(q, t) == Cardinality(Places(q, t))

LEMMA CountType ==
  ASSUME NEW q \in Seq(Item), NEW t
  PROVE  IsFiniteSet(Places(q, t)) /\ Count(q, t) \in Nat
<1>1. Len(q) \in Nat
  OBVIOUS
<1>2. IsFiniteSet(1 .. Len(q))
  BY <1>1, FS_Interval
<1>3. Places(q, t) \in SUBSET (1 .. Len(q))
  BY DEF Places
<1>4. IsFiniteSet(Places(q, t))
  BY <1>2, <1>3, FS_Subset
<1> QED  BY <1>4, FS_CardinalityType DEF Count

LEMMA CountReissues ==
  ASSUME recvQ \in Seq(Item), recvQ' \in Seq(Item), NEW t
  PROVE  Reissues(t) = Count(recvQ, t) /\ Reissues(t)' = Count(recvQ', t)
<1>1. DOMAIN recvQ = 1 .. Len(recvQ) /\ DOMAIN recvQ' = 1 .. Len(recvQ')
  OBVIOUS
<1>2. Reissues(t) = Count(recvQ, t)
  BY <1>1 DEF Reissues, Count, Places, Again
<1>3. Reissues(t)' = Count(recvQ', t)
  BY <1>1 DEF Reissues, Count, Places, Again
<1> QED  BY <1>2, <1>3

LEMMA CountAppend ==
  ASSUME NEW q \in Seq(Item), NEW x \in Item, NEW t
  PROVE  Count(Append(q, x), t) = IF Again(x, t) THEN Count(q, t) + 1 ELSE Count(q, t)
<1> DEFINE n == Len(q) + 1
<1>1. /\ Len(Append(q, x)) = n /\ Append(q, x)[n] = x
      /\ \A i \in 1 .. Len(q) : Append(q, x)[i] = q[i]
  BY AppendProperties
<1>2. Len(q) \in Nat /\ 1 .. n = (1 .. Len(q)) \cup {n} /\ n \notin 1 .. Len(q)
  OBVIOUS
<1>3. IsFiniteSet(Places(q, t)) /\ n \notin Places(q, t)
  BY <1>2, CountType DEF Places
<1> HIDE DEF n
<1>4. CASE Again(x, t)
  <2>1. Places(Append(q, x), t) = Places(q, t) \cup {n}
    BY <1>1, <1>2, <1>4 DEF Places
  <2> QED  BY <1>3, <1>4, <2>1, FS_AddElement DEF Count
<1>5. CASE ~Again(x, t)
  <2>1. Places(Append(q, x), t) = Places(q, t)
    BY <1>1, <1>2, <1>5 DEF Places
  <2> QED  BY <1>5, <2>1 DEF Count
<1> QED  BY <1>4, <1>5

LEMMA CountTail ==
  ASSUME NEW q \in Seq(Item), q # << >>, NEW t
  PROVE  /\ Count(Tail(q), t) \in Nat /\ Count(q, t) \in Nat
         /\ Count(Tail(q), t) <= Count(q, t)
         /\ Again(Head(q), t) => Count(Tail(q), t) + 1 <= Count(q, t)
<1> DEFINE C == Places(Tail(q), t)
           D == Places(q, t)
           E == D \ {1}
           f == [i \in C |-> i + 1]
<1>1. /\ Tail(q) \in Seq(Item) /\ Len(Tail(q)) = Len(q) - 1
      /\ \A i \in 1 .. Len(Tail(q)) : Tail(q)[i] = q[i + 1]
  BY HeadTailProperties
<1>2. Len(q) \in Nat /\ Len(q) >= 1 /\ Head(q) = q[1]
  BY EmptySeq
<1>3. \A i \in C : i \in Nat /\ i >= 1 /\ i + 1 \in D /\ i + 1 \in E
  BY <1>1, <1>2 DEF Places
<1>4. f \in Injection(C, E)
  <2>1. f \in [C -> E] /\ \A a \in C : a \in Nat
    BY <1>3
  <2>2. IsInjective(f)
    BY <2>1 DEF IsInjective
  <2> QED  BY <2>1, <2>2 DEF Injection
<1>5. IsFiniteSet(C) /\ IsFiniteSet(D) /\ Count(Tail(q), t) \in Nat /\ Count(q, t) \in Nat
  BY <1>1, CountType
<1>6. 1 \in D <=> Again(Head(q), t)
  BY <1>2 DEF Places
<1>7. Count(q, t) = Cardinality(D) /\ Count(Tail(q), t) = Cardinality(C)
  BY DEF Count
<1> HIDE DEF C, D, f
<1>8. IsFiniteSet(E) /\ Cardinality(E) = IF 1 \in D THEN Cardinality(D) - 1 ELSE Cardinality(D)
  BY <1>5, FS_RemoveElement
<1> HIDE DEF E
<1>9. Cardinality(C) <= Cardinality(E)
  BY <1>4, <1>8, FS_Injection
<1> QED  BY <1>5, <1>6, <1>7, <1>8, <1>9

-----------------------------------------------------------------------------
(* What the network holds after a message.                                 *)
LEMMA EmitKeeps ==
  ASSUME NEW n, IsFiniteSet(n), NEW out, IsFiniteSet(out), Cardinality(n) <= MaxInFlight
  PROVE  /\ IsFiniteSet(Emit(n, out)) /\ Cardinality(Emit(n, out)) <= MaxInFlight
         /\ Emit(n, out) \subseteq n \cup out
<1>1. IsFiniteSet(n \cup out)
  BY FS_Union
<1> QED  BY <1>1 DEF Emit

-----------------------------------------------------------------------------
(* The inductive invariant, by the part of the system it is about.         *)
Issued(t) == attempt[t] # -1

Known(r) == /\ Issued(TokenOf(r.id))
            /\ r.kind = "content" => TokenOf(r.id) \in executed
            /\ r.kind = "notAcceptable" => TokenOf(r.id) \in Legacy

ListOK == /\ IsList(cbList) /\ expired \subseteq Range(cbList)
          /\ \A t \in Range(cbList) : Issued(t)

SendOK == /\ sendQ \in Seq(Id) /\ wire \in Id \cup {None}
          /\ tried \in [Id -> 0 .. TryingCount - 1 \cup {None}]
          /\ \A i \in DOMAIN sendQ : Issued(TokenOf(sendQ[i]))
          /\ wire # None => Issued(TokenOf(wire))
          /\ \A m \in Id : Recorded(m) => Issued(TokenOf(m))

RecvOK == recvQ \in Seq(Item) /\ \A i \in DOMAIN recvQ : Known(recvQ[i])

CountOK == /\ attempt \in [Token -> -1 .. MaxAttempt]
           /\ \A t \in Token : attempt[t] + Reissues(t) <= MaxAttempt

TreeOK == /\ request \in [Token -> [id : Id, slow : BOOLEAN] \cup {None}]
          /\ owed \in [Id -> 0 .. MaxOwed]
          /\ \A t \in Token : request[t] # None => TokenOf(request[t].id) = t /\ Issued(t)
          /\ \A m \in Id : owed[m] > 0 => TokenOf(m) \in executed /\ Issued(TokenOf(m))

ConOK == conOut \subseteq Message /\ \A a \in conOut : Known(a)

TellOK == /\ told \in [Token -> {"none", "answer", "refusal", "timeout", "error", "cancelled"}]
          /\ executed \subseteq Token /\ unsettled \subseteq Token

NetOK == /\ net \subseteq Message /\ IsFiniteSet(net) /\ Cardinality(net) <= MaxInFlight
         /\ \A r \in net : Known(r)

IndInv == ListOK /\ SendOK /\ RecvOK /\ CountOK /\ TreeOK /\ ConOK /\ TellOK /\ NetOK

LEMMA IdToken ==
  ASSUME NEW m \in Id
  PROVE  TokenOf(m) \in Token
BY DEF Id, TokenOf

LEMMA ItemToken ==
  ASSUME NEW x \in Item
  PROVE  x.id \in Id /\ TokenOf(x.id) \in Token
<1>1. x.id \in Id
  BY DEF Item
<1> QED  BY <1>1, IdToken

LEMMA InvTypes == IndInv => TypeOK
BY DEF IndInv, ListOK, SendOK, RecvOK, CountOK, TreeOK, ConOK, TellOK, NetOK, TypeOK, IsList

LEMMA InitInv == Init => IndInv
<1> SUFFICES ASSUME Init PROVE IndInv
  OBVIOUS
<1> USE ExchangeAssumption DEF Init
<1>1. Range(cbList) = {}
  BY DEF Range
<1>2. ListOK
  BY <1>1 DEF ListOK, IsList, IsInjective
<1>3. SendOK
  BY DEF SendOK, Recorded
<1>4. RecvOK
  BY DEF RecvOK
<1>5. CountOK
  <2>1. \A t \in Token : Reissues(t) = 0
    <3> TAKE t \in Token
    <3>1. {i \in DOMAIN recvQ : recvQ[i].kind = "notAcceptable" /\ TokenOf(recvQ[i].id) = t} = {}
      OBVIOUS
    <3> QED  BY <3>1, FS_EmptySet DEF Reissues
  <2> QED  BY <2>1 DEF CountOK
<1>6. TreeOK /\ ConOK /\ TellOK
  BY DEF TreeOK, ConOK, TellOK
<1>7. NetOK
  BY FS_EmptySet DEF NetOK
<1> QED  BY <1>2, <1>3, <1>4, <1>5, <1>6, <1>7 DEF IndInv

-----------------------------------------------------------------------------
(* No step forgets that a request was issued or executed, so each part of  *)
(* the invariant holds as long as its own variables do not change.         *)
Grown == /\ \A t \in Token : attempt[t] # -1 => attempt'[t] # -1
         /\ executed \subseteq executed'

LEMMA KnownGrows ==
  ASSUME Grown, NEW r, r.id \in Id, Known(r)
  PROVE  Known(r)'
BY IdToken DEF Grown, Known, Issued

LEMMA Frames ==
  ASSUME IndInv, Grown
  PROVE  /\ UNCHANGED <<cbList, expired>> => ListOK'
         /\ UNCHANGED <<sendQ, wire, tried>> => SendOK'
         /\ UNCHANGED recvQ => RecvOK'
         /\ UNCHANGED <<attempt, recvQ>> => CountOK'
         /\ UNCHANGED <<request, owed>> => TreeOK'
         /\ UNCHANGED conOut => ConOK'
         /\ UNCHANGED net => NetOK'
<1>1. UNCHANGED <<cbList, expired>> => ListOK'
  <2>1. \A t \in Range(cbList) : t \in Token
    BY DEF IndInv, ListOK, IsList, Range
  <2> QED  BY <2>1 DEF IndInv, ListOK, IsList, IsInjective, Issued, Grown, Range
<1>2. UNCHANGED <<sendQ, wire, tried>> => SendOK'
  <2>1. \A i \in DOMAIN sendQ : TokenOf(sendQ[i]) \in Token
    BY IdToken DEF IndInv, SendOK
  <2>2. wire # None => TokenOf(wire) \in Token
    BY IdToken DEF IndInv, SendOK
  <2> QED  BY <2>1, <2>2, IdToken DEF IndInv, SendOK, Recorded, Issued, Grown
<1>3. UNCHANGED recvQ => RecvOK'
  <2>1. \A i \in DOMAIN recvQ : TokenOf(recvQ[i].id) \in Token
    BY ItemToken DEF IndInv, RecvOK
  <2> QED  BY <2>1 DEF IndInv, RecvOK, Known, Issued, Grown
<1>4. UNCHANGED <<attempt, recvQ>> => CountOK'
  BY DEF IndInv, CountOK, Reissues
<1>5. UNCHANGED <<request, owed>> => TreeOK'
  <2> SUFFICES ASSUME UNCHANGED <<request, owed>> PROVE TreeOK'
    OBVIOUS
  <2>1. \A t \in Token : request'[t] # None => TokenOf(request'[t].id) = t /\ Issued(t)'
    BY DEF IndInv, TreeOK, Issued, Grown
  <2>2. \A m \in Id : owed'[m] > 0 => TokenOf(m) \in executed' /\ Issued(TokenOf(m))'
    BY IdToken DEF IndInv, TreeOK, Issued, Grown
  <2> QED  BY <2>1, <2>2 DEF IndInv, TreeOK
<1>6. UNCHANGED conOut => ConOK'
  BY KnownGrows DEF IndInv, ConOK, Message
<1>7. UNCHANGED net => NetOK'
  BY KnownGrows DEF IndInv, NetOK, Message
<1> QED  BY <1>1, <1>2, <1>3, <1>4, <1>5, <1>6, <1>7

(* The receive queue.                                                      *)
LEMMA Queued ==
  ASSUME IndInv, Grown, UNCHANGED attempt, NEW x \in Item, Known(x),
         recvQ' = Append(recvQ, x),
         x.kind = "notAcceptable" => attempt[TokenOf(x.id)] + Reissues(TokenOf(x.id)) < MaxAttempt
  PROVE  RecvOK' /\ CountOK'
<1>1. recvQ \in Seq(Item) /\ \A i \in DOMAIN recvQ : recvQ[i] \in Item /\ Known(recvQ[i])
  BY DEF IndInv, RecvOK
<1>2. recvQ' \in Seq(Item)
  BY <1>1
<1>3. \A i \in DOMAIN recvQ' : recvQ'[i] \in Item /\ Known(recvQ'[i])
  <2>1. \A i \in DOMAIN recvQ' : (i \in DOMAIN recvQ /\ recvQ'[i] = recvQ[i]) \/ recvQ'[i] = x
    BY <1>1, AppendProperties
  <2> QED  BY <1>1, <2>1
<1>4. \A i \in DOMAIN recvQ' : recvQ'[i].id \in Id
  BY <1>3 DEF Item
<1>5. RecvOK'
  <2>1. \A i \in DOMAIN recvQ' : Known(recvQ[i])'
    BY <1>3, <1>4 DEF Known, Issued, Grown
  <2> QED  BY <1>2, <2>1 DEF RecvOK
<1>6. CountOK'
  <2> SUFFICES ASSUME NEW t \in Token PROVE attempt'[t] + Reissues(t)' <= MaxAttempt
    BY DEF IndInv, CountOK
  <2>1. Reissues(t) = Count(recvQ, t) /\ Reissues(t)' = Count(recvQ', t)
    BY <1>1, <1>2, CountReissues
  <2>2. Count(recvQ, t) \in Nat /\ attempt[t] \in Int /\ attempt[t] + Count(recvQ, t) <= MaxAttempt
    BY <1>1, <2>1, CountType DEF IndInv, CountOK
  <2>3. Count(recvQ', t) = IF Again(x, t) THEN Count(recvQ, t) + 1 ELSE Count(recvQ, t)
    BY <1>1, CountAppend
  <2>4. Again(x, t) => attempt[t] + Count(recvQ, t) < MaxAttempt
    BY <2>1 DEF Again
  <2> QED  BY <2>1, <2>2, <2>3, <2>4, ExchangeAssumption
<1> QED  BY <1>5, <1>6

LEMMA Dequeued ==
  ASSUME IndInv, Grown, recvQ # << >>, recvQ' = Tail(recvQ)
  PROVE  /\ Head(recvQ) \in Item /\ Known(Head(recvQ)) /\ Subject \in Token
         /\ RecvOK'
         /\ UNCHANGED attempt => CountOK'
<1>1. recvQ \in Seq(Item) /\ recvQ # << >> /\ \A i \in DOMAIN recvQ : Known(recvQ[i])
  BY DEF IndInv, RecvOK
<1>2. Head(recvQ) = recvQ[1] /\ 1 \in DOMAIN recvQ
  BY <1>1, EmptySeq
<1>3. Head(recvQ) \in Item /\ Known(Head(recvQ))
  BY <1>1, <1>2
<1>4. Subject \in Token
  BY <1>3, IdToken DEF Subject, Item
<1>5. recvQ' \in Seq(Item) /\ \A i \in DOMAIN recvQ' : i + 1 \in DOMAIN recvQ /\ recvQ'[i] = recvQ[i + 1]
  BY <1>1, HeadTailProperties
<1>6. \A i \in DOMAIN recvQ' : Known(recvQ[i])'
  <2>1. \A i \in DOMAIN recvQ' : Known(recvQ'[i]) /\ recvQ'[i] \in Item
    BY <1>1, <1>5
  <2>2. \A i \in DOMAIN recvQ' : TokenOf(recvQ'[i].id) \in Token
    BY <2>1, ItemToken
  <2> QED  BY <2>1, <2>2 DEF Known, Issued, Grown
<1>7. ASSUME UNCHANGED attempt PROVE CountOK'
  <2> SUFFICES ASSUME NEW t \in Token PROVE attempt'[t] + Reissues(t)' <= MaxAttempt
    BY <1>7 DEF IndInv, CountOK
  <2>1. Reissues(t) = Count(recvQ, t) /\ Reissues(t)' = Count(recvQ', t)
    BY <1>1, <1>5, CountReissues
  <2>2. attempt[t] \in Int /\ attempt[t] + Count(recvQ, t) <= MaxAttempt
    BY <2>1 DEF IndInv, CountOK
  <2>3. Count(recvQ', t) \in Nat /\ Count(recvQ, t) \in Nat /\ Count(recvQ', t) <= Count(recvQ, t)
    BY <1>1, CountTail
  <2> QED  BY <1>7, <2>1, <2>2, <2>3, ExchangeAssumption
<1> QED  BY <1>3, <1>4, <1>5, <1>6, <1>7 DEF RecvOK

(* The send queue.                                                         *)
LEMMA Appended ==
  ASSUME IndInv, Grown, NEW m \in Id, sendQ' = Append(sendQ, m), Issued(TokenOf(m))',
         UNCHANGED <<wire, tried>>
  PROVE  SendOK'
<1>1. sendQ \in Seq(Id)
  BY DEF IndInv, SendOK
<1>2. /\ sendQ' \in Seq(Id) /\ Len(sendQ') = Len(sendQ) + 1 /\ sendQ'[Len(sendQ) + 1] = m
      /\ \A i \in 1 .. Len(sendQ) : sendQ'[i] = sendQ[i]
  BY <1>1, AppendProperties
<1>3. DOMAIN sendQ = 1 .. Len(sendQ) /\ DOMAIN sendQ' = (1 .. Len(sendQ)) \cup {Len(sendQ) + 1}
  BY <1>1, <1>2
<1>4. \A k \in Id : attempt[TokenOf(k)] # -1 => attempt'[TokenOf(k)] # -1
  BY IdToken DEF Grown
<1>5. \A i \in DOMAIN sendQ' : attempt'[TokenOf(sendQ'[i])] # -1
  <2>1. \A i \in DOMAIN sendQ : sendQ[i] \in Id /\ attempt[TokenOf(sendQ[i])] # -1
    BY <1>1 DEF IndInv, SendOK, Issued
  <2> QED  BY <1>2, <1>3, <1>4, <2>1 DEF Issued
<1> QED  BY <1>2, <1>4, <1>5 DEF IndInv, SendOK, Issued, Recorded

(* The callback list never gains a callback by a lookup or a callback.     *)
LEMMA Relisted ==
  ASSUME IndInv, Grown, NEW list, IsList(list), Range(list) \subseteq Range(cbList),
         cbList' = list, expired' \subseteq Range(list)
  PROVE  ListOK'
<1>1. \A t \in Range(list) : t \in Token /\ Issued(t)
  <2>1. \A t \in Range(list) : Issued(t)
    BY DEF IndInv, ListOK
  <2>2. list \in Seq(Token)
    BY DEF IsList
  <2>3. \A t \in Range(list) : t \in Token
    BY <2>2 DEF Range
  <2> QED  BY <2>1, <2>3
<1> QED  BY <1>1 DEF ListOK, IsList, IsInjective, Issued, Grown, Range

(* The network.                                                            *)
LEMMA Emitted ==
  ASSUME IndInv, Grown, NEW n \in SUBSET net, NEW out \in SUBSET Message, IsFiniteSet(out),
         net' = Emit(n, out), \A r \in out : Known(r)'
  PROVE  NetOK'
<1>1. IsFiniteSet(n) /\ Cardinality(n) <= MaxInFlight
  <2>1. IsFiniteSet(net) /\ Cardinality(net) <= MaxInFlight
    BY DEF IndInv, NetOK
  <2>2. IsFiniteSet(n) /\ Cardinality(n) <= Cardinality(net)
    BY <2>1, FS_Subset
  <2>3. Cardinality(n) \in Nat /\ Cardinality(net) \in Nat
    BY <2>1, <2>2, FS_CardinalityType
  <2> QED  BY <2>1, <2>2, <2>3, ExchangeAssumption
<1>2. IsFiniteSet(net') /\ Cardinality(net') <= MaxInFlight /\ net' \subseteq n \cup out
  BY <1>1, EmitKeeps
<1>3. net' \subseteq Message
  BY <1>2 DEF IndInv, NetOK
<1>4. \A r \in net' : Known(r)'
  <2>1. \A r \in net : r.id \in Id /\ Known(r)
    BY DEF IndInv, NetOK, Message
  <2> QED  BY <1>2, <2>1, KnownGrows
<1> QED  BY <1>2, <1>3, <1>4 DEF NetOK

-----------------------------------------------------------------------------
(* The client's actions, one by one.                                       *)
LEMMA RequestKnown ==
  ASSUME NEW m \in Id, Issued(TokenOf(m))
  PROVE  RequestMsg(m) \in Message /\ Known(RequestMsg(m))
BY DEF RequestMsg, Msg, Message, Kind, Known

LEMMA MakesItem ==
  ASSUME NEW m \in Id, NEW kind \in {"timeout", "error"}, NEW type \in {"CON", "NON"}
  PROVE  /\ Msg(kind, m, type) \in Item
         /\ Msg(kind, m, type).id = m /\ Msg(kind, m, type).kind = kind
BY DEF Msg, Item

LEMMA MakesReply ==
  ASSUME NEW m \in Id, Issued(TokenOf(m)), UNCHANGED attempt,
         NEW kind \in {"empty", "refused", "clientAck", "clientRst"}, NEW type \in {"CON", "NON", "ACK"}
  PROVE  \A r \in {Msg(kind, m, type)} : r \in Message /\ Known(r)'
BY DEF Msg, Message, Kind, Known, Issued

LEMMA TellFrame ==
  ASSUME IndInv, UNCHANGED <<told, executed, unsettled>>
  PROVE  TellOK'
BY DEF IndInv, TellOK

LEMMA IssueStep ==
  ASSUME IndInv, NEW t \in Token, OCDoRequest(t)
  PROVE  IndInv'
<1> USE DEF OCDoRequest, server
<1>1. attempt \in [Token -> -1 .. MaxAttempt] /\ MaxAttempt \in Nat
  BY ExchangeAssumption DEF IndInv, CountOK
<1>2. attempt'[t] = 0 /\ \A u \in Token : u # t => attempt'[u] = attempt[u]
  BY <1>1
<1>3. Grown
  BY <1>1, <1>2 DEF Grown
<1>4. ListOK'
  <2>1. cbList \in Seq(Token) /\ IsInjective(cbList)
    BY DEF IndInv, ListOK, IsList
  <2>2. \A i \in DOMAIN cbList : cbList[i] # t
    BY DEF IndInv, ListOK, Range, Issued
  <2>3. /\ cbList' \in Seq(Token) /\ Len(cbList') = Len(cbList) + 1 /\ cbList'[Len(cbList) + 1] = t
        /\ \A i \in 1 .. Len(cbList) : cbList'[i] = cbList[i]
    BY <2>1, AppendProperties
  <2>4. DOMAIN cbList = 1 .. Len(cbList) /\ DOMAIN cbList' = (1 .. Len(cbList)) \cup {Len(cbList) + 1}
    BY <2>1, <2>3
  <2>5. IsInjective(cbList')
    BY <2>1, <2>2, <2>3, <2>4 DEF IsInjective
  <2>6. Range(cbList') = Range(cbList) \cup {t}
    BY <2>3, <2>4 DEF Range
  <2>7. \A u \in Range(cbList') : attempt'[u] # -1
    <3>1. \A u \in Range(cbList) : u \in Token /\ attempt[u] # -1
      BY <2>1 DEF IndInv, ListOK, Range, Issued
    <3> QED  BY <1>1, <1>2, <2>6, <3>1
  <2> QED  BY <2>3, <2>5, <2>6, <2>7 DEF IndInv, ListOK, IsList, Issued
<1>5. SendOK'
  <2>1. <<t, 0>> \in Id /\ TokenOf(<<t, 0>>) = t
    BY <1>1 DEF Id, TokenOf
  <2> QED  BY <1>2, <1>3, <2>1, Appended DEF Issued
<1>6. CountOK'
  <2>1. \A u \in Token : Reissues(u)' = Reissues(u)
    BY DEF Reissues
  <2>2. Reissues(t) = 0
    <3>1. {i \in DOMAIN recvQ : recvQ[i].kind = "notAcceptable" /\ TokenOf(recvQ[i].id) = t} = {}
      BY DEF IndInv, RecvOK, Known, Issued
    <3> QED  BY <3>1, FS_EmptySet DEF Reissues
  <2> QED  BY <1>1, <1>2, <2>1, <2>2 DEF IndInv, CountOK
<1>7. RecvOK' /\ TreeOK' /\ ConOK' /\ NetOK'
  BY <1>3, Frames
<1>8. TellOK'
  BY TellFrame
<1> QED  BY <1>4, <1>5, <1>6, <1>7, <1>8 DEF IndInv

LEMMA CancelStep ==
  ASSUME IndInv, NEW t \in Token, OCCancel(t)
  PROVE  IndInv'
<1> USE DEF OCCancel, server
<1>1. Grown
  BY DEF Grown
<1>2. ListOK'
  <2> DEFINE k == Lookup(cbList, t)
  <2>1. IsList(cbList)
    BY DEF IndInv, ListOK
  <2>2. IsList(k) /\ Range(k) \subseteq Range(cbList)
    BY <2>1, LookupLeaves
  <2> HIDE DEF k
  <2>3. IsList(DeleteClientCB(k, t)) /\ Range(DeleteClientCB(k, t)) \subseteq Range(cbList)
    BY <2>2, DeleteLeaves
  <2>4. cbList' = DeleteClientCB(k, t) /\ expired' \subseteq Range(DeleteClientCB(k, t))
    BY DEF Relist, Cancel, k
  <2> QED  BY <1>1, <2>3, <2>4, Relisted
<1>3. TellOK'
  BY DEF IndInv, TellOK
<1>4. SendOK' /\ RecvOK' /\ CountOK' /\ TreeOK' /\ ConOK' /\ NetOK'
  BY <1>1, Frames
<1> QED  BY <1>2, <1>3, <1>4 DEF IndInv

LEMMA ExpireStep ==
  ASSUME IndInv, NEW t \in Token, Expire(t)
  PROVE  IndInv'
<1> USE DEF Expire, server
<1>1. Grown
  BY DEF Grown
<1>2. ListOK'
  BY DEF IndInv, ListOK, IsList, IsInjective, Issued, Live, Range
<1>3. SendOK' /\ RecvOK' /\ CountOK' /\ TreeOK' /\ ConOK' /\ NetOK'
  BY <1>1, Frames
<1>4. TellOK'
  BY TellFrame
<1> QED  BY <1>2, <1>3, <1>4 DEF IndInv

(* The head of the send queue.                                             *)
LEMMA SendHead ==
  ASSUME IndInv, sendQ # << >>
  PROVE  /\ Head(sendQ) \in Id /\ Issued(TokenOf(Head(sendQ)))
         /\ Tail(sendQ) \in Seq(Id)
         /\ \A i \in DOMAIN Tail(sendQ) : Issued(TokenOf(Tail(sendQ)[i]))
<1>1. sendQ \in Seq(Id) /\ \A i \in DOMAIN sendQ : Issued(TokenOf(sendQ[i]))
  BY DEF IndInv, SendOK
<1>2. Head(sendQ) = sendQ[1] /\ 1 \in DOMAIN sendQ
  BY <1>1, EmptySeq
<1>3. \A i \in DOMAIN Tail(sendQ) : i + 1 \in DOMAIN sendQ /\ Tail(sendQ)[i] = sendQ[i + 1]
  BY <1>1, HeadTailProperties
<1> QED  BY <1>1, <1>2, <1>3

LEMMA SendStep ==
  ASSUME IndInv, SendUnicastData
  PROVE  IndInv'
<1> USE DEF SendUnicastData, server
<1>1. Grown
  BY DEF Grown
<1> DEFINE h == Head(sendQ)
<1>2. /\ h \in Id /\ Issued(TokenOf(h)) /\ Tail(sendQ) \in Seq(Id)
      /\ \A i \in DOMAIN Tail(sendQ) : Issued(TokenOf(Tail(sendQ)[i]))
  BY SendHead
<1>3. SendOK'
  <2>1. wire' = h \/ wire' = None
    OBVIOUS
  <2> QED  BY <1>2, <2>1 DEF IndInv, SendOK, Issued, Recorded
<1>4. NetOK'
  <2> DEFINE out == {RequestMsg(h)}
  <2>1. out \in SUBSET Message /\ \A r \in out : Known(r)
    BY <1>2, RequestKnown
  <2>2. \A r \in out : Known(r)'
    BY <2>1 DEF Known, Issued
  <2>3. IsFiniteSet(out)
    BY FS_Singleton
  <2>4. net' = Emit(net, out)
    OBVIOUS
  <2> HIDE DEF out
  <2> QED  BY <1>1, <2>1, <2>2, <2>3, <2>4, Emitted
<1>5. ListOK' /\ RecvOK' /\ CountOK' /\ TreeOK' /\ ConOK'
  BY <1>1, Frames
<1>6. TellOK'
  BY TellFrame
<1> QED  BY <1>3, <1>4, <1>5, <1>6 DEF IndInv

LEMMA SendFailsStep ==
  ASSUME IndInv, SendFails
  PROVE  IndInv'
<1> USE DEF SendFails, server
<1>1. Grown
  BY DEF Grown
<1> DEFINE h == Head(sendQ)
           x == Msg("error", h, "NON")
<1>2. /\ h \in Id /\ Issued(TokenOf(h)) /\ Tail(sendQ) \in Seq(Id)
      /\ \A i \in DOMAIN Tail(sendQ) : Issued(TokenOf(Tail(sendQ)[i]))
  BY SendHead
<1>3. SendOK'
  BY <1>2 DEF IndInv, SendOK, Issued, Recorded
<1>4. x \in Item /\ Known(x) /\ x.kind # "notAcceptable"
  BY <1>2, MakesItem DEF Known
<1>5. recvQ' = Append(recvQ, x)
  OBVIOUS
<1>6. RecvOK' /\ CountOK'
  <2> HIDE DEF x
  <2> QED  BY <1>1, <1>4, <1>5, Queued
<1>7. ListOK' /\ TreeOK' /\ ConOK' /\ NetOK'
  BY <1>1, Frames
<1>8. TellOK'
  BY TellFrame
<1> QED  BY <1>3, <1>6, <1>7, <1>8 DEF IndInv

LEMMA SentStep ==
  ASSUME IndInv, SentData
  PROVE  IndInv'
<1> USE DEF SentData, server
<1>1. Grown
  BY DEF Grown
<1>2. SendOK'
  BY ExchangeAssumption DEF IndInv, SendOK, Issued, Recorded
<1>3. ListOK' /\ RecvOK' /\ CountOK' /\ TreeOK' /\ ConOK' /\ NetOK'
  BY <1>1, Frames
<1>4. TellOK'
  BY TellFrame
<1> QED  BY <1>2, <1>3, <1>4 DEF IndInv

LEMMA SendtoFailsStep ==
  ASSUME IndInv, NEW m \in Id, SendtoFails(m)
  PROVE  IndInv'
<1> USE DEF SendtoFails, CAErrorHandler, server
<1>1. Grown
  BY DEF Grown
<1> DEFINE x == Msg("error", m, "NON")
           n == net \ {RequestMsg(m)}
<1>2. Issued(TokenOf(m))
  BY DEF IndInv, NetOK, Known, RequestMsg, Msg
<1>3. SendOK'
  BY DEF IndInv, SendOK, Issued, Recorded
<1>4. x \in Item /\ Known(x) /\ x.kind # "notAcceptable"
  BY <1>2, MakesItem DEF Known
<1>5. recvQ' = Append(recvQ, x)
  OBVIOUS
<1>6. RecvOK' /\ CountOK'
  <2> HIDE DEF x
  <2> QED  BY <1>1, <1>4, <1>5, Queued
<1>7. NetOK'
  <2>1. n \in SUBSET net /\ net' = n
    OBVIOUS
  <2>2. net' = Emit(n, {}) /\ IsFiniteSet({})
    BY <2>1, FS_EmptySet DEF Emit
  <2> HIDE DEF n
  <2> QED  BY <1>1, <2>1, <2>2, Emitted
<1>8. ListOK' /\ TreeOK' /\ ConOK'
  BY <1>1, Frames
<1>9. TellOK'
  BY TellFrame
<1> QED  BY <1>3, <1>6, <1>7, <1>8, <1>9 DEF IndInv

LEMMA RetransmitStep ==
  ASSUME IndInv, NEW m \in Id, Retransmit(m)
  PROVE  IndInv'
<1> USE DEF Retransmit, server
<1>1. Grown
  BY DEF Grown
<1> DEFINE x == Msg("timeout", m, "CON")
           out == {RequestMsg(m)}
<1>2. Issued(TokenOf(m)) /\ tried[m] \in 0 .. TryingCount - 1 /\ TryingCount \in Nat
  BY ExchangeAssumption DEF IndInv, SendOK, Recorded
<1>3. SendOK'
  <2>1. \/ tried' = [tried EXCEPT ![m] = None]
        \/ tried' = [tried EXCEPT ![m] = @ + 1] /\ tried[m] + 1 \in 0 .. TryingCount - 1
    BY <1>2 DEF LastTry
  <2>2. tried' \in [Id -> 0 .. TryingCount - 1 \cup {None}]
    BY <2>1 DEF IndInv, SendOK
  <2>3. \A k \in Id : tried'[k] # None => Issued(TokenOf(k))
    BY <1>2, <2>1 DEF IndInv, SendOK, Recorded
  <2> QED  BY <2>2, <2>3 DEF IndInv, SendOK, Issued, Recorded
<1>4. x \in Item /\ Known(x) /\ x.kind # "notAcceptable"
  BY <1>2, MakesItem DEF Known
<1>5. recvQ' = Append(recvQ, x) \/ UNCHANGED recvQ
  OBVIOUS
<1>6. RecvOK' /\ CountOK'
  <2> HIDE DEF x
  <2>1. CASE UNCHANGED recvQ
    BY <1>1, <2>1, Frames
  <2>2. CASE recvQ' = Append(recvQ, x)
    BY <1>1, <1>4, <2>2, Queued
  <2> QED  BY <1>5, <2>1, <2>2
<1>7. NetOK'
  <2>1. out \in SUBSET Message /\ \A r \in out : Known(r)
    BY <1>2, RequestKnown
  <2>2. \A r \in out : Known(r)'
    BY <2>1 DEF Known, Issued
  <2>3. IsFiniteSet(out) /\ net' = Emit(net, out)
    BY FS_Singleton
  <2> HIDE DEF out
  <2> QED  BY <1>1, <2>1, <2>2, <2>3, Emitted
<1>8. ListOK' /\ TreeOK' /\ ConOK'
  BY <1>1, Frames
<1>9. TellOK'
  BY TellFrame
<1> QED  BY <1>3, <1>6, <1>7, <1>8, <1>9 DEF IndInv

LEMMA ReceiveStep ==
  ASSUME IndInv, NEW r \in net, ReceiveResponse(r)
  PROVE  IndInv'
<1> USE DEF ReceiveResponse, server
<1>1. Grown
  BY DEF Grown
<1>2. r \in Message /\ Known(r) /\ r.id \in Id
  BY DEF IndInv, NetOK, Message
<1>3. r \in Item
  BY <1>2 DEF Message, Item
<1>4. SendOK'
  BY <1>2 DEF IndInv, SendOK, Issued, Recorded
<1>5. RecvOK' /\ CountOK'
  <2>1. recvQ' = Append(recvQ, r) \/ UNCHANGED recvQ
    OBVIOUS
  <2>2. CASE UNCHANGED recvQ
    BY <1>1, <2>2, Frames
  <2>3. CASE recvQ' = Append(recvQ, r)
    BY <1>1, <1>2, <1>3, <2>3, Queued
  <2> QED  BY <2>1, <2>2, <2>3
<1>6. NetOK'
  BY <1>1, Emitted, FS_EmptySet DEF Receive
<1>7. ListOK' /\ TreeOK' /\ ConOK'
  BY <1>1, Frames
<1>8. TellOK'
  BY TellFrame
<1> QED  BY <1>4, <1>5, <1>6, <1>7, <1>8 DEF IndInv

-----------------------------------------------------------------------------
(* OCProcess.  The list after it was walked for t and a callback that may  *)
(* have cancelled u, and when t is forgotten besides.                      *)
Called(t, u) == AfterCallback(Lookup(cbList, t), u)
Forgotten(t, u) == DeleteClientCB(Called(t, u), t)

LEMMA CalledList ==
  ASSUME IndInv, NEW t, NEW u
  PROVE  /\ IsList(Called(t, u)) /\ Range(Called(t, u)) \subseteq Range(cbList)
         /\ u # None => u \notin Range(Called(t, u))
         /\ \A v \in Range(cbList) \ Range(Called(t, u)) : v \in expired \/ v = u
<1> DEFINE k == Lookup(cbList, t)
           l == AfterCallback(k, u)
<1>1. IsList(cbList)
  BY DEF IndInv, ListOK
<1>2. /\ IsList(k) /\ Range(k) \subseteq Range(cbList)
      /\ \A v \in Range(cbList) \ Range(k) : v \in expired /\ v # t
  BY <1>1, LookupLeaves
<1>3. Called(t, u) = l
  BY DEF Called
<1> HIDE DEF k
<1>4. /\ IsList(l) /\ Range(l) \subseteq Range(k)
      /\ u # None => u \notin Range(l)
      /\ \A v \in Range(k) \ Range(l) : v \in expired \/ v = u
  BY <1>2, CallbackLeaves
<1> QED  BY <1>2, <1>3, <1>4

LEMMA ForgottenList ==
  ASSUME IndInv, NEW t, NEW u
  PROVE  /\ IsList(Forgotten(t, u)) /\ Range(Forgotten(t, u)) \subseteq Range(cbList)
         /\ t \notin Range(Forgotten(t, u))
         /\ u # None => u \notin Range(Forgotten(t, u))
         /\ \A v \in Range(cbList) \ Range(Forgotten(t, u)) : v \in expired \/ v = u \/ v = t
<1> DEFINE l == Called(t, u)
<1>1. /\ IsList(l) /\ Range(l) \subseteq Range(cbList)
      /\ u # None => u \notin Range(l)
      /\ \A v \in Range(cbList) \ Range(l) : v \in expired \/ v = u
  BY CalledList
<1>2. Forgotten(t, u) = DeleteClientCB(l, t)
  BY DEF Forgotten
<1> HIDE DEF l
<1>3. IsList(DeleteClientCB(l, t)) /\ Range(DeleteClientCB(l, t)) = Range(l) \ {t}
  BY <1>1, DeleteLeaves
<1> QED  BY <1>1, <1>2, <1>3

LEMMA CalledListOK ==
  ASSUME IndInv, Grown, NEW t, NEW u, cbList' \in {Called(t, u), Forgotten(t, u)},
         expired' \subseteq Range(cbList')
  PROVE  ListOK'
<1>1. /\ IsList(Called(t, u)) /\ Range(Called(t, u)) \subseteq Range(cbList)
      /\ IsList(Forgotten(t, u)) /\ Range(Forgotten(t, u)) \subseteq Range(cbList)
  BY CalledList, ForgottenList
<1> QED  BY <1>1, Relisted

LEMMA ToldType ==
  ASSUME IndInv, UNCHANGED <<executed, unsettled>>, NEW u,
         NEW r \in {"answer", "refusal", "timeout", "error"}, Told(r, u)
  PROVE  TellOK'
BY DEF IndInv, TellOK, Told

LEMMA Unsettled ==
  ASSUME IndInv, Subject \in Token, unsettled' = Unsettle(Subject), UNCHANGED <<told, executed>>
  PROVE  TellOK'
BY DEF IndInv, TellOK, Unsettle

LEMMA LookedUp ==
  ASSUME IndInv, Grown, NEW t, Relist(Lookup(cbList, t))
  PROVE  ListOK'
<1>1. IsList(cbList)
  BY DEF IndInv, ListOK
<1>2. IsList(Lookup(cbList, t)) /\ Range(Lookup(cbList, t)) \subseteq Range(cbList)
  BY <1>1, LookupLeaves
<1>3. cbList' = Lookup(cbList, t) /\ expired' \subseteq Range(Lookup(cbList, t))
  BY DEF Relist
<1> QED  BY <1>2, <1>3, Relisted

LEMMA RegularStep ==
  ASSUME IndInv, NEW keep \in BOOLEAN, NEW u \in Token \cup {None}, HandleRegular(keep, u)
  PROVE  IndInv'
<1> USE DEF HandleRegular, server
<1>1. Grown
  BY DEF Grown
<1>2. Head(recvQ) \in Item /\ Known(Head(recvQ)) /\ RecvOK' /\ CountOK'
  BY <1>1, Dequeued DEF Taken
<1>3. ListOK'
  <2>1. cbList' \in {Called(Subject, u), Forgotten(Subject, u)} /\ expired' \subseteq Range(cbList')
    BY DEF Called, Forgotten, Relist, AfterTimeout
  <2> QED  BY <1>1, <2>1, CalledListOK
<1>4. TellOK'
  <2>1. \E r \in {"answer", "refusal", "timeout", "error"} : Told(r, u)
    OBVIOUS
  <2> QED  BY <2>1, ToldType
<1>5. NetOK'
  <2> DEFINE a == Msg("clientAck", Head(recvQ).id, "ACK")
             out == IF Head(recvQ).type = "CON" THEN {a} ELSE {}
  <2>1. \A r \in {a} : r \in Message /\ Known(r)'
    <3>1. Head(recvQ).id \in Id /\ Issued(TokenOf(Head(recvQ).id))
      BY <1>2, ItemToken DEF Known
    <3> QED  BY <3>1, MakesReply
  <2>2. out \in SUBSET Message /\ (\A r \in out : Known(r)') /\ IsFiniteSet(out)
    BY <2>1, FS_EmptySet, FS_Singleton
  <2>3. net' = Emit(net, out)
    OBVIOUS
  <2> HIDE DEF out
  <2> QED  BY <1>1, <2>2, <2>3, Emitted
<1>6. SendOK' /\ TreeOK' /\ ConOK'
  BY <1>1, Frames
<1> QED  BY <1>2, <1>3, <1>4, <1>5, <1>6 DEF IndInv

LEMMA NotParsedStep ==
  ASSUME IndInv, HandleNotParsed
  PROVE  IndInv'
<1> USE DEF HandleNotParsed, server
<1>1. Grown
  BY DEF Grown
<1>2. Subject \in Token /\ RecvOK' /\ CountOK'
  BY <1>1, Dequeued DEF Taken
<1>3. ListOK' /\ TellOK'
  BY <1>1, <1>2, LookedUp, Unsettled
<1>4. SendOK' /\ TreeOK' /\ ConOK' /\ NetOK'
  BY <1>1, Frames
<1> QED  BY <1>2, <1>3, <1>4 DEF IndInv

LEMMA EmptyStep ==
  ASSUME IndInv, HandleEmpty
  PROVE  IndInv'
<1> USE DEF HandleEmpty, server
<1>1. Grown
  BY DEF Grown
<1>2. Subject \in Token /\ RecvOK' /\ CountOK'
  BY <1>1, Dequeued DEF Taken
<1>3. ListOK' /\ TellOK'
  BY <1>1, <1>2, LookedUp, Unsettled
<1>4. SendOK' /\ TreeOK' /\ ConOK' /\ NetOK'
  BY <1>1, Frames
<1> QED  BY <1>2, <1>3, <1>4 DEF IndInv

(* The reissue of a 4.06 was allowed for when the answer was queued.       *)
LEMMA ReissueBound ==
  ASSUME IndInv, HandleNotAcceptable, Subject \in Token
  PROVE  /\ attempt[Subject] \in Nat /\ attempt[Subject] + 1 <= MaxAttempt
         /\ \A t \in Token : /\ Count(Tail(recvQ), t) \in Nat
                             /\ attempt[t] + Count(Tail(recvQ), t) <= MaxAttempt
                             /\ t = Subject => attempt[t] + 1 + Count(Tail(recvQ), t) <= MaxAttempt
<1>1. recvQ \in Seq(Item) /\ recvQ # << >> /\ Tail(recvQ) \in Seq(Item)
  BY HeadTailProperties DEF IndInv, RecvOK, HandleNotAcceptable, Taken
<1>2. \A t \in Token : Count(recvQ, t) \in Nat /\ attempt[t] \in Int /\ attempt[t] + Count(recvQ, t) <= MaxAttempt
  <2> TAKE t \in Token
  <2>1. Reissues(t) = Count(recvQ, t)
    <3>1. DOMAIN recvQ = 1 .. Len(recvQ)
      BY <1>1
    <3> QED  BY <3>1 DEF Reissues, Count, Places, Again
  <2> QED  BY <1>1, <2>1, CountType DEF IndInv, CountOK
<1>3. \A t \in Token : /\ Count(Tail(recvQ), t) \in Nat
                       /\ Count(Tail(recvQ), t) <= Count(recvQ, t)
                       /\ t = Subject => Count(Tail(recvQ), t) + 1 <= Count(recvQ, t)
  <2> TAKE t \in Token
  <2>1. t = Subject => Again(Head(recvQ), t)
    BY DEF Again, HandleNotAcceptable, Taken, Subject
  <2> QED  BY <1>1, <2>1, CountTail
<1>4. attempt[Subject] \in Nat
  <2>1. Live(Subject)
    BY DEF HandleNotAcceptable
  <2>2. attempt[Subject] # -1
    BY <2>1 DEF Live, IndInv, ListOK, Issued
  <2> QED  BY <2>2 DEF IndInv, CountOK
<1>5. MaxAttempt \in Nat
  BY ExchangeAssumption
<1>6. \A t \in Token : /\ attempt[t] + Count(Tail(recvQ), t) <= MaxAttempt
                       /\ t = Subject => attempt[t] + 1 + Count(Tail(recvQ), t) <= MaxAttempt
  BY <1>2, <1>3, <1>5
<1>7. attempt[Subject] + 1 <= MaxAttempt
  <2>1. Count(Tail(recvQ), Subject) \in Nat /\ attempt[Subject] + 1 + Count(Tail(recvQ), Subject) <= MaxAttempt
    BY <1>3, <1>6
  <2> QED  BY <1>4, <1>5, <2>1
<1> QED  BY <1>3, <1>4, <1>6, <1>7

LEMMA NotAcceptableStep ==
  ASSUME IndInv, HandleNotAcceptable
  PROVE  IndInv'
<1> USE DEF HandleNotAcceptable, server
<1>1. attempt \in [Token -> -1 .. MaxAttempt] /\ MaxAttempt \in Nat
  BY ExchangeAssumption DEF IndInv, CountOK
<1>2. /\ recvQ \in Seq(Item) /\ recvQ # << >> /\ Tail(recvQ) \in Seq(Item)
      /\ Head(recvQ) \in Item /\ Known(Head(recvQ)) /\ Head(recvQ).kind = "notAcceptable"
  BY HeadTailProperties, EmptySeq DEF IndInv, RecvOK, Taken
<1>3. Subject \in Token /\ Subject \in Legacy
  BY <1>2, ItemToken DEF Subject, Known
<1> DEFINE a == attempt[Subject]
           q == Tail(recvQ)
<1>4. /\ a \in Nat /\ a + 1 <= MaxAttempt
      /\ \A t \in Token : /\ Count(q, t) \in Nat /\ attempt[t] + Count(q, t) <= MaxAttempt
                          /\ t = Subject => attempt[t] + 1 + Count(q, t) <= MaxAttempt
  BY <1>3, ReissueBound
<1>5. /\ attempt' = [attempt EXCEPT ![Subject] = a + 1]
      /\ attempt' \in [Token -> -1 .. MaxAttempt]
      /\ attempt'[Subject] = a + 1 /\ \A t \in Token : t # Subject => attempt'[t] = attempt[t]
  BY <1>1, <1>3, <1>4
<1>6. Grown
  BY <1>4, <1>5 DEF Grown
<1>7. recvQ' = q /\ RecvOK'
  BY <1>6, Dequeued DEF Taken
<1>8. CountOK'
  <2> SUFFICES ASSUME NEW t \in Token PROVE attempt'[t] + Reissues(t)' <= MaxAttempt
    BY <1>5 DEF CountOK
  <2>1. Reissues(t)' = Count(q, t)
    BY <1>2, <1>7, CountReissues
  <2> HIDE DEF a, q
  <2>2. CASE t = Subject
    BY <1>4, <1>5, <2>1, <2>2 DEF a
  <2>3. CASE t # Subject
    BY <1>4, <1>5, <2>1, <2>3
  <2> QED  BY <2>2, <2>3
<1>9. SendOK'
  <2> DEFINE m == <<Subject, a + 1>>
  <2>1. m \in Id /\ TokenOf(m) = Subject
    BY <1>1, <1>3, <1>4 DEF Id, TokenOf
  <2>2. sendQ' = Append(sendQ, m) /\ attempt'[Subject] # -1
    BY <1>4, <1>5
  <2> HIDE DEF m
  <2> QED  BY <1>6, <2>1, <2>2, Appended DEF Issued
<1>10. ListOK'
  BY <1>6, LookedUp
<1>11. TreeOK' /\ ConOK' /\ NetOK'
  BY <1>6, Frames
<1>12. TellOK'
  BY TellFrame
<1> QED  BY <1>7, <1>8, <1>9, <1>10, <1>11, <1>12 DEF IndInv

LEMMA TimeoutStep ==
  ASSUME IndInv, NEW u \in Token \cup {None}, HandleTimeout(u)
  PROVE  IndInv'
<1> USE DEF HandleTimeout, server
<1>1. Grown
  BY DEF Grown
<1>2. RecvOK' /\ CountOK'
  BY <1>1, Dequeued DEF Taken
<1>3. ListOK'
  <2>1. cbList' \in {Called(Subject, u), Forgotten(Subject, u)} /\ expired' \subseteq Range(cbList')
    BY DEF Called, Forgotten, Relist, AfterTimeout
  <2> QED  BY <1>1, <2>1, CalledListOK
<1>4. TellOK'
  BY ToldType
<1>5. SendOK' /\ TreeOK' /\ ConOK' /\ NetOK'
  BY <1>1, Frames
<1> QED  BY <1>2, <1>3, <1>4, <1>5 DEF IndInv

LEMMA ErrorStep ==
  ASSUME IndInv, NEW keep \in BOOLEAN, NEW u \in Token \cup {None}, HandleCAErrorResponse(keep, u)
  PROVE  IndInv'
<1> USE DEF HandleCAErrorResponse, server
<1>1. Grown
  BY DEF Grown
<1>2. RecvOK' /\ CountOK'
  BY <1>1, Dequeued DEF Taken
<1>3. ListOK'
  <2>1. cbList' \in {Called(Subject, u), Forgotten(Subject, u)} /\ expired' \subseteq Range(cbList')
    BY DEF Called, Forgotten, Relist, AfterTimeout
  <2> QED  BY <1>1, <2>1, CalledListOK
<1>4. TellOK'
  BY ToldType
<1>5. SendOK' /\ TreeOK' /\ ConOK' /\ NetOK'
  BY <1>1, Frames
<1> QED  BY <1>2, <1>3, <1>4, <1>5 DEF IndInv

LEMMA UnknownStep ==
  ASSUME IndInv, HandleUnknown
  PROVE  IndInv'
<1> USE DEF HandleUnknown, server
<1>1. Grown
  BY DEF Grown
<1>2. Head(recvQ) \in Item /\ Known(Head(recvQ)) /\ RecvOK' /\ CountOK'
  BY <1>1, Dequeued DEF Taken
<1>3. NetOK'
  <2> DEFINE a == Msg("clientRst", Head(recvQ).id, "ACK")
             out == IF Head(recvQ).kind = "error" THEN {} ELSE {a}
  <2>1. \A r \in {a} : r \in Message /\ Known(r)'
    <3>1. Head(recvQ).id \in Id /\ Issued(TokenOf(Head(recvQ).id))
      BY <1>2, ItemToken DEF Known
    <3> QED  BY <3>1, MakesReply
  <2>2. out \in SUBSET Message /\ (\A r \in out : Known(r)') /\ IsFiniteSet(out)
    BY <2>1, FS_EmptySet, FS_Singleton
  <2>3. net' = Emit(net, out)
    OBVIOUS
  <2> HIDE DEF out
  <2> QED  BY <1>1, <2>2, <2>3, Emitted
<1>4. ListOK'
  BY <1>1, LookedUp
<1>5. SendOK' /\ TreeOK' /\ ConOK'
  BY <1>1, Frames
<1>6. TellOK'
  BY TellFrame
<1> QED  BY <1>2, <1>3, <1>4, <1>5, <1>6 DEF IndInv

-----------------------------------------------------------------------------
(* The server's actions and the network's.  They leave the client alone.   *)
LEMMA ClientFrame ==
  ASSUME IndInv, UNCHANGED client, executed \subseteq executed', executed' \subseteq Token
  PROVE  Grown /\ ListOK' /\ SendOK' /\ RecvOK' /\ CountOK' /\ TellOK'
<1> USE DEF client
<1>1. Grown
  BY DEF Grown
<1>2. ListOK' /\ SendOK' /\ RecvOK' /\ CountOK'
  BY <1>1, Frames
<1>3. TellOK'
  BY DEF IndInv, TellOK
<1> QED  BY <1>1, <1>2, <1>3

LEMMA RequestIssued ==
  ASSUME IndInv, NEW m \in Id, RequestMsg(m) \in net
  PROVE  Issued(TokenOf(m)) /\ TokenOf(m) \in Token
BY IdToken DEF IndInv, NetOK, Known, RequestMsg, Msg

LEMMA EntryType ==
  ASSUME IndInv, NEW m \in Id
  PROVE  Entry(m) \in [id : Id, slow : BOOLEAN] /\ TokenOf(Entry(m).id) = TokenOf(m)
<1>1. TokenOf(m) \in Token
  BY IdToken
<1>2. CASE request[TokenOf(m)] # None
  <2>1. request[TokenOf(m)] \in [id : Id, slow : BOOLEAN] /\ TokenOf(request[TokenOf(m)].id) = TokenOf(m)
    BY <1>1, <1>2 DEF IndInv, TreeOK
  <2> QED  BY <1>2, <2>1 DEF Entry
<1>3. CASE ~(request[TokenOf(m)] # None)
  <2> DEFINE e == [id |-> m, slow |-> FALSE]
  <2>1. e \in [id : Id, slow : BOOLEAN] /\ e.id = m
    OBVIOUS
  <2>2. Entry(m) = e
    BY <1>3 DEF Entry
  <2> QED  BY <2>1, <2>2
<1> QED  BY <1>2, <1>3

LEMMA AnswersType ==
  ASSUME NEW e, e.id \in Id, NEW a \in Answers(e)
  PROVE  /\ a \in Message /\ a.id = e.id
         /\ a.kind \in {"content", "notAcceptable"}
         /\ a.kind = "notAcceptable" => TokenOf(e.id) \in Legacy
<1> DEFINE ty == IF ~IsCon(e.id) THEN "NON" ELSE IF e.slow THEN "CON" ELSE "ACK"
<1>1. ty \in {"CON", "NON", "ACK"}
  OBVIOUS
<1> HIDE DEF ty
<1>2. PICK kind \in {"content"} \cup (IF TokenOf(e.id) \in Legacy /\ e.id[2] = 0 THEN {"notAcceptable"} ELSE {}) :
        a = Msg(kind, e.id, ty)
  BY DEF Answers, ty
<1>3. kind \in {"content", "notAcceptable"} /\ (kind = "notAcceptable" => TokenOf(e.id) \in Legacy)
  BY <1>2
<1> QED  BY <1>1, <1>2, <1>3 DEF Msg, Message, Kind

(* An answer of an executed request is known.                              *)
LEMMA AnswerKnown ==
  ASSUME NEW e, e.id \in Id, NEW a \in Answers(e), UNCHANGED attempt,
         Issued(TokenOf(e.id)), TokenOf(e.id) \in executed'
  PROVE  a \in Message /\ Known(a)'
BY AnswersType DEF Known, Issued

LEMMA Recording ==
  ASSUME IndInv, Grown, NEW a \in Message, Known(a)', conOut' = RecordCon(a)
  PROVE  ConOK'
<1>1. conOut' \subseteq conOut \cup {a}
  BY DEF RecordCon
<1>2. \A b \in conOut : b \in Message /\ b.id \in Id /\ Known(b)
  BY DEF IndInv, ConOK, Message
<1> QED  BY <1>1, <1>2, KnownGrows DEF ConOK

(* One message goes out at most.                                           *)
LEMMA EmittedOne ==
  ASSUME IndInv, Grown, NEW n \in SUBSET net, NEW a \in Message, Known(a)',
         net' = Emit(n, {a})
  PROVE  NetOK'
<1> DEFINE out == {a}
<1>1. out \in SUBSET Message /\ (\A r \in out : Known(r)') /\ IsFiniteSet(out) /\ net' = Emit(n, out)
  BY FS_Singleton
<1> HIDE DEF out
<1> QED  BY <1>1, Emitted

LEMMA EmittedNone ==
  ASSUME IndInv, Grown, NEW n \in SUBSET net, net' = Emit(n, {})
  PROVE  NetOK'
BY Emitted, FS_EmptySet

LEMMA AtOnceStep ==
  ASSUME IndInv, NEW m \in Id, ExecuteAtOnce(m)
  PROVE  IndInv'
<1>1. PICK a \in Answers(Entry(m)) :
        /\ Handled(m, {a})
        /\ request' = [request EXCEPT ![TokenOf(m)] = None]
        /\ conOut' = RecordCon(a)
        /\ executed' = executed \cup {TokenOf(m)}
        /\ UNCHANGED owed
  BY DEF ExecuteAtOnce
<1>2. RequestMsg(m) \in net /\ net' = Emit(net \ {RequestMsg(m)}, {a}) /\ UNCHANGED client
  BY <1>1 DEF Handled, Receive
<1>3. Issued(TokenOf(m)) /\ TokenOf(m) \in Token
  BY <1>2, RequestIssued
<1>4. Grown /\ ListOK' /\ SendOK' /\ RecvOK' /\ CountOK' /\ TellOK'
  BY <1>1, <1>2, <1>3, ClientFrame DEF IndInv, TellOK
<1>5. a \in Message /\ Known(a)'
  <2>1. Entry(m).id \in Id /\ TokenOf(Entry(m).id) = TokenOf(m)
    BY EntryType
  <2> QED  BY <1>1, <1>2, <1>3, <2>1, AnswerKnown DEF client
<1>6. ConOK' /\ NetOK'
  BY <1>1, <1>2, <1>4, <1>5, Recording, EmittedOne
<1>7. TreeOK'
  BY <1>1, <1>2, <1>3 DEF IndInv, TreeOK, Issued, client
<1> QED  BY <1>4, <1>6, <1>7 DEF IndInv

LEMMA WithoutAnswerStep ==
  ASSUME IndInv, NEW m \in Id, ExecuteWithoutAnswer(m)
  PROVE  IndInv'
<1> USE DEF ExecuteWithoutAnswer
<1>1. RequestMsg(m) \in net /\ net' = Emit(net \ {RequestMsg(m)}, {}) /\ UNCHANGED client
  BY DEF Handled, Receive
<1>2. Issued(TokenOf(m)) /\ TokenOf(m) \in Token
  BY <1>1, RequestIssued
<1>3. Grown /\ ListOK' /\ SendOK' /\ RecvOK' /\ CountOK' /\ TellOK'
  BY <1>1, <1>2, ClientFrame DEF IndInv, TellOK
<1>4. NetOK' /\ ConOK'
  BY <1>1, <1>3, EmittedNone, Frames
<1>5. TreeOK'
  <2>1. Entry(m) \in [id : Id, slow : BOOLEAN] /\ TokenOf(Entry(m).id) = TokenOf(m)
    BY EntryType
  <2> QED  BY <1>1, <1>2, <2>1 DEF IndInv, TreeOK, Issued, client
<1> QED  BY <1>3, <1>4, <1>5 DEF IndInv

LEMMA SlowStep ==
  ASSUME IndInv, NEW m \in Id, ExecuteSlow(m)
  PROVE  IndInv'
<1> USE DEF ExecuteSlow
<1> DEFINE e == Entry(m)
           out == IF IsCon(m) THEN {Msg("empty", m, "ACK")} ELSE {}
           f == [e EXCEPT !.slow = TRUE]
<1>1. RequestMsg(m) \in net /\ net' = Emit(net \ {RequestMsg(m)}, out) /\ UNCHANGED client
  BY DEF Handled, Receive
<1>2. Issued(TokenOf(m)) /\ TokenOf(m) \in Token
  BY <1>1, RequestIssued
<1>3. Grown /\ ListOK' /\ SendOK' /\ RecvOK' /\ CountOK' /\ TellOK'
  BY <1>1, <1>2, ClientFrame DEF IndInv, TellOK
<1>4. NetOK'
  <2>1. \A r \in {Msg("empty", m, "ACK")} : r \in Message /\ Known(r)'
    BY <1>1, <1>2, MakesReply DEF client
  <2>2. out \in SUBSET Message /\ (\A r \in out : Known(r)') /\ IsFiniteSet(out)
    BY <2>1, FS_EmptySet, FS_Singleton
  <2> HIDE DEF out
  <2> QED  BY <1>1, <1>3, <2>2, Emitted
<1>5. ConOK'
  BY <1>3, Frames
<1>6. TreeOK'
  <2>1. e \in [id : Id, slow : BOOLEAN] /\ TokenOf(e.id) = TokenOf(m)
    BY EntryType
  <2>2. f \in [id : Id, slow : BOOLEAN] /\ f.id = e.id
    BY <2>1
  <2>3. request' = [request EXCEPT ![TokenOf(m)] = f] /\ owed' = [owed EXCEPT ![e.id] = @ + 1] /\ owed[e.id] < MaxOwed
    OBVIOUS
  <2>4. executed' = executed \cup {TokenOf(m)} /\ UNCHANGED attempt
    BY <1>1 DEF client
  <2> HIDE DEF e, f
  <2>5. request' \in [Token -> [id : Id, slow : BOOLEAN] \cup {None}]
    BY <2>2, <2>3 DEF IndInv, TreeOK
  <2>6. owed' \in [Id -> 0 .. MaxOwed]
    BY <2>1, <2>3, ExchangeAssumption DEF IndInv, TreeOK
  <2>7. \A t \in Token : request'[t] # None => TokenOf(request'[t].id) = t /\ Issued(t)'
    BY <1>2, <2>1, <2>2, <2>3, <2>4 DEF IndInv, TreeOK, Issued
  <2>8. \A k \in Id : owed'[k] > 0 => TokenOf(k) \in executed' /\ Issued(TokenOf(k))'
    <3>1. \A k \in Id : k # e.id => owed'[k] = owed[k]
      BY <2>1, <2>3 DEF IndInv, TreeOK
    <3> QED  BY <1>2, <2>1, <2>4, <3>1 DEF IndInv, TreeOK, Issued
  <2> QED  BY <2>5, <2>6, <2>7, <2>8 DEF TreeOK
<1> QED  BY <1>3, <1>4, <1>5, <1>6 DEF IndInv

LEMMA RefuseStep ==
  ASSUME IndInv, NEW m \in Id, Refuse(m)
  PROVE  IndInv'
<1> USE DEF Refuse
<1> DEFINE a == Direct("refused", m)
<1>1. RequestMsg(m) \in net /\ net' = Emit(net \ {RequestMsg(m)}, {a}) /\ UNCHANGED client
  BY DEF Handled, Receive
<1>2. Issued(TokenOf(m)) /\ TokenOf(m) \in Token
  BY <1>1, RequestIssued
<1>3. Grown /\ ListOK' /\ SendOK' /\ RecvOK' /\ CountOK' /\ TellOK'
  BY <1>1, <1>2, ClientFrame DEF IndInv, TellOK
<1>4. NetOK'
  <2>1. a \in Message /\ Known(a)'
    <3>1. PICK type \in {"CON", "NON", "ACK"} : a = Msg("refused", m, type)
      BY DEF Direct
    <3> QED  BY <1>1, <1>2, <3>1, MakesReply DEF client
  <2> HIDE DEF a
  <2> QED  BY <1>1, <1>3, <2>1, EmittedOne
<1>5. ConOK'
  BY <1>3, Frames
<1>6. TreeOK'
  <2>1. Entry(m) \in [id : Id, slow : BOOLEAN] /\ TokenOf(Entry(m).id) = TokenOf(m)
    BY EntryType
  <2>2. PICK e \in {None, Entry(m)} : request' = [request EXCEPT ![TokenOf(m)] = e]
    OBVIOUS
  <2> QED  BY <1>1, <1>2, <2>1, <2>2 DEF IndInv, TreeOK, Issued, client
<1> QED  BY <1>3, <1>4, <1>5, <1>6 DEF IndInv

(* A slow handler's answer: owed goes down, and the request was executed.  *)
LEMMA Owed ==
  ASSUME IndInv, NEW m \in Id, owed[m] > 0, owed' = [owed EXCEPT ![m] = @ - 1]
  PROVE  /\ owed' \in [Id -> 0 .. MaxOwed]
         /\ \A k \in Id : owed'[k] > 0 => owed[k] > 0
         /\ TokenOf(m) \in executed /\ Issued(TokenOf(m)) /\ TokenOf(m) \in Token
<1>1. owed \in [Id -> 0 .. MaxOwed] /\ TokenOf(m) \in executed /\ Issued(TokenOf(m))
  BY DEF IndInv, TreeOK
<1> QED  BY <1>1, IdToken, ExchangeAssumption

LEMMA ResponseStep ==
  ASSUME IndInv, NEW m \in Id, OCDoResponse(m)
  PROVE  IndInv'
<1> USE DEF OCDoResponse
<1>1. /\ owed' \in [Id -> 0 .. MaxOwed] /\ (\A k \in Id : owed'[k] > 0 => owed[k] > 0)
      /\ TokenOf(m) \in executed /\ Issued(TokenOf(m)) /\ TokenOf(m) \in Token
  BY Owed
<1>2. UNCHANGED <<client, executed>>
  OBVIOUS
<1>3. Grown /\ ListOK' /\ SendOK' /\ RecvOK' /\ CountOK' /\ TellOK'
  BY <1>2, ClientFrame DEF IndInv, TellOK
<1>4. TreeOK'
  <2>1. request' = [request EXCEPT ![TokenOf(m)] = None] \/ UNCHANGED request
    OBVIOUS
  <2>2. request' \in [Token -> [id : Id, slow : BOOLEAN] \cup {None}]
    BY <1>1, <2>1 DEF IndInv, TreeOK
  <2>3. \A t \in Token : request'[t] # None => request'[t] = request[t]
    BY <1>1, <2>1 DEF IndInv, TreeOK
  <2> QED  BY <1>1, <1>2, <2>2, <2>3 DEF IndInv, TreeOK, Issued, client
<1>5. ConOK' /\ NetOK'
  <2>1. CASE UNCHANGED <<net, conOut, request>>
    BY <1>3, <2>1, Frames
  <2>2. ASSUME NEW a \in Answers(request[TokenOf(m)]), net' = Emit(net, {a}), conOut' = RecordCon(a)
        PROVE  ConOK' /\ NetOK'
    <3>1. request[TokenOf(m)].id = m
      BY DEF Valid
    <3>2. a \in Message /\ Known(a)'
      BY <1>1, <1>2, <2>2, <3>1, AnswerKnown DEF client
    <3> QED  BY <1>3, <2>2, <3>2, Recording, EmittedOne
  <2> QED  BY <2>1, <2>2
<1> QED  BY <1>3, <1>4, <1>5 DEF IndInv

LEMMA FreedStep ==
  ASSUME IndInv, NEW m \in Id, OCDoResponseFreed(m)
  PROVE  IndInv'
<1> USE DEF OCDoResponseFreed
<1>1. /\ owed' \in [Id -> 0 .. MaxOwed] /\ (\A k \in Id : owed'[k] > 0 => owed[k] > 0)
      /\ TokenOf(m) \in executed /\ Issued(TokenOf(m)) /\ TokenOf(m) \in Token
  BY Owed
<1>2. UNCHANGED <<client, request, executed>>
  OBVIOUS
<1>3. Grown /\ ListOK' /\ SendOK' /\ RecvOK' /\ CountOK' /\ TellOK'
  BY <1>2, ClientFrame DEF IndInv, TellOK
<1>4. TreeOK'
  BY <1>1, <1>2 DEF IndInv, TreeOK, Issued, client
<1>5. ConOK' /\ NetOK'
  <2> DEFINE e == [id |-> m, slow |-> TRUE]
  <2>1. CASE UNCHANGED <<net, conOut>>
    BY <1>3, <2>1, Frames
  <2>2. ASSUME NEW a \in Answers(e), net' = Emit(net, {a}), conOut' = RecordCon(a)
        PROVE  ConOK' /\ NetOK'
    <3>1. e.id = m
      OBVIOUS
    <3> HIDE DEF e
    <3>2. a \in Message /\ Known(a)'
      BY <1>1, <1>2, <2>2, <3>1, AnswerKnown DEF client
    <3> QED  BY <1>3, <2>2, <3>2, Recording, EmittedOne
  <2> QED  BY <2>1, <2>2
<1> QED  BY <1>3, <1>4, <1>5 DEF IndInv

LEMMA ServerRecordSteps ==
  ASSUME IndInv, \/ \E a \in conOut : ServerRetransmit(a) \/ ServerTimeout(a)
                 \/ \E r \in net : ServerSettled(r) \/ Lose(r)
  PROVE  IndInv'
<1>1. UNCHANGED <<client, request, owed, executed>>
  BY DEF ServerRetransmit, ServerTimeout, ServerSettled, Lose, server
<1>2. Grown /\ ListOK' /\ SendOK' /\ RecvOK' /\ CountOK' /\ TellOK'
  BY <1>1, ClientFrame DEF IndInv, TellOK
<1>3. TreeOK'
  BY <1>1, <1>2, Frames
<1>4. ConOK'
  <2>1. conOut' \subseteq conOut
    BY DEF ServerRetransmit, ServerTimeout, ServerSettled, Lose, server
  <2>2. \A a \in conOut : a \in Message /\ a.id \in Id /\ Known(a)
    BY DEF IndInv, ConOK, Message
  <2> QED  BY <1>2, <2>1, <2>2, KnownGrows DEF ConOK
<1>5. NetOK'
  <2>1. ASSUME NEW a \in conOut, ServerRetransmit(a) PROVE NetOK'
    <3>1. a \in Message /\ a.id \in Id /\ Known(a)
      BY DEF IndInv, ConOK, Message
    <3>2. Known(a)'
      BY <1>2, <3>1, KnownGrows
    <3>3. net' = Emit(net, {a})
      BY <2>1 DEF ServerRetransmit
    <3> QED  BY <1>2, <3>1, <3>2, <3>3, EmittedOne
  <2>2. ASSUME NEW a \in conOut, ServerTimeout(a) PROVE NetOK'
    BY <1>2, <2>2, Frames DEF ServerTimeout
  <2>3. ASSUME NEW r \in net, ServerSettled(r) \/ Lose(r) PROVE NetOK'
    <3>1. net' = Emit(net \ {r}, {})
      BY <2>3 DEF ServerSettled, Lose, Receive
    <3> QED  BY <1>2, <3>1, EmittedNone
  <2> QED  BY <2>1, <2>2, <2>3
<1> QED  BY <1>2, <1>3, <1>4, <1>5 DEF IndInv

LEMMA ClientSteps ==
  ASSUME IndInv, ClientNext
  PROVE  IndInv'
<1>1. CASE \E t \in Token : OCDoRequest(t) \/ OCCancel(t) \/ Expire(t)
  BY <1>1, IssueStep, CancelStep, ExpireStep
<1>2. CASE SendUnicastData \/ SendFails \/ SentData
  BY <1>2, SendStep, SendFailsStep, SentStep
<1>3. CASE \E m \in Id : SendtoFails(m) \/ Retransmit(m)
  BY <1>3, SendtoFailsStep, RetransmitStep
<1>4. CASE \E r \in net : ReceiveResponse(r)
  BY <1>4, ReceiveStep
<1>5. CASE OCProcess
  BY <1>5, RegularStep, ErrorStep, TimeoutStep, NotParsedStep, NotAcceptableStep, EmptyStep, UnknownStep
     DEF OCProcess
<1> QED  BY <1>1, <1>2, <1>3, <1>4, <1>5 DEF ClientNext

LEMMA NextInv == IndInv /\ [Next]_vars => IndInv'
<1> SUFFICES ASSUME IndInv, [Next]_vars PROVE IndInv'
  OBVIOUS
<1>1. CASE ClientNext
  BY <1>1, ClientSteps
<1>2. ASSUME NEW m \in Id, \/ ExecuteAtOnce(m) \/ ExecuteWithoutAnswer(m) \/ ExecuteSlow(m)
                           \/ Refuse(m) \/ OCDoResponse(m) \/ OCDoResponseFreed(m)
      PROVE  IndInv'
  BY <1>2, AtOnceStep, WithoutAnswerStep, SlowStep, RefuseStep, ResponseStep, FreedStep
<1>3. CASE \/ \E a \in conOut : ServerRetransmit(a) \/ ServerTimeout(a)
           \/ \E r \in net : ServerSettled(r) \/ Lose(r)
  BY <1>3, ServerRecordSteps
<1>4. CASE UNCHANGED vars
  <2>1. UNCHANGED <<client, server, net>>
    BY <1>4 DEF vars
  <2>2. Grown /\ ListOK' /\ SendOK' /\ RecvOK' /\ CountOK' /\ TellOK'
    BY <2>1, ClientFrame DEF IndInv, TellOK, server
  <2> QED  BY <2>1, <2>2, Frames DEF IndInv, server
<1> QED  BY <1>1, <1>2, <1>3, <1>4 DEF Next, ServerNext

(* The state of client, server and network has its type: no token is       *)
(* listed twice (GetClientCBUsingToken finds one callback at most), no     *)
(* message is retransmitted too often, and no reissue after 4.06 leaves    *)
(* the ids, however requests, answers and cancellations interleave.        *)
THEOREM ExchangeTypes == Spec => []TypeOK
<1>1. Spec => []IndInv
  BY InitInv, NextInv, PTL DEF Spec
<1> QED  BY <1>1, InvTypes, PTL

-----------------------------------------------------------------------------
(* The contract, for one request t at a time.  Every step of the exchange  *)
(* is for t one of these, and its step or stutter of the contract follows. *)
Asked(t) == attempt[t] # -1
Listed(t) == t \in Range(cbList)
SamePhase(t) == (Asked(t)' <=> Asked(t)) /\ (Listed(t)' <=> Listed(t))
SameHistory(t) == (t \in expired' <=> t \in expired) /\ (t \in executed' <=> t \in executed)

OneStep(t) == Contract!Step(t) \/ Contract!Idle(t)

LEMMA KeepsStill ==
  ASSUME NEW t \in Token, SamePhase(t), told'[t] = told[t], SameHistory(t)
  PROVE  OneStep(t)
BY DEF OneStep, SamePhase, SameHistory, Asked, Listed, Live,
       Contract!Idle, Contract!Becomes, Contract!SameAge, Contract!SameWork

LEMMA IsIssued ==
  ASSUME NEW t \in Token, ~Asked(t), Asked(t)', Listed(t)', told'[t] = told[t], SameHistory(t)
  PROVE  OneStep(t)
BY DEF OneStep, SameHistory, Asked, Listed, Live, Contract!Step,
       Contract!Issue, Contract!Becomes, Contract!SameAge, Contract!SameWork

LEMMA IsExecuted ==
  ASSUME NEW t \in Token, Asked(t), SamePhase(t), told'[t] = told[t],
         t \in expired' <=> t \in expired, t \in executed'
  PROVE  OneStep(t)
BY DEF OneStep, SamePhase, Asked, Listed, Live, Contract!Step,
       Contract!Execute, Contract!Becomes, Contract!SameAge

LEMMA IsExpired ==
  ASSUME NEW t \in Token, Asked(t), Listed(t), SamePhase(t), told'[t] = told[t],
         t \in expired', t \in executed' <=> t \in executed
  PROVE  OneStep(t)
BY DEF OneStep, SamePhase, Asked, Listed, Live, Contract!Step,
       Contract!Expire, Contract!Becomes, Contract!SameWork

LEMMA IsCancelled ==
  ASSUME NEW t \in Token, Asked(t), Listed(t), Asked(t)', ~Listed(t)', told'[t] = "cancelled",
         t \notin expired', t \in executed' <=> t \in executed
  PROVE  OneStep(t)
BY DEF OneStep, Asked, Listed, Live, Contract!Step,
       Contract!Cancel, Contract!Becomes, Contract!SameWork

LEMMA IsForgotten ==
  ASSUME NEW t \in Token, Asked(t), Listed(t), t \in expired, Asked(t)', ~Listed(t)', told'[t] = told[t],
         t \notin expired', t \in executed' <=> t \in executed
  PROVE  OneStep(t)
BY DEF OneStep, Asked, Listed, Live, Contract!Step,
       Contract!Forget, Contract!Becomes, Contract!SameWork

LEMMA IsTold ==
  ASSUME NEW t \in Token, Asked(t), Listed(t), Asked(t)',
         NEW r \in {"answer", "refusal", "timeout", "error"}, told'[t] = r,
         r = "answer" => t \in executed, t \in executed' <=> t \in executed,
         IF Listed(t)' THEN r # "timeout" /\ (t \in expired' => t \in expired) ELSE t \notin expired'
  PROVE  OneStep(t)
<1>1. Contract!Tell(t, r)
  BY DEF Asked, Listed, Live, Contract!Tell, Contract!Becomes, Contract!SameWork
<1> QED  BY <1>1 DEF OneStep, Contract!Step

ContractStep == \A t \in Token : OneStep(t)

LEMMA ListFacts ==
  ASSUME IndInv
  PROVE  /\ IsList(cbList) /\ \A t \in expired : Listed(t)
         /\ \A t : Listed(t) => t \in Token /\ Asked(t)
BY DEF IndInv, ListOK, Listed, Asked, Issued, IsList, Range

LEMMA ContractStutter ==
  ASSUME UNCHANGED <<cbList, expired, attempt, told, executed>>
  PROVE  ContractStep
<1> SUFFICES ASSUME NEW t \in Token PROVE OneStep(t)
  BY DEF ContractStep
<1> QED  BY KeepsStill DEF SamePhase, SameHistory, Asked, Listed

LEMMA ContractExecute ==
  ASSUME UNCHANGED client, NEW u \in Token, Asked(u), executed' = executed \cup {u}
  PROVE  ContractStep
<1> SUFFICES ASSUME NEW t \in Token PROVE OneStep(t)
  BY DEF ContractStep
<1>1. SamePhase(t) /\ told'[t] = told[t] /\ (t \in expired' <=> t \in expired)
  BY DEF client, SamePhase, Asked, Listed
<1>2. CASE t = u
  BY <1>1, <1>2, IsExecuted
<1>3. CASE t # u
  BY <1>1, <1>3, KeepsStill DEF SameHistory
<1> QED  BY <1>2, <1>3

LEMMA ContractIssue ==
  ASSUME IndInv, NEW u \in Token, OCDoRequest(u)
  PROVE  ContractStep
<1> SUFFICES ASSUME NEW t \in Token PROVE OneStep(t)
  BY DEF ContractStep
<1>1. SameHistory(t) /\ told'[t] = told[t]
  BY DEF OCDoRequest, SameHistory, server
<1>2. attempt' = [attempt EXCEPT ![u] = 0] /\ attempt[u] = -1 /\ attempt \in [Token -> -1 .. MaxAttempt]
  BY DEF OCDoRequest, IndInv, CountOK
<1>3. Range(cbList') = Range(cbList) \cup {u}
  <2>1. cbList \in Seq(Token) /\ cbList' = Append(cbList, u)
    BY DEF OCDoRequest, IndInv, ListOK, IsList
  <2>2. /\ cbList' \in Seq(Token) /\ Len(cbList') = Len(cbList) + 1 /\ cbList'[Len(cbList) + 1] = u
        /\ \A i \in 1 .. Len(cbList) : cbList'[i] = cbList[i]
    BY <2>1, AppendProperties
  <2>3. DOMAIN cbList = 1 .. Len(cbList) /\ DOMAIN cbList' = (1 .. Len(cbList)) \cup {Len(cbList) + 1}
    BY <2>1, <2>2
  <2> QED  BY <2>2, <2>3 DEF Range
<1>4. CASE t = u
  <2>1. ~Asked(t) /\ Asked(t)' /\ Listed(t)'
    BY <1>2, <1>3, <1>4 DEF Asked, Listed
  <2> QED  BY <1>1, <2>1, IsIssued
<1>5. CASE t # u
  <2>1. SamePhase(t)
    BY <1>2, <1>3, <1>5 DEF SamePhase, Asked, Listed
  <2> QED  BY <1>1, <2>1, KeepsStill
<1> QED  BY <1>4, <1>5

LEMMA ContractExpire ==
  ASSUME IndInv, NEW u \in Token, Expire(u)
  PROVE  ContractStep
<1> SUFFICES ASSUME NEW t \in Token PROVE OneStep(t)
  BY DEF ContractStep
<1>1. /\ SamePhase(t) /\ told'[t] = told[t] /\ (t \in executed' <=> t \in executed)
      /\ expired' = expired \cup {u} /\ Listed(u)
  BY DEF Expire, SamePhase, Asked, Listed, Live, server
<1>2. CASE t = u
  BY <1>1, <1>2, ListFacts, IsExpired
<1>3. CASE t # u
  BY <1>1, <1>3, KeepsStill DEF SameHistory
<1> QED  BY <1>2, <1>3

(* A request other than the one that a step is about keeps still, or was   *)
(* forgotten on the way because its lifetime is over.                      *)
LEMMA Bystander ==
  ASSUME IndInv, NEW t \in Token, Asked(t)' <=> Asked(t), told'[t] = told[t],
         t \in executed' <=> t \in executed, Listed(t)' => Listed(t),
         t \in expired' <=> (t \in expired /\ Listed(t)'),
         Listed(t) /\ ~Listed(t)' => t \in expired
  PROVE  OneStep(t)
<1>1. CASE Listed(t) /\ ~Listed(t)'
  BY <1>1, ListFacts, IsForgotten
<1>2. CASE Listed(t)' <=> Listed(t)
  BY <1>2, ListFacts, KeepsStill DEF SamePhase, SameHistory
<1> QED  BY <1>1, <1>2

LEMMA ContractLookup ==
  ASSUME IndInv, NEW s, Relist(Lookup(cbList, s)), UNCHANGED <<told, executed>>,
         \A t \in Token : Asked(t)' <=> Asked(t)
  PROVE  ContractStep
<1> SUFFICES ASSUME NEW t \in Token PROVE OneStep(t)
  BY DEF ContractStep
<1>1. /\ Range(Lookup(cbList, s)) \subseteq Range(cbList)
      /\ \A v \in Range(cbList) \ Range(Lookup(cbList, s)) : v \in expired
  BY ListFacts, LookupLeaves
<1>2. cbList' = Lookup(cbList, s) /\ expired' = expired \cap Range(Lookup(cbList, s))
  BY DEF Relist
<1>3. /\ Listed(t)' => Listed(t)
      /\ t \in expired' <=> (t \in expired /\ Listed(t)')
      /\ Listed(t) /\ ~Listed(t)' => t \in expired
  BY <1>1, <1>2 DEF Listed
<1> QED  BY <1>3, Bystander

LEMMA ContractCancel ==
  ASSUME IndInv, NEW u \in Token, OCCancel(u)
  PROVE  ContractStep
<1> SUFFICES ASSUME NEW t \in Token PROVE OneStep(t)
  BY DEF ContractStep
<1> DEFINE k == Lookup(cbList, u)
           l == DeleteClientCB(k, u)
<1>1. /\ IsList(k) /\ Range(k) \subseteq Range(cbList)
      /\ \A v \in Range(cbList) \ Range(k) : v \in expired
  BY ListFacts, LookupLeaves
<1>2. cbList' = l /\ expired' = expired \cap Range(l)
  BY DEF OCCancel, Relist, Cancel
<1>3. (Asked(t)' <=> Asked(t)) /\ (t \in executed' <=> t \in executed)
  BY DEF OCCancel, Asked, server
<1>4. told' = IF Listed(u) THEN [told EXCEPT ![u] = "cancelled"] ELSE told
  BY DEF OCCancel, Live, Listed
<1> HIDE DEF k
<1>5. Range(l) = Range(k) \ {u}
  BY <1>1, DeleteLeaves
<1> HIDE DEF l
<1>6. CASE t = u /\ Listed(u)
  <2>1. ~Listed(t)' /\ t \notin expired' /\ told'[t] = "cancelled"
    BY <1>2, <1>4, <1>5, <1>6 DEF Listed, IndInv, TellOK
  <2> QED  BY <1>3, <1>6, <2>1, ListFacts, IsCancelled
<1>7. CASE ~(t = u /\ Listed(u))
  <2>1. told'[t] = told[t]
    BY <1>4, <1>7 DEF IndInv, TellOK
  <2>2. /\ Listed(t)' => Listed(t)
        /\ t \in expired' <=> (t \in expired /\ Listed(t)')
        /\ Listed(t) /\ ~Listed(t)' => t \in expired
    BY <1>1, <1>2, <1>5, <1>7 DEF Listed
  <2> QED  BY <1>3, <2>1, <2>2, Bystander
<1> QED  BY <1>6, <1>7

(* A callback with r for the subject of the answer, in which u may be      *)
(* cancelled.                                                              *)
LEMMA ContractCallback ==
  ASSUME IndInv, Subject \in Token, Live(Subject), NEW u \in Token \cup {None},
         NEW r \in {"answer", "refusal", "timeout", "error"}, Told(r, u),
         r = "answer" => Subject \in executed,
         cbList' \in {Called(Subject, u), Forgotten(Subject, u)},
         r = "timeout" => cbList' = Forgotten(Subject, u),
         \/ expired' = expired \cap Range(cbList')
         \/ expired' = (expired \ {Subject}) \cap Range(cbList'),
         UNCHANGED <<attempt, executed>>
  PROVE  ContractStep
<1> SUFFICES ASSUME NEW t \in Token PROVE OneStep(t)
  BY DEF ContractStep
<1>1. (Asked(t)' <=> Asked(t)) /\ (t \in executed' <=> t \in executed)
  BY DEF Asked
<1>2. /\ Range(cbList') \subseteq Range(cbList)
      /\ u # None => u \notin Range(cbList')
      /\ \A v \in Range(cbList) \ Range(cbList') : v \in expired \/ v = u \/ v = Subject
      /\ cbList' = Forgotten(Subject, u) => Subject \notin Range(cbList')
  BY CalledList, ForgottenList
<1>3. u = None \/ Listed(u)
  <2>1. Range(Lookup(cbList, Subject)) \subseteq Range(cbList)
    BY ListFacts, LookupLeaves
  <2> QED  BY <2>1 DEF Told, Listed
<1>4. told'[t] = IF t = u THEN "cancelled" ELSE IF t = Subject THEN r ELSE told[t]
  BY DEF Told
<1>5. Listed(Subject)
  BY DEF Live, Listed
<1>6. CASE t = u
  <2>1. Listed(t) /\ ~Listed(t)' /\ t \notin expired'
    BY <1>2, <1>3, <1>6, ExchangeAssumption DEF Listed
  <2> QED  BY <1>1, <1>4, <1>6, <2>1, ListFacts, IsCancelled
<1>7. CASE t # u /\ t = Subject
  <2>1. told'[t] = r /\ Listed(t) /\ Asked(t) /\ Asked(t)'
    BY <1>1, <1>4, <1>5, <1>7, ListFacts
  <2>2. IF Listed(t)' THEN r # "timeout" /\ (t \in expired' => t \in expired) ELSE t \notin expired'
    BY <1>2, <1>7 DEF Listed
  <2> QED  BY <1>1, <1>7, <2>1, <2>2, IsTold
<1>8. CASE t # u /\ t # Subject
  <2>1. /\ Listed(t)' => Listed(t)
        /\ t \in expired' <=> (t \in expired /\ Listed(t)')
        /\ Listed(t) /\ ~Listed(t)' => t \in expired
    BY <1>2, <1>8 DEF Listed
  <2>2. told'[t] = told[t]
    BY <1>4, <1>8
  <2> QED  BY <1>1, <2>1, <2>2, Bystander
<1> QED  BY <1>6, <1>7, <1>8

LEMMA ContractProcess ==
  ASSUME IndInv, OCProcess
  PROVE  ContractStep
<1>1. recvQ # << >> /\ Head(recvQ) \in Item /\ Known(Head(recvQ)) /\ Subject \in Token
  <2>1. recvQ \in Seq(Item) /\ recvQ # << >> /\ \A i \in DOMAIN recvQ : Known(recvQ[i])
    BY DEF IndInv, RecvOK, OCProcess, HandleRegular, HandleCAErrorResponse, HandleTimeout,
           HandleNotParsed, HandleNotAcceptable, HandleEmpty, HandleUnknown, Taken
  <2>2. Head(recvQ) = recvQ[1] /\ 1 \in DOMAIN recvQ
    BY <2>1, EmptySeq
  <2>3. Head(recvQ) \in Item /\ Known(Head(recvQ))
    BY <2>1, <2>2
  <2> QED  BY <2>1, <2>3, ItemToken DEF Subject
<1>2. ASSUME NEW keep \in BOOLEAN, NEW u \in Token \cup {None}, HandleRegular(keep, u)
      PROVE  ContractStep
  <2> DEFINE r == IF Head(recvQ).kind = "content" THEN "answer" ELSE "refusal"
  <2>1. r \in {"answer", "refusal", "timeout", "error"} /\ r # "timeout" /\ Told(r, u) /\ Live(Subject)
    BY <1>2 DEF HandleRegular
  <2>2. r = "answer" => Subject \in executed
    BY <1>1 DEF Known, Subject
  <2>3. /\ cbList' \in {Called(Subject, u), Forgotten(Subject, u)}
        /\ expired' = (expired \ {Subject}) \cap Range(cbList')
        /\ UNCHANGED <<attempt, executed>>
    BY <1>2 DEF HandleRegular, Called, Forgotten, server
  <2> HIDE DEF r
  <2> QED  BY <1>1, <2>1, <2>2, <2>3, ContractCallback
<1>3. ASSUME NEW keep \in BOOLEAN, NEW u \in Token \cup {None}, HandleCAErrorResponse(keep, u)
      PROVE  ContractStep
  <2>1. /\ Told("error", u) /\ Live(Subject)
        /\ cbList' \in {Called(Subject, u), Forgotten(Subject, u)}
        /\ expired' = expired \cap Range(cbList')
        /\ UNCHANGED <<attempt, executed>>
    BY <1>3 DEF HandleCAErrorResponse, Called, Forgotten, Relist, server
  <2> QED  BY <1>1, <2>1, ContractCallback
<1>4. ASSUME NEW u \in Token \cup {None}, HandleTimeout(u)
      PROVE  ContractStep
  <2>1. /\ Told("timeout", u) /\ Live(Subject)
        /\ cbList' = Forgotten(Subject, u)
        /\ expired' = expired \cap Range(cbList')
        /\ UNCHANGED <<attempt, executed>>
    BY <1>4 DEF HandleTimeout, AfterTimeout, Called, Forgotten, Relist, server
  <2> QED  BY <1>1, <2>1, ContractCallback
<1>5. CASE HandleNotParsed \/ HandleEmpty \/ HandleUnknown
  <2>1. Relist(Lookup(cbList, Subject)) /\ UNCHANGED <<attempt, told, executed>>
    BY <1>5 DEF HandleNotParsed, HandleEmpty, HandleUnknown, server
  <2> QED  BY <2>1, ContractLookup DEF Asked
<1>6. CASE HandleNotAcceptable
  <2>1. Relist(Lookup(cbList, Subject)) /\ UNCHANGED <<told, executed>>
    BY <1>6 DEF HandleNotAcceptable, server
  <2>2. attempt[Subject] \in Nat
    BY <1>1, <1>6, ReissueBound
  <2>3. \A t \in Token : Asked(t)' <=> Asked(t)
    BY <1>1, <1>6, <2>2 DEF HandleNotAcceptable, Asked, IndInv, CountOK
  <2> QED  BY <2>1, <2>3, ContractLookup
<1> QED  BY <1>2, <1>3, <1>4, <1>5, <1>6 DEF OCProcess

LEMMA ContractNext ==
  ASSUME IndInv, [Next]_vars
  PROVE  ContractStep
<1>1. CASE UNCHANGED vars
  BY <1>1, ContractStutter DEF vars, client, server
<1>2. ASSUME NEW t \in Token, OCDoRequest(t) \/ OCCancel(t) \/ Expire(t)
      PROVE  ContractStep
  BY <1>2, ContractIssue, ContractCancel, ContractExpire
<1>3. CASE \/ SendUnicastData \/ SendFails \/ SentData
           \/ \E m \in Id : SendtoFails(m) \/ Retransmit(m)
           \/ \E r \in net : ReceiveResponse(r)
  <2>1. UNCHANGED <<cbList, expired, attempt, told, executed>>
    BY <1>3 DEF SendUnicastData, SendFails, SentData, SendtoFails, Retransmit, ReceiveResponse, server
  <2> QED  BY <2>1, ContractStutter
<1>4. CASE OCProcess
  BY <1>4, ContractProcess
<1>5. ASSUME NEW m \in Id, ExecuteAtOnce(m) \/ ExecuteWithoutAnswer(m) \/ ExecuteSlow(m)
      PROVE  ContractStep
  <2>1. RequestMsg(m) \in net /\ UNCHANGED client /\ executed' = executed \cup {TokenOf(m)}
    BY <1>5 DEF ExecuteAtOnce, ExecuteWithoutAnswer, ExecuteSlow, Handled, Receive
  <2>2. Asked(TokenOf(m)) /\ TokenOf(m) \in Token
    BY <2>1, RequestIssued DEF Issued, Asked
  <2> QED  BY <2>1, <2>2, ContractExecute
<1>6. CASE \/ \E m \in Id : Refuse(m) \/ OCDoResponse(m) \/ OCDoResponseFreed(m)
           \/ \E a \in conOut : ServerRetransmit(a) \/ ServerTimeout(a)
           \/ \E r \in net : ServerSettled(r) \/ Lose(r)
  <2>1. UNCHANGED <<client, executed>>
    BY <1>6 DEF Refuse, OCDoResponse, OCDoResponseFreed, ServerRetransmit, ServerTimeout,
                ServerSettled, Lose, Handled, server
  <2> QED  BY <2>1, ContractStutter DEF client
<1> QED  BY <1>1, <1>2, <1>3, <1>4, <1>5, <1>6 DEF Next, ClientNext, ServerNext

(* The exchange implements the contract of OCDoRequest.  Whatever is lost, *)
(* repeated or late and whenever OCCancel is called, a request ends once:  *)
(* when the application's callback or OCCancel says so, when a timeout was *)
(* told, or when its TTL has passed.  Nothing is told before OCDoRequest   *)
(* or after the end, and an answer only of what an entity handler executed.*)
THEOREM ContractKept == Spec => KeepsContract
<1>1. Init => Contract!Init
  BY DEF Init, Contract!Init
<1>2. IndInv /\ [Next]_vars => [\A t \in Token : Contract!Step(t) \/ Contract!Idle(t)]_(Contract!vars)
  BY ContractNext DEF ContractStep, OneStep
<1> QED  BY <1>1, <1>2, InitInv, NextInv, PTL DEF Spec, KeepsContract, Contract!Spec

=============================================================================
