------------------------ MODULE AccessControl_proof ------------------------
(***************************************************************************)
(* Access control, for every list of ACEs, every set of requests and every *)
(* value of the limits.  The decision is settled by three facts about the  *)
(* operators: Search grants exactly when some ACE of the list does, the    *)
(* context of a request depends on the one before only in two flags that   *)
(* nothing reads, and IsResourceInAce does not tell such contexts apart.   *)
(* The inductive invariant only adds that the list on file fits.           *)
(***************************************************************************)
EXTENDS AccessControl, FiniteSetTheorems, SequenceTheorems, WellFoundedInduction, TLAPS

IndInv == TypeOK /\ Len(saved) <= MaxAces /\ SuccessIsDurable

-----------------------------------------------------------------------------
(* Numbers.                                                                *)
LEMMA LeastNat ==
  ASSUME NEW T \in SUBSET Nat, T # {}
  PROVE  \E x \in T : \A y \in T : x <= y
<1>1. PICK x \in T : \A y \in T : ~ (<<y, x>> \in OpToRel(<, Nat))
  BY NatLessThanWellFounded, WFMin, Zenon
<1>2. \A y \in T : ~ (y < x)
  BY <1>1 DEF OpToRel
<1> QED  BY <1>2

LEMMA GreatestNat ==
  ASSUME NEW n \in Nat, NEW T \in SUBSET (1 .. n), T # {}
  PROVE  \E x \in T : \A y \in T : y <= x
<1> DEFINE U == {u \in Nat : n - u \in T}
<1>1. U \in SUBSET Nat /\ U # {}
  <2>1. PICK t \in T : TRUE
    OBVIOUS
  <2>2. n - t \in Nat /\ n - (n - t) = t
    OBVIOUS
  <2> QED  BY <2>1, <2>2
<1>2. PICK u \in U : \A v \in U : u <= v
  BY <1>1, LeastNat
<1>3. \A y \in T : n - y \in U
  <2> TAKE y \in T
  <2>1. n - y \in Nat /\ n - (n - y) = y
    OBVIOUS
  <2> QED  BY <2>1
<1>4. \A y \in T : y <= n - u
  <2> TAKE y \in T
  <2>1. u <= n - y /\ u \in Nat /\ y \in Nat
    BY <1>2, <1>3
  <2> QED  BY <2>1
<1> QED  BY <1>2, <1>4

-----------------------------------------------------------------------------
(* The lists that the deletions leave.                                     *)
LEMMA KeptPlace ==
  ASSUME NEW n \in Nat, NEW S \in SUBSET (1 .. n), NEW k \in 1 .. Cardinality(S)
  PROVE  \E i \in S : Cardinality({j \in S : j <= i}) = k
<1> DEFINE Up(i) == {j \in S : j <= i}
           T == {i \in 0 .. n : Cardinality(Up(i)) >= k}
<1>1. IsFiniteSet(S) /\ \A i \in 0 .. n : IsFiniteSet(Up(i)) /\ Cardinality(Up(i)) \in Nat
  <2>1. IsFiniteSet(S)
    <3>1. IsFiniteSet(1 .. n)
      BY FS_Interval
    <3> QED  BY <3>1, FS_Subset
  <2>2. ASSUME NEW i \in 0 .. n PROVE IsFiniteSet(Up(i)) /\ Cardinality(Up(i)) \in Nat
    <3>1. Up(i) \in SUBSET S
      OBVIOUS
    <3> HIDE DEF Up
    <3> QED  BY <2>1, <3>1, FS_Subset, FS_CardinalityType
  <2> QED  BY <2>1, <2>2
<1>0. \A j \in S : j \in Nat /\ 1 <= j /\ j <= n
  OBVIOUS
<1>2. Up(n) = S /\ Up(0) = {}
  <2>1. \A j \in S : j <= n /\ ~(j <= 0)
    BY <1>0
  <2> QED  BY <2>1
<1>3. k \in Nat /\ k >= 1 /\ k <= Cardinality(S) /\ Cardinality(S) \in Nat
  BY <1>1, FS_CardinalityType
<1>4. n \in T /\ T \in SUBSET Nat
  BY <1>2, <1>3
<1>5. PICK i \in T : \A y \in T : i <= y
  BY <1>4, LeastNat
<1>6. i \in 1 .. n
  <2>1. i # 0
    BY <1>2, <1>3, <1>5, FS_EmptySet
  <2> QED  BY <1>5, <2>1
<1>7. Cardinality(Up(i - 1)) < k
  <2>1. i - 1 \in 0 .. n /\ ~(i <= i - 1)
    BY <1>6
  <2>2. i - 1 \notin T
    BY <1>5, <2>1
  <2>3. ~(Cardinality(Up(i - 1)) >= k)
    BY <2>1, <2>2
  <2>4. Cardinality(Up(i - 1)) \in Nat
    BY <1>1, <2>1
  <2> HIDE DEF Up
  <2> QED  BY <1>3, <2>3, <2>4
<1>8. Up(i) = IF i \in S THEN Up(i - 1) \cup {i} ELSE Up(i - 1)
  <2>1. \A j \in S : j <= i <=> j <= i - 1 \/ j = i
    BY <1>0, <1>6
  <2>2. i <= i
    BY <1>6
  <2> QED  BY <2>1, <2>2
<1>9. i - 1 \in 0 .. n /\ i \notin Up(i - 1) /\ Cardinality(Up(i)) >= k
  BY <1>5, <1>6
<1> HIDE DEF Up, T
<1>10. i \in S
  BY <1>1, <1>3, <1>7, <1>8, <1>9
<1>11. Cardinality(Up(i)) = Cardinality(Up(i - 1)) + 1
  BY <1>1, <1>8, <1>9, <1>10, FS_AddElement
<1>12. Cardinality(Up(i)) = k
  BY <1>1, <1>3, <1>7, <1>9, <1>11
<1> QED  BY <1>10, <1>12 DEF Up

(* Deleting ACEs leaves a list of ACEs that is not longer.                 *)
LEMMA KeptList ==
  ASSUME NEW n \in Nat, NEW list, NEW S \in SUBSET (1 .. n), \A i \in S : list[i] \in Ace
  PROVE  Kept(list, S) \in Seq(Ace) /\ Len(Kept(list, S)) <= n
<1>1. IsFiniteSet(S) /\ Cardinality(S) \in Nat /\ Cardinality(S) <= n
  <2>1. IsFiniteSet(1 .. n) /\ Cardinality(1 .. n) = n
    BY FS_Interval
  <2> QED  BY <2>1, FS_Subset, FS_CardinalityType
<1>2. \A k \in 1 .. Cardinality(S) :
         list[CHOOSE i \in S : Cardinality({j \in S : j <= i}) = k] \in Ace
  BY KeptPlace
<1> HIDE DEF Ace
<1>3. Kept(list, S) \in [1 .. Cardinality(S) -> Ace]
  BY <1>2 DEF Kept
<1>4. Kept(list, S) \in Seq(Ace) /\ Len(Kept(list, S)) = Cardinality(S)
  BY <1>1, <1>3
<1> QED  BY <1>1, <1>4

(* So does the deletion of an ACE by its id.                               *)
LEMMA WithoutIdList ==
  ASSUME NEW list \in Seq(Ace), NEW id
  PROVE  WithoutId(list, id) \in Seq(Ace) /\ Len(WithoutId(list, id)) <= Len(list)
<1>0. Len(list) \in Nat /\ DOMAIN list = 1 .. Len(list)
  OBVIOUS
<1>1. CASE ~ \E i \in 1 .. Len(list) : list[i].aceid = id
  BY <1>1, <1>0 DEF WithoutId
<1>2. CASE \E i \in 1 .. Len(list) : list[i].aceid = id
  <2> DEFINE T == {i \in 1 .. Len(list) : list[i].aceid = id}
  <2>1. PICK i \in T : \A y \in T : i <= y
    <3>1. T # {} /\ T \in SUBSET Nat
      BY <1>0, <1>2
    <3> HIDE DEF T
    <3> QED  BY <3>1, LeastNat
  <2>2. \A j \in 1 .. i - 1 : list[j].aceid # id
    <3> SUFFICES ASSUME NEW j \in 1 .. i - 1 PROVE j \notin T
      BY <1>0, <2>1
    <3> QED  BY <2>1, <1>0
  <2> DEFINE h == CHOOSE h \in 1 .. Len(list) :
                    list[h].aceid = id /\ \A j \in 1 .. h - 1 : list[j].aceid # id
             pre == SubSeq(list, 1, h - 1)
             post == SubSeq(list, h + 1, Len(list))
  <2>3. h \in 1 .. Len(list)
    BY <2>1, <2>2
  <2>4. WithoutId(list, id) = pre \o post
    BY <1>2 DEF WithoutId
  <2> HIDE DEF h
  <2>5. pre \in Seq(Ace) /\ Len(pre) = h - 1
    <3>1. \A i1 \in 1 .. h - 1 : list[i1] \in Ace
      BY <1>0, <2>3
    <3>2. 1 \in Int /\ h - 1 \in Int
      BY <1>0, <2>3
    <3>3. pre \in Seq(Ace) /\ Len(pre) = IF 1 <= h - 1 THEN h - 1 - 1 + 1 ELSE 0
      BY <3>1, <3>2, SubSeqProperties
    <3> QED  BY <3>3, <2>3, <1>0
  <2>6. post \in Seq(Ace) /\ Len(post) = Len(list) - h
    <3>1. \A i1 \in h + 1 .. Len(list) : list[i1] \in Ace
      BY <1>0, <2>3
    <3>2. h + 1 \in Int /\ Len(list) \in Int
      BY <1>0, <2>3
    <3>3. post \in Seq(Ace) /\ Len(post) = IF h + 1 <= Len(list) THEN Len(list) - (h + 1) + 1 ELSE 0
      BY <3>1, <3>2, SubSeqProperties
    <3> HIDE DEF post
    <3>4. \A a, b \in Nat : a \in 1 .. b => (IF a + 1 <= b THEN b - (a + 1) + 1 ELSE 0) = b - a
      OBVIOUS
    <3>5. h \in Nat
      BY <2>3
    <3> QED  BY <3>3, <3>4, <3>5, <2>3, <1>0, Zenon
  <2> HIDE DEF pre, post
  <2>7. pre \o post \in Seq(Ace) /\ Len(pre \o post) = Len(pre) + Len(post)
    BY <2>5, <2>6, ConcatProperties
  <2> QED  BY <2>3, <2>4, <2>5, <2>6, <2>7, <1>0
<1> QED  BY <1>1, <1>2

(* And the lists that the posts make are longer by one.                    *)
LEMMA PrependList ==
  ASSUME NEW list \in Seq(Ace), NEW ace \in Ace
  PROVE  <<ace>> \o list \in Seq(Ace) /\ Len(<<ace>> \o list) = Len(list) + 1
<1> HIDE DEF Ace
<1>1. <<ace>> \in Seq(Ace) /\ Len(<<ace>>) = 1
  OBVIOUS
<1> QED  BY <1>1, ConcatProperties

-----------------------------------------------------------------------------
(* One pass over the list.                                                 *)
LEMMA AceGrants ==
  \A c, ace : ProcessMatchingACE(c, ace) = "GRANTED"
                <=> /\ IsResourceInAce(c, ace)
                    /\ IsAccessWithinValidTime(ace)
                    /\ c.permission \subseteq ace.permission
  BY DEF ProcessMatchingACE

(* The pass grants exactly if one of the ACEs does, wherever it is: those  *)
(* before it do not end the pass, those after it are not looked at.        *)
LEMMA SearchGrants ==
  ASSUME TypeOK, NEW c, NEW S, NEW response, response # "GRANTED"
  PROVE  Search(c, S, response) = "GRANTED"
           <=> \E i \in 1 .. Len(acl) : /\ acl[i].subject \in S
                                        /\ ProcessMatchingACE(c, acl[i]) = "GRANTED"
<1>0. Len(acl) \in Nat
  <2>1. acl \in Seq(Ace)
    BY DEF TypeOK
  <2> QED  BY <2>1, LenProperties
<1> DEFINE L == Looked(c, S)
           last == CHOOSE i \in L : \A j \in L : j <= i
           hit(i) == acl[i].subject \in S /\ ProcessMatchingACE(c, acl[i]) = "GRANTED"
<1>1. L \in SUBSET (1 .. Len(acl))
  BY DEF Looked
<1>2. ASSUME L # {} PROVE last \in L /\ \A j \in L : j <= last
  <2>1. \E x \in L : \A y \in L : y <= x
    BY <1>0, <1>1, <1>2, GreatestNat
  <2> HIDE DEF L
  <2> QED  BY <2>1
<1>3. Search(c, S, response) = IF L = {} THEN response ELSE ProcessMatchingACE(c, acl[last])
  BY DEF Search
<1>4. \A i \in L : /\ acl[i].subject \in S
                   /\ \A j \in 1 .. i - 1 : ~hit(j)
  BY DEF Looked
<1>5. ASSUME NEW m \in 1 .. Len(acl), hit(m), \A j \in 1 .. m - 1 : ~hit(j) PROVE m \in L
  BY <1>5 DEF Looked
<1> HIDE DEF L, last
<1>6. ASSUME Search(c, S, response) = "GRANTED" PROVE \E i \in 1 .. Len(acl) : hit(i)
  <2>1. L # {} /\ ProcessMatchingACE(c, acl[last]) = "GRANTED"
    BY <1>3, <1>6
  <2> QED  BY <1>1, <1>2, <1>4, <2>1
<1>7. ASSUME \E i \in 1 .. Len(acl) : hit(i) PROVE Search(c, S, response) = "GRANTED"
  <2> DEFINE T == {i \in 1 .. Len(acl) : hit(i)}
  <2>1. T # {} /\ T \in SUBSET Nat
    BY <1>0, <1>7
  <2>2. PICK m \in T : \A y \in T : m <= y
    BY <2>1, LeastNat
  <2>3. m \in 1 .. Len(acl) /\ hit(m)
    BY <2>2
  <2>4. \A j \in 1 .. m - 1 : ~hit(j)
    <3> SUFFICES ASSUME NEW j \in 1 .. m - 1, hit(j) PROVE FALSE
      OBVIOUS
    <3>1. j \in 1 .. Len(acl) /\ ~(m <= j)
      BY <1>0, <2>3
    <3>2. j \in T
      BY <3>1
    <3> QED  BY <2>2, <3>1, <3>2
  <2> HIDE DEF hit
  <2>5. m \in L
    BY <1>5, <2>3, <2>4
  <2>6. last \in L /\ m <= last
    BY <1>2, <2>5
  <2>7. ~(m < last)
    <3>1. SUFFICES ASSUME m < last PROVE FALSE
      OBVIOUS
    <3>2. last \in 1 .. Len(acl) /\ m \in 1 .. last - 1
      BY <1>0, <1>1, <2>3, <2>6, <3>1
    <3> QED  BY <1>4, <2>3, <2>6, <3>2
  <2>8. last = m
    BY <1>0, <1>1, <2>3, <2>6, <2>7
  <2>9. ProcessMatchingACE(c, acl[m]) = "GRANTED"
    BY <2>3 DEF hit
  <2> QED  BY <1>3, <2>5, <2>8, <2>9
<1> QED  BY <1>6, <1>7

(* The three passes grant exactly if one of the ACEs does that have the    *)
(* kind of connection, the UUID or a role of the requester as subject.     *)
LEMMA AccessGrants ==
  ASSUME TypeOK, NEW c
  PROVE  ProcessAccessRequest(c) = "GRANTED"
           <=> \E i \in 1 .. Len(acl) :
                 /\ \/ acl[i].subject = <<"conn", IF c.secureChannel THEN "auth" ELSE "anon">>
                    \/ acl[i].subject = <<"uuid", c.subject>>
                    \/ acl[i].subject \in {"role"} \X c.roles
                 /\ ProcessMatchingACE(c, acl[i]) = "GRANTED"
<1> DEFINE kind == <<"conn", IF c.secureChannel THEN "auth" ELSE "anon">>
           uuid == <<"uuid", c.subject>>
           roles == {"role"} \X c.roles
           byConn == Search(c, {kind}, "SUBJECT")
           byUuid == IF byConn = "GRANTED" THEN byConn ELSE Search(c, {uuid}, byConn)
           all == IF byUuid = "GRANTED" THEN byUuid ELSE Search(c, roles, byUuid)
           hit(S) == \E i \in 1 .. Len(acl) : acl[i].subject \in S /\ ProcessMatchingACE(c, acl[i]) = "GRANTED"
<1>1. ProcessAccessRequest(c) = all
  BY DEF ProcessAccessRequest
<1>2. byConn = "GRANTED" <=> hit({kind})
  <2>1. "SUBJECT" # "GRANTED"
    OBVIOUS
  <2> QED  BY <2>1, SearchGrants
<1>3. ASSUME byConn # "GRANTED" PROVE byUuid = "GRANTED" <=> hit({uuid})
  <2>1. Search(c, {uuid}, byConn) = "GRANTED" <=> hit({uuid})
    BY <1>3, SearchGrants
  <2> QED  BY <1>3, <2>1
<1>4. ASSUME byUuid # "GRANTED" PROVE all = "GRANTED" <=> hit(roles)
  <2>1. Search(c, roles, byUuid) = "GRANTED" <=> hit(roles)
    BY <1>4, SearchGrants
  <2> QED  BY <1>4, <2>1
<1>5. all = "GRANTED" <=> hit({kind}) \/ hit({uuid}) \/ hit(roles)
  <2>1. byConn = "GRANTED" => byUuid = "GRANTED"
    OBVIOUS
  <2>2. byUuid = "GRANTED" => all = "GRANTED"
    OBVIOUS
  <2> HIDE DEF byConn, byUuid, all, hit
  <2> QED  BY <1>2, <1>3, <1>4, <2>1, <2>2
<1> HIDE DEF kind, uuid, roles, all
<1> QED  BY <1>1, <1>5 DEF kind, uuid, roles

-----------------------------------------------------------------------------
(* The context that a request is decided in.                               *)
KeptUri(r) == IF r.uri = TooLong THEN "" ELSE r.uri

ContextOf(r, p) ==
  LET uri == KeptUri(r)
  IN /\ "response" \in DOMAIN p
     /\ p.uri = uri
     /\ p.type = IF r.uri = TooLong THEN "error" ELSE GetSvrTypeFromUri(r.uri)
     /\ p.permission = GetPermissionFromCAMethod_t(r.method)
     /\ p.subject = r.subject
     /\ p.secureChannel = IsRequestOverSecureChannel(r)
     /\ p.roles = r.roles /\ p.admin = r.admin
     /\ p.discoverable = IF uri \notin DOMAIN Props THEN "unknown"
                         ELSE IF "discoverable" \in Props[uri] THEN "yes" ELSE "no"
     /\ uri \in DOMAIN Props => /\ p.isSecure = ("secure" \in Props[uri])
                                /\ p.isNonsecure = ("nonsecure" \in Props[uri])

LEMMA PreparedIs == ASSUME NEW c, NEW r PROVE ContextOf(r, Prepared(c, r))
<1> DEFINE uri == KeptUri(r)
           c1 == [ClearRequestContext(c) EXCEPT
                    !.permission = GetPermissionFromCAMethod_t(r.method),
                    !.subject = r.subject, !.secureChannel = IsRequestOverSecureChannel(r),
                    !.roles = r.roles, !.admin = r.admin]
           c2 == SetResourceUriAndType(c1, r.uri)
           fields == {"uri", "type", "permission", "subject", "secureChannel", "discoverable",
                      "isSecure", "isNonsecure", "roles", "admin", "response"}
<1>1. /\ DOMAIN c1 = fields
      /\ c1.uri = "" /\ c1.type = "error" /\ c1.subject = r.subject
      /\ c1.permission = GetPermissionFromCAMethod_t(r.method)
      /\ c1.secureChannel = IsRequestOverSecureChannel(r)
      /\ c1.roles = r.roles /\ c1.admin = r.admin
  BY DEF ClearRequestContext, Zero
<1> HIDE DEF c1
<1>2. /\ DOMAIN c2 = fields
      /\ c2.uri = uri /\ c2.type = IF r.uri = TooLong THEN "error" ELSE GetSvrTypeFromUri(r.uri)
      /\ c2.permission = c1.permission /\ c2.subject = c1.subject
      /\ c2.secureChannel = c1.secureChannel /\ c2.roles = c1.roles /\ c2.admin = c1.admin
  BY <1>1 DEF SetResourceUriAndType, KeptUri
<1> HIDE DEF c2
<1>3. Prepared(c, r) = SetDiscoverableAndOcSecureFlags(c2)
  BY DEF Prepared, c1, c2
<1>4. CASE uri \notin DOMAIN Props
  BY <1>1, <1>2, <1>3, <1>4 DEF SetDiscoverableAndOcSecureFlags, ContextOf
<1>5. CASE uri \in DOMAIN Props
  <2> DEFINE p == Prepared(c, r)
  <2>1. p = [c2 EXCEPT !.discoverable = IF "discoverable" \in Props[uri] THEN "yes" ELSE "no",
                       !.isSecure = "secure" \in Props[uri],
                       !.isNonsecure = "nonsecure" \in Props[uri]]
    BY <1>2, <1>3, <1>5 DEF SetDiscoverableAndOcSecureFlags
  <2> HIDE DEF p
  <2>2. p.isSecure = ("secure" \in Props[uri]) /\ p.isNonsecure = ("nonsecure" \in Props[uri])
    BY <1>2, <2>1, Zenon
  <2>3. p.discoverable = IF "discoverable" \in Props[uri] THEN "yes" ELSE "no"
    BY <1>2, <2>1
  <2>4. /\ DOMAIN p = DOMAIN c2 /\ p.uri = c2.uri /\ p.type = c2.type /\ p.permission = c2.permission
        /\ p.subject = c2.subject /\ p.secureChannel = c2.secureChannel
        /\ p.roles = c2.roles /\ p.admin = c2.admin
    BY <1>2, <2>1
  <2> QED  BY <1>1, <1>2, <1>5, <2>2, <2>3, <2>4 DEF ContextOf, p
<1> QED  BY <1>4, <1>5

(* Two contexts that differ at most in flags that are not set for the      *)
(* resource: nothing that decides the request tells them apart.            *)
Alike(c, d) ==
  /\ c.uri = d.uri /\ c.type = d.type /\ c.permission = d.permission /\ c.subject = d.subject
  /\ c.secureChannel = d.secureChannel /\ c.roles = d.roles /\ c.admin = d.admin
  /\ c.discoverable = d.discoverable
  /\ c.discoverable = "yes" => c.isSecure = d.isSecure /\ c.isNonsecure = d.isNonsecure

LEMMA PreparedAlike == \A c, d, r : Alike(Prepared(c, r), Prepared(d, r))
<1> TAKE c, d, r
<1> DEFINE p == Prepared(c, r)
           q == Prepared(d, r)
<1>1. ContextOf(r, p) /\ ContextOf(r, q)
  BY PreparedIs
<1> HIDE DEF p, q
<1>2. /\ p.uri = q.uri /\ p.type = q.type /\ p.permission = q.permission /\ p.subject = q.subject
      /\ p.secureChannel = q.secureChannel /\ p.roles = q.roles /\ p.admin = q.admin
      /\ p.discoverable = q.discoverable
  BY <1>1 DEF ContextOf
<1>3. p.discoverable = "yes" => KeptUri(r) \in DOMAIN Props
  BY <1>1 DEF ContextOf
<1>4. p.discoverable = "yes" => p.isSecure = q.isSecure /\ p.isNonsecure = q.isNonsecure
  BY <1>1, <1>3, Zenon DEF ContextOf
<1> QED  BY <1>2, <1>4 DEF Alike, p, q

LEMMA AlikeInAce ==
  ASSUME NEW c, NEW d, Alike(c, d), NEW ace
  PROVE  /\ IsResourceInAce(c, ace) <=> IsResourceInAce(d, ace)
         /\ ProcessMatchingACE(c, ace) = ProcessMatchingACE(d, ace)
<1>1. IsResourceInAce(c, ace) <=> IsResourceInAce(d, ace)
  BY DEF Alike, IsResourceInAce
<1> QED  BY <1>1 DEF Alike, ProcessMatchingACE

LEMMA AlikeAccess ==
  ASSUME NEW c, NEW d, Alike(c, d)
  PROVE  ProcessAccessRequest(c) = ProcessAccessRequest(d)
<1>1. \A S : Looked(c, S) = Looked(d, S)
  BY AlikeInAce DEF Looked
<1>2. \A S, x : Search(c, S, x) = Search(d, S, x)
  <2> TAKE S, x
  <2>1. Looked(c, S) = Looked(d, S)
    BY <1>1
  <2> QED  BY <2>1, AlikeInAce DEF Search
<1> QED  BY <1>2 DEF ProcessAccessRequest, Alike

-----------------------------------------------------------------------------
(* The decision.                                                           *)
OwnerMay(c) ==
  \/ IsRequestFromDevOwner(c) /\ dos \in {"RFOTM", "SRESET"} /\ c.type # "none"
  \/ IsRequestFromResourceOwner(c)
  \/ dos # "RFNOP" /\ c.type # "none" /\ c.admin
  \/ c.type \in RownerOf /\ IsRequestFrom(c, "doxm")
  \/ c.type = "pstat" /\ (IsRequestFrom(c, "acl") \/ IsRequestFrom(c, "cred"))

Verdict(c) == IF dos # "RFNOP" /\ c.uri \notin Dcr THEN "DENIED"
              ELSE IF OwnerMay(c) THEN "GRANTED"
              ELSE ProcessAccessRequest(c)

LEMMA DecisionIs ==
  ASSUME NEW c, NEW r
  PROVE  /\ Decision(c, r) = [Prepared(c, r) EXCEPT !.response = Verdict(Prepared(c, r))]
         /\ Decision(c, r).response = Verdict(Prepared(c, r))
<1> DEFINE p == Prepared(c, r)
<1>1. "response" \in DOMAIN p
  BY PreparedIs DEF ContextOf
<1> HIDE DEF p
<1>2. Decision(c, r) = [p EXCEPT !.response = Verdict(p)]
  BY DEF Decision, CheckPermission, Verdict, OwnerMay, p
<1>3. Decision(c, r).response = Verdict(p)
  BY <1>1, <1>2
<1> QED  BY <1>2, <1>3 DEF p

(* No request is decided by what an earlier one left in the context.       *)
LEMMA NothingStale == \A c, d, r : Decision(c, r).response = Decision(d, r).response
<1> TAKE c, d, r
<1> DEFINE p == Prepared(c, r)
           q == Prepared(d, r)
<1>1. Alike(p, q)
  BY PreparedAlike
<1> HIDE DEF p, q
<1>2. OwnerMay(p) <=> OwnerMay(q)
  BY <1>1 DEF Alike, OwnerMay, IsRequestFromDevOwner, IsRequestFromResourceOwner,
     IsRequestFrom, RownerEntry
<1>3. ProcessAccessRequest(p) = ProcessAccessRequest(q)
  BY <1>1, AlikeAccess
<1>4. Verdict(p) = Verdict(q)
  BY <1>1, <1>2, <1>3 DEF Verdict, Alike
<1> QED  BY <1>4, DecisionIs DEF p, q

(* The list grants a request exactly if one of its ACEs does.              *)
LEMMA ListGrants ==
  ASSUME TypeOK, NEW c, NEW r
  PROVE  ProcessAccessRequest(Prepared(c, r)) = "GRANTED" <=> SomeAceGrants(r)
<1> DEFINE p == Prepared(c, r)
           z == Prepared(Zero, r)
<1>1. Alike(p, z)
  BY PreparedAlike
<1>2. ContextOf(r, p)
  BY PreparedIs
<1> HIDE DEF p, z
<1>3. ASSUME NEW i \in 1 .. Len(acl)
      PROVE  Grants(acl[i], r)
               <=> /\ \/ acl[i].subject = <<"conn", IF p.secureChannel THEN "auth" ELSE "anon">>
                      \/ acl[i].subject = <<"uuid", p.subject>>
                      \/ acl[i].subject \in {"role"} \X p.roles
                   /\ ProcessMatchingACE(p, acl[i]) = "GRANTED"
  <2>1. IsResourceInAce(p, acl[i]) <=> IsResourceInAce(z, acl[i])
    BY <1>1, AlikeInAce
  <2>2. ProcessMatchingACE(p, acl[i]) = "GRANTED"
          <=> /\ IsResourceInAce(p, acl[i])
              /\ IsAccessWithinValidTime(acl[i])
              /\ p.permission \subseteq acl[i].permission
    BY AceGrants
  <2>3. /\ p.secureChannel = IsRequestOverSecureChannel(r) /\ p.subject = r.subject
        /\ p.roles = r.roles /\ p.permission = GetPermissionFromCAMethod_t(r.method)
    BY <1>2 DEF ContextOf
  <2> DEFINE auth == <<"conn", IF p.secureChannel THEN "auth" ELSE "anon">>
  <2>4. auth = <<"conn", IF IsRequestOverSecureChannel(r) THEN "auth" ELSE "anon">>
    BY <2>3
  <2> HIDE DEF auth
  <2>5. Grants(acl[i], r) <=>
          /\ \/ acl[i].subject = <<"uuid", p.subject>>
             \/ acl[i].subject = auth
             \/ acl[i].subject \in {"role"} \X p.roles
          /\ IsAccessWithinValidTime(acl[i])
          /\ p.permission \subseteq acl[i].permission
          /\ IsResourceInAce(z, acl[i])
    BY <2>3, <2>4 DEF Grants, z
  <2> QED  BY <2>1, <2>2, <2>5 DEF auth
<1> QED  BY <1>3, AccessGrants DEF SomeAceGrants, p

LEMMA AppDecided == ASSUME TypeOK PROVE AclDecides
<1> SUFFICES ASSUME NEW r \in Asked, r.uri \in App
             PROVE  Granted(r) <=> dos = "RFNOP" /\ SomeAceGrants(r)
  BY DEF AclDecides
<1> DEFINE p == Prepared(ctx, r)
<1>1. r.uri \notin Dcr /\ r.uri # TooLong
  BY DeviceAssumption
<1>2. p.uri = r.uri /\ p.type = "none"
  <2>1. ContextOf(r, p)
    BY PreparedIs
  <2> HIDE DEF p
  <2> QED  BY <1>1, <2>1 DEF ContextOf, KeptUri, GetSvrTypeFromUri, Dcr
<1>3. ProcessAccessRequest(p) = "GRANTED" <=> SomeAceGrants(r)
  BY ListGrants
<1>4. Granted(r) <=> Verdict(p) = "GRANTED"
  BY DecisionIs DEF Granted
<1> HIDE DEF p
<1>5. dos = "RFNOP" => ~OwnerMay(p)
  BY <1>2 DEF OwnerMay, IsRequestFromResourceOwner, RownerEntry, RownerOf
<1> QED  BY <1>1, <1>2, <1>3, <1>4, <1>5 DEF Verdict

LEMMA AnonymousDecided == ASSUME TypeOK PROVE AnonymousOwnsNothing
<1> SUFFICES ASSUME NEW r \in Asked, r.subject = Nil, ~r.admin, Granted(r)
             PROVE  SomeAceGrants(r)
  BY DEF AnonymousOwnsNothing
<1> DEFINE p == Prepared(ctx, r)
<1>1. p.subject = Nil /\ ~p.admin
  <2>1. ContextOf(r, p)
    BY PreparedIs
  <2> HIDE DEF p
  <2> QED  BY <2>1 DEF ContextOf
<1>2. ProcessAccessRequest(p) = "GRANTED" <=> SomeAceGrants(r)
  BY ListGrants
<1>3. Verdict(p) = "GRANTED"
  BY DecisionIs DEF Granted
<1> HIDE DEF p
<1>4. ~OwnerMay(p)
  BY <1>1 DEF OwnerMay, IsRequestFromDevOwner, IsRequestFromResourceOwner, IsRequestFrom
<1> QED  BY <1>2, <1>3, <1>4 DEF Verdict

-----------------------------------------------------------------------------
(* Types of the context.                                                   *)
Response == {"GRANTED", "ERROR", "DENIED", "SUBJECT", "RESOURCE", "PERIOD", "PERMISSION"}

LEMMA VerdictTyped == \A c : Verdict(c) \in Response
<1>1. \A c, ace : ProcessMatchingACE(c, ace) \in Response
  BY DEF ProcessMatchingACE, Response
<1>2. \A c, S : \A x \in Response : Search(c, S, x) \in Response
  BY <1>1 DEF Search
<1>3. "SUBJECT" \in Response /\ "DENIED" \in Response /\ "GRANTED" \in Response
  BY DEF Response
<1>4. \A c : ProcessAccessRequest(c) \in Response
  BY <1>2, <1>3 DEF ProcessAccessRequest
<1> QED  BY <1>3, <1>4 DEF Verdict

LEMMA ZeroTyped == Zero \in Context
  BY AclAssumption DEF Zero, Context

LEMMA DecisionTyped ==
  ASSUME NEW c \in Context, NEW r \in Request
  PROVE  Decision(c, r) \in Context
<1> DEFINE c0 == ClearRequestContext(c)
           c1 == [c0 EXCEPT
                    !.permission = GetPermissionFromCAMethod_t(r.method),
                    !.subject = r.subject, !.secureChannel = IsRequestOverSecureChannel(r),
                    !.roles = r.roles, !.admin = r.admin]
           c2 == SetResourceUriAndType(c1, r.uri)
           c3 == SetDiscoverableAndOcSecureFlags(c2)
<1>1. c0 \in Context
  BY ZeroTyped DEF ClearRequestContext, Context
<1> HIDE DEF c0
<1>2. /\ GetPermissionFromCAMethod_t(r.method) \in SUBSET Permission
      /\ r.subject \in Uuid /\ r.roles \in SUBSET Role /\ r.admin \in BOOLEAN /\ r.uri \in Uri
  BY DEF Request, GetPermissionFromCAMethod_t, Permission
<1>3. IsRequestOverSecureChannel(r) \in BOOLEAN
  BY Zenon DEF Request, IsRequestOverSecureChannel
<1>4. c1 \in Context
  BY <1>1, <1>2, <1>3 DEF Context
<1> HIDE DEF c1
<1>5. c2 \in Context
  <2>1. GetSvrTypeFromUri(r.uri) \in Svr \cup {"none", "error"}
    BY DEF GetSvrTypeFromUri
  <2>2. \A u \in Uri, t \in Svr \cup {"none", "error"} : [c1 EXCEPT !.uri = u, !.type = t] \in Context
    BY <1>4 DEF Context
  <2> QED  BY <1>2, <1>4, <2>1, <2>2 DEF SetResourceUriAndType
<1> HIDE DEF c2
<1>6. c3 \in Context
  <2>1. /\ ("secure" \in Props[c2.uri]) \in BOOLEAN
        /\ ("nonsecure" \in Props[c2.uri]) \in BOOLEAN
    OBVIOUS
  <2>2. \A x \in {"unknown", "yes", "no"}, a, b \in BOOLEAN :
          /\ [c2 EXCEPT !.discoverable = x] \in Context
          /\ [c2 EXCEPT !.discoverable = x, !.isSecure = a, !.isNonsecure = b] \in Context
    <3> TAKE x \in {"unknown", "yes", "no"}, a, b \in BOOLEAN
    <3>1. [c2 EXCEPT !.discoverable = x] \in Context
      BY <1>5 DEF Context
    <3>2. [c2 EXCEPT !.discoverable = x, !.isSecure = a, !.isNonsecure = b] \in Context
      BY <1>5 DEF Context
    <3> QED  BY <3>1, <3>2
  <2> QED  BY <2>1, <2>2, Zenon DEF SetDiscoverableAndOcSecureFlags
<1>7. Prepared(c, r) = c3
  BY DEF Prepared, c0, c1, c2
<1> HIDE DEF c3
<1>8. Decision(c, r) = [c3 EXCEPT !.response = Verdict(c3)]
  BY <1>7, DecisionIs
<1> QED  BY <1>6, <1>8, VerdictTyped DEF Context, Response

-----------------------------------------------------------------------------
(* The changes of the list.                                                *)
AclAnswer == {"none", "ok", "changed", "deleted", "duplicate", "error", "not acceptable"}

ListOK == /\ acl \in Seq(Ace) /\ saved \in Seq(Ace)
          /\ Len(acl) <= MaxAces /\ Len(saved) <= MaxAces
          /\ answer \in AclAnswer /\ stuck \in BOOLEAN
          /\ answer \in {"changed", "deleted"} => saved = acl
RestOK == ctx \in Context /\ owners \in Owner /\ dos \in DosState

LEMMA IndParts == IndInv <=> ListOK /\ freeId \in 0 .. IdCount - 1 /\ RestOK
  BY DEF IndInv, TypeOK, SuccessIsDurable, ListOK, RestOK, AclAnswer

(* Save: what was answered as done is on file.                             *)
LEMMA SaveList ==
  ASSUME ListOK, NEW list \in Seq(Ace), Len(list) <= MaxAces,
         NEW ok \in AclAnswer, NEW failed \in {"ok", "error"}, Save(list, ok, failed)
  PROVE  ListOK'
<1> HIDE DEF Ace, AclAnswer
<1>0. "none" \in AclAnswer /\ "ok" \in AclAnswer /\ "error" \in AclAnswer
  BY DEF AclAnswer
<1>1. CASE ~Encodable(list) /\ stuck' = TRUE /\ answer' = "none" /\ UNCHANGED saved
  BY <1>0, <1>1 DEF ListOK, Save
<1>2. CASE Encodable(list) /\ saved' = list /\ answer' = ok /\ UNCHANGED stuck
  BY <1>0, <1>2 DEF ListOK, Save
<1>3. CASE Encodable(list) /\ answer' = failed /\ UNCHANGED <<saved, stuck>>
  BY <1>0, <1>3 DEF ListOK, Save
<1> QED  BY <1>1, <1>2, <1>3 DEF Save

LEMMA AnswerList ==
  ASSUME ListOK, NEW a \in {"ok", "duplicate", "not acceptable"}, Answer(a)
  PROVE  ListOK' /\ UNCHANGED freeId
  BY DEF ListOK, Answer, AclAnswer

LEMMA ReloadList == ASSUME ListOK, Reload, UNCHANGED saved PROVE ListOK' /\ freeId' = FirstFree
  BY DEF ListOK, Reload, AclAnswer

(* The lists that the two posts and InstallACL make.                       *)
LEMMA PostList ==
  ASSUME ListOK, freeId \in 0 .. IdCount - 1, NEW ace \in Ace,
         HandleACL2PostRequest(ace) \/ HandleACLPostRequest(ace) \/ InstallACL(ace)
  PROVE  ListOK' /\ freeId' \in 0 .. IdCount - 1
<1>0. acl \in Seq(Ace) /\ Len(acl) \in Nat /\ MaxAces \in Nat /\ IdCount \in Nat
  BY AclAssumption DEF ListOK
<1>1. NextFreeId \in 0 .. IdCount - 1
  <2>1. IdCount > 0
    BY AclAssumption
  <2> QED  BY <2>1, <1>0 DEF NextFreeId
<1>2. ASSUME Answer("not acceptable") \/ Answer("duplicate")
      PROVE  ListOK' /\ freeId' \in 0 .. IdCount - 1
  BY <1>2, AnswerList
<1>3. ASSUME HandleACL2PostRequest(ace), ~Answer("not acceptable")
      PROVE  ListOK' /\ freeId' \in 0 .. IdCount - 1
  <2>1. Len(acl) < MaxAces
    BY <1>3 DEF HandleACL2PostRequest
  <2>2. CASE ace.aceid = 0
    <3> DEFINE new == [ace EXCEPT !.aceid = freeId]
    <3>1. new \in Ace
      BY DEF Ace
    <3> HIDE DEF new
    <3>2. <<new>> \o acl \in Seq(Ace) /\ Len(<<new>> \o acl) = Len(acl) + 1
      BY <1>0, <3>1, PrependList
    <3>3. Save(<<new>> \o acl, "changed", "error") /\ freeId' = NextFreeId
      BY <1>3, <2>2 DEF HandleACL2PostRequest, new
    <3>4. "changed" \in AclAnswer
      BY DEF AclAnswer
    <3>5. Len(<<new>> \o acl) <= MaxAces
      BY <1>0, <2>1, <3>2
    <3> QED  BY <1>1, <3>2, <3>3, <3>4, <3>5, SaveList
  <2>3. CASE ace.aceid # 0
    <3> DEFINE left == WithoutId(acl, ace.aceid)
    <3>1. left \in Seq(Ace) /\ Len(left) <= Len(acl) /\ Len(left) \in Nat
      BY <1>0, WithoutIdList
    <3> HIDE DEF left
    <3>2. <<ace>> \o left \in Seq(Ace) /\ Len(<<ace>> \o left) = Len(left) + 1
      BY <3>1, PrependList
    <3>3. Save(<<ace>> \o left, "changed", "error") /\ UNCHANGED freeId
      BY <1>3, <2>3 DEF HandleACL2PostRequest, left
    <3>4. "changed" \in AclAnswer
      BY DEF AclAnswer
    <3>5. Len(<<ace>> \o left) <= MaxAces
      BY <1>0, <2>1, <3>1, <3>2
    <3> QED  BY <3>2, <3>3, <3>4, <3>5, SaveList
  <2> QED  BY <2>2, <2>3
<1>4. ASSUME HandleACLPostRequest(ace), ~Answer("not acceptable")
      PROVE  ListOK' /\ freeId' \in 0 .. IdCount - 1
  <2> DEFINE new == IF Known(ace) THEN acl ELSE <<ace>> \o acl
  <2>1. Len(acl) < MaxAces /\ UNCHANGED freeId /\ Save(new, "changed", "error")
    BY <1>4 DEF HandleACLPostRequest
  <2>2. <<ace>> \o acl \in Seq(Ace) /\ Len(<<ace>> \o acl) = Len(acl) + 1
    BY <1>0, PrependList
  <2>3. new \in Seq(Ace) /\ Len(new) <= MaxAces
    BY <1>0, <2>1, <2>2
  <2>4. "changed" \in AclAnswer
    BY DEF AclAnswer
  <2> HIDE DEF new
  <2> QED  BY <2>1, <2>3, <2>4, SaveList
<1>5. ASSUME InstallACL(ace), ~Answer("duplicate")
      PROVE  ListOK' /\ freeId' \in 0 .. IdCount - 1
  <2>1. Len(acl) < MaxAces /\ UNCHANGED freeId /\ Save(Append(acl, ace), "changed", "error")
    BY <1>5 DEF InstallACL
  <2>2. Append(acl, ace) \in Seq(Ace) /\ Len(Append(acl, ace)) = Len(acl) + 1
    BY <1>0, AppendProperties
  <2>3. "changed" \in AclAnswer /\ Len(Append(acl, ace)) <= MaxAces
    BY <1>0, <2>1, <2>2 DEF AclAnswer
  <2> QED  BY <2>1, <2>2, <2>3, SaveList
<1> QED  BY <1>2, <1>3, <1>4, <1>5

(* The lists that the deletions leave.                                     *)
LEMMA DeleteList ==
  ASSUME ListOK, RestOK, freeId \in 0 .. IdCount - 1,
         NEW what \in Deletion, HandleACLDeleteRequest(what)
  PROVE  ListOK' /\ freeId' \in 0 .. IdCount - 1 /\ ctx' \in Context
<1>0. acl \in Seq(Ace) /\ Len(acl) \in Nat /\ Len(acl) <= MaxAces /\ MaxAces \in Nat
  BY AclAssumption DEF ListOK
<1>1. "deleted" \in AclAnswer /\ FirstFree \in 0 .. IdCount - 1
  BY AclAssumption DEF AclAnswer
<1>2. ASSUME NEW list \in Seq(Ace), Len(list) <= Len(acl),
             Answer("ok") \/ (Save(list, "deleted", "ok") /\ UNCHANGED freeId),
             UNCHANGED ctx
      PROVE  ListOK' /\ freeId' \in 0 .. IdCount - 1 /\ ctx' \in Context
  <2>1. Len(list) <= MaxAces
    BY <1>0, <1>2
  <2> QED  BY <1>1, <1>2, <2>1, SaveList, AnswerList DEF RestOK
<1>3. CASE ReadOnly
  BY <1>3, AnswerList DEF HandleACLDeleteRequest, RestOK
<1>4. CASE ~ReadOnly /\ what.by = "id"
  <2>1. RemoveAceByAceIds(what.id) /\ UNCHANGED ctx
    BY <1>4 DEF HandleACLDeleteRequest
  <2>2. WithoutId(acl, what.id) \in Seq(Ace) /\ Len(WithoutId(acl, what.id)) <= Len(acl)
    BY <1>0, WithoutIdList
  <2> QED  BY <1>2, <2>1, <2>2 DEF RemoveAceByAceIds
<1>5. CASE ~ReadOnly /\ what.by = "subject"
  <2>1. RemoveACE(what.uuid) /\ UNCHANGED ctx
    BY <1>5 DEF HandleACLDeleteRequest
  <2>2. WithoutSubject(what.uuid) \in Seq(Ace) /\ Len(WithoutSubject(what.uuid)) <= Len(acl)
    <3> DEFINE S == {i \in 1 .. Len(acl) : ~HasUuid(acl[i], what.uuid)}
    <3>1. S \in SUBSET (1 .. Len(acl)) /\ \A i \in S : acl[i] \in Ace
      BY <1>0
    <3> HIDE DEF S
    <3>2. Kept(acl, S) \in Seq(Ace) /\ Len(Kept(acl, S)) <= Len(acl)
      BY <1>0, <3>1, KeptList
    <3> QED  BY <3>2 DEF WithoutSubject, S
  <2> QED  BY <1>2, <2>1, <2>2 DEF RemoveACE
<1>6. CASE ~ReadOnly /\ what.by = "resource"
  <2> DEFINE u == what.uuid
             href == what.href
             hit(ace) == HasUuid(ace, u) /\ href \in ace.resources
             cut == [i \in 1 .. Len(acl) |->
                       IF hit(acl[i]) THEN [acl[i] EXCEPT !.resources = @ \ {href}] ELSE acl[i]]
             S == {i \in 1 .. Len(acl) : cut[i].resources # {}}
             left == Kept(cut, S)
  <2>1. RemoveACEResource(u, href)
    BY <1>6 DEF HandleACLDeleteRequest
  <2>2. \/ Reload /\ UNCHANGED saved
        \/ /\ UNCHANGED ctx
           /\ Answer("ok") \/ (Save(left, "deleted", "ok") /\ UNCHANGED freeId)
    BY <2>1 DEF RemoveACEResource
  <2>3. ASSUME NEW i \in 1 .. Len(acl) PROVE cut[i] \in Ace
    <3>1. acl[i] \in Ace
      BY <1>0
    <3>2. [acl[i] EXCEPT !.resources = @ \ {href}] \in Ace
      BY <3>1 DEF Ace
    <3> QED  BY <3>1, <3>2
  <2>4. S \in SUBSET (1 .. Len(acl)) /\ \A i \in S : cut[i] \in Ace
    BY <2>3
  <2> HIDE DEF S, cut
  <2>5. left \in Seq(Ace) /\ Len(left) <= Len(acl)
    BY <1>0, <2>4, KeptList
  <2> HIDE DEF left
  <2>6. CASE Reload /\ UNCHANGED saved
    <3>1. ctx' = Zero
      BY <2>6 DEF Reload
    <3> QED  BY <1>1, <2>6, <3>1, ReloadList, ZeroTyped
  <2> QED  BY <1>2, <2>2, <2>5, <2>6
<1>7. CASE ~ReadOnly /\ what.by = "all"
  <2>1. RemoveAllAce /\ UNCHANGED <<ctx, freeId>>
    BY <1>7 DEF HandleACLDeleteRequest, RemoveAllAce
  <2>2. << >> \in Seq(Ace) /\ Len(<< >>) <= MaxAces
    BY <1>0
  <2>3. CASE stuck' = TRUE /\ answer' = "none" /\ UNCHANGED <<acl, saved>>
    BY <2>1, <2>3 DEF ListOK, RestOK, AclAnswer
  <2>4. CASE Save(<< >>, "deleted", "ok")
    BY <1>1, <2>1, <2>2, <2>4, SaveList DEF RestOK
  <2>5. CASE saved' = acl /\ answer' = "deleted" /\ UNCHANGED <<acl, stuck>>
    BY <1>0, <1>1, <2>1, <2>5 DEF ListOK, RestOK
  <2> QED  BY <2>1, <2>3, <2>4, <2>5 DEF RemoveAllAce
<1>8. what.by \in {"id", "subject", "resource", "all"}
  BY DEF Deletion
<1> QED  BY <1>3, <1>4, <1>5, <1>6, <1>7, <1>8

-----------------------------------------------------------------------------
LEMMA InitHolds == Init => IndInv
<1> SUFFICES ASSUME Init PROVE IndInv
  OBVIOUS
<1>1. ListOK
  BY DeviceAssumption DEF Init, ListOK, AclAnswer
<1>2. RestOK
  BY DeviceAssumption, ZeroTyped DEF Init, RestOK, DosState
<1> QED  BY <1>1, <1>2, AclAssumption, IndParts DEF Init

LEMMA NextStep == IndInv /\ [Next]_vars => IndInv'
<1> SUFFICES ASSUME IndInv, [Next]_vars PROVE IndInv'
  OBVIOUS
<1>0. ListOK /\ freeId \in 0 .. IdCount - 1 /\ RestOK
  BY IndParts
<1>1. ASSUME ListOK', freeId' \in 0 .. IdCount - 1, RestOK' PROVE IndInv'
  BY <1>1 DEF IndInv, TypeOK, SuccessIsDurable, ListOK, RestOK, AclAnswer
<1>2. ASSUME NEW r \in Probe, SRMRequestHandler(r) PROVE IndInv'
  <2>1. ctx' \in Context
    BY <1>0, <1>2, DeviceAssumption, DecisionTyped DEF SRMRequestHandler, RestOK
  <2>2. ListOK' /\ freeId' \in 0 .. IdCount - 1 /\ RestOK'
    BY <1>0, <1>2, <2>1 DEF SRMRequestHandler, RestOK, ListOK
  <2> QED  BY <1>1, <2>2
<1>3. ASSUME NEW ace \in NewAce,
             HandleACL2PostRequest(ace) \/ HandleACLPostRequest(ace) \/ InstallACL(ace),
             UNCHANGED <<ctx, dos, owners>>
      PROVE  IndInv'
  <2>1. ace \in Ace
    BY DeviceAssumption
  <2>2. ListOK' /\ freeId' \in 0 .. IdCount - 1
    BY <1>0, <1>3, <2>1, PostList
  <2>3. RestOK'
    BY <1>0, <1>3 DEF RestOK
  <2> QED  BY <1>1, <2>2, <2>3
<1>4. ASSUME NEW what \in Deletion, HandleACLDeleteRequest(what), UNCHANGED <<dos, owners>>
      PROVE  IndInv'
  <2>1. ListOK' /\ freeId' \in 0 .. IdCount - 1 /\ ctx' \in Context
    BY <1>0, <1>4, DeleteList
  <2>2. RestOK'
    BY <1>0, <1>4, <2>1 DEF RestOK
  <2> QED  BY <1>1, <2>1, <2>2
<1>5. ASSUME NEW s \in DOMAIN Owners, SetDosState(s) PROVE IndInv'
  <2>1. RestOK'
    BY <1>0, <1>5, DeviceAssumption DEF SetDosState, RestOK
  <2>2. ListOK' /\ freeId' \in 0 .. IdCount - 1
    BY <1>0, <1>5 DEF SetDosState, ListOK
  <2> QED  BY <1>1, <2>1, <2>2
<1>6. CASE Restart
  <2>1. ListOK' /\ freeId' \in 0 .. IdCount - 1
    BY <1>0, <1>6, ReloadList, AclAssumption DEF Restart
  <2>2. RestOK'
    BY <1>0, <1>6, ZeroTyped DEF Restart, Reload, RestOK
  <2> QED  BY <1>1, <2>1, <2>2
<1>7. CASE UNCHANGED vars
  <2>1. ListOK' /\ freeId' \in 0 .. IdCount - 1 /\ RestOK'
    BY <1>0, <1>7 DEF vars, ListOK, RestOK
  <2> QED  BY <1>1, <2>1
<1> QED  BY <1>2, <1>3, <1>4, <1>5, <1>6, <1>7 DEF Next

LEMMA Invariance == Spec => []IndInv
  BY InitHolds, NextStep, PTL DEF Spec

(* Variables keep their types: the list never outgrows its bound, not even *)
(* by what is loaded from the file, the counter of ids wraps within 16     *)
(* bits, and the context of every request is one the decision can use.     *)
THEOREM AccessTypes == Spec => []TypeOK
<1>1. IndInv => TypeOK
  BY DEF IndInv
<1> QED  BY <1>1, Invariance, PTL

(* For every list and every request for an application resource: it is     *)
(* served exactly in normal operation and by some ACE.                     *)
THEOREM ListDecides == Spec => []AclDecides
<1>1. IndInv => AclDecides
  BY AppDecided DEF IndInv
<1> QED  BY <1>1, Invariance, PTL

(* For every list and every request without an identity: no stored nil     *)
(* UUID makes it an owner's.                                               *)
THEOREM NilOwnsNothing == Spec => []AnonymousOwnsNothing
<1>1. IndInv => AnonymousOwnsNothing
  BY AnonymousDecided DEF IndInv
<1> QED  BY <1>1, Invariance, PTL

(* For every sequence of requests: none is decided by what an earlier one  *)
(* left in the global context.                                             *)
THEOREM ContextNeverStale == Spec => []NoStaleContext
<1>1. NoStaleContext
  BY NothingStale DEF NoStaleContext
<1> QED  BY <1>1, PTL

(* For every sequence of changes and restarts: a change that was answered  *)
(* with success is on file.                                                *)
THEOREM SuccessDurable == Spec => []SuccessIsDurable
<1>1. IndInv => SuccessIsDurable
  BY DEF IndInv
<1> QED  BY <1>1, Invariance, PTL
=============================================================================
