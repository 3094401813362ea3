--------------------------- MODULE AccessControl ---------------------------
(***************************************************************************)
(* Who may do what: the policy engine (policyengine.c) that decides every  *)
(* incoming request, the one global request context of the security        *)
(* resource manager (secureresourcemanager.c) it works on, and the access  *)
(* control list (aclresource.c) it reads, in memory and on file, with the  *)
(* requests that change the list.                                          *)
(*                                                                         *)
(* One thread handles requests, so a handler is one step.  Writing the     *)
(* list to the file may fail.  An ACE with a validity makes the encoder    *)
(* loop for ever (aclresource.c:624): the thread is stuck until the        *)
(* process is killed.  Sub-owners (MULTIPLE_OWNER) are not modelled.       *)
(***************************************************************************)
EXTENDS Integers, Sequences, Lists

CONSTANTS Uuid, Nil,    \* UUIDs, the nil UUID
          Role,         \* roles, records [id, authority]
          App,          \* application resources (NCRs)
          Props,        \* property flags of the resources that exist
          Owners,       \* for the onboarding states: the owners a device has
          ShippedAcl,   \* the ACL before the first change
          NewAce,       \* the ACEs that are posted, aceid 0 for none
          Asked,        \* the requests that the properties look at
          Probe,        \* the requests that are made
          FirstFree,    \* ACE_ID_FIRST_FREE
          IdCount,      \* 2^16: aceid is a uint16_t
          MaxAces       \* bound on the length of the list

ASSUME AclAssumption == /\ Nil \in Uuid
                        /\ FirstFree \in 0 .. IdCount - 1
                        /\ IdCount \in Nat /\ MaxAces \in Nat

VARIABLES acl,      \* gAcl->aces
          freeId,   \* gAceFreeId
          saved,    \* the list on file
          ctx,      \* g_requestContext
          dos,      \* the onboarding state
          owners,   \* devowneruuid and the rowneruuids of the SVRs
          answer,   \* the answer to the last request that changes the list
          stuck     \* the thread is inside the encoder

vars == <<acl, freeId, saved, ctx, dos, owners, answer, stuck>>

RownerOf == {"acl", "cred", "doxm", "pstat"}
Owner == [devowner : Uuid, rowner : [RownerOf -> Uuid]]
Svr == RownerOf \cup {"acl2", "roles"}
Dcr == Svr \cup {"res"}
TooLong == "too long"
Uri == Dcr \cup App \cup {TooLong}
Flag == {"discoverable", "secure", "nonsecure"}

Permission == {"create", "read", "write", "delete", "notify"}
Subject == ({"uuid"} \X Uuid) \cup ({"role"} \X Role) \cup ({"conn"} \X {"auth", "anon"})
Wildcard == {"all", "all secure", "all nonsecure"}
Href == Uri \cup {"*"}
Ace == [aceid : 0 .. IdCount - 1, subject : Subject,
        resources : SUBSET (Href \cup Wildcard), permission : SUBSET Permission,
        validity : {"none", "within", "outside"}]

(* roles and admin are what the endpoint's DTLS session has: asserted      *)
(* roles, and whether it is the session of an ownership transfer.          *)
Request == [subject : Uuid, flag : BOOLEAN, uri : Uri,
            method : {"get", "put", "post", "delete", "other"},
            roles : SUBSET Role, admin : BOOLEAN]

Context == [uri : Uri \cup {""}, type : Svr \cup {"none", "error"},
            permission : SUBSET Permission, subject : Uuid, secureChannel : BOOLEAN,
            discoverable : {"unknown", "yes", "no"}, isSecure : BOOLEAN,
            isNonsecure : BOOLEAN, roles : SUBSET Role, admin : BOOLEAN,
            response : {"GRANTED", "ERROR", "DENIED", "SUBJECT", "RESOURCE", "PERIOD",
                        "PERMISSION"}]

DosState == {"RESET", "RFOTM", "RFPRO", "RFNOP", "SRESET"}

(* Application resources have names of their own; the device is shipped in *)
(* RFOTM with a list that fits; requests and ACEs are what the parser lets *)
(* through.                                                                *)
ASSUME DeviceAssumption ==
  /\ App \cap (Dcr \cup {TooLong}) = {}
  /\ "RFOTM" \in DOMAIN Owners /\ DOMAIN Owners \subseteq DosState
  /\ \A s \in DOMAIN Owners : Owners[s] \in Owner
  /\ ShippedAcl \in Seq(Ace) /\ Len(ShippedAcl) <= MaxAces
  /\ NewAce \subseteq Ace /\ Asked \subseteq Request /\ Probe \subseteq Request

(* The context before the first request.                                   *)
Zero == [uri |-> "", type |-> "error", permission |-> {}, subject |-> Nil,
         secureChannel |-> FALSE, discoverable |-> "unknown", isSecure |-> FALSE,
         isNonsecure |-> FALSE, roles |-> {}, admin |-> FALSE, response |-> "ERROR"]

Init == /\ acl = ShippedAcl /\ saved = ShippedAcl
        /\ freeId = FirstFree
        /\ ctx = Zero
        /\ dos = "RFOTM" /\ owners = Owners[dos]
        /\ answer = "none" /\ stuck = FALSE

-----------------------------------------------------------------------------
(* The context of a request.  The two flags survive ClearRequestContext.   *)
KeepsUri(c) ==  \* mutant
  [Zero EXCEPT !.isSecure = c.isSecure, !.isNonsecure = c.isNonsecure,
               !.uri = c.uri, !.type = c.type]

ClearRequestContext(c) ==
  [Zero EXCEPT !.isSecure = c.isSecure, !.isNonsecure = c.isNonsecure]

GetPermissionFromCAMethod_t(method) ==
  CASE method = "get"    -> {"read"}
    [] method = "post"   -> {"write"}
    [] method = "put"    -> {"create"}
    [] method = "delete" -> {"delete"}
    [] method = "other"  -> Permission

IsRequestOverSecureChannel(r) == r.flag \/ r.subject # Nil

GetSvrTypeFromUri(uri) == IF uri \in Svr THEN uri ELSE "none"

SetResourceUriAndType(c, uri) ==
  IF uri = TooLong THEN c ELSE [c EXCEPT !.uri = uri, !.type = GetSvrTypeFromUri(uri)]

(* A URI that is empty or names no resource leaves the flags as they are.  *)
SetDiscoverableAndOcSecureFlags(c) ==
  IF c.uri \notin DOMAIN Props THEN [c EXCEPT !.discoverable = "unknown"]
  ELSE [c EXCEPT !.discoverable = IF "discoverable" \in Props[c.uri] THEN "yes" ELSE "no",
                 !.isSecure = "secure" \in Props[c.uri],
                 !.isNonsecure = "nonsecure" \in Props[c.uri]]

Prepared(c, r) ==
  SetDiscoverableAndOcSecureFlags(
    SetResourceUriAndType(
      [ClearRequestContext(c) EXCEPT
         !.permission = GetPermissionFromCAMethod_t(r.method),
         !.subject = r.subject, !.secureChannel = IsRequestOverSecureChannel(r),
         !.roles = r.roles, !.admin = r.admin],
      r.uri))

-----------------------------------------------------------------------------
(* The decision.                                                           *)
IsNonConfigurationResourceUri(uri) == uri \notin Dcr

IsResourceInAce(c, ace) ==
  \E x \in ace.resources :
    \/ x \in {c.uri, "*"}
    \/ /\ IsNonConfigurationResourceUri(c.uri)
       /\ \/ x = "all"
          \/ x = "all secure" /\ c.discoverable = "yes" /\ c.isSecure
          \/ x = "all nonsecure" /\ c.discoverable = "yes" /\ c.isNonsecure

IsAccessWithinValidTime(ace) == ace.validity # "outside"

ProcessMatchingACE(c, ace) ==
  IF ~IsResourceInAce(c, ace) THEN "RESOURCE"
  ELSE IF ~IsAccessWithinValidTime(ace) THEN "PERIOD"
  ELSE IF ~(c.permission \subseteq ace.permission) THEN "PERMISSION"
  ELSE "GRANTED"

FirstMatchOnly(c, S, response) ==  \* mutant: the first ACE with the subject decides
  IF \E i \in 1 .. Len(acl) : acl[i].subject \in S
  THEN ProcessMatchingACE(c, acl[CHOOSE i \in 1 .. Len(acl) :
         acl[i].subject \in S /\ \A j \in 1 .. i - 1 : acl[j].subject \notin S])
  ELSE response

(* One pass over the list: the ACEs with a subject in S are looked at, in  *)
(* the order of the list, until one grants the request; the result is that *)
(* of the last one looked at.                                              *)
Looked(c, S) ==
  {i \in 1 .. Len(acl) :
     /\ acl[i].subject \in S
     /\ \A j \in 1 .. i - 1 : acl[j].subject \in S => ProcessMatchingACE(c, acl[j]) # "GRANTED"}

Search(c, S, response) ==
  IF Looked(c, S) = {} THEN response
  ELSE LET last == CHOOSE i \in Looked(c, S) : \A j \in Looked(c, S) : j <= i
       IN ProcessMatchingACE(c, acl[last])

(* By the kind of connection, then by the requester, then by its roles.    *)
ProcessAccessRequest(c) ==
  LET conn == {<<"conn", IF c.secureChannel THEN "auth" ELSE "anon">>}
      byConn == Search(c, conn, "SUBJECT")
      byUuid == IF byConn = "GRANTED" THEN byConn
                ELSE Search(c, {<<"uuid", c.subject>>}, byConn)
  IN IF byUuid = "GRANTED" THEN byUuid
     ELSE Search(c, {"role"} \X c.roles, byUuid)

IsRequestFromDevOwner(c) == c.subject # Nil /\ owners.devowner = c.subject

(* The resource that an SVR's owner is found in: acl2 has acl's.           *)
RownerEntry(type) == IF type = "acl2" THEN "acl" ELSE type

NilMayOwn(c) ==  \* mutant: the nil UUID is not excepted
  /\ RownerEntry(c.type) \in RownerOf
  /\ owners.rowner[RownerEntry(c.type)] = c.subject

IsRequestFromResourceOwner(c) ==
  /\ c.subject # Nil
  /\ RownerEntry(c.type) \in RownerOf
  /\ owners.rowner[RownerEntry(c.type)] = c.subject

IsRequestFrom(c, svr) == c.subject # Nil /\ owners.rowner[svr] = c.subject  \* Doxs, Ams, Cms

CheckPermission(c) ==
  LET granted == \/ IsRequestFromDevOwner(c) /\ dos \in {"RFOTM", "SRESET"} /\ c.type # "none"
                 \/ IsRequestFromResourceOwner(c)
                 \/ dos # "RFNOP" /\ c.type # "none" /\ c.admin
                 \/ c.type \in RownerOf /\ IsRequestFrom(c, "doxm")
                 \/ c.type = "pstat" /\ (IsRequestFrom(c, "acl") \/ IsRequestFrom(c, "cred"))
  IN [c EXCEPT !.response =
        IF dos # "RFNOP" /\ c.uri \notin Dcr THEN "DENIED"
        ELSE IF granted THEN "GRANTED"
        ELSE ProcessAccessRequest(c)]

Decision(c, r) == CheckPermission(Prepared(c, r))
Granted(r) == Decision(ctx, r).response = "GRANTED"

SRMRequestHandler(r) ==
  /\ ~stuck
  /\ ctx' = Decision(ctx, r)
  /\ UNCHANGED <<acl, freeId, saved, dos, owners, answer, stuck>>

-----------------------------------------------------------------------------
(* The list.  A change is made in memory and then saved.                   *)
Encodable(list) == \A i \in 1 .. Len(list) : list[i].validity = "none"

(* ok is the answer when the list could be saved, failed when not.         *)
Save(list, ok, failed) ==
  /\ acl' = list
  /\ \/ ~Encodable(list) /\ stuck' = TRUE /\ answer' = "none" /\ UNCHANGED saved
     \/ Encodable(list) /\ saved' = list /\ answer' = ok /\ UNCHANGED stuck
     \/ Encodable(list) /\ answer' = failed /\ UNCHANGED <<saved, stuck>>

Answer(a) == answer' = a /\ UNCHANGED <<acl, saved, stuck, freeId>>

(* The list without the first ACE that has the id.                         *)
WithoutId(list, id) ==
  IF \E i \in 1 .. Len(list) : list[i].aceid = id
  THEN LET i == CHOOSE i \in 1 .. Len(list) :
                  list[i].aceid = id /\ \A j \in 1 .. i - 1 : list[j].aceid # id
       IN SubSeq(list, 1, i - 1) \o SubSeq(list, i + 1, Len(list))
  ELSE list

ReadOnly == dos \in {"RESET", "RFNOP"}

Unwrapped == freeId + 1  \* mutant

NextFreeId == (freeId + 1) % IdCount

(* POST /oic/sec/acl2: an ACE with an id replaces the one with that id, an *)
(* ACE without gets the next id of a counter that starts again with the    *)
(* process.                                                                *)
HandleACL2PostRequest(ace) ==
  \/ ReadOnly /\ Answer("not acceptable")
  \/ /\ ~ReadOnly /\ Len(acl) < MaxAces
     /\ IF ace.aceid = 0
        THEN /\ freeId' = NextFreeId
             /\ Save(<<[ace EXCEPT !.aceid = freeId]>> \o acl, "changed", "error")
        ELSE /\ UNCHANGED freeId
             /\ Save(<<ace>> \o WithoutId(acl, ace.aceid), "changed", "error")

(* IsSameACE does not compare the kind of connection, and takes roles for  *)
(* equal unless they differ in both of their parts.                        *)
SameSubject(s, t) ==
  /\ s[1] = t[1]
  /\ s[1] = "uuid" => s[2] = t[2]
  /\ s[1] = "role" => s[2].id = t[2].id \/ s[2].authority = t[2].authority

IsSameACE(a, b) ==
  /\ SameSubject(a.subject, b.subject)
  /\ a.resources = b.resources /\ a.permission = b.permission /\ a.validity = b.validity

Known(ace) == \E i \in 1 .. Len(acl) : IsSameACE(ace, acl[i])

(* POST /oic/sec/acl: an ACE that is there already is left out, a new one  *)
(* keeps the id it came with, also when that is in use.                    *)
HandleACLPostRequest(ace) ==
  \/ ReadOnly /\ Answer("not acceptable")
  \/ /\ ~ReadOnly /\ Len(acl) < MaxAces
     /\ UNCHANGED freeId
     /\ Save(IF Known(ace) THEN acl ELSE <<ace>> \o acl, "changed", "error")

(* DELETE with ids.                                                        *)
RemoveAceByAceIds(id) ==
  IF WithoutId(acl, id) = acl THEN Answer("ok")
  ELSE Save(WithoutId(acl, id), "deleted", "ok") /\ UNCHANGED freeId

(* DELETE with a subject.  The UUID is compared whatever kind of subject   *)
(* the ACE has: where it has a kind of connection, auth reads as the nil   *)
(* UUID.                                                                   *)
HasUuid(ace, u) == ace.subject = <<"uuid", u>> \/ (u = Nil /\ ace.subject = <<"conn", "auth">>)

WithoutSubject(u) == Kept(acl, {i \in 1 .. Len(acl) : ~HasUuid(acl[i], u)})

NotSaved(u) ==  \* mutant: the change is not saved
  /\ acl' = WithoutSubject(u) /\ answer' = "deleted"
  /\ UNCHANGED <<saved, stuck, freeId>>

RemoveACE(u) ==
  IF WithoutSubject(u) = acl THEN Answer("ok")
  ELSE Save(WithoutSubject(u), "deleted", "ok") /\ UNCHANGED freeId

(* DELETE with a subject and a resource.  An ACE that is left without      *)
(* resources goes.  A resource without href is read through a null         *)
(* pointer: the process ends.                                              *)
Reload == acl' = saved /\ freeId' = FirstFree /\ ctx' = Zero /\ answer' = "none" /\ stuck' = FALSE

RemoveACEResource(u, href) ==
  LET hit(ace) == HasUuid(ace, u) /\ href \in ace.resources
      cut == [i \in 1 .. Len(acl) |->
                IF hit(acl[i]) THEN [acl[i] EXCEPT !.resources = @ \ {href}] ELSE acl[i]]
      left == Kept(cut, {i \in 1 .. Len(acl) : cut[i].resources # {}})
  IN IF \E i \in 1 .. Len(acl) : HasUuid(acl[i], u) /\ acl[i].resources \cap Wildcard # {}
     THEN Reload /\ UNCHANGED saved
     ELSE /\ UNCHANGED ctx
          /\ IF left = acl THEN Answer("ok")
             ELSE Save(left, "deleted", "ok") /\ UNCHANGED freeId

(* DELETE without either.  The list is encoded before, as a backup; when   *)
(* the empty list cannot be saved and the backup can, the list stays and   *)
(* the answer is that it was deleted.                                      *)
RemoveAllAce ==
  /\ UNCHANGED freeId
  /\ \/ ~Encodable(acl) /\ stuck' = TRUE /\ answer' = "none" /\ UNCHANGED <<acl, saved>>
     \/ Encodable(acl) /\ Save(<< >>, "deleted", "ok")
     \/ Encodable(acl) /\ saved' = acl /\ answer' = "deleted" /\ UNCHANGED <<acl, stuck>>

HandleACLDeleteRequest(what) ==
  IF ReadOnly THEN Answer("not acceptable") /\ UNCHANGED ctx
  ELSE CASE what.by = "id"       -> RemoveAceByAceIds(what.id) /\ UNCHANGED ctx
         [] what.by = "subject"  -> RemoveACE(what.uuid) /\ UNCHANGED ctx
         [] what.by = "resource" -> RemoveACEResource(what.uuid, what.href)
         [] what.by = "all"      -> RemoveAllAce /\ UNCHANGED ctx

Deletion == [by : {"id"}, id : 0 .. IdCount - 1] \cup [by : {"subject"}, uuid : Uuid]
              \cup [by : {"resource"}, uuid : Uuid, href : App] \cup [by : {"all"}]

(* InstallACL, called by the application: like POST acl, at the end of the *)
(* list and whatever the onboarding state.                                 *)
InstallACL(ace) ==
  /\ Len(acl) < MaxAces
  /\ IF Known(ace) THEN Answer("duplicate")
     ELSE Save(Append(acl, ace), "changed", "error") /\ UNCHANGED freeId

-----------------------------------------------------------------------------
(* The state machine moves the device to another state, and the owners are *)
(* set on the way.                                                         *)
SetDosState(s) ==
  /\ ~stuck /\ dos # s /\ dos' = s /\ owners' = Owners[s]
  /\ UNCHANGED <<acl, freeId, saved, ctx, answer, stuck>>

(* The process ends and is started again.                                  *)
Restart == Reload /\ UNCHANGED <<saved, dos, owners>>

Next ==
  \/ \E r \in Probe : SRMRequestHandler(r)
  \/ /\ ~stuck /\ UNCHANGED <<ctx, dos, owners>>
     /\ \E ace \in NewAce : \/ HandleACL2PostRequest(ace)
                            \/ HandleACLPostRequest(ace)
                            \/ InstallACL(ace)
  \/ /\ ~stuck /\ UNCHANGED <<dos, owners>>
     /\ \E what \in Deletion : HandleACLDeleteRequest(what)
  \/ \E s \in DOMAIN Owners : SetDosState(s)
  \/ Restart

Spec == Init /\ [][Next]_vars

-----------------------------------------------------------------------------
TypeOK ==
  /\ acl \in Seq(Ace) /\ saved \in Seq(Ace) /\ Len(acl) <= MaxAces
  /\ freeId \in 0 .. IdCount - 1 /\ ctx \in Context /\ owners \in Owner
  /\ dos \in DosState
  /\ answer \in {"none", "ok", "changed", "deleted", "duplicate", "error", "not acceptable"}
  /\ stuck \in BOOLEAN

(* An ACE that grants the request, wherever it is in the list.             *)
Grants(ace, r) ==
  /\ \/ ace.subject = <<"uuid", r.subject>>
     \/ ace.subject = <<"conn", IF IsRequestOverSecureChannel(r) THEN "auth" ELSE "anon">>
     \/ ace.subject \in {"role"} \X r.roles
  /\ IsAccessWithinValidTime(ace)
  /\ GetPermissionFromCAMethod_t(r.method) \subseteq ace.permission
  /\ IsResourceInAce(Prepared(Zero, r), ace)

SomeAceGrants(r) == \E i \in 1 .. Len(acl) : Grants(acl[i], r)

(* An application resource is served exactly when the device is in normal  *)
(* operation and some ACE grants the request: no ACE hides another one,    *)
(* their order does not matter, and to own the device is not enough.       *)
AclDecides ==
  \A r \in Asked : r.uri \in App => (Granted(r) <=> dos = "RFNOP" /\ SomeAceGrants(r))

(* A request without an identity gets at a security resource only by an    *)
(* ACE or in the session of a transfer, also while the resources have no   *)
(* owner and the nil UUID is what is stored.                               *)
AnonymousOwnsNothing ==
  \A r \in Asked : r.subject = Nil /\ ~r.admin /\ Granted(r) => SomeAceGrants(r)

(* The decision does not depend on the requests that came before, although *)
(* the context is global and not all of it is cleared.                     *)
NoStaleContext ==
  \A r \in Asked : Decision(ctx, r).response = Decision(Zero, r).response

(* What was answered as changed or deleted is so after a restart.          *)
SuccessIsDurable == answer \in {"changed", "deleted"} => saved = acl
=============================================================================
