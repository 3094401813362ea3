-------------------------- MODULE DeviceOnboarding --------------------------
(***************************************************************************)
(* A device's onboarding state and the secure virtual resources it depends *)
(* on: doxm, pstat, acl and cred, in memory and in the one database file,  *)
(* with the state machine of deviceonboardingstate.c that moves the device *)
(* between RESET, RFOTM, RFPRO, RFNOP and SRESET.                          *)
(*                                                                         *)
(* Requests are handled one at a time by the thread that runs OCProcess,   *)
(* so handlers do not interleave; what interrupts one is the end of the    *)
(* process.  A handler is therefore an operator on a record of its         *)
(* progress: the memory, the file and the images of the file it has        *)
(* written on the way.  Its action ends with the last memory and file, or  *)
(* stops after some of the writes.  A write replaces the file as a whole;  *)
(* a write cut short is not modelled.                                      *)
(*                                                                         *)
(* A property a request leaves out keeps its value, which is how the       *)
(* parsers fill it in: a request is a function from the properties it      *)
(* carries.  oxmsel, tm, om and the access control entries, which the      *)
(* state machine never reads, are written but not kept.                    *)
(***************************************************************************)
EXTENDS Integers, Sequences

CONSTANTS Uuid,        \* UUIDs that occur
          Nil,         \* the nil UUID
          Self,        \* the UUID the device generates for itself
          Named,       \* the UUIDs that requests name, but for deviceuuid
          None,        \* no entry in the database, or one of length zero
          CredId,      \* the credids in use, 1 .. n: a bound on the credentials
          Secret,      \* values of a credential's private data
          ShippedDb    \* the databases a new device may start with

ASSUME UuidAssumption == /\ Nil \in Uuid /\ Self \in Uuid /\ Nil # Self
                         /\ Named \subseteq Uuid
ASSUME CredIdAssumption == CredId \subseteq Nat \ {0}

VARIABLES up,    \* the process runs
          mem,   \* gDoxm, gPstat, gAcl, gCred and gRownerId
          db     \* the database file

vars == <<up, mem, db>>

State == {"RESET", "RFOTM", "RFPRO", "RFNOP", "SRESET"}
Doxm == [owned : BOOLEAN, owner : Uuid, deviceuuid : Uuid, rowneruuid : Uuid]
Pstat == [dos : State, pending : BOOLEAN, isop : BOOLEAN, takeOwner : BOOLEAN,
          rowneruuid : Uuid]
Credential == [credid : CredId, subject : Uuid, secret : Secret]
Cred == [list : SUBSET Credential, rowneruuid : Uuid]

(* static is TRUE while gPstat points to gDefaultPstat.                    *)
Memory == [doxm : Doxm, pstat : Pstat, acl : Uuid, cred : Cred, static : BOOLEAN]

(* The entries of the database that the reset profile copies.              *)
Entries == [doxm : Doxm \cup {None}, pstat : Pstat \cup {None},
            acl : Uuid \cup {None}, cred : Cred \cup {None}]
NoEntries == [doxm |-> None, pstat |-> None, acl |-> None, cred |-> None]
Database == [svr : Entries, profile : Entries \cup {None}]

ASSUME NoneAssumption ==
  None \notin Entries /\ None \notin Doxm /\ None \notin Pstat /\ None \notin Cred

(* A device leaves the factory without an owner and a reset profile, in    *)
(* RFOTM or without a stored state, and with an id for each credential.    *)
Shipped(d) ==
  /\ d \in Database /\ d.profile = None
  /\ d.svr.doxm # None => ~d.svr.doxm.owned
  /\ d.svr.pstat # None => d.svr.pstat.dos = "RFOTM" /\ ~d.svr.pstat.pending
  /\ d.svr.cred # None =>
       \A x, y \in d.svr.cred.list : x.credid = y.credid => x = y

ASSUME ShippedAssumption == \A d \in ShippedDb : Shipped(d)

DefaultDoxm == [owned |-> FALSE, owner |-> Nil, deviceuuid |-> Nil, rowneruuid |-> Nil]
DefaultPstat == [dos |-> "RFOTM", pending |-> FALSE, isop |-> FALSE,
                 takeOwner |-> TRUE, rowneruuid |-> Nil]

(* What a process holds before anything is loaded.                         *)
Fresh == [doxm |-> DefaultDoxm, pstat |-> DefaultPstat, acl |-> Nil,
          cred |-> [list |-> {}, rowneruuid |-> Nil], static |-> FALSE]

Init == up = FALSE /\ mem = Fresh /\ db \in ShippedDb

-----------------------------------------------------------------------------
(* The progress of a handler: memory, the file, the images written to it   *)
(* so far, and whether the request is answered with success.               *)
Begin(m, d) == [mem |-> m, db |-> d, writes |-> << >>, ok |-> TRUE]
Write(o, d) == [o EXCEPT !.db = d, !.writes = Append(@, d)]
Refuse(o) == [o EXCEPT !.ok = FALSE]

(* The fields of r that p carries replaced by p's values.                  *)
Update(r, p) == [f \in DOMAIN r |-> IF f \in DOMAIN p THEN p[f] ELSE r[f]]

(* UpdateResourceInPS: one entry is replaced, the others are kept.         *)
SaveDoxm(o) == Write(o, [o.db EXCEPT !.svr.doxm = o.mem.doxm])
SavePstat(o) == Write(o, [o.db EXCEPT !.svr.pstat = o.mem.pstat])
SaveAcl(o) == Write(o, [o.db EXCEPT !.svr.acl = o.mem.acl])

(* An empty credential list has no entry.                                  *)
SaveCred(o) ==
  Write(o, [o.db EXCEPT !.svr.cred = IF o.mem.cred.list = {} THEN None ELSE o.mem.cred])

-----------------------------------------------------------------------------
(* InitSecureResources: doxm, pstat, acl and cred are read from the        *)
(* database, each over what the process has held up to here.               *)

(* The owner of a device that is not owned is forgotten, and a missing     *)
(* device id is generated, which is saved.                                 *)
Forget(doxm) == IF doxm.owned THEN doxm ELSE [doxm EXCEPT !.owner = Nil]
LoadDoxm(d) == Forget(IF d.svr.doxm = None THEN DefaultDoxm ELSE d.svr.doxm)

CheckDeviceID(o) ==
  IF o.mem.doxm.deviceuuid = Nil THEN SaveDoxm([o EXCEPT !.mem.doxm.deviceuuid = Self])
  ELSE o

InitDoxmResource(o) == CheckDeviceID([o EXCEPT !.mem.doxm = LoadDoxm(o.db)])

(* The parser refuses to load into a pointer that is set, and              *)
(* DeInitPstatResource leaves it set when it points to gDefaultPstat: that *)
(* object is then used again with whatever it holds.                       *)
InitPstatResource(o) ==
  IF o.mem.static THEN o
  ELSE IF o.db.svr.pstat = None
       THEN [o EXCEPT !.mem.pstat = DefaultPstat, !.mem.static = TRUE]
       ELSE [o EXCEPT !.mem.pstat = o.db.svr.pstat]

NoDefaultAcl(o) == [o EXCEPT !.mem.acl = o.db.svr.acl]  \* mutant: no default ACL

InitACLResource(o) ==
  [o EXCEPT !.mem.acl = IF o.db.svr.acl = None THEN o.mem.doxm.deviceuuid ELSE o.db.svr.acl]

(* Without credentials the rowner is what gRownerId held before.           *)
OwnedBy(cred, u) == [cred EXCEPT !.rowneruuid = IF @ = Nil THEN u ELSE @]
InitCredResource(o) ==
  IF o.db.svr.cred = None THEN [o EXCEPT !.mem.cred.list = {}]
  ELSE SaveCred([o EXCEPT !.mem.cred = OwnedBy(o.db.svr.cred, o.mem.doxm.deviceuuid)])

InitSecureResources(o) ==
  InitCredResource(InitACLResource(InitPstatResource(InitDoxmResource(o))))

(* CreateResetProfile: the database as it was loaded the first time.       *)
CreateResetProfile(o) ==
  IF o.db.profile = None THEN Write(o, [o.db EXCEPT !.profile = o.db.svr]) ELSE o

KeepsCredentials(o) ==  \* mutant: the profile does not cover the credentials
  Write(o, [o.db EXCEPT !.svr = [o.db.profile EXCEPT !.cred = o.db.svr.cred]])

(* ResetSecureResourceInPS: every entry that the profile covers is         *)
(* replaced in one write.                                                  *)
ResetSecureResourceInPS(o) ==
  Write(o, [o.db EXCEPT !.svr = IF o.db.profile = None THEN NoEntries ELSE o.db.profile])

-----------------------------------------------------------------------------
(* The state machine.                                                      *)
IsValidStateTransition(old, new) ==
  CASE new = "RESET"  -> TRUE
    [] new = "RFNOP"  -> old = "RFPRO"
    [] new = "RFOTM"  -> old = "RESET"
    [] new = "RFPRO"  -> old \in {"RFNOP", "RFOTM", "SRESET"}
    [] new = "SRESET" -> old \in {"RFNOP", "RFPRO"}

Owned(m) == m.doxm.owned /\ m.doxm.owner # Nil /\ m.doxm.deviceuuid # Nil
RownersSet(m) == /\ m.acl # Nil
                 /\ m.cred.rowneruuid # Nil
                 /\ m.doxm.rowneruuid # Nil
                 /\ m.pstat.rowneruuid # Nil

AnyOwner(m, new) == TRUE  \* mutant: no check of doxm before a transition

IsReadyToEnter(m, new) ==
  CASE new = "RFNOP"  -> Owned(m) /\ ~m.pstat.isop /\ RownersSet(m)
    [] new = "RFOTM"  -> ~m.doxm.owned /\ m.doxm.owner = Nil
    [] new = "RFPRO"  -> Owned(m) /\ RownersSet(m)
    [] new = "SRESET" -> Owned(m)

EnterStateGeneric(o, new) ==
  [o EXCEPT !.mem.pstat = [@ EXCEPT !.dos = new, !.isop = (new = "RFNOP"),
                                    !.takeOwner = (new = "RFOTM")]]

(* EnterRESET, and the RFOTM that follows it at once.  The nil owners of   *)
(* acl, cred and pstat are saved one by one; doxm's are not.               *)
ResetDoxmAndAcl(o) ==
  SaveAcl([o EXCEPT !.mem.doxm.owned = FALSE, !.mem.doxm.owner = Nil, !.mem.acl = Nil])

ResetCredRowner(o) ==
  IF o.mem.cred.rowneruuid = Nil THEN o
  ELSE SaveCred([o EXCEPT !.mem.cred.rowneruuid = Nil])

ResetRowners(o) ==
  SavePstat([o EXCEPT !.mem.doxm.rowneruuid = Nil, !.mem.pstat.rowneruuid = Nil])

ResetSecureResources(o) ==
  InitSecureResources(ResetSecureResourceInPS(InitSecureResources(o)))

EnterRESET(o) ==
  EnterStateGeneric(EnterStateGeneric(
    ResetRowners(ResetCredRowner(ResetDoxmAndAcl(ResetSecureResources(o)))),
    "RESET"), "RFOTM")

DoStateChange(o, new) ==
  IF new = "RESET" THEN EnterRESET(o)
  ELSE IF IsReadyToEnter(o.mem, new) THEN EnterStateGeneric(o, new)
  ELSE Refuse(o)

Pending(o, b) == [o EXCEPT !.mem.pstat.pending = b]

SetDosState(o, new) ==
  IF o.mem.pstat.pending THEN Refuse(o)
  ELSE IF IsValidStateTransition(o.mem.pstat.dos, new)
       THEN Pending(DoStateChange(Pending(o, TRUE), new), FALSE)
       ELSE Refuse(o)

-----------------------------------------------------------------------------
(* The entity handlers.                                                    *)
ReadOnly(m) == m.pstat.dos \in {"RESET", "RFNOP"}

DoxmWriteable(s) == CASE s = "RFOTM"  -> DOMAIN DefaultDoxm \cup {"oxmsel"}
                      [] s = "SRESET" -> {"rowneruuid"}
                      [] OTHER        -> {}

PstatWriteable(s) == CASE s \in {"RFOTM", "SRESET"} -> {"dos", "om", "tm", "rowneruuid"}
                       [] s \in {"RFPRO", "RFNOP"}  -> {"dos", "om", "tm"}
                       [] OTHER                     -> {}

RefusesAnything(m) == m.pstat.dos = "RFOTM"  \* mutant: also the end of a transfer

(* StartOwnershipTransfer may refuse an oxmsel that comes with the request *)
(* (otm = "refused"): the user declines the new owner of a device that is  *)
(* not owned yet, or, without an owner, a cipher suite or a PIN cannot be  *)
(* had.                                                                    *)
MayRefuse(m) == m.pstat.dos = "RFOTM" /\ (m.doxm.owner = Nil \/ ~m.doxm.owned)

(* When it refuses, the new values stay in memory and are not saved.       *)
StartOwnershipTransfer(o, otm) ==
  IF otm = "refused" /\ MayRefuse(o.mem) THEN Refuse(o) ELSE SaveDoxm(o)

HandleDoxmPostRequest(o, p, otm) ==
  IF ReadOnly(o.mem) \/ ~(DOMAIN p \subseteq DoxmWriteable(o.mem.pstat.dos))
  THEN Refuse(o)
  ELSE StartOwnershipTransfer([o EXCEPT !.mem.doxm = Update(@, p)], otm)

(* dos is last: it changes memory, may be refused, and only when it is not *)
(* the whole of pstat is saved.                                            *)
UpdateRowner(o, p) ==
  IF "rowneruuid" \in DOMAIN p THEN [o EXCEPT !.mem.pstat.rowneruuid = p.rowneruuid] ELSE o

UpdateDos(o, p) ==
  IF "dos" \in DOMAIN p /\ p.dos # o.mem.pstat.dos THEN SetDosState(o, p.dos) ELSE o

SaveIfOk(o) == IF o.ok THEN SavePstat(o) ELSE o

HandlePstatPostRequest(o, p) ==
  IF DOMAIN p \subseteq PstatWriteable(o.mem.pstat.dos)
  THEN SaveIfOk(UpdateDos(UpdateRowner(o, p), p))
  ELSE Refuse(o)

(* The parser takes the rowner of the payload only while it has none: a    *)
(* property that comes before it (rownerFirst = FALSE) makes it take the   *)
(* present one, unless that is nil.                                        *)
HandleACLPostRequest(o, rowner, rownerFirst) ==
  IF ReadOnly(o.mem) THEN Refuse(o)
  ELSE SaveAcl(IF rownerFirst \/ o.mem.acl = Nil THEN [o EXCEPT !.mem.acl = rowner] ELSE o)

(* A credential that comes with an id replaces the one with that id, one   *)
(* without gets the first id that is free.                                 *)
FreeCredId(list) == { i \in CredId : \A x \in list : x.credid # i }
GetCredId(list) == CHOOSE i \in FreeCredId(list) : \A j \in FreeCredId(list) : i <= j

KeepsCredId(list, c) ==  \* mutant: the credential with that id stays
  list \cup { [c EXCEPT !.credid = IF @ = 0 THEN GetCredId(list) ELSE @] }

AddCredential(list, c) ==
  IF c.credid = 0 THEN list \cup { [c EXCEPT !.credid = GetCredId(list)] }
  ELSE { x \in list : x.credid # c.credid } \cup {c}

(* HandleNewCredential: the new owner's credential gets the key psk that   *)
(* both sides derive from the session; it replaces the credentials with    *)
(* its subject, and their removal is saved on its own.                     *)
IsOwnerPsk(m, c) == ~m.doxm.owned /\ m.doxm.owner # Nil /\ m.doxm.owner = c.subject

WithSubject(list, u) == { x \in list : x.subject = u }
RemoveCredential(o, gone) ==
  IF gone = {} THEN o ELSE SaveCred([o EXCEPT !.mem.cred.list = @ \ gone])

SaveNewCredential(o, c) == SaveCred([o EXCEPT !.mem.cred.list = AddCredential(@, c)])

HandleNewCredential(o, c, psk) ==
  IF IsOwnerPsk(o.mem, c)
  THEN SaveNewCredential(RemoveCredential(o, WithSubject(o.mem.cred.list, c.subject)),
                         [c EXCEPT !.secret = psk])
  ELSE SaveNewCredential(o, c)

(* The list is saved with the old rowner; the new one is copied to memory  *)
(* afterwards.                                                             *)
CopyRowner(o, rowner) == [o EXCEPT !.mem.cred.rowneruuid = rowner]
HandleCredPostRequest(o, c, psk, rowner) ==
  IF ReadOnly(o.mem) THEN Refuse(o)
  ELSE CopyRowner(HandleNewCredential(o, c, psk), rowner)

(* The credentials in gone, which the query selects, are removed.          *)
HandleCredDeleteRequest(o, gone) ==
  IF ReadOnly(o.mem) \/ gone = {} THEN Refuse(o) ELSE RemoveCredential(o, gone)

-----------------------------------------------------------------------------
(* The handler ends, or the process ends after some of its writes.  That   *)
(* it ends before the first or after the last one is PowerOff.             *)
Perform(o) ==
  \/ mem' = o.mem /\ db' = o.db /\ up' = TRUE
  \/ \E k \in 1 .. Len(o.writes) - 1 :
       mem' = Fresh /\ db' = o.writes[k] /\ up' = FALSE

(* OCInit: the secure resources are loaded, then the profile is made.      *)
Start == ~up /\ Perform(CreateResetProfile(InitSecureResources(Begin(Fresh, db))))

PowerOff == up /\ up' = FALSE /\ mem' = Fresh /\ UNCHANGED db

PostDoxm(p, otm) == up /\ Perform(HandleDoxmPostRequest(Begin(mem, db), p, otm))
PostPstat(p) == up /\ Perform(HandlePstatPostRequest(Begin(mem, db), p))
PostAcl(rowner, rownerFirst) ==
  up /\ Perform(HandleACLPostRequest(Begin(mem, db), rowner, rownerFirst))
PostCred(c, psk, rowner) ==
  /\ up
  /\ c.credid = 0 => FreeCredId(mem.cred.list) # {}
  /\ Perform(HandleCredPostRequest(Begin(mem, db), c, psk, rowner))
DeleteCred(gone) == up /\ Perform(HandleCredDeleteRequest(Begin(mem, db), gone))

(* Any sequence of requests a provisioning tool may send.  A request with  *)
(* several properties has the effect of some with one each, but for the    *)
(* pairs that belong to one step of a transfer.                            *)
Assign(f, S) == { [x \in {f} |-> v] : v \in S }
DoxmRequest == Assign("oxmsel", {"justworks"}) \cup Assign("owned", BOOLEAN) \cup Assign("owner", Named)
                 \cup Assign("deviceuuid", {Nil, Self})
                 \cup [owned : BOOLEAN, rowneruuid : Named]
CredRequest == [credid : CredId \cup {0}, subject : Named \ {Nil}, secret : Secret]

(* A DELETE names credids, a subject, or nothing.                          *)
Selected(list) == { { x \in list : x.credid = i } : i \in CredId }
                    \cup { { x \in list : x.subject = u } : u \in Uuid } \cup {list}
PstatRequest == Assign("dos", State) \cup [dos : State, rowneruuid : Named]

Next ==
  \/ Start
  \/ PowerOff
  \/ \E p \in DoxmRequest, otm \in {"accepted", "refused"} : PostDoxm(p, otm)
  \/ \E p \in PstatRequest : PostPstat(p)
  \/ \E rowner \in Named, rownerFirst \in BOOLEAN : PostAcl(rowner, rownerFirst)
  \/ \E c \in CredRequest, psk \in Secret, rowner \in Named : PostCred(c, psk, rowner)
  \/ \E gone \in Selected(mem.cred.list) : DeleteCred(gone)

Spec == Init /\ [][Next]_vars

-----------------------------------------------------------------------------
TypeOK == up \in BOOLEAN /\ mem \in Memory /\ db \in Database

(* What a restart would load, and what the device would be after a RESET.  *)
Reloaded(d) == InitSecureResources(Begin(Fresh, d)).mem
Reset == HandlePstatPostRequest(Begin(mem, db), [dos |-> "RESET"])

(* A reset uses gDefaultPstat again if pstat points to it, and saves it    *)
(* with the pending flag of the reset itself.  A process that ends right   *)
(* then comes back with the flag set and refuses every change of state.    *)
Trapped == mem.pstat.pending

(* Whenever the process ends, inside a handler too, the device that comes  *)
(* back is owned if its state says that it is past the transfer.           *)
OwnedWhenOperational ==
  up /\ ~Trapped /\ mem.pstat.dos \in {"RFPRO", "RFNOP", "SRESET"} => Owned(mem)

(* A credid names one credential, in memory and in the file, although the  *)
(* requester may choose it: DELETE and the next POST go by it.             *)
UniqueCredIds ==
  \A list \in {mem.cred.list} \cup { c.list : c \in {db.svr.cred} \ {None} } :
    \A x, y \in list : x.credid = y.credid => x = y

(* Past the transfer nothing that decides who owns the device is only in   *)
(* memory, whatever was refused on the way.                                *)
DurableOwnership ==
  up /\ ~Trapped /\ mem.pstat.dos # "RFOTM" =>
    /\ Reloaded(db).doxm = mem.doxm
    /\ Reloaded(db).pstat.dos = mem.pstat.dos
    /\ Reloaded(db).pstat.isop = mem.pstat.isop

(* A RESET is accepted in every state the device can get to, and it is not *)
(* undone by a restart: the owner and every credential that did not come   *)
(* with the device are gone from the file as well.  Only a device that     *)
(* came without a stored pstat can be trapped.                             *)
ResetErases ==
  up => IF Trapped THEN db.profile.pstat = None
        ELSE /\ Reset.ok
             /\ LET m == Reloaded(Reset.db)
                IN /\ m.pstat.dos = "RFOTM" /\ ~m.pstat.pending
                   /\ ~m.doxm.owned /\ m.doxm.owner = Nil
                   /\ m.cred.list =
                        IF db.profile.cred = None THEN {} ELSE db.profile.cred.list
=============================================================================
