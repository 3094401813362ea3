------------------------- MODULE OwnershipTransfer -------------------------
(***************************************************************************)
(* The onboarding tool's side of an ownership transfer (just works), from  *)
(* ownershiptransfermanager.c, composed with the device it talks to.       *)
(*                                                                         *)
(* The tool sends one request at a time and goes on from the response      *)
(* handler of each.  The network delays, repeats and loses requests and    *)
(* answers: a copy of a request may be delivered as long as the device     *)
(* knows the DTLS session it was sent in, also after the tool has gone on. *)
(* The stack calls a handler with an error when a request is not answered. *)
(* The device and the tool may stop and start again at any time.           *)
(*                                                                         *)
(* The owner key is derived on both sides from the session: it is the      *)
(* number of the session, and 0 is empty private data.                     *)
(***************************************************************************)
EXTENDS Integers, Sequences

CONSTANTS Uuid, Nil, Self, Named, None, CredId, Secret, ShippedDb,  \* of the device
          Obt,           \* the UUID of the tool
          MaxTransfers   \* bound on the transfers that are begun

ASSUME UuidAssumption == Nil \in Uuid /\ Self \in Uuid /\ Nil # Self
ASSUME ObtAssumption == Obt \in Uuid \ {Nil, Self}
ASSUME NamedAssumption == Named \subseteq Uuid /\ Obt \in Named
ASSUME CredIdAssumption == CredId \subseteq Nat \ {0}
ASSUME TransfersAssumption == MaxTransfers \in Nat /\ Secret = 0 .. MaxTransfers

VARIABLES up, mem, db,  \* the device
          open,         \* the device accepts an anonymous handshake
          devSession,   \* the session the device knows, or 0
          n,            \* transfers begun; the number of the tool's session
          step,         \* the request the tool sent last
          waiting,      \* its response handler is still to be called
          local,        \* the tool's copy of doxm
          psk,          \* the owner credential in the tool's own list
          pdm,          \* the state of the device in the tool's database
          net,          \* requests that may still be delivered
          answer,       \* the answer to the current request, or None
          result,       \* what the result callback was called with
          late          \* cred and rfpro, if handled after the tool had gone on

device == <<up, mem, db, open, devSession>>
tool == <<n, step, waiting, local, psk, pdm, net, answer, result>>
vars == <<device, tool, late>>

Device == INSTANCE DeviceOnboarding

Op == {"oxmsel", "verify", "pstat", "om", "owner", "uuid", "cred", "acl",
       "owned", "rowner", "rfpro", "rfnop"}
Request == [n : 1 .. MaxTransfers, op : Op, arg : CredId \cup {0}]
Psk == [credid : CredId, key : 1 .. MaxTransfers]
Answer == [ok : BOOLEAN, doxm : Device!Doxm, takeOwner : BOOLEAN]

ASSUME NoneAssumption == /\ None \notin Device!Doxm /\ None \notin Device!Pstat
                         /\ None \notin Device!Cred /\ None \notin Device!Entries
                         /\ None \notin Psk /\ None \notin Answer
ASSUME ShippedAssumption == \A d \in ShippedDb : Device!Shipped(d)

Init ==
  /\ Device!Init /\ open = FALSE /\ devSession = 0
  /\ n = 0 /\ step = "idle" /\ waiting = FALSE /\ psk = None /\ pdm = "UNKNOWN"
  /\ local = Device!DefaultDoxm
  /\ net = {} /\ answer = None /\ result = "none" /\ late = {}

-----------------------------------------------------------------------------
(* The device handles a request; d is the state it begins with.            *)
Handled(d, r, otm) ==
  CASE r.op = "oxmsel" ->
         Device!HandleDoxmPostRequest(d, [oxmsel |-> "justworks"], otm)
    [] r.op \in {"verify", "pstat", "uuid"} -> d
    [] r.op = "om"     -> Device!HandlePstatPostRequest(d, [om |-> "client"])
    [] r.op = "owner"  -> Device!HandleDoxmPostRequest(d, [owner |-> Obt], otm)
    [] r.op = "cred"   ->
         Device!HandleCredPostRequest(d,
           [credid |-> r.arg, subject |-> Obt, secret |-> 0], r.n, Obt)
    [] r.op = "acl"    -> Device!HandleACLPostRequest(d, Obt, FALSE)
    [] r.op = "owned"  ->
         Device!HandleDoxmPostRequest(d, [owned |-> TRUE, rowneruuid |-> Obt], otm)
    [] r.op = "rowner" -> Device!HandlePstatPostRequest(d, [rowneruuid |-> Obt])
    [] r.op = "rfpro"  -> Device!HandlePstatPostRequest(d, [dos |-> "RFPRO", tm |-> 0])
    [] r.op = "rfnop"  -> Device!HandlePstatPostRequest(d, [dos |-> "RFNOP"])

Current(r) == waiting /\ r.n = n /\ r.op = step

(* The first request comes without a session and opens the device for an   *)
(* anonymous handshake, which the tool begins with the second one.         *)
Readable(r) == \/ r.op = "oxmsel"
               \/ devSession = r.n
               \/ r.op = "verify" /\ open /\ Current(r)

Concluded(r, o) ==
  /\ Device!Perform(o)
  /\ open' = (up' /\ CASE r.op = "oxmsel" -> open \/ o.ok
                       [] r.op = "cred"   -> open /\ ~o.ok
                       [] OTHER           -> open)
  /\ devSession' = IF ~up' THEN 0 ELSE IF r.op = "oxmsel" THEN devSession ELSE r.n
  /\ answer' = IF up' /\ Current(r) /\ answer = None
               THEN [ok |-> o.ok, doxm |-> mem'.doxm, takeOwner |-> mem'.pstat.takeOwner]
               ELSE answer
  /\ late' = IF Current(r) THEN late ELSE late \cup ({r.op} \cap {"cred", "rfpro"})
  /\ UNCHANGED <<n, step, waiting, local, psk, pdm, net, result>>

Deliver(r, otm) ==
  up /\ Readable(r) /\ Concluded(r, Handled(Device!Begin(mem, db), r, otm))

DeviceStart == Device!Start /\ UNCHANGED <<open, devSession, tool, late>>
DeviceOff == Device!PowerOff /\ open' = FALSE /\ devSession' = 0 /\ UNCHANGED <<tool, late>>

-----------------------------------------------------------------------------
(* What a response handler may do next: send a request, end the transfer,  *)
(* or neither.                                                             *)
Send(op, arg) ==
  /\ step' = op /\ waiting' = TRUE /\ answer' = None
  /\ net' = net \cup {[n |-> n, op |-> op, arg |-> arg]}
  /\ UNCHANGED result

SetResult(res) ==
  /\ result' = res
  /\ pdm' = IF res = "error" THEN "UNKNOWN" ELSE pdm
  /\ step' = "idle" /\ waiting' = FALSE /\ answer' = None
  /\ UNCHANGED net

Fail(res) == SetResult(res) /\ UNCHANGED <<n, local, psk>>

(* No SetResult: the callback is never called and the context stays.       *)
Leak == waiting' = FALSE /\ answer' = None
        /\ UNCHANGED <<n, step, local, psk, pdm, net, result>>

(* The handlers that only look at the result; sending may fail as well.    *)
GoOnSilently(a, op) ==  \* mutant: an error is not reported
  \/ a.ok /\ Send(op, 0) /\ UNCHANGED <<n, local, psk, pdm>>
  \/ ~a.ok /\ Leak

GoOnAnyway(a, op) ==  \* mutant: the result is not looked at
  \/ Send(op, 0) /\ UNCHANGED <<n, local, psk, pdm>>
  \/ Fail("error")

GoOn(a, op) ==
  \/ a.ok /\ Send(op, 0) /\ UNCHANGED <<n, local, psk, pdm>>
  \/ Fail("error")

(* OTMDoOwnershipTransfer for a device that discovery has found unowned.   *)
Begin ==
  /\ up /\ ~mem.doxm.owned
  /\ ~waiting /\ n < MaxTransfers
  /\ n' = n + 1
  /\ local' = mem.doxm
  /\ step' = "oxmsel" /\ waiting' = TRUE /\ answer' = None
  /\ net' = net \cup {[n |-> n', op |-> "oxmsel", arg |-> 0]}
  /\ result' = "none"
  /\ UNCHANGED <<device, psk, pdm, late>>

OwnerTransferModeHandler(a) == step = "oxmsel" /\ GoOn(a, "verify")

(* The properties read over the session must be the ones that discovery    *)
(* had read without one.                                                   *)
GetAndVerifyDoxmHandler(a) ==
  /\ step = "verify"
  /\ \/ a.ok /\ a.doxm = local /\ Send("pstat", 0) /\ UNCHANGED <<n, local, psk, pdm>>
     \/ Fail("error")

ListMethodsHandler(a) ==
  /\ step = "pstat"
  /\ \/ a.ok /\ a.takeOwner /\ Send("om", 0) /\ UNCHANGED <<n, local, psk, pdm>>
     \/ Fail("error")

OperationModeUpdateHandler(a) ==
  /\ step = "om"
  /\ \/ /\ a.ok
        /\ local' = [local EXCEPT !.owner = Obt]
        /\ Send("owner", 0) /\ UNCHANGED <<n, psk, pdm>>
     \/ Fail("error")

OwnerUuidUpdateHandler(a) == step = "owner" /\ GoOn(a, "uuid")

(* SetupPDM: the database takes up the device, and the credential of an    *)
(* earlier transfer goes unless that one is still in progress.             *)
SetupPDM == IF pdm = "INIT" THEN "DUPLICATE" ELSE "INIT"

KeepsOldKey(i) == IF psk = None THEN [credid |-> i, key |-> n] ELSE psk  \* mutant

(* SaveOwnerPSK: the key of this session replaces an older one.            *)
SaveOwnerPSK(i) == [credid |-> i, key |-> n]

DeviceUuidUpdateHandler(a) ==
  /\ step = "uuid"
  /\ \/ ~a.ok /\ Leak
     \/ a.ok /\ SetupPDM = "DUPLICATE" /\ Fail("duplicate")
     \/ /\ a.ok /\ SetupPDM = "INIT"
        /\ local' = [local EXCEPT !.deviceuuid = a.doxm.deviceuuid]
        /\ UNCHANGED n
        /\ \/ psk' \in {psk, None} /\ SetResult("error")
           \/ \E i \in CredId : /\ psk' = SaveOwnerPSK(i) /\ pdm' = "INIT"
                                /\ Send("cred", i)

OwnerCredentialHandler(a) == step = "cred" /\ GoOn(a, "acl")

OwnerAclHandler(a) ==
  /\ step = "acl"
  /\ \/ /\ a.ok
        /\ local' = [local EXCEPT !.owned = TRUE, !.rowneruuid = Obt]
        /\ Send("owned", 0) /\ UNCHANGED <<n, psk, pdm>>
     \/ Fail("error")

(* pstat's rowner is posted only if pstat was in RFOTM when it was read,   *)
(* which ListMethodsHandler has made sure of: TAKE_OWNER is set only then. *)
OwnershipInformationHandler(a) == step = "owned" /\ GoOn(a, "rowner")

RownerUuidHandler(a) ==
  /\ step = "rowner"
  /\ \/ ~a.ok /\ Leak
     \/ a.ok /\ GoOn(a, "rfpro")

ProvisioningStatusHandler(a) == step = "rfpro" /\ GoOn(a, "rfnop")

(* The last handler writes the database, which may fail.                   *)
ReadyForNomalStatusHandler(a) ==
  /\ step = "rfnop"
  /\ \/ ~a.ok /\ Fail("error")
     \/ a.ok /\ Leak
     \/ /\ a.ok
        /\ result' = "OK" /\ pdm' = "ACTIVE"
        /\ step' = "idle" /\ waiting' = FALSE /\ answer' = None
        /\ UNCHANGED <<n, local, psk, net>>

Handler(a) ==
  \/ OwnerTransferModeHandler(a)
  \/ GetAndVerifyDoxmHandler(a)
  \/ ListMethodsHandler(a)
  \/ OperationModeUpdateHandler(a)
  \/ OwnerUuidUpdateHandler(a)
  \/ DeviceUuidUpdateHandler(a)
  \/ OwnerCredentialHandler(a)
  \/ OwnerAclHandler(a)
  \/ OwnershipInformationHandler(a)
  \/ RownerUuidHandler(a)
  \/ ProvisioningStatusHandler(a)
  \/ ReadyForNomalStatusHandler(a)

Receive == waiting /\ answer # None /\ Handler(answer) /\ UNCHANGED <<device, late>>

(* Retransmission gave up, or the send failed.                             *)
RequestFails == waiting /\ Handler([ok |-> FALSE]) /\ UNCHANGED <<device, late>>

(* The tool's process ends and is started again: PDMInit forgets transfers *)
(* in progress, the tool's own credentials are on file.                    *)
ToolRestart ==
  /\ step # "idle"
  /\ step' = "idle" /\ waiting' = FALSE /\ answer' = None /\ result' = "gone"
  /\ pdm' = IF pdm = "INIT" THEN "UNKNOWN" ELSE pdm
  /\ UNCHANGED <<device, n, local, psk, net, late>>

Next ==
  \/ DeviceStart
  \/ DeviceOff
  \/ \E r \in net, otm \in {"accepted", "refused"} : Deliver(r, otm)
  \/ Begin
  \/ Receive
  \/ RequestFails
  \/ ToolRestart

(* Retransmission and the callback's time to live end every request.       *)
Spec == Init /\ [][Next]_vars /\ WF_vars(Receive \/ RequestFails)

-----------------------------------------------------------------------------
TypeOK ==
  /\ Device!TypeOK /\ open \in BOOLEAN /\ devSession \in 0 .. n
  /\ n \in 0 .. MaxTransfers /\ step \in Op \cup {"idle"} /\ waiting \in BOOLEAN
  /\ local \in Device!Doxm /\ psk \in Psk \cup {None}
  /\ pdm \in {"UNKNOWN", "INIT", "ACTIVE"} /\ net \subseteq Request
  /\ answer \in Answer \cup {None}
  /\ result \in {"none", "OK", "error", "duplicate", "gone"} /\ late \subseteq {"cred", "rfpro"}

(* What the device knows, after a restart at the latest.                   *)
Saved == Device!Reloaded(db)
SharedKey(m) == \E x \in m.cred.list : /\ psk # None /\ x.secret = psk.key
                                       /\ \A y \in m.cred.list : y.subject = Obt <=> y = x

(* When the callback reports success both sides agree, whatever was lost,  *)
(* repeated or restarted on the way: the device is owned by the tool and   *)
(* in normal operation, it will still be after a restart, and it holds     *)
(* the one key that the tool holds.  Excepted are delayed copies of two    *)
(* requests, which the device handles again: cred empties the key, dos     *)
(* RFPRO takes the device out of normal operation.                         *)
SuccessIsMutual ==
  result = "OK" /\ late = {} =>
    \A m \in {Saved} \cup (IF up THEN {mem} ELSE {}) :
      m.doxm.owned /\ m.doxm.owner = Obt /\ m.pstat.dos = "RFNOP" /\ SharedKey(m)

(* A transfer that failed half way does not lock the device: if it comes   *)
(* to think that it is owned, its owner has the key, although the tool     *)
(* dropped the device from its database.                                   *)
OwnerHasKey ==
  "cred" \notin late /\ Saved.doxm.owned => Saved.doxm.owner = Obt /\ SharedKey(Saved)

(* Every transfer comes to its end, but for three handlers that neither    *)
(* go on nor call SetResult.                                               *)
EndsOrLeaks ==
  step # "idle" ~> \/ step = "idle"
                   \/ ~waiting /\ step \in {"uuid", "rowner", "rfnop"}
=============================================================================
