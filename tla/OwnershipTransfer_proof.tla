----------------------- MODULE OwnershipTransfer_proof -----------------------
(***************************************************************************)
(* The invariants of OwnershipTransfer, for every number of transfers, and *)
(* that the device in a transfer implements DeviceOnboarding.              *)
(*                                                                         *)
(* The inductive invariant relates the request the tool is at to what the  *)
(* device has done.  A request is sent after the answer to the one before, *)
(* so a request of the session the device knows, as long as it knows it,   *)
(* tells of every earlier one that it has been handled in this session:    *)
(* the owner has been named and the credential is in memory and on file    *)
(* (Followed).  The tool reads doxm over the session before it goes on,    *)
(* so the device cannot have become owned since (Verified): an owned       *)
(* request of an earlier session is not readable any more.                 *)
(*                                                                         *)
(* The proof goes in three parts: what each handler of the device does to  *)
(* memory and file (the lemmas that end in Posted), what a request of a    *)
(* transfer does to what the invariant speaks of (Effect), and one lemma   *)
(* per action (the lemmas that end in Keeps).                              *)
(***************************************************************************)
EXTENDS OwnershipTransfer, SequenceTheorems, TLAPS

-----------------------------------------------------------------------------
(* The order of a transfer.                                                *)
Rank(op) == CASE op = "oxmsel" -> 1 [] op = "verify" -> 2 [] op = "pstat" -> 3
              [] op = "om" -> 4 [] op = "owner" -> 5 [] op = "uuid" -> 6
              [] op = "cred" -> 7 [] op = "acl" -> 8 [] op = "owned" -> 9
              [] op = "rowner" -> 10 [] op = "rfpro" -> 11 [] op = "rfnop" -> 12

Stored(c) == IF c = None THEN {} ELSE c.list

(* The file says that the device is owned.                                 *)
FileOwned(d) == d.svr.doxm # None /\ d.svr.doxm.owned

(* The list has one credential of the tool's, with the key of k.           *)
Keyed(list, k) == \E x \in list : /\ k # None /\ x.secret = k.key
                                  /\ \A y \in list : y.subject = Obt <=> y = x

(* The device: an owner is saved at once, and past the transfer there is   *)
(* one.                                                                    *)
FileOK == /\ FileOwned(db) => db.svr.doxm.owner = Obt
          /\ db.svr.pstat # None /\ db.svr.pstat.dos # "RFOTM" => FileOwned(db)

MemOK == up => /\ mem.doxm.owned => db.svr.doxm = mem.doxm
               /\ FileOwned(db) => mem.doxm.owned
               /\ mem.pstat.dos # "RFOTM" => mem.doxm.owned

SessionOK == ~up => devSession = 0

(* The tool.                                                               *)
SentOK == /\ \A r \in net : /\ r.n <= n
                            /\ r.op = "cred" => r.arg \in CredId
                            /\ r.n = n /\ step # "idle" => Rank(r.op) <= Rank(step)
          /\ step # "idle" => \E r \in net : r.n = n /\ r.op = step
          /\ waiting => step # "idle"
          /\ answer # None => waiting
          /\ result = "OK" => step = "idle"

(* A request of the device's session tells what the device has done.       *)
KeyInBoth == Keyed(mem.cred.list, psk) /\ Keyed(Stored(db.svr.cred), psk)

Followed == \A r \in net : r.n = devSession =>
              /\ Rank(r.op) >= Rank("uuid") => mem.doxm.owner = Obt
              /\ Rank(r.op) >= Rank("acl") /\ "cred" \notin late => KeyInBoth

Verified == /\ step \in {"oxmsel", "verify"} => ~local.owned
            /\ step \in Op /\ Rank(step) >= Rank("pstat") => devSession \in {0, n}
            /\ step \in Op /\ Rank(step) \in Rank("pstat") .. Rank("acl") => ~FileOwned(db)
            /\ step = "cred" => psk # None /\ psk.key = n

Answered == answer # None =>
  /\ step = "verify" => /\ devSession \in {0, n}
                        /\ ~answer.doxm.owned => ~FileOwned(db)
  /\ devSession = n /\ answer.ok =>
       /\ step = "owner" => mem.doxm.owner = Obt
       /\ step = "cred" /\ "cred" \notin late => KeyInBoth

OwnedKeyed == FileOwned(db) /\ "cred" \notin late =>
                /\ Keyed(Stored(db.svr.cred), psk)
                /\ up => Keyed(mem.cred.list, psk)

(* Normal operation, in the file and in memory.                            *)
Operating == /\ FileOwned(db) /\ db.svr.pstat # None /\ db.svr.pstat.dos = "RFNOP"
             /\ up => mem.pstat.dos = "RFNOP"

Succeeded == result = "OK" \/ (step = "rfnop" /\ answer # None /\ answer.ok)
Finished == Succeeded /\ late = {} => Operating

IndInv == /\ TypeOK /\ FileOK /\ MemOK /\ SessionOK /\ SentOK
          /\ Followed /\ Verified /\ Answered /\ OwnedKeyed /\ Finished

-----------------------------------------------------------------------------
(* The progress of the device's handlers.                                  *)
Progress == [mem : Device!Memory, db : Device!Database,
             writes : Seq(Device!Database), ok : BOOLEAN]

SameFile(p, o) == p.db = o.db /\ p.writes = o.writes /\ p.ok = o.ok

Holds(p, doxm, pstat, acl, cred, static) ==
  /\ p.mem.doxm = doxm /\ p.mem.pstat = pstat /\ p.mem.acl = acl
  /\ p.mem.cred = cred /\ p.mem.static = static

(* The entries of a file.                                                  *)
Has(d, doxm, pstat, acl, cred) ==
  /\ d \in Device!Database
  /\ d.svr.doxm = doxm /\ d.svr.pstat = pstat /\ d.svr.acl = acl /\ d.svr.cred = cred

(* p is o after a write of d.                                              *)
Wrote(p, o, d) ==
  /\ p \in Progress /\ p.mem = o.mem /\ p.ok = o.ok /\ p.db = d
  /\ p.writes = Append(o.writes, d)

LEMMA MemoryParts ==
  ASSUME NEW m \in Device!Memory
  PROVE  /\ m.doxm \in Device!Doxm /\ m.pstat \in Device!Pstat /\ m.acl \in Uuid
         /\ m.cred \in Device!Cred /\ m.static \in BOOLEAN
BY DEF Device!Memory

LEMMA DatabaseParts ==
  ASSUME NEW d \in Device!Database
  PROVE  /\ d.svr.doxm \in Device!Doxm \cup {None} /\ d.svr.pstat \in Device!Pstat \cup {None}
         /\ d.svr.acl \in Uuid \cup {None} /\ d.svr.cred \in Device!Cred \cup {None}
BY DEF Device!Database, Device!Entries

LEMMA ProgressParts ==
  ASSUME NEW o \in Progress
  PROVE  /\ o.mem \in Device!Memory /\ o.db \in Device!Database
         /\ o.writes \in Seq(Device!Database) /\ o.ok \in BOOLEAN
BY DEF Progress

LEMMA BeginProgress ==
  ASSUME NEW m \in Device!Memory, NEW d \in Device!Database
  PROVE  LET o == Device!Begin(m, d)
         IN  o \in Progress /\ o.mem = m /\ o.db = d /\ o.writes = << >> /\ o.ok = TRUE
BY DEF Device!Begin, Progress

LEMMA SetDoxm ==
  ASSUME NEW o \in Progress, NEW x \in Device!Doxm
  PROVE  LET p == [o EXCEPT !.mem.doxm = x]
         IN  /\ p \in Progress /\ SameFile(p, o)
             /\ Holds(p, x, o.mem.pstat, o.mem.acl, o.mem.cred, o.mem.static)
BY DEF Progress, Device!Memory, SameFile, Holds

LEMMA SetPstat ==
  ASSUME NEW o \in Progress, NEW x \in Device!Pstat
  PROVE  LET p == [o EXCEPT !.mem.pstat = x]
         IN  /\ p \in Progress /\ SameFile(p, o)
             /\ Holds(p, o.mem.doxm, x, o.mem.acl, o.mem.cred, o.mem.static)
BY DEF Progress, Device!Memory, SameFile, Holds

LEMMA SetStatic ==
  ASSUME NEW o \in Progress, NEW x \in Device!Pstat
  PROVE  LET p == [o EXCEPT !.mem.pstat = x, !.mem.static = TRUE]
         IN  /\ p \in Progress /\ SameFile(p, o)
             /\ Holds(p, o.mem.doxm, x, o.mem.acl, o.mem.cred, TRUE)
BY DEF Progress, Device!Memory, SameFile, Holds

LEMMA SetAcl ==
  ASSUME NEW o \in Progress, NEW x \in Uuid
  PROVE  LET p == [o EXCEPT !.mem.acl = x]
         IN  /\ p \in Progress /\ SameFile(p, o)
             /\ Holds(p, o.mem.doxm, o.mem.pstat, x, o.mem.cred, o.mem.static)
BY DEF Progress, Device!Memory, SameFile, Holds

LEMMA SetCred ==
  ASSUME NEW o \in Progress, NEW x \in Device!Cred
  PROVE  LET p == [o EXCEPT !.mem.cred = x]
         IN  /\ p \in Progress /\ SameFile(p, o)
             /\ Holds(p, o.mem.doxm, o.mem.pstat, o.mem.acl, x, o.mem.static)
BY DEF Progress, Device!Memory, SameFile, Holds

LEMMA Refused ==
  ASSUME NEW o \in Progress
  PROVE  LET p == Device!Refuse(o)
         IN  p \in Progress /\ p.mem = o.mem /\ p.db = o.db /\ p.writes = o.writes /\ p.ok = FALSE
BY DEF Progress, Device!Refuse

LEMMA Written ==
  ASSUME NEW o \in Progress, NEW d \in Device!Database
  PROVE  Wrote(Device!Write(o, d), o, d)
<1>1. o.writes \in Seq(Device!Database) /\ Append(o.writes, d) \in Seq(Device!Database)
  BY ProgressParts
<1> QED  BY <1>1 DEF Device!Write, Progress, Wrote

LEMMA SavedDoxm ==
  ASSUME NEW o \in Progress
  PROVE  \E d : /\ Wrote(Device!SaveDoxm(o), o, d)
                /\ Has(d, o.mem.doxm, o.db.svr.pstat, o.db.svr.acl, o.db.svr.cred)
<1> DEFINE d == [o.db EXCEPT !.svr.doxm = o.mem.doxm]
<1>1. o.db \in Device!Database /\ o.mem.doxm \in Device!Doxm
  BY ProgressParts, MemoryParts
<1>2. Has(d, o.mem.doxm, o.db.svr.pstat, o.db.svr.acl, o.db.svr.cred)
  BY <1>1 DEF Device!Database, Device!Entries, Has
<1>3. Device!SaveDoxm(o) = Device!Write(o, d)
  BY DEF Device!SaveDoxm
<1> HIDE DEF d
<1> QED  BY <1>2, <1>3, Written DEF Has

LEMMA SavedPstat ==
  ASSUME NEW o \in Progress
  PROVE  \E d : /\ Wrote(Device!SavePstat(o), o, d)
                /\ Has(d, o.db.svr.doxm, o.mem.pstat, o.db.svr.acl, o.db.svr.cred)
<1> DEFINE d == [o.db EXCEPT !.svr.pstat = o.mem.pstat]
<1>1. o.db \in Device!Database /\ o.mem.pstat \in Device!Pstat
  BY ProgressParts, MemoryParts
<1>2. Has(d, o.db.svr.doxm, o.mem.pstat, o.db.svr.acl, o.db.svr.cred)
  BY <1>1 DEF Device!Database, Device!Entries, Has
<1>3. Device!SavePstat(o) = Device!Write(o, d)
  BY DEF Device!SavePstat
<1> HIDE DEF d
<1> QED  BY <1>2, <1>3, Written DEF Has

LEMMA SavedAcl ==
  ASSUME NEW o \in Progress
  PROVE  \E d : /\ Wrote(Device!SaveAcl(o), o, d)
                /\ Has(d, o.db.svr.doxm, o.db.svr.pstat, o.mem.acl, o.db.svr.cred)
<1> DEFINE d == [o.db EXCEPT !.svr.acl = o.mem.acl]
<1>1. o.db \in Device!Database /\ o.mem.acl \in Uuid
  BY ProgressParts, MemoryParts
<1>2. Has(d, o.db.svr.doxm, o.db.svr.pstat, o.mem.acl, o.db.svr.cred)
  BY <1>1 DEF Device!Database, Device!Entries, Has
<1>3. Device!SaveAcl(o) = Device!Write(o, d)
  BY DEF Device!SaveAcl
<1> HIDE DEF d
<1> QED  BY <1>2, <1>3, Written DEF Has

LEMMA SavedCred ==
  ASSUME NEW o \in Progress
  PROVE  \E d : /\ Wrote(Device!SaveCred(o), o, d)
                /\ Has(d, o.db.svr.doxm, o.db.svr.pstat, o.db.svr.acl, d.svr.cred)
                /\ Stored(d.svr.cred) = o.mem.cred.list
<1> DEFINE c == IF o.mem.cred.list = {} THEN None ELSE o.mem.cred
           d == [o.db EXCEPT !.svr.cred = c]
<1>1. o.db \in Device!Database /\ o.mem.cred \in Device!Cred
  BY ProgressParts, MemoryParts
<1>2. c \in Device!Cred \cup {None} /\ Stored(c) = o.mem.cred.list
  BY <1>1, NoneAssumption DEF Stored
<1>3. Device!SaveCred(o) = Device!Write(o, d)
  BY DEF Device!SaveCred
<1> HIDE DEF c
<1>4. Has(d, o.db.svr.doxm, o.db.svr.pstat, o.db.svr.acl, c)
  BY <1>1, <1>2 DEF Device!Database, Device!Entries, Has
<1> HIDE DEF d
<1>5. d.svr.cred = c /\ d \in Device!Database
  BY <1>4 DEF Has
<1> QED  BY <1>2, <1>3, <1>4, <1>5, Written

-----------------------------------------------------------------------------
(* Loading changes nothing in the file that matters here.                  *)
Like(d, e) ==
  /\ d \in Device!Database
  /\ FileOwned(d) <=> FileOwned(e)
  /\ FileOwned(e) => d.svr.doxm.owner = e.svr.doxm.owner
  /\ d.svr.pstat = e.svr.pstat /\ Stored(d.svr.cred) = Stored(e.svr.cred)

Good(o, e) == /\ o \in Progress /\ Like(o.db, e)
              /\ \A k \in DOMAIN o.writes : Like(o.writes[k], e)

LEMMA GoodSame ==
  ASSUME NEW o, NEW e, NEW p \in Progress, Good(o, e), SameFile(p, o)
  PROVE  Good(p, e)
BY DEF Good, SameFile

LEMMA GoodWrite ==
  ASSUME NEW o, NEW e, NEW p, NEW d, Good(o, e), Like(d, e), Wrote(p, o, d)
  PROVE  Good(p, e)
<1>1. o.writes \in Seq(Device!Database) /\ d \in Device!Database
  BY ProgressParts DEF Good, Like
<1>2. \A k \in DOMAIN Append(o.writes, d) :
        \/ k \in DOMAIN o.writes /\ Append(o.writes, d)[k] = o.writes[k]
        \/ Append(o.writes, d)[k] = d
  BY <1>1, AppendProperties
<1> QED  BY <1>2 DEF Good, Wrote

LEMMA Loads ==
  ASSUME NEW d \in Device!Database
  PROVE  LET x == Device!LoadDoxm(d)
         IN  /\ x \in Device!Doxm /\ (x.owned <=> FileOwned(d))
             /\ x.owned => x = d.svr.doxm
<1>1. Device!DefaultDoxm \in Device!Doxm /\ ~Device!DefaultDoxm.owned
  BY UuidAssumption DEF Device!DefaultDoxm, Device!Doxm
<1>2. d.svr.doxm \in Device!Doxm \cup {None}
  BY DatabaseParts
<1>3. \A x \in Device!Doxm : /\ Device!Forget(x) \in Device!Doxm
                             /\ Device!Forget(x).owned <=> x.owned
                             /\ x.owned => Device!Forget(x) = x
  BY UuidAssumption DEF Device!Forget, Device!Doxm
<1> QED  BY <1>1, <1>2, <1>3 DEF Device!LoadDoxm, FileOwned

(* What memory holds of the owner.                                         *)
OwnerLoaded(p, e) == /\ p.mem.doxm.owned <=> FileOwned(e)
                     /\ p.mem.doxm.owned => p.db.svr.doxm = p.mem.doxm

LEMMA InitsDoxm ==
  ASSUME NEW o, NEW e, Good(o, e)
  PROVE  LET p == Device!InitDoxmResource(o)
         IN  /\ Good(p, e) /\ OwnerLoaded(p, e)
             /\ Holds(p, p.mem.doxm, o.mem.pstat, o.mem.acl, o.mem.cred, o.mem.static)
<1> DEFINE x == Device!LoadDoxm(o.db)
           r == [o EXCEPT !.mem.doxm = x]
<1>1. o \in Progress /\ o.db \in Device!Database /\ Like(o.db, e)
  BY ProgressParts DEF Good
<1>2. x \in Device!Doxm /\ (x.owned <=> FileOwned(e)) /\ (x.owned => x = o.db.svr.doxm)
  BY <1>1, Loads DEF Like
<1>3. Device!InitDoxmResource(o) = Device!CheckDeviceID(r)
  BY DEF Device!InitDoxmResource
<1> HIDE DEF x
<1>4. /\ r \in Progress /\ SameFile(r, o) /\ Good(r, e)
      /\ Holds(r, x, o.mem.pstat, o.mem.acl, o.mem.cred, o.mem.static)
  BY <1>1, <1>2, SetDoxm, GoodSame
<1> HIDE DEF r
<1>5. CASE x.deviceuuid # Nil
  <2>1. Device!InitDoxmResource(o) = r
    BY <1>3, <1>4, <1>5 DEF Device!CheckDeviceID, Holds
  <2> QED  BY <1>2, <1>4, <2>1 DEF Holds, SameFile, OwnerLoaded
<1>6. CASE x.deviceuuid = Nil
  <2> DEFINE y == [x EXCEPT !.deviceuuid = Self]
             q == [r EXCEPT !.mem.doxm = y]
  <2>1. y \in Device!Doxm /\ (y.owned <=> x.owned) /\ y.owner = x.owner
    BY <1>2, UuidAssumption DEF Device!Doxm
  <2>2. Device!InitDoxmResource(o) = Device!SaveDoxm([r EXCEPT !.mem.doxm.deviceuuid = Self])
    BY <1>3, <1>4, <1>6 DEF Device!CheckDeviceID, Holds
  <2>3. [r EXCEPT !.mem.doxm.deviceuuid = Self] = q
    BY <1>4 DEF Holds, Progress, Device!Memory
  <2> HIDE DEF y
  <2>4. /\ q \in Progress /\ SameFile(q, r)
        /\ Holds(q, y, r.mem.pstat, r.mem.acl, r.mem.cred, r.mem.static)
    BY <1>4, <2>1, SetDoxm
  <2> HIDE DEF q
  <2>5. Good(q, e)
    BY <1>4, <2>4, GoodSame
  <2> DEFINE p == Device!SaveDoxm(q)
  <2>6. PICK d : /\ Wrote(p, q, d)
                 /\ Has(d, q.mem.doxm, q.db.svr.pstat, q.db.svr.acl, q.db.svr.cred)
    BY <2>4, SavedDoxm
  <2>7. Device!InitDoxmResource(o) = p
    BY <2>2, <2>3
  <2> HIDE DEF p
  <2>8. d.svr.doxm = y /\ y # None
    BY <2>1, <2>4, <2>6, NoneAssumption DEF Has, Holds
  <2>9. q.db = o.db
    BY <1>4, <2>4 DEF SameFile
  <2>10. Like(d, e)
    BY <1>1, <1>2, <2>1, <2>6, <2>8, <2>9 DEF Like, Has, FileOwned
  <2>11. Good(p, e)
    BY <2>5, <2>6, <2>10, GoodWrite
  <2>12. p.mem = q.mem /\ p.db = d
    BY <2>6 DEF Wrote
  <2>13. OwnerLoaded(p, e)
    BY <1>2, <2>1, <2>4, <2>8, <2>12 DEF OwnerLoaded, Holds
  <2> QED  BY <1>4, <2>4, <2>7, <2>11, <2>12, <2>13 DEF Holds
<1> QED  BY <1>5, <1>6

LEMMA InitsPstat ==
  ASSUME NEW o, NEW e, Good(o, e), ~o.mem.static
  PROVE  LET p == Device!InitPstatResource(o)
         IN  /\ Good(p, e) /\ SameFile(p, o)
             /\ p.mem.doxm = o.mem.doxm /\ p.mem.cred = o.mem.cred
             /\ p.mem.pstat = IF e.svr.pstat = None THEN Device!DefaultPstat ELSE e.svr.pstat
<1>1. o \in Progress /\ o.db.svr.pstat = e.svr.pstat /\ o.db.svr.pstat \in Device!Pstat \cup {None}
  BY ProgressParts, DatabaseParts DEF Good, Like
<1>2. CASE o.db.svr.pstat = None
  <2> DEFINE p == [o EXCEPT !.mem.pstat = Device!DefaultPstat, !.mem.static = TRUE]
  <2>1. Device!DefaultPstat \in Device!Pstat
    BY UuidAssumption DEF Device!DefaultPstat, Device!Pstat, Device!State
  <2>2. /\ p \in Progress /\ SameFile(p, o)
        /\ Holds(p, o.mem.doxm, Device!DefaultPstat, o.mem.acl, o.mem.cred, TRUE)
    BY <1>1, <2>1, SetStatic
  <2>3. Device!InitPstatResource(o) = p
    BY <1>2 DEF Device!InitPstatResource
  <2> HIDE DEF p
  <2> QED  BY <1>1, <1>2, <2>2, <2>3, GoodSame DEF Holds
<1>3. CASE o.db.svr.pstat # None
  <2> DEFINE p == [o EXCEPT !.mem.pstat = o.db.svr.pstat]
  <2>1. /\ p \in Progress /\ SameFile(p, o)
        /\ Holds(p, o.mem.doxm, o.db.svr.pstat, o.mem.acl, o.mem.cred, o.mem.static)
    BY <1>1, <1>3, SetPstat
  <2>2. Device!InitPstatResource(o) = p
    BY <1>3 DEF Device!InitPstatResource
  <2> HIDE DEF p
  <2> QED  BY <1>1, <1>3, <2>1, <2>2, GoodSame DEF Holds
<1> QED  BY <1>2, <1>3

LEMMA InitsAcl ==
  ASSUME NEW o, NEW e, Good(o, e)
  PROVE  LET p == Device!InitACLResource(o)
         IN  /\ Good(p, e) /\ SameFile(p, o)
             /\ Holds(p, o.mem.doxm, o.mem.pstat, p.mem.acl, o.mem.cred, o.mem.static)
<1> DEFINE u == IF o.db.svr.acl = None THEN o.mem.doxm.deviceuuid ELSE o.db.svr.acl
           p == [o EXCEPT !.mem.acl = u]
<1>1. o \in Progress /\ u \in Uuid
  BY ProgressParts, MemoryParts, DatabaseParts DEF Good, Device!Doxm
<1>2. Device!InitACLResource(o) = p
  BY DEF Device!InitACLResource
<1> HIDE DEF u
<1>3. /\ p \in Progress /\ SameFile(p, o)
      /\ Holds(p, o.mem.doxm, o.mem.pstat, u, o.mem.cred, o.mem.static)
  BY <1>1, SetAcl
<1> HIDE DEF p
<1> QED  BY <1>2, <1>3, GoodSame DEF Holds

LEMMA InitsCred ==
  ASSUME NEW o, NEW e, Good(o, e)
  PROVE  LET p == Device!InitCredResource(o)
         IN  /\ Good(p, e) /\ p.mem.doxm = o.mem.doxm /\ p.mem.pstat = o.mem.pstat
             /\ p.db.svr.doxm = o.db.svr.doxm /\ p.mem.cred.list = Stored(e.svr.cred)
<1>1. /\ o \in Progress /\ o.mem.cred \in Device!Cred /\ o.mem.doxm.deviceuuid \in Uuid
      /\ o.db.svr.cred \in Device!Cred \cup {None}
      /\ Like(o.db, e) /\ Stored(o.db.svr.cred) = Stored(e.svr.cred)
  BY ProgressParts, MemoryParts, DatabaseParts DEF Good, Like, Device!Doxm
<1>2. CASE o.db.svr.cred = None
  <2> DEFINE c == [o.mem.cred EXCEPT !.list = {}]
             p == [o EXCEPT !.mem.cred = c]
  <2>1. c \in Device!Cred /\ c.list = {}
    BY <1>1 DEF Device!Cred
  <2>2. Device!InitCredResource(o) = p
    BY <1>1, <1>2 DEF Device!InitCredResource, Progress, Device!Memory
  <2> HIDE DEF c
  <2>3. /\ p \in Progress /\ SameFile(p, o)
        /\ Holds(p, o.mem.doxm, o.mem.pstat, o.mem.acl, c, o.mem.static)
    BY <1>1, <2>1, SetCred
  <2> HIDE DEF p
  <2> QED  BY <1>1, <1>2, <2>1, <2>2, <2>3, GoodSame DEF Holds, SameFile, Stored
<1>3. CASE o.db.svr.cred # None
  <2> DEFINE c == Device!OwnedBy(o.db.svr.cred, o.mem.doxm.deviceuuid)
             q == [o EXCEPT !.mem.cred = c]
             p == Device!SaveCred(q)
  <2>1. c \in Device!Cred /\ c.list = o.db.svr.cred.list
    BY <1>1, <1>3 DEF Device!Cred, Device!OwnedBy
  <2>2. Device!InitCredResource(o) = p
    BY <1>3 DEF Device!InitCredResource
  <2> HIDE DEF c
  <2>3. /\ q \in Progress /\ SameFile(q, o)
        /\ Holds(q, o.mem.doxm, o.mem.pstat, o.mem.acl, c, o.mem.static)
    BY <1>1, <2>1, SetCred
  <2> HIDE DEF q
  <2>4. Good(q, e)
    BY <2>3, GoodSame
  <2>5. PICK d : /\ Wrote(p, q, d)
                 /\ Has(d, q.db.svr.doxm, q.db.svr.pstat, q.db.svr.acl, d.svr.cred)
                 /\ Stored(d.svr.cred) = q.mem.cred.list
    BY <2>3, SavedCred
  <2> HIDE DEF p
  <2>6. q.mem.cred.list = Stored(e.svr.cred) /\ q.db = o.db
    BY <1>1, <1>3, <2>1, <2>3 DEF Holds, Stored, SameFile
  <2>7. Like(d, e)
    BY <1>1, <2>5, <2>6 DEF Like, Has, FileOwned
  <2>8. Good(p, e)
    BY <2>4, <2>5, <2>7, GoodWrite
  <2> QED  BY <2>2, <2>3, <2>5, <2>6, <2>8 DEF Holds, SameFile, Has, Wrote
<1> QED  BY <1>2, <1>3

(* Memory after loading from file e.                                       *)
Loaded(p, e) ==
  /\ Good(p, e) /\ OwnerLoaded(p, e)
  /\ p.mem.pstat = IF e.svr.pstat = None THEN Device!DefaultPstat ELSE e.svr.pstat
  /\ p.mem.cred.list = Stored(e.svr.cred)

LEMMA FreshType == Device!Fresh \in Device!Memory /\ Device!Fresh.static = FALSE
<1>1. Device!DefaultDoxm \in Device!Doxm
  BY UuidAssumption DEF Device!DefaultDoxm, Device!Doxm
<1>2. Device!DefaultPstat \in Device!Pstat
  BY UuidAssumption DEF Device!DefaultPstat, Device!Pstat, Device!State
<1>3. [list |-> {}, rowneruuid |-> Nil] \in Device!Cred
  BY UuidAssumption DEF Device!Cred
<1> QED  BY <1>1, <1>2, <1>3, UuidAssumption DEF Device!Fresh, Device!Memory

LEMMA Inits ==
  ASSUME NEW e \in Device!Database
  PROVE  Loaded(Device!InitSecureResources(Device!Begin(Device!Fresh, e)), e)
<1> DEFINE o == Device!Begin(Device!Fresh, e)
           a == Device!InitDoxmResource(o)
           b == Device!InitPstatResource(a)
           c == Device!InitACLResource(b)
           p == Device!InitCredResource(c)
<1>1. Good(o, e) /\ o.mem = Device!Fresh
  <2>1. o \in Progress /\ o.mem = Device!Fresh /\ o.db = e /\ o.writes = << >>
    BY FreshType, BeginProgress
  <2> HIDE DEF o
  <2>2. Like(o.db, e)
    BY <2>1 DEF Like
  <2>3. DOMAIN o.writes = {}
    BY <2>1
  <2> QED  BY <2>1, <2>2, <2>3 DEF Good
<1>2. Device!InitSecureResources(o) = p
  BY DEF Device!InitSecureResources
<1> HIDE DEF o
<1>3. /\ Good(a, e) /\ OwnerLoaded(a, e)
      /\ Holds(a, a.mem.doxm, o.mem.pstat, o.mem.acl, o.mem.cred, o.mem.static)
  BY <1>1, InitsDoxm
<1>4. ~a.mem.static
  BY <1>1, <1>3, FreshType DEF Holds
<1> HIDE DEF a
<1>5. /\ Good(b, e) /\ SameFile(b, a)
      /\ b.mem.doxm = a.mem.doxm /\ b.mem.cred = a.mem.cred
      /\ b.mem.pstat = IF e.svr.pstat = None THEN Device!DefaultPstat ELSE e.svr.pstat
  BY <1>3, <1>4, InitsPstat
<1> HIDE DEF b
<1>6. Good(c, e) /\ SameFile(c, b) /\ Holds(c, b.mem.doxm, b.mem.pstat, c.mem.acl, b.mem.cred, b.mem.static)
  BY <1>5, InitsAcl
<1> HIDE DEF c
<1>7. /\ Good(p, e) /\ p.mem.doxm = c.mem.doxm /\ p.mem.pstat = c.mem.pstat
      /\ p.db.svr.doxm = c.db.svr.doxm /\ p.mem.cred.list = Stored(e.svr.cred)
  BY <1>6, InitsCred
<1> HIDE DEF p
<1>8. p.mem.doxm = a.mem.doxm /\ p.db.svr.doxm = a.db.svr.doxm /\ p.mem.pstat = b.mem.pstat
  BY <1>5, <1>6, <1>7 DEF Holds, SameFile
<1>9. OwnerLoaded(p, e)
  BY <1>3, <1>8 DEF OwnerLoaded
<1> QED  BY <1>2, <1>5, <1>7, <1>8, <1>9 DEF Loaded, o

(* The reset profile is made of the entries that were loaded.              *)
LEMMA Profiled ==
  ASSUME NEW p, NEW e, Loaded(p, e)
  PROVE  Loaded(Device!CreateResetProfile(p), e)
<1> DEFINE d == [p.db EXCEPT !.profile = p.db.svr]
           q == Device!Write(p, d)
<1>1. p \in Progress /\ p.db \in Device!Database /\ Like(p.db, e) /\ Good(p, e)
  BY ProgressParts DEF Loaded, Good
<1>2. d \in Device!Database /\ d.svr = p.db.svr
  BY <1>1 DEF Device!Database
<1>3. Device!CreateResetProfile(p) \in {p, q}
  BY DEF Device!CreateResetProfile
<1> HIDE DEF d
<1>4. Wrote(q, p, d) /\ Like(d, e)
  BY <1>1, <1>2, Written DEF Like, FileOwned
<1> HIDE DEF q
<1>5. Good(q, e) /\ q.mem = p.mem /\ q.db.svr = p.db.svr
  BY <1>1, <1>2, <1>4, GoodWrite DEF Wrote
<1>6. Loaded(q, e)
  BY <1>5 DEF Loaded, OwnerLoaded
<1> QED  BY <1>3, <1>6

-----------------------------------------------------------------------------
(* What a request does to the device.  All but one write the file once.    *)
Once(o) == o \in Progress /\ Len(o.writes) <= 1

LEMMA WritesOnce ==
  ASSUME NEW o \in Progress, NEW p, NEW d, o.writes = << >>, Wrote(p, o, d)
  PROVE  Once(p)
<1>1. Append(o.writes, d) = <<d>>
  OBVIOUS
<1> QED  BY <1>1 DEF Wrote, Once

LEMMA NoWrites ==
  ASSUME NEW o \in Progress, o.writes = << >>
  PROVE  Once(o)
BY DEF Once

LEMMA DoxmPosted ==
  ASSUME NEW m \in Device!Memory, NEW d \in Device!Database, NEW p, NEW otm,
         ~(DOMAIN p \subseteq {"rowneruuid"}), NEW x \in Device!Doxm,
         x = Device!Update(m.doxm, p)
  PROVE  LET o == Device!HandleDoxmPostRequest(Device!Begin(m, d), p, otm)
         IN  /\ Once(o)
             /\ \/ o.mem = m /\ o.db = d /\ ~o.ok
                \/ /\ m.pstat.dos = "RFOTM"
                   /\ o.mem.doxm = x /\ o.mem.pstat = m.pstat /\ o.mem.cred = m.cred
                   /\ \/ (x.owner = Nil \/ ~x.owned) /\ o.db = d /\ ~o.ok
                      \/ Has(o.db, x, d.svr.pstat, d.svr.acl, d.svr.cred)
<1> DEFINE b == Device!Begin(m, d)
           o == Device!HandleDoxmPostRequest(b, p, otm)
           q == [b EXCEPT !.mem.doxm = x]
<1>1. b \in Progress /\ b.mem = m /\ b.db = d /\ b.writes = << >>
  BY BeginProgress
<1>2. CASE Device!ReadOnly(m) \/ ~(DOMAIN p \subseteq Device!DoxmWriteable(m.pstat.dos))
  <2>1. o = Device!Refuse(b)
    BY <1>1, <1>2 DEF Device!HandleDoxmPostRequest
  <2> HIDE DEF b, o
  <2>2. o \in Progress /\ o.mem = m /\ o.db = d /\ o.writes = << >> /\ ~o.ok
    BY <1>1, <2>1, Refused
  <2> QED  BY <2>2, NoWrites DEF b, o
<1>3. CASE ~(Device!ReadOnly(m) \/ ~(DOMAIN p \subseteq Device!DoxmWriteable(m.pstat.dos)))
  <2>1. m.pstat.dos = "RFOTM"
    BY <1>3 DEF Device!DoxmWriteable
  <2>2. o = Device!StartOwnershipTransfer([b EXCEPT !.mem.doxm = Device!Update(@, p)], otm)
    BY <1>1, <1>3 DEF Device!HandleDoxmPostRequest
  <2>3. [b EXCEPT !.mem.doxm = Device!Update(@, p)] = q
    BY <1>1 DEF Progress, Device!Memory
  <2>4. o = Device!StartOwnershipTransfer(q, otm)
    BY <2>2, <2>3
  <2> HIDE DEF b
  <2>5. /\ q \in Progress /\ SameFile(q, b)
        /\ Holds(q, x, m.pstat, m.acl, m.cred, m.static)
    BY <1>1, SetDoxm
  <2> HIDE DEF q, o
  <2>6. CASE o = Device!Refuse(q) /\ Device!MayRefuse(q.mem)
    <3>1. o \in Progress /\ o.mem = q.mem /\ o.db = d /\ o.writes = << >> /\ ~o.ok
      BY <1>1, <2>5, <2>6, Refused DEF SameFile
    <3>2. x.owner = Nil \/ ~x.owned
      BY <2>5, <2>6 DEF Device!MayRefuse, Holds
    <3> QED  BY <2>1, <2>5, <3>1, <3>2, NoWrites DEF Holds, b, o
  <2>7. CASE o = Device!SaveDoxm(q)
    <3>1. PICK f : /\ Wrote(o, q, f)
                   /\ Has(f, q.mem.doxm, q.db.svr.pstat, q.db.svr.acl, q.db.svr.cred)
      BY <2>5, <2>7, SavedDoxm
    <3>2. Once(o)
      BY <1>1, <2>5, <3>1, WritesOnce DEF SameFile
    <3>3. o.mem = q.mem /\ Has(o.db, x, d.svr.pstat, d.svr.acl, d.svr.cred)
      BY <1>1, <2>5, <3>1 DEF Wrote, SameFile, Holds
    <3> QED  BY <2>1, <2>5, <3>2, <3>3 DEF Holds, b, o
  <2> QED  BY <2>4, <2>6, <2>7 DEF Device!StartOwnershipTransfer
<1> QED  BY <1>2, <1>3

LEMMA StateSet ==
  ASSUME NEW o \in Progress, NEW new \in {"RFPRO", "RFNOP"}
  PROVE  LET p == Device!SetDosState(o, new)
         IN  /\ p \in Progress /\ p.db = o.db /\ p.writes = o.writes
             /\ p.mem.doxm = o.mem.doxm /\ p.mem.cred = o.mem.cred
             /\ \/ p.mem.pstat.dos = o.mem.pstat.dos /\ ~p.ok
                \/ p.mem.pstat.dos = new /\ o.mem.doxm.owned /\ p.ok = o.ok
<1> DEFINE a == Device!Pending(o, TRUE)
           s == Device!DoStateChange(a, new)
           p == Device!Pending(s, FALSE)
<1>1. ASSUME NEW c \in Progress, NEW v \in BOOLEAN
      PROVE  LET q == Device!Pending(c, v)
             IN  /\ q \in Progress /\ SameFile(q, c)
                 /\ q.mem.doxm = c.mem.doxm /\ q.mem.cred = c.mem.cred
                 /\ q.mem.pstat.dos = c.mem.pstat.dos
  <2> DEFINE x == [c.mem.pstat EXCEPT !.pending = v]
             q == [c EXCEPT !.mem.pstat = x]
  <2>1. c.mem.pstat \in Device!Pstat
    BY ProgressParts, MemoryParts
  <2>2. x \in Device!Pstat /\ x.dos = c.mem.pstat.dos
    BY <2>1 DEF Device!Pstat
  <2>3. Device!Pending(c, v) = q
    BY <2>1 DEF Device!Pending, Progress, Device!Memory
  <2> HIDE DEF x
  <2>4. q \in Progress /\ SameFile(q, c) /\ Holds(q, c.mem.doxm, x, c.mem.acl, c.mem.cred, c.mem.static)
    BY <2>2, SetPstat
  <2> HIDE DEF q
  <2> QED  BY <2>2, <2>3, <2>4 DEF Holds
<1>2. CASE \/ o.mem.pstat.pending
           \/ ~Device!IsValidStateTransition(o.mem.pstat.dos, new)
  <2>1. Device!SetDosState(o, new) = Device!Refuse(o)
    BY <1>2 DEF Device!SetDosState
  <2> QED  BY <2>1, Refused
<1>3. CASE ~(\/ o.mem.pstat.pending
             \/ ~Device!IsValidStateTransition(o.mem.pstat.dos, new))
  <2>1. Device!SetDosState(o, new) = p
    BY <1>3 DEF Device!SetDosState
  <2>2. /\ a \in Progress /\ SameFile(a, o) /\ a.mem.doxm = o.mem.doxm
        /\ a.mem.cred = o.mem.cred /\ a.mem.pstat.dos = o.mem.pstat.dos
    BY <1>1
  <2> HIDE DEF a
  <2>3. /\ s \in Progress /\ s.db = o.db /\ s.writes = o.writes
        /\ s.mem.doxm = o.mem.doxm /\ s.mem.cred = o.mem.cred
        /\ \/ s.mem.pstat.dos = o.mem.pstat.dos /\ ~s.ok
           \/ s.mem.pstat.dos = new /\ o.mem.doxm.owned /\ s.ok = o.ok
    <3>1. CASE ~Device!IsReadyToEnter(a.mem, new)
      <4>1. s = Device!Refuse(a)
        BY <3>1 DEF Device!DoStateChange
      <4> HIDE DEF s
      <4> QED  BY <2>2, <4>1, Refused DEF SameFile
    <3>2. CASE Device!IsReadyToEnter(a.mem, new)
      <4> DEFINE x == [a.mem.pstat EXCEPT !.dos = new, !.isop = (new = "RFNOP"),
                                          !.takeOwner = (new = "RFOTM")]
                 q == [a EXCEPT !.mem.pstat = x]
      <4>1. a.mem.doxm.owned
        BY <3>2 DEF Device!IsReadyToEnter, Device!Owned
      <4>2. a.mem.pstat \in Device!Pstat
        BY <2>2, ProgressParts, MemoryParts
      <4>3. x \in Device!Pstat /\ x.dos = new
        BY <4>2 DEF Device!Pstat, Device!State
      <4>4. s = Device!EnterStateGeneric(a, new)
        BY <3>2 DEF Device!DoStateChange
      <4>5. Device!EnterStateGeneric(a, new) = q
        BY <2>2, <4>2 DEF Device!EnterStateGeneric, Progress, Device!Memory
      <4> HIDE DEF x, s
      <4>6. q \in Progress /\ SameFile(q, a) /\ Holds(q, a.mem.doxm, x, a.mem.acl, a.mem.cred, a.mem.static)
        BY <2>2, <4>3, SetPstat
      <4> HIDE DEF q
      <4> QED  BY <2>2, <4>1, <4>3, <4>4, <4>5, <4>6 DEF Holds, SameFile
    <3> QED  BY <3>1, <3>2
  <2> HIDE DEF s
  <2>4. /\ p \in Progress /\ SameFile(p, s) /\ p.mem.doxm = s.mem.doxm
        /\ p.mem.cred = s.mem.cred /\ p.mem.pstat.dos = s.mem.pstat.dos
    BY <1>1, <2>3
  <2> HIDE DEF p
  <2> QED  BY <2>1, <2>3, <2>4 DEF SameFile
<1> QED  BY <1>2, <1>3

LEMMA PstatPosted ==
  ASSUME NEW m \in Device!Memory, NEW d \in Device!Database, NEW p,
         "rowneruuid" \in DOMAIN p => p.rowneruuid \in Uuid,
         "dos" \in DOMAIN p => p.dos \in {"RFPRO", "RFNOP"}
  PROVE  LET o == Device!HandlePstatPostRequest(Device!Begin(m, d), p)
         IN  /\ Once(o) /\ o.mem.doxm = m.doxm /\ o.mem.cred = m.cred
             /\ \/ o.mem.pstat.dos = m.pstat.dos
                \/ "dos" \in DOMAIN p /\ o.mem.pstat.dos = p.dos /\ m.doxm.owned
             /\ \/ o.db = d /\ ~o.ok
                \/ /\ "dos" \in DOMAIN p => o.mem.pstat.dos = p.dos
                   /\ Has(o.db, d.svr.doxm, o.mem.pstat, d.svr.acl, d.svr.cred)
<1> DEFINE b == Device!Begin(m, d)
           a == Device!UpdateRowner(b, p)
           s == Device!UpdateDos(a, p)
           o == Device!HandlePstatPostRequest(b, p)
<1>1. b \in Progress /\ b.mem = m /\ b.db = d /\ b.writes = << >> /\ b.ok
  BY BeginProgress
<1>2. CASE ~(DOMAIN p \subseteq Device!PstatWriteable(m.pstat.dos))
  <2>1. o = Device!Refuse(b)
    BY <1>1, <1>2 DEF Device!HandlePstatPostRequest
  <2> HIDE DEF b, o
  <2>2. o \in Progress /\ o.mem = m /\ o.db = d /\ o.writes = << >> /\ ~o.ok
    BY <1>1, <2>1, Refused
  <2> QED  BY <2>2, NoWrites DEF b, o
<1>3. CASE DOMAIN p \subseteq Device!PstatWriteable(m.pstat.dos)
  <2>1. o = Device!SaveIfOk(s)
    BY <1>1, <1>3 DEF Device!HandlePstatPostRequest
  <2> HIDE DEF b, o
  <2>2. /\ a \in Progress /\ a.db = d /\ a.writes = << >> /\ a.ok
        /\ a.mem.doxm = m.doxm /\ a.mem.cred = m.cred /\ a.mem.pstat.dos = m.pstat.dos
    <3>1. CASE "rowneruuid" \notin DOMAIN p
      BY <1>1, <3>1 DEF Device!UpdateRowner
    <3>2. CASE "rowneruuid" \in DOMAIN p
      <4> DEFINE x == [b.mem.pstat EXCEPT !.rowneruuid = p.rowneruuid]
                 q == [b EXCEPT !.mem.pstat = x]
      <4>1. b.mem.pstat \in Device!Pstat
        BY <1>1, MemoryParts
      <4>2. x \in Device!Pstat /\ x.dos = m.pstat.dos
        BY <1>1, <3>2, <4>1 DEF Device!Pstat
      <4>3. a = q
        BY <1>1, <3>2 DEF Device!UpdateRowner, Progress, Device!Memory
      <4> HIDE DEF x, a
      <4>4. /\ q \in Progress /\ SameFile(q, b)
            /\ Holds(q, m.doxm, x, m.acl, m.cred, m.static)
        BY <1>1, <4>2, SetPstat
      <4> HIDE DEF q
      <4> QED  BY <1>1, <4>2, <4>3, <4>4 DEF SameFile, Holds
    <3> QED  BY <3>1, <3>2
  <2> HIDE DEF a
  <2>3. /\ s \in Progress /\ s.db = d /\ s.writes = << >>
        /\ s.mem.doxm = m.doxm /\ s.mem.cred = m.cred
        /\ \/ s.mem.pstat.dos = m.pstat.dos
           \/ "dos" \in DOMAIN p /\ s.mem.pstat.dos = p.dos /\ m.doxm.owned
        /\ s.ok /\ "dos" \in DOMAIN p => s.mem.pstat.dos = p.dos
    <3>1. CASE "dos" \in DOMAIN p /\ p.dos # a.mem.pstat.dos
      <4>1. s = Device!SetDosState(a, p.dos) /\ p.dos \in {"RFPRO", "RFNOP"}
        BY <3>1 DEF Device!UpdateDos
      <4> HIDE DEF s
      <4> QED  BY <2>2, <3>1, <4>1, StateSet
    <3>2. CASE ~("dos" \in DOMAIN p /\ p.dos # a.mem.pstat.dos)
      <4>1. s = a
        BY <3>2 DEF Device!UpdateDos
      <4> HIDE DEF s
      <4> QED  BY <2>2, <3>2, <4>1
    <3> QED  BY <3>1, <3>2
  <2> HIDE DEF s
  <2>4. CASE ~s.ok
    <3>1. o = s
      BY <2>1, <2>4 DEF Device!SaveIfOk
    <3> QED  BY <2>3, <2>4, <3>1, NoWrites DEF b, o
  <2>5. CASE s.ok
    <3>1. o = Device!SavePstat(s)
      BY <2>1, <2>5 DEF Device!SaveIfOk
    <3>2. PICK f : /\ Wrote(o, s, f)
                   /\ Has(f, s.db.svr.doxm, s.mem.pstat, s.db.svr.acl, s.db.svr.cred)
      BY <2>3, <3>1, SavedPstat
    <3>3. Once(o) /\ o.mem = s.mem /\ o.db = f
      BY <2>3, <3>2, WritesOnce DEF Wrote
    <3> QED  BY <2>3, <2>5, <3>2, <3>3 DEF b, o
  <2> QED  BY <2>4, <2>5
<1> QED  BY <1>2, <1>3

LEMMA AclPosted ==
  ASSUME NEW m \in Device!Memory, NEW d \in Device!Database, NEW u \in Uuid
  PROVE  LET o == Device!HandleACLPostRequest(Device!Begin(m, d), u, FALSE)
         IN  /\ Once(o) /\ o.mem.doxm = m.doxm /\ o.mem.pstat = m.pstat /\ o.mem.cred = m.cred
             /\ \/ o.db = d
                \/ Has(o.db, d.svr.doxm, d.svr.pstat, o.db.svr.acl, d.svr.cred)
<1> DEFINE b == Device!Begin(m, d)
           q == [b EXCEPT !.mem.acl = u]
           o == Device!HandleACLPostRequest(b, u, FALSE)
<1>1. b \in Progress /\ b.mem = m /\ b.db = d /\ b.writes = << >> /\ b.ok
  BY BeginProgress
<1>2. o \in {Device!Refuse(b), Device!SaveAcl(b), Device!SaveAcl(q)}
  BY DEF Device!HandleACLPostRequest
<1> HIDE DEF b, o
<1>3. CASE o = Device!Refuse(b)
  <2>1. o \in Progress /\ o.mem = m /\ o.db = d /\ o.writes = << >>
    BY <1>1, <1>3, Refused
  <2> QED  BY <2>1, NoWrites DEF b, o
<1>4. ASSUME NEW c \in Progress, SameFile(c, b), o = Device!SaveAcl(c),
             c.mem.doxm = m.doxm /\ c.mem.pstat = m.pstat /\ c.mem.cred = m.cred
      PROVE  /\ Once(o) /\ o.mem.doxm = m.doxm /\ o.mem.pstat = m.pstat /\ o.mem.cred = m.cred
             /\ Has(o.db, d.svr.doxm, d.svr.pstat, o.db.svr.acl, d.svr.cred)
  <2>1. PICK f : /\ Wrote(o, c, f)
                 /\ Has(f, c.db.svr.doxm, c.db.svr.pstat, c.mem.acl, c.db.svr.cred)
    BY <1>4, SavedAcl
  <2>2. Once(o)
    BY <1>1, <1>4, <2>1, WritesOnce DEF SameFile
  <2> QED  BY <1>1, <1>4, <2>1, <2>2 DEF Wrote, SameFile, Has
<1>5. CASE o = Device!SaveAcl(b)
  BY <1>1, <1>4, <1>5 DEF SameFile, b, o
<1>6. CASE o = Device!SaveAcl(q)
  <2>1. /\ q \in Progress /\ SameFile(q, b)
        /\ Holds(q, m.doxm, m.pstat, u, m.cred, m.static)
    BY <1>1, SetAcl
  <2> HIDE DEF q
  <2> QED  BY <1>4, <1>6, <2>1 DEF Holds, b, o
<1> QED  BY <1>2, <1>3, <1>5, <1>6

(* The credential request writes once or twice; only the list changes.     *)
Elsewhere(d, e) == d \in Device!Database /\ d.svr.doxm = e.svr.doxm /\ d.svr.pstat = e.svr.pstat

OnlyCred(o, m, d) ==
  /\ o \in Progress /\ o.mem.doxm = m.doxm /\ o.mem.pstat = m.pstat
  /\ Elsewhere(o.db, d) /\ \A k \in DOMAIN o.writes : Elsewhere(o.writes[k], d)

LEMMA CredSaved ==
  ASSUME NEW o, NEW m, NEW d, OnlyCred(o, m, d), NEW list \in SUBSET Device!Credential
  PROVE  LET p == Device!SaveCred([o EXCEPT !.mem.cred.list = list])
         IN  /\ OnlyCred(p, m, d) /\ p.mem.cred.list = list
             /\ Stored(p.db.svr.cred) = list /\ p.ok = o.ok
<1> DEFINE c == [o.mem.cred EXCEPT !.list = list]
           q == [o EXCEPT !.mem.cred = c]
           p == Device!SaveCred(q)
<1>1. o \in Progress /\ o.mem.cred \in Device!Cred
  BY ProgressParts, MemoryParts DEF OnlyCred
<1>2. c \in Device!Cred /\ c.list = list
  BY <1>1 DEF Device!Cred
<1>3. [o EXCEPT !.mem.cred.list = list] = q
  BY <1>1 DEF Progress, Device!Memory
<1> HIDE DEF c
<1>4. /\ q \in Progress /\ SameFile(q, o)
      /\ Holds(q, o.mem.doxm, o.mem.pstat, o.mem.acl, c, o.mem.static)
  BY <1>1, <1>2, SetCred
<1>5. Device!SaveCred([o EXCEPT !.mem.cred.list = list]) = p
  BY <1>3
<1> HIDE DEF q
<1>6. PICK f : /\ Wrote(p, q, f)
               /\ Has(f, q.db.svr.doxm, q.db.svr.pstat, q.db.svr.acl, f.svr.cred)
               /\ Stored(f.svr.cred) = q.mem.cred.list
  BY <1>4, SavedCred
<1> HIDE DEF p
<1>7. Elsewhere(f, d)
  BY <1>4, <1>6 DEF SameFile, Has, OnlyCred, Elsewhere
<1>8. \A k \in DOMAIN p.writes : Elsewhere(p.writes[k], d)
  <2>1. p.writes = Append(o.writes, f) /\ o.writes \in Seq(Device!Database) /\ f \in Device!Database
    BY <1>1, <1>4, <1>6, <1>7, ProgressParts DEF Wrote, SameFile, Elsewhere
  <2>2. \A k \in DOMAIN Append(o.writes, f) :
          \/ k \in DOMAIN o.writes /\ Append(o.writes, f)[k] = o.writes[k]
          \/ Append(o.writes, f)[k] = f
    BY <2>1, AppendProperties
  <2> QED  BY <1>7, <2>1, <2>2 DEF OnlyCred
<1>9. p \in Progress /\ p.mem = q.mem /\ p.db = f /\ p.ok = q.ok
  BY <1>6 DEF Wrote
<1>10. OnlyCred(p, m, d)
  BY <1>4, <1>7, <1>8, <1>9 DEF OnlyCred, Holds
<1> QED  BY <1>2, <1>4, <1>5, <1>6, <1>9, <1>10 DEF Holds, SameFile

(* A list in which the tool has one credential, with secret k.             *)
One(list, k) == \E x \in list : x.secret = k /\ \A y \in list : y.subject = Obt <=> y = x

LEMMA CredPosted ==
  ASSUME NEW m \in Device!Memory, NEW d \in Device!Database, NEW i \in CredId, NEW k \in Secret
  PROVE  LET o == Device!HandleCredPostRequest(Device!Begin(m, d),
                    [credid |-> i, subject |-> Obt, secret |-> 0], k, Obt)
         IN  /\ OnlyCred(o, m, d)
             /\ \/ o.mem = m /\ o.db = d /\ ~o.ok
                \/ /\ Stored(o.db.svr.cred) = o.mem.cred.list
                   /\ ~m.doxm.owned /\ m.doxm.owner = Obt => One(o.mem.cred.list, k)
<1> DEFINE b == Device!Begin(m, d)
           c == [credid |-> i, subject |-> Obt, secret |-> 0]
           e == [c EXCEPT !.secret = k]
           o == Device!HandleCredPostRequest(b, c, k, Obt)
           s == Device!HandleNewCredential(b, c, k)
<1>1. /\ b \in Progress /\ b.mem = m /\ b.db = d /\ b.writes = << >> /\ b.ok
      /\ m.cred.list \in SUBSET Device!Credential
  <2>1. b \in Progress /\ b.mem = m /\ b.db = d /\ b.writes = << >> /\ b.ok
    BY BeginProgress
  <2>2. m.cred \in Device!Cred
    BY MemoryParts
  <2>3. m.cred.list \in SUBSET Device!Credential
    BY <2>2 DEF Device!Cred
  <2> QED  BY <2>1, <2>3
<1>2. OnlyCred(b, m, d)
  BY <1>1 DEF OnlyCred, Elsewhere
<1>3. /\ c \in Device!Credential /\ e \in Device!Credential
      /\ c.subject = Obt /\ e.subject = Obt /\ e.secret = k /\ c.credid = i /\ e.credid = i /\ i # 0
  <2>1. 0 \in Secret /\ i # 0 /\ Obt \in Uuid
    BY TransfersAssumption, CredIdAssumption, ObtAssumption
  <2> QED  BY <2>1 DEF Device!Credential
<1>4. ASSUME NEW p, OnlyCred(p, m, d), NEW x \in Device!Credential, x.credid = i
      PROVE  LET list == {y \in p.mem.cred.list : y.credid # i} \cup {x}
                 q == Device!SaveNewCredential(p, x)
             IN  OnlyCred(q, m, d) /\ q.mem.cred.list = list /\ Stored(q.db.svr.cred) = list
  <2> DEFINE list == {y \in p.mem.cred.list : y.credid # i} \cup {x}
             q == Device!SaveNewCredential(p, x)
  <2>1. p \in Progress /\ p.mem.cred.list \in SUBSET Device!Credential
    BY <1>4, ProgressParts, MemoryParts DEF OnlyCred, Device!Cred
  <2>2. Device!AddCredential(p.mem.cred.list, x) = list
    BY <1>3, <1>4 DEF Device!AddCredential
  <2>3. list \in SUBSET Device!Credential
    BY <2>1
  <2> HIDE DEF list
  <2>4. q = Device!SaveCred([p EXCEPT !.mem.cred.list = list])
    BY <2>1, <2>2 DEF Device!SaveNewCredential, Progress, Device!Memory
  <2> HIDE DEF q
  <2>5. OnlyCred(q, m, d) /\ q.mem.cred.list = list /\ Stored(q.db.svr.cred) = list
    BY <1>4, <2>3, <2>4, CredSaved
  <2> QED  BY <2>5 DEF q, list
<1> HIDE DEF c, e
<1>5. CASE Device!ReadOnly(m)
  <2>1. o = Device!Refuse(b)
    BY <1>1, <1>5 DEF Device!HandleCredPostRequest
  <2> HIDE DEF b, o
  <2>2. o \in Progress /\ o.mem = m /\ o.db = d /\ o.writes = << >> /\ ~o.ok
    BY <1>1, <2>1, Refused
  <2>3. OnlyCred(o, m, d)
    BY <1>1, <1>2, <2>2 DEF OnlyCred
  <2> QED  BY <2>2, <2>3 DEF b, o, c
<1>6. CASE ~Device!ReadOnly(m)
  <2>1. o = Device!CopyRowner(s, Obt)
    BY <1>1, <1>6 DEF Device!HandleCredPostRequest
  <2>2. /\ OnlyCred(s, m, d) /\ Stored(s.db.svr.cred) = s.mem.cred.list
        /\ ~m.doxm.owned /\ m.doxm.owner = Obt => One(s.mem.cred.list, k)
    <3>1. CASE Device!IsOwnerPsk(m, c)
      <4> DEFINE gone == Device!WithSubject(m.cred.list, Obt)
                 p == Device!RemoveCredential(b, gone)
      <4>1. s = Device!SaveNewCredential(p, e)
        BY <1>1, <1>3, <3>1 DEF Device!HandleNewCredential, e
      <4>2. OnlyCred(p, m, d) /\ p.mem.cred.list = m.cred.list \ gone
        <5>1. CASE gone = {}
          <6>1. p = b
            BY <5>1 DEF Device!RemoveCredential
          <6> QED  BY <1>1, <1>2, <5>1, <6>1
        <5>2. CASE gone # {}
          <6> DEFINE list == m.cred.list \ gone
          <6>1. list \in SUBSET Device!Credential
            BY <1>1
          <6>2. p = Device!SaveCred([b EXCEPT !.mem.cred.list = list])
            BY <1>1, <5>2 DEF Device!RemoveCredential, Progress, Device!Memory
          <6> HIDE DEF list, p, gone
          <6>3. OnlyCred(p, m, d) /\ p.mem.cred.list = list
            BY <1>2, <6>1, <6>2, CredSaved
          <6> QED  BY <6>3 DEF list
        <5> QED  BY <5>1, <5>2
      <4> HIDE DEF p, s
      <4> DEFINE list == {y \in p.mem.cred.list : y.credid # i} \cup {e}
      <4>3. OnlyCred(s, m, d) /\ s.mem.cred.list = list /\ Stored(s.db.svr.cred) = list
        BY <1>3, <1>4, <4>1, <4>2
      <4>4. \A y \in p.mem.cred.list : y.subject # Obt
        BY <4>2 DEF Device!WithSubject
      <4>5. One(list, k)
        <5>1. e \in list /\ e.secret = k /\ \A y \in list : y.subject = Obt <=> y = e
          BY <1>3, <4>4
        <5> QED  BY <5>1 DEF One
      <4> QED  BY <4>3, <4>5
    <3>2. CASE ~Device!IsOwnerPsk(m, c)
      <4>1. s = Device!SaveNewCredential(b, c)
        BY <1>1, <3>2 DEF Device!HandleNewCredential
      <4>2. ~(~m.doxm.owned /\ m.doxm.owner = Obt)
        BY <1>3, <3>2, ObtAssumption DEF Device!IsOwnerPsk
      <4> HIDE DEF s, b
      <4> DEFINE list == {y \in b.mem.cred.list : y.credid # i} \cup {c}
      <4>3. OnlyCred(s, m, d) /\ s.mem.cred.list = list /\ Stored(s.db.svr.cred) = list
        BY <1>2, <1>3, <1>4, <4>1
      <4> QED  BY <4>2, <4>3
    <3> QED  BY <3>1, <3>2
  <2> HIDE DEF s
  <2> DEFINE x == [s.mem.cred EXCEPT !.rowneruuid = Obt]
             p == [s EXCEPT !.mem.cred = x]
  <2>3. s \in Progress /\ s.mem.cred \in Device!Cred
    BY <2>2, ProgressParts, MemoryParts DEF OnlyCred
  <2>4. x \in Device!Cred /\ x.list = s.mem.cred.list
    BY <2>3, ObtAssumption DEF Device!Cred
  <2>5. o = p
    BY <2>1, <2>3 DEF Device!CopyRowner, Progress, Device!Memory
  <2> HIDE DEF x
  <2>6. /\ p \in Progress /\ SameFile(p, s)
        /\ Holds(p, s.mem.doxm, s.mem.pstat, s.mem.acl, x, s.mem.static)
    BY <2>3, <2>4, SetCred
  <2> HIDE DEF p, o
  <2>7. OnlyCred(o, m, d)
    BY <2>2, <2>5, <2>6 DEF OnlyCred, SameFile, Holds
  <2>8. o.mem.cred.list = s.mem.cred.list /\ o.db = s.db
    BY <2>4, <2>5, <2>6 DEF SameFile, Holds
  <2> QED  BY <2>2, <2>7, <2>8 DEF o, b, c
<1> QED  BY <1>5, <1>6

-----------------------------------------------------------------------------
(* The effect of a request in a transfer, as far as the invariant is       *)
(* concerned: what the device keeps, and what its answer may say.          *)
Effect(r, o) ==
  /\ Device!TypeOK' /\ o.ok \in BOOLEAN /\ FileOK' /\ MemOK' /\ OwnedKeyed'
  /\ up' /\ mem.doxm.owner = Obt => mem'.doxm.owner = Obt
  /\ FileOwned(db') => FileOwned(db) \/ (r.op = "owned" /\ devSession = r.n)
  /\ up' /\ KeyInBoth /\ "cred" \notin late' => KeyInBoth'
  /\ Operating /\ r.op # "rfpro" => Operating'
  /\ up' /\ o.ok => /\ r.op = "owner" => mem'.doxm.owner = Obt
                    /\ r.op = "cred" /\ Current(r) /\ "cred" \notin late => KeyInBoth'
                    /\ r.op = "rfnop" => Operating'

(* What a delivery leaves alone, and the requests it counts as late.       *)
Aside(r) == /\ psk' = psk /\ late \subseteq late'
            /\ r.op = "cred" /\ "cred" \notin late' => Current(r)

LEMMA RankFacts ==
  /\ Rank("oxmsel") = 1 /\ Rank("verify") = 2 /\ Rank("pstat") = 3 /\ Rank("om") = 4
  /\ Rank("owner") = 5 /\ Rank("uuid") = 6 /\ Rank("cred") = 7 /\ Rank("acl") = 8
  /\ Rank("owned") = 9 /\ Rank("rowner") = 10 /\ Rank("rfpro") = 11 /\ Rank("rfnop") = 12
BY DEF Rank

LEMMA InvTypes ==
  ASSUME IndInv
  PROVE  /\ mem \in Device!Memory /\ db \in Device!Database /\ up \in BOOLEAN
         /\ mem.doxm \in Device!Doxm /\ mem.pstat \in Device!Pstat
         /\ mem.doxm # None
BY MemoryParts, NoneAssumption DEF IndInv, TypeOK, Device!TypeOK

LEMMA OncePerformed ==
  ASSUME NEW o, Once(o), Device!Perform(o)
  PROVE  mem' = o.mem /\ db' = o.db /\ up' = TRUE /\ o.ok \in BOOLEAN /\ Device!TypeOK'
<1>1. /\ o.mem \in Device!Memory /\ o.db \in Device!Database /\ o.ok \in BOOLEAN
      /\ o.writes \in Seq(Device!Database) /\ Len(o.writes) <= 1
  BY ProgressParts DEF Once
<1>2. 1 .. Len(o.writes) - 1 = {}
  BY <1>1
<1>3. mem' = o.mem /\ db' = o.db /\ up' = TRUE
  BY <1>2 DEF Device!Perform
<1> QED  BY <1>1, <1>3 DEF Device!TypeOK

(* A request that changes neither doxm nor cred.                           *)
LEMMA StateEffect ==
  ASSUME IndInv, up, NEW r, NEW o, Aside(r), r.op \notin {"owner", "cred"},
         Device!TypeOK', o.ok \in BOOLEAN, up' = TRUE,
         mem'.doxm = mem.doxm, mem'.cred = mem.cred,
         db'.svr.doxm = db.svr.doxm, db'.svr.cred = db.svr.cred,
         db'.svr.pstat \in {db.svr.pstat, mem'.pstat},
         mem'.pstat.dos # mem.pstat.dos =>
           r.op \in {"rfpro", "rfnop"} /\ mem'.pstat.dos \in {"RFPRO", "RFNOP"} /\ mem.doxm.owned,
         r.op = "rfnop" => \/ mem'.pstat.dos \in {mem.pstat.dos, "RFNOP"}
                              /\ db'.svr.pstat = db.svr.pstat /\ ~o.ok
                           \/ mem'.pstat.dos = "RFNOP" /\ db'.svr.pstat = mem'.pstat
  PROVE  Effect(r, o)
<1>1. /\ FileOwned(db') <=> FileOwned(db)
      /\ KeyInBoth' <=> KeyInBoth
      /\ mem.pstat \in Device!Pstat /\ mem'.pstat \in Device!Pstat /\ mem'.pstat # None
  <2>1. mem'.pstat \in Device!Pstat
    BY MemoryParts DEF Device!TypeOK
  <2> QED  BY <2>1, InvTypes, NoneAssumption DEF FileOwned, KeyInBoth, Stored, Keyed, Aside
<1>2. /\ FileOK /\ MemOK /\ OwnedKeyed
  BY DEF IndInv
<1>3. mem.doxm.owned <=> FileOwned(db)
  BY <1>2, InvTypes DEF MemOK, FileOwned
<1>4. mem'.pstat.dos # "RFOTM" => mem.doxm.owned
  BY <1>2 DEF MemOK
<1>5. FileOK'
  BY <1>1, <1>2, <1>3, <1>4 DEF FileOK
<1>6. MemOK'
  BY <1>1, <1>2, <1>4 DEF MemOK
<1>7. OwnedKeyed'
  BY <1>1, <1>2 DEF OwnedKeyed, Aside, Stored, Keyed
<1>8. Operating /\ r.op # "rfpro" => Operating'
  BY <1>1 DEF Operating
<1>9. r.op = "rfnop" /\ o.ok => Operating'
  BY <1>1, <1>3, <1>4 DEF Operating
<1> QED  BY <1>1, <1>5, <1>6, <1>7, <1>8, <1>9 DEF Effect

LEMMA QuietEffect ==
  ASSUME IndInv, up, NEW r, NEW otm, NEW o, Aside(r), r.op \in {"verify", "pstat", "uuid"},
         o = Handled(Device!Begin(mem, db), r, otm), Device!Perform(o)
  PROVE  Effect(r, o)
<1>1. o = Device!Begin(mem, db)
  BY DEF Handled
<1>2. o \in Progress /\ o.mem = mem /\ o.db = db /\ o.writes = << >>
  <2>1. mem \in Device!Memory /\ db \in Device!Database
    BY InvTypes
  <2> DEFINE b == Device!Begin(mem, db)
  <2>2. b \in Progress /\ b.mem = mem /\ b.db = db /\ b.writes = << >>
    BY <2>1 DEF Device!Begin, Progress
  <2> QED  BY <1>1, <2>2
<1>3. mem' = mem /\ db' = db /\ up' = TRUE /\ o.ok \in BOOLEAN /\ Device!TypeOK'
  BY <1>2, NoWrites, OncePerformed
<1> QED  BY <1>3, StateEffect

LEMMA AclEffect ==
  ASSUME IndInv, up, NEW r, NEW otm, NEW o, Aside(r), r.op = "acl",
         o = Handled(Device!Begin(mem, db), r, otm), Device!Perform(o)
  PROVE  Effect(r, o)
<1>1. o = Device!HandleACLPostRequest(Device!Begin(mem, db), Obt, FALSE)
  BY DEF Handled
<1>2. Obt \in Uuid /\ mem \in Device!Memory /\ db \in Device!Database
  BY ObtAssumption, InvTypes
<1>3. /\ Once(o) /\ o.mem.doxm = mem.doxm /\ o.mem.pstat = mem.pstat /\ o.mem.cred = mem.cred
      /\ \/ o.db = db
         \/ Has(o.db, db.svr.doxm, db.svr.pstat, o.db.svr.acl, db.svr.cred)
  <2> DEFINE h == Device!HandleACLPostRequest(Device!Begin(mem, db), Obt, FALSE)
  <2>1. /\ Once(h) /\ h.mem.doxm = mem.doxm /\ h.mem.pstat = mem.pstat /\ h.mem.cred = mem.cred
        /\ \/ h.db = db
           \/ Has(h.db, db.svr.doxm, db.svr.pstat, h.db.svr.acl, db.svr.cred)
    BY <1>2, AclPosted, Zenon
  <2> QED  BY <1>1, <2>1
<1>4. mem' = o.mem /\ db' = o.db /\ up' = TRUE /\ o.ok \in BOOLEAN /\ Device!TypeOK'
  BY <1>3, OncePerformed
<1> QED  BY <1>3, <1>4, StateEffect DEF Has

LEMMA PstatEffect ==
  ASSUME IndInv, up, NEW r, NEW otm, NEW o, Aside(r), r.op \in {"om", "rowner", "rfpro", "rfnop"},
         o = Handled(Device!Begin(mem, db), r, otm), Device!Perform(o)
  PROVE  Effect(r, o)
<1>1. PICK p : /\ o = Device!HandlePstatPostRequest(Device!Begin(mem, db), p)
               /\ "rowneruuid" \in DOMAIN p => p.rowneruuid \in Uuid
               /\ "dos" \in DOMAIN p => p.dos \in {"RFPRO", "RFNOP"} /\ r.op \in {"rfpro", "rfnop"}
               /\ r.op = "rfnop" => "dos" \in DOMAIN p /\ p.dos = "RFNOP"
  <2>1. CASE r.op = "om"
    <3>1. o = Device!HandlePstatPostRequest(Device!Begin(mem, db), [om |-> "client"])
      BY <2>1 DEF Handled
    <3> QED  BY <2>1, <3>1
  <2>2. CASE r.op = "rowner"
    <3>1. o = Device!HandlePstatPostRequest(Device!Begin(mem, db), [rowneruuid |-> Obt])
      BY <2>2 DEF Handled
    <3> QED  BY <2>2, <3>1, ObtAssumption
  <2>3. CASE r.op = "rfpro"
    <3>1. o = Device!HandlePstatPostRequest(Device!Begin(mem, db), [dos |-> "RFPRO", tm |-> 0])
      BY <2>3 DEF Handled
    <3> QED  BY <2>3, <3>1
  <2>4. CASE r.op = "rfnop"
    <3>1. o = Device!HandlePstatPostRequest(Device!Begin(mem, db), [dos |-> "RFNOP"])
      BY <2>4 DEF Handled
    <3> QED  BY <2>4, <3>1
  <2> QED  BY <2>1, <2>2, <2>3, <2>4
<1>2. /\ Once(o) /\ o.mem.doxm = mem.doxm /\ o.mem.cred = mem.cred
      /\ \/ o.mem.pstat.dos = mem.pstat.dos
         \/ "dos" \in DOMAIN p /\ o.mem.pstat.dos = p.dos /\ mem.doxm.owned
      /\ \/ o.db = db /\ ~o.ok
         \/ /\ "dos" \in DOMAIN p => o.mem.pstat.dos = p.dos
            /\ Has(o.db, db.svr.doxm, o.mem.pstat, db.svr.acl, db.svr.cred)
  BY <1>1, InvTypes, PstatPosted
<1>3. mem' = o.mem /\ db' = o.db /\ up' = TRUE /\ o.ok \in BOOLEAN /\ Device!TypeOK'
  BY <1>2, OncePerformed
<1>4. /\ db'.svr.doxm = db.svr.doxm /\ db'.svr.cred = db.svr.cred
      /\ db'.svr.pstat \in {db.svr.pstat, mem'.pstat}
  BY <1>2, <1>3 DEF Has
<1>5. mem'.pstat.dos # mem.pstat.dos =>
        r.op \in {"rfpro", "rfnop"} /\ mem'.pstat.dos \in {"RFPRO", "RFNOP"} /\ mem.doxm.owned
  BY <1>1, <1>2, <1>3
<1>6. r.op = "rfnop" => \/ mem'.pstat.dos \in {mem.pstat.dos, "RFNOP"}
                           /\ db'.svr.pstat = db.svr.pstat /\ ~o.ok
                        \/ mem'.pstat.dos = "RFNOP" /\ db'.svr.pstat = mem'.pstat
  BY <1>1, <1>2, <1>3 DEF Has
<1> QED  BY <1>2, <1>3, <1>4, <1>5, <1>6, StateEffect

(* The properties of a doxm request, merged into doxm.                     *)
LEMMA MergesNothing ==
  ASSUME NEW x \in Device!Doxm
  PROVE  Device!Update(x, [oxmsel |-> "justworks"]) = x
BY DEF Device!Update, Device!Doxm

LEMMA MergesOwner ==
  ASSUME NEW x \in Device!Doxm
  PROVE  LET y == Device!Update(x, [owner |-> Obt])
         IN  y \in Device!Doxm /\ y.owned = x.owned /\ y.owner = Obt
BY ObtAssumption DEF Device!Update, Device!Doxm

LEMMA MergesOwned ==
  ASSUME NEW x \in Device!Doxm
  PROVE  LET y == Device!Update(x, [owned |-> TRUE, rowneruuid |-> Obt])
         IN  y \in Device!Doxm /\ y.owned = TRUE /\ y.owner = x.owner
BY ObtAssumption DEF Device!Update, Device!Doxm

(* A request that changes doxm: only owned makes an owner, of a device     *)
(* that has been named one and has its key.                                *)
LEMMA OwnerEffect ==
  ASSUME IndInv, up, NEW r, NEW o, Aside(r), r.op \in {"oxmsel", "owner", "owned"},
         Device!TypeOK', o.ok \in BOOLEAN, up' = TRUE,
         mem'.pstat = mem.pstat, mem'.cred = mem.cred,
         db'.svr.pstat = db.svr.pstat, db'.svr.cred = db.svr.cred,
         mem'.doxm.owned => db'.svr.doxm = mem'.doxm /\ mem'.doxm.owner = Obt,
         ~mem'.doxm.owned => db'.svr.doxm \in {db.svr.doxm, mem'.doxm},
         mem.doxm.owned => mem'.doxm.owned,
         mem'.doxm.owned /\ ~mem.doxm.owned =>
           r.op = "owned" /\ devSession = r.n /\ ("cred" \notin late => KeyInBoth),
         mem.doxm.owner = Obt => mem'.doxm.owner = Obt,
         o.ok /\ r.op = "owner" => mem'.doxm.owner = Obt
  PROVE  Effect(r, o)
<1>1. mem'.doxm \in Device!Doxm /\ mem'.doxm # None
  BY MemoryParts, NoneAssumption DEF Device!TypeOK
<1>2. /\ FileOK /\ MemOK /\ OwnedKeyed
  BY DEF IndInv
<1>3. mem.doxm.owned <=> FileOwned(db)
  BY <1>2, InvTypes DEF MemOK, FileOwned
<1>4. mem'.doxm.owned <=> FileOwned(db')
  BY <1>1, <1>3 DEF FileOwned
<1>5. KeyInBoth' <=> KeyInBoth
  BY DEF KeyInBoth, Stored, Keyed, Aside
<1>6. FileOK'
  BY <1>2, <1>3, <1>4 DEF FileOK
<1>7. MemOK'
  BY <1>2, <1>4 DEF MemOK
<1>8. OwnedKeyed'
  <2> SUFFICES ASSUME FileOwned(db'), "cred" \notin late'  PROVE KeyInBoth'
    BY DEF OwnedKeyed, KeyInBoth
  <2>1. "cred" \notin late
    BY DEF Aside
  <2>2. CASE FileOwned(db)
    BY <1>2, <1>5, <2>1, <2>2 DEF OwnedKeyed, KeyInBoth
  <2>3. CASE ~FileOwned(db)
    BY <1>3, <1>4, <1>5, <2>1, <2>3
  <2> QED  BY <2>2, <2>3
<1>9. Operating => Operating'
  BY <1>3, <1>4 DEF Operating
<1>10. FileOwned(db') => FileOwned(db) \/ (r.op = "owned" /\ devSession = r.n)
  BY <1>3, <1>4
<1> QED  BY <1>5, <1>6, <1>7, <1>8, <1>9, <1>10 DEF Effect

LEMMA DoxmEffect ==
  ASSUME IndInv, up, NEW r \in net, NEW otm, NEW o, Aside(r), Readable(r),
         r.op \in {"oxmsel", "owner", "owned"},
         o = Handled(Device!Begin(mem, db), r, otm), Device!Perform(o)
  PROVE  Effect(r, o)
<1>1. PICK p : /\ o = Device!HandleDoxmPostRequest(Device!Begin(mem, db), p, otm)
               /\ ~(DOMAIN p \subseteq {"rowneruuid"})
               /\ r.op = "oxmsel" => p = [oxmsel |-> "justworks"]
               /\ r.op = "owner" => p = [owner |-> Obt]
               /\ r.op = "owned" => p = [owned |-> TRUE, rowneruuid |-> Obt]
  <2>1. CASE r.op = "oxmsel"
    <3>1. o = Device!HandleDoxmPostRequest(Device!Begin(mem, db), [oxmsel |-> "justworks"], otm)
      BY <2>1 DEF Handled
    <3> QED  BY <2>1, <3>1
  <2>2. CASE r.op = "owner"
    <3>1. o = Device!HandleDoxmPostRequest(Device!Begin(mem, db), [owner |-> Obt], otm)
      BY <2>2 DEF Handled
    <3> QED  BY <2>2, <3>1
  <2>3. CASE r.op = "owned"
    <3>1. o = Device!HandleDoxmPostRequest(Device!Begin(mem, db),
                [owned |-> TRUE, rowneruuid |-> Obt], otm)
      BY <2>3 DEF Handled
    <3> QED  BY <2>3, <3>1
  <2> QED  BY <2>1, <2>2, <2>3
<1> DEFINE x == Device!Update(mem.doxm, p)
<1>2. mem.doxm.owned <=> FileOwned(db)
  BY InvTypes DEF IndInv, MemOK, FileOwned
<1>3. mem.doxm.owned => db.svr.doxm = mem.doxm /\ mem.doxm.owner = Obt
  BY <1>2 DEF IndInv, MemOK, FileOK
<1>4. r.op = "owned" => /\ devSession = r.n /\ mem.doxm.owner = Obt
                        /\ "cred" \notin late => KeyInBoth
  BY RankFacts DEF Readable, IndInv, Followed
<1>5. /\ x \in Device!Doxm /\ (mem.doxm.owned => x.owned)
      /\ x.owned /\ ~mem.doxm.owned => r.op = "owned"
      /\ mem.doxm.owner = Obt => x.owner = Obt
      /\ r.op = "owner" => x.owner = Obt
  <2>1. CASE r.op = "oxmsel"
    BY <1>1, <2>1, InvTypes, MergesNothing
  <2>2. CASE r.op = "owner"
    BY <1>1, <2>2, InvTypes, MergesOwner
  <2>3. CASE r.op = "owned"
    BY <1>1, <2>3, InvTypes, MergesOwned
  <2> QED  BY <2>1, <2>2, <2>3
<1>6. x.owned => x.owner = Obt /\ x.owner # Nil
  BY <1>3, <1>4, <1>5, ObtAssumption
<1> HIDE DEF x
<1>7. /\ Once(o)
      /\ \/ o.mem = mem /\ o.db = db /\ ~o.ok
         \/ /\ o.mem.doxm = x /\ o.mem.pstat = mem.pstat /\ o.mem.cred = mem.cred
            /\ \/ (x.owner = Nil \/ ~x.owned) /\ o.db = db /\ ~o.ok
               \/ Has(o.db, x, db.svr.pstat, db.svr.acl, db.svr.cred)
  <2> DEFINE h == Device!HandleDoxmPostRequest(Device!Begin(mem, db), p, otm)
  <2>1. /\ mem \in Device!Memory /\ db \in Device!Database /\ x = Device!Update(mem.doxm, p)
        /\ x \in Device!Doxm /\ ~(DOMAIN p \subseteq {"rowneruuid"})
    BY <1>1, <1>5, InvTypes DEF x
  <2>2. /\ Once(h)
        /\ \/ h.mem = mem /\ h.db = db /\ ~h.ok
           \/ /\ mem.pstat.dos = "RFOTM"
              /\ h.mem.doxm = x /\ h.mem.pstat = mem.pstat /\ h.mem.cred = mem.cred
              /\ \/ (x.owner = Nil \/ ~x.owned) /\ h.db = db /\ ~h.ok
                 \/ Has(h.db, x, db.svr.pstat, db.svr.acl, db.svr.cred)
    BY <2>1, DoxmPosted
  <2> QED  BY <1>1, <2>2
<1>8. mem' = o.mem /\ db' = o.db /\ up' = TRUE /\ o.ok \in BOOLEAN /\ Device!TypeOK'
  BY <1>7, OncePerformed
<1>9. CASE o.mem = mem /\ o.db = db /\ ~o.ok
  BY <1>2, <1>3, <1>8, <1>9, OwnerEffect
<1>10. CASE /\ o.mem.doxm = x /\ o.mem.pstat = mem.pstat /\ o.mem.cred = mem.cred
            /\ \/ ~x.owned /\ o.db = db /\ ~o.ok
               \/ Has(o.db, x, db.svr.pstat, db.svr.acl, db.svr.cred)
  <2>1. /\ mem'.doxm = x /\ mem'.pstat = mem.pstat /\ mem'.cred = mem.cred
        /\ db'.svr.pstat = db.svr.pstat /\ db'.svr.cred = db.svr.cred
        /\ x.owned => db'.svr.doxm = x
        /\ db'.svr.doxm \in {db.svr.doxm, x}
    BY <1>8, <1>10 DEF Has
  <2> QED  BY <1>4, <1>5, <1>6, <1>8, <2>1, OwnerEffect
<1> QED  BY <1>6, <1>7, <1>9, <1>10

LEMMA CredEffect ==
  ASSUME IndInv, up, NEW r \in net, NEW otm, NEW o, Aside(r), Readable(r), r.op = "cred",
         o = Handled(Device!Begin(mem, db), r, otm), Device!Perform(o)
  PROVE  Effect(r, o)
<1>1. /\ IndInv /\ mem \in Device!Memory /\ db \in Device!Database
      /\ FileOK /\ MemOK /\ OwnedKeyed
  BY InvTypes DEF IndInv
<1>2. r.arg \in CredId /\ r.n \in Secret /\ devSession = r.n
  <2>1. r \in Request
    BY DEF IndInv, TypeOK
  <2>2. r.n \in Secret
    BY <2>1, TransfersAssumption DEF Request
  <2> QED  BY <2>2 DEF IndInv, SentOK, Readable
<1>3. /\ OnlyCred(o, mem, db)
      /\ \/ o.mem = mem /\ o.db = db /\ ~o.ok
         \/ /\ Stored(o.db.svr.cred) = o.mem.cred.list
            /\ ~mem.doxm.owned /\ mem.doxm.owner = Obt => One(o.mem.cred.list, r.n)
  <2> DEFINE h == Device!HandleCredPostRequest(Device!Begin(mem, db),
                    [credid |-> r.arg, subject |-> Obt, secret |-> 0], r.n, Obt)
  <2>1. o = h
    BY DEF Handled
  <2>2. /\ OnlyCred(h, mem, db)
        /\ \/ h.mem = mem /\ h.db = db /\ ~h.ok
           \/ /\ Stored(h.db.svr.cred) = h.mem.cred.list
              /\ ~mem.doxm.owned /\ mem.doxm.owner = Obt => One(h.mem.cred.list, r.n)
    BY <1>1, <1>2, CredPosted, Zenon
  <2> HIDE DEF h
  <2> QED  BY <2>1, <2>2
<1>4. mem.doxm.owned <=> FileOwned(db)
  BY <1>1, InvTypes DEF MemOK, FileOwned
<1>5. psk' = psk /\ late \subseteq late' /\ ("cred" \notin late' => Current(r))
  BY DEF Aside
<1>6. Current(r) => /\ ~FileOwned(db) /\ mem.doxm.owner = Obt
                    /\ psk # None /\ psk.key = r.n
  <2> SUFFICES ASSUME Current(r)
               PROVE  ~FileOwned(db) /\ mem.doxm.owner = Obt /\ psk # None /\ psk.key = r.n
    OBVIOUS
  <2>1. step = "cred" /\ r.n = n /\ step \in Op
    BY DEF Current, Op
  <2>2. Rank(step) >= Rank("pstat") /\ Rank(step) \in Rank("pstat") .. Rank("acl")
    BY <2>1, RankFacts
  <2>3. Verified /\ Followed
    BY DEF IndInv
  <2>4. mem.doxm.owner = Obt
    BY <1>2, <2>3, RankFacts DEF Followed
  <2> QED  BY <2>1, <2>2, <2>3, <2>4 DEF Verified
<1>7. CASE mem' = o.mem /\ db' = o.db /\ up' = TRUE
  <2>1. /\ Device!TypeOK' /\ o.ok \in BOOLEAN
        /\ mem'.doxm = mem.doxm /\ mem'.pstat = mem.pstat
        /\ db'.svr.doxm = db.svr.doxm /\ db'.svr.pstat = db.svr.pstat
    BY <1>3, <1>7, ProgressParts DEF OnlyCred, Elsewhere, Device!TypeOK
  <2>2. FileOwned(db') <=> FileOwned(db)
    BY <2>1 DEF FileOwned
  <2>3. FileOK' /\ MemOK' /\ (Operating => Operating')
    BY <1>1, <1>4, <2>1, <2>2 DEF FileOK, MemOK, Operating
  <2>4. "cred" \notin late' /\ ~(mem' = mem /\ db' = db) => KeyInBoth'
    <3> SUFFICES ASSUME "cred" \notin late', ~(mem' = mem /\ db' = db)  PROVE KeyInBoth'
      OBVIOUS
    <3>1. /\ Stored(o.db.svr.cred) = o.mem.cred.list /\ One(o.mem.cred.list, r.n)
          /\ psk # None /\ psk.key = r.n
      BY <1>3, <1>4, <1>5, <1>6, <1>7
    <3>2. Keyed(o.mem.cred.list, psk)
      BY <3>1 DEF One, Keyed
    <3> QED  BY <1>5, <1>7, <3>1, <3>2 DEF KeyInBoth
  <2>5. mem' = mem /\ db' = db => (KeyInBoth' <=> KeyInBoth)
    BY <1>5 DEF KeyInBoth, Keyed, Stored
  <2>6. OwnedKeyed'
    <3>1. CASE mem' = mem /\ db' = db
      <4>1. FileOwned(db) /\ "cred" \notin late => KeyInBoth
        BY <1>1 DEF OwnedKeyed, KeyInBoth
      <4>2. FileOwned(db') /\ "cred" \notin late' => KeyInBoth'
        BY <1>5, <2>2, <2>5, <3>1, <4>1
      <4> QED  BY <4>2 DEF OwnedKeyed, KeyInBoth
    <3>2. CASE ~(mem' = mem /\ db' = db)
      BY <2>4, <3>2 DEF OwnedKeyed, KeyInBoth
    <3> QED  BY <3>1, <3>2
  <2>7. o.ok /\ Current(r) /\ "cred" \notin late => KeyInBoth'
    <3> SUFFICES ASSUME o.ok, Current(r)  PROVE KeyInBoth'
      OBVIOUS
    <3>1. /\ Stored(o.db.svr.cred) = o.mem.cred.list /\ One(o.mem.cred.list, r.n)
          /\ psk # None /\ psk.key = r.n
      BY <1>3, <1>4, <1>6
    <3>2. Keyed(o.mem.cred.list, psk)
      BY <3>1 DEF One, Keyed
    <3> QED  BY <1>5, <1>7, <3>1, <3>2 DEF KeyInBoth
  <2>8. KeyInBoth /\ "cred" \notin late' => KeyInBoth'
    BY <2>4, <2>5
  <2> QED  BY <2>1, <2>2, <2>3, <2>6, <2>7, <2>8 DEF Effect
<1>8. CASE \E k \in 1 .. Len(o.writes) - 1 :
             mem' = Device!Fresh /\ db' = o.writes[k] /\ up' = FALSE
  <2>1. PICK k \in 1 .. Len(o.writes) - 1 :
               mem' = Device!Fresh /\ db' = o.writes[k] /\ up' = FALSE
    BY <1>8
  <2>2. o.writes \in Seq(Device!Database) /\ o.ok \in BOOLEAN
    BY <1>3, ProgressParts DEF OnlyCred
  <2>3. k \in DOMAIN o.writes
    BY <2>2
  <2>4. Elsewhere(db', db)
    BY <1>3, <2>1, <2>3 DEF OnlyCred
  <2>5. FileOwned(db') <=> FileOwned(db)
    BY <2>4 DEF FileOwned, Elsewhere
  <2>6. Device!TypeOK' /\ FileOK' /\ MemOK'
    BY <1>1, <2>1, <2>4, <2>5, FreshType DEF Device!TypeOK, FileOK, MemOK, Elsewhere
  <2>7. OwnedKeyed'
    BY <1>5, <1>6, <2>5 DEF OwnedKeyed
  <2>8. Operating => Operating'
    BY <2>1, <2>4, <2>5 DEF Operating, Elsewhere
  <2> QED  BY <2>1, <2>2, <2>5, <2>6, <2>7, <2>8 DEF Effect
<1> QED  BY <1>7, <1>8 DEF Device!Perform

-----------------------------------------------------------------------------
(* Every action keeps the invariant.                                       *)
LEMMA NetTypes ==
  ASSUME IndInv, NEW r \in net
  PROVE  /\ r.n \in 1 .. MaxTransfers /\ r.op \in Op /\ r.n <= n /\ r.n # 0
         /\ n \in Nat /\ devSession \in 0 .. n
         /\ r.n = n /\ step # "idle" => Rank(r.op) <= Rank(step)
<1>1. r \in Request /\ n \in 0 .. MaxTransfers /\ devSession \in 0 .. n /\ SentOK
  BY DEF IndInv, TypeOK
<1> QED  BY <1>1, TransfersAssumption DEF Request, SentOK

LEMMA Effects ==
  ASSUME IndInv, up, NEW r \in net, NEW otm, NEW o, Readable(r),
         o = Handled(Device!Begin(mem, db), r, otm), Concluded(r, o)
  PROVE  Effect(r, o)
<1>1. Aside(r) /\ Device!Perform(o)
  BY DEF Concluded, Aside
<1>2. CASE r.op \in {"verify", "pstat", "uuid"}
  BY <1>1, <1>2, QuietEffect
<1>3. CASE r.op = "acl"
  BY <1>1, <1>3, AclEffect
<1>4. CASE r.op \in {"om", "rowner", "rfpro", "rfnop"}
  BY <1>1, <1>4, PstatEffect
<1>5. CASE r.op \in {"oxmsel", "owner", "owned"}
  BY <1>1, <1>5, DoxmEffect
<1>6. CASE r.op = "cred"
  BY <1>1, <1>6, CredEffect
<1> QED  BY <1>2, <1>3, <1>4, <1>5, <1>6, NetTypes DEF Op

LEMMA DeliverKeeps ==
  ASSUME IndInv, up, NEW r \in net, NEW otm, Deliver(r, otm)
  PROVE  IndInv'
<1> DEFINE o == Handled(Device!Begin(mem, db), r, otm)
<1>1. Readable(r) /\ Concluded(r, o) /\ Effect(r, o)
  BY Effects DEF Deliver
<1> HIDE DEF o
<1>2. /\ n' = n /\ step' = step /\ waiting' = waiting /\ local' = local /\ psk' = psk
      /\ pdm' = pdm /\ net' = net /\ result' = result
  BY <1>1 DEF Concluded
<1>3. TypeOK /\ SentOK /\ Followed /\ Verified /\ Answered /\ Finished
  BY DEF IndInv
<1>4. /\ Device!TypeOK' /\ o.ok \in BOOLEAN /\ FileOK' /\ MemOK' /\ OwnedKeyed'
      /\ up' /\ mem.doxm.owner = Obt => mem'.doxm.owner = Obt
      /\ FileOwned(db') => FileOwned(db) \/ (r.op = "owned" /\ devSession = r.n)
      /\ up' /\ KeyInBoth /\ "cred" \notin late' => KeyInBoth'
      /\ Operating /\ r.op # "rfpro" => Operating'
      /\ up' /\ o.ok => /\ r.op = "owner" => mem'.doxm.owner = Obt
                        /\ r.op = "cred" /\ Current(r) /\ "cred" \notin late => KeyInBoth'
                        /\ r.op = "rfnop" => Operating'
  BY <1>1 DEF Effect
<1>5. /\ late \subseteq late'
      /\ late' \subseteq late \cup {"cred", "rfpro"}
      /\ r.op = "rfpro" /\ late' = {} => Current(r)
  BY <1>1 DEF Concluded
<1>6. \/ ~up' /\ devSession' = 0
      \/ up' /\ devSession' = devSession
      \/ up' /\ devSession' = n /\ r.op = "verify" /\ Current(r)
  BY <1>1 DEF Concluded, Readable, Current
<1>7. \/ answer' = answer
      \/ /\ answer = None /\ Current(r) /\ up'
         /\ answer' = [ok |-> o.ok, doxm |-> mem'.doxm, takeOwner |-> mem'.pstat.takeOwner]
  BY <1>1 DEF Concluded
<1>8. /\ r.n \in 1 .. MaxTransfers /\ r.op \in Op /\ r.n <= n /\ r.n # 0
      /\ n \in Nat /\ devSession \in 0 .. n
      /\ r.n = n /\ step # "idle" => Rank(r.op) <= Rank(step)
  BY NetTypes
<1>9. TypeOK'
  <2>1. open' \in BOOLEAN
    BY <1>1, <1>3, <1>4 DEF Concluded, TypeOK, Device!TypeOK
  <2>2. devSession' \in 0 .. n'
    BY <1>2, <1>6, <1>8
  <2>3. answer' \in Answer \cup {None}
    <3>1. mem'.doxm \in Device!Doxm /\ mem'.pstat.takeOwner \in BOOLEAN
      BY <1>4, MemoryParts DEF Device!TypeOK, Device!Pstat
    <3> QED  BY <1>3, <1>4, <1>7, <3>1 DEF TypeOK, Answer
  <2>4. late' \subseteq {"cred", "rfpro"}
    BY <1>3, <1>5 DEF TypeOK
  <2> QED  BY <1>2, <1>3, <1>4, <2>1, <2>2, <2>3, <2>4 DEF TypeOK
<1>10. SessionOK'
  BY <1>6 DEF SessionOK
<1>11. SentOK'
  BY <1>2, <1>3, <1>7 DEF SentOK, Current
<1>12. Followed'
  <2> SUFFICES ASSUME NEW q \in net, q.n = devSession'
               PROVE  /\ Rank(q.op) >= Rank("uuid") => mem'.doxm.owner = Obt
                      /\ Rank(q.op) >= Rank("acl") /\ "cred" \notin late' => KeyInBoth'
    BY <1>2 DEF Followed
  <2>1. q.n # 0 /\ q.op \in Op /\ (q.n = n /\ step # "idle" => Rank(q.op) <= Rank(step))
    BY NetTypes
  <2>2. CASE up' /\ devSession' = devSession
    BY <1>3, <1>4, <1>5, <2>2 DEF Followed
  <2>3. CASE devSession' = n /\ r.op = "verify" /\ Current(r)
    <3>1. step = "verify" /\ q.n = n
      BY <2>3 DEF Current
    <3>2. q.op \in {"oxmsel", "verify"}
      BY <2>1, <3>1, RankFacts DEF Op
    <3> QED  BY <3>2, RankFacts
  <2> QED  BY <1>6, <2>1, <2>2, <2>3
<1>13. ASSUME FileOwned(db'), ~FileOwned(db), devSession \in {0, n}, step # "idle"
       PROVE  Rank(step) >= 9
  BY <1>4, <1>8, <1>13, RankFacts
<1>14. Verified'
  <2>1. step \in Op /\ Rank(step) >= Rank("pstat") => devSession' \in {0, n}
    BY <1>3, <1>6 DEF Verified
  <2>2. ASSUME step \in Op, Rank(step) \in Rank("pstat") .. Rank("acl")  PROVE ~FileOwned(db')
    <3>1. ~FileOwned(db) /\ step # "idle" /\ Rank(step) <= 8 /\ Rank(step) >= Rank("pstat")
      BY <1>3, <2>2, RankFacts DEF Verified, Op
    <3>2. devSession \in {0, n}
      BY <1>3, <2>2, <3>1 DEF Verified
    <3> QED  BY <1>13, <2>2, <3>1, <3>2, RankFacts
  <2> QED  BY <1>2, <1>3, <2>1, <2>2 DEF Verified
<1>15. Answered'
  <2> SUFFICES ASSUME answer' # None
               PROVE  /\ step = "verify" => /\ devSession' \in {0, n}
                                            /\ ~answer'.doxm.owned => ~FileOwned(db')
                      /\ devSession' = n /\ answer'.ok =>
                           /\ step = "owner" => mem'.doxm.owner = Obt
                           /\ step = "cred" /\ "cred" \notin late' => KeyInBoth'
    BY <1>2 DEF Answered
  <2>1. CASE answer' = answer
    <3>1. step # "idle" /\ n # 0
      BY <1>3, <1>8, <2>1 DEF SentOK
    <3>2. ASSUME step = "verify"
          PROVE  devSession' \in {0, n} /\ (~answer'.doxm.owned => ~FileOwned(db'))
      <4>1. devSession \in {0, n} /\ (~answer.doxm.owned => ~FileOwned(db))
        BY <1>3, <2>1, <3>2 DEF Answered
      <4> QED  BY <1>6, <1>13, <2>1, <3>1, <3>2, <4>1, RankFacts
    <3>3. ASSUME devSession' = n, answer'.ok
          PROVE  /\ step = "owner" => mem'.doxm.owner = Obt
                 /\ step = "cred" /\ "cred" \notin late' => KeyInBoth'
      <4>1. CASE up' /\ devSession' = devSession
        BY <1>3, <1>4, <1>5, <2>1, <3>3, <4>1 DEF Answered
      <4>2. CASE step = "verify"
        BY <4>2
      <4> QED  BY <1>6, <3>1, <3>3, <4>1, <4>2 DEF Current
    <3> QED  BY <3>2, <3>3
  <2>2. CASE /\ answer = None /\ Current(r) /\ up'
             /\ answer' = [ok |-> o.ok, doxm |-> mem'.doxm, takeOwner |-> mem'.pstat.takeOwner]
    <3>1. r.n = n /\ r.op = step /\ answer'.ok = o.ok /\ answer'.doxm = mem'.doxm
      BY <2>2 DEF Current
    <3>2. ASSUME step = "verify"
          PROVE  devSession' \in {0, n} /\ (~answer'.doxm.owned => ~FileOwned(db'))
      <4>1. devSession' = n
        BY <1>1, <2>2, <3>1, <3>2 DEF Concluded
      <4> QED  BY <1>4, <2>2, <3>1, <4>1 DEF MemOK
    <3> QED  BY <1>4, <1>5, <2>2, <3>1, <3>2
  <2> QED  BY <1>7, <2>1, <2>2
<1>16. Finished'
  <2> SUFFICES ASSUME Succeeded', late' = {}  PROVE Operating'
    BY DEF Finished
  <2>1. CASE Succeeded
    <3>1. late = {} /\ step # "rfpro"
      BY <1>3, <1>5, <2>1 DEF Succeeded, SentOK
    <3>2. r.op # "rfpro"
      BY <1>5, <3>1 DEF Current
    <3> QED  BY <1>3, <1>4, <2>1, <3>1, <3>2 DEF Finished
  <2>2. CASE ~Succeeded
    <3>1. step = "rfnop" /\ answer'.ok /\ answer' # answer
      BY <1>2, <2>2 DEF Succeeded
    <3> QED  BY <1>4, <1>7, <3>1 DEF Current
  <2> QED  BY <2>1, <2>2
<1> QED  BY <1>4, <1>9, <1>10, <1>11, <1>12, <1>14, <1>15, <1>16 DEF IndInv

(* The device starts or stops: its session is gone.                        *)
LEMMA DeviceAlone ==
  ASSUME IndInv, UNCHANGED <<tool, late>>, Device!TypeOK', FileOK', MemOK', OwnedKeyed',
         open' \in BOOLEAN, devSession' = 0, FileOwned(db') <=> FileOwned(db),
         Operating => Operating'
  PROVE  IndInv'
<1>1. /\ n' = n /\ step' = step /\ waiting' = waiting /\ local' = local /\ psk' = psk
      /\ pdm' = pdm /\ net' = net /\ answer' = answer /\ result' = result /\ late' = late
  BY DEF tool
<1>2. TypeOK /\ SentOK /\ Verified /\ Answered /\ Finished
  BY DEF IndInv
<1>3. \A r \in net : r.n # 0
  BY NetTypes
<1>4. TypeOK'
  BY <1>1, <1>2 DEF TypeOK
<1>5. SessionOK' /\ SentOK'
  BY <1>1, <1>2 DEF SessionOK, SentOK
<1>6. Followed'
  BY <1>1, <1>3 DEF Followed
<1>7. Verified'
  BY <1>1, <1>2 DEF Verified
<1>8. Answered'
  <2>1. answer # None => n # 0
    BY <1>2, <1>3 DEF SentOK
  <2> QED  BY <1>1, <1>2, <2>1 DEF Answered
<1>9. Finished'
  BY <1>1, <1>2 DEF Finished, Succeeded
<1> QED  BY <1>4, <1>5, <1>6, <1>7, <1>8, <1>9 DEF IndInv

LEMMA OffKeeps ==
  ASSUME IndInv, DeviceOff
  PROVE  IndInv'
<1>1. /\ up' = FALSE /\ mem' = Device!Fresh /\ db' = db /\ open' = FALSE /\ devSession' = 0
      /\ UNCHANGED <<tool, late>>
  BY DEF DeviceOff, Device!PowerOff
<1>2. db \in Device!Database /\ FileOK /\ OwnedKeyed /\ psk' = psk /\ late' = late
  BY <1>1, InvTypes DEF IndInv, tool
<1>3. Device!TypeOK'
  BY <1>1, <1>2, FreshType DEF Device!TypeOK
<1>4. FileOK' /\ MemOK' /\ (Operating => Operating')
  BY <1>1, <1>2 DEF FileOK, MemOK, FileOwned, Operating
<1>5. OwnedKeyed'
  BY <1>1, <1>2 DEF OwnedKeyed, Keyed, Stored, FileOwned
<1> QED  BY <1>1, <1>3, <1>4, <1>5, DeviceAlone

LEMMA StartKeeps ==
  ASSUME IndInv, DeviceStart
  PROVE  IndInv'
<1> DEFINE o == Device!InitSecureResources(Device!Begin(Device!Fresh, db))
           p == Device!CreateResetProfile(o)
<1>1. ~up /\ Device!Perform(p) /\ UNCHANGED <<open, devSession, tool, late>>
  BY DEF DeviceStart, Device!Start
<1>2. Loaded(p, db)
  <2>1. Loaded(o, db)
    BY InvTypes, Inits
  <2> HIDE DEF o
  <2> QED  BY <2>1, Profiled
<1> HIDE DEF o, p
<1>3. /\ db \in Device!Database /\ FileOK /\ OwnedKeyed /\ psk' = psk /\ late' = late
      /\ open' \in BOOLEAN /\ devSession' = 0
  BY <1>1, InvTypes DEF IndInv, TypeOK, SessionOK, tool
<1>4. Like(db', db) /\ Device!TypeOK' /\ (up' => mem' = p.mem /\ db' = p.db)
  <2>1. /\ p \in Progress /\ Like(p.db, db) /\ \A k \in DOMAIN p.writes : Like(p.writes[k], db)
        /\ p.mem \in Device!Memory /\ p.writes \in Seq(Device!Database)
    BY <1>2, ProgressParts DEF Loaded, Good
  <2>2. CASE mem' = p.mem /\ db' = p.db /\ up' = TRUE
    BY <2>1, <2>2 DEF Like, Device!TypeOK
  <2>3. CASE \E k \in 1 .. Len(p.writes) - 1 :
               mem' = Device!Fresh /\ db' = p.writes[k] /\ up' = FALSE
    <3>1. PICK k \in 1 .. Len(p.writes) - 1 :
                 mem' = Device!Fresh /\ db' = p.writes[k] /\ up' = FALSE
      BY <2>3
    <3>2. k \in DOMAIN p.writes
      BY <2>1
    <3> QED  BY <2>1, <3>1, <3>2, FreshType DEF Like, Device!TypeOK
  <2> QED  BY <1>1, <2>2, <2>3 DEF Device!Perform
<1>5. /\ FileOwned(db') <=> FileOwned(db)
      /\ FileOwned(db) => db'.svr.doxm.owner = db.svr.doxm.owner
      /\ db'.svr.pstat = db.svr.pstat /\ Stored(db'.svr.cred) = Stored(db.svr.cred)
  BY <1>4 DEF Like
<1>6. up' => /\ mem'.doxm.owned <=> FileOwned(db)
             /\ mem'.doxm.owned => db'.svr.doxm = mem'.doxm
             /\ mem'.pstat = IF db.svr.pstat = None THEN Device!DefaultPstat ELSE db.svr.pstat
             /\ mem'.cred.list = Stored(db.svr.cred)
  BY <1>2, <1>4 DEF Loaded, OwnerLoaded
<1>7. FileOK'
  BY <1>3, <1>5 DEF FileOK
<1>8. MemOK'
  <2>1. up' /\ mem'.pstat.dos # "RFOTM" => FileOwned(db)
    BY <1>3, <1>6 DEF FileOK, Device!DefaultPstat
  <2> QED  BY <1>5, <1>6, <2>1 DEF MemOK
<1>9. OwnedKeyed'
  BY <1>3, <1>5, <1>6 DEF OwnedKeyed, Keyed
<1>10. Operating => Operating'
  BY <1>5, <1>6 DEF Operating
<1> QED  BY <1>1, <1>3, <1>4, <1>5, <1>7, <1>8, <1>9, <1>10, DeviceAlone

(* The tool begins a transfer.                                             *)
LEMMA BeginKeeps ==
  ASSUME IndInv, Begin
  PROVE  IndInv'
<1> DEFINE q == [n |-> n + 1, op |-> "oxmsel", arg |-> 0]
<1>1. /\ up' = up /\ mem' = mem /\ db' = db /\ open' = open /\ devSession' = devSession
      /\ psk' = psk /\ pdm' = pdm /\ late' = late
      /\ n < MaxTransfers /\ n' = n + 1 /\ local' = mem.doxm /\ up /\ ~mem.doxm.owned
      /\ step' = "oxmsel" /\ waiting' = TRUE /\ answer' = None /\ result' = "none"
      /\ net' = net \cup {q}
  BY DEF Begin, device
<1>2. /\ TypeOK /\ FileOK /\ MemOK /\ SessionOK /\ SentOK /\ Followed /\ OwnedKeyed
  BY DEF IndInv
<1>3. n \in Nat /\ devSession \in 0 .. n /\ MaxTransfers \in Nat
  BY <1>2, TransfersAssumption DEF TypeOK
<1>4. q \in Request /\ q.n = n + 1 /\ q.op = "oxmsel"
  BY <1>1, <1>3 DEF Request, Op
<1> HIDE DEF q
<1>5. TypeOK'
  <2>1. Device!TypeOK'
    BY <1>1, <1>2 DEF TypeOK, Device!TypeOK
  <2>2. n' \in 0 .. MaxTransfers /\ devSession' \in 0 .. n' /\ net' \subseteq Request
    BY <1>1, <1>2, <1>3, <1>4 DEF TypeOK
  <2> QED  BY <1>1, <1>2, <2>1, <2>2, InvTypes DEF TypeOK, Op
<1>6. FileOK' /\ MemOK' /\ SessionOK'
  BY <1>1, <1>2 DEF FileOK, MemOK, SessionOK, FileOwned
<1>7. OwnedKeyed'
  BY <1>1, <1>2 DEF OwnedKeyed, Keyed, Stored, FileOwned
<1>8. SentOK'
  <2>1. \A r \in net : r.n \in Nat /\ r.n <= n /\ (r.op = "cred" => r.arg \in CredId)
    BY <1>2, NetTypes DEF SentOK
  <2>2. \A r \in net' : /\ r.n <= n' /\ (r.op = "cred" => r.arg \in CredId)
                        /\ r.n = n' => Rank(r.op) <= Rank(step')
    BY <1>1, <1>3, <1>4, <2>1, RankFacts
  <2> QED  BY <1>1, <1>4, <2>2 DEF SentOK
<1>9. Followed'
  <2>1. q.n # devSession'
    BY <1>1, <1>3, <1>4
  <2> QED  BY <1>1, <1>2, <2>1 DEF Followed, KeyInBoth, Keyed, Stored
<1>10. Verified' /\ Answered' /\ Finished'
  BY <1>1, RankFacts DEF Verified, Answered, Finished, Succeeded
<1> QED  BY <1>5, <1>6, <1>7, <1>8, <1>9, <1>10 DEF IndInv

(* At step uuid the device is not owned and has not been asked to take a   *)
(* credential in this session: the tool may change its key.                *)
LEMMA KeyIsFree ==
  ASSUME IndInv, step = "uuid"
  PROVE  /\ ~FileOwned(db)
         /\ \A r \in net : r.n = devSession => Rank(r.op) < Rank("acl")
<1>1. Verified /\ step \in Op
  BY DEF IndInv, Op
<1>2. ~FileOwned(db) /\ devSession \in {0, n}
  BY <1>1, RankFacts DEF Verified
<1>3. \A r \in net : r.n = devSession => r.op \in Op /\ Rank(r.op) <= 6
  BY <1>2, NetTypes, RankFacts
<1> QED  BY <1>2, <1>3, RankFacts DEF Op

(* A handler ends the transfer, or the tool waits for nothing more.        *)
LEMMA ToolStops ==
  ASSUME IndInv, UNCHANGED <<device, late, n, net>>, step' \in {step, "idle"},
         waiting' = FALSE, answer' = None, local' \in Device!Doxm,
         step' = "idle" \/ local' = local,
         psk' = psk \/ (step = "uuid" /\ step' = "idle" /\ psk' \in Psk \cup {None}),
         pdm' \in {"UNKNOWN", "INIT", "ACTIVE"},
         result' \in {"none", "OK", "error", "duplicate", "gone"},
         result' = "OK" => step' = "idle" /\ Succeeded
  PROVE  IndInv'
<1>1. /\ up' = up /\ mem' = mem /\ db' = db /\ open' = open /\ devSession' = devSession
      /\ late' = late /\ n' = n /\ net' = net
  BY DEF device
<1>2. /\ TypeOK /\ FileOK /\ MemOK /\ SessionOK /\ SentOK /\ Followed /\ Verified
      /\ OwnedKeyed /\ Finished
  BY DEF IndInv
<1>3. TypeOK'
  BY <1>1, <1>2 DEF TypeOK, Device!TypeOK
<1>4. FileOK' /\ MemOK' /\ SessionOK'
  BY <1>1, <1>2 DEF FileOK, MemOK, SessionOK, FileOwned
<1>5. SentOK'
  BY <1>1, <1>2 DEF SentOK
<1>6. Followed'
  <2>1. CASE psk' = psk
    BY <1>1, <1>2, <2>1 DEF Followed, KeyInBoth, Keyed, Stored
  <2>2. CASE step = "uuid"
    <3>1. \A r \in net : r.n = devSession => r.op \in Op /\ ~(Rank(r.op) >= Rank("acl"))
      BY <2>2, KeyIsFree, NetTypes, RankFacts DEF Op
    <3> QED  BY <1>1, <1>2, <3>1 DEF Followed
  <2> QED  BY <2>1, <2>2
<1>7. Verified'
  <2>1. CASE step' = "idle"
    BY <2>1 DEF Verified, Op
  <2>2. CASE step' = step /\ step' # "idle"
    BY <1>1, <1>2, <2>2 DEF Verified, FileOwned
  <2> QED  BY <2>1, <2>2
<1>8. OwnedKeyed'
  <2>1. CASE psk' = psk
    BY <1>1, <1>2, <2>1 DEF OwnedKeyed, Keyed, Stored, FileOwned
  <2>2. CASE step = "uuid"
    BY <1>1, <2>2, KeyIsFree DEF OwnedKeyed, FileOwned
  <2> QED  BY <2>1, <2>2
<1>9. Finished'
  BY <1>1, <1>2 DEF Finished, Succeeded, Operating, FileOwned
<1>10. Answered'
  BY DEF Answered
<1> QED  BY <1>3, <1>4, <1>5, <1>6, <1>7, <1>8, <1>9, <1>10 DEF IndInv

(* A handler sends the next request.                                       *)
LEMMA ToolSends ==
  ASSUME IndInv, UNCHANGED <<device, late, n>>, waiting,
         NEW op \in Op, NEW arg \in CredId \cup {0}, Send(op, arg),
         Rank(op) = Rank(step) + 1,
         local' \in Device!Doxm, pdm' \in {"UNKNOWN", "INIT", "ACTIVE"},
         op # "cred" => psk' = psk,
         op = "cred" => arg \in CredId /\ psk' \in Psk /\ psk'.key = n,
         op = "verify" => ~local'.owned,
         op = "pstat" => devSession \in {0, n} /\ ~FileOwned(db),
         op = "uuid" /\ devSession = n => mem.doxm.owner = Obt,
         op = "acl" /\ devSession = n /\ "cred" \notin late => KeyInBoth
  PROVE  IndInv'
<1> DEFINE q == [n |-> n, op |-> op, arg |-> arg]
<1>1. /\ up' = up /\ mem' = mem /\ db' = db /\ open' = open /\ devSession' = devSession
      /\ late' = late /\ n' = n /\ result' = result
      /\ step' = op /\ waiting' = TRUE /\ answer' = None /\ net' = net \cup {q}
  BY DEF device, Send
<1>2. /\ TypeOK /\ FileOK /\ MemOK /\ SessionOK /\ SentOK /\ Followed /\ Verified /\ OwnedKeyed
  BY DEF IndInv
<1>3. step # "idle" /\ step \in Op /\ result # "OK"
  BY <1>2 DEF SentOK, TypeOK
<1>4. PICK c \in net : c.n = n /\ c.op = step
  BY <1>2, <1>3 DEF SentOK
<1>5. n \in 1 .. MaxTransfers /\ devSession \in 0 .. n
  BY <1>2, <1>4, NetTypes DEF TypeOK
<1>6. q \in Request /\ q.n = n /\ q.op = op /\ q.arg = arg
  BY <1>5 DEF Request
<1> HIDE DEF q
<1>7. op = "cred" => step = "uuid"
  BY <1>3, RankFacts DEF Op
<1>8. psk' \in Psk \cup {None} /\ (op = "cred" => psk' # None)
  BY <1>2, NoneAssumption DEF TypeOK
<1>9. TypeOK'
  BY <1>1, <1>2, <1>6, <1>8 DEF TypeOK, Device!TypeOK
<1>10. FileOK' /\ MemOK' /\ SessionOK'
  BY <1>1, <1>2 DEF FileOK, MemOK, SessionOK, FileOwned
<1>11. SentOK'
  <2>1. \A r \in net : r.n <= n /\ (r.op = "cred" => r.arg \in CredId)
                       /\ (r.n = n => Rank(r.op) <= Rank(step) /\ r.op \in Op)
    BY <1>2, <1>3, NetTypes DEF SentOK
  <2>2. \A s \in Op : Rank(s) \in Nat
    BY RankFacts DEF Op
  <2>3. \A r \in net' : /\ r.n <= n /\ (r.op = "cred" => r.arg \in CredId)
                        /\ r.n = n => Rank(r.op) <= Rank(op)
    BY <1>1, <1>3, <1>5, <1>6, <2>1, <2>2
  <2>4. op # "idle"
    BY DEF Op
  <2> QED  BY <1>1, <1>3, <1>6, <2>3, <2>4 DEF SentOK
<1>12. Followed'
  <2> SUFFICES ASSUME NEW r \in net', r.n = devSession
               PROVE  /\ Rank(r.op) >= Rank("uuid") => mem.doxm.owner = Obt
                      /\ Rank(r.op) >= Rank("acl") /\ "cred" \notin late => KeyInBoth'
    BY <1>1 DEF Followed
  <2>1. psk' = psk => (KeyInBoth' <=> KeyInBoth)
    BY <1>1 DEF KeyInBoth, Keyed, Stored
  <2>2. CASE r \in net
    <3>1. CASE op # "cred"
      BY <1>2, <2>1, <2>2, <3>1 DEF Followed
    <3>2. CASE op = "cred"
      <4>1. r.op \in Op /\ ~(Rank(r.op) >= Rank("acl"))
        BY <1>7, <2>2, <3>2, KeyIsFree, NetTypes, RankFacts DEF Op
      <4> QED  BY <1>2, <2>2, <4>1 DEF Followed
    <3> QED  BY <3>1, <3>2
  <2>3. CASE r = q
    <3>1. r.op = op /\ devSession = n
      BY <1>6, <2>3
    <3>2. /\ Rank(step) >= Rank("uuid") => mem.doxm.owner = Obt
          /\ Rank(step) >= Rank("acl") /\ "cred" \notin late => KeyInBoth
      BY <1>2, <1>4, <3>1 DEF Followed
    <3>3. Rank(op) >= Rank("uuid") => op = "uuid" \/ Rank(step) >= Rank("uuid")
      BY <1>3, RankFacts DEF Op
    <3>4. Rank(op) >= Rank("acl") => op = "acl" \/ (op # "cred" /\ Rank(step) >= Rank("acl"))
      BY <1>3, RankFacts DEF Op
    <3> QED  BY <2>1, <3>1, <3>2, <3>3, <3>4
  <2> QED  BY <1>1, <2>2, <2>3
<1>13. Verified'
  <2>1. op # "oxmsel"
    BY <1>3, RankFacts DEF Op
  <2>2. Rank(op) >= Rank("pstat") => op = "pstat" \/ Rank(step) >= Rank("pstat")
    BY <1>3, RankFacts DEF Op
  <2>3. Rank(op) \in Rank("pstat") .. Rank("acl") =>
          op = "pstat" \/ Rank(step) \in Rank("pstat") .. Rank("acl")
    BY <1>3, RankFacts DEF Op
  <2>4. /\ Rank(op) >= Rank("pstat") => devSession \in {0, n}
        /\ Rank(op) \in Rank("pstat") .. Rank("acl") => ~FileOwned(db)
    BY <1>2, <1>3, <2>2, <2>3 DEF Verified
  <2> QED  BY <1>1, <1>8, <2>1, <2>4 DEF Verified, FileOwned
<1>14. OwnedKeyed'
  <2>1. CASE op # "cred"
    BY <1>1, <1>2, <2>1 DEF OwnedKeyed, Keyed, Stored, FileOwned
  <2>2. CASE op = "cred"
    BY <1>1, <1>7, <2>2, KeyIsFree DEF OwnedKeyed, FileOwned
  <2> QED  BY <2>1, <2>2
<1>15. Answered' /\ Finished'
  BY <1>1, <1>3 DEF Answered, Finished, Succeeded
<1> QED  BY <1>9, <1>10, <1>11, <1>12, <1>13, <1>14, <1>15 DEF IndInv

LEMMA Fails ==
  ASSUME IndInv, UNCHANGED <<device, late>>, NEW res \in {"error", "duplicate"}, Fail(res)
  PROVE  IndInv'
<1>1. /\ UNCHANGED <<device, late, n, net>> /\ step' = "idle" /\ waiting' = FALSE
      /\ answer' = None /\ local' = local /\ psk' = psk /\ result' = res
      /\ pdm' \in {"UNKNOWN", pdm}
  BY DEF Fail, SetResult
<1>2. local \in Device!Doxm /\ pdm \in {"UNKNOWN", "INIT", "ACTIVE"}
  BY DEF IndInv, TypeOK
<1> QED  BY <1>1, <1>2, ToolStops

LEMMA Leaks ==
  ASSUME IndInv, UNCHANGED <<device, late>>, waiting, Leak
  PROVE  IndInv'
<1>1. /\ UNCHANGED <<device, late, n, net>> /\ step' = step /\ waiting' = FALSE
      /\ answer' = None /\ local' = local /\ psk' = psk /\ result' = result /\ pdm' = pdm
  BY DEF Leak
<1>2. TypeOK /\ SentOK
  BY DEF IndInv
<1>3. local \in Device!Doxm /\ pdm \in {"UNKNOWN", "INIT", "ACTIVE"} /\ result # "OK"
  BY <1>2 DEF TypeOK, SentOK
<1>4. result \in {"none", "OK", "error", "duplicate", "gone"}
  BY <1>2 DEF TypeOK
<1> QED  BY <1>1, <1>3, <1>4, ToolStops

(* The next step of the handlers that only look at the result.             *)
LEMMA GoesOn ==
  ASSUME IndInv, UNCHANGED <<device, late>>, waiting, NEW a, NEW op \in Op, GoOn(a, op),
         Rank(op) = Rank(step) + 1, op \notin {"pstat", "cred"},
         op = "verify" => ~local.owned,
         a.ok /\ op = "uuid" /\ devSession = n => mem.doxm.owner = Obt,
         a.ok /\ op = "acl" /\ devSession = n /\ "cred" \notin late => KeyInBoth
  PROVE  IndInv'
<1>1. local \in Device!Doxm /\ pdm \in {"UNKNOWN", "INIT", "ACTIVE"} /\ 0 \in CredId \cup {0}
  BY DEF IndInv, TypeOK
<1>2. CASE a.ok /\ Send(op, 0) /\ UNCHANGED <<n, local, psk, pdm>>
  BY <1>1, <1>2, ToolSends
<1>3. CASE Fail("error")
  BY <1>3, Fails
<1> QED  BY <1>2, <1>3 DEF GoOn

(* a is the answer, or the stack's report that there is none.              *)
LEMMA HandlerKeeps ==
  ASSUME IndInv, UNCHANGED <<device, late>>, waiting, NEW a,
         a.ok => a = answer /\ answer # None, Handler(a)
  PROVE  IndInv'
<1>1. TypeOK /\ SentOK /\ Verified /\ Answered
  BY DEF IndInv
<1>2. /\ local \in Device!Doxm /\ pdm \in {"UNKNOWN", "INIT", "ACTIVE"} /\ 0 \in CredId \cup {0}
      /\ mem.doxm \in Device!Doxm /\ Obt \in Uuid
      /\ n \in Nat /\ step # "idle" /\ step \in Op /\ psk \in Psk \cup {None}
  BY <1>1, InvTypes, ObtAssumption DEF TypeOK, SentOK
<1>3. CASE OwnerTransferModeHandler(a)
  <2>1. step = "oxmsel" /\ GoOn(a, "verify") /\ ~local.owned /\ "verify" \in Op
        /\ Rank("verify") = Rank(step) + 1
    BY <1>1, <1>3, RankFacts DEF OwnerTransferModeHandler, Verified, Op
  <2> QED  BY <2>1, GoesOn
<1>4. CASE GetAndVerifyDoxmHandler(a)
  <2>1. step = "verify" /\ "pstat" \in Op /\ Rank("pstat") = Rank(step) + 1
    BY <1>4, RankFacts DEF GetAndVerifyDoxmHandler, Op
  <2>2. CASE a.ok /\ a.doxm = local /\ Send("pstat", 0) /\ UNCHANGED <<n, local, psk, pdm>>
    <3>1. devSession \in {0, n} /\ ~FileOwned(db)
      BY <1>1, <2>1, <2>2 DEF Answered, Verified
    <3> QED  BY <1>2, <2>1, <2>2, <3>1, ToolSends
  <2> QED  BY <1>4, <2>2, Fails DEF GetAndVerifyDoxmHandler
<1>5. CASE ListMethodsHandler(a)
  <2>1. step = "pstat" /\ "om" \in Op /\ Rank("om") = Rank(step) + 1
    BY <1>5, RankFacts DEF ListMethodsHandler, Op
  <2>2. CASE a.ok /\ a.takeOwner /\ Send("om", 0) /\ UNCHANGED <<n, local, psk, pdm>>
    BY <1>2, <2>1, <2>2, ToolSends
  <2> QED  BY <1>5, <2>2, Fails DEF ListMethodsHandler
<1>6. CASE OperationModeUpdateHandler(a)
  <2>1. step = "om" /\ "owner" \in Op /\ Rank("owner") = Rank(step) + 1
    BY <1>6, RankFacts DEF OperationModeUpdateHandler, Op
  <2>2. CASE /\ a.ok /\ local' = [local EXCEPT !.owner = Obt]
             /\ Send("owner", 0) /\ UNCHANGED <<n, psk, pdm>>
    <3>1. local' \in Device!Doxm
      BY <1>2, <2>2 DEF Device!Doxm
    <3> QED  BY <1>2, <2>1, <2>2, <3>1, ToolSends
  <2> QED  BY <1>6, <2>2, Fails DEF OperationModeUpdateHandler
<1>7. CASE OwnerUuidUpdateHandler(a)
  <2>1. step = "owner" /\ GoOn(a, "uuid") /\ "uuid" \in Op /\ Rank("uuid") = Rank(step) + 1
    BY <1>7, RankFacts DEF OwnerUuidUpdateHandler, Op
  <2>2. a.ok /\ devSession = n => mem.doxm.owner = Obt
    BY <1>1, <2>1 DEF Answered
  <2> QED  BY <2>1, <2>2, GoesOn
<1>8. CASE DeviceUuidUpdateHandler(a)
  <2>1. step = "uuid" /\ "cred" \in Op /\ Rank("cred") = Rank(step) + 1
    BY <1>8, RankFacts DEF DeviceUuidUpdateHandler, Op
  <2>2. CASE Leak
    BY <2>2, Leaks
  <2>3. CASE Fail("duplicate")
    BY <2>3, Fails
  <2>4. CASE /\ a.ok /\ local' = [local EXCEPT !.deviceuuid = a.doxm.deviceuuid]
             /\ UNCHANGED n
             /\ \/ psk' \in {psk, None} /\ SetResult("error")
                \/ \E i \in CredId : /\ psk' = SaveOwnerPSK(i) /\ pdm' = "INIT"
                                     /\ Send("cred", i)
    <3>1. local' \in Device!Doxm
      <4>1. answer \in Answer /\ a = answer
        BY <1>1, <2>4 DEF TypeOK
      <4>2. a.doxm.deviceuuid \in Uuid
        BY <4>1 DEF Answer, Device!Doxm
      <4> QED  BY <1>2, <2>4, <4>2 DEF Device!Doxm
    <3>2. CASE psk' \in {psk, None} /\ SetResult("error")
      <4>1. /\ UNCHANGED <<device, late, n, net>> /\ step' = "idle" /\ waiting' = FALSE
            /\ answer' = None /\ result' = "error" /\ pdm' = "UNKNOWN"
            /\ psk' \in Psk \cup {None}
        BY <1>2, <2>4, <3>2 DEF SetResult
      <4> QED  BY <2>1, <3>1, <4>1, ToolStops
    <3>3. ASSUME NEW i \in CredId, psk' = SaveOwnerPSK(i), pdm' = "INIT", Send("cred", i)
          PROVE  IndInv'
      <4>1. n \in 1 .. MaxTransfers
        <5>1. PICK r \in net : r.n = n
          BY <1>1, <1>2 DEF SentOK
        <5> QED  BY <5>1, NetTypes
      <4>2. psk' \in Psk /\ psk'.key = n
        BY <3>3, <4>1 DEF SaveOwnerPSK, Psk
      <4> QED  BY <2>1, <2>4, <3>1, <3>3, <4>2, ToolSends
    <3> QED  BY <2>4, <3>2, <3>3
  <2> QED  BY <1>8, <2>2, <2>3, <2>4 DEF DeviceUuidUpdateHandler
<1>9. CASE OwnerCredentialHandler(a)
  <2>1. step = "cred" /\ GoOn(a, "acl") /\ "acl" \in Op /\ Rank("acl") = Rank(step) + 1
    BY <1>9, RankFacts DEF OwnerCredentialHandler, Op
  <2>2. a.ok /\ devSession = n /\ "cred" \notin late => KeyInBoth
    BY <1>1, <2>1 DEF Answered
  <2> QED  BY <2>1, <2>2, GoesOn
<1>10. CASE OwnerAclHandler(a)
  <2>1. step = "acl" /\ "owned" \in Op /\ Rank("owned") = Rank(step) + 1
    BY <1>10, RankFacts DEF OwnerAclHandler, Op
  <2>2. CASE /\ a.ok /\ local' = [local EXCEPT !.owned = TRUE, !.rowneruuid = Obt]
             /\ Send("owned", 0) /\ UNCHANGED <<n, psk, pdm>>
    <3>1. local' \in Device!Doxm
      BY <1>2, <2>2 DEF Device!Doxm
    <3> QED  BY <1>2, <2>1, <2>2, <3>1, ToolSends
  <2> QED  BY <1>10, <2>2, Fails DEF OwnerAclHandler
<1>11. CASE OwnershipInformationHandler(a)
  <2>1. step = "owned" /\ GoOn(a, "rowner") /\ "rowner" \in Op /\ Rank("rowner") = Rank(step) + 1
    BY <1>11, RankFacts DEF OwnershipInformationHandler, Op
  <2> QED  BY <2>1, GoesOn
<1>12. CASE RownerUuidHandler(a)
  <2>1. step = "rowner" /\ "rfpro" \in Op /\ Rank("rfpro") = Rank(step) + 1
    BY <1>12, RankFacts DEF RownerUuidHandler, Op
  <2>2. CASE GoOn(a, "rfpro")
    BY <2>1, <2>2, GoesOn
  <2> QED  BY <1>12, <2>2, Leaks DEF RownerUuidHandler
<1>13. CASE ProvisioningStatusHandler(a)
  <2>1. step = "rfpro" /\ GoOn(a, "rfnop") /\ "rfnop" \in Op /\ Rank("rfnop") = Rank(step) + 1
    BY <1>13, RankFacts DEF ProvisioningStatusHandler, Op
  <2> QED  BY <2>1, GoesOn
<1>14. CASE ReadyForNomalStatusHandler(a)
  <2>1. CASE /\ a.ok /\ step = "rfnop"
             /\ result' = "OK" /\ pdm' = "ACTIVE"
             /\ step' = "idle" /\ waiting' = FALSE /\ answer' = None
             /\ UNCHANGED <<n, local, psk, net>>
    <3>1. Succeeded
      BY <2>1 DEF Succeeded
    <3>2. /\ UNCHANGED <<device, late, n, net>> /\ local' = local /\ psk' = psk
          /\ step' = "idle" /\ waiting' = FALSE /\ answer' = None
          /\ result' = "OK" /\ pdm' = "ACTIVE"
      BY <2>1
    <3> QED  BY <1>2, <3>1, <3>2, ToolStops
  <2> QED  BY <1>14, <2>1, Fails, Leaks DEF ReadyForNomalStatusHandler
<1> QED  BY <1>3, <1>4, <1>5, <1>6, <1>7, <1>8, <1>9, <1>10, <1>11, <1>12, <1>13, <1>14
         DEF Handler

LEMMA RestartKeeps ==
  ASSUME IndInv, ToolRestart
  PROVE  IndInv'
<1>1. /\ UNCHANGED <<device, late, n, net>> /\ step' = "idle" /\ waiting' = FALSE
      /\ answer' = None /\ local' = local /\ psk' = psk /\ result' = "gone"
      /\ pdm' \in {"UNKNOWN", pdm}
  BY DEF ToolRestart
<1>2. local \in Device!Doxm /\ pdm \in {"UNKNOWN", "INIT", "ACTIVE"}
  BY DEF IndInv, TypeOK
<1> QED  BY <1>1, <1>2, ToolStops

LEMMA InitHolds == Init => IndInv
<1> SUFFICES ASSUME Init  PROVE IndInv
  OBVIOUS
<1>1. /\ up = FALSE /\ mem = Device!Fresh /\ db \in ShippedDb /\ open = FALSE /\ devSession = 0
      /\ n = 0 /\ step = "idle" /\ waiting = FALSE /\ psk = None /\ pdm = "UNKNOWN"
      /\ local = Device!DefaultDoxm
      /\ net = {} /\ answer = None /\ result = "none" /\ late = {}
  BY DEF Init, Device!Init
<1>2. /\ db \in Device!Database /\ ~FileOwned(db)
      /\ db.svr.pstat # None => db.svr.pstat.dos = "RFOTM"
  BY <1>1, ShippedAssumption DEF Device!Shipped, FileOwned
<1>3. Device!TypeOK
  BY <1>1, <1>2, FreshType DEF Device!TypeOK
<1>4. TypeOK
  <2>1. local \in Device!Doxm
    BY <1>1, UuidAssumption DEF Device!DefaultDoxm, Device!Doxm
  <2>2. n \in 0 .. MaxTransfers /\ devSession \in 0 .. n
    BY <1>1, TransfersAssumption
  <2>3. open \in BOOLEAN /\ waiting \in BOOLEAN
    BY <1>1
  <2>4. /\ step \in Op \cup {"idle"} /\ psk \in Psk \cup {None}
        /\ pdm \in {"UNKNOWN", "INIT", "ACTIVE"} /\ net \subseteq Request
        /\ answer \in Answer \cup {None}
        /\ result \in {"none", "OK", "error", "duplicate", "gone"} /\ late \subseteq {"cred", "rfpro"}
    BY <1>1
  <2> QED  BY <1>3, <2>1, <2>2, <2>3, <2>4 DEF TypeOK
<1>5. FileOK /\ MemOK /\ OwnedKeyed
  BY <1>1, <1>2 DEF FileOK, MemOK, OwnedKeyed
<1>6. SessionOK /\ SentOK /\ Followed /\ Answered
  BY <1>1 DEF SessionOK, SentOK, Followed, Answered
<1>7. Verified /\ Finished
  BY <1>1 DEF Verified, Finished, Succeeded, Op
<1> QED  BY <1>4, <1>5, <1>6, <1>7 DEF IndInv

LEMMA StepKeeps == IndInv /\ [Next]_vars => IndInv'
<1> SUFFICES ASSUME IndInv, [Next]_vars  PROVE IndInv'
  OBVIOUS
<1>1. CASE DeviceStart
  BY <1>1, StartKeeps
<1>2. CASE DeviceOff
  BY <1>2, OffKeeps
<1>3. CASE \E r \in net, otm \in {"accepted", "refused"} : Deliver(r, otm)
  BY <1>3, DeliverKeeps DEF Deliver
<1>4. CASE Begin
  BY <1>4, BeginKeeps
<1>5. CASE Receive
  BY <1>5, HandlerKeeps DEF Receive
<1>6. CASE RequestFails
  <2> DEFINE a == [ok |-> FALSE]
  <2>1. ~a.ok /\ waiting /\ Handler(a) /\ UNCHANGED <<device, late>>
    BY <1>6 DEF RequestFails
  <2> HIDE DEF a
  <2> QED  BY <2>1, HandlerKeeps
<1>7. CASE ToolRestart
  BY <1>7, RestartKeeps
<1>8. CASE UNCHANGED vars
  <2>1. /\ up' = up /\ mem' = mem /\ db' = db /\ open' = open /\ devSession' = devSession
        /\ n' = n /\ step' = step /\ waiting' = waiting /\ local' = local /\ psk' = psk
        /\ pdm' = pdm /\ net' = net /\ answer' = answer /\ result' = result /\ late' = late
    BY <1>8 DEF vars, device, tool
  <2>2. TypeOK' /\ FileOK' /\ MemOK' /\ SessionOK' /\ SentOK'
    BY <2>1 DEF IndInv, TypeOK, Device!TypeOK, FileOK, MemOK, SessionOK, SentOK, FileOwned
  <2>3. Followed' /\ Verified' /\ Answered' /\ OwnedKeyed'
    BY <2>1 DEF IndInv, Followed, Verified, Answered, OwnedKeyed, FileOwned, KeyInBoth,
                Keyed, Stored
  <2>4. Finished'
    BY <2>1 DEF IndInv, Finished, Succeeded, Operating, FileOwned
  <2> QED  BY <2>2, <2>3, <2>4 DEF IndInv
<1> QED  BY <1>1, <1>2, <1>3, <1>4, <1>5, <1>6, <1>7, <1>8 DEF Next

LEMMA Invariance == Spec => []IndInv
BY InitHolds, StepKeeps, PTL DEF Spec

(* What a restart would load is what the file says.                        *)
LEMMA SavedParts ==
  ASSUME IndInv
  PROVE  /\ Saved.doxm.owned <=> FileOwned(db)
         /\ FileOwned(db) => Saved.doxm.owner = Obt
         /\ db.svr.pstat # None => Saved.pstat = db.svr.pstat
         /\ Saved.cred.list = Stored(db.svr.cred)
<1> DEFINE p == Device!InitSecureResources(Device!Begin(Device!Fresh, db))
<1>1. Loaded(p, db) /\ FileOK
  BY InvTypes, Inits DEF IndInv
<1>2. Saved = p.mem
  BY DEF Saved, Device!Reloaded
<1> HIDE DEF p
<1>3. Like(p.db, db)
  BY <1>1 DEF Loaded, Good
<1> QED  BY <1>1, <1>2, <1>3 DEF Loaded, OwnerLoaded, Like, FileOK

-----------------------------------------------------------------------------
(* The device's resources, the tool's copy of them, its database and the   *)
(* requests and answers on their way have their types, whatever is lost,   *)
(* repeated or restarted: in particular the device knows no session that   *)
(* the tool has not begun, and SaveOwnerPSK never stores the empty key.    *)
THEOREM TransferTypes == Spec => []TypeOK
BY Invariance, PTL DEF IndInv

(* OwnerAclHandler posts owned only after OwnerCredentialHandler has had   *)
(* the device's answer to the credential in the same session.  So a device *)
(* whose file makes it come up as owned is owned by the tool, and comes up *)
(* with the one key that SaveOwnerPSK has put into the tool's own list,    *)
(* wherever the transfer has stopped.                                      *)
THEOREM OwnerKey == Spec => []OwnerHasKey
<1>1. IndInv => OwnerHasKey
  <2> SUFFICES ASSUME IndInv, "cred" \notin late, Saved.doxm.owned
               PROVE  Saved.doxm.owner = Obt /\ SharedKey(Saved)
    BY DEF OwnerHasKey
  <2>1. FileOwned(db) /\ Saved.doxm.owner = Obt /\ Saved.cred.list = Stored(db.svr.cred)
    BY SavedParts
  <2>2. Keyed(Saved.cred.list, psk)
    BY <2>1 DEF IndInv, OwnedKeyed
  <2> QED  BY <2>1, <2>2 DEF SharedKey, Keyed
<1> QED  BY <1>1, Invariance, PTL

(* When ReadyForNomalStatusHandler has called the result callback with     *)
(* success, the device is owned by the tool, in RFNOP and has the tool's   *)
(* key, in memory and in the file, although requests are delivered late    *)
(* and twice and each side may have restarted since.                       *)
THEOREM MutualSuccess == Spec => []SuccessIsMutual
<1>1. IndInv => SuccessIsMutual
  <2> SUFFICES ASSUME IndInv, result = "OK", late = {}
               PROVE  \A m \in {Saved} \cup (IF up THEN {mem} ELSE {}) :
                        m.doxm.owned /\ m.doxm.owner = Obt /\ m.pstat.dos = "RFNOP" /\ SharedKey(m)
    BY DEF SuccessIsMutual
  <2>1. Operating /\ FileOK /\ MemOK /\ OwnedKeyed
    BY DEF IndInv, Finished, Succeeded
  <2>2. FileOwned(db) /\ db.svr.pstat # None /\ db.svr.pstat.dos = "RFNOP"
    BY <2>1 DEF Operating
  <2>3. Saved.doxm.owned /\ Saved.doxm.owner = Obt /\ Saved.pstat.dos = "RFNOP"
    BY <2>2, SavedParts
  <2>4. SharedKey(Saved)
    <3>1. Keyed(Saved.cred.list, psk)
      BY <2>1, <2>2, SavedParts DEF OwnedKeyed
    <3> QED  BY <3>1 DEF SharedKey, Keyed
  <2>5. ASSUME up
        PROVE  mem.doxm.owned /\ mem.doxm.owner = Obt /\ mem.pstat.dos = "RFNOP" /\ SharedKey(mem)
    <3>1. mem.doxm.owned /\ mem.doxm.owner = Obt /\ mem.pstat.dos = "RFNOP"
      BY <2>1, <2>2, <2>5 DEF Operating, MemOK, FileOK
    <3>2. Keyed(mem.cred.list, psk)
      BY <2>1, <2>2, <2>5 DEF OwnedKeyed
    <3> QED  BY <3>1, <3>2 DEF SharedKey, Keyed
  <2> QED  BY <2>3, <2>4, <2>5
<1> QED  BY <1>1, Invariance, PTL

-----------------------------------------------------------------------------
(* A transfer is a behaviour of the device.                                *)

(* Requests that have the effect of one in PstatRequest.                   *)
LEMMA SamePost ==
  ASSUME NEW m \in Device!Memory, NEW d \in Device!Database
  PROVE  LET b == Device!Begin(m, d)
         IN  /\ Device!HandlePstatPostRequest(b, [om |-> "client"]) =
                  Device!HandlePstatPostRequest(b, [dos |-> m.pstat.dos])
             /\ Device!HandlePstatPostRequest(b, [rowneruuid |-> Obt]) =
                  Device!HandlePstatPostRequest(b, [dos |-> m.pstat.dos, rowneruuid |-> Obt])
             /\ Device!HandlePstatPostRequest(b, [dos |-> "RFPRO", tm |-> 0]) =
                  Device!HandlePstatPostRequest(b, [dos |-> "RFPRO"])
<1> DEFINE b == Device!Begin(m, d)
           W == Device!PstatWriteable(m.pstat.dos)
           a == [b EXCEPT !.mem.pstat.rowneruuid = Obt]
<1>1. b.mem = m /\ m.pstat \in Device!Pstat
  BY MemoryParts DEF Device!Begin
<1>2. ("dos" \in W <=> "om" \in W) /\ ("dos" \in W <=> "tm" \in W)
      /\ ("rowneruuid" \in W => "dos" \in W)
  BY <1>1 DEF Device!PstatWriteable
<1>3. a.mem.pstat.dos = m.pstat.dos
  BY <1>1 DEF Device!Begin, Device!Memory, Device!Pstat
<1> HIDE DEF W
<1>4. Device!HandlePstatPostRequest(b, [om |-> "client"]) =
        Device!HandlePstatPostRequest(b, [dos |-> m.pstat.dos])
  <2>1. Device!HandlePstatPostRequest(b, [om |-> "client"]) =
          IF "om" \in W THEN Device!SaveIfOk(b) ELSE Device!Refuse(b)
    BY <1>1 DEF Device!HandlePstatPostRequest, Device!UpdateRowner, Device!UpdateDos, W
  <2>2. Device!HandlePstatPostRequest(b, [dos |-> m.pstat.dos]) =
          IF "dos" \in W THEN Device!SaveIfOk(b) ELSE Device!Refuse(b)
    BY <1>1 DEF Device!HandlePstatPostRequest, Device!UpdateRowner, Device!UpdateDos, W
  <2> QED  BY <1>2, <2>1, <2>2
<1>5. Device!HandlePstatPostRequest(b, [rowneruuid |-> Obt]) =
        Device!HandlePstatPostRequest(b, [dos |-> m.pstat.dos, rowneruuid |-> Obt])
  <2>1. Device!HandlePstatPostRequest(b, [rowneruuid |-> Obt]) =
          IF "rowneruuid" \in W THEN Device!SaveIfOk(a) ELSE Device!Refuse(b)
    BY <1>1 DEF Device!HandlePstatPostRequest, Device!UpdateRowner, Device!UpdateDos, W
  <2>2. Device!HandlePstatPostRequest(b, [dos |-> m.pstat.dos, rowneruuid |-> Obt]) =
          IF "dos" \in W /\ "rowneruuid" \in W THEN Device!SaveIfOk(a) ELSE Device!Refuse(b)
    BY <1>1, <1>3 DEF Device!HandlePstatPostRequest, Device!UpdateRowner, Device!UpdateDos, W
  <2> QED  BY <1>2, <2>1, <2>2
<1>6. Device!HandlePstatPostRequest(b, [dos |-> "RFPRO", tm |-> 0]) =
        Device!HandlePstatPostRequest(b, [dos |-> "RFPRO"])
  BY <1>1, <1>2
     DEF Device!HandlePstatPostRequest, Device!UpdateRowner, Device!UpdateDos, W
<1> QED  BY <1>4, <1>5, <1>6

LEMMA Assigned ==
  ASSUME NEW S, NEW v \in S
  PROVE  /\ [owner |-> v] \in Device!Assign("owner", S)
         /\ [dos |-> v] \in Device!Assign("dos", S)
<1>1. [owner |-> v] = [x \in {"owner"} |-> v]
  OBVIOUS
<1>2. [dos |-> v] = [x \in {"dos"} |-> v]
  OBVIOUS
<1> QED  BY <1>1, <1>2 DEF Device!Assign

LEMMA DeliverIsPost ==
  ASSUME IndInv, NEW r \in net, NEW otm \in {"accepted", "refused"}, Deliver(r, otm)
  PROVE  [Device!Next]_(Device!vars)
<1> DEFINE b == Device!Begin(mem, db)
<1>1. up /\ Device!Perform(Handled(b, r, otm)) /\ mem \in Device!Memory /\ db \in Device!Database
  BY InvTypes DEF Deliver, Concluded
<1>2. r.op \in Op /\ Obt \in Named /\ mem.pstat.dos \in Device!State
  BY InvTypes, NetTypes, NamedAssumption DEF Device!Pstat
<1> HIDE DEF b
<1>3. ASSUME NEW p \in Device!DoxmRequest, Handled(b, r, otm) = Device!HandleDoxmPostRequest(b, p, otm)
      PROVE  Device!Next
  <2>1. Device!PostDoxm(p, otm)
    BY <1>1, <1>3 DEF Device!PostDoxm, b
  <2> QED  BY <1>3, <2>1 DEF Device!Next
<1>4. ASSUME NEW p \in Device!PstatRequest, Handled(b, r, otm) = Device!HandlePstatPostRequest(b, p)
      PROVE  Device!Next
  <2>1. Device!PostPstat(p)
    BY <1>1, <1>4 DEF Device!PostPstat, b
  <2> QED  BY <1>4, <2>1 DEF Device!Next
<1>5. CASE r.op = "oxmsel"
  <2>1. [oxmsel |-> "justworks"] \in Device!DoxmRequest
    BY DEF Device!DoxmRequest, Device!Assign
  <2>2. Handled(b, r, otm) = Device!HandleDoxmPostRequest(b, [oxmsel |-> "justworks"], otm)
    BY <1>5 DEF Handled
  <2> QED  BY <1>3, <2>1, <2>2
<1>6. CASE r.op = "owner"
  <2>1. [owner |-> Obt] \in Device!DoxmRequest
    BY <1>2, Assigned DEF Device!DoxmRequest
  <2>2. Handled(b, r, otm) = Device!HandleDoxmPostRequest(b, [owner |-> Obt], otm)
    BY <1>6 DEF Handled
  <2> QED  BY <1>3, <2>1, <2>2
<1>7. CASE r.op = "owned"
  <2>1. [owned |-> TRUE, rowneruuid |-> Obt] \in Device!DoxmRequest
    BY <1>2 DEF Device!DoxmRequest
  <2>2. Handled(b, r, otm) =
          Device!HandleDoxmPostRequest(b, [owned |-> TRUE, rowneruuid |-> Obt], otm)
    BY <1>7 DEF Handled
  <2> QED  BY <1>3, <2>1, <2>2
<1>8. CASE r.op = "om"
  <2>1. [dos |-> mem.pstat.dos] \in Device!PstatRequest
    BY <1>2, Assigned DEF Device!PstatRequest
  <2>2. Handled(b, r, otm) = Device!HandlePstatPostRequest(b, [om |-> "client"])
    BY <1>8 DEF Handled
  <2>3. Handled(b, r, otm) = Device!HandlePstatPostRequest(b, [dos |-> mem.pstat.dos])
    BY <1>1, <2>2, SamePost DEF b
  <2> QED  BY <1>4, <2>1, <2>3
<1>9. CASE r.op = "rowner"
  <2>1. [dos |-> mem.pstat.dos, rowneruuid |-> Obt] \in Device!PstatRequest
    BY <1>2 DEF Device!PstatRequest
  <2>2. Handled(b, r, otm) = Device!HandlePstatPostRequest(b, [rowneruuid |-> Obt])
    BY <1>9 DEF Handled
  <2>3. Handled(b, r, otm) =
          Device!HandlePstatPostRequest(b, [dos |-> mem.pstat.dos, rowneruuid |-> Obt])
    BY <1>1, <2>2, SamePost DEF b
  <2> QED  BY <1>4, <2>1, <2>3
<1>10. CASE r.op = "rfpro"
  <2>1. [dos |-> "RFPRO"] \in Device!PstatRequest
    BY DEF Device!PstatRequest, Device!Assign, Device!State
  <2>2. Handled(b, r, otm) = Device!HandlePstatPostRequest(b, [dos |-> "RFPRO", tm |-> 0])
    BY <1>10 DEF Handled
  <2>3. Handled(b, r, otm) = Device!HandlePstatPostRequest(b, [dos |-> "RFPRO"])
    BY <1>1, <2>2, SamePost DEF b
  <2> QED  BY <1>4, <2>1, <2>3
<1>11. CASE r.op = "rfnop"
  <2>1. [dos |-> "RFNOP"] \in Device!PstatRequest
    BY DEF Device!PstatRequest, Device!Assign, Device!State
  <2>2. Handled(b, r, otm) = Device!HandlePstatPostRequest(b, [dos |-> "RFNOP"])
    BY <1>11 DEF Handled
  <2> QED  BY <1>4, <2>1, <2>2
<1>12. CASE r.op = "acl"
  <2>1. Handled(b, r, otm) = Device!HandleACLPostRequest(b, Obt, FALSE)
    BY <1>12 DEF Handled
  <2>2. Device!PostAcl(Obt, FALSE)
    BY <1>1, <2>1 DEF Device!PostAcl, b
  <2>3. \E rowner \in Named, rownerFirst \in BOOLEAN : Device!PostAcl(rowner, rownerFirst)
    BY <1>2, <2>2
  <2> QED  BY <2>3 DEF Device!Next
<1>13. CASE r.op = "cred"
  <2> DEFINE c == [credid |-> r.arg, subject |-> Obt, secret |-> 0]
  <2>1. r.arg \in CredId /\ r.arg # 0 /\ r.n \in Secret /\ 0 \in Secret
    BY <1>13, NetTypes, TransfersAssumption, CredIdAssumption DEF IndInv, SentOK
  <2>2. c \in Device!CredRequest /\ c.credid # 0
    BY <1>2, <2>1, ObtAssumption DEF Device!CredRequest
  <2>3. Handled(b, r, otm) = Device!HandleCredPostRequest(b, c, r.n, Obt)
    BY <1>13 DEF Handled
  <2> HIDE DEF c
  <2>4. Device!PostCred(c, r.n, Obt)
    BY <1>1, <2>2, <2>3 DEF Device!PostCred, b
  <2> QED  BY <1>2, <2>1, <2>2, <2>4 DEF Device!Next
<1>14. CASE r.op \in {"verify", "pstat", "uuid"}
  <2>1. Handled(b, r, otm) = b
    BY <1>14 DEF Handled
  <2>2. b.mem = mem /\ b.db = db /\ b.writes = << >>
    BY DEF b, Device!Begin
  <2>3. mem' = mem /\ db' = db /\ up' = TRUE
    BY <1>1, <2>1, <2>2 DEF Device!Perform
  <2>4. up = TRUE
    BY <1>1, InvTypes
  <2> QED  BY <2>3, <2>4 DEF Device!vars
<1> QED  BY <1>2, <1>5, <1>6, <1>7, <1>8, <1>9, <1>10, <1>11, <1>12, <1>13, <1>14 DEF Op

(* Whatever the tool sends and the network does with it, the device does   *)
(* only what DeviceOnboarding says it may do: every delivery is one of its *)
(* requests or changes nothing, the handlers of the tool do not touch it.  *)
(* So everything shown of the device alone, for any sequence of requests,  *)
(* holds of a device in a transfer as well.                                *)
THEOREM TransferIsOnboarding == Spec => Device!Spec
<1>1. Init => Device!Init
  BY DEF Init
<1>2. IndInv /\ [Next]_vars => [Device!Next]_(Device!vars)
  <2> SUFFICES ASSUME IndInv, [Next]_vars  PROVE [Device!Next]_(Device!vars)
    OBVIOUS
  <2>1. CASE DeviceStart
    BY <2>1 DEF DeviceStart, Device!Next
  <2>2. CASE DeviceOff
    BY <2>2 DEF DeviceOff, Device!Next
  <2>3. CASE \E r \in net, otm \in {"accepted", "refused"} : Deliver(r, otm)
    BY <2>3, DeliverIsPost
  <2>4. CASE Begin \/ Receive \/ RequestFails \/ ToolRestart \/ UNCHANGED vars
    BY <2>4 DEF Begin, Receive, RequestFails, ToolRestart, vars, device, Device!vars
  <2> QED  BY <2>1, <2>2, <2>3, <2>4 DEF Next
<1> QED  BY <1>1, <1>2, Invariance, PTL DEF Spec, Device!Spec
=============================================================================
