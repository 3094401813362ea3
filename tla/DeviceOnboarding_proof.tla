----------------------- MODULE DeviceOnboarding_proof -----------------------
(***************************************************************************)
(* Proofs about DeviceOnboarding, for every set of UUIDs, credids and      *)
(* secrets and every database a device may be shipped with.                *)
(*                                                                         *)
(* The process may end after any write, so what has to be kept is a        *)
(* property of the file alone, FileOK, of every image a handler writes.    *)
(* Each stage of a handler has a lemma that says which parts of memory and *)
(* file it changes and that it writes good images only (Good).  While the  *)
(* process runs, memory and file agree as far as a restart would tell      *)
(* (Core and Agree, together Sound), and each handler takes a sound        *)
(* progress to a sound one.  EnterRESET passes through states that are not *)
(* sound; Erased describes those.                                          *)
(***************************************************************************)
EXTENDS DeviceOnboarding, SequenceTheorems, WellFoundedInduction, TLAPS

-----------------------------------------------------------------------------
Past == {"RFPRO", "RFNOP", "SRESET"}

Unique(list) == \A x, y \in list : x.credid = y.credid => x = y
UniqueEntry(c) == c # None => Unique(c.list)

IsOwned(x) == x.owned /\ x.owner # Nil /\ x.deviceuuid # Nil

(* The stored state of a device that is past the transfer and not trapped. *)
Operational(x) == x # None /\ ~x.pending /\ x.dos # "RFOTM"

(* Entries of a device as it was shipped.                                  *)
Factory(e) == /\ e.doxm # None => ~e.doxm.owned
              /\ e.pstat # None => e.pstat.dos = "RFOTM" /\ ~e.pstat.pending

(* A file that the process may be started from at any time.  A pending     *)
(* state is stored only by a reset that found no stored pstat at first.    *)
FileOK(d) ==
  /\ d \in Database
  /\ UniqueEntry(d.svr.cred)
  /\ Operational(d.svr.pstat) =>
       d.svr.pstat.dos \in Past /\ d.svr.doxm # None /\ IsOwned(d.svr.doxm)
  /\ d.svr.pstat # None /\ d.svr.pstat.pending => d.profile # None /\ d.profile.pstat = None
  /\ d.profile = None => Factory(d.svr)
  /\ d.profile # None => /\ Factory(d.profile) /\ UniqueEntry(d.profile.cred)
                         /\ d.svr.pstat = None => d.profile.pstat = None

-----------------------------------------------------------------------------
(* The progress of a handler.  All the images it has written are good, as  *)
(* the process may end after any of them.                                  *)
Progress == [mem : Memory, db : Database, writes : Seq(Database), ok : BOOLEAN]

Good(o) == o \in Progress /\ FileOK(o.db) /\ \A k \in DOMAIN o.writes : FileOK(o.writes[k])

SameFile(p, o) == p.db = o.db /\ p.writes = o.writes /\ p.ok = o.ok

Holds(p, doxm, pstat, acl, cred, static) ==
  /\ p.mem.doxm = doxm /\ p.mem.pstat = pstat /\ p.mem.acl = acl
  /\ p.mem.cred = cred /\ p.mem.static = static

(* The file has the entries given, and the profile of o's file.            *)
Stores(p, o, doxm, pstat, acl, cred) ==
  /\ p.db.profile = o.db.profile /\ p.db.svr.doxm = doxm /\ p.db.svr.pstat = pstat
  /\ p.db.svr.acl = acl /\ p.db.svr.cred = cred

LEMMA ProgressParts ==
  ASSUME NEW o \in Progress
  PROVE  /\ o.mem \in Memory /\ o.db \in Database /\ o.writes \in Seq(Database) /\ o.ok \in BOOLEAN
         /\ o.mem.doxm \in Doxm /\ o.mem.pstat \in Pstat /\ o.mem.acl \in Uuid
         /\ o.mem.cred \in Cred /\ o.mem.static \in BOOLEAN
         /\ o.db.svr \in Entries /\ o.db.profile \in Entries \cup {None}
         /\ o.db.svr.doxm \in Doxm \cup {None} /\ o.db.svr.pstat \in Pstat \cup {None}
         /\ o.db.svr.acl \in Uuid \cup {None} /\ o.db.svr.cred \in Cred \cup {None}
BY DEF Progress, Memory, Database, Entries

LEMMA SetDoxm ==
  ASSUME NEW o \in Progress, NEW x \in Doxm
  PROVE  LET p == [o EXCEPT !.mem.doxm = x]
         IN  /\ p \in Progress /\ SameFile(p, o)
             /\ Holds(p, x, o.mem.pstat, o.mem.acl, o.mem.cred, o.mem.static)
BY DEF Progress, Memory, SameFile, Holds

LEMMA SetPstat ==
  ASSUME NEW o \in Progress, NEW x \in Pstat
  PROVE  LET p == [o EXCEPT !.mem.pstat = x]
         IN  /\ p \in Progress /\ SameFile(p, o)
             /\ Holds(p, o.mem.doxm, x, o.mem.acl, o.mem.cred, o.mem.static)
BY DEF Progress, Memory, SameFile, Holds

LEMMA SetStatic ==
  ASSUME NEW o \in Progress, NEW x \in Pstat
  PROVE  LET p == [o EXCEPT !.mem.pstat = x, !.mem.static = TRUE]
         IN  /\ p \in Progress /\ SameFile(p, o)
             /\ Holds(p, o.mem.doxm, x, o.mem.acl, o.mem.cred, TRUE)
BY DEF Progress, Memory, SameFile, Holds

LEMMA SetAcl ==
  ASSUME NEW o \in Progress, NEW x \in Uuid
  PROVE  LET p == [o EXCEPT !.mem.acl = x]
         IN  /\ p \in Progress /\ SameFile(p, o)
             /\ Holds(p, o.mem.doxm, o.mem.pstat, x, o.mem.cred, o.mem.static)
BY DEF Progress, Memory, SameFile, Holds

LEMMA SetCred ==
  ASSUME NEW o \in Progress, NEW x \in Cred
  PROVE  LET p == [o EXCEPT !.mem.cred = x]
         IN  /\ p \in Progress /\ SameFile(p, o)
             /\ Holds(p, o.mem.doxm, o.mem.pstat, o.mem.acl, x, o.mem.static)
BY DEF Progress, Memory, SameFile, Holds

LEMMA GoodSame ==
  ASSUME NEW o, NEW p \in Progress, Good(o), SameFile(p, o)
  PROVE  Good(p)
BY DEF Good, SameFile

LEMMA Refused ==
  ASSUME NEW o, Good(o)
  PROVE  LET p == Refuse(o)
         IN  Good(p) /\ p.mem = o.mem /\ p.db = o.db /\ ~p.ok
BY DEF Good, Progress, Refuse

(* A write.                                                                *)
LEMMA Written ==
  ASSUME NEW o, Good(o), NEW d, FileOK(d)
  PROVE  LET p == Write(o, d)
         IN  Good(p) /\ p.mem = o.mem /\ p.ok = o.ok /\ p.db = d
<1> DEFINE p == Write(o, d)
<1>1. o \in Progress /\ d \in Database /\ o.writes \in Seq(Database)
  BY ProgressParts DEF Good, FileOK
<1>2. Append(o.writes, d) \in Seq(Database)
  BY <1>1
<1>3. p.mem = o.mem /\ p.ok = o.ok /\ p.db = d /\ p.writes = Append(o.writes, d)
  BY <1>1 DEF Write, Progress
<1>4. p \in Progress
  BY <1>1, <1>2 DEF Write, Progress
<1>5. \A k \in DOMAIN Append(o.writes, d) : FileOK(Append(o.writes, d)[k])
  <2>1. \A k \in DOMAIN Append(o.writes, d) :
          \/ k \in DOMAIN o.writes /\ Append(o.writes, d)[k] = o.writes[k]
          \/ Append(o.writes, d)[k] = d
    BY <1>1, AppendProperties
  <2> QED  BY <2>1 DEF Good
<1> HIDE DEF p
<1> QED  BY <1>3, <1>4, <1>5 DEF Good, p

LEMMA SavedDoxm ==
  ASSUME NEW o, Good(o),
         Operational(o.db.svr.pstat) => IsOwned(o.mem.doxm),
         o.db.profile = None => ~o.mem.doxm.owned
  PROVE  LET p == SaveDoxm(o)
         IN  /\ Good(p) /\ p.mem = o.mem /\ p.ok = o.ok
             /\ Stores(p, o, o.mem.doxm, o.db.svr.pstat, o.db.svr.acl, o.db.svr.cred)
<1> DEFINE d == [o.db EXCEPT !.svr.doxm = o.mem.doxm]
<1>1. o \in Progress /\ FileOK(o.db) /\ o.db \in Database /\ o.mem.doxm \in Doxm
  BY ProgressParts DEF Good
<1>2. /\ d \in Database /\ d.profile = o.db.profile /\ d.svr.doxm = o.mem.doxm
      /\ d.svr.pstat = o.db.svr.pstat /\ d.svr.acl = o.db.svr.acl /\ d.svr.cred = o.db.svr.cred
  BY <1>1 DEF Database, Entries
<1> HIDE DEF d
<1>3. FileOK(d)
  BY <1>1, <1>2, NoneAssumption DEF FileOK, Factory
<1>4. SaveDoxm(o) = Write(o, d)
  BY DEF SaveDoxm, d
<1> QED  BY <1>2, <1>3, <1>4, Written DEF Stores

LEMMA SavedPstat ==
  ASSUME NEW o, Good(o),
         Operational(o.mem.pstat) =>
           o.mem.pstat.dos \in Past /\ o.db.svr.doxm # None /\ IsOwned(o.db.svr.doxm),
         o.mem.pstat.pending => o.db.profile.pstat = None,
         o.db.profile # None
  PROVE  LET p == SavePstat(o)
         IN  /\ Good(p) /\ p.mem = o.mem /\ p.ok = o.ok
             /\ Stores(p, o, o.db.svr.doxm, o.mem.pstat, o.db.svr.acl, o.db.svr.cred)
<1> DEFINE d == [o.db EXCEPT !.svr.pstat = o.mem.pstat]
<1>1. o \in Progress /\ FileOK(o.db) /\ o.db \in Database /\ o.mem.pstat \in Pstat
  BY ProgressParts DEF Good
<1>2. /\ d \in Database /\ d.profile = o.db.profile /\ d.svr.pstat = o.mem.pstat
      /\ d.svr.doxm = o.db.svr.doxm /\ d.svr.acl = o.db.svr.acl /\ d.svr.cred = o.db.svr.cred
  BY <1>1 DEF Database, Entries
<1> HIDE DEF d
<1>3. FileOK(d)
  BY <1>1, <1>2, NoneAssumption DEF FileOK
<1>4. SavePstat(o) = Write(o, d)
  BY DEF SavePstat, d
<1> QED  BY <1>2, <1>3, <1>4, Written DEF Stores

LEMMA SavedAcl ==
  ASSUME NEW o, Good(o)
  PROVE  LET p == SaveAcl(o)
         IN  /\ Good(p) /\ p.mem = o.mem /\ p.ok = o.ok
             /\ Stores(p, o, o.db.svr.doxm, o.db.svr.pstat, o.mem.acl, o.db.svr.cred)
<1> DEFINE d == [o.db EXCEPT !.svr.acl = o.mem.acl]
<1>1. o \in Progress /\ FileOK(o.db) /\ o.db \in Database /\ o.mem.acl \in Uuid
  BY ProgressParts DEF Good
<1>2. /\ d \in Database /\ d.profile = o.db.profile /\ d.svr.pstat = o.db.svr.pstat
      /\ d.svr.doxm = o.db.svr.doxm /\ d.svr.acl = o.mem.acl /\ d.svr.cred = o.db.svr.cred
  BY <1>1 DEF Database, Entries
<1> HIDE DEF d
<1>3. FileOK(d)
  BY <1>1, <1>2 DEF FileOK, Factory
<1>4. SaveAcl(o) = Write(o, d)
  BY DEF SaveAcl, d
<1> QED  BY <1>2, <1>3, <1>4, Written DEF Stores

(* The credentials that a file holds.                                      *)
Stored(c) == IF c = None THEN {} ELSE c.list

LEMMA SavedCred ==
  ASSUME NEW o, Good(o), Unique(o.mem.cred.list)
  PROVE  LET p == SaveCred(o)
         IN  /\ Good(p) /\ p.mem = o.mem /\ p.ok = o.ok
             /\ Stores(p, o, o.db.svr.doxm, o.db.svr.pstat, o.db.svr.acl, p.db.svr.cred)
             /\ Stored(p.db.svr.cred) = o.mem.cred.list
<1> DEFINE c == IF o.mem.cred.list = {} THEN None ELSE o.mem.cred
           d == [o.db EXCEPT !.svr.cred = c]
<1>1. o \in Progress /\ FileOK(o.db) /\ o.db \in Database /\ o.mem.cred \in Cred
  BY ProgressParts DEF Good
<1>2. c \in Cred \cup {None} /\ UniqueEntry(c) /\ Stored(c) = o.mem.cred.list
  BY <1>1, NoneAssumption DEF UniqueEntry, Stored
<1>3. SaveCred(o) = Write(o, d)
  BY DEF SaveCred
<1> HIDE DEF c
<1>4. /\ d \in Database /\ d.profile = o.db.profile /\ d.svr.pstat = o.db.svr.pstat
      /\ d.svr.doxm = o.db.svr.doxm /\ d.svr.acl = o.db.svr.acl /\ d.svr.cred = c
  BY <1>1, <1>2 DEF Database, Entries
<1> HIDE DEF d
<1>5. FileOK(d)
  BY <1>1, <1>2, <1>4 DEF FileOK, Factory
<1> QED  BY <1>2, <1>3, <1>4, <1>5, Written DEF Stores

-----------------------------------------------------------------------------
(* What loading leaves in memory and in the file.                          *)
LEMMA Loads ==
  ASSUME NEW d \in Database
  PROVE  /\ LoadDoxm(d) \in Doxm
         /\ LoadDoxm(d).owned => d.svr.doxm # None /\ LoadDoxm(d) = d.svr.doxm
         /\ ~LoadDoxm(d).owned => LoadDoxm(d).owner = Nil
         /\ d.svr.doxm # None /\ d.svr.doxm.owned => LoadDoxm(d) = d.svr.doxm
<1>1. DefaultDoxm \in Doxm /\ ~DefaultDoxm.owned
  BY UuidAssumption DEF DefaultDoxm, Doxm
<1>2. d.svr.doxm \in Doxm \cup {None}
  BY DEF Database, Entries
<1>3. \A x \in Doxm : Forget(x) \in Doxm /\ (Forget(x).owned <=> x.owned) /\ (x.owned => Forget(x) = x)
                      /\ (~x.owned => Forget(x).owner = Nil)
  BY UuidAssumption DEF Forget, Doxm
<1> QED  BY <1>1, <1>2, <1>3 DEF LoadDoxm

DoxmLoaded(p, d) ==
  /\ p.mem.doxm = LoadDoxm(p.db) /\ p.mem.doxm.deviceuuid # Nil
  /\ p.mem.doxm.owned <=> LoadDoxm(d).owned
  /\ p.mem.doxm.owned => p.db.svr.doxm = p.mem.doxm
  /\ d.svr.doxm # None /\ IsOwned(d.svr.doxm) => p.mem.doxm = d.svr.doxm

LEMMA InitsDoxm ==
  ASSUME NEW o, Good(o)
  PROVE  LET p == InitDoxmResource(o)
         IN  /\ Good(p) /\ p.ok = o.ok /\ DoxmLoaded(p, o.db)
             /\ Holds(p, p.mem.doxm, o.mem.pstat, o.mem.acl, o.mem.cred, o.mem.static)
             /\ Stores(p, o, p.db.svr.doxm, o.db.svr.pstat, o.db.svr.acl, o.db.svr.cred)
<1> DEFINE x == LoadDoxm(o.db)
           r == [o EXCEPT !.mem.doxm = x]
<1>1. o \in Progress /\ FileOK(o.db) /\ o.db \in Database
  BY ProgressParts DEF Good
<1>2. /\ x \in Doxm /\ (x.owned => o.db.svr.doxm # None /\ x = o.db.svr.doxm)
      /\ (~x.owned => x.owner = Nil) /\ (o.db.svr.doxm # None /\ o.db.svr.doxm.owned => x = o.db.svr.doxm)
  BY <1>1, Loads
<1> HIDE DEF x
<1>3. /\ r \in Progress /\ SameFile(r, o) /\ Good(r)
      /\ Holds(r, x, o.mem.pstat, o.mem.acl, o.mem.cred, o.mem.static)
  BY <1>1, <1>2, SetDoxm, GoodSame
<1>4. InitDoxmResource(o) = CheckDeviceID(r)
  BY DEF InitDoxmResource, x
<1> HIDE DEF r
<1>5. CASE x.deviceuuid # Nil
  <2>1. InitDoxmResource(o) = r
    BY <1>3, <1>4, <1>5 DEF CheckDeviceID, Holds
  <2>2. DoxmLoaded(r, o.db)
    BY <1>2, <1>3, <1>5 DEF DoxmLoaded, Holds, SameFile, IsOwned, x
  <2> QED  BY <1>3, <2>1, <2>2 DEF Holds, Stores, SameFile
<1>6. CASE x.deviceuuid = Nil
  <2> DEFINE y == [x EXCEPT !.deviceuuid = Self]
             q == [r EXCEPT !.mem.doxm = y]
  <2>1. /\ y \in Doxm /\ y.deviceuuid = Self /\ (y.owned <=> x.owned) /\ y.owner = x.owner
    BY <1>2, UuidAssumption DEF Doxm
  <2>2. InitDoxmResource(o) = SaveDoxm([r EXCEPT !.mem.doxm.deviceuuid = Self])
    BY <1>3, <1>4, <1>6 DEF CheckDeviceID, Holds
  <2>3. [r EXCEPT !.mem.doxm.deviceuuid = Self] = q
    BY <1>3 DEF Holds, Progress, Memory
  <2> HIDE DEF y
  <2>4. /\ q \in Progress /\ SameFile(q, o) /\ Good(q)
        /\ Holds(q, y, o.mem.pstat, o.mem.acl, o.mem.cred, o.mem.static)
    <3>1. q \in Progress /\ SameFile(q, r) /\ Holds(q, y, r.mem.pstat, r.mem.acl, r.mem.cred, r.mem.static)
      BY <1>3, <2>1, SetDoxm
    <3> HIDE DEF q
    <3> QED  BY <1>3, <3>1, GoodSame DEF SameFile, Holds
  <2> HIDE DEF q
  <2>5. ~Operational(q.db.svr.pstat)
    BY <1>1, <1>2, <1>6, <2>4 DEF FileOK, IsOwned, SameFile
  <2>6. q.db.profile = None => ~q.mem.doxm.owned
    BY <1>1, <1>2, <2>1, <2>4 DEF FileOK, Factory, SameFile, Holds
  <2> DEFINE p == SaveDoxm(q)
  <2>7. /\ Good(p) /\ p.mem = q.mem /\ p.ok = q.ok
        /\ Stores(p, q, q.mem.doxm, q.db.svr.pstat, q.db.svr.acl, q.db.svr.cred)
    BY <2>4, <2>5, <2>6, SavedDoxm
  <2>8. InitDoxmResource(o) = p
    BY <2>2, <2>3
  <2> HIDE DEF p
  <2>9. p.mem.doxm = y /\ p.db.svr.doxm = y
    BY <2>4, <2>7 DEF Holds, Stores
  <2>10. Forget(y) = y
    BY <1>2, <2>1 DEF Forget, Doxm
  <2>11. LoadDoxm(p.db) = y
    BY <2>1, <2>9, <2>10, NoneAssumption DEF LoadDoxm
  <2>12. DoxmLoaded(p, o.db)
    BY <1>2, <1>6, <2>1, <2>9, <2>11, UuidAssumption DEF DoxmLoaded, IsOwned, x
  <2> QED  BY <2>4, <2>7, <2>8, <2>12 DEF Holds, Stores, SameFile
<1> QED  BY <1>5, <1>6

LEMMA DefaultPstatType == DefaultPstat \in Pstat
BY UuidAssumption DEF DefaultPstat, Pstat, State

PstatLoaded(p, o) ==
  /\ o.mem.static => p.mem.pstat = o.mem.pstat /\ p.mem.static
  /\ ~o.mem.static /\ o.db.svr.pstat = None => p.mem.pstat = DefaultPstat /\ p.mem.static
  /\ ~o.mem.static /\ o.db.svr.pstat # None => p.mem.pstat = o.db.svr.pstat /\ ~p.mem.static

LEMMA InitsPstat ==
  ASSUME NEW o, Good(o)
  PROVE  LET p == InitPstatResource(o)
         IN  /\ Good(p) /\ SameFile(p, o) /\ PstatLoaded(p, o)
             /\ Holds(p, o.mem.doxm, p.mem.pstat, o.mem.acl, o.mem.cred, p.mem.static)
<1>1. o \in Progress /\ o.db.svr.pstat \in Pstat \cup {None}
  BY ProgressParts DEF Good
<1>2. CASE o.mem.static
  BY <1>2 DEF InitPstatResource, SameFile, PstatLoaded, Holds
<1>3. CASE ~o.mem.static /\ o.db.svr.pstat = None
  <2> DEFINE p == [o EXCEPT !.mem.pstat = DefaultPstat, !.mem.static = TRUE]
  <2>1. /\ p \in Progress /\ SameFile(p, o)
        /\ Holds(p, o.mem.doxm, DefaultPstat, o.mem.acl, o.mem.cred, TRUE)
    BY <1>1, DefaultPstatType, SetStatic
  <2>2. InitPstatResource(o) = p
    BY <1>3 DEF InitPstatResource
  <2> HIDE DEF p
  <2> QED  BY <1>3, <2>1, <2>2, GoodSame DEF Holds, PstatLoaded
<1>4. CASE ~o.mem.static /\ o.db.svr.pstat # None
  <2> DEFINE p == [o EXCEPT !.mem.pstat = o.db.svr.pstat]
  <2>1. /\ p \in Progress /\ SameFile(p, o)
        /\ Holds(p, o.mem.doxm, o.db.svr.pstat, o.mem.acl, o.mem.cred, o.mem.static)
    BY <1>1, <1>4, SetPstat
  <2>2. InitPstatResource(o) = p
    BY <1>4 DEF InitPstatResource
  <2> HIDE DEF p
  <2> QED  BY <1>4, <2>1, <2>2, GoodSame DEF Holds, PstatLoaded
<1> QED  BY <1>2, <1>3, <1>4

LEMMA InitsAcl ==
  ASSUME NEW o, Good(o)
  PROVE  LET p == InitACLResource(o)
         IN  /\ Good(p) /\ SameFile(p, o)
             /\ Holds(p, o.mem.doxm, o.mem.pstat, p.mem.acl, o.mem.cred, o.mem.static)
<1> DEFINE u == IF o.db.svr.acl = None THEN o.mem.doxm.deviceuuid ELSE o.db.svr.acl
           p == [o EXCEPT !.mem.acl = u]
<1>1. o \in Progress /\ u \in Uuid
  BY ProgressParts DEF Good, Doxm
<1>2. InitACLResource(o) = p
  BY DEF InitACLResource
<1> HIDE DEF u
<1>3. p \in Progress /\ SameFile(p, o) /\ Holds(p, o.mem.doxm, o.mem.pstat, u, o.mem.cred, o.mem.static)
  BY <1>1, SetAcl
<1> HIDE DEF p
<1> QED  BY <1>2, <1>3, GoodSame DEF Holds

LEMMA InitsCred ==
  ASSUME NEW o, Good(o)
  PROVE  LET p == InitCredResource(o)
         IN  /\ Good(p) /\ p.ok = o.ok
             /\ Holds(p, o.mem.doxm, o.mem.pstat, o.mem.acl, p.mem.cred, o.mem.static)
             /\ Stores(p, o, o.db.svr.doxm, o.db.svr.pstat, o.db.svr.acl, p.db.svr.cred)
             /\ p.mem.cred.list = Stored(o.db.svr.cred) /\ Stored(p.db.svr.cred) = Stored(o.db.svr.cred)
             /\ Unique(p.mem.cred.list)
<1>1. /\ o \in Progress /\ FileOK(o.db) /\ o.db.svr.cred \in Cred \cup {None} /\ o.mem.cred \in Cred
      /\ o.mem.doxm.deviceuuid \in Uuid
  BY ProgressParts DEF Good, Doxm
<1>2. CASE o.db.svr.cred = None
  <2> DEFINE c == [o.mem.cred EXCEPT !.list = {}]
             p == [o EXCEPT !.mem.cred = c]
  <2>1. c \in Cred /\ c.list = {}
    BY <1>1 DEF Cred
  <2>2. InitCredResource(o) = p
    BY <1>1, <1>2 DEF InitCredResource, Progress, Memory
  <2> HIDE DEF c
  <2>3. p \in Progress /\ SameFile(p, o) /\ Holds(p, o.mem.doxm, o.mem.pstat, o.mem.acl, c, o.mem.static)
    BY <1>1, <2>1, SetCred
  <2> HIDE DEF p
  <2> QED  BY <1>2, <2>1, <2>2, <2>3, GoodSame DEF Holds, SameFile, Stores, Stored, Unique
<1>3. CASE o.db.svr.cred # None
  <2> DEFINE c == OwnedBy(o.db.svr.cred, o.mem.doxm.deviceuuid)
             q == [o EXCEPT !.mem.cred = c]
             p == SaveCred(q)
  <2>1. c \in Cred /\ c.list = o.db.svr.cred.list
    BY <1>1, <1>3 DEF Cred, OwnedBy
  <2>2. InitCredResource(o) = p
    BY <1>3 DEF InitCredResource
  <2>3. Unique(c.list)
    BY <1>1, <1>3, <2>1 DEF FileOK, UniqueEntry
  <2> HIDE DEF c
  <2>4. q \in Progress /\ SameFile(q, o) /\ Holds(q, o.mem.doxm, o.mem.pstat, o.mem.acl, c, o.mem.static)
    BY <1>1, <2>1, SetCred
  <2> HIDE DEF q
  <2>5. Good(q) /\ Unique(q.mem.cred.list)
    BY <2>3, <2>4, GoodSame DEF Holds
  <2>6. /\ Good(p) /\ p.mem = q.mem /\ p.ok = q.ok
        /\ Stores(p, q, q.db.svr.doxm, q.db.svr.pstat, q.db.svr.acl, p.db.svr.cred)
        /\ Stored(p.db.svr.cred) = q.mem.cred.list
    BY <2>5, SavedCred
  <2> HIDE DEF p
  <2> QED  BY <1>3, <2>1, <2>2, <2>3, <2>4, <2>6 DEF Holds, SameFile, Stores, Stored
<1> QED  BY <1>2, <1>3

LEMMA Inits ==
  ASSUME NEW o, Good(o)
  PROVE  LET p == InitSecureResources(o)
         IN  /\ Good(p) /\ p.ok = o.ok /\ DoxmLoaded(p, o.db) /\ PstatLoaded(p, o)
             /\ p.db.profile = o.db.profile /\ p.db.svr.pstat = o.db.svr.pstat
             /\ p.mem.cred.list = Stored(o.db.svr.cred) /\ Stored(p.db.svr.cred) = Stored(o.db.svr.cred)
             /\ Unique(p.mem.cred.list)
<1> DEFINE a == InitDoxmResource(o)
           b == InitPstatResource(a)
           c == InitACLResource(b)
           p == InitCredResource(c)
<1>1. /\ Good(a) /\ a.ok = o.ok /\ DoxmLoaded(a, o.db)
      /\ Holds(a, a.mem.doxm, o.mem.pstat, o.mem.acl, o.mem.cred, o.mem.static)
      /\ Stores(a, o, a.db.svr.doxm, o.db.svr.pstat, o.db.svr.acl, o.db.svr.cred)
  BY InitsDoxm
<1>2. InitSecureResources(o) = p
  BY DEF InitSecureResources
<1> HIDE DEF a
<1>3. /\ Good(b) /\ SameFile(b, a) /\ PstatLoaded(b, a)
      /\ Holds(b, a.mem.doxm, b.mem.pstat, a.mem.acl, a.mem.cred, b.mem.static)
  BY <1>1, InitsPstat
<1> HIDE DEF b
<1>4. Good(c) /\ SameFile(c, b) /\ Holds(c, b.mem.doxm, b.mem.pstat, c.mem.acl, b.mem.cred, b.mem.static)
  BY <1>3, InitsAcl
<1> HIDE DEF c
<1>5. /\ Good(p) /\ p.ok = c.ok
      /\ Holds(p, c.mem.doxm, c.mem.pstat, c.mem.acl, p.mem.cred, c.mem.static)
      /\ Stores(p, c, c.db.svr.doxm, c.db.svr.pstat, c.db.svr.acl, p.db.svr.cred)
      /\ p.mem.cred.list = Stored(c.db.svr.cred) /\ Stored(p.db.svr.cred) = Stored(c.db.svr.cred)
      /\ Unique(p.mem.cred.list)
  BY <1>4, InitsCred
<1> HIDE DEF p
<1>6. /\ p.mem.doxm = a.mem.doxm /\ p.db.svr.doxm = a.db.svr.doxm
      /\ p.mem.pstat = b.mem.pstat /\ p.mem.static = b.mem.static
  BY <1>3, <1>4, <1>5 DEF Holds, SameFile, Stores
<1>7. DoxmLoaded(p, o.db)
  <2>1. LoadDoxm(p.db) = LoadDoxm(a.db)
    BY <1>6 DEF LoadDoxm
  <2> QED  BY <1>1, <1>6, <2>1 DEF DoxmLoaded
<1>8. PstatLoaded(p, o)
  <2>1. a.mem.static = o.mem.static /\ a.mem.pstat = o.mem.pstat /\ a.db.svr.pstat = o.db.svr.pstat
    BY <1>1 DEF Holds, Stores
  <2> QED  BY <1>3, <1>6, <2>1 DEF PstatLoaded
<1>9. /\ p.ok = o.ok /\ p.db.profile = o.db.profile /\ p.db.svr.pstat = o.db.svr.pstat
      /\ p.mem.cred.list = Stored(o.db.svr.cred) /\ Stored(p.db.svr.cred) = Stored(o.db.svr.cred)
  BY <1>1, <1>3, <1>4, <1>5 DEF SameFile, Stores
<1> QED  BY <1>2, <1>5, <1>7, <1>8, <1>9

-----------------------------------------------------------------------------
(* What memory and file owe each other while the process runs.  An owner   *)
(* that is complete is saved, pstat of a device that is not trapped is the *)
(* one on file, and past the transfer the device is owned.                 *)
Core(m, d) ==
  /\ m \in Memory /\ Unique(m.cred.list) /\ d.profile # None
  /\ m.static => d.profile.pstat = None
  /\ m.doxm.owned /\ m.doxm.owner # Nil => d.svr.doxm = m.doxm
  /\ m.pstat.pending => d.profile.pstat = None
  /\ ~m.pstat.pending /\ m.pstat.dos # "RFOTM" => m.pstat.dos \in Past /\ IsOwned(m.doxm)

Agree(m, d) ==
  IF m.pstat.pending THEN d.svr.pstat # None /\ d.svr.pstat.pending
  ELSE IF d.svr.pstat = None THEN m.pstat.dos = "RFOTM"
  ELSE /\ ~d.svr.pstat.pending
       /\ d.svr.pstat.dos = m.pstat.dos /\ d.svr.pstat.isop = m.pstat.isop

Sound(o) == Good(o) /\ Core(o.mem, o.db) /\ Agree(o.mem, o.db)

LEMMA SoundPstat ==
  ASSUME NEW o, Good(o), Core(o.mem, o.db)
  PROVE  Sound(SavePstat(o))
<1> DEFINE p == SavePstat(o)
<1>1. Operational(o.mem.pstat) =>
        o.mem.pstat.dos \in Past /\ o.db.svr.doxm # None /\ IsOwned(o.db.svr.doxm)
  <2>1. o.mem.doxm \in Doxm
    BY ProgressParts DEF Good
  <2> QED  BY <2>1, NoneAssumption DEF Core, Operational, IsOwned
<1>2. /\ Good(p) /\ p.mem = o.mem /\ p.ok = o.ok
      /\ Stores(p, o, o.db.svr.doxm, o.mem.pstat, o.db.svr.acl, o.db.svr.cred)
  BY <1>1, SavedPstat DEF Core
<1>3. o.mem.pstat \in Pstat
  BY ProgressParts DEF Good
<1> HIDE DEF p
<1>4. Core(p.mem, p.db)
  BY <1>2 DEF Core, Stores
<1>5. Agree(p.mem, p.db)
  BY <1>2, <1>3, NoneAssumption DEF Agree, Stores
<1> QED  BY <1>2, <1>4, <1>5 DEF Sound, p

(* The parts that requests for acl and cred leave alone.                   *)
LEMMA SoundElsewhere ==
  ASSUME NEW o, Sound(o), NEW p, Good(p), Unique(p.mem.cred.list),
         Holds(p, o.mem.doxm, o.mem.pstat, p.mem.acl, p.mem.cred, o.mem.static),
         Stores(p, o, o.db.svr.doxm, o.db.svr.pstat, p.db.svr.acl, p.db.svr.cred)
  PROVE  Sound(p)
<1>1. p.mem \in Memory
  BY ProgressParts DEF Good
<1> QED  BY <1>1 DEF Sound, Core, Agree, Holds, Stores

LEMMA SoundRefused ==
  ASSUME NEW o, Sound(o)
  PROVE  Sound(Refuse(o))
<1>1. Good(Refuse(o)) /\ Refuse(o).mem = o.mem /\ Refuse(o).db = o.db
  BY Refused DEF Sound
<1> QED  BY <1>1 DEF Sound

-----------------------------------------------------------------------------
(* The handlers of doxm, acl and cred.                                     *)
DoxmFields(p) ==
  /\ "owned" \in DOMAIN p => p["owned"] \in BOOLEAN
  /\ "owner" \in DOMAIN p => p["owner"] \in Uuid
  /\ "deviceuuid" \in DOMAIN p => p["deviceuuid"] \in Uuid
  /\ "rowneruuid" \in DOMAIN p => p["rowneruuid"] \in Uuid

LEMMA UpdateType ==
  ASSUME NEW x \in Doxm, NEW p, DoxmFields(p)
  PROVE  /\ Update(x, p) \in Doxm
         /\ "owned" \notin DOMAIN p => Update(x, p).owned = x.owned
         /\ "owner" \notin DOMAIN p => Update(x, p).owner = x.owner
         /\ "deviceuuid" \notin DOMAIN p => Update(x, p).deviceuuid = x.deviceuuid
<1>1. DOMAIN x = {"owned", "owner", "deviceuuid", "rowneruuid"}
  BY DEF Doxm
<1> DEFINE y == Update(x, p)
<1>2. DOMAIN y = {"owned", "owner", "deviceuuid", "rowneruuid"}
  BY <1>1 DEF Update
<1>3. /\ y.owned = IF "owned" \in DOMAIN p THEN p["owned"] ELSE x.owned
      /\ y.owner = IF "owner" \in DOMAIN p THEN p["owner"] ELSE x.owner
      /\ y.deviceuuid = IF "deviceuuid" \in DOMAIN p THEN p["deviceuuid"] ELSE x.deviceuuid
      /\ y.rowneruuid = IF "rowneruuid" \in DOMAIN p THEN p["rowneruuid"] ELSE x.rowneruuid
  BY <1>1 DEF Update
<1>4. y = [f \in {"owned", "owner", "deviceuuid", "rowneruuid"} |-> y[f]]
  BY <1>1 DEF Update
<1> HIDE DEF y
<1>5. y.owned \in BOOLEAN /\ y.owner \in Uuid /\ y.deviceuuid \in Uuid /\ y.rowneruuid \in Uuid
  BY <1>3 DEF DoxmFields, Doxm
<1>6. y = [owned |-> y.owned, owner |-> y.owner, deviceuuid |-> y.deviceuuid, rowneruuid |-> y.rowneruuid]
  BY <1>4
<1>7. y \in Doxm
  BY <1>5, <1>6 DEF Doxm
<1> QED  BY <1>3, <1>7 DEF y

LEMMA DoxmHandled ==
  ASSUME NEW o, Sound(o), NEW p, DoxmFields(p), NEW otm
  PROVE  Sound(HandleDoxmPostRequest(o, p, otm))
<1> DEFINE y == Update(o.mem.doxm, p)
           q == [o EXCEPT !.mem.doxm = y]
<1>1. o \in Progress /\ Good(o) /\ o.mem.doxm \in Doxm /\ o.mem.pstat \in Pstat
  BY ProgressParts DEF Sound, Good
<1>2. CASE ReadOnly(o.mem) \/ ~(DOMAIN p \subseteq DoxmWriteable(o.mem.pstat.dos))
  BY <1>2, SoundRefused DEF HandleDoxmPostRequest
<1>3. CASE ~ReadOnly(o.mem) /\ DOMAIN p \subseteq DoxmWriteable(o.mem.pstat.dos)
  <2>1. HandleDoxmPostRequest(o, p, otm) = StartOwnershipTransfer(q, otm)
    BY <1>3 DEF HandleDoxmPostRequest
  <2>2. /\ y \in Doxm
        /\ "owned" \notin DOMAIN p => y.owned = o.mem.doxm.owned
        /\ "owner" \notin DOMAIN p => y.owner = o.mem.doxm.owner
        /\ "deviceuuid" \notin DOMAIN p => y.deviceuuid = o.mem.doxm.deviceuuid
    BY <1>1, UpdateType
  <2> HIDE DEF y
  <2>3. /\ q \in Progress /\ SameFile(q, o)
        /\ Holds(q, y, o.mem.pstat, o.mem.acl, o.mem.cred, o.mem.static)
    BY <1>1, <2>2, SetDoxm
  <2> HIDE DEF q
  <2>4. Good(q) /\ q.mem \in Memory
    BY <1>1, <2>3, GoodSame, ProgressParts
  <2>5. o.mem.pstat.dos # "RFOTM" => (IsOwned(o.mem.doxm) => IsOwned(y))
    <3>1. o.mem.pstat.dos # "RFOTM" =>
            "owned" \notin DOMAIN p /\ "owner" \notin DOMAIN p /\ "deviceuuid" \notin DOMAIN p
      BY <1>3 DEF DoxmWriteable
    <3> QED  BY <2>2, <3>1 DEF IsOwned
  <2>6. CASE otm = "refused" /\ MayRefuse(q.mem)
    <3>1. StartOwnershipTransfer(q, otm) = Refuse(q)
      BY <2>6 DEF StartOwnershipTransfer
    <3>2. Core(q.mem, q.db)
      BY <2>3, <2>4, <2>6 DEF Sound, Core, MayRefuse, Holds, SameFile
    <3>3. Agree(q.mem, q.db)
      BY <2>3 DEF Sound, Agree, Holds, SameFile
    <3>4. Sound(q)
      BY <2>4, <3>2, <3>3 DEF Sound
    <3> QED  BY <2>1, <3>1, <3>4, SoundRefused
  <2>7. CASE ~(otm = "refused" /\ MayRefuse(q.mem))
    <3> DEFINE r == SaveDoxm(q)
    <3>1. StartOwnershipTransfer(q, otm) = r
      BY <2>7 DEF StartOwnershipTransfer
    <3>2. Operational(q.db.svr.pstat) => IsOwned(q.mem.doxm)
      BY <2>3, <2>5 DEF Sound, Core, Agree, Operational, Holds, SameFile
    <3>3. q.db.profile # None
      BY <2>3 DEF Sound, Core, SameFile
    <3>4. /\ Good(r) /\ r.mem = q.mem /\ r.ok = q.ok
          /\ Stores(r, q, q.mem.doxm, q.db.svr.pstat, q.db.svr.acl, q.db.svr.cred)
      BY <2>4, <3>2, <3>3, SavedDoxm
    <3> HIDE DEF r
    <3>5. Core(r.mem, r.db)
      BY <2>3, <2>4, <2>5, <3>4 DEF Sound, Core, Holds, SameFile, Stores
    <3>6. Agree(r.mem, r.db)
      BY <2>3, <3>4 DEF Sound, Agree, Holds, SameFile, Stores
    <3>7. Sound(r)
      BY <3>4, <3>5, <3>6 DEF Sound
    <3> QED  BY <2>1, <3>1, <3>7
  <2> QED  BY <2>6, <2>7
<1> QED  BY <1>2, <1>3

LEMMA AclHandled ==
  ASSUME NEW o, Sound(o), NEW rowner \in Uuid, NEW first \in BOOLEAN
  PROVE  Sound(HandleACLPostRequest(o, rowner, first))
<1>1. o \in Progress /\ Good(o)
  BY DEF Sound, Good
<1>2. CASE ReadOnly(o.mem)
  BY <1>2, SoundRefused DEF HandleACLPostRequest
<1>3. CASE ~ReadOnly(o.mem)
  <2> DEFINE q == IF first \/ o.mem.acl = Nil THEN [o EXCEPT !.mem.acl = rowner] ELSE o
             p == SaveAcl(q)
  <2>1. HandleACLPostRequest(o, rowner, first) = p
    BY <1>3 DEF HandleACLPostRequest
  <2>2. /\ Good(q) /\ SameFile(q, o)
        /\ Holds(q, o.mem.doxm, o.mem.pstat, q.mem.acl, o.mem.cred, o.mem.static)
    <3>1. CASE first \/ o.mem.acl = Nil
      <4> DEFINE r == [o EXCEPT !.mem.acl = rowner]
      <4>1. r \in Progress /\ SameFile(r, o) /\ Holds(r, o.mem.doxm, o.mem.pstat, rowner, o.mem.cred, o.mem.static)
        BY <1>1, SetAcl
      <4>2. q = r
        BY <3>1
      <4> HIDE DEF r, q
      <4> QED  BY <1>1, <4>1, <4>2, GoodSame DEF Holds
    <3>2. CASE ~(first \/ o.mem.acl = Nil)
      BY <1>1, <3>2 DEF Holds, SameFile
    <3> QED  BY <3>1, <3>2
  <2> HIDE DEF q
  <2>3. /\ Good(p) /\ p.mem = q.mem /\ p.ok = q.ok
        /\ Stores(p, q, q.db.svr.doxm, q.db.svr.pstat, q.mem.acl, q.db.svr.cred)
    BY <2>2, SavedAcl
  <2> HIDE DEF p
  <2>4. Unique(p.mem.cred.list)
    BY <2>2, <2>3 DEF Sound, Core, Holds
  <2>5. /\ Holds(p, o.mem.doxm, o.mem.pstat, p.mem.acl, p.mem.cred, o.mem.static)
        /\ Stores(p, o, o.db.svr.doxm, o.db.svr.pstat, p.db.svr.acl, p.db.svr.cred)
    BY <2>2, <2>3 DEF Holds, Stores, SameFile
  <2> QED  BY <2>1, <2>3, <2>4, <2>5, SoundElsewhere
<1> QED  BY <1>2, <1>3

(* Only acl and cred change from o to p, in memory and in the file.        *)
Elsewhere(p, o) ==
  /\ Good(p) /\ p.ok = o.ok
  /\ Holds(p, o.mem.doxm, o.mem.pstat, p.mem.acl, p.mem.cred, o.mem.static)
  /\ Stores(p, o, o.db.svr.doxm, o.db.svr.pstat, p.db.svr.acl, p.db.svr.cred)

LEMMA CredSaved ==
  ASSUME NEW o, Good(o), NEW list \in SUBSET Credential, Unique(list)
  PROVE  LET p == SaveCred([o EXCEPT !.mem.cred.list = list])
         IN  Elsewhere(p, o) /\ p.mem.cred.list = list
<1> DEFINE c == [o.mem.cred EXCEPT !.list = list]
           q == [o EXCEPT !.mem.cred = c]
           p == SaveCred(q)
<1>1. o \in Progress /\ o.mem.cred \in Cred
  BY ProgressParts DEF Good
<1>2. c \in Cred /\ c.list = list
  BY <1>1 DEF Cred
<1>3. [o EXCEPT !.mem.cred.list = list] = q
  BY <1>1 DEF Progress, Memory
<1> HIDE DEF c
<1>4. q \in Progress /\ SameFile(q, o) /\ Holds(q, o.mem.doxm, o.mem.pstat, o.mem.acl, c, o.mem.static)
  BY <1>1, <1>2, SetCred
<1> HIDE DEF q
<1>5. Good(q) /\ Unique(q.mem.cred.list)
  BY <1>2, <1>4, GoodSame DEF Holds
<1>6. /\ Good(p) /\ p.mem = q.mem /\ p.ok = q.ok
      /\ Stores(p, q, q.db.svr.doxm, q.db.svr.pstat, q.db.svr.acl, p.db.svr.cred)
  BY <1>5, SavedCred
<1> HIDE DEF p
<1>7. Elsewhere(p, o) /\ p.mem.cred.list = list
  BY <1>2, <1>4, <1>6 DEF Elsewhere, Holds, SameFile, Stores
<1> QED  BY <1>3, <1>7 DEF p

LEMMA LeastNat ==
  ASSUME NEW T \in SUBSET Nat, T # {}
  PROVE  \E x \in T : \A y \in T : x <= y
<1>1. PICK x \in T : \A y \in T : ~ (<<y, x>> \in OpToRel(<, Nat))
  BY NatLessThanWellFounded, WFMin, Zenon
<1>2. \A y \in T : ~ (y < x)
  BY <1>1 DEF OpToRel
<1> QED  BY <1>2

Asked == [credid : CredId \cup {0}, subject : Uuid, secret : Secret]

LEMMA Added ==
  ASSUME NEW list \in SUBSET Credential, Unique(list), NEW c \in Asked,
         c.credid = 0 => FreeCredId(list) # {}
  PROVE  AddCredential(list, c) \in SUBSET Credential /\ Unique(AddCredential(list, c))
<1>1. CASE c.credid = 0
  <2> DEFINE i == GetCredId(list)
             x == [c EXCEPT !.credid = i]
  <2>1. FreeCredId(list) \in SUBSET Nat /\ FreeCredId(list) # {}
    BY <1>1, CredIdAssumption DEF FreeCredId
  <2>2. \E j \in FreeCredId(list) : \A k \in FreeCredId(list) : j <= k
    BY <2>1, LeastNat
  <2>3. i \in FreeCredId(list)
    BY <2>2 DEF GetCredId
  <2> HIDE DEF i
  <2>4. x \in Credential /\ x.credid = i
    BY <2>3 DEF Asked, Credential, FreeCredId
  <2>5. AddCredential(list, c) = list \cup {x}
    BY <1>1 DEF AddCredential, i
  <2> HIDE DEF x
  <2>6. \A y \in list : y.credid # x.credid
    BY <2>3, <2>4 DEF FreeCredId
  <2> QED  BY <2>4, <2>5, <2>6 DEF Unique
<1>2. CASE c.credid # 0
  <2>1. c \in Credential
    BY <1>2 DEF Asked, Credential
  <2>2. AddCredential(list, c) = { x \in list : x.credid # c.credid } \cup {c}
    BY <1>2 DEF AddCredential
  <2> QED  BY <2>1, <2>2 DEF Unique
<1> QED  BY <1>1, <1>2

LEMMA NewSaved ==
  ASSUME NEW o, Good(o), Unique(o.mem.cred.list), NEW c \in Asked,
         c.credid = 0 => FreeCredId(o.mem.cred.list) # {}
  PROVE  LET p == SaveNewCredential(o, c)
         IN  Elsewhere(p, o) /\ Unique(p.mem.cred.list)
<1> DEFINE list == AddCredential(o.mem.cred.list, c)
<1>1. o \in Progress /\ o.mem.cred.list \in SUBSET Credential
  BY ProgressParts DEF Good, Cred
<1>2. list \in SUBSET Credential /\ Unique(list)
  BY <1>1, Added
<1>3. SaveNewCredential(o, c) = SaveCred([o EXCEPT !.mem.cred.list = list])
  BY <1>1 DEF SaveNewCredential, Progress, Memory
<1> HIDE DEF list
<1> QED  BY <1>2, <1>3, CredSaved

LEMMA CredRemoved ==
  ASSUME NEW o, Good(o), Unique(o.mem.cred.list), NEW gone
  PROVE  LET p == RemoveCredential(o, gone)
         IN  /\ Elsewhere(p, o) /\ Unique(p.mem.cred.list)
             /\ p.mem.cred.list \in SUBSET o.mem.cred.list
<1>1. CASE gone = {}
  <2>1. RemoveCredential(o, gone) = o
    BY <1>1 DEF RemoveCredential
  <2> QED  BY <2>1 DEF Elsewhere, Holds, Stores
<1>2. CASE gone # {}
  <2> DEFINE list == o.mem.cred.list \ gone
  <2>1. o \in Progress /\ o.mem.cred.list \in SUBSET Credential
    BY ProgressParts DEF Good, Cred
  <2>2. list \in SUBSET Credential /\ Unique(list) /\ list \in SUBSET o.mem.cred.list
    BY <2>1 DEF Unique
  <2>3. RemoveCredential(o, gone) = SaveCred([o EXCEPT !.mem.cred.list = list])
    BY <1>2, <2>1 DEF RemoveCredential, Progress, Memory
  <2> HIDE DEF list
  <2> QED  BY <2>2, <2>3, CredSaved
<1> QED  BY <1>1, <1>2

LEMMA CredHandled ==
  ASSUME NEW o, Sound(o), NEW c \in Asked, NEW psk \in Secret, NEW rowner \in Uuid,
         c.credid = 0 => FreeCredId(o.mem.cred.list) # {}
  PROVE  Sound(HandleCredPostRequest(o, c, psk, rowner))
<1>1. Good(o) /\ Unique(o.mem.cred.list)
  BY DEF Sound, Core
<1>2. CASE ReadOnly(o.mem)
  BY <1>2, SoundRefused DEF HandleCredPostRequest
<1>3. CASE ~ReadOnly(o.mem)
  <2> DEFINE n == HandleNewCredential(o, c, psk)
             x == [n.mem.cred EXCEPT !.rowneruuid = rowner]
             p == [n EXCEPT !.mem.cred = x]
  <2>1. Elsewhere(n, o) /\ Unique(n.mem.cred.list)
    <3>1. CASE IsOwnerPsk(o.mem, c)
      <4> DEFINE gone == WithSubject(o.mem.cred.list, c.subject)
                 r == RemoveCredential(o, gone)
                 k == [c EXCEPT !.secret = psk]
      <4>1. /\ Elsewhere(r, o) /\ Unique(r.mem.cred.list)
            /\ r.mem.cred.list \in SUBSET o.mem.cred.list
        BY <1>1, CredRemoved
      <4>2. k \in Asked /\ k.credid = c.credid
        BY DEF Asked
      <4>3. n = SaveNewCredential(r, k)
        BY <3>1 DEF HandleNewCredential
      <4> HIDE DEF gone, r, k, n
      <4>4. k.credid = 0 => FreeCredId(r.mem.cred.list) # {}
        BY <4>1, <4>2 DEF FreeCredId
      <4>5. Elsewhere(n, r) /\ Unique(n.mem.cred.list)
        BY <4>1, <4>2, <4>3, <4>4, NewSaved DEF Elsewhere
      <4> QED  BY <4>1, <4>5 DEF Elsewhere, Holds, Stores
    <3>2. CASE ~IsOwnerPsk(o.mem, c)
      <4>1. n = SaveNewCredential(o, c)
        BY <3>2 DEF HandleNewCredential
      <4> QED  BY <1>1, <4>1, NewSaved
    <3> QED  BY <3>1, <3>2
  <2>2. HandleCredPostRequest(o, c, psk, rowner) = [n EXCEPT !.mem.cred.rowneruuid = rowner]
    BY <1>3 DEF HandleCredPostRequest, CopyRowner
  <2> HIDE DEF n
  <2>3. n \in Progress /\ n.mem.cred \in Cred
    BY <2>1, ProgressParts DEF Elsewhere, Good
  <2>4. x \in Cred /\ x.list = n.mem.cred.list
    BY <2>3 DEF Cred
  <2>5. [n EXCEPT !.mem.cred.rowneruuid = rowner] = p
    BY <2>3 DEF Progress, Memory
  <2> HIDE DEF x
  <2>6. p \in Progress /\ SameFile(p, n) /\ Holds(p, n.mem.doxm, n.mem.pstat, n.mem.acl, x, n.mem.static)
    BY <2>3, <2>4, SetCred
  <2> HIDE DEF p
  <2>7. Good(p)
    BY <2>1, <2>6, GoodSame DEF Elsewhere
  <2>8. /\ Holds(p, o.mem.doxm, o.mem.pstat, p.mem.acl, p.mem.cred, o.mem.static)
        /\ Stores(p, o, o.db.svr.doxm, o.db.svr.pstat, p.db.svr.acl, p.db.svr.cred)
        /\ Unique(p.mem.cred.list)
    BY <2>1, <2>4, <2>6 DEF Elsewhere, Holds, Stores, SameFile
  <2> QED  BY <2>2, <2>5, <2>7, <2>8, SoundElsewhere
<1> QED  BY <1>2, <1>3

LEMMA CredDeleted ==
  ASSUME NEW o, Sound(o), NEW gone
  PROVE  Sound(HandleCredDeleteRequest(o, gone))
<1>1. Good(o) /\ Unique(o.mem.cred.list)
  BY DEF Sound, Core
<1>2. CASE ReadOnly(o.mem) \/ gone = {}
  BY <1>2, SoundRefused DEF HandleCredDeleteRequest
<1>3. CASE ~(ReadOnly(o.mem) \/ gone = {})
  <2> DEFINE p == RemoveCredential(o, gone)
  <2>1. Elsewhere(p, o) /\ Unique(p.mem.cred.list)
    BY <1>1, CredRemoved
  <2>2. HandleCredDeleteRequest(o, gone) = p
    BY <1>3 DEF HandleCredDeleteRequest
  <2> HIDE DEF p
  <2> QED  BY <2>1, <2>2, SoundElsewhere DEF Elsewhere
<1> QED  BY <1>2, <1>3

-----------------------------------------------------------------------------
(* The steps of a change of state.                                         *)
LEMMA Entered ==
  ASSUME NEW o, Good(o), NEW new \in State
  PROVE  LET p == EnterStateGeneric(o, new)
         IN  /\ Good(p) /\ SameFile(p, o)
             /\ Holds(p, o.mem.doxm, p.mem.pstat, o.mem.acl, o.mem.cred, o.mem.static)
             /\ p.mem.pstat.dos = new /\ p.mem.pstat.pending = o.mem.pstat.pending
<1> DEFINE x == [o.mem.pstat EXCEPT !.dos = new, !.isop = (new = "RFNOP"),
                                    !.takeOwner = (new = "RFOTM")]
           p == [o EXCEPT !.mem.pstat = x]
<1>1. o \in Progress /\ o.mem.pstat \in Pstat
  BY ProgressParts DEF Good
<1>2. x \in Pstat /\ x.dos = new /\ x.pending = o.mem.pstat.pending
  BY <1>1 DEF Pstat
<1>3. EnterStateGeneric(o, new) = p
  BY <1>1 DEF EnterStateGeneric, Progress, Memory
<1> HIDE DEF x
<1>4. p \in Progress /\ SameFile(p, o) /\ Holds(p, o.mem.doxm, x, o.mem.acl, o.mem.cred, o.mem.static)
  BY <1>1, <1>2, SetPstat
<1> HIDE DEF p
<1> QED  BY <1>2, <1>3, <1>4, GoodSame DEF Holds

LEMMA Marked ==
  ASSUME NEW o, Good(o), NEW b \in BOOLEAN
  PROVE  LET p == Pending(o, b)
         IN  /\ Good(p) /\ SameFile(p, o)
             /\ Holds(p, o.mem.doxm, p.mem.pstat, o.mem.acl, o.mem.cred, o.mem.static)
             /\ p.mem.pstat.dos = o.mem.pstat.dos /\ p.mem.pstat.isop = o.mem.pstat.isop
             /\ p.mem.pstat.pending = b
<1> DEFINE x == [o.mem.pstat EXCEPT !.pending = b]
           p == [o EXCEPT !.mem.pstat = x]
<1>1. o \in Progress /\ o.mem.pstat \in Pstat
  BY ProgressParts DEF Good
<1>2. x \in Pstat /\ x.dos = o.mem.pstat.dos /\ x.isop = o.mem.pstat.isop /\ x.pending = b
  BY <1>1 DEF Pstat
<1>3. Pending(o, b) = p
  BY <1>1 DEF Pending, Progress, Memory
<1> HIDE DEF x
<1>4. p \in Progress /\ SameFile(p, o) /\ Holds(p, o.mem.doxm, x, o.mem.acl, o.mem.cred, o.mem.static)
  BY <1>1, <1>2, SetPstat
<1> HIDE DEF p
<1> QED  BY <1>2, <1>3, <1>4, GoodSame DEF Holds

(* A device that has gone back to profile f, until its state is RFOTM.     *)
Erased(p, f) ==
  /\ Good(p) /\ p.db.profile = f /\ f # None
  /\ ~p.mem.doxm.owned /\ (p.db.svr.doxm # None => ~p.db.svr.doxm.owned)
  /\ p.mem.pstat.pending \/ p.mem.pstat.dos = "RFOTM"
  /\ p.mem.pstat.pending \/ p.mem.static => f.pstat = None
  /\ p.mem.cred.list = Stored(f.cred) /\ Stored(p.db.svr.cred) = Stored(f.cred)
  /\ Unique(p.mem.cred.list)

LEMMA BackToProfile ==
  ASSUME NEW o, Good(o), o.db.profile # None, o.mem.static => o.db.profile.pstat = None,
         o.mem.pstat.pending
  PROVE  LET p == ResetSecureResources(o)
         IN  Erased(p, o.db.profile) /\ p.ok = o.ok
<1> DEFINE f == o.db.profile
           a == InitSecureResources(o)
           d == [a.db EXCEPT !.svr = f]
           b == Write(a, d)
           p == InitSecureResources(b)
<1>1. /\ Good(a) /\ a.ok = o.ok /\ PstatLoaded(a, o)
      /\ a.db.profile = f /\ a.db.svr.pstat = o.db.svr.pstat
  BY Inits
<1>2. o \in Progress /\ FileOK(o.db) /\ o.db.svr.pstat \in Pstat \cup {None} /\ f \in Entries
  BY ProgressParts DEF Good
<1>3. ResetSecureResources(o) = p
  BY <1>1 DEF ResetSecureResources, ResetSecureResourceInPS
<1> HIDE DEF a
<1>4. a.db \in Database /\ FileOK(a.db)
  BY <1>1, ProgressParts DEF Good
<1>5. d \in Database /\ d.profile = f /\ d.svr = f
  BY <1>1, <1>2, <1>4 DEF Database
<1>6. FileOK(d)
  BY <1>1, <1>4, <1>5 DEF FileOK, Factory, Operational
<1> HIDE DEF d
<1>7. Good(b) /\ b.mem = a.mem /\ b.ok = a.ok /\ b.db = d
  BY <1>1, <1>6, Written
<1> HIDE DEF b
<1>8. /\ Good(p) /\ p.ok = b.ok /\ DoxmLoaded(p, b.db) /\ PstatLoaded(p, b)
      /\ p.db.profile = b.db.profile /\ p.db.svr.pstat = b.db.svr.pstat
      /\ p.mem.cred.list = Stored(b.db.svr.cred) /\ Stored(p.db.svr.cred) = Stored(b.db.svr.cred)
      /\ Unique(p.mem.cred.list)
  BY <1>7, Inits
<1> HIDE DEF p
<1>9. Factory(f)
  BY <1>2 DEF FileOK
<1>10. ~p.mem.doxm.owned /\ (p.db.svr.doxm # None => ~p.db.svr.doxm.owned)
  <2>1. p.db \in Database
    BY <1>8, ProgressParts DEF Good
  <2>2. ~LoadDoxm(b.db).owned
    BY <1>5, <1>7, <1>9, Loads DEF Factory
  <2> QED  BY <1>8, <2>1, <2>2, Loads DEF DoxmLoaded
<1>11. a.mem.static => /\ f.pstat = None
                       /\ a.mem.pstat.pending \/ a.mem.pstat.dos = "RFOTM"
  BY <1>1, <1>2 DEF PstatLoaded, FileOK, DefaultPstat
<1>12. p.mem.pstat.pending \/ p.mem.pstat.dos = "RFOTM"
  BY <1>5, <1>7, <1>8, <1>9, <1>11 DEF PstatLoaded, DefaultPstat, Factory
<1>13. p.mem.pstat.pending \/ p.mem.static => f.pstat = None
  BY <1>5, <1>7, <1>8, <1>9, <1>11 DEF PstatLoaded, DefaultPstat, Factory
<1>14. Erased(p, f) /\ p.ok = o.ok
  BY <1>1, <1>5, <1>7, <1>8, <1>10, <1>12, <1>13 DEF Erased
<1> QED  BY <1>3, <1>14

LEMMA DoxmAndAclReset ==
  ASSUME NEW o, NEW f, Erased(o, f)
  PROVE  LET p == ResetDoxmAndAcl(o)
         IN  Erased(p, f) /\ p.ok = o.ok
<1> DEFINE x == [o.mem.doxm EXCEPT !.owned = FALSE, !.owner = Nil]
           q == [o EXCEPT !.mem.doxm = x]
           r == [q EXCEPT !.mem.acl = Nil]
           p == SaveAcl(r)
<1>1. o \in Progress /\ Good(o) /\ o.mem.doxm \in Doxm
  BY ProgressParts DEF Good, Erased
<1>2. x \in Doxm /\ ~x.owned
  BY <1>1, UuidAssumption DEF Doxm
<1>3. ResetDoxmAndAcl(o) = p
  BY <1>1 DEF ResetDoxmAndAcl, Progress, Memory
<1> HIDE DEF x
<1>4. /\ q \in Progress /\ SameFile(q, o)
      /\ Holds(q, x, o.mem.pstat, o.mem.acl, o.mem.cred, o.mem.static)
  BY <1>1, <1>2, SetDoxm
<1> HIDE DEF q
<1>5. /\ r \in Progress /\ SameFile(r, q)
      /\ Holds(r, q.mem.doxm, q.mem.pstat, Nil, q.mem.cred, q.mem.static)
  BY <1>4, UuidAssumption, SetAcl
<1> HIDE DEF r
<1>6. Good(q) /\ Good(r)
  BY <1>1, <1>4, <1>5, GoodSame
<1>7. /\ Good(p) /\ p.mem = r.mem /\ p.ok = r.ok
      /\ Stores(p, r, r.db.svr.doxm, r.db.svr.pstat, r.mem.acl, r.db.svr.cred)
  BY <1>6, SavedAcl
<1> HIDE DEF p
<1>8. Erased(p, f) /\ p.ok = o.ok
  BY <1>2, <1>4, <1>5, <1>7 DEF Erased, Holds, SameFile, Stores
<1> QED  BY <1>3, <1>8

LEMMA CredRownerReset ==
  ASSUME NEW o, NEW f, Erased(o, f)
  PROVE  LET p == ResetCredRowner(o)
         IN  Erased(p, f) /\ p.ok = o.ok
<1>1. CASE o.mem.cred.rowneruuid = Nil
  BY <1>1 DEF ResetCredRowner
<1>2. CASE o.mem.cred.rowneruuid # Nil
  <2> DEFINE x == [o.mem.cred EXCEPT !.rowneruuid = Nil]
             q == [o EXCEPT !.mem.cred = x]
             p == SaveCred(q)
  <2>1. o \in Progress /\ Good(o) /\ o.mem.cred \in Cred
    BY ProgressParts DEF Good, Erased
  <2>2. x \in Cred /\ x.list = o.mem.cred.list
    BY <2>1, UuidAssumption DEF Cred
  <2>3. ResetCredRowner(o) = p
    BY <1>2, <2>1 DEF ResetCredRowner, Progress, Memory
  <2> HIDE DEF x
  <2>4. /\ q \in Progress /\ SameFile(q, o)
        /\ Holds(q, o.mem.doxm, o.mem.pstat, o.mem.acl, x, o.mem.static)
    BY <2>1, <2>2, SetCred
  <2> HIDE DEF q
  <2>5. Good(q) /\ Unique(q.mem.cred.list)
    BY <2>1, <2>2, <2>4, GoodSame DEF Holds, Erased
  <2>6. /\ Good(p) /\ p.mem = q.mem /\ p.ok = q.ok
        /\ Stores(p, q, q.db.svr.doxm, q.db.svr.pstat, q.db.svr.acl, p.db.svr.cred)
        /\ Stored(p.db.svr.cred) = q.mem.cred.list
    BY <2>5, SavedCred
  <2> HIDE DEF p
  <2>7. Erased(p, f) /\ p.ok = o.ok
    BY <2>2, <2>4, <2>6 DEF Erased, Holds, SameFile, Stores
  <2> QED  BY <2>3, <2>7
<1> QED  BY <1>1, <1>2

LEMMA RownersReset ==
  ASSUME NEW o, NEW f, Erased(o, f)
  PROVE  LET p == ResetRowners(o)
         IN  Erased(p, f) /\ p.ok = o.ok
<1> DEFINE x == [o.mem.doxm EXCEPT !.rowneruuid = Nil]
           y == [o.mem.pstat EXCEPT !.rowneruuid = Nil]
           q == [o EXCEPT !.mem.doxm = x]
           r == [q EXCEPT !.mem.pstat = y]
           p == SavePstat(r)
<1>1. o \in Progress /\ Good(o) /\ o.mem.doxm \in Doxm /\ o.mem.pstat \in Pstat
  BY ProgressParts DEF Good, Erased
<1>2. /\ x \in Doxm /\ x.owned = o.mem.doxm.owned
      /\ y \in Pstat /\ y.dos = o.mem.pstat.dos /\ y.pending = o.mem.pstat.pending
  BY <1>1, UuidAssumption DEF Doxm, Pstat
<1>3. ResetRowners(o) = p
  BY <1>1 DEF ResetRowners, Progress, Memory
<1> HIDE DEF x, y
<1>4. /\ q \in Progress /\ SameFile(q, o)
      /\ Holds(q, x, o.mem.pstat, o.mem.acl, o.mem.cred, o.mem.static)
  BY <1>1, <1>2, SetDoxm
<1> HIDE DEF q
<1>5. /\ r \in Progress /\ SameFile(r, q)
      /\ Holds(r, q.mem.doxm, y, q.mem.acl, q.mem.cred, q.mem.static)
  BY <1>2, <1>4, SetPstat
<1> HIDE DEF r
<1>6. Good(q) /\ Good(r)
  BY <1>1, <1>4, <1>5, GoodSame
<1>7. Erased(r, f)
  BY <1>2, <1>4, <1>5, <1>6 DEF Erased, Holds, SameFile
<1>8. ~Operational(r.mem.pstat)
  BY <1>7 DEF Erased, Operational
<1>9. /\ Good(p) /\ p.mem = r.mem /\ p.ok = r.ok
      /\ Stores(p, r, r.db.svr.doxm, r.mem.pstat, r.db.svr.acl, r.db.svr.cred)
  BY <1>7, <1>8, SavedPstat DEF Erased
<1> HIDE DEF p
<1>10. Erased(p, f) /\ p.ok = o.ok
  BY <1>4, <1>5, <1>7, <1>9 DEF Erased, SameFile, Stores
<1> QED  BY <1>3, <1>10

LEMMA EnteredRESET ==
  ASSUME NEW o, Good(o), o.db.profile # None, o.mem.static => o.db.profile.pstat = None,
         o.mem.pstat.pending
  PROVE  LET p == EnterRESET(o)
         IN  Erased(p, o.db.profile) /\ p.ok = o.ok /\ p.mem.pstat.dos = "RFOTM"
<1> DEFINE f == o.db.profile
           a == ResetSecureResources(o)
           b == ResetDoxmAndAcl(a)
           c == ResetCredRowner(b)
           d == ResetRowners(c)
           e == EnterStateGeneric(d, "RESET")
           p == EnterStateGeneric(e, "RFOTM")
<1>1. Erased(a, f) /\ a.ok = o.ok
  BY BackToProfile
<1>2. EnterRESET(o) = p
  BY DEF EnterRESET
<1> HIDE DEF a
<1>3. Erased(b, f) /\ b.ok = a.ok
  BY <1>1, DoxmAndAclReset
<1> HIDE DEF b
<1>4. Erased(c, f) /\ c.ok = b.ok
  BY <1>3, CredRownerReset
<1> HIDE DEF c
<1>5. Erased(d, f) /\ d.ok = c.ok
  BY <1>4, RownersReset
<1> HIDE DEF d
<1>6. "RESET" \in State /\ "RFOTM" \in State
  BY DEF State
<1>7. /\ Good(e) /\ SameFile(e, d)
      /\ Holds(e, d.mem.doxm, e.mem.pstat, d.mem.acl, d.mem.cred, d.mem.static)
      /\ e.mem.pstat.pending = d.mem.pstat.pending
  BY <1>5, <1>6, Entered DEF Erased
<1> HIDE DEF e
<1>8. /\ Good(p) /\ SameFile(p, e)
      /\ Holds(p, e.mem.doxm, p.mem.pstat, e.mem.acl, e.mem.cred, e.mem.static)
      /\ p.mem.pstat.dos = "RFOTM" /\ p.mem.pstat.pending = e.mem.pstat.pending
  BY <1>6, <1>7, Entered
<1> HIDE DEF p
<1>9. Erased(p, f) /\ p.ok = o.ok
  BY <1>1, <1>3, <1>4, <1>5, <1>7, <1>8 DEF Erased, Holds, SameFile
<1> QED  BY <1>2, <1>8, <1>9

(* A reset that is accepted, up to the write of pstat that ends it.        *)
LEMMA ResetDone ==
  ASSUME NEW o, Sound(o), ~o.mem.pstat.pending
  PROVE  LET p == SetDosState(o, "RESET")
         IN  /\ Erased(p, o.db.profile) /\ p.ok = o.ok
             /\ p.mem.pstat.dos = "RFOTM" /\ ~p.mem.pstat.pending
<1> DEFINE a == Pending(o, TRUE)
           b == EnterRESET(a)
           p == Pending(b, FALSE)
<1>1. SetDosState(o, "RESET") = p
  BY DEF SetDosState, IsValidStateTransition, DoStateChange
<1>2. /\ Good(a) /\ SameFile(a, o)
      /\ Holds(a, o.mem.doxm, a.mem.pstat, o.mem.acl, o.mem.cred, o.mem.static)
      /\ a.mem.pstat.pending = TRUE
  BY Marked DEF Sound
<1> HIDE DEF a
<1>3. /\ a.db.profile # None /\ a.db.profile = o.db.profile
      /\ a.mem.static => a.db.profile.pstat = None
  BY <1>2 DEF Sound, Core, Holds, SameFile
<1>4. Erased(b, a.db.profile) /\ b.ok = a.ok /\ b.mem.pstat.dos = "RFOTM"
  BY <1>2, <1>3, EnteredRESET
<1> HIDE DEF b
<1>5. /\ Good(p) /\ SameFile(p, b)
      /\ Holds(p, b.mem.doxm, p.mem.pstat, b.mem.acl, b.mem.cred, b.mem.static)
      /\ p.mem.pstat.dos = b.mem.pstat.dos
      /\ p.mem.pstat.pending = FALSE
  BY <1>4, Marked DEF Erased
<1> HIDE DEF p
<1>6. Erased(p, o.db.profile)
  BY <1>3, <1>4, <1>5 DEF Erased, Holds, SameFile
<1> QED  BY <1>1, <1>2, <1>4, <1>5, <1>6 DEF SameFile

-----------------------------------------------------------------------------
(* The handler of pstat.                                                   *)
LEMMA ErasedCore ==
  ASSUME NEW p, NEW f, Erased(p, f), p.mem.pstat.dos = "RFOTM", ~p.mem.pstat.pending
  PROVE  Core(p.mem, p.db)
<1>1. p.mem \in Memory
  BY ProgressParts DEF Erased, Good
<1> QED  BY <1>1 DEF Erased, Core

LEMMA RownerUpdated ==
  ASSUME NEW o, Sound(o), NEW p, "rowneruuid" \in DOMAIN p => p.rowneruuid \in Uuid
  PROVE  LET q == UpdateRowner(o, p)
         IN  Sound(q) /\ q.ok = o.ok
<1>1. CASE "rowneruuid" \notin DOMAIN p
  BY <1>1 DEF UpdateRowner
<1>2. CASE "rowneruuid" \in DOMAIN p
  <2> DEFINE x == [o.mem.pstat EXCEPT !.rowneruuid = p.rowneruuid]
             q == [o EXCEPT !.mem.pstat = x]
  <2>1. o \in Progress /\ Good(o) /\ o.mem.pstat \in Pstat
    BY ProgressParts DEF Good, Sound
  <2>2. /\ x \in Pstat /\ x.dos = o.mem.pstat.dos /\ x.isop = o.mem.pstat.isop
        /\ x.pending = o.mem.pstat.pending
    BY <1>2, <2>1 DEF Pstat
  <2>3. UpdateRowner(o, p) = q
    BY <1>2, <2>1 DEF UpdateRowner, Progress, Memory
  <2> HIDE DEF x
  <2>4. /\ q \in Progress /\ SameFile(q, o)
        /\ Holds(q, o.mem.doxm, x, o.mem.acl, o.mem.cred, o.mem.static)
    BY <2>1, <2>2, SetPstat
  <2> HIDE DEF q
  <2>5. Good(q) /\ q.mem \in Memory
    BY <2>1, <2>4, GoodSame, ProgressParts
  <2>6. Core(q.mem, q.db)
    BY <2>2, <2>4, <2>5 DEF Sound, Core, Holds, SameFile
  <2>7. Agree(q.mem, q.db)
    BY <2>2, <2>4 DEF Sound, Agree, Holds, SameFile
  <2> QED  BY <2>3, <2>4, <2>5, <2>6, <2>7 DEF Sound, SameFile
<1> QED  BY <1>1, <1>2

(* A state that is entered is fit to be saved; one that is refused leaves  *)
(* memory and file as they were, in what counts.                           *)
LEMMA StateSet ==
  ASSUME NEW o, Sound(o), NEW new \in State, o.ok
  PROVE  LET p == SetDosState(o, new)
         IN  /\ p.ok => Good(p) /\ Core(p.mem, p.db)
             /\ ~p.ok => Sound(p)
<1>1. CASE o.mem.pstat.pending \/ ~IsValidStateTransition(o.mem.pstat.dos, new)
  <2>1. SetDosState(o, new) = Refuse(o)
    BY <1>1 DEF SetDosState
  <2>2. ~Refuse(o).ok
    BY Refused DEF Sound
  <2> QED  BY <2>1, <2>2, SoundRefused
<1>2. CASE ~o.mem.pstat.pending /\ new = "RESET"
  <2> DEFINE p == SetDosState(o, new)
  <2>1. /\ Erased(p, o.db.profile) /\ p.ok = o.ok
        /\ p.mem.pstat.dos = "RFOTM" /\ ~p.mem.pstat.pending
    BY <1>2, ResetDone
  <2> HIDE DEF p
  <2>2. p.ok /\ Good(p) /\ Core(p.mem, p.db)
    BY <2>1, ErasedCore DEF Erased
  <2> QED  BY <2>2 DEF p
<1>3. CASE /\ ~o.mem.pstat.pending /\ new # "RESET"
           /\ IsValidStateTransition(o.mem.pstat.dos, new)
  <2> DEFINE a == Pending(o, TRUE)
             b == DoStateChange(a, new)
             p == Pending(b, FALSE)
  <2>1. SetDosState(o, new) = p
    BY <1>3 DEF SetDosState
  <2>2. /\ Good(a) /\ SameFile(a, o)
        /\ Holds(a, o.mem.doxm, a.mem.pstat, o.mem.acl, o.mem.cred, o.mem.static)
        /\ a.mem.pstat.dos = o.mem.pstat.dos /\ a.mem.pstat.isop = o.mem.pstat.isop
    BY Marked DEF Sound
  <2> HIDE DEF a
  <2>3. CASE IsReadyToEnter(a.mem, new)
    <3>1. b = EnterStateGeneric(a, new)
      BY <1>3, <2>3 DEF DoStateChange
    <3>2. new \in Past
      <4>1. o.mem.pstat.dos # "RESET"
        BY <1>3 DEF Sound, Core, Past
      <4>2. new # "RFOTM"
        BY <1>3, <4>1 DEF IsValidStateTransition
      <4> QED  BY <1>3, <4>2 DEF State, Past
    <3>3. IsOwned(a.mem.doxm)
      BY <2>3, <3>2 DEF IsReadyToEnter, Owned, IsOwned, Past
    <3>4. /\ Good(b) /\ SameFile(b, a)
          /\ Holds(b, a.mem.doxm, b.mem.pstat, a.mem.acl, a.mem.cred, a.mem.static)
          /\ b.mem.pstat.dos = new
      BY <2>2, <3>1, Entered
    <3> HIDE DEF b
    <3>5. /\ Good(p) /\ SameFile(p, b)
          /\ Holds(p, b.mem.doxm, p.mem.pstat, b.mem.acl, b.mem.cred, b.mem.static)
          /\ p.mem.pstat.dos = b.mem.pstat.dos
          /\ p.mem.pstat.pending = FALSE
      BY <3>4, Marked
    <3> HIDE DEF p
    <3>6. p.mem \in Memory
      BY <3>5, ProgressParts DEF Good
    <3>7. Core(p.mem, p.db)
      BY <2>2, <3>2, <3>3, <3>4, <3>5, <3>6 DEF Sound, Core, Holds, SameFile
    <3>8. p.ok
      BY <2>2, <3>4, <3>5 DEF SameFile
    <3> QED  BY <2>1, <3>5, <3>7, <3>8
  <2>4. CASE ~IsReadyToEnter(a.mem, new)
    <3>1. b = Refuse(a)
      BY <1>3, <2>4 DEF DoStateChange
    <3>2. Good(b) /\ b.mem = a.mem /\ b.db = a.db /\ ~b.ok
      BY <2>2, <3>1, Refused
    <3> HIDE DEF b
    <3>3. /\ Good(p) /\ SameFile(p, b)
          /\ Holds(p, b.mem.doxm, p.mem.pstat, b.mem.acl, b.mem.cred, b.mem.static)
          /\ p.mem.pstat.dos = b.mem.pstat.dos /\ p.mem.pstat.isop = b.mem.pstat.isop
          /\ p.mem.pstat.pending = FALSE
      BY <3>2, Marked
    <3> HIDE DEF p
    <3>4. p.mem \in Memory
      BY <3>3, ProgressParts DEF Good
    <3>5. Core(p.mem, p.db)
      BY <1>3, <2>2, <3>2, <3>3, <3>4 DEF Sound, Core, Holds, SameFile
    <3>6. Agree(p.mem, p.db)
      BY <1>3, <2>2, <3>2, <3>3 DEF Sound, Agree, Holds, SameFile
    <3>7. ~p.ok
      BY <3>2, <3>3 DEF SameFile
    <3> QED  BY <2>1, <3>3, <3>5, <3>6, <3>7 DEF Sound
  <2> QED  BY <2>3, <2>4
<1> QED  BY <1>1, <1>2, <1>3

LEMMA PstatHandled ==
  ASSUME NEW o, Sound(o), o.ok, NEW p,
         "dos" \in DOMAIN p => p.dos \in State, "rowneruuid" \in DOMAIN p => p.rowneruuid \in Uuid
  PROVE  Sound(HandlePstatPostRequest(o, p))
<1>1. CASE ~(DOMAIN p \subseteq PstatWriteable(o.mem.pstat.dos))
  BY <1>1, SoundRefused DEF HandlePstatPostRequest
<1>2. CASE DOMAIN p \subseteq PstatWriteable(o.mem.pstat.dos)
  <2> DEFINE q == UpdateRowner(o, p)
             r == UpdateDos(q, p)
  <2>1. HandlePstatPostRequest(o, p) = SaveIfOk(r)
    BY <1>2 DEF HandlePstatPostRequest
  <2>2. Sound(q) /\ q.ok
    BY RownerUpdated
  <2> HIDE DEF q
  <2>3. (r.ok => Good(r) /\ Core(r.mem, r.db)) /\ (~r.ok => Sound(r))
    <3>1. CASE "dos" \in DOMAIN p /\ p.dos # q.mem.pstat.dos
      <4>1. r = SetDosState(q, p.dos)
        BY <3>1 DEF UpdateDos
      <4> QED  BY <2>2, <3>1, <4>1, StateSet
    <3>2. CASE ~("dos" \in DOMAIN p /\ p.dos # q.mem.pstat.dos)
      <4>1. r = q
        BY <3>2 DEF UpdateDos
      <4> QED  BY <2>2, <4>1 DEF Sound
    <3> QED  BY <3>1, <3>2
  <2> HIDE DEF r
  <2>4. CASE r.ok
    BY <2>1, <2>3, <2>4, SoundPstat DEF SaveIfOk
  <2>5. CASE ~r.ok
    BY <2>1, <2>3, <2>5 DEF SaveIfOk
  <2> QED  BY <2>4, <2>5
<1> QED  BY <1>1, <1>2

-----------------------------------------------------------------------------
(* The start of the process, and the end of a handler.                     *)
LEMMA FreshType == Fresh \in Memory /\ Unique(Fresh.cred.list) /\ ~Fresh.static
<1>1. DefaultDoxm \in Doxm
  BY UuidAssumption DEF DefaultDoxm, Doxm
<1> QED  BY <1>1, DefaultPstatType, UuidAssumption DEF Fresh, Memory, Cred, Unique

LEMMA Begun ==
  ASSUME NEW m \in Memory, NEW d, FileOK(d)
  PROVE  LET o == Begin(m, d)
         IN  Good(o) /\ o.mem = m /\ o.db = d /\ o.ok
<1>1. d \in Database /\ << >> \in Seq(Database)
  BY DEF FileOK
<1>2. Begin(m, d) \in Progress
  BY <1>1 DEF Begin, Progress
<1> QED  BY <1>2 DEF Begin, Good

LEMMA Started ==
  ASSUME NEW d, FileOK(d)
  PROVE  Sound(CreateResetProfile(InitSecureResources(Begin(Fresh, d))))
<1> DEFINE o == Begin(Fresh, d)
           p == InitSecureResources(o)
           e == [p.db EXCEPT !.profile = p.db.svr]
           q == Write(p, e)
<1>1. Good(o) /\ o.mem = Fresh /\ o.db = d
  BY FreshType, Begun
<1> HIDE DEF o
<1>2. /\ Good(p) /\ DoxmLoaded(p, d) /\ PstatLoaded(p, o)
      /\ p.db.profile = d.profile /\ p.db.svr.pstat = d.svr.pstat
      /\ Unique(p.mem.cred.list)
  BY <1>1, Inits
<1> HIDE DEF p
<1>3. /\ p.mem \in Memory /\ p.db \in Database /\ p.db.svr \in Entries /\ FileOK(p.db)
      /\ d.svr.pstat \in Pstat \cup {None}
  BY <1>1, <1>2, ProgressParts DEF Good
<1>4. /\ d.svr.pstat = None => p.mem.pstat = DefaultPstat /\ p.mem.static
      /\ d.svr.pstat # None => p.mem.pstat = d.svr.pstat /\ ~p.mem.static
  BY <1>1, <1>2, FreshType DEF PstatLoaded
<1>5. Agree(p.mem, p.db)
  BY <1>2, <1>4 DEF Agree, DefaultPstat
<1>6. ~p.mem.pstat.pending /\ p.mem.pstat.dos # "RFOTM" => p.mem.pstat.dos \in Past /\ IsOwned(p.mem.doxm)
  BY <1>2, <1>4 DEF FileOK, Operational, DefaultPstat, DoxmLoaded
<1>7. CASE d.profile # None
  <2>1. CreateResetProfile(p) = p
    BY <1>2, <1>7 DEF CreateResetProfile
  <2>2. Core(p.mem, p.db)
    BY <1>2, <1>3, <1>4, <1>6, <1>7 DEF Core, FileOK, DoxmLoaded, DefaultPstat
  <2> QED  BY <1>2, <1>5, <2>1, <2>2 DEF Sound, p, o
<1>8. CASE d.profile = None
  <2>1. CreateResetProfile(p) = q
    BY <1>2, <1>8 DEF CreateResetProfile
  <2>2. e \in Database /\ e.profile = p.db.svr /\ e.svr = p.db.svr
    BY <1>3 DEF Database
  <2>3. e.profile # None
    BY <1>3, <2>2, NoneAssumption
  <2>4. Factory(p.db.svr)
    BY <1>2, <1>3, <1>8 DEF FileOK
  <2> HIDE DEF e
  <2>5. FileOK(e)
    BY <1>3, <2>2, <2>3, <2>4 DEF FileOK, Factory
  <2>6. Good(q) /\ q.mem = p.mem /\ q.db = e
    BY <1>2, <2>5, Written
  <2> HIDE DEF q
  <2>7. Core(q.mem, q.db)
    <3>1. ~p.mem.pstat.pending
      BY <1>2, <1>4, <2>4 DEF Factory, DefaultPstat
    <3>2. p.mem.static => e.profile.pstat = None
      BY <1>2, <1>4, <2>2
    <3> QED  BY <1>2, <1>3, <1>6, <2>2, <2>3, <2>6, <3>1, <3>2 DEF Core, DoxmLoaded
  <2>8. Agree(q.mem, q.db)
    BY <1>5, <2>2, <2>6 DEF Agree
  <2> QED  BY <2>1, <2>6, <2>7, <2>8 DEF Sound, p, o
<1> QED  BY <1>7, <1>8

(* The inductive invariant.  The file is good whether the process runs or  *)
(* not, since it may end after each write.                                 *)
IndInv ==
  /\ up \in BOOLEAN /\ mem \in Memory /\ Unique(mem.cred.list)
  /\ FileOK(db)
  /\ up => Core(mem, db) /\ Agree(mem, db)

LEMMA Performed ==
  ASSUME NEW o, Sound(o), Perform(o)
  PROVE  IndInv'
<1>1. CASE mem' = o.mem /\ db' = o.db /\ up' = TRUE
  <2>1. o.mem \in Memory /\ Unique(o.mem.cred.list) /\ FileOK(o.db)
    BY DEF Sound, Core, Good
  <2> QED  BY <1>1, <2>1 DEF Sound, IndInv
<1>2. CASE \E k \in 1 .. Len(o.writes) - 1 :
             mem' = Fresh /\ db' = o.writes[k] /\ up' = FALSE
  <2>1. PICK k \in 1 .. Len(o.writes) - 1 : mem' = Fresh /\ db' = o.writes[k] /\ up' = FALSE
    BY <1>2
  <2>2. o.writes \in Seq(Database)
    BY ProgressParts DEF Sound, Good
  <2>3. k \in DOMAIN o.writes
    BY <2>2
  <2>4. FileOK(o.writes[k])
    BY <2>3 DEF Sound, Good
  <2> QED  BY <2>1, <2>4, FreshType DEF IndInv
<1> QED  BY <1>1, <1>2 DEF Perform

LEMMA Running ==
  ASSUME IndInv, up
  PROVE  LET o == Begin(mem, db)
         IN  Sound(o) /\ o.ok /\ o.mem = mem /\ o.db = db
<1> DEFINE o == Begin(mem, db)
<1>1. Good(o) /\ o.mem = mem /\ o.db = db /\ o.ok
  BY Begun DEF IndInv
<1> QED  BY <1>1 DEF IndInv, Sound

LEMMA InitInd == Init => IndInv
<1> SUFFICES ASSUME Init PROVE IndInv
  OBVIOUS
<1>1. db \in ShippedDb /\ mem = Fresh /\ up = FALSE
  BY DEF Init
<1>2. FileOK(db)
  BY <1>1, ShippedAssumption DEF Shipped, FileOK, Operational, Factory, UniqueEntry, Unique
<1> QED  BY <1>1, <1>2, FreshType DEF IndInv

LEMMA NextInd == IndInv /\ [Next]_vars => IndInv'
<1> SUFFICES ASSUME IndInv, [Next]_vars PROVE IndInv'
  OBVIOUS
<1> DEFINE o == Begin(mem, db)
<1>1. CASE Start
  <2>1. Sound(CreateResetProfile(InitSecureResources(Begin(Fresh, db))))
    BY Started DEF IndInv
  <2> QED  BY <1>1, <2>1, Performed DEF Start
<1>2. CASE PowerOff
  BY <1>2, FreshType DEF PowerOff, IndInv
<1>3. CASE \E p \in DoxmRequest, otm \in {"accepted", "refused"} : PostDoxm(p, otm)
  <2>1. PICK p \in DoxmRequest, otm \in {"accepted", "refused"} : PostDoxm(p, otm)
    BY <1>3
  <2>2. DoxmFields(p)
    BY UuidAssumption DEF DoxmRequest, DoxmFields, Assign
  <2>3. Sound(o)
    BY <2>1, Running DEF PostDoxm
  <2> HIDE DEF o
  <2>4. Sound(HandleDoxmPostRequest(o, p, otm))
    BY <2>2, <2>3, DoxmHandled
  <2> QED  BY <2>1, <2>4, Performed DEF PostDoxm, o
<1>4. CASE \E p \in PstatRequest : PostPstat(p)
  <2>1. PICK p \in PstatRequest : PostPstat(p)
    BY <1>4
  <2>2. /\ "dos" \in DOMAIN p => p.dos \in State
        /\ "rowneruuid" \in DOMAIN p => p.rowneruuid \in Uuid
    BY UuidAssumption DEF PstatRequest, Assign
  <2>3. Sound(o) /\ o.ok
    BY <2>1, Running DEF PostPstat
  <2> HIDE DEF o
  <2>4. Sound(HandlePstatPostRequest(o, p))
    BY <2>2, <2>3, PstatHandled
  <2> QED  BY <2>1, <2>4, Performed DEF PostPstat, o
<1>5. CASE \E rowner \in Named, rownerFirst \in BOOLEAN : PostAcl(rowner, rownerFirst)
  <2>1. PICK rowner \in Named, rownerFirst \in BOOLEAN : PostAcl(rowner, rownerFirst)
    BY <1>5
  <2>2. rowner \in Uuid
    BY UuidAssumption
  <2>3. Sound(o)
    BY <2>1, Running DEF PostAcl
  <2> HIDE DEF o
  <2>4. Sound(HandleACLPostRequest(o, rowner, rownerFirst))
    BY <2>2, <2>3, AclHandled
  <2> QED  BY <2>1, <2>4, Performed DEF PostAcl, o
<1>6. CASE \E c \in CredRequest, psk \in Secret, rowner \in Named : PostCred(c, psk, rowner)
  <2>1. PICK c \in CredRequest, psk \in Secret, rowner \in Named : PostCred(c, psk, rowner)
    BY <1>6
  <2>2. rowner \in Uuid /\ c \in Asked
    BY UuidAssumption DEF CredRequest, Asked
  <2>3. Sound(o) /\ (c.credid = 0 => FreeCredId(o.mem.cred.list) # {})
    BY <2>1, Running DEF PostCred
  <2> HIDE DEF o
  <2>4. Sound(HandleCredPostRequest(o, c, psk, rowner))
    BY <2>2, <2>3, CredHandled
  <2> QED  BY <2>1, <2>4, Performed DEF PostCred, o
<1>7. CASE \E gone \in Selected(mem.cred.list) : DeleteCred(gone)
  <2>1. PICK gone \in Selected(mem.cred.list) : DeleteCred(gone)
    BY <1>7
  <2>2. Sound(o)
    BY <2>1, Running DEF DeleteCred
  <2> HIDE DEF o
  <2>3. Sound(HandleCredDeleteRequest(o, gone))
    BY <2>2, CredDeleted
  <2> QED  BY <2>1, <2>3, Performed DEF DeleteCred, o
<1>8. CASE UNCHANGED vars
  BY <1>8 DEF vars, IndInv
<1> QED  BY <1>1, <1>2, <1>3, <1>4, <1>5, <1>6, <1>7, <1>8 DEF Next

LEMMA Invariance == Spec => []IndInv
BY InitInd, NextInd, PTL DEF Spec

-----------------------------------------------------------------------------
(* Memory and file hold values of their types in every state, also in the  *)
(* images of the file that a handler leaves when the process ends between  *)
(* two of its writes.                                                      *)
THEOREM OnboardingTypes == Spec => []TypeOK
<1>1. IndInv => TypeOK
  BY DEF IndInv, FileOK, TypeOK
<1> QED  BY <1>1, Invariance, PTL

(* Whatever was refused, and wherever the process ended in a handler, a    *)
(* device whose state says that it is past the transfer has an owner.      *)
THEOREM OperationalIsOwned == Spec => []OwnedWhenOperational
<1>1. IndInv => OwnedWhenOperational
  BY DEF IndInv, Core, IsOwned, Trapped, Owned, OwnedWhenOperational
<1> QED  BY <1>1, Invariance, PTL

(* A credid names one credential, in memory and in the file, whether the   *)
(* requester chose it or GetCredId did.                                    *)
THEOREM CredIdsNameOne == Spec => []UniqueCredIds
<1>1. IndInv => UniqueCredIds
  <2> SUFFICES ASSUME IndInv,
                      NEW list \in {mem.cred.list} \cup { c.list : c \in {db.svr.cred} \ {None} }
               PROVE  Unique(list)
    BY DEF UniqueCredIds, Unique
  <2> QED  BY DEF IndInv, FileOK, UniqueEntry
<1> QED  BY <1>1, Invariance, PTL

(* What a restart loads from the file that handlers left.                  *)
LEMMA Reload ==
  ASSUME NEW d, FileOK(d)
  PROVE  LET m == Reloaded(d)
         IN  /\ ~m.doxm.owned => m.doxm.owner = Nil
             /\ m.doxm.owned <=> LoadDoxm(d).owned
             /\ d.svr.doxm # None /\ IsOwned(d.svr.doxm) => m.doxm = d.svr.doxm
             /\ d.svr.pstat # None => m.pstat = d.svr.pstat
             /\ m.cred.list = Stored(d.svr.cred)
<1> DEFINE o == Begin(Fresh, d)
           p == InitSecureResources(o)
<1>1. Good(o) /\ o.mem = Fresh /\ o.db = d
  BY FreshType, Begun
<1>2. Reloaded(d) = p.mem
  BY DEF Reloaded
<1> HIDE DEF o
<1>3. Good(p) /\ DoxmLoaded(p, d) /\ PstatLoaded(p, o) /\ p.mem.cred.list = Stored(d.svr.cred)
  BY <1>1, Inits
<1> HIDE DEF p
<1>4. ~p.mem.doxm.owned => p.mem.doxm.owner = Nil
  <2>1. p.db \in Database
    BY <1>3, ProgressParts DEF Good
  <2> QED  BY <1>3, <2>1, Loads DEF DoxmLoaded
<1>5. d.svr.pstat # None => p.mem.pstat = d.svr.pstat
  BY <1>1, <1>3, FreshType DEF PstatLoaded
<1> QED  BY <1>2, <1>3, <1>4, <1>5 DEF DoxmLoaded

(* Past the transfer a restart brings back the owner and the state that    *)
(* the device has in memory: refused requests leave no unsaved owner.      *)
THEOREM OwnershipDurable == Spec => []DurableOwnership
<1>1. IndInv => DurableOwnership
  <2> SUFFICES ASSUME IndInv, up, ~Trapped, mem.pstat.dos # "RFOTM"
               PROVE  /\ Reloaded(db).doxm = mem.doxm
                      /\ Reloaded(db).pstat.dos = mem.pstat.dos
                      /\ Reloaded(db).pstat.isop = mem.pstat.isop
    BY DEF DurableOwnership
  <2>1. mem.doxm \in Doxm /\ ~mem.pstat.pending
    BY DEF IndInv, Memory, Trapped
  <2>2. IsOwned(mem.doxm) /\ db.svr.doxm = mem.doxm
    BY <2>1 DEF IndInv, Core, IsOwned
  <2>3. db.svr.doxm # None
    BY <2>1, <2>2, NoneAssumption
  <2>4. /\ db.svr.pstat # None
        /\ db.svr.pstat.dos = mem.pstat.dos /\ db.svr.pstat.isop = mem.pstat.isop
    BY <2>1 DEF IndInv, Agree
  <2> DEFINE m == Reloaded(db)
  <2>5. /\ db.svr.doxm # None /\ IsOwned(db.svr.doxm) => m.doxm = db.svr.doxm
        /\ db.svr.pstat # None => m.pstat = db.svr.pstat
    BY Reload DEF IndInv
  <2> HIDE DEF m
  <2>6. m.doxm = mem.doxm /\ m.pstat.dos = mem.pstat.dos /\ m.pstat.isop = mem.pstat.isop
    BY <2>2, <2>3, <2>4, <2>5
  <2> QED  BY <2>6 DEF m
<1> QED  BY <1>1, Invariance, PTL

(* Every device that runs and is not trapped accepts a RESET, which leaves *)
(* neither the owner nor any credential that was not shipped, also after a *)
(* restart; a trapped device came without a stored pstat.                  *)
THEOREM ResetIsComplete == Spec => []ResetErases
<1>1. IndInv /\ up /\ Trapped => db.profile.pstat = None
  BY DEF IndInv, Core, Trapped
<1>2. ASSUME IndInv, up, ~Trapped
      PROVE  /\ Reset.ok
             /\ LET m == Reloaded(Reset.db)
                IN /\ m.pstat.dos = "RFOTM" /\ ~m.pstat.pending
                   /\ ~m.doxm.owned /\ m.doxm.owner = Nil
                   /\ m.cred.list =
                        IF db.profile.cred = None THEN {} ELSE db.profile.cred.list
  <2> DEFINE o == Begin(mem, db)
             r == [dos |-> "RESET"]
             p == SetDosState(o, "RESET")
             q == SavePstat(p)
  <2>1. Sound(o) /\ o.ok /\ o.mem = mem /\ o.db = db
    BY <1>2, Running
  <2>2. Reset = HandlePstatPostRequest(o, r)
    BY DEF Reset
  <2> HIDE DEF o
  <2>3. ~o.mem.pstat.pending /\ o.mem.pstat.dos \in Past \cup {"RFOTM"}
    BY <1>2, <2>1 DEF Trapped, Sound, Core
  <2>4. /\ Erased(p, db.profile) /\ p.ok = o.ok
        /\ p.mem.pstat.dos = "RFOTM" /\ ~p.mem.pstat.pending
    BY <2>1, <2>3, ResetDone
  <2>5. HandlePstatPostRequest(o, r) = SaveIfOk(p)
    <3>1. DOMAIN r = {"dos"} /\ r.dos = "RESET"
      OBVIOUS
    <3> HIDE DEF r, p
    <3>2. DOMAIN r \subseteq PstatWriteable(o.mem.pstat.dos) /\ r.dos # o.mem.pstat.dos
      BY <2>3, <3>1 DEF PstatWriteable, Past
    <3>3. UpdateRowner(o, r) = o
      BY <3>1 DEF UpdateRowner
    <3>4. UpdateDos(o, r) = p
      BY <3>1, <3>2 DEF UpdateDos, p
    <3> QED  BY <3>2, <3>3, <3>4 DEF HandlePstatPostRequest
  <2> HIDE DEF p
  <2>6. Reset = q
    BY <2>1, <2>2, <2>4, <2>5 DEF SaveIfOk
  <2>7. ~Operational(p.mem.pstat)
    BY <2>4 DEF Operational
  <2>8. /\ Good(q) /\ q.ok = p.ok
        /\ Stores(q, p, p.db.svr.doxm, p.mem.pstat, p.db.svr.acl, p.db.svr.cred)
    BY <2>4, <2>7, SavedPstat DEF Erased
  <2> HIDE DEF q
  <2> DEFINE d == q.db
             m == Reloaded(d)
  <2>9. FileOK(d) /\ d \in Database /\ p.mem.pstat \in Pstat
    BY <2>4, <2>8, ProgressParts DEF Good, Erased
  <2>10. d.svr.pstat # None /\ d.svr.pstat.dos = "RFOTM" /\ ~d.svr.pstat.pending
    BY <2>4, <2>8, <2>9, NoneAssumption DEF Stores
  <2>11. d.svr.doxm # None => ~d.svr.doxm.owned
    BY <2>4, <2>8 DEF Stores, Erased
  <2>12. Stored(d.svr.cred) = Stored(db.profile.cred)
    BY <2>4, <2>8 DEF Stores, Erased
  <2>13. ~LoadDoxm(d).owned
    BY <2>9, <2>11, Loads
  <2>14. /\ ~m.doxm.owned => m.doxm.owner = Nil
         /\ m.doxm.owned <=> LoadDoxm(d).owned
         /\ d.svr.pstat # None => m.pstat = d.svr.pstat
         /\ m.cred.list = Stored(d.svr.cred)
    BY <2>9, Reload
  <2>15. Reset.db = d /\ Reset.ok
    BY <2>1, <2>4, <2>6, <2>8
  <2> HIDE DEF m, d
  <2>16. /\ m.pstat.dos = "RFOTM" /\ ~m.pstat.pending /\ ~m.doxm.owned /\ m.doxm.owner = Nil
         /\ m.cred.list = IF db.profile.cred = None THEN {} ELSE db.profile.cred.list
    BY <2>10, <2>12, <2>13, <2>14 DEF Stored
  <2> QED  BY <2>15, <2>16 DEF m
<1>3. IndInv => ResetErases
  BY <1>1, <1>2 DEF ResetErases
<1> QED  BY <1>3, Invariance, PTL
=============================================================================
