---------------------------- MODULE BanStoreProofs ----------------------------
(***************************************************************************)
(* Proofs about BanStore for every set of addresses and reasons, every     *)
(* limit and every ban time.                                               *)
(***************************************************************************)
EXTENDS BanStreaks, TLAPS

\* The inductive invariant: the properties need each other (a write copies
\* memory to the file, a restart copies the file to memory).
Inv == TypeOK /\ RecordsSound /\ PardonFinal /\ BansDurable

Sound(m) == \A ip \in DOMAIN m : SoundRecord(m[ip])

\* The invariant of memory and that of the file.
MemOK(m, p) ==
  /\ IsRecordMap(m) /\ Sound(m)
  /\ p \in SUBSET IP
  /\ p \cap DOMAIN m = {}

DiskOK(d) ==
  /\ DOMAIN d = {"Records", "Pardoned"}
  /\ MemOK(d.Records, d.Pardoned)

\* Two records that differ at most in their streaks.
EqualBan(r, d) ==
  r.Bans = d.Bans /\ (r.Permanent <=> d.Permanent) /\ r.Until = d.Until

-----------------------------------------------------------------------------
\* Facts about the operators the store is built from.

\* A lookup always yields a record, and a sound one if the map is sound.
LEMMA RecordOfFact ==
  ASSUME NEW m, IsRecordMap(m), Sound(m), NEW ip
  PROVE  RecordOf(m, ip) \in Record /\ SoundRecord(RecordOf(m, ip))
<1>1. ZeroRecord \in Record /\ SoundRecord(ZeroRecord)
  BY BanAssumption DEF SoundRecord, Record, ZeroRecord
<1>2. ip \in DOMAIN m => m[ip] \in Record /\ SoundRecord(m[ip])
  BY DEF IsRecordMap, Sound
<1> QED
  BY <1>1, <1>2 DEF RecordOf

\* Put replaces one record and leaves the others alone.
LEMMA PutFact ==
  ASSUME NEW m, IsRecordMap(m), Sound(m), NEW ip \in IP,
         NEW r \in Record, SoundRecord(r)
  PROVE  /\ IsRecordMap(Put(m, ip, r))
         /\ Sound(Put(m, ip, r))
         /\ DOMAIN Put(m, ip, r) = DOMAIN m \cup {ip}
         /\ RecordOf(Put(m, ip, r), ip) = r
         /\ \A k \in IP \ {ip} : RecordOf(Put(m, ip, r), k) = RecordOf(m, k)
BY DEF Put, IsRecordMap, Sound, RecordOf

\* Recording something against an address that is not pardoned.
LEMMA PutMemOK ==
  ASSUME NEW m, NEW p, MemOK(m, p), NEW ip \in IP, ip \notin p,
         NEW r \in Record, SoundRecord(r)
  PROVE  /\ MemOK(Put(m, ip, r), p)
         /\ RecordOf(Put(m, ip, r), ip) = r
         /\ \A k \in IP \ {ip} : RecordOf(Put(m, ip, r), k) = RecordOf(m, k)
<1> DEFINE n == Put(m, ip, r)
<1>1. /\ IsRecordMap(n) /\ Sound(n) /\ DOMAIN n = DOMAIN m \cup {ip}
      /\ RecordOf(n, ip) = r
      /\ \A k \in IP \ {ip} : RecordOf(n, k) = RecordOf(m, k)
  BY PutFact DEF MemOK
<1> HIDE DEF n
<1>2. MemOK(n, p)
  BY <1>1 DEF MemOK
<1> QED
  BY <1>1, <1>2 DEF n

\* Drop removes the records of S and keeps the map sound.
LEMMA DropFact ==
  ASSUME NEW m, IsRecordMap(m), Sound(m), NEW S
  PROVE  /\ IsRecordMap(Drop(m, S))
         /\ Sound(Drop(m, S))
         /\ DOMAIN Drop(m, S) = DOMAIN m \ S
BY DEF Drop, Restrict, IsRecordMap, Sound

\* What is written imposes the same bans as what is in memory.
LEMMA SnapshotFact ==
  ASSUME NEW m, IsRecordMap(m), Sound(m), NEW p
  PROVE  /\ DOMAIN Snapshot(m, p) = {"Records", "Pardoned"}
         /\ Snapshot(m, p).Pardoned = p
         /\ IsRecordMap(Snapshot(m, p).Records)
         /\ Sound(Snapshot(m, p).Records)
         /\ DOMAIN Snapshot(m, p).Records \subseteq DOMAIN m
         /\ \A ip \in IP :
              EqualBan(RecordOf(m, ip), RecordOf(Snapshot(m, p).Records, ip))
BY DEF Snapshot, Restrict, IsRecordMap, Sound, RecordOf, Worth, EqualBan,
       Record, ZeroRecord

\* ObserveInvalid's arithmetic on a record keeps it sound: below the limit it
\* is stored as it is, at the limit it becomes a ban.
LEMMA InvalidFact ==
  ASSUME NEW r \in Record, SoundRecord(r), ~r.Permanent,
         NEW reason \in Reason, NEW now \in Nat \ {0},
         ~(r.Until # 0 /\ now < r.Until)
  PROVE  LET e == EndExpired(r, now)
             c == CountInvalid(e, reason)
         IN  /\ c \in Record
             /\ c.Bans = r.Bans /\ ~c.Permanent /\ c.Until = 0
             /\ c.Consecutive < Limit => SoundRecord(c)
             /\ IssueBan(c, now) \in Record
             /\ SoundRecord(IssueBan(c, now))
             /\ IssueBan(c, now).Bans = r.Bans + 1
             /\ IssueBan(c, now).Until = IF r.Bans = 0 THEN now + TTL ELSE 0
<1> DEFINE e == EndExpired(r, now)
           c == CountInvalid(e, reason)
<1>1. /\ e \in Record /\ e.Bans = r.Bans /\ ~e.Permanent /\ e.Until = 0
      /\ e.Consecutive < Limit
  <2>1. CASE r.Until # 0
    <3>1. e = [r EXCEPT !.Until = 0, !.Consecutive = 0, !.Reason = "none"]
      BY <2>1 DEF EndExpired, Record
    <3>2. [r EXCEPT !.Until = 0, !.Consecutive = 0, !.Reason = "none"] \in Record
      BY ZenonT(60) DEF Record
    <3>3. e.Bans = r.Bans /\ ~e.Permanent /\ e.Until = 0
      BY <3>1 DEF Record
    <3>4. e.Consecutive < Limit
      BY <3>1, BanAssumption DEF Record
    <3> QED
      BY <3>1, <3>2, <3>3, <3>4
  <2>2. CASE r.Until = 0
    BY <2>2 DEF EndExpired, SoundRecord
  <2> QED
    BY <2>1, <2>2
<1>2. /\ c \in Record /\ c.Bans = r.Bans /\ ~c.Permanent /\ c.Until = 0
  <2> DEFINE n == (IF e.Reason = reason THEN e.Consecutive ELSE 0) + 1
  <2>1. n \in Nat
    BY <1>1 DEF Record
  <2>2. c = [e EXCEPT !.Reason = reason, !.Consecutive = n]
    BY DEF CountInvalid
  <2> HIDE DEF n
  <2> QED
    BY <1>1, <2>1, <2>2 DEF Record
<1>3. r.Bans < 2
  BY DEF SoundRecord, Record
<1>4. c.Consecutive < Limit => SoundRecord(c)
  BY <1>2, <1>3 DEF SoundRecord, Record
<1>5. IssueBan(c, now) \in Record /\ SoundRecord(IssueBan(c, now))
  <2>1. CASE r.Bans = 1
    <3>1. IssueBan(c, now) = [c EXCEPT !.Consecutive = 0, !.Bans = 2,
                                       !.Permanent = TRUE, !.Until = 0]
      BY <1>2, <2>1 DEF IssueBan
    <3> DEFINE b == IssueBan(c, now)
    <3>2. [c EXCEPT !.Consecutive = 0, !.Bans = 2, !.Permanent = TRUE, !.Until = 0] \in Record
      BY <1>2, BanAssumption DEF Record
    <3>3. b.Permanent <=> b.Bans >= 2
      BY <1>2, <3>1 DEF Record
    <3>4. (b.Until # 0 => b.Bans = 1) /\ b.Consecutive < Limit
      BY <1>2, <3>1, BanAssumption DEF Record
    <3> QED
      BY <3>1, <3>2, <3>3, <3>4 DEF SoundRecord
  <2>2. CASE r.Bans = 0
    <3>1. IssueBan(c, now) = [c EXCEPT !.Consecutive = 0, !.Bans = 1,
                                       !.Until = now + TTL]
      BY <1>2, <2>2 DEF IssueBan
    <3> DEFINE b == IssueBan(c, now)
    <3>2. [c EXCEPT !.Consecutive = 0, !.Bans = 1, !.Until = now + TTL] \in Record
      <4>1. now + TTL \in Nat
        BY BanAssumption
      <4>2. \A t \in Nat :
              [c EXCEPT !.Consecutive = 0, !.Bans = 1, !.Until = t] \in Record
        BY <1>2 DEF Record
      <4> QED
        BY <4>1, <4>2
    <3>3. b.Permanent <=> b.Bans >= 2
      BY <1>2, <3>1 DEF Record
    <3>4. (b.Until # 0 => b.Bans = 1) /\ b.Consecutive < Limit
      BY <1>2, <3>1, BanAssumption DEF Record
    <3> QED
      BY <3>1, <3>2, <3>3, <3>4 DEF SoundRecord
  <2> QED
    BY <1>3, <2>1, <2>2 DEF Record
<1>6. /\ IssueBan(c, now).Bans = r.Bans + 1
      /\ IssueBan(c, now).Until = IF r.Bans = 0 THEN now + TTL ELSE 0
  BY <1>2, <1>3 DEF IssueBan, Record
<1> QED
  BY <1>2, <1>4, <1>5, <1>6

\* The ban a record imposes.
KindR(r, now) ==
  IF r.Permanent THEN "permanent"
  ELSE IF r.Until # 0 /\ now < r.Until THEN "temporary" ELSE "none"

\* Kind and prior bans depend on RecordOf only.
LEMMA KindFact ==
  ASSUME NEW m, IsRecordMap(m), NEW now
  PROVE  /\ KindMap(m, now) = [ip \in IP |-> KindR(RecordOf(m, ip), now)]
         /\ Prior(m) = {ip \in IP : RecordOf(m, ip).Bans > 0}
<1>1. ASSUME NEW ip PROVE KindOf(m, ip, now) = KindR(RecordOf(m, ip), now)
  BY DEF KindOf, KindR, RecordOf, blockedLocked, ZeroRecord
<1>2. Prior(m) = {ip \in IP : RecordOf(m, ip).Bans > 0}
  BY DEF Prior, RecordOf, IsRecordMap, ZeroRecord
<1> QED
  BY <1>1, <1>2 DEF KindMap

\* The invariant by its parts.
LEMMA InvParts ==
  Inv <=> /\ MemOK(byIP, pardoned)
          /\ DiskOK(disk)
          /\ stale \in BOOLEAN
          /\ clock \in Nat \ {0}
          /\ BansDurable
BY DEF Inv, TypeOK, RecordsSound, PardonFinal, MemOK, DiskOK, Sound

\* A write, whether it succeeds or fails, leaves a good file, and a fresh one
\* imposes the bans that are in memory.
LEMMA WriteFact ==
  ASSUME NEW m, NEW p, MemOK(m, p), DiskOK(disk), PersistLocked(m, p)
  PROVE  /\ DiskOK(disk')
         /\ stale' \in BOOLEAN
         /\ ~stale' =>
              /\ disk'.Pardoned = p
              /\ \A ip \in IP :
                   EqualBan(RecordOf(m, ip), RecordOf(disk'.Records, ip))
<1>1. CASE disk' = Snapshot(m, p) /\ stale' = FALSE
  BY <1>1, SnapshotFact DEF DiskOK, MemOK
<1>2. CASE disk' = disk /\ stale' = TRUE
  BY <1>2
<1> QED
  BY <1>1, <1>2 DEF PersistLocked

\* Every method that writes the file keeps the invariant if its change of
\* memory does.
LEMMA WriteKeepsInv ==
  ASSUME Inv, MemOK(byIP', pardoned'), PersistLocked(byIP', pardoned'),
         clock' = clock
  PROVE  Inv'
<1>1. /\ DiskOK(disk')
      /\ stale' \in BOOLEAN
      /\ ~stale' =>
           /\ disk'.Pardoned = pardoned'
           /\ \A ip \in IP :
                EqualBan(RecordOf(byIP', ip), RecordOf(disk'.Records, ip))
  BY WriteFact, InvParts
<1>2. BansDurable'
  BY <1>1 DEF BansDurable, SameBan, EqualBan, RecordOf
<1> QED
  BY <1>1, <1>2, InvParts DEF Inv, TypeOK, RecordsSound, PardonFinal, MemOK, DiskOK, Sound

-----------------------------------------------------------------------------
\* One lemma per action.

\* A free, unpardoned address: its record is below a second ban and its
\* first ban, if it had one, is over.
LEMMA FreeFact ==
  ASSUME Inv, NEW ip \in IP, ~blockedLocked(byIP, ip, clock)
  PROVE  LET r == RecordOf(byIP, ip)
         IN  /\ r \in Record /\ SoundRecord(r) /\ ~r.Permanent
             /\ ~(r.Until # 0 /\ clock < r.Until)
<1>1. RecordOf(byIP, ip) \in Record /\ SoundRecord(RecordOf(byIP, ip))
  BY InvParts, RecordOfFact DEF MemOK
<1> QED
  BY <1>1 DEF RecordOf, blockedLocked, ZeroRecord

\* Counting an event below the limit changes no ban; a ban is written.
LEMMA ObserveInvalidKeepsInv ==
  ASSUME Inv, NEW ip \in IP, NEW reason \in Reason, ObserveInvalid(ip, reason)
  PROVE  Inv'
<1> DEFINE r == RecordOf(byIP, ip)
           c == CountInvalid(EndExpired(r, clock), reason)
<1>1. /\ r \in Record /\ SoundRecord(r) /\ ~r.Permanent
      /\ ~(r.Until # 0 /\ clock < r.Until)
  BY FreeFact DEF ObserveInvalid
<1>2. /\ c \in Record
      /\ c.Bans = r.Bans /\ ~c.Permanent /\ c.Until = 0
      /\ c.Consecutive < Limit => SoundRecord(c)
      /\ IssueBan(c, clock) \in Record
      /\ SoundRecord(IssueBan(c, clock))
  BY <1>1, InvalidFact, InvParts
<1>3. /\ ip \notin pardoned /\ pardoned' = pardoned /\ clock' = clock
      /\ MemOK(byIP, pardoned)
  BY InvParts DEF ObserveInvalid
<1>4. CASE /\ c.Consecutive < Limit
           /\ byIP' = Put(byIP, ip, c)
           /\ UNCHANGED <<disk, stale>>
  <2> HIDE DEF r, c
  <2>1. /\ MemOK(byIP', pardoned')
        /\ RecordOf(byIP', ip) = c
        /\ \A k \in IP \ {ip} : RecordOf(byIP', k) = RecordOf(byIP, k)
    BY <1>2, <1>3, <1>4, PutMemOK
  <2>2. BansDurable'
    <3> SUFFICES ASSUME ~stale'
                 PROVE  /\ pardoned' = disk'.Pardoned
                        /\ \A k \in IP : SameBan(RecordOf(byIP', k),
                                                 RecordOf(disk'.Records, k), clock')
      BY DEF BansDurable, RecordOf
    <3>1. /\ pardoned' = disk'.Pardoned
          /\ \A k \in IP : SameBan(RecordOf(byIP, k), RecordOf(disk'.Records, k), clock')
      BY <1>3, <1>4, InvParts DEF BansDurable
    <3> SUFFICES ASSUME NEW k \in IP
                 PROVE SameBan(RecordOf(byIP', k), RecordOf(disk'.Records, k), clock')
      BY <3>1
    <3>2. CASE k # ip
      BY <2>1, <3>1, <3>2
    <3>3. CASE k = ip
      <4> DEFINE d == RecordOf(disk'.Records, ip)
      <4>1. /\ r.Bans = d.Bans /\ (r.Permanent <=> d.Permanent)
            /\ r.Until = d.Until \/ (r.Until = 0 /\ d.Until <= clock)
        BY <1>3, <3>1 DEF SameBan, r
      <4>2. clock \in Nat /\ r.Until \in Nat
        BY <1>1, InvParts DEF Record
      <4> HIDE DEF d
      <4>3. SameBan(c, d, clock)
        BY <1>1, <1>2, <4>1, <4>2 DEF SameBan
      <4> QED
        BY <1>3, <2>1, <3>3, <4>3 DEF d
    <3> QED
      BY <3>2, <3>3
  <2> QED
    BY <1>3, <1>4, <2>1, <2>2, InvParts
    DEF Inv, TypeOK, RecordsSound, PardonFinal, MemOK, DiskOK, Sound
<1>5. CASE /\ byIP' = Put(byIP, ip, IssueBan(c, clock))
           /\ PersistLocked(byIP', pardoned)
  <2>1. MemOK(byIP', pardoned')
    <3> HIDE DEF c
    <3> QED
      BY <1>2, <1>3, <1>5, PutMemOK
  <2> QED
    BY <1>3, <1>5, <2>1, WriteKeepsInv
<1> QED
  BY <1>4, <1>5 DEF ObserveInvalid

\* A permanent ban is written.
LEMMA BanPermanentKeepsInv ==
  ASSUME Inv, NEW ip \in IP, BanPermanent(ip)
  PROVE  Inv'
<1> DEFINE r == RecordOf(byIP, ip)
           b == [Consecutive |-> 0, Reason |-> "none", Until |-> 0,
                 Permanent |-> TRUE, Bans |-> IF r.Bans < 2 THEN 2 ELSE r.Bans]
<1>1. r \in Record
  BY InvParts, RecordOfFact DEF MemOK
<1>2. b \in Record /\ SoundRecord(b)
  <2>1. (IF r.Bans < 2 THEN 2 ELSE r.Bans) \in Nat \ {0, 1}
    BY <1>1 DEF Record
  <2>2. \A n \in Nat \ {0, 1} :
          LET x == [Consecutive |-> 0, Reason |-> "none", Until |-> 0,
                    Permanent |-> TRUE, Bans |-> n]
          IN  x \in Record /\ SoundRecord(x)
    BY BanAssumption DEF Record, SoundRecord
  <2> HIDE DEF r
  <2> QED
    BY <2>1, <2>2
<1>3. /\ MemOK(byIP, pardoned) /\ ip \notin pardoned
      /\ pardoned' = pardoned /\ clock' = clock
      /\ byIP' = Put(byIP, ip, b)
      /\ PersistLocked(byIP', pardoned)
  BY InvParts DEF BanPermanent
<1> HIDE DEF b
<1>4. MemOK(byIP', pardoned')
  BY <1>2, <1>3, PutMemOK
<1> QED
  BY <1>3, <1>4, WriteKeepsInv

\* Resetting a streak changes no ban, so not writing it is harmless.
LEMMA ObserveValidKeepsInv ==
  ASSUME Inv, NEW ip \in IP, ObserveValid(ip)
  PROVE  Inv'
<1> DEFINE c == [byIP[ip] EXCEPT !.Consecutive = 0]
<1>1. /\ ip \in DOMAIN byIP /\ MemOK(byIP, pardoned)
      /\ byIP' = Put(byIP, ip, c)
      /\ UNCHANGED <<pardoned, disk, stale, clock>>
  BY InvParts DEF ObserveValid, RecordOf, ZeroRecord
<1>2. byIP[ip] \in Record /\ SoundRecord(byIP[ip]) /\ ip \in IP \ pardoned
  BY <1>1 DEF MemOK, IsRecordMap, Sound
<1>3. /\ c \in Record
      /\ c.Bans = byIP[ip].Bans /\ (c.Permanent <=> byIP[ip].Permanent)
      /\ c.Until = byIP[ip].Until /\ c.Consecutive = 0
  BY <1>2 DEF Record
<1>4. SoundRecord(c)
  BY <1>2, <1>3, BanAssumption DEF SoundRecord
<1> HIDE DEF c
<1>5. /\ MemOK(byIP', pardoned')
      /\ RecordOf(byIP', ip) = c
      /\ \A k \in IP \ {ip} : RecordOf(byIP', k) = RecordOf(byIP, k)
  BY <1>1, <1>2, <1>3, <1>4, PutMemOK
<1>6. \A k \in IP : EqualBan(RecordOf(byIP', k), RecordOf(byIP, k))
  <2> TAKE k \in IP
  <2>1. CASE k # ip
    BY <1>5, <2>1 DEF EqualBan
  <2>2. CASE k = ip
    BY <1>1, <1>3, <1>5, <2>2 DEF EqualBan, RecordOf
  <2> QED
    BY <2>1, <2>2
<1>7. BansDurable'
  <2> SUFFICES ASSUME ~stale'
               PROVE  /\ pardoned' = disk'.Pardoned
                      /\ \A k \in IP : SameBan(RecordOf(byIP', k),
                                               RecordOf(disk'.Records, k), clock')
    BY DEF BansDurable, RecordOf
  <2>1. /\ pardoned' = disk'.Pardoned
        /\ \A k \in IP : SameBan(RecordOf(byIP, k), RecordOf(disk'.Records, k), clock')
    BY <1>1, InvParts DEF BansDurable
  <2> QED
    BY <1>6, <2>1 DEF SameBan, EqualBan
<1> QED
  BY <1>1, <1>5, <1>7, InvParts
  DEF Inv, TypeOK, RecordsSound, PardonFinal, MemOK, DiskOK, Sound

\* Unbanning drops the record and pardons in one write.
LEMMA ReleaseKeepsInv ==
  ASSUME Inv, NEW S \in SUBSET IP, Release(S)
  PROVE  Inv'
<1>1. MemOK(byIP, pardoned)
  BY InvParts
<1>2. /\ IsRecordMap(Drop(byIP, S)) /\ Sound(Drop(byIP, S))
      /\ DOMAIN Drop(byIP, S) = DOMAIN byIP \ S
  BY <1>1, DropFact DEF MemOK
<1>3. MemOK(byIP', pardoned')
  BY <1>1, <1>2 DEF Release, MemOK
<1> QED
  BY <1>3, WriteKeepsInv DEF Release

\* After a restart memory is the file, or empty and marked stale.
LEMMA RestartKeepsInv ==
  ASSUME Inv, Restart
  PROVE  Inv'
<1>1. DiskOK(disk) /\ disk' = disk /\ clock' = clock /\ clock \in Nat \ {0}
  BY InvParts DEF Restart
<1>2. CASE byIP' = disk.Records /\ pardoned' = disk.Pardoned /\ stale' = FALSE
  <2>1. BansDurable'
    BY <1>1, <1>2 DEF BansDurable, SameBan, RecordOf
  <2> QED
    BY <1>1, <1>2, <2>1
    DEF Inv, TypeOK, RecordsSound, PardonFinal, MemOK, DiskOK, Sound
<1>3. CASE byIP' = NoRecords /\ pardoned' = {} /\ stale' = TRUE
  <2>1. IsRecordMap(byIP') /\ DOMAIN byIP' = {}
    BY <1>3 DEF NoRecords, IsRecordMap
  <2> QED
    BY <1>1, <1>3, <2>1
    DEF Inv, TypeOK, RecordsSound, PardonFinal, BansDurable, MemOK, DiskOK, Sound,
        IsRecordMap
<1> QED
  BY <1>2, <1>3 DEF Restart

\* Time only turns differing ends into past ones.
LEMMA TickKeepsInv ==
  ASSUME Inv, Tick
  PROVE  Inv'
<1>1. /\ clock \in Nat \ {0} /\ clock' = clock + 1
      /\ UNCHANGED <<byIP, pardoned, disk, stale>>
      /\ MemOK(byIP, pardoned) /\ DiskOK(disk)
  BY InvParts DEF Tick
<1>2. \A k \in IP : RecordOf(disk.Records, k).Until \in Nat
  BY <1>1, RecordOfFact DEF DiskOK, MemOK, Record
<1>3. BansDurable'
  <2> SUFFICES ASSUME ~stale'
               PROVE  /\ pardoned' = disk'.Pardoned
                      /\ \A k \in IP : SameBan(RecordOf(byIP', k),
                                               RecordOf(disk'.Records, k), clock')
    BY DEF BansDurable, RecordOf
  <2>1. /\ pardoned' = disk'.Pardoned
        /\ \A k \in IP : SameBan(RecordOf(byIP', k), RecordOf(disk'.Records, k), clock)
    BY <1>1, InvParts DEF BansDurable
  <2> QED
    BY <1>1, <1>2, <2>1 DEF SameBan
<1> QED
  BY <1>1, <1>3, InvParts DEF Inv, TypeOK, RecordsSound, PardonFinal

\* Inv is inductive.
LEMMA NextKeepsInv ==
  ASSUME Inv, [Next]_vars
  PROVE  Inv'
<1>1. ASSUME NEW ip \in IP, NEW reason \in Reason, ObserveInvalid(ip, reason)
      PROVE  Inv'
  BY <1>1, ObserveInvalidKeepsInv
<1>2. ASSUME NEW ip \in IP, BanPermanent(ip) PROVE Inv'
  BY <1>2, BanPermanentKeepsInv
<1>3. ASSUME NEW ip \in IP, ObserveValid(ip) PROVE Inv'
  BY <1>3, ObserveValidKeepsInv
<1>4. ASSUME NEW ip \in IP, Unban(ip) PROVE Inv'
  BY <1>4, ReleaseKeepsInv DEF Unban
<1>5. ASSUME NEW nets \in SUBSET IP, UnbanCIDRs(nets) PROVE Inv'
  BY <1>5, ReleaseKeepsInv DEF UnbanCIDRs
<1>6. CASE Tick
  BY <1>6, TickKeepsInv
<1>7. CASE Restart
  BY <1>7, RestartKeepsInv
<1>8. CASE UNCHANGED vars
  BY <1>8 DEF vars, Inv, TypeOK, RecordsSound, PardonFinal, BansDurable
<1> QED
  BY <1>1, <1>2, <1>3, <1>4, <1>5, <1>6, <1>7, <1>8 DEF Next, Online

\* The empty store and the missing file satisfy the invariant.
LEMMA InitInv == Init => Inv
<1> SUFFICES ASSUME Init PROVE Inv
  OBVIOUS
<1>1. IsRecordMap(NoRecords) /\ DOMAIN NoRecords = {}
  BY DEF NoRecords, IsRecordMap
<1>2. DOMAIN disk = {"Records", "Pardoned"} /\ disk.Records = NoRecords /\ disk.Pardoned = {}
  BY DEF Init
<1>3. TypeOK
  <2>1. stale = FALSE /\ clock = 1 /\ byIP = NoRecords /\ pardoned = {}
    BY DEF Init
  <2>2. stale \in BOOLEAN
    BY <2>1
  <2>3. clock \in Nat \ {0}
    BY <2>1
  <2> QED
    BY <1>1, <1>2, <2>1, <2>2, <2>3 DEF TypeOK
<1>4. RecordsSound /\ PardonFinal
  BY <1>1, <1>2 DEF Init, RecordsSound, PardonFinal
<1>5. BansDurable
  BY <1>2 DEF Init, BansDurable, SameBan
<1> QED
  BY <1>3, <1>4, <1>5 DEF Inv

-----------------------------------------------------------------------------
\* Theorems.

\* Inv holds in every reachable state.
THEOREM Invariance == Spec => []Inv
<1>1. Init => Inv
  BY InitInv
<1>2. Inv /\ [Next]_vars => Inv'
  BY NextKeepsInv
<1> QED
  BY <1>1, <1>2, PTL DEF Spec

\* Store's fields keep their types whatever sequence of calls, failing writes
\* and restarts happens.
THEOREM TypeCorrect == Spec => []TypeOK
BY Invariance, PTL DEF Inv

\* ObserveInvalid, BanPermanent and load leave only sound records.
THEOREM RecordsAlwaysSound == Spec => []RecordsSound
BY Invariance, PTL DEF Inv

\* No ObserveInvalid or BanPermanent ever bans an address that Unban or
\* UnbanCIDRs pardoned, before or after a restart.
THEOREM PardonIsFinal == Spec => []PardonFinal
BY Invariance, PTL DEF Inv

\* The file carries every ban and pardon over a restart unless I/O failed.
THEOREM BansAreDurable == Spec => []BansDurable
BY Invariance, PTL DEF Inv

-----------------------------------------------------------------------------
\* Refinement: every step of the store is a step of BanList or a stutter.

\* What recording r against ip does to the abstract state.
LEMMA PutAbstract ==
  ASSUME NEW m, NEW p, MemOK(m, p), NEW ip \in IP, ip \notin p,
         NEW r \in Record, SoundRecord(r), NEW now
  PROVE  /\ KindMap(Put(m, ip, r), now)
               = [KindMap(m, now) EXCEPT ![ip] = KindR(r, now)]
         /\ r.Bans > 0 => Prior(Put(m, ip, r)) = Prior(m) \cup {ip}
         /\ r.Bans = RecordOf(m, ip).Bans => Prior(Put(m, ip, r)) = Prior(m)
<1> DEFINE n == Put(m, ip, r)
<1>1. /\ MemOK(n, p) /\ RecordOf(n, ip) = r
      /\ \A k \in IP \ {ip} : RecordOf(n, k) = RecordOf(m, k)
  BY PutMemOK
<1> HIDE DEF n
<1>2. /\ KindMap(n, now) = [k \in IP |-> KindR(RecordOf(n, k), now)]
      /\ Prior(n) = {k \in IP : RecordOf(n, k).Bans > 0}
  BY <1>1, KindFact DEF MemOK
<1>3. /\ KindMap(m, now) = [k \in IP |-> KindR(RecordOf(m, k), now)]
      /\ Prior(m) = {k \in IP : RecordOf(m, k).Bans > 0}
  BY KindFact DEF MemOK
<1>4. KindMap(n, now) = [KindMap(m, now) EXCEPT ![ip] = KindR(r, now)]
  BY <1>1, <1>2, <1>3
<1>5. /\ r.Bans > 0 => Prior(n) = Prior(m) \cup {ip}
      /\ r.Bans = RecordOf(m, ip).Bans => Prior(n) = Prior(m)
  BY <1>1, <1>2, <1>3
<1> QED
  BY <1>4, <1>5 DEF n

\* An invalid event is a stutter, a first ban or a ban for good.
LEMMA ObserveInvalidRefines ==
  ASSUME Inv, NEW ip \in IP, NEW reason \in Reason, ObserveInvalid(ip, reason),
         stale' \in BOOLEAN
  PROVE  List!BanTemporarily(ip) \/ List!BanForGood(ip) \/ UNCHANGED List!vars
<1> DEFINE r == RecordOf(byIP, ip)
           c == CountInvalid(EndExpired(r, clock), reason)
           b == IssueBan(c, clock)
<1>1. /\ r \in Record /\ SoundRecord(r) /\ ~r.Permanent
      /\ ~(r.Until # 0 /\ clock < r.Until)
  BY FreeFact DEF ObserveInvalid
<1>2. /\ c \in Record
      /\ c.Bans = r.Bans /\ ~c.Permanent /\ c.Until = 0
      /\ c.Consecutive < Limit => SoundRecord(c)
      /\ b \in Record /\ SoundRecord(b)
      /\ b.Bans = r.Bans + 1
      /\ b.Until = IF r.Bans = 0 THEN clock + TTL ELSE 0
  BY <1>1, InvalidFact, InvParts
<1>3. /\ ip \notin pardoned /\ pardoned' = pardoned /\ clock' = clock
      /\ MemOK(byIP, pardoned) /\ clock \in Nat
  BY InvParts DEF ObserveInvalid
<1>4. /\ KindMap(byIP, clock) \in [IP -> {"none", "temporary", "permanent"}]
      /\ KindMap(byIP, clock)[ip] = "none"
      /\ Prior(byIP) = {k \in IP : RecordOf(byIP, k).Bans > 0}
  BY <1>1, <1>3, KindFact DEF KindR, MemOK
<1>5. CASE /\ c.Consecutive < Limit
           /\ byIP' = Put(byIP, ip, c)
           /\ UNCHANGED <<disk, stale>>
  <2> HIDE DEF r, c, b
  <2>1. /\ KindMap(byIP', clock) = [KindMap(byIP, clock) EXCEPT ![ip] = KindR(c, clock)]
        /\ Prior(byIP') = Prior(byIP)
    BY <1>2, <1>3, <1>5, PutAbstract DEF r
  <2>2. KindR(c, clock) = "none"
    BY <1>2 DEF KindR
  <2> QED
    BY <1>3, <1>4, <1>5, <2>1, <2>2 DEF List!vars
<1>6. CASE byIP' = Put(byIP, ip, b)
  <2> HIDE DEF r, c, b
  <2>1. r.Bans \in Nat /\ b.Bans > 0
    BY <1>1, <1>2 DEF Record
  <2>2. /\ KindMap(byIP', clock) = [KindMap(byIP, clock) EXCEPT ![ip] = KindR(b, clock)]
        /\ Prior(byIP') = Prior(byIP) \cup {ip}
    BY <1>2, <1>3, <1>6, <2>1, PutAbstract
  <2>3. CASE r.Bans = 0
    <3>1. b.Until = clock + TTL /\ ~b.Permanent
      BY <1>2, <2>3 DEF SoundRecord
    <3>2. KindR(b, clock) = "temporary"
      BY <1>3, <3>1, BanAssumption DEF KindR
    <3>3. ip \notin Prior(byIP)
      BY <1>4, <2>3 DEF r
    <3> QED
      BY <1>3, <2>2, <3>2, <3>3 DEF List!BanTemporarily
  <2>4. CASE r.Bans # 0
    <3>1. b.Permanent
      BY <1>2, <2>1, <2>4 DEF SoundRecord
    <3>2. KindR(b, clock) = "permanent"
      BY <3>1 DEF KindR
    <3> QED
      BY <1>3, <1>4, <2>2, <3>2 DEF List!BanForGood
  <2> QED
    BY <2>3, <2>4
<1> QED
  BY <1>5, <1>6 DEF ObserveInvalid

\* A permanent ban is a ban for good.
LEMMA BanPermanentRefines ==
  ASSUME Inv, NEW ip \in IP, BanPermanent(ip), stale' \in BOOLEAN
  PROVE  List!BanForGood(ip)
<1> DEFINE r == RecordOf(byIP, ip)
           b == [Consecutive |-> 0, Reason |-> "none", Until |-> 0,
                 Permanent |-> TRUE, Bans |-> IF r.Bans < 2 THEN 2 ELSE r.Bans]
<1>1. /\ r \in Record /\ ~r.Permanent
      /\ MemOK(byIP, pardoned) /\ ip \notin pardoned
      /\ pardoned' = pardoned /\ clock' = clock
      /\ byIP' = Put(byIP, ip, b)
  BY InvParts, RecordOfFact DEF BanPermanent, MemOK
<1>2. /\ b \in Record /\ SoundRecord(b) /\ b.Permanent /\ b.Bans > 0
  <2>1. (IF r.Bans < 2 THEN 2 ELSE r.Bans) \in Nat \ {0, 1}
    BY <1>1 DEF Record
  <2>2. \A n \in Nat \ {0, 1} :
          LET x == [Consecutive |-> 0, Reason |-> "none", Until |-> 0,
                    Permanent |-> TRUE, Bans |-> n]
          IN  x \in Record /\ SoundRecord(x) /\ x.Permanent /\ x.Bans > 0
    BY BanAssumption DEF Record, SoundRecord
  <2> HIDE DEF r
  <2> QED
    BY <2>1, <2>2
<1> HIDE DEF b
<1>3. KindR(b, clock) = "permanent"
  BY <1>2 DEF KindR
<1>4. /\ KindMap(byIP', clock) = [KindMap(byIP, clock) EXCEPT ![ip] = KindR(b, clock)]
      /\ Prior(byIP') = Prior(byIP) \cup {ip}
  BY <1>1, <1>2, PutAbstract
<1>5. KindMap(byIP, clock)[ip] # "permanent"
  BY <1>1, KindFact DEF KindR, MemOK
<1> QED
  BY <1>1, <1>3, <1>4, <1>5 DEF List!BanForGood

\* A reset streak is invisible.
LEMMA ObserveValidRefines ==
  ASSUME Inv, NEW ip \in IP, ObserveValid(ip)
  PROVE  UNCHANGED List!vars
<1> DEFINE c == [byIP[ip] EXCEPT !.Consecutive = 0]
<1>1. /\ ip \in DOMAIN byIP /\ MemOK(byIP, pardoned)
      /\ byIP' = Put(byIP, ip, c)
      /\ UNCHANGED <<pardoned, disk, stale, clock>>
      /\ RecordOf(byIP, ip) = byIP[ip]
  BY InvParts DEF ObserveValid, RecordOf, ZeroRecord
<1>2. byIP[ip] \in Record /\ SoundRecord(byIP[ip]) /\ ip \in IP \ pardoned
  BY <1>1 DEF MemOK, IsRecordMap, Sound
<1>3. /\ c \in Record
      /\ c.Bans = byIP[ip].Bans /\ (c.Permanent <=> byIP[ip].Permanent)
      /\ c.Until = byIP[ip].Until /\ c.Consecutive = 0
  BY <1>2 DEF Record
<1>4. SoundRecord(c)
  BY <1>2, <1>3, BanAssumption DEF SoundRecord
<1> HIDE DEF c
<1>5. KindR(c, clock) = KindR(RecordOf(byIP, ip), clock)
  BY <1>1, <1>3 DEF KindR
<1>6. /\ KindMap(byIP', clock) = [KindMap(byIP, clock) EXCEPT ![ip] = KindR(c, clock)]
      /\ Prior(byIP') = Prior(byIP)
  BY <1>1, <1>2, <1>3, <1>4, PutAbstract
<1>7. KindMap(byIP, clock) = [k \in IP |-> KindR(RecordOf(byIP, k), clock)]
  BY <1>1, KindFact DEF MemOK
<1>8. KindMap(byIP', clock) = KindMap(byIP, clock)
  BY <1>5, <1>6, <1>7
<1> QED
  BY <1>1, <1>6, <1>8 DEF List!vars

\* Unbanning is a pardon.
LEMMA ReleaseRefines ==
  ASSUME Inv, NEW S \in SUBSET IP, Release(S), stale' \in BOOLEAN
  PROVE  List!Pardon(S)
<1>1. /\ MemOK(byIP, pardoned) /\ byIP' = Drop(byIP, S)
      /\ pardoned' = pardoned \cup S /\ clock' = clock
  BY InvParts DEF Release
<1>2. /\ IsRecordMap(byIP')
      /\ \A k \in IP \ S : RecordOf(byIP', k) = RecordOf(byIP, k)
      /\ \A k \in S : RecordOf(byIP', k) = ZeroRecord
  BY <1>1 DEF Drop, Restrict, IsRecordMap, RecordOf, MemOK
<1>3. KindR(ZeroRecord, clock) = "none" /\ ZeroRecord.Bans = 0
  BY DEF KindR, ZeroRecord
<1>4. /\ KindMap(byIP, clock) = [k \in IP |-> KindR(RecordOf(byIP, k), clock)]
      /\ Prior(byIP) = {k \in IP : RecordOf(byIP, k).Bans > 0}
  BY <1>1, KindFact DEF MemOK
<1>5. /\ KindMap(byIP', clock) = [k \in IP |-> KindR(RecordOf(byIP', k), clock)]
      /\ Prior(byIP') = {k \in IP : RecordOf(byIP', k).Bans > 0}
  BY <1>2, KindFact
<1>6. Prior(byIP') = Prior(byIP) \ S
  BY <1>2, <1>3, <1>4, <1>5
<1>7. KindMap(byIP', clock)
        = [k \in IP |-> IF k \in S THEN "none" ELSE KindMap(byIP, clock)[k]]
  BY <1>2, <1>3, <1>4, <1>5
<1> QED
  BY <1>1, <1>6, <1>7 DEF List!Pardon

\* A tick ends the temporary bans whose time has come.
LEMMA TickRefines ==
  ASSUME Inv, Tick
  PROVE  \E S \in SUBSET IP : List!Expire(S)
<1> DEFINE K(now, k) == KindR(RecordOf(byIP, k), now)
           S == {k \in IP : K(clock, k) = "temporary" /\ K(clock', k) # "temporary"}
<1>1. /\ clock \in Nat /\ clock' = clock + 1
      /\ UNCHANGED <<byIP, pardoned, disk, stale>> /\ MemOK(byIP, pardoned)
  BY InvParts DEF Tick
<1>2. /\ KindMap(byIP, clock) = [k \in IP |-> K(clock, k)]
      /\ KindMap(byIP, clock') = [k \in IP |-> K(clock', k)]
  BY <1>1, KindFact DEF MemOK
<1>3. \A k \in IP : RecordOf(byIP, k).Until \in Nat
  BY <1>1, RecordOfFact DEF MemOK, Record
<1>4. \A k \in IP : K(clock', k) = IF k \in S THEN "none" ELSE K(clock, k)
  BY <1>1, <1>3 DEF KindR
<1>5. List!Expire(S)
  <2>1. \A k \in S : KindMap(byIP, clock)[k] = "temporary"
    BY <1>2
  <2>2. KindMap(byIP', clock')
          = [k \in IP |-> IF k \in S THEN "none" ELSE KindMap(byIP, clock)[k]]
    <3> HIDE DEF S, K
    <3> QED
      BY <1>1, <1>2, <1>4
  <2> HIDE DEF S, K
  <2> QED
    BY <1>1, <2>1, <2>2 DEF List!Expire
<1> QED
  BY <1>5

\* The abstract state of any sound memory is consistent.
LEMMA ConsistentFact ==
  ASSUME NEW m, NEW p, MemOK(m, p), NEW now
  PROVE  List!Consistent(KindMap(m, now), Prior(m), p)
<1>1. \A k \in IP : RecordOf(m, k) \in Record /\ SoundRecord(RecordOf(m, k))
  BY RecordOfFact DEF MemOK
<1>2. /\ KindMap(m, now) = [k \in IP |-> KindR(RecordOf(m, k), now)]
      /\ Prior(m) = {k \in IP : RecordOf(m, k).Bans > 0}
  BY KindFact DEF MemOK
<1>3. KindMap(m, now) \in [IP -> List!Kind]
  BY <1>2 DEF KindR, List!Kind
<1>4. ASSUME NEW k \in IP, KindMap(m, now)[k] # "none" PROVE k \in Prior(m)
  <2>1. RecordOf(m, k).Permanent \/ RecordOf(m, k).Until # 0
    BY <1>2, <1>4 DEF KindR
  <2>2. RecordOf(m, k).Bans > 0
    BY <1>1, <2>1 DEF SoundRecord, Record
  <2> QED
    BY <1>2, <2>2
<1>5. Prior(m) \subseteq DOMAIN m
  BY DEF Prior
<1> QED
  BY <1>2, <1>3, <1>4, <1>5 DEF List!Consistent, MemOK

\* A restart after good writes and with a readable file changes nothing that
\* the abstract list shows.
LEMMA RestartRefines ==
  ASSUME Inv, Inv', Restart
  PROVE  List!Restart
<1>1. /\ MemOK(byIP, pardoned) /\ MemOK(byIP', pardoned') /\ clock' = clock
      /\ stale' \in BOOLEAN /\ clock \in Nat
  BY InvParts DEF Restart, Inv, TypeOK, RecordsSound, PardonFinal, MemOK, Sound
<1>2. List!Consistent(KindMap(byIP', clock'), Prior(byIP'), pardoned')
  BY <1>1, ConsistentFact
<1>3. ASSUME ~stale, ~stale'
      PROVE  /\ KindMap(byIP', clock') = KindMap(byIP, clock)
             /\ Prior(byIP') = Prior(byIP)
             /\ pardoned' = pardoned
  <2>1. byIP' = disk.Records /\ pardoned' = disk.Pardoned
    BY <1>3 DEF Restart
  <2>2. /\ pardoned = disk.Pardoned
        /\ \A k \in IP : SameBan(RecordOf(byIP, k), RecordOf(byIP', k), clock)
    BY <1>3, <2>1, InvParts DEF BansDurable
  <2>3. \A k \in IP : /\ RecordOf(byIP, k).Until \in Nat
                       /\ RecordOf(byIP', k).Until \in Nat
    BY <1>1, RecordOfFact DEF MemOK, Record
  <2>4. \A k \in IP : /\ KindR(RecordOf(byIP, k), clock) = KindR(RecordOf(byIP', k), clock)
                       /\ RecordOf(byIP, k).Bans = RecordOf(byIP', k).Bans
    BY <1>1, <2>2, <2>3 DEF SameBan, KindR
  <2>5. /\ KindMap(byIP, clock) = [k \in IP |-> KindR(RecordOf(byIP, k), clock)]
        /\ Prior(byIP) = {k \in IP : RecordOf(byIP, k).Bans > 0}
    BY <1>1, KindFact DEF MemOK
  <2>6. /\ KindMap(byIP', clock) = [k \in IP |-> KindR(RecordOf(byIP', k), clock)]
        /\ Prior(byIP') = {k \in IP : RecordOf(byIP', k).Bans > 0}
    BY <1>1, KindFact DEF MemOK
  <2> QED
    BY <1>1, <2>1, <2>2, <2>4, <2>5, <2>6
<1> QED
  BY <1>1, <1>2, <1>3 DEF List!Restart, List!Consistent

\* Every step of the store maps to a step of the list.
LEMMA NextRefines ==
  ASSUME Inv, Inv', [Next]_vars
  PROVE  [List!Next]_(List!vars)
<1>0. stale' \in BOOLEAN
  BY DEF Inv, TypeOK
<1>1. ASSUME NEW ip \in IP, NEW reason \in Reason, ObserveInvalid(ip, reason)
      PROVE  [List!Next]_(List!vars)
  BY <1>0, <1>1, ObserveInvalidRefines DEF List!Next
<1>2. ASSUME NEW ip \in IP, BanPermanent(ip) PROVE [List!Next]_(List!vars)
  BY <1>0, <1>2, BanPermanentRefines DEF List!Next
<1>3. ASSUME NEW ip \in IP, ObserveValid(ip) PROVE [List!Next]_(List!vars)
  BY <1>3, ObserveValidRefines
<1>4. ASSUME NEW ip \in IP, Unban(ip) PROVE [List!Next]_(List!vars)
  <2>1. List!Pardon({ip} \cap DOMAIN byIP)
    BY <1>0, <1>4, ReleaseRefines DEF Unban
  <2> QED
    BY <2>1 DEF List!Next
<1>5. ASSUME NEW nets \in SUBSET IP, UnbanCIDRs(nets) PROVE [List!Next]_(List!vars)
  <2>1. List!Pardon(nets \cap DOMAIN byIP)
    BY <1>0, <1>5, ReleaseRefines DEF UnbanCIDRs
  <2> QED
    BY <2>1 DEF List!Next
<1>6. CASE Tick
  BY <1>6, TickRefines DEF List!Next
<1>7. CASE Restart
  BY <1>7, RestartRefines DEF List!Next
<1>8. CASE UNCHANGED vars
  BY <1>8 DEF vars, List!vars
<1> QED
  BY <1>1, <1>2, <1>3, <1>4, <1>5, <1>6, <1>7, <1>8 DEF Next, Online

\* The empty store is the empty list.
LEMMA InitRefines == Init => List!Init
<1> SUFFICES ASSUME Init PROVE List!Init
  OBVIOUS
<1>1. IsRecordMap(NoRecords) /\ \A k : RecordOf(NoRecords, k) = ZeroRecord
  BY DEF NoRecords, IsRecordMap, RecordOf
<1>2. KindR(ZeroRecord, clock) = "none" /\ ZeroRecord.Bans = 0
  BY DEF KindR, ZeroRecord
<1>3. /\ KindMap(NoRecords, clock) = [k \in IP |-> KindR(RecordOf(NoRecords, k), clock)]
      /\ Prior(NoRecords) = {k \in IP : RecordOf(NoRecords, k).Bans > 0}
  BY <1>1, KindFact
<1>4. KindMap(NoRecords, clock) = [k \in IP |-> "none"] /\ Prior(NoRecords) = {}
  BY <1>1, <1>2, <1>3
<1> QED
  BY <1>4 DEF Init, List!Init

\* The store implements the abstract ban list.
THEOREM Refinement == Spec => ImplementsBanList
<1>1. Init => List!Init
  BY InitRefines
<1>2. Inv /\ Inv' /\ [Next]_vars => [List!Next]_(List!vars)
  BY NextRefines
<1> QED
  BY <1>1, <1>2, Invariance, PTL DEF Spec, List!Spec, ImplementsBanList

\* Because it implements the list, only an administrator, or a restart after a
\* fault of the file, ends a permanent ban.
THEOREM PermanentBansStay == Spec => PermanentStays
<1>1. ASSUME Inv, Inv', [Next]_vars
      PROVE  [\A ip \in IP :
                /\ KindOf(byIP, ip, clock) = "permanent"
                /\ KindOf(byIP', ip, clock') # "permanent"
                => ip \in pardoned' \/ stale \/ stale']_vars
  <2>1. [List!Next]_(List!vars)
    BY <1>1, NextRefines
  <2>2. /\ \A ip \in IP : KindMap(byIP, clock)[ip] = KindOf(byIP, ip, clock)
        /\ \A ip \in IP : KindMap(byIP', clock')[ip] = KindOf(byIP', ip, clock')
    BY DEF KindMap
  <2> SUFFICES ASSUME NEW ip \in IP, KindMap(byIP, clock)[ip] = "permanent",
                      KindMap(byIP', clock')[ip] # "permanent"
               PROVE  ip \in pardoned' \/ stale \/ stale'
    BY <2>2
  <2> KindMap(byIP, clock) = [k \in IP |-> KindMap(byIP, clock)[k]]
    BY DEF KindMap
  <2>3. ASSUME NEW k \in IP, List!BanTemporarily(k) \/ List!BanForGood(k)
        PROVE  ip \in pardoned' \/ stale \/ stale'
    <3>1. k # ip => KindMap(byIP', clock')[ip] = KindMap(byIP, clock)[ip]
      BY <2>3 DEF List!BanTemporarily, List!BanForGood
    <3>2. KindMap(byIP, clock)[ip] # "none" => ip \in Prior(byIP)
      BY <1>1, InvParts, ConsistentFact DEF List!Consistent
    <3> QED
      BY <2>3, <3>1, <3>2 DEF List!BanTemporarily, List!BanForGood
  <2>4. ASSUME NEW S \in SUBSET IP, List!Expire(S) \/ List!Pardon(S)
        PROVE  ip \in pardoned' \/ stale \/ stale'
    BY <2>4 DEF List!Expire, List!Pardon
  <2>5. CASE List!Restart
    BY <2>5 DEF List!Restart
  <2>6. CASE UNCHANGED List!vars
    BY <2>6 DEF List!vars
  <2> QED
    BY <2>1, <2>3, <2>4, <2>5, <2>6 DEF List!Next
<1> QED
  BY <1>1, Invariance, PTL DEF Spec, PermanentStays

-----------------------------------------------------------------------------
(***************************************************************************)
(* The counter and the history variable of BanStreaks.                     *)
(***************************************************************************)

\* A record whose ban has an end counts nothing, in force or expired.
Idle(m) == \A ip \in DOMAIN m : m[ip].Until # 0 => m[ip].Consecutive = 0

StreakOK == streak \in [IP -> [n : Nat, reason : Reason \cup {"none"}]]

\* The inductive invariant of SpecPerRun.  Without Idle the end of a ban could
\* wipe a count; the file needs it because a restart loads it.
StreakInv == Inv /\ StreakOK /\ Idle(byIP) /\ Idle(disk.Records) /\ CounterExact

\* The map operations and a write, successful or not, keep Idle.
LEMMA IdlePut ==
  ASSUME NEW m, Idle(m), NEW ip, NEW r, r.Until # 0 => r.Consecutive = 0
  PROVE  Idle(Put(m, ip, r))
BY DEF Idle, Put

LEMMA IdleDrop ==
  ASSUME NEW m, Idle(m), NEW S
  PROVE  Idle(Drop(m, S))
BY DEF Idle, Drop, Restrict

LEMMA IdleWrite ==
  ASSUME NEW m, NEW p, Idle(m), Idle(disk.Records), PersistLocked(m, p)
  PROVE  Idle(disk'.Records)
<1>1. Idle(Snapshot(m, p).Records)
  BY DEF Idle, Snapshot, Restrict
<1> QED
  BY <1>1 DEF PersistLocked

\* What ObserveInvalid counts is one more than the row so far if that has the
\* same reason, and one if it does not; a ban leaves no count.
LEMMA CountFact ==
  ASSUME NEW r \in Record, NEW reason \in Reason, NEW now \in Nat,
         r.Until # 0 => r.Consecutive = 0,
         ~(r.Until # 0 /\ now < r.Until)
  PROVE  LET c == CountInvalid(EndExpired(r, now), reason)
         IN  /\ c.Consecutive = IF r.Consecutive > 0 /\ r.Reason = reason
                                THEN r.Consecutive + 1 ELSE 1
             /\ c.Reason = reason
             /\ c.Until = 0
             /\ IssueBan(c, now).Consecutive = 0
<1> DEFINE e == EndExpired(r, now)
           c == CountInvalid(e, reason)
<1>1. /\ e \in Record /\ e.Until = 0 /\ e.Consecutive = r.Consecutive
      /\ r.Consecutive > 0 => e.Reason = r.Reason
  <2>1. CASE r.Until # 0
    <3>1. e = [r EXCEPT !.Until = 0, !.Consecutive = 0, !.Reason = "none"]
      BY <2>1 DEF EndExpired, Record
    <3>2. [r EXCEPT !.Until = 0, !.Consecutive = 0, !.Reason = "none"] \in Record
      BY ZenonT(60) DEF Record
    <3>3. e.Until = 0 /\ e.Consecutive = 0
      BY <3>1 DEF Record
    <3> QED
      BY <2>1, <3>1, <3>2, <3>3
  <2>2. CASE r.Until = 0
    BY <2>2 DEF EndExpired
  <2> QED
    BY <2>1, <2>2
<1> HIDE DEF e
<1>2. /\ c.Consecutive = (IF e.Reason = reason THEN e.Consecutive ELSE 0) + 1
      /\ c.Reason = reason /\ c.Until = 0 /\ c \in Record
  <2> DEFINE n == (IF e.Reason = reason THEN e.Consecutive ELSE 0) + 1
  <2>1. n \in Nat
    BY <1>1 DEF Record
  <2>2. c = [e EXCEPT !.Reason = reason, !.Consecutive = n]
    BY DEF CountInvalid
  <2> HIDE DEF n
  <2>3. c.Consecutive = n /\ c.Reason = reason /\ c.Until = 0 /\ c \in Record
    BY <1>1, <2>1, <2>2 DEF Record
  <2> QED
    BY <2>3 DEF n
<1>3. r.Consecutive \in Nat
  BY DEF Record
<1>4. IssueBan(c, now).Consecutive = 0
  BY <1>2 DEF IssueBan, Record
<1>5. c.Consecutive = IF r.Consecutive > 0 /\ r.Reason = reason
                      THEN r.Consecutive + 1 ELSE 1
  BY <1>1, <1>2, <1>3
<1> QED
  BY <1>2, <1>4, <1>5 DEF e

\* An invalid event.
LEMMA CountToLimitKeeps ==
  ASSUME StreakInv, NEW ip \in IP, NEW reason \in Reason, CountToLimit(ip, reason)
  PROVE  StreakInv'
<1> DEFINE r == RecordOf(byIP, ip)
           c == CountInvalid(EndExpired(r, clock), reason)
           l == Longer(ip, reason)
<1>0. Inv /\ ObserveInvalid(ip, reason) /\ clock \in Nat \ {0}
  BY InvParts DEF StreakInv, CountToLimit
<1>1. /\ r \in Record /\ ~(r.Until # 0 /\ clock < r.Until)
      /\ r.Until # 0 => r.Consecutive = 0
  <2>1. r \in Record /\ ~(r.Until # 0 /\ clock < r.Until)
    BY <1>0, FreeFact DEF ObserveInvalid
  <2>2. r.Until # 0 => r.Consecutive = 0
    BY DEF StreakInv, Idle, RecordOf, ZeroRecord
  <2> QED
    BY <2>1, <2>2
<1>2. /\ c.Consecutive = IF r.Consecutive > 0 /\ r.Reason = reason
                         THEN r.Consecutive + 1 ELSE 1
      /\ c.Reason = reason /\ c.Until = 0
      /\ IssueBan(c, clock).Consecutive = 0
  BY <1>0, <1>1, CountFact
<1>3. Inv'
  BY <1>0, ObserveInvalidKeepsInv
<1>4. /\ r.Consecutive = streak[ip].n
      /\ r.Consecutive > 0 => r.Reason = streak[ip].reason
  BY <1>0 DEF StreakInv, CounterExact, ObserveInvalid
<1>5. /\ streak \in [IP -> [n : Nat, reason : Reason \cup {"none"}]]
      /\ streak[ip].n \in Nat
  BY DEF StreakInv, StreakOK
<1>6. /\ l.n = c.Consecutive /\ l.reason = reason
      /\ l \in [n : Nat, reason : Reason \cup {"none"}]
  <2>1. CASE streak[ip].reason = reason /\ streak[ip].n > 0
    <3>1. l = [streak[ip] EXCEPT !.n = @ + 1]
      BY <2>1 DEF Longer
    <3> QED
      BY <1>2, <1>4, <1>5, <2>1, <3>1
  <2>2. CASE ~(streak[ip].reason = reason /\ streak[ip].n > 0)
    <3>1. l = [n |-> 1, reason |-> reason]
      BY <2>2 DEF Longer
    <3>2. c.Consecutive = 1
      BY <1>2, <1>4, <2>2
    <3> QED
      BY <3>1, <3>2
  <2> QED
    BY <2>1, <2>2
<1>7. /\ streak' = [streak EXCEPT ![ip] = IF l.n >= Limit THEN NoStreak ELSE l]
      /\ NoStreak \in [n : Nat, reason : Reason \cup {"none"}]
  BY DEF CountToLimit, NoStreak
<1> HIDE DEF r, c, l
<1>8. StreakOK'
  BY <1>5, <1>6, <1>7 DEF StreakOK
<1>9. pardoned' = pardoned /\ ip \notin pardoned
  BY <1>0 DEF ObserveInvalid
<1>10. \A k \in IP \ {ip} : streak'[k] = streak[k]
  BY <1>5, <1>7
<1>11. CASE /\ c.Consecutive < Limit
            /\ byIP' = Put(byIP, ip, c)
            /\ UNCHANGED <<disk, stale>>
  <2>1. /\ RecordOf(byIP', ip) = c
        /\ \A k \in IP \ {ip} : RecordOf(byIP', k) = RecordOf(byIP, k)
    BY <1>11 DEF Put, RecordOf
  <2>2. Idle(byIP') /\ Idle(disk'.Records)
    BY <1>2, <1>11, IdlePut DEF StreakInv
  <2>3. streak'[ip] = l
    <3>1. c.Consecutive \in Nat /\ Limit \in Nat
      BY <1>1, <1>2, BanAssumption DEF Record
    <3> QED
      BY <1>5, <1>6, <1>7, <1>11, <3>1
  <2>4. CounterExact'
    BY <1>2, <1>6, <1>9, <1>10, <2>1, <2>3 DEF StreakInv, CounterExact, RecordOf
  <2> QED
    BY <1>3, <1>8, <2>2, <2>4 DEF StreakInv, Idle
<1>12. CASE /\ c.Consecutive >= Limit
            /\ byIP' = Put(byIP, ip, IssueBan(c, clock))
            /\ PersistLocked(byIP', pardoned)
  <2> DEFINE b == IssueBan(c, clock)
  <2>0. b.Consecutive = 0 /\ byIP' = Put(byIP, ip, b)
    BY <1>2, <1>12
  <2> HIDE DEF b
  <2>1. /\ RecordOf(byIP', ip) = b
        /\ \A k \in IP \ {ip} : RecordOf(byIP', k) = RecordOf(byIP, k)
    BY <2>0 DEF Put, RecordOf
  <2>2. Idle(byIP') /\ Idle(disk'.Records)
    BY <1>12, <2>0, IdlePut, IdleWrite DEF StreakInv
  <2>3. streak'[ip] = NoStreak
    BY <1>5, <1>6, <1>7, <1>12
  <2>4. CounterExact'
    BY <1>9, <1>10, <2>0, <2>1, <2>3 DEF StreakInv, CounterExact, RecordOf, NoStreak
  <2> QED
    BY <1>3, <1>8, <2>2, <2>4 DEF StreakInv, Idle
<1> QED
  BY <1>0, <1>11, <1>12 DEF ObserveInvalid, r, c

\* A valid event, also one that the store had nothing to reset for.
LEMMA SObserveValidKeeps ==
  ASSUME StreakInv, NEW ip \in IP, SObserveValid(ip)
  PROVE  StreakInv'
<1>1. /\ streak \in [IP -> [n : Nat, reason : Reason \cup {"none"}]]
      /\ streak' = [streak EXCEPT ![ip] = NoStreak]
      /\ NoStreak \in [n : Nat, reason : Reason \cup {"none"}]
  BY DEF StreakInv, StreakOK, SObserveValid, NoStreak
<1>2. StreakOK' /\ streak'[ip].n = 0 /\ \A k \in IP \ {ip} : streak'[k] = streak[k]
  BY <1>1 DEF StreakOK, NoStreak
<1>3. CASE RecordOf(byIP, ip).Consecutive = 0 /\ UNCHANGED vars
  <2>1. Inv' /\ Idle(byIP') /\ Idle(disk'.Records)
    BY <1>3, InvParts
    DEF vars, StreakInv, Inv, TypeOK, RecordsSound, PardonFinal, BansDurable, Idle
  <2>2. CounterExact'
    BY <1>2, <1>3 DEF vars, StreakInv, CounterExact, RecordOf
  <2> QED
    BY <1>2, <2>1, <2>2 DEF StreakInv, Idle
<1>4. CASE ObserveValid(ip)
  <2> DEFINE b == [byIP[ip] EXCEPT !.Consecutive = 0]
  <2>1. /\ ip \in DOMAIN byIP /\ byIP[ip] \in Record /\ byIP' = Put(byIP, ip, b)
        /\ UNCHANGED <<pardoned, disk>>
    BY <1>4, InvParts
    DEF ObserveValid, RecordOf, ZeroRecord, StreakInv, MemOK, IsRecordMap
  <2>2. b.Consecutive = 0
    BY <2>1 DEF Record
  <2> HIDE DEF b
  <2>3. /\ RecordOf(byIP', ip) = b
        /\ \A k \in IP \ {ip} : RecordOf(byIP', k) = RecordOf(byIP, k)
    BY <2>1 DEF Put, RecordOf
  <2>4. Idle(byIP') /\ Idle(disk'.Records)
    BY <2>1, <2>2, IdlePut DEF StreakInv
  <2>5. CounterExact'
    BY <1>2, <2>1, <2>2, <2>3 DEF StreakInv, CounterExact, RecordOf
  <2>6. Inv'
    BY <1>4, ObserveValidKeepsInv DEF StreakInv
  <2> QED
    BY <1>2, <2>4, <2>5, <2>6 DEF StreakInv, Idle
<1> QED
  BY <1>3, <1>4 DEF SObserveValid

\* A permanent ban counts nothing.
LEMMA SBanPermanentKeeps ==
  ASSUME StreakInv, NEW ip \in IP, SBanPermanent(ip)
  PROVE  StreakInv'
<1>1. /\ streak \in [IP -> [n : Nat, reason : Reason \cup {"none"}]]
      /\ streak' = [streak EXCEPT ![ip] = NoStreak]
      /\ NoStreak \in [n : Nat, reason : Reason \cup {"none"}]
  BY DEF StreakInv, StreakOK, SBanPermanent, NoStreak
<1>2. StreakOK' /\ streak'[ip].n = 0 /\ \A k \in IP \ {ip} : streak'[k] = streak[k]
  BY <1>1 DEF StreakOK, NoStreak
<1> DEFINE b == [Consecutive |-> 0, Reason |-> "none", Until |-> 0, Permanent |-> TRUE,
                 Bans |-> IF RecordOf(byIP, ip).Bans < 2
                          THEN 2 ELSE RecordOf(byIP, ip).Bans]
<1>3. /\ byIP' = Put(byIP, ip, b) /\ pardoned' = pardoned
      /\ PersistLocked(byIP', pardoned) /\ BanPermanent(ip)
  BY DEF SBanPermanent, BanPermanent
<1>4. b.Consecutive = 0
  OBVIOUS
<1> HIDE DEF b
<1>5. /\ RecordOf(byIP', ip) = b
      /\ \A k \in IP \ {ip} : RecordOf(byIP', k) = RecordOf(byIP, k)
  BY <1>3 DEF Put, RecordOf
<1>6. Idle(byIP') /\ Idle(disk'.Records)
  BY <1>3, <1>4, IdlePut, IdleWrite DEF StreakInv
<1>7. CounterExact'
  BY <1>2, <1>3, <1>4, <1>5 DEF StreakInv, CounterExact, RecordOf
<1>8. Inv'
  BY <1>3, BanPermanentKeepsInv DEF StreakInv
<1> QED
  BY <1>2, <1>6, <1>7, <1>8 DEF StreakInv, Idle

\* An unban takes the record away and the address out of the count.
LEMMA SReleaseKeeps ==
  ASSUME StreakInv, NEW S \in SUBSET IP, Release(S), UNCHANGED streak
  PROVE  StreakInv'
<1>1. Inv'
  BY ReleaseKeepsInv DEF StreakInv
<1>2. Idle(byIP') /\ Idle(disk'.Records)
  BY IdleDrop, IdleWrite DEF StreakInv, Release
<1>3. \A k \in IP \ S : RecordOf(byIP', k) = RecordOf(byIP, k)
  BY DEF Release, Drop, Restrict, RecordOf
<1>4. CounterExact'
  BY <1>3 DEF StreakInv, CounterExact, Release, RecordOf
<1> QED
  BY <1>1, <1>2, <1>4 DEF StreakInv, StreakOK, Idle

\* A restart counts on from what was loaded.
LEMMA RestartKeeps ==
  ASSUME StreakInv, RestartFromLoaded
  PROVE  StreakInv'
<1>1. Inv'
  BY RestartKeepsInv DEF StreakInv, RestartFromLoaded
<1>2. disk' = disk /\ (byIP' = disk.Records \/ byIP' = NoRecords)
  BY DEF RestartFromLoaded, Restart
<1>3. Idle(byIP') /\ Idle(disk'.Records)
  BY <1>2 DEF StreakInv, Idle, NoRecords
<1>4. \A ip \in IP : RecordOf(byIP', ip) \in Record
  <2>1. IsRecordMap(byIP') /\ Sound(byIP')
    BY <1>1 DEF Inv, TypeOK, IsRecordMap, RecordsSound, Sound
  <2> QED
    BY <2>1, RecordOfFact
<1>5. streak' = [ip \in IP |->
         IF RecordOf(byIP', ip).Consecutive = 0 THEN NoStreak
         ELSE [n |-> RecordOf(byIP', ip).Consecutive,
               reason |-> RecordOf(byIP', ip).Reason]]
  BY DEF RestartFromLoaded
<1>6. StreakOK'
  <2> SUFFICES ASSUME NEW ip \in IP
               PROVE  streak'[ip] \in [n : Nat, reason : Reason \cup {"none"}]
    BY <1>5 DEF StreakOK
  <2> QED
    BY <1>4, <1>5 DEF NoStreak, Record
<1>7. CounterExact'
  <2> SUFFICES ASSUME NEW ip \in IP
               PROVE  /\ RecordOf(byIP', ip).Consecutive = streak'[ip].n
                      /\ RecordOf(byIP', ip).Consecutive > 0 =>
                           RecordOf(byIP', ip).Reason = streak'[ip].reason
    BY DEF CounterExact, RecordOf
  <2> QED
    BY <1>4, <1>5 DEF NoStreak, Record
<1> QED
  BY <1>1, <1>3, <1>6, <1>7 DEF StreakInv, Idle

LEMMA StreakStep ==
  ASSUME StreakInv, [NextPerRun]_svars
  PROVE  StreakInv'
<1>1. ASSUME NEW ip \in IP, NEW reason \in Reason, CountToLimit(ip, reason)
      PROVE  StreakInv'
  BY <1>1, CountToLimitKeeps
<1>2. ASSUME NEW ip \in IP, SObserveValid(ip) PROVE StreakInv'
  BY <1>2, SObserveValidKeeps
<1>3. ASSUME NEW ip \in IP, SBanPermanent(ip) PROVE StreakInv'
  BY <1>3, SBanPermanentKeeps
<1>4. ASSUME NEW ip \in IP, Unban(ip), UNCHANGED streak PROVE StreakInv'
  BY <1>4, SReleaseKeeps DEF Unban
<1>5. ASSUME NEW nets \in SUBSET IP, UnbanCIDRs(nets), UNCHANGED streak
      PROVE  StreakInv'
  BY <1>5, SReleaseKeeps DEF UnbanCIDRs
<1>6. CASE Tick /\ UNCHANGED streak
  <2>1. Inv'
    BY <1>6, TickKeepsInv DEF StreakInv
  <2> QED
    BY <1>6, <2>1 DEF Tick, StreakInv, StreakOK, Idle, CounterExact, RecordOf
<1>7. CASE RestartFromLoaded
  BY <1>7, RestartKeeps
<1>8. CASE UNCHANGED svars
  <2>1. Inv'
    BY <1>8 DEF svars, StreakInv, Inv, TypeOK, RecordsSound, PardonFinal, BansDurable
  <2> QED
    BY <1>8, <2>1 DEF svars, StreakInv, StreakOK, Idle, CounterExact, RecordOf
<1> QED
  BY <1>1, <1>2, <1>3, <1>4, <1>5, <1>6, <1>7, <1>8 DEF NextPerRun, OtherCalls

LEMMA StreakStart == SInit => StreakInv
<1> SUFFICES ASSUME SInit PROVE StreakInv
  OBVIOUS
<1>1. Inv
  BY InitInv DEF SInit
<1>2. StreakOK /\ Idle(byIP) /\ Idle(disk.Records) /\ CounterExact
  BY DEF SInit, Init, StreakOK, NoStreak, Idle, NoRecords, CounterExact, RecordOf,
         ZeroRecord
<1> QED
  BY <1>1, <1>2 DEF StreakInv

\* Within one run of the process the counter of ObserveInvalid is the number of
\* consecutive invalid events of one reason, whatever bans, expiries, valid
\* events and restarts came before.
THEOREM CounterIsExact == SpecPerRun => []CounterExact
<1>1. SpecPerRun => []StreakInv
  BY StreakStart, StreakStep, PTL DEF SpecPerRun
<1>2. StreakInv => CounterExact
  BY DEF StreakInv
<1> QED
  BY <1>1, <1>2, PTL

\* The history variable only watches: every behaviour with it is a behaviour of
\* the store, so that what is proved of Spec holds where rows are counted.
THEOREM HistoryOnly == SpecPerRun => Spec
<1>1. SInit => Init
  BY DEF SInit
<1>2. [NextPerRun]_svars => [Next]_vars
  <2>1. NextPerRun => Next \/ UNCHANGED vars
    BY DEF NextPerRun, OtherCalls, CountToLimit, SObserveValid, SBanPermanent,
           RestartFromLoaded, Next, Online
  <2>2. UNCHANGED svars => UNCHANGED vars
    BY DEF svars, vars
  <2> QED
    BY <2>1, <2>2
<1> QED
  BY <1>1, <1>2, PTL DEF SpecPerRun, Spec
=============================================================================
