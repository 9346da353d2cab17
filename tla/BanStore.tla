------------------------------- MODULE BanStore -------------------------------
(***************************************************************************)
(* The denylist of internal/ban/store.go: one record per address with a    *)
(* streak of invalid events, the number of bans so far and the ban in      *)
(* force; the set of pardoned addresses; the file both are saved to.       *)
(*                                                                         *)
(* Every method runs under Store.mu, so a method is one action; an early   *)
(* return that changes nothing is a stuttering step and is left out.  The  *)
(* hooks that notify() runs after the unlock belong to module Admission.   *)
(* Any write of the file may fail (the old file then stays, because the    *)
(* new one is renamed into place last), the process may die between any    *)
(* two calls, and reading the file at start may fail.  A memory-only store *)
(* (empty path) behaves like one whose every write fails.                  *)
(***************************************************************************)
EXTENDS Naturals, Functions

CONSTANTS
  IP,        \* addresses (keys as ipKey normalises them)
  Reason,    \* reasons of invalid events: "acl", "token", ...; "none" is the empty one
  Limit,     \* Store.limit
  TTL,       \* Store.ttl, in ticks
  MaxClock   \* bound of the clock

ASSUME BanAssumption ==
  /\ Limit \in Nat \ {0}
  /\ TTL \in Nat \ {0}
  /\ MaxClock \in Nat
  /\ "none" \notin Reason

VARIABLES
  byIP,      \* Store.byIP: a function on the addresses that have a record
  pardoned,  \* Store.pardoned
  disk,      \* content of the file: fileDTO
  stale,     \* history: the last write, or the read at start, failed
  clock      \* Store.now(); 0 is the zero time

vars == <<byIP, pardoned, disk, stale, clock>>

Record == [Consecutive : Nat, Reason : Reason \cup {"none"}, Bans : Nat,
           Until : Nat, Permanent : BOOLEAN]

ZeroRecord == [Consecutive |-> 0, Reason |-> "none", Bans |-> 0,
               Until |-> 0, Permanent |-> FALSE]

NoRecords == [ip \in {} |-> ZeroRecord]

IsRecordMap(m) == DOMAIN m \in SUBSET IP /\ m \in [DOMAIN m -> Record]

TypeOK ==
  /\ IsRecordMap(byIP)
  /\ pardoned \in SUBSET IP
  /\ DOMAIN disk = {"Records", "Pardoned"}
  /\ IsRecordMap(disk.Records)
  /\ disk.Pardoned \in SUBSET IP
  /\ stale \in BOOLEAN
  /\ clock \in Nat \ {0}

-----------------------------------------------------------------------------
\* Lookups.

RecordOf(m, ip) == IF ip \in DOMAIN m THEN m[ip] ELSE ZeroRecord

blockedLocked(m, ip, now) ==
  /\ ip \in DOMAIN m
  /\ \/ m[ip].Permanent
     \/ m[ip].Until # 0 /\ now < m[ip].Until

KindOf(m, ip, now) ==
  IF ~blockedLocked(m, ip, now) THEN "none"
  ELSE IF m[ip].Permanent THEN "permanent" ELSE "temporary"

Put(m, ip, r) == [k \in DOMAIN m \cup {ip} |-> IF k = ip THEN r ELSE m[k]]

Drop(m, S) == Restrict(m, DOMAIN m \ S)

-----------------------------------------------------------------------------
\* The file.

\* Records that say nothing are not written.
Worth(r) == r.Bans # 0 \/ r.Consecutive # 0 \/ r.Until # 0 \/ r.Permanent

\* Mutant: a file that forgets the pardons.
SnapshotWithoutPardons(m, p) ==
  [Records |-> Restrict(m, {ip \in DOMAIN m : Worth(m[ip])}), Pardoned |-> {}]

Snapshot(m, p) ==
  [Records |-> Restrict(m, {ip \in DOMAIN m : Worth(m[ip])}), Pardoned |-> p]

\* Mutant: the bare records are written, not the DTO.
PersistRecordsOnly(m, p) ==
  \/ disk' = Snapshot(m, p).Records /\ stale' = FALSE
  \/ disk' = disk /\ stale' = TRUE

\* persistLocked: the new content is complete or the old one stays.  No
\* caller undoes its change of memory when the write fails.
PersistLocked(m, p) ==
  \/ disk' = Snapshot(m, p) /\ stale' = FALSE
  \/ disk' = disk /\ stale' = TRUE

-----------------------------------------------------------------------------
\* The steps of ObserveInvalid on one record.

\* Mutant: an expired ban is forgotten altogether.
ForgetExpired(r, now) == IF r.Until # 0 /\ now >= r.Until THEN ZeroRecord ELSE r

\* A temporary ban that ran out is wiped, the number of bans is kept.
EndExpired(r, now) ==
  IF r.Until # 0 /\ now >= r.Until
  THEN [r EXCEPT !.Until = 0, !.Consecutive = 0, !.Reason = "none"]
  ELSE r

\* Mutant: a change of reason does not start a new streak.
CountAnyInvalid(r, reason) ==
  [r EXCEPT !.Reason = reason, !.Consecutive = r.Consecutive + 1]

\* Invalid events of different reasons do not add up to one streak.
CountInvalid(r, reason) ==
  [r EXCEPT !.Reason = reason,
            !.Consecutive = (IF r.Reason = reason THEN r.Consecutive ELSE 0) + 1]

\* Mutant: the end of the first ban survives the second one.
IssueBanKeepingUntil(r, now) ==
  [r EXCEPT !.Consecutive = 0, !.Bans = r.Bans + 1,
            !.Permanent = r.Bans + 1 >= 2, !.Until = now + TTL]

IssueBan(r, now) ==
  IF r.Bans + 1 >= 2
  THEN [r EXCEPT !.Consecutive = 0, !.Bans = r.Bans + 1,
                 !.Permanent = TRUE, !.Until = 0]
  ELSE [r EXCEPT !.Consecutive = 0, !.Bans = r.Bans + 1,
                 !.Until = now + TTL]

-----------------------------------------------------------------------------
\* The methods.

\* Mutant: a pardoned address is counted again.
ObserveInvalidIgnoringPardon(ip, reason) ==
  /\ ~blockedLocked(byIP, ip, clock)
  /\ byIP' = Put(byIP, ip,
               CountInvalid(EndExpired(RecordOf(byIP, ip), clock), reason))
  /\ UNCHANGED <<pardoned, disk, stale, clock>>

ObserveInvalid(ip, reason) ==
  /\ ip \notin pardoned
  /\ ~blockedLocked(byIP, ip, clock)
  /\ LET r == CountInvalid(EndExpired(RecordOf(byIP, ip), clock), reason)
     IN  \/ /\ r.Consecutive < Limit
            /\ byIP' = Put(byIP, ip, r)
            /\ UNCHANGED <<disk, stale>>
         \/ /\ r.Consecutive >= Limit
            /\ byIP' = Put(byIP, ip, IssueBan(r, clock))
            /\ PersistLocked(byIP', pardoned)
  /\ UNCHANGED <<pardoned, clock>>

\* Mutant: the ban is not written.
BanPermanentUnsaved(ip) ==
  /\ ip \notin pardoned
  /\ ~RecordOf(byIP, ip).Permanent
  /\ byIP' = Put(byIP, ip, [ZeroRecord EXCEPT !.Permanent = TRUE, !.Bans = 2])
  /\ UNCHANGED <<pardoned, disk, stale, clock>>

\* BanPermanent also upgrades a temporary ban that is in force.
BanPermanent(ip) ==
  /\ ip \notin pardoned
  /\ ~RecordOf(byIP, ip).Permanent
  /\ byIP' = Put(byIP, ip,
               [Consecutive |-> 0, Reason |-> "none", Until |-> 0, Permanent |-> TRUE,
                Bans |-> IF RecordOf(byIP, ip).Bans < 2
                         THEN 2 ELSE RecordOf(byIP, ip).Bans])
  /\ PersistLocked(byIP', pardoned)
  /\ UNCHANGED <<pardoned, clock>>

\* The reset is in memory only; the reason stays.
ObserveValid(ip) ==
  /\ RecordOf(byIP, ip).Consecutive # 0
  /\ byIP' = Put(byIP, ip, [byIP[ip] EXCEPT !.Consecutive = 0])
  /\ UNCHANGED <<pardoned, disk, stale, clock>>

\* What Unban does for one address and UnbanCIDRs for all recorded ones that
\* the CIDRs contain: the record goes and the address is pardoned.
Release(S) ==
  /\ S # {}
  /\ byIP' = Drop(byIP, S)
  /\ pardoned' = pardoned \cup S
  /\ PersistLocked(byIP', pardoned')
  /\ UNCHANGED clock

\* An address without a record is not pardoned.
Unban(ip) == Release({ip} \cap DOMAIN byIP)

UnbanCIDRs(nets) == Release(nets \cap DOMAIN byIP)

\* The process dies and New() runs again.  A file that cannot be read or
\* parsed is logged and the store starts empty.
Restart ==
  /\ \/ /\ byIP' = disk.Records
        /\ pardoned' = disk.Pardoned
        /\ stale' = FALSE
     \/ /\ byIP' = NoRecords
        /\ pardoned' = {}
        /\ stale' = TRUE
  /\ UNCHANGED <<disk, clock>>

Tick ==
  /\ clock < MaxClock
  /\ clock' = clock + 1
  /\ UNCHANGED <<byIP, pardoned, disk, stale>>

-----------------------------------------------------------------------------
Init ==
  /\ byIP = NoRecords
  /\ pardoned = {}
  /\ disk = [Records |-> NoRecords, Pardoned |-> {}]
  /\ stale = FALSE
  /\ clock = 1

Online ==
  \/ \E ip \in IP, reason \in Reason : ObserveInvalid(ip, reason)
  \/ \E ip \in IP : BanPermanent(ip)
  \/ \E ip \in IP : ObserveValid(ip)
  \/ \E ip \in IP : Unban(ip)
  \/ \E nets \in SUBSET IP : UnbanCIDRs(nets)
  \/ Tick

Next == Online \/ Restart

Spec == Init /\ [][Next]_vars

-----------------------------------------------------------------------------
\* Properties.

\* The fields of a record agree: a ban is permanent exactly from the second
\* one on, a ban with an end is the first one, and a streak at the limit has
\* been turned into a ban.
SoundRecord(r) ==
  /\ r.Permanent <=> r.Bans >= 2
  /\ r.Until # 0 => r.Bans = 1
  /\ r.Consecutive < Limit

\* ObserveInvalid, BanPermanent, Unban and load leave only sound records, in
\* memory and in the file, in whatever order they run.
RecordsSound ==
  /\ \A ip \in DOMAIN byIP : SoundRecord(byIP[ip])
  /\ \A ip \in DOMAIN disk.Records : SoundRecord(disk.Records[ip])

\* An administrator's unban is final: a pardoned address has no record, hence
\* is not blocked, and the file never holds a record against it either, so a
\* restart cannot bring the ban back once the pardon was written.
PardonFinal ==
  /\ pardoned \cap DOMAIN byIP = {}
  /\ disk.Pardoned \cap DOMAIN disk.Records = {}

\* The two records impose the same ban from now on, and the same
\* history of bans; streaks may differ.
SameBan(r, d, now) ==
  /\ r.Bans = d.Bans
  /\ r.Permanent <=> d.Permanent
  /\ r.Until = d.Until \/ (r.Until = 0 /\ d.Until <= now)

\* Although most calls change memory without writing the file, a restart
\* loses no ban, no count of bans and no pardon unless the last write failed
\* or the file could not be read.
BansDurable ==
  ~stale =>
    /\ pardoned = disk.Pardoned
    /\ \A ip \in IP :
         SameBan(RecordOf(byIP, ip), RecordOf(disk.Records, ip), clock)

\* Only an administrator ends a permanent ban: it goes with a pardon, or with
\* a restart after a fault of the file.
PermanentStays ==
  [][\A ip \in IP :
       /\ KindOf(byIP, ip, clock) = "permanent"
       /\ KindOf(byIP', ip, clock') # "permanent"
       => ip \in pardoned' \/ stale \/ stale']_vars

KindMap(m, now) == [ip \in IP |-> KindOf(m, ip, now)]

Prior(m) == {ip \in DOMAIN m : m[ip].Bans > 0}

\* The store implements the abstract ban list.
List == INSTANCE BanList WITH
  kind <- KindMap(byIP, clock),
  prior <- Prior(byIP),
  pardoned <- pardoned,
  durable <- ~stale

\* Every behaviour of the store, with its failing writes and restarts, is a
\* behaviour of the abstract ban list.
ImplementsBanList == List!Spec
=============================================================================
