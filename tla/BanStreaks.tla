------------------------------ MODULE BanStreaks ------------------------------
(***************************************************************************)
(* BanStore with a history variable that counts what the documentation     *)
(* speaks of: the invalid events of one reason that an address produced in *)
(* a row, with no valid event in between.  The variable is computed from   *)
(* the events alone, never from the store's own counter, so that the two   *)
(* can be compared.                                                        *)
(***************************************************************************)
EXTENDS BanStore

VARIABLE streak   \* streak[ip]: length and reason of the current row of events

svars == <<byIP, pardoned, disk, stale, clock, streak>>

NoStreak == [n |-> 0, reason |-> "none"]

\* The row of events with one more invalid event of this reason.
Longer(ip, reason) ==
  IF streak[ip].reason = reason /\ streak[ip].n > 0
  THEN [streak[ip] EXCEPT !.n = @ + 1]
  ELSE [n |-> 1, reason |-> reason]

\* Counting to the limit: the event that completes a row of Limit is due a ban
\* and starts a new row.
CountToLimit(ip, reason) ==
  /\ ObserveInvalid(ip, reason)
  /\ streak' = [streak EXCEPT ![ip] =
                  IF Longer(ip, reason).n >= Limit THEN NoStreak
                  ELSE Longer(ip, reason)]

\* A valid event ends the row, whether or not the store had counted any.
SObserveValid(ip) ==
  /\ ObserveValid(ip) \/ (RecordOf(byIP, ip).Consecutive = 0 /\ UNCHANGED vars)
  /\ streak' = [streak EXCEPT ![ip] = NoStreak]

SBanPermanent(ip) ==
  BanPermanent(ip) /\ streak' = [streak EXCEPT ![ip] = NoStreak]

\* Rows are counted within one run of the process, from what New() loaded.
RestartFromLoaded ==
  /\ Restart
  /\ streak' = [ip \in IP |->
       LET r == RecordOf(byIP', ip)
       IN  IF r.Consecutive = 0 THEN NoStreak
           ELSE [n |-> r.Consecutive, reason |-> r.Reason]]

SInit == Init /\ streak = [ip \in IP |-> NoStreak]

OtherCalls ==
  \/ \E ip \in IP : SObserveValid(ip)
  \/ \E ip \in IP : SBanPermanent(ip)
  \/ \E ip \in IP : Unban(ip) /\ UNCHANGED streak
  \/ \E nets \in SUBSET IP : UnbanCIDRs(nets) /\ UNCHANGED streak
  \/ Tick /\ UNCHANGED streak

NextPerRun ==
  \/ \E ip \in IP, reason \in Reason : CountToLimit(ip, reason)
  \/ OtherCalls
  \/ RestartFromLoaded

SpecPerRun == SInit /\ [][NextPerRun]_svars

-----------------------------------------------------------------------------
\* Within one run of the process the store's counter is the length of the row
\* of invalid events: expired bans, changes of reason, valid events and bans in
\* between are all accounted for, so that ObserveInvalid bans at exactly the
\* Limit-th consecutive event.
CounterExact ==
  \A ip \in IP \ pardoned :
    LET r == RecordOf(byIP, ip)
    IN  /\ r.Consecutive = streak[ip].n
        /\ r.Consecutive > 0 => r.Reason = streak[ip].reason
=============================================================================
