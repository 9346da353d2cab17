---------------------------- MODULE AdmissionProofs ----------------------------
(***************************************************************************)
(* That a public connection cannot slip past the eviction passes, for any  *)
(* number of connections, listeners, handlers, requests and addresses.     *)
(*                                                                         *)
(* ForbiddenConnDoomed alone is not inductive.  Beside it one needs that a *)
(* connection is tracked as long as its handler runs (else a pass could    *)
(* miss it), that a goroutine outside a pass would begin one at the first  *)
(* set (else a new pass could start too late), and that a goroutine that   *)
(* is about to report an address has one.                                  *)
(***************************************************************************)
EXTENDS Admission, TLAPS

InPass == {"lock", "look", "kill"}

\* Steps at which a goroutine other than a connection's works on an address.
Serves == {"blocked", "allow", "trust", "strike", "insert", "handshake",
           "probe", "distrust", "ban", "token"}

Tracked == \A c \in Conn : pc[c] # "idle" => c \in tracked /\ at[c] \in IP

Located == \A p \in Proc : pc[p] \in Serves => at[p] \in IP

AtFirstSet == \A p \in Proc : pc[p] \notin InPass => stage[p] = "tcp"

Shape == TypeOK /\ Tracked /\ Located /\ AtFirstSet

IInv == Shape /\ ForbiddenConnDoomed

Forbidden(c) ==
  \/ pc[c] = "admitted" /\ ~isAllowed(at[c])
  \/ pc[c] = "allow" /\ Blocked(at[c])

Safe(c) == c \in dead \/ unannounced \/ \E p \in Proc : Coming(p, c)

\* What the sets have in common, for the leaves below.
LEMMA Sets ==
  /\ Conn \subseteq Proc /\ Listener \subseteq Proc
  /\ Tunnel \subseteq Proc /\ Request \subseteq Proc
  /\ Conn \subseteq Item /\ Assoc \subseteq Item
  /\ Conn \cap (Assoc \cup Listener \cup Tunnel \cup Request) = {}
  /\ Proc \cap Assoc = {}
  BY AdmissionAssumption DEF Conn, Item, Proc

\* A ban keeps the ban list well typed.
LEMMA BanTyped ==
  ASSUME kind \in [IP -> Bans!Kind], prior \in SUBSET IP, pardoned \in SUBSET IP,
         NEW ip \in IP, Bans!BanForGood(ip) \/ Bans!BanTemporarily(ip)
  PROVE  kind' \in [IP -> Bans!Kind] /\ prior' \in SUBSET IP /\ pardoned' \in SUBSET IP
<1>1. CASE Bans!BanForGood(ip)
  BY <1>1 DEF Bans!BanForGood, Bans!Kind
<1>2. CASE Bans!BanTemporarily(ip)
  BY <1>2 DEF Bans!BanTemporarily, Bans!Kind
<1> QED
  BY <1>1, <1>2

\* The initial states satisfy the invariant.
LEMMA InitHolds == Init => IInv
<1> SUFFICES ASSUME Init PROVE IInv
  OBVIOUS
<1>1. TypeOK
  BY Sets DEF Init, TypeOK, Bans!Init, Bans!Kind, Step, Stage
<1>2. Tracked /\ Located /\ AtFirstSet
  BY Sets DEF Init, Tracked, Located, AtFirstSet, Serves, InPass
<1>3. ForbiddenConnDoomed
  BY Sets DEF Init, ForbiddenConnDoomed
<1> QED
  BY <1>1, <1>2, <1>3 DEF IInv, Shape

\* Types, tracking and the places of passes survive every step.
LEMMA ShapePreserved == Shape /\ [Next]_vars => Shape'
<1> SUFFICES ASSUME Shape, [Next]_vars PROVE Shape'
  OBVIOUS
<1>1. ASSUME NEW p \in Proc, PassLock(p) PROVE Shape'
  BY <1>1, Sets
  DEF Shape, TypeOK, Tracked, Located, AtFirstSet, Serves, InPass, Step, Stage,
      PassLock, Goto, bans
<1>2. ASSUME NEW p \in Proc, NEW i \in Item, PassLook(p, i) PROVE Shape'
  BY <1>2, Sets
  DEF Shape, TypeOK, Tracked, Located, AtFirstSet, Serves, InPass, Step, Stage,
      PassLook, bans
<1>3. ASSUME NEW p \in Proc, PassUnlock(p) PROVE Shape'
  BY <1>3, Sets
  DEF Shape, TypeOK, Tracked, Located, AtFirstSet, Serves, InPass, Step, Stage,
      PassUnlock, Goto, bans, pass
<1>4. ASSUME NEW p \in Proc, NEW c \in Conn, PassKillConn(p, c) PROVE Shape'
  BY <1>4, Sets
  DEF Shape, TypeOK, Tracked, Located, AtFirstSet, Serves, InPass, Step, Stage,
      PassKillConn, bans
<1>5. ASSUME NEW p \in Proc, NEW a \in Assoc, PassKillAssoc(p, a) PROVE Shape'
  BY <1>5, Sets
  DEF Shape, TypeOK, Tracked, Located, AtFirstSet, Serves, InPass, Step, Stage,
      PassKillAssoc, Forget, bans
<1>6. ASSUME NEW p \in Proc, PassNext(p) PROVE Shape'
  BY <1>6, Sets
  DEF Shape, TypeOK, Tracked, Located, AtFirstSet, Serves, InPass, Step, Stage,
      PassNext, After, Goto, bans
<1>7. ASSUME NEW c \in Conn, NEW ip \in IP, Accept(c, ip) PROVE Shape'
  BY <1>7, Sets
  DEF Shape, TypeOK, Tracked, Located, AtFirstSet, Serves, InPass, Step, Stage,
      Accept, bans, pass
<1>8. ASSUME NEW l \in Listener, NEW ip \in IP, Datagram(l, ip) PROVE Shape'
  BY <1>8, Sets
  DEF Shape, TypeOK, Tracked, Located, AtFirstSet, Serves, InPass, Step, Stage,
      Datagram, bans, pass
<1>9. ASSUME NEW p \in Conn \cup Listener, CheckBlocked(p) PROVE Shape'
  BY <1>9, Sets
  DEF Shape, TypeOK, Tracked, Located, AtFirstSet, Serves, InPass, Step, Stage,
      CheckBlocked, Goto, bans, pass
<1>10. ASSUME NEW p \in Conn \cup Listener, CheckAllow(p) PROVE Shape'
  BY <1>10, Sets
  DEF Shape, TypeOK, Tracked, Located, AtFirstSet, Serves, InPass, Step, Stage,
      CheckAllow, Goto, bans, pass
<1>11. ASSUME NEW p \in Conn \cup Listener, CheckTrust(p) PROVE Shape'
  BY <1>11, Sets
  DEF Shape, TypeOK, Tracked, Located, AtFirstSet, Serves, InPass, Step, Stage,
      CheckTrust, After, Goto, bans, pass
<1>12. ASSUME NEW c \in Conn, Leave(c) PROVE Shape'
  BY <1>12, Sets
  DEF Shape, TypeOK, Tracked, Located, AtFirstSet, Serves, InPass, Step, Stage,
      Leave, Goto, bans
<1>13. ASSUME NEW l \in Listener, InsertAssoc(l) PROVE Shape'
  BY <1>13, Sets
  DEF Shape, TypeOK, Tracked, Located, AtFirstSet, Serves, InPass, Step, Stage,
      InsertAssoc, bans, pass
<1>14. ASSUME NEW a \in Assoc, AssocEnds(a) PROVE Shape'
  BY <1>14, Sets
  DEF Shape, TypeOK, Tracked, Located, AtFirstSet, Serves, InPass, Step, Stage,
      AssocEnds, Forget, bans
<1>15. ASSUME NEW t \in Tunnel, NEW ip \in IP, TunnelConn(t, ip) PROVE Shape'
  BY <1>15, Sets
  DEF Shape, TypeOK, Tracked, Located, AtFirstSet, Serves, InPass, Step, Stage,
      TunnelConn, bans, pass
<1>16. ASSUME NEW t \in Tunnel, HandshakeValid(t) PROVE Shape'
  BY <1>16, Sets
  DEF Shape, TypeOK, Tracked, Located, AtFirstSet, Serves, InPass, Step, Stage,
      HandshakeValid, Goto, bans, pass
<1>17. ASSUME NEW t \in Tunnel, HandshakeInvalid(t) PROVE Shape'
  BY <1>17, Sets
  DEF Shape, TypeOK, Tracked, Located, AtFirstSet, Serves, InPass, Step, Stage,
      HandshakeInvalid, Goto, bans, pass
<1>18. ASSUME NEW t \in Tunnel, ProbePardoned(t) PROVE Shape'
  BY <1>18, Sets
  DEF Shape, TypeOK, Tracked, Located, AtFirstSet, Serves, InPass, Step, Stage,
      ProbePardoned, Goto, bans, pass
<1>19. ASSUME NEW t \in Tunnel, ProbeTrusted(t) PROVE Shape'
  BY <1>19, Sets
  DEF Shape, TypeOK, Tracked, Located, AtFirstSet, Serves, InPass, Step, Stage,
      ProbeTrusted, Goto, bans, pass
<1>20. ASSUME NEW t \in Tunnel, ProbeBan(t) PROVE Shape'
  <2>1. at[t] \in IP /\ t \in Proc /\ t \notin Conn
    BY <1>20, Sets DEF Shape, Located, Serves, ProbeBan
  <2>2. kind' \in [IP -> Bans!Kind] /\ prior' \in SUBSET IP /\ pardoned' \in SUBSET IP
    BY <1>20, <2>1, BanTyped DEF Shape, TypeOK, bans, ProbeBan
  <2>3. \/ /\ pc' = [pc EXCEPT ![t] = "idle"]
           /\ at' = [at EXCEPT ![t] = None]
           /\ unannounced' = unannounced
        \/ /\ pc' = [pc EXCEPT ![t] = "lock"]
           /\ at' = at
           /\ unannounced' = FALSE
    BY <1>20 DEF ProbeBan, StartPass, Goto
  <2>4. UNCHANGED <<allow, agentIP, nets, tracked, dead, stage, todo, kill>>
    BY <1>20 DEF ProbeBan, pass
  <2> QED
    BY <1>20, <2>1, <2>2, <2>3, <2>4, Sets
    DEF Shape, TypeOK, Tracked, Located, AtFirstSet, Step, Serves, InPass, ProbeBan
<1>21. ASSUME NEW t \in Tunnel, BadToken(t) PROVE Shape'
  BY <1>21, Sets
  DEF Shape, TypeOK, Tracked, Located, AtFirstSet, Serves, InPass, Step, Stage,
      BadToken, Goto, bans, pass
<1>22. ASSUME NEW q \in Request, NEW cidrs \in SUBSET IP, AllowlistPut(q, cidrs) PROVE Shape'
  BY <1>22, Sets
  DEF Shape, TypeOK, Tracked, Located, AtFirstSet, Serves, InPass, Step, Stage,
      AllowlistPut, ListChange, Goto, bans, pass
<1>23. ASSUME NEW q \in Request, NEW cidrs \in SUBSET IP, AllowlistPost(q, cidrs) PROVE Shape'
  BY <1>23, Sets
  DEF Shape, TypeOK, Tracked, Located, AtFirstSet, Serves, InPass, Step, Stage,
      AllowlistPost, ListChange, Goto, bans, pass
<1>24. ASSUME NEW q \in Request, NEW cidrs \in SUBSET IP, AllowlistPostKnown(q, cidrs) PROVE Shape'
  BY <1>24, Sets
  DEF Shape, TypeOK, Tracked, Located, AtFirstSet, Serves, InPass, Step, Stage,
      AllowlistPostKnown, Goto, bans, pass
<1>25. ASSUME NEW q \in Request, NEW cidrs \in SUBSET IP, AllowlistDelete(q, cidrs) PROVE Shape'
  BY <1>25, Sets
  DEF Shape, TypeOK, Tracked, Located, AtFirstSet, Serves, InPass, Step, Stage,
      AllowlistDelete, ListChange, Goto, bans, pass
<1>26. ASSUME NEW q \in Request, SaveOK(q) PROVE Shape'
  BY <1>26, Sets
  DEF Shape, TypeOK, Tracked, Located, AtFirstSet, Serves, InPass, Step, Stage,
      SaveOK, StartPass, Goto, bans, pass
<1>27. ASSUME NEW q \in Request, SaveFails(q) PROVE Shape'
  BY <1>27, Sets
  DEF Shape, TypeOK, Tracked, Located, AtFirstSet, Serves, InPass, Step, Stage,
      SaveFails, Goto, bans, pass
<1>28. ASSUME NEW q \in Request, UnbanListed(q) PROVE Shape'
  BY <1>28, Sets
  DEF Shape, TypeOK, Tracked, Located, AtFirstSet, Serves, InPass, Step, Stage,
      UnbanListed, Pardon, Goto, Bans!Pardon, Bans!Kind, pass
<1>29. ASSUME NEW q \in Request, NEW ip \in IP, DenylistDelete(q, ip) PROVE Shape'
  BY <1>29, Sets
  DEF Shape, TypeOK, Tracked, Located, AtFirstSet, Serves, InPass, Step, Stage,
      DenylistDelete, Pardon, Bans!Pardon, Bans!Kind, pass
<1>30. ASSUME NEW q \in Request, NEW ip \in IP, AdminUnauthorized(q, ip) PROVE Shape'
  BY <1>30, Sets
  DEF Shape, TypeOK, Tracked, Located, AtFirstSet, Serves, InPass, Step, Stage,
      AdminUnauthorized, bans, pass
<1>31. ASSUME NEW p \in Proc, Strike(p) PROVE Shape'
  <2>1. at[p] \in IP /\ p \in Proc
    BY <1>31, Sets DEF Shape, Located, Serves, Strike
  <2>2. kind' \in [IP -> Bans!Kind] /\ prior' \in SUBSET IP /\ pardoned' \in SUBSET IP
    BY <1>31, <2>1, BanTyped DEF Shape, TypeOK, bans, Strike
  <2>3. /\ pc' \in [Proc -> Step] /\ pc'[p] \notin Serves
        /\ pc' = [pc EXCEPT ![p] = pc'[p]]
        /\ p \in Conn => pc'[p] # "idle"
        /\ at' = [at EXCEPT ![p] = at'[p]] /\ at'[p] \in {at[p], None}
        /\ p \in Conn => at' = at
        /\ unannounced' \in BOOLEAN
        /\ UNCHANGED <<allow, agentIP, nets, tracked, dead, stage, todo, kill>>
    BY <1>31, <2>1, Sets DEF Shape, TypeOK, Step, Serves, pass, Strike, StartPass, After, Goto
  <2>4. stage[p] = "tcp" /\ pc[p] # "idle"
    BY <1>31, <2>1 DEF Shape, AtFirstSet, InPass, Strike
  <2> QED
    BY <2>1, <2>2, <2>3, <2>4, Sets
    DEF Shape, TypeOK, Tracked, Located, AtFirstSet
<1>32. ASSUME NEW ip \in IP, BanExpires(ip) PROVE Shape'
  BY <1>32, Sets
  DEF Shape, TypeOK, Tracked, Located, AtFirstSet, Serves, InPass, Step, Stage,
      BanExpires, Bans!Kind, pass
<1>33. CASE UNCHANGED vars
  BY <1>33
  DEF Shape, TypeOK, Tracked, Located, AtFirstSet, Serves, InPass, Step, Stage, vars
<1> QED
  BY <1>1, <1>2, <1>3, <1>4, <1>5, <1>6, <1>7, <1>8, <1>9, <1>10, <1>11, <1>12,
     <1>13, <1>14, <1>15, <1>16, <1>17, <1>18, <1>19, <1>20, <1>21, <1>22, <1>23,
     <1>24, <1>25, <1>26, <1>27, <1>28, <1>29, <1>30, <1>31, <1>32, <1>33, Sets
  DEF Next, Public, Agents, Admin, Evict

\* No step leaves a forbidden connection unattended.
LEMMA DoomedPreserved == IInv /\ [Next]_vars => ForbiddenConnDoomed'
<1> SUFFICES ASSUME IInv, [Next]_vars, NEW d \in Conn, Forbidden(d)'
             PROVE  Safe(d)'
  BY DEF ForbiddenConnDoomed, Forbidden, Safe
<1>0. /\ Forbidden(d) => Safe(d)
      /\ Shape /\ d \in Proc /\ d \in Item
  BY Sets DEF IInv, ForbiddenConnDoomed, Forbidden, Safe
<1>1. ASSUME NEW p \in Proc, PassLock(p) PROVE Safe(d)'
  BY <1>0, <1>1, Sets
  DEF Shape, TypeOK, Tracked, Located, AtFirstSet, Serves, InPass, Forbidden, Safe,
      Coming, isAllowed, Blocked, PassLock, Goto, bans
<1>2. ASSUME NEW p \in Proc, NEW i \in Item, PassLook(p, i) PROVE Safe(d)'
  BY <1>0, <1>2, Sets
  DEF Shape, TypeOK, Tracked, Located, AtFirstSet, Serves, InPass, Forbidden, Safe,
      Coming, isAllowed, Blocked, PassLook, bans
<1>3. ASSUME NEW p \in Proc, PassUnlock(p) PROVE Safe(d)'
  BY <1>0, <1>3, Sets
  DEF Shape, TypeOK, Tracked, Located, AtFirstSet, Serves, InPass, Forbidden, Safe,
      Coming, isAllowed, Blocked, PassUnlock, Goto, bans, pass
<1>4. ASSUME NEW p \in Proc, NEW c \in Conn, PassKillConn(p, c) PROVE Safe(d)'
  BY <1>0, <1>4, Sets
  DEF Shape, TypeOK, Tracked, Located, AtFirstSet, Serves, InPass, Forbidden, Safe,
      Coming, isAllowed, Blocked, PassKillConn, bans
<1>5. ASSUME NEW p \in Proc, NEW a \in Assoc, PassKillAssoc(p, a) PROVE Safe(d)'
  BY <1>0, <1>5, Sets
  DEF Shape, TypeOK, Tracked, Located, AtFirstSet, Serves, InPass, Forbidden, Safe,
      Coming, isAllowed, Blocked, PassKillAssoc, Forget, bans
<1>6. ASSUME NEW p \in Proc, PassNext(p) PROVE Safe(d)'
  BY <1>0, <1>6, Sets
  DEF Shape, TypeOK, Tracked, Located, AtFirstSet, Serves, InPass, Forbidden, Safe,
      Coming, isAllowed, Blocked, GroupOf, Stage, PassNext, After, Goto, bans
<1>7. ASSUME NEW c \in Conn, NEW ip \in IP, Accept(c, ip) PROVE Safe(d)'
  BY <1>0, <1>7, Sets
  DEF Shape, TypeOK, Tracked, Located, AtFirstSet, Serves, InPass, Forbidden, Safe,
      Coming, isAllowed, Blocked, Accept, bans, pass
<1>8. ASSUME NEW l \in Listener, NEW ip \in IP, Datagram(l, ip) PROVE Safe(d)'
  BY <1>0, <1>8, Sets
  DEF Shape, TypeOK, Tracked, Located, AtFirstSet, Serves, InPass, Forbidden, Safe,
      Coming, isAllowed, Blocked, Datagram, bans, pass
<1>9. ASSUME NEW p \in Conn \cup Listener, CheckBlocked(p) PROVE Safe(d)'
  BY <1>0, <1>9, Sets
  DEF Shape, TypeOK, Tracked, Located, AtFirstSet, Serves, InPass, Forbidden, Safe,
      Coming, isAllowed, Blocked, CheckBlocked, Goto, bans, pass
<1>10. ASSUME NEW p \in Conn \cup Listener, CheckAllow(p) PROVE Safe(d)'
  BY <1>0, <1>10, Sets
  DEF Shape, TypeOK, Tracked, Located, AtFirstSet, Serves, InPass, Forbidden, Safe,
      Coming, isAllowed, Blocked, CheckAllow, Goto, bans, pass
<1>11. ASSUME NEW p \in Conn \cup Listener, CheckTrust(p) PROVE Safe(d)'
  BY <1>0, <1>11, Sets
  DEF Shape, TypeOK, Tracked, Located, AtFirstSet, Serves, InPass, Forbidden, Safe,
      Coming, isAllowed, Blocked, CheckTrust, After, Goto, bans, pass
<1>12. ASSUME NEW c \in Conn, Leave(c) PROVE Safe(d)'
  BY <1>0, <1>12, Sets
  DEF Shape, TypeOK, Tracked, Located, AtFirstSet, Serves, InPass, Forbidden, Safe,
      Coming, isAllowed, Blocked, Leave, Goto, bans
<1>13. ASSUME NEW l \in Listener, InsertAssoc(l) PROVE Safe(d)'
  BY <1>0, <1>13, Sets
  DEF Shape, TypeOK, Tracked, Located, AtFirstSet, Serves, InPass, Forbidden, Safe,
      Coming, isAllowed, Blocked, InsertAssoc, bans, pass
<1>14. ASSUME NEW a \in Assoc, AssocEnds(a) PROVE Safe(d)'
  BY <1>0, <1>14, Sets
  DEF Shape, TypeOK, Tracked, Located, AtFirstSet, Serves, InPass, Forbidden, Safe,
      Coming, isAllowed, Blocked, AssocEnds, Forget, bans
<1>15. ASSUME NEW t \in Tunnel, NEW ip \in IP, TunnelConn(t, ip) PROVE Safe(d)'
  BY <1>0, <1>15, Sets
  DEF Shape, TypeOK, Tracked, Located, AtFirstSet, Serves, InPass, Forbidden, Safe,
      Coming, isAllowed, Blocked, TunnelConn, bans, pass
<1>16. ASSUME NEW t \in Tunnel, HandshakeValid(t) PROVE Safe(d)'
  BY <1>0, <1>16, Sets
  DEF Shape, TypeOK, Tracked, Located, AtFirstSet, Serves, InPass, Forbidden, Safe,
      Coming, isAllowed, Blocked, HandshakeValid, Goto, bans, pass
<1>17. ASSUME NEW t \in Tunnel, HandshakeInvalid(t) PROVE Safe(d)'
  BY <1>0, <1>17, Sets
  DEF Shape, TypeOK, Tracked, Located, AtFirstSet, Serves, InPass, Forbidden, Safe,
      Coming, isAllowed, Blocked, HandshakeInvalid, Goto, bans, pass
<1>18. ASSUME NEW t \in Tunnel, ProbePardoned(t) PROVE Safe(d)'
  BY <1>0, <1>18, Sets
  DEF Shape, TypeOK, Tracked, Located, AtFirstSet, Serves, InPass, Forbidden, Safe,
      Coming, isAllowed, Blocked, ProbePardoned, Goto, bans, pass
<1>19. ASSUME NEW t \in Tunnel, ProbeTrusted(t) PROVE Safe(d)'
  BY <1>0, <1>19, Sets
  DEF Shape, TypeOK, Tracked, Located, AtFirstSet, Serves, InPass, Forbidden, Safe,
      Coming, isAllowed, Blocked, ProbeTrusted, Goto, bans, pass
<1>20. ASSUME NEW t \in Tunnel, ProbeBan(t) PROVE Safe(d)'
  BY <1>0, <1>20, Sets
  DEF Shape, TypeOK, Tracked, Located, AtFirstSet, Serves, InPass, Forbidden, Safe,
      Coming, isAllowed, Blocked, ProbeBan, StartPass, Goto, Bans!BanForGood,
      Bans!Kind, bans, pass
<1>21. ASSUME NEW t \in Tunnel, BadToken(t) PROVE Safe(d)'
  BY <1>0, <1>21, Sets
  DEF Shape, TypeOK, Tracked, Located, AtFirstSet, Serves, InPass, Forbidden, Safe,
      Coming, isAllowed, Blocked, BadToken, Goto, bans, pass
<1>22. ASSUME NEW q \in Request, NEW cidrs \in SUBSET IP, AllowlistPut(q, cidrs) PROVE Safe(d)'
  BY <1>0, <1>22, Sets
  DEF Shape, TypeOK, Tracked, Located, AtFirstSet, Serves, InPass, Forbidden, Safe,
      Coming, isAllowed, Blocked, AllowlistPut, ListChange, Goto, bans, pass
<1>23. ASSUME NEW q \in Request, NEW cidrs \in SUBSET IP, AllowlistPost(q, cidrs) PROVE Safe(d)'
  BY <1>0, <1>23, Sets
  DEF Shape, TypeOK, Tracked, Located, AtFirstSet, Serves, InPass, Forbidden, Safe,
      Coming, isAllowed, Blocked, AllowlistPost, ListChange, Goto, bans, pass
<1>24. ASSUME NEW q \in Request, NEW cidrs \in SUBSET IP, AllowlistPostKnown(q, cidrs) PROVE Safe(d)'
  BY <1>0, <1>24, Sets
  DEF Shape, TypeOK, Tracked, Located, AtFirstSet, Serves, InPass, Forbidden, Safe,
      Coming, isAllowed, Blocked, AllowlistPostKnown, Goto, bans, pass
<1>25. ASSUME NEW q \in Request, NEW cidrs \in SUBSET IP, AllowlistDelete(q, cidrs) PROVE Safe(d)'
  BY <1>0, <1>25, Sets
  DEF Shape, TypeOK, Tracked, Located, AtFirstSet, Serves, InPass, Forbidden, Safe,
      Coming, isAllowed, Blocked, AllowlistDelete, ListChange, Goto, bans, pass
<1>26. ASSUME NEW q \in Request, SaveOK(q) PROVE Safe(d)'
  BY <1>0, <1>26, Sets
  DEF Shape, TypeOK, Tracked, Located, AtFirstSet, Serves, InPass, Forbidden, Safe,
      Coming, isAllowed, Blocked, SaveOK, StartPass, Goto, bans, pass
<1>27. ASSUME NEW q \in Request, SaveFails(q) PROVE Safe(d)'
  BY <1>0, <1>27, Sets
  DEF Shape, TypeOK, Tracked, Located, AtFirstSet, Serves, InPass, Forbidden, Safe,
      Coming, isAllowed, Blocked, SaveFails, Goto, bans, pass
<1>28. ASSUME NEW q \in Request, UnbanListed(q) PROVE Safe(d)'
  BY <1>0, <1>28, Sets
  DEF Shape, TypeOK, Tracked, Located, AtFirstSet, Serves, InPass, Forbidden, Safe,
      Coming, isAllowed, Blocked, UnbanListed, Pardon, Goto, Bans!Pardon, Bans!Kind,
      pass
<1>29. ASSUME NEW q \in Request, NEW ip \in IP, DenylistDelete(q, ip) PROVE Safe(d)'
  BY <1>0, <1>29, Sets
  DEF Shape, TypeOK, Tracked, Located, AtFirstSet, Serves, InPass, Forbidden, Safe,
      Coming, isAllowed, Blocked, DenylistDelete, Pardon, Bans!Pardon, Bans!Kind,
      pass
<1>30. ASSUME NEW q \in Request, NEW ip \in IP, AdminUnauthorized(q, ip) PROVE Safe(d)'
  BY <1>0, <1>30, Sets
  DEF Shape, TypeOK, Tracked, Located, AtFirstSet, Serves, InPass, Forbidden, Safe,
      Coming, isAllowed, Blocked, AdminUnauthorized, bans, pass
<1>31. ASSUME NEW p \in Proc, Strike(p) PROVE Safe(d)'
  BY <1>0, <1>31, Sets
  DEF Shape, TypeOK, Tracked, Located, AtFirstSet, Serves, InPass, Forbidden, Safe,
      Coming, isAllowed, Blocked, Strike, StartPass, After, Goto, Bans!BanForGood,
      Bans!BanTemporarily, Bans!Kind, bans, pass
<1>32. ASSUME NEW ip \in IP, BanExpires(ip) PROVE Safe(d)'
  BY <1>0, <1>32, Sets
  DEF Shape, TypeOK, Tracked, Located, AtFirstSet, Serves, InPass, Forbidden, Safe,
      Coming, isAllowed, Blocked, BanExpires, Bans!Kind, pass
<1>33. CASE UNCHANGED vars
  BY <1>0, <1>33 DEF Forbidden, Safe, Coming, isAllowed, Blocked, vars
<1> QED
  BY <1>1, <1>2, <1>3, <1>4, <1>5, <1>6, <1>7, <1>8, <1>9, <1>10, <1>11, <1>12,
     <1>13, <1>14, <1>15, <1>16, <1>17, <1>18, <1>19, <1>20, <1>21, <1>22, <1>23,
     <1>24, <1>25, <1>26, <1>27, <1>28, <1>29, <1>30, <1>31, <1>32, <1>33, Sets
  DEF Next, Public, Agents, Admin, Evict

\* The invariant is inductive.
THEOREM Invariance == Spec => []IInv
<1>1. IInv /\ [Next]_vars => IInv'
  BY ShapePreserved, DoomedPreserved DEF IInv
<1> QED
  BY InitHolds, <1>1, PTL DEF Spec

\* Every variable of Admission keeps its type.
THEOREM TypeCorrect == Spec => []TypeOK
  BY Invariance, PTL DEF IInv, Shape

\* A public TCP or HTTP connection that got past a check it would no longer
\* pass is closed or about to be found by an eviction pass (or the save of an
\* allowlist change failed), for any number of concurrent handlers and passes.
THEOREM ForbiddenConnsDoomed == Spec => []ForbiddenConnDoomed
  BY Invariance, PTL DEF IInv
=============================================================================
