------------------------------ MODULE Admission ------------------------------
(***************************************************************************)
(* Who may use the Edge, and how those who may no longer are thrown out.   *)
(* Public TCP and HTTP connections, UDP datagrams, tunnel handshakes and   *)
(* admin requests run in goroutines of their own; they read the allowlist  *)
(* and the ban list, change them, and every change that is announced makes *)
(* the goroutine that made it run Server.evictDisallowed: a pass over the  *)
(* tracked TCP connections, then the HTTP ones, then the UDP associations. *)
(*                                                                         *)
(* The ban list is used by its abstract specification (BanList), which     *)
(* BanStore implements: when an invalid event completes a streak is left   *)
(* open.  An entry of the allowlist covers one address here.  Every read   *)
(* or write of shared state under its lock is a step, except that the      *)
(* reads within isAllowed, within trustedTunnelIP and within the test of a *)
(* wrong token make up one step.                                           *)
(***************************************************************************)
EXTENDS Naturals

CONSTANTS
  IP,        \* addresses
  TCPConn,   \* handlers of public TCP connections (servePublic)
  HTTPConn,  \* handlers of public HTTP(S) connections (serveHTTP)
  Assoc,     \* UDP associations that can exist at a time
  Listener,  \* read loops of UDP listeners (serveUDP)
  Tunnel,    \* handlers of tunnel connections (handleAgent)
  Request    \* handlers of admin requests

None == "none"

ASSUME AdmissionAssumption ==
  /\ None \notin IP
  /\ TCPConn \cap HTTPConn = {}
  /\ (TCPConn \cup HTTPConn) \cap (Assoc \cup Listener \cup Tunnel \cup Request) = {}
  /\ Assoc \cap (Listener \cup Tunnel \cup Request) = {}
  /\ Listener \cap (Tunnel \cup Request) = {}
  /\ Tunnel \cap Request = {}

Conn == TCPConn \cup HTTPConn
Item == Conn \cup Assoc                             \* what an eviction pass looks at
Proc == Conn \cup Listener \cup Tunnel \cup Request \* what runs

VARIABLES
  allow,        \* addresses the allowlist covers (acl.Allowlist)
  kind,         \* the ban list: kind of ban of each address,
  prior,        \*   addresses that were banned,
  pardoned,     \*   and addresses unbanned by an administrator
  agentIP,      \* Server.agentIP: the last authenticated agent
  unannounced,  \* history: an allowlist change was kept although its save
                \*   failed, and no eviction pass began since
  pc,           \* pc[p]: where p stands
  at,           \* at[x]: the address p serves, or the client of an association
  nets,         \* nets[q]: the addresses request q unbans at its end
  tracked,      \* tcpConns, httpListener.conns and udpHub.byID
  dead,         \* tracked connections that were closed under their handler
  stage,        \* stage[p]: which of the three sets p's pass is at
  todo,         \* todo[p]: tracked items p has yet to look at, under the lock
  kill          \* kill[p]: items p found disallowed (toClose, toRemove)

bans == <<kind, prior, pardoned>>
pass == <<stage, todo, kill>>
vars == <<allow, kind, prior, pardoned, agentIP, unannounced, pc, at, nets,
          tracked, dead, stage, todo, kill>>

Bans == INSTANCE BanList WITH durable <- TRUE

Stage == {"tcp", "http", "udp"}

Step == {"idle", "blocked", "allow", "trust", "strike", "refuse", "admitted",
         "insert", "handshake", "probe", "distrust", "ban", "token",
         "save", "unban", "lock", "look", "kill"}

TypeOK ==
  /\ allow \in SUBSET IP
  /\ kind \in [IP -> Bans!Kind]
  /\ prior \in SUBSET IP
  /\ pardoned \in SUBSET IP
  /\ agentIP \in IP \cup {None}
  /\ unannounced \in BOOLEAN
  /\ pc \in [Proc -> Step]
  /\ at \in [Proc \cup Assoc -> IP \cup {None}]
  /\ nets \in [Request -> SUBSET IP]
  /\ tracked \in SUBSET Item
  /\ dead \in SUBSET Conn
  /\ stage \in [Proc -> Stage]
  /\ todo \in [Proc -> SUBSET Item]
  /\ kill \in [Proc -> SUBSET Item]

Init ==
  /\ allow \in SUBSET IP
  /\ Bans!Init
  /\ agentIP = None
  /\ unannounced = FALSE
  /\ pc = [p \in Proc |-> "idle"]
  /\ at = [x \in Proc \cup Assoc |-> None]
  /\ nets = [q \in Request |-> {}]
  /\ tracked = {}
  /\ dead = {}
  /\ stage = [p \in Proc |-> "tcp"]
  /\ todo = [p \in Proc |-> {}]
  /\ kill = [p \in Proc |-> {}]

-----------------------------------------------------------------------------
Blocked(ip) == kind[ip] # "none"

isAllowed(ip) == ~Blocked(ip) /\ ip \in allow

trustedTunnelIP(ip) == ip \in allow \/ ip = agentIP

GroupOf(i) == IF i \in TCPConn THEN "tcp" ELSE IF i \in HTTPConn THEN "http" ELSE "udp"

\* tcpMu, httpListener.mu or udpHub.mu is not held by an eviction pass.
Free(g) == \A p \in Proc : ~(pc[p] = "look" /\ stage[p] = g)

\* p goes on at step; a goroutine that is done serves no address any more.
Goto(p, step) ==
  /\ pc' = [pc EXCEPT ![p] = step]
  /\ at' = IF step = "idle" THEN [at EXCEPT ![p] = None] ELSE at

\* Where p goes on after it reported an invalid event or ran an eviction pass.
After(p) ==
  IF p \in Conn THEN "refuse"
  ELSE IF p \in Request /\ nets[p] # {} THEN "unban"
  ELSE "idle"

\* notify(): the goroutine that changed a list runs evictDisallowed itself.
StartPass(p) ==
  /\ Goto(p, "lock")
  /\ unannounced' = FALSE

-----------------------------------------------------------------------------
\* evictDisallowed.

\* The set is locked and walked through ...
PassLock(p) ==
  /\ pc[p] = "lock"
  /\ Free(stage[p])
  /\ Goto(p, "look")
  /\ todo' = [todo EXCEPT ![p] = {i \in tracked : GroupOf(i) = stage[p]}]
  /\ UNCHANGED <<allow, bans, agentIP, unannounced, nets, tracked, dead, stage, kill>>

\* Mutant: the address is noted down instead of the item.
PassLookNotingAddress(p, i) ==
  /\ pc[p] = "look"
  /\ i \in todo[p]
  /\ todo' = [todo EXCEPT ![p] = @ \ {i}]
  /\ kill' = IF isAllowed(at[i]) THEN kill ELSE [kill EXCEPT ![p] = @ \cup {at[i]}]
  /\ UNCHANGED <<allow, bans, agentIP, unannounced, pc, at, nets, tracked, dead, stage>>

\* ... asking isAllowed for one item after the other.
PassLook(p, i) ==
  /\ pc[p] = "look"
  /\ i \in todo[p]
  /\ todo' = [todo EXCEPT ![p] = @ \ {i}]
  /\ kill' = IF isAllowed(at[i]) THEN kill ELSE [kill EXCEPT ![p] = @ \cup {i}]
  /\ UNCHANGED <<allow, bans, agentIP, unannounced, pc, at, nets, tracked, dead, stage>>

PassUnlock(p) ==
  /\ pc[p] = "look"
  /\ todo[p] = {}
  /\ Goto(p, "kill")
  /\ UNCHANGED <<allow, bans, agentIP, unannounced, nets, tracked, dead, pass>>

\* CloseReset: the handler notices and leaves by itself.
PassKillConn(p, c) ==
  /\ pc[p] = "kill"
  /\ c \in kill[p]
  /\ dead' = dead \cup {c}
  /\ kill' = [kill EXCEPT ![p] = @ \ {c}]
  /\ UNCHANGED <<allow, bans, agentIP, unannounced, pc, at, nets, tracked, stage, todo>>

\* An association is gone: its id is not used again.
Forget(a) ==
  /\ tracked' = tracked \ {a}
  /\ at' = [at EXCEPT ![a] = None]
  /\ kill' = [p \in Proc |-> kill[p] \ {a}]

\* removeAssoc.
PassKillAssoc(p, a) ==
  /\ pc[p] = "kill"
  /\ a \in kill[p]
  /\ Free("udp")
  /\ Forget(a)
  /\ UNCHANGED <<allow, bans, agentIP, unannounced, pc, nets, dead, stage, todo>>

\* Mutant: the HTTP connections are left out.
PassNextSkippingHTTP(p) ==
  /\ pc[p] = "kill"
  /\ kill[p] = {}
  /\ \/ /\ stage[p] = "tcp"
        /\ stage' = [stage EXCEPT ![p] = "udp"]
        /\ Goto(p, "lock")
     \/ /\ stage[p] = "udp"
        /\ stage' = [stage EXCEPT ![p] = "tcp"]
        /\ Goto(p, After(p))
  /\ UNCHANGED <<allow, bans, agentIP, unannounced, nets, tracked, dead, todo, kill>>

PassNext(p) ==
  /\ pc[p] = "kill"
  /\ kill[p] = {}
  /\ \/ /\ stage[p] # "udp"
        /\ stage' = [stage EXCEPT ![p] = IF @ = "tcp" THEN "http" ELSE "udp"]
        /\ Goto(p, "lock")
     \/ /\ stage[p] = "udp"
        /\ stage' = [stage EXCEPT ![p] = "tcp"]
        /\ Goto(p, After(p))
  /\ UNCHANGED <<allow, bans, agentIP, unannounced, nets, tracked, dead, todo, kill>>

-----------------------------------------------------------------------------
\* publicAllowed, for connections and datagrams.

\* Mutant: the connection is checked but not tracked.
AcceptUntracked(c, ip) ==
  /\ pc[c] = "idle"
  /\ at' = [at EXCEPT ![c] = ip]
  /\ pc' = [pc EXCEPT ![c] = "blocked"]
  /\ UNCHANGED <<allow, bans, agentIP, unannounced, nets, tracked, dead, pass>>

\* The connection is tracked before it is checked.
Accept(c, ip) ==
  /\ pc[c] = "idle"
  /\ Free(GroupOf(c))
  /\ tracked' = tracked \cup {c}
  /\ at' = [at EXCEPT ![c] = ip]
  /\ pc' = [pc EXCEPT ![c] = "blocked"]
  /\ UNCHANGED <<allow, bans, agentIP, unannounced, nets, dead, pass>>

Datagram(l, ip) ==
  /\ pc[l] = "idle"
  /\ at' = [at EXCEPT ![l] = ip]
  /\ pc' = [pc EXCEPT ![l] = "blocked"]
  /\ UNCHANGED <<allow, bans, agentIP, unannounced, nets, tracked, dead, pass>>

\* A banned client is refused.
CheckBlocked(p) ==
  /\ pc[p] = "blocked"
  /\ Goto(p, IF ~Blocked(at[p]) THEN "allow"
             ELSE IF p \in Conn THEN "refuse" ELSE "idle")
  /\ UNCHANGED <<allow, bans, agentIP, unannounced, nets, tracked, dead, pass>>

\* A client the allowlist covers is let in.
CheckAllow(p) ==
  /\ pc[p] = "allow"
  /\ Goto(p, IF at[p] \notin allow THEN "trust"
             ELSE IF p \in Conn THEN "admitted" ELSE "insert")
  /\ UNCHANGED <<allow, bans, agentIP, unannounced, nets, tracked, dead, pass>>

\* The agent's own address is refused without a strike.
CheckTrust(p) ==
  /\ pc[p] = "trust"
  /\ Goto(p, IF trustedTunnelIP(at[p]) THEN After(p) ELSE "strike")
  /\ UNCHANGED <<allow, bans, agentIP, unannounced, nets, tracked, dead, pass>>

\* ObserveInvalid: ignored or counted, or the streak is complete and the
\* address is banned, the second time for good.
Strike(p) ==
  /\ pc[p] = "strike"
  /\ \/ /\ Goto(p, After(p))
        /\ UNCHANGED <<bans, unannounced>>
     \/ /\ ~Blocked(at[p])
        /\ IF at[p] \in prior THEN Bans!BanForGood(at[p])
                              ELSE Bans!BanTemporarily(at[p])
        /\ StartPass(p)
  /\ UNCHANGED <<allow, agentIP, nets, tracked, dead, pass>>

\* The handler is done with the connection, whether it was refused, found no
\* agent or no free session, relayed until one side closed, or was evicted.
Leave(c) ==
  /\ pc[c] \in {"refuse", "admitted"}
  /\ Free(GroupOf(c))
  /\ tracked' = tracked \ {c}
  /\ dead' = dead \ {c}
  /\ kill' = [p \in Proc |-> kill[p] \ {c}]
  /\ Goto(c, "idle")
  /\ UNCHANGED <<allow, bans, agentIP, unannounced, nets, stage, todo>>

\* ensureAssoc: the client has an association, or gets one if a hub can be
\* had (which may take the fifteen seconds of OpenData) and is not full.
InsertAssoc(l) ==
  /\ pc[l] = "insert"
  /\ Free("udp")
  /\ \/ \E a \in Assoc \ tracked :
          /\ \A b \in tracked \cap Assoc : at[b] # at[l]
          /\ tracked' = tracked \cup {a}
          /\ at' = [at EXCEPT ![a] = at[l], ![l] = None]
     \/ at' = [at EXCEPT ![l] = None] /\ UNCHANGED tracked
  /\ pc' = [pc EXCEPT ![l] = "idle"]
  /\ UNCHANGED <<allow, bans, agentIP, unannounced, nets, dead, pass>>

\* The association ends by itself: idle, closed by the agent, hub closed.
AssocEnds(a) ==
  /\ a \in tracked
  /\ Free("udp")
  /\ Forget(a)
  /\ UNCHANGED <<allow, bans, agentIP, unannounced, pc, nets, dead, stage, todo>>

-----------------------------------------------------------------------------
\* handleAgent up to the session, and noteTunnelInvalid.

\* A tunnel connection of a banned address is reset at once.
TunnelConn(t, ip) ==
  /\ pc[t] = "idle"
  /\ ~Blocked(ip)
  /\ at' = [at EXCEPT ![t] = ip]
  /\ pc' = [pc EXCEPT ![t] = "handshake"]
  /\ UNCHANGED <<allow, bans, agentIP, unannounced, nets, tracked, dead, pass>>

\* rememberAgent.  (What the session does then is in module AgentSession.)
HandshakeValid(t) ==
  /\ pc[t] = "handshake"
  /\ agentIP' = at[t]
  /\ Goto(t, "idle")
  /\ UNCHANGED <<allow, bans, unannounced, nets, tracked, dead, pass>>

\* Not TLS or not the tunnel protocol ("probe"), a wrong token ("token"), or
\* another error, which is not held against the address.
HandshakeInvalid(t) ==
  /\ pc[t] = "handshake"
  /\ \E step \in {"probe", "token", "idle"} : Goto(t, step)
  /\ UNCHANGED <<allow, bans, agentIP, unannounced, nets, tracked, dead, pass>>

ProbePardoned(t) ==
  /\ pc[t] = "probe"
  /\ Goto(t, IF at[t] \in pardoned THEN "idle" ELSE "distrust")
  /\ UNCHANGED <<allow, bans, agentIP, unannounced, nets, tracked, dead, pass>>

ProbeTrusted(t) ==
  /\ pc[t] = "distrust"
  /\ Goto(t, IF trustedTunnelIP(at[t]) THEN "idle" ELSE "ban")
  /\ UNCHANGED <<allow, bans, agentIP, unannounced, nets, tracked, dead, pass>>

\* BanPermanent looks again for a pardon, but not at the allowlist.
ProbeBan(t) ==
  /\ pc[t] = "ban"
  /\ \/ /\ at[t] \in pardoned \/ kind[at[t]] = "permanent"
        /\ Goto(t, "idle")
        /\ UNCHANGED <<bans, unannounced>>
     \/ Bans!BanForGood(at[t]) /\ StartPass(t)
  /\ UNCHANGED <<allow, agentIP, nets, tracked, dead, pass>>

BadToken(t) ==
  /\ pc[t] = "token"
  /\ Goto(t, IF trustedTunnelIP(at[t]) \/ at[t] \in pardoned THEN "idle" ELSE "strike")
  /\ UNCHANGED <<allow, bans, agentIP, unannounced, nets, tracked, dead, pass>>

-----------------------------------------------------------------------------
\* The admin API.

\* acl.Store.mu is held from the change of the list until it is saved.
StoreFree == \A q \in Request : pc[q] # "save"

\* The list in memory, which admission reads, changes before the save.
ListChange(q, new, unban) ==
  /\ pc[q] = "idle" /\ StoreFree
  /\ allow' = new
  /\ nets' = [nets EXCEPT ![q] = unban]
  /\ Goto(q, "save")
  /\ UNCHANGED <<bans, agentIP, unannounced, tracked, dead, pass>>

\* PUT /v1/allowlist.
AllowlistPut(q, cidrs) == ListChange(q, cidrs, cidrs)

\* POST /v1/allowlist and /v1/allow-self, with something new ...
AllowlistPost(q, cidrs) ==
  cidrs \ allow # {} /\ ListChange(q, allow \cup cidrs, cidrs)

\* ... or nothing new: no save and no pass, but the addresses are unbanned.
AllowlistPostKnown(q, cidrs) ==
  /\ pc[q] = "idle" /\ StoreFree
  /\ cidrs # {} /\ cidrs \subseteq allow
  /\ nets' = [nets EXCEPT ![q] = cidrs]
  /\ Goto(q, "unban")
  /\ UNCHANGED <<allow, bans, agentIP, unannounced, tracked, dead, pass>>

\* DELETE /v1/allowlist.
AllowlistDelete(q, cidrs) ==
  cidrs \cap allow # {} /\ ListChange(q, allow \ cidrs, {})

SaveOK(q) ==
  /\ pc[q] = "save"
  /\ StartPass(q)
  /\ UNCHANGED <<allow, bans, agentIP, nets, tracked, dead, pass>>

\* SaveFile failed: the request is answered with an error and no hook runs,
\* but the list in memory keeps the change.
SaveFails(q) ==
  /\ pc[q] = "save"
  /\ unannounced' = TRUE
  /\ nets' = [nets EXCEPT ![q] = {}]
  /\ Goto(q, "idle")
  /\ UNCHANGED <<allow, bans, agentIP, tracked, dead, pass>>

\* Unban and UnbanCIDRs release the addresses that have a record, which those
\* that were banned do.  They run no hook.
Pardon(ns) ==
  \E S \in SUBSET ns : ns \cap prior \subseteq S /\ Bans!Pardon(S)

UnbanListed(q) ==
  /\ pc[q] = "unban"
  /\ Pardon(nets[q])
  /\ nets' = [nets EXCEPT ![q] = {}]
  /\ Goto(q, "idle")
  /\ UNCHANGED <<allow, agentIP, unannounced, tracked, dead, pass>>

\* DELETE /v1/denylist.
DenylistDelete(q, ip) ==
  /\ pc[q] = "idle"
  /\ Pardon({ip})
  /\ UNCHANGED <<allow, agentIP, unannounced, pc, at, nets, tracked, dead, pass>>

\* A request with a wrong bearer token counts even against an allowed address.
AdminUnauthorized(q, ip) ==
  /\ pc[q] = "idle"
  /\ ~Blocked(ip)
  /\ at' = [at EXCEPT ![q] = ip]
  /\ pc' = [pc EXCEPT ![q] = "strike"]
  /\ UNCHANGED <<allow, bans, agentIP, unannounced, nets, tracked, dead, pass>>

\* Temporary bans run out.
BanExpires(ip) ==
  /\ kind[ip] = "temporary"
  /\ kind' = [kind EXCEPT ![ip] = "none"]
  /\ UNCHANGED <<prior, pardoned, allow, agentIP, unannounced, pc, at, nets, tracked, dead, pass>>

-----------------------------------------------------------------------------
Evict(p) ==
  \/ PassLock(p) \/ PassUnlock(p) \/ PassNext(p)
  \/ \E i \in Item : PassLook(p, i)
  \/ \E c \in Conn : PassKillConn(p, c)
  \/ \E a \in Assoc : PassKillAssoc(p, a)

Public ==
  \/ \E c \in Conn, ip \in IP : Accept(c, ip)
  \/ \E l \in Listener, ip \in IP : Datagram(l, ip)
  \/ \E p \in Conn \cup Listener : CheckBlocked(p) \/ CheckAllow(p) \/ CheckTrust(p)
  \/ \E c \in Conn : Leave(c)
  \/ \E l \in Listener : InsertAssoc(l)
  \/ \E a \in Assoc : AssocEnds(a)

Agents ==
  \/ \E t \in Tunnel, ip \in IP : TunnelConn(t, ip)
  \/ \E t \in Tunnel :
       \/ HandshakeValid(t) \/ HandshakeInvalid(t)
       \/ ProbePardoned(t) \/ ProbeTrusted(t) \/ ProbeBan(t) \/ BadToken(t)

Admin ==
  \/ \E q \in Request, cidrs \in SUBSET IP :
       \/ AllowlistPut(q, cidrs) \/ AllowlistPost(q, cidrs)
       \/ AllowlistPostKnown(q, cidrs) \/ AllowlistDelete(q, cidrs)
  \/ \E q \in Request : SaveOK(q) \/ SaveFails(q) \/ UnbanListed(q)
  \/ \E q \in Request, ip \in IP : DenylistDelete(q, ip) \/ AdminUnauthorized(q, ip)

Next ==
  \/ Public \/ Agents \/ Admin
  \/ \E p \in Proc : Strike(p) \/ Evict(p)
  \/ \E ip \in IP : BanExpires(ip)

Spec == Init /\ [][Next]_vars

\* An eviction pass goes on; a mutex does not starve the pass waiting for it.
Fairness ==
  \A p \in Proc :
    /\ WF_vars(PassUnlock(p) \/ PassNext(p) \/ \E i \in Item : PassLook(p, i))
    /\ WF_vars(\E c \in Conn : PassKillConn(p, c))
    /\ SF_vars(PassLock(p))
    /\ SF_vars(\E a \in Assoc : PassKillAssoc(p, a))

FairSpec == Spec /\ Fairness

-----------------------------------------------------------------------------
\* Properties.

\* p's eviction pass will still look at i, or has found it disallowed.
Coming(p, i) ==
  \/ pc[p] = "save"
  \/ pc[p] = "lock" /\ stage[p] = GroupOf(i)
  \/ pc[p] = "look" /\ i \in todo[p]
  \/ pc[p] \in {"look", "kill"} /\ i \in kill[p]
  \/ /\ pc[p] \in {"lock", "look", "kill"}
     /\ \/ stage[p] = "tcp" /\ GroupOf(i) # "tcp"
        \/ stage[p] = "http" /\ GroupOf(i) = "udp"

\* A public connection that got past a check it would no longer pass has
\* been closed or an eviction pass is about to find and close it, however
\* the check, changes of both lists and several passes interleave: the
\* connection is tracked before it is checked.  The exception is a change of
\* the allowlist whose save failed.
ForbiddenConnDoomed ==
  \A c \in Conn :
    /\ \/ pc[c] = "admitted" /\ ~isAllowed(at[c])
       \/ pc[c] = "allow" /\ Blocked(at[c])
    => c \in dead \/ unannounced \/ \E p \in Proc : Coming(p, c)

\* The connection of a client that is banned for good is closed in the end,
\* unless the ban is lifted first.
BannedConnDies ==
  \A c \in Conn, ip \in IP :
    (pc[c] = "admitted" /\ at[c] = ip /\ kind[ip] = "permanent")
      ~> (pc[c] # "admitted" \/ c \in dead \/ kind[ip] # "permanent")

\* Nothing is being checked, changed or evicted.
Quiet == \A p \in Proc : pc[p] \in {"idle", "admitted"}

\* With nothing in progress no disallowed client has an association left.
NoForbiddenAssoc ==
  Quiet /\ ~unannounced => \A a \in Assoc \cap tracked : isAllowed(at[a])
=============================================================================
