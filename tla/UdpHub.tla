-------------------------------- MODULE UdpHub --------------------------------
(***************************************************************************)
(* One UDP hub: the association tables at both ends of a hub stream, and   *)
(* the goroutines that change them (internal/edge/udp.go and               *)
(* internal/agent/udp.go).  At the Edge: the serveUDP loop, the hub's      *)
(* readLoop, its reaper and an eviction pass, and whoever closes the hub.  *)
(* At the agent: the stream's readLoop and a readLocal goroutine per       *)
(* association.  The stream is a FIFO queue of frames in each direction.   *)
(* Every region under the hub's mutex, every frame written and every       *)
(* change of the session gauge is a step.                                  *)
(*                                                                         *)
(* Which association is idle and which client disallowed is left open.     *)
(***************************************************************************)
EXTENDS Integers, Sequences, FiniteSets

CONSTANTS
  Client,     \* client addresses (address and port)
  MaxID,      \* bound of the association ids a hub hands out
  MaxAssoc,   \* max_sessions
  MaxFlight   \* bound of the frames in a queue when a datagram is written

NoClient == "none"

ASSUME HubAssumption ==
  /\ MaxID \in Nat /\ MaxAssoc \in Nat /\ MaxFlight \in Nat
  /\ IsFiniteSet(Client) /\ NoClient \notin Client

ID == 1..MaxID

Remover == {"reaper", "evictor"}
Proc == Remover \cup {"serve", "read"}   \* goroutines of the Edge

VARIABLES
  \* the Edge
  chan,       \* chan[id]: udpAssoc.ready and err: "new", "wait", "ready", "failed"
  clientOf,   \* clientOf[id]: udpAssoc.client
  byID,       \* keys of udpHub.byID
  byAddr,     \* byAddr[k]: id of k's association, 0 for none
  nextID,
  closed,     \* udpHub.closed
  pc,         \* pc[p]: where goroutine p stands
  on,         \* on[p]: the association it works on (0 for none)
  gauge,      \* Registry.activeSessions, as far as this hub changes it
  due,        \* sessions that close() has yet to uncount
  \* the stream
  toAgent, toEdge,
  \* the agent
  local,      \* udpStream.assocs: id -> client its OpenAssoc named
  agent,      \* where the agent's readLoop stands
  opening,    \* the OpenAssoc it handles
  held,       \* held[id]: client a datagram that readLocal has read is for
  notifying,  \* associations closed with the CloseAssoc still to be written
  lost        \* history: a write of the agent failed

assocs == <<chan, clientOf, byID, byAddr, nextID, closed>>
sessions == <<gauge, due>>
agents == <<local, agent, opening, held, notifying, lost>>
vars == <<chan, clientOf, byID, byAddr, nextID, closed, pc, on, gauge, due,
          toAgent, toEdge, local, agent, opening, held, notifying, lost>>

Frame ==
  [type : {"OpenAssoc"}, id : ID, client : Client]
    \cup [type : {"OpenAssocAck"}, id : ID, ok : BOOLEAN]
    \cup [type : {"Datagram"}, id : ID, client : Client]
    \cup [type : {"CloseAssoc"}, id : ID]

TypeOK ==
  /\ chan \in [ID -> {"new", "wait", "ready", "failed"}]
  /\ clientOf \in [ID -> Client \cup {NoClient}]
  /\ byID \in SUBSET ID
  /\ byAddr \in [Client -> ID \cup {0}]
  /\ nextID \in 1..(MaxID + 1)
  /\ closed \in BOOLEAN
  /\ pc \in [Proc -> {"idle", "open", "wait", "timeout", "fail", "send",
                      "nack", "add", "sub", "notify"}]
  /\ on \in [Proc -> ID \cup {0}]
  /\ gauge \in Nat
  /\ due \in Nat
  /\ toAgent \in Seq(Frame) /\ toEdge \in Seq(Frame)
  /\ local \in [ID -> Client \cup {NoClient}]
  /\ agent \in {"read", "ack", "down"}
  /\ opening \in ID \cup {0}
  /\ held \in [ID -> Client \cup {NoClient}]
  /\ notifying \in SUBSET ID
  /\ lost \in BOOLEAN

Init ==
  /\ chan = [id \in ID |-> "new"]
  /\ clientOf = [id \in ID |-> NoClient]
  /\ byID = {}
  /\ byAddr = [k \in Client |-> 0]
  /\ nextID = 1
  /\ closed = FALSE
  /\ pc = [p \in Proc |-> "idle"]
  /\ on = [p \in Proc |-> 0]
  /\ gauge = 0
  /\ due = 0
  /\ toAgent = <<>> /\ toEdge = <<>>
  /\ local = [id \in ID |-> NoClient]
  /\ agent = "read"
  /\ opening = 0
  /\ held = [id \in ID |-> NoClient]
  /\ notifying = {}
  /\ lost = FALSE

-----------------------------------------------------------------------------
\* Shared by the goroutines of the Edge.

\* p goes on at step, with association id.
Goto(p, step, id) ==
  /\ pc' = [pc EXCEPT ![p] = step]
  /\ on' = [on EXCEPT ![p] = IF step = "idle" THEN 0 ELSE id]

\* delete(byID, id) and delete(byAddr, client), whichever association byAddr
\* holds for the client.
Delete(id) ==
  /\ byID' = byID \ {id}
  /\ byAddr' = [byAddr EXCEPT ![clientOf[id]] = 0]

\* failAssoc: the error is set even if the association became ready.
FailAssoc(id) ==
  /\ chan' = [chan EXCEPT ![id] = "failed"]
  /\ Delete(id)
  /\ UNCHANGED <<clientOf, nextID, closed>>

\* removeAssoc under the mutex.
RemoveAssoc(id) ==
  /\ chan' = [chan EXCEPT ![id] = IF @ = "wait" THEN "failed" ELSE @]
  /\ Delete(id)
  /\ UNCHANGED <<clientOf, nextID, closed>>

\* Mutant: no lower bound.
SubSessionsUnclamped(n) == gauge' = gauge - n

\* AddSessions never lets the gauge go below zero.
AddSessions(n) == gauge' = gauge + n
SubSessions(n) == gauge' = IF gauge >= n THEN gauge - n ELSE 0

\* writeFrame: the frame is queued, or lost because the hub is closed or the
\* write deadline passed.
Wrote(frame) == ~closed /\ toAgent' = Append(toAgent, frame)
NotWritten == UNCHANGED toAgent

-----------------------------------------------------------------------------
\* serveUDP: forward and ensureAssoc.

\* A datagram of a client that has an association: it is waited for without a
\* timer, and used if it is ready.
PacketKnown(k) ==
  /\ pc["serve"] = "idle" /\ ~closed
  /\ byAddr[k] # 0
  /\ chan[byAddr[k]] = "ready"
  /\ Goto("serve", "send", byAddr[k])
  /\ UNCHANGED <<assocs, sessions, toAgent, toEdge, agents>>

\* Mutant: the lowest free id is used again.
PacketNewReusingIDs(k) ==
  /\ pc["serve"] = "idle" /\ ~closed
  /\ byAddr[k] = 0
  /\ Cardinality(byID) < MaxAssoc
  /\ \E id \in ID \ byID :
       /\ \A i \in 1..(id - 1) : i \in byID
       /\ chan' = [chan EXCEPT ![id] = "wait"]
       /\ clientOf' = [clientOf EXCEPT ![id] = k]
       /\ byID' = byID \cup {id}
       /\ byAddr' = [byAddr EXCEPT ![k] = id]
       /\ Goto("serve", "open", id)
  /\ UNCHANGED <<nextID, closed, sessions, toAgent, toEdge, agents>>

PacketNew(k) ==
  /\ pc["serve"] = "idle" /\ ~closed
  /\ byAddr[k] = 0
  /\ Cardinality(byID) < MaxAssoc
  /\ nextID <= MaxID
  /\ nextID' = nextID + 1
  /\ chan' = [chan EXCEPT ![nextID] = "wait"]
  /\ clientOf' = [clientOf EXCEPT ![nextID] = k]
  /\ byID' = byID \cup {nextID}
  /\ byAddr' = [byAddr EXCEPT ![k] = nextID]
  /\ Goto("serve", "open", nextID)
  /\ UNCHANGED <<closed, sessions, toAgent, toEdge, agents>>

OpenAssocWritten ==
  /\ pc["serve"] = "open"
  /\ LET id == on["serve"]
     IN  /\ Wrote([type |-> "OpenAssoc", id |-> id, client |-> clientOf[id]])
         /\ Goto("serve", "wait", id)
  /\ UNCHANGED <<assocs, sessions, toEdge, agents>>

OpenAssocNotWritten ==
  /\ pc["serve"] = "open"
  /\ FailAssoc(on["serve"])
  /\ Goto("serve", "idle", 0)
  /\ NotWritten
  /\ UNCHANGED <<sessions, toEdge, agents>>

\* a.ready is closed.
Released ==
  /\ pc["serve"] = "wait"
  /\ chan[on["serve"]] # "wait"
  /\ Goto("serve", IF chan[on["serve"]] = "ready" THEN "send" ELSE "idle", on["serve"])
  /\ UNCHANGED <<assocs, sessions, toAgent, toEdge, agents>>

\* The timer fires and a.ready is still open.
TimerFires ==
  /\ pc["serve"] = "wait"
  /\ chan[on["serve"]] = "wait"
  /\ Goto("serve", "timeout", on["serve"])
  /\ UNCHANGED <<assocs, sessions, toAgent, toEdge, agents>>

\* Mutant: the association that timed out stays in the tables.
OpenTimeoutKeeping ==
  /\ pc["serve"] = "timeout"
  /\ Goto("serve", "notify", on["serve"])
  /\ UNCHANGED <<assocs, sessions, toAgent, toEdge, agents>>

OpenTimeout ==
  /\ pc["serve"] = "timeout"
  /\ FailAssoc(on["serve"])
  /\ Goto("serve", "notify", on["serve"])
  /\ UNCHANGED <<sessions, toAgent, toEdge, agents>>

\* forward: the datagram is written, or the error is only logged.
Forward ==
  /\ pc["serve"] = "send"
  /\ \/ /\ Len(toAgent) < MaxFlight
        /\ Wrote([type |-> "Datagram", id |-> on["serve"], client |-> clientOf[on["serve"]]])
     \/ NotWritten
  /\ Goto("serve", "idle", 0)
  /\ UNCHANGED <<assocs, sessions, toEdge, agents>>

-----------------------------------------------------------------------------
\* The hub's readLoop.

Incoming(type) ==
  /\ pc["read"] = "idle" /\ ~closed
  /\ toEdge # <<>>
  /\ Head(toEdge).type = type
  /\ toEdge' = Tail(toEdge)

\* markReady under the mutex; an association that is gone or decided is left alone.
MarkReady ==
  /\ Incoming("OpenAssocAck")
  /\ LET ack == Head(toEdge)
     IN  \/ /\ ack.id \in byID /\ ~ack.ok
            /\ Goto("read", "nack", ack.id)
            /\ UNCHANGED assocs
         \/ /\ ack.id \in byID /\ ack.ok /\ chan[ack.id] = "wait"
            /\ chan' = [chan EXCEPT ![ack.id] = "ready"]
            /\ Goto("read", "add", ack.id)
            /\ UNCHANGED <<clientOf, byID, byAddr, nextID, closed>>
         \/ /\ ack.id \notin byID \/ (ack.ok /\ chan[ack.id] # "wait")
            /\ UNCHANGED <<assocs, pc, on>>
  /\ UNCHANGED <<sessions, toAgent, agents>>

\* markReady after a refusal, the mutex having been free in between.
Refused ==
  /\ pc["read"] = "nack"
  /\ FailAssoc(on["read"])
  /\ Goto("read", "idle", 0)
  /\ UNCHANGED <<sessions, toAgent, toEdge, agents>>

\* markReady counts the session after it gave the mutex up.
CountSession ==
  /\ pc["read"] = "add"
  /\ AddSessions(1)
  /\ Goto("read", "idle", 0)
  /\ UNCHANGED <<assocs, due, toAgent, toEdge, agents>>

\* deliver: the payload goes to the client of the association, if there is one.
Deliver ==
  /\ Incoming("Datagram")
  /\ UNCHANGED <<assocs, pc, on, sessions, toAgent, agents>>

PeerClosed ==
  /\ Incoming("CloseAssoc")
  /\ LET id == Head(toEdge).id
     IN  \/ /\ id \in byID
            /\ RemoveAssoc(id)
            /\ IF chan[id] = "ready" THEN Goto("read", "sub", id) ELSE UNCHANGED <<pc, on>>
         \/ id \notin byID /\ UNCHANGED <<assocs, pc, on>>
  /\ UNCHANGED <<sessions, toAgent, agents>>

-----------------------------------------------------------------------------
\* reapIdle and evictDisallowed: the list of ids is made first, but each id
\* is looked up again when its turn comes.

\* Mutant: every association is uncounted, ready or not.
RemoveUncounting(r, id) ==
  /\ pc[r] = "idle" /\ id \in byID
  /\ r = "reaper" => chan[id] = "ready"
  /\ RemoveAssoc(id)
  /\ Goto(r, "sub", id)
  /\ UNCHANGED <<sessions, toAgent, toEdge, agents>>

Remove(r, id) ==
  /\ pc[r] = "idle" /\ id \in byID
  /\ r = "reaper" => chan[id] = "ready"
  /\ RemoveAssoc(id)
  /\ Goto(r, IF chan[id] = "ready" THEN "sub" ELSE "notify", id)
  /\ UNCHANGED <<sessions, toAgent, toEdge, agents>>

\* removeAssoc uncounts the session after it gave the mutex up.
UncountSession(p) ==
  /\ pc[p] = "sub"
  /\ SubSessions(1)
  /\ Goto(p, IF p = "read" THEN "idle" ELSE "notify", on[p])
  /\ UNCHANGED <<assocs, due, toAgent, toEdge, agents>>

\* The agent is told, by a remover or after an open timeout.
Notify(p) ==
  /\ pc[p] = "notify"
  /\ Wrote([type |-> "CloseAssoc", id |-> on[p]]) \/ NotWritten
  /\ Goto(p, "idle", 0)
  /\ UNCHANGED <<assocs, sessions, toEdge, agents>>

\* Associations in use.
Live == {id \in byID : chan[id] = "ready"}

\* close: by the readLoop when a read fails, or by closeUDPHubs.
HubClose ==
  /\ ~closed
  /\ closed' = TRUE
  /\ chan' = [id \in ID |-> IF id \in byID /\ chan[id] = "wait" THEN "failed" ELSE chan[id]]
  /\ byID' = {}
  /\ byAddr' = [k \in Client |-> IF \E id \in byID : clientOf[id] = k THEN 0 ELSE byAddr[k]]
  /\ due' = Cardinality(Live)
  /\ UNCHANGED <<clientOf, nextID, pc, on, gauge, toAgent, toEdge, agents>>

HubUncount ==
  /\ due > 0
  /\ SubSessions(due)
  /\ due' = 0
  /\ UNCHANGED <<assocs, pc, on, toAgent, toEdge, agents>>

-----------------------------------------------------------------------------
\* The agent.

edge == <<assocs, pc, on, sessions>>

AgentIncoming(type) ==
  /\ agent = "read"
  /\ toAgent # <<>>
  /\ Head(toAgent).type = type
  /\ toAgent' = Tail(toAgent)

AgentWrote(frame) == toEdge' = Append(toEdge, frame) /\ UNCHANGED lost
AgentLost == UNCHANGED toEdge /\ lost' = TRUE

Locals == {id \in ID : local[id] # NoClient}

\* openAssoc: at the limit, or when the dial fails, the agent refuses.
AgentRefuses ==
  /\ AgentIncoming("OpenAssoc")
  /\ \/ AgentWrote([type |-> "OpenAssocAck", id |-> Head(toAgent).id, ok |-> FALSE])
     \/ AgentLost
  /\ UNCHANGED <<edge, local, agent, opening, notifying, held>>

\* openAssoc: the local socket is there and the association entered.
AgentOpens ==
  /\ AgentIncoming("OpenAssoc")
  /\ Cardinality(Locals) < MaxAssoc
  /\ local' = [local EXCEPT ![Head(toAgent).id] = Head(toAgent).client]
  /\ opening' = Head(toAgent).id
  /\ agent' = "ack"
  /\ UNCHANGED <<edge, toEdge, notifying, lost, held>>

\* The ack is written and readLocal started, or the association is dropped.
AgentAcks ==
  /\ agent = "ack"
  /\ \/ /\ AgentWrote([type |-> "OpenAssocAck", id |-> opening, ok |-> TRUE])
        /\ UNCHANGED local
     \/ AgentLost /\ local' = [local EXCEPT ![opening] = NoClient]
  /\ agent' = "read"
  /\ opening' = 0
  /\ UNCHANGED <<edge, toAgent, notifying, held>>

\* writeLocal: to the socket; a failing one is closed by AgentCloses.
AgentForwards ==
  /\ AgentIncoming("Datagram")
  /\ UNCHANGED <<edge, toEdge, agents>>

AgentToldToClose ==
  /\ AgentIncoming("CloseAssoc")
  /\ local' = [local EXCEPT ![Head(toAgent).id] = NoClient]
  /\ UNCHANGED <<edge, toEdge, agent, opening, notifying, lost, held>>

\* readLocal: a datagram of the local service is read ...
LocalRead(id) ==
  /\ id \in Locals \ {opening}
  /\ held[id] = NoClient
  /\ held' = [held EXCEPT ![id] = local[id]]
  /\ UNCHANGED <<edge, toAgent, toEdge, local, agent, opening, notifying, lost>>

\* ... and written, although the association may be closed by then.
LocalDatagram(id) ==
  /\ held[id] # NoClient
  /\ \/ /\ agent # "down" /\ Len(toEdge) < MaxFlight
        /\ AgentWrote([type |-> "Datagram", id |-> id, client |-> held[id]])
        /\ UNCHANGED local
     \/ AgentLost /\ local' = [local EXCEPT ![id] = NoClient]
  /\ held' = [held EXCEPT ![id] = NoClient]
  /\ UNCHANGED <<edge, toAgent, agent, opening, notifying>>

\* Mutant: the Edge is not told.
AgentClosesSilently(id) ==
  /\ id \in Locals \ {opening}
  /\ local' = [local EXCEPT ![id] = NoClient]
  /\ UNCHANGED <<edge, toAgent, toEdge, agent, opening, notifying, lost, held>>

\* The socket fails, or the association was idle: closeAssoc, first the table ...
AgentCloses(id) ==
  /\ id \in Locals \ {opening}
  /\ local' = [local EXCEPT ![id] = NoClient]
  /\ notifying' = notifying \cup {id}
  /\ UNCHANGED <<edge, toAgent, toEdge, agent, opening, lost, held>>

\* ... then the frame.
AgentNotifies(id) ==
  /\ id \in notifying
  /\ notifying' = notifying \ {id}
  /\ \/ agent # "down" /\ AgentWrote([type |-> "CloseAssoc", id |-> id])
     \/ AgentLost
  /\ UNCHANGED <<edge, toAgent, local, agent, opening, held>>

\* The stream was closed, or no frame came before the read deadline: closeAll.
AgentEnds ==
  /\ agent = "read"
  /\ agent' = "down"
  /\ local' = [id \in ID |-> NoClient]
  /\ UNCHANGED <<edge, toAgent, toEdge, opening, notifying, lost, held>>

-----------------------------------------------------------------------------
Serve ==
  \/ \E k \in Client : PacketKnown(k) \/ PacketNew(k)
  \/ OpenAssocWritten \/ OpenAssocNotWritten
  \/ Released \/ TimerFires \/ OpenTimeout
  \/ Forward

Read == MarkReady \/ Refused \/ CountSession \/ Deliver \/ PeerClosed

Close == HubClose \/ HubUncount

AgentStep ==
  \/ AgentRefuses \/ AgentOpens \/ AgentAcks \/ AgentForwards \/ AgentToldToClose
  \/ \E id \in ID : LocalRead(id) \/ LocalDatagram(id) \/ AgentCloses(id) \/ AgentNotifies(id)
  \/ AgentEnds

Next ==
  \/ Serve \/ Read \/ Close \/ AgentStep
  \/ \E r \in Remover, id \in ID : Remove(r, id)
  \/ \E p \in Proc : UncountSession(p) \/ Notify(p)

Spec == Init /\ [][Next]_vars

-----------------------------------------------------------------------------
\* Properties.

\* Between two datagrams, an entry of byAddr names an association that is in
\* byID, belongs to that client and is ready: serveUDP never blocks on one
\* without a timer, and never sends to one that was removed, whatever reaper,
\* eviction, refusals, timeouts and the agent did in the meantime.
AddrEntryUsable ==
  pc["serve"] = "idle" =>
    \A k \in Client :
      byAddr[k] # 0 =>
        /\ byAddr[k] \in byID
        /\ clientOf[byAddr[k]] = k
        /\ chan[byAddr[k]] = "ready"

\* A reply of the local service reaches the client whose datagrams opened the
\* agent's socket or nobody, even when it is in flight while associations are
\* closed and new ones opened.
NoCrossDelivery ==
  \A i \in 1..Len(toEdge) :
    toEdge[i].type = "Datagram" /\ toEdge[i].id \in byID
      => clientOf[toEdge[i].id] = toEdge[i].client

\* An association the Edge uses exists at the agent, or the news that it does
\* not is on its way, unless a write of the agent failed or its stream ended.
ReadyNotStranded ==
  \A id \in Live :
    \/ id \in Locals \cup notifying
    \/ \E i \in 1..Len(toEdge) : toEdge[i] = [type |-> "CloseAssoc", id |-> id]
    \/ lost \/ agent = "down"

Pending(step) == Cardinality({p \in Proc : pc[p] = step})

\* The gauge never shows fewer sessions than there are, apart from those that
\* markReady is about to count: each decrement belongs to an association
\* that was counted or is about to be.
GaugeNotLow ==
  gauge + Pending("add") >= Cardinality(Live) + Pending("sub") + due
=============================================================================
