----------------------------- MODULE UdpHubProofs -----------------------------
(***************************************************************************)
(* That the two address tables of a UDP hub stay usable and that a reply   *)
(* reaches the client it is meant for, for any number of clients, any      *)
(* number of associations and any interleaving of the goroutines.          *)
(*                                                                         *)
(* AddrEntryUsable speaks of the moments at which serveUDP is idle; to get *)
(* through the others the invariant says that an entry that is not ready   *)
(* is the very one serveUDP is opening.  NoCrossDelivery rests on ids not  *)
(* being used twice: everything in flight names an id below nextID and the *)
(* client that id was given to.                                            *)
(*                                                                         *)
(* GaugeNotLow is nearly inductive; ReadyNotStranded follows the frames    *)
(* between the two ends: an acknowledgement never outlives, unannounced,   *)
(* the association that it is about.                                       *)
(***************************************************************************)
EXTENDS UdpHub, FiniteSetTheorems, TLAPS

\* A goroutine that is not idle has an association to work on.
Working ==
  /\ \A p \in Proc : pc[p] # "idle" => on[p] \in ID
  /\ agent = "ack" => opening \in ID

\* TypeOK without the queues.
TableTypes ==
  /\ chan \in [ID -> {"new", "wait", "ready", "failed"}]
  /\ clientOf \in [ID -> Client \cup {NoClient}]
  /\ byID \in SUBSET ID
  /\ byAddr \in [Client -> ID \cup {0}]
  /\ nextID \in 1..(MaxID + 1)
  /\ closed \in BOOLEAN
  /\ pc \in [Proc -> {"idle", "open", "wait", "timeout", "fail", "send",
                      "nack", "add", "sub", "notify"}]
  /\ on \in [Proc -> ID \cup {0}]
  /\ gauge \in Nat /\ due \in Nat
  /\ local \in [ID -> Client \cup {NoClient}]
  /\ agent \in {"read", "ack", "down"}
  /\ opening \in ID \cup {0}
  /\ held \in [ID -> Client \cup {NoClient}]
  /\ notifying \in SUBSET ID
  /\ lost \in BOOLEAN

Queues == toAgent \in Seq(Frame) /\ toEdge \in Seq(Frame)

Types == TableTypes /\ Working

Opening == {"open", "wait", "timeout"}

\* The tables of the Edge.
Tables ==
  /\ pc["serve"] # "idle" => on["serve"] < nextID
  /\ \A id \in ID : id < nextID => clientOf[id] \in Client
  /\ \A id \in byID : id < nextID /\ chan[id] \in {"wait", "ready"}
  /\ \A k \in Client :
       byAddr[k] # 0 =>
         /\ byAddr[k] \in byID
         /\ clientOf[byAddr[k]] = k
         /\ chan[byAddr[k]] = "wait" =>
              on["serve"] = byAddr[k] /\ pc["serve"] \in Opening

\* Whatever names a client names the one its id was given to.
Right(id, k) == id < nextID /\ k = clientOf[id]

LocalRight ==
  \A id \in ID : /\ local[id] # NoClient => Right(id, local[id])
                 /\ held[id] # NoClient => Right(id, held[id])

ToAgentRight ==
  \A i \in 1..Len(toAgent) :
    toAgent[i].type = "OpenAssoc" => Right(toAgent[i].id, toAgent[i].client)

ToEdgeRight ==
  \A i \in 1..Len(toEdge) :
    toEdge[i].type = "Datagram" => Right(toEdge[i].id, toEdge[i].client)

InFlight == Queues /\ LocalRight /\ ToAgentRight /\ ToEdgeRight

IInv == Types /\ Tables /\ InFlight

\* Reading takes the first frame and leaves the others as they are.
LEMMA QueueRead ==
  ASSUME NEW q \in Seq(Frame), q # <<>>
  PROVE  /\ Tail(q) \in Seq(Frame) /\ Head(q) \in Frame
         /\ 1 \in 1..Len(q) /\ Head(q) = q[1]
         /\ \A i \in 1..Len(Tail(q)) : i + 1 \in 1..Len(q) /\ Tail(q)[i] = q[i + 1]
  OBVIOUS

\* Every frame after a write was there before or is the one written.
LEMMA QueueWrite ==
  ASSUME NEW q \in Seq(Frame), NEW f \in Frame
  PROVE  /\ Append(q, f) \in Seq(Frame)
         /\ \A i \in 1..Len(Append(q, f)) :
              \/ i \in 1..Len(q) /\ Append(q, f)[i] = q[i]
              \/ Append(q, f)[i] = f
  OBVIOUS

\* The frames both ends write.
LEMMA Frames ==
  ASSUME NEW id \in ID
  PROVE  /\ \A k \in Client : [type |-> "OpenAssoc", id |-> id, client |-> k] \in Frame
         /\ \A k \in Client : [type |-> "Datagram", id |-> id, client |-> k] \in Frame
         /\ \A ok \in BOOLEAN : [type |-> "OpenAssocAck", id |-> id, ok |-> ok] \in Frame
         /\ [type |-> "CloseAssoc", id |-> id] \in Frame
  BY DEF Frame

\* A frame names an association, and an OpenAssoc or a Datagram its client.
LEMMA FrameFields ==
  ASSUME NEW f \in Frame
  PROVE  /\ f.id \in ID
         /\ f.type \in {"OpenAssoc", "Datagram"} => f.client \in Client
  BY DEF Frame

\* Reading from the queue towards the agent, or writing an OpenAssoc that names
\* the right client to it, keeps it right.
LEMMA AgentQueue ==
  ASSUME InFlight, UNCHANGED <<nextID, clientOf>>,
         \/ toAgent' = toAgent
         \/ toAgent # <<>> /\ toAgent' = Tail(toAgent)
         \/ \E f \in Frame : /\ toAgent' = Append(toAgent, f)
                             /\ f.type = "OpenAssoc" => Right(f.id, f.client)
  PROVE  toAgent' \in Seq(Frame) /\ ToAgentRight'
<1>1. CASE toAgent' = toAgent
  BY <1>1 DEF InFlight, Queues, ToAgentRight, Right
<1>2. CASE toAgent # <<>> /\ toAgent' = Tail(toAgent)
  BY <1>2, QueueRead DEF InFlight, Queues, ToAgentRight, Right
<1>3. ASSUME NEW f \in Frame, toAgent' = Append(toAgent, f),
             f.type = "OpenAssoc" => Right(f.id, f.client)
      PROVE  toAgent' \in Seq(Frame) /\ ToAgentRight'
  BY <1>3, QueueWrite DEF InFlight, Queues, ToAgentRight, Right
<1> QED
  BY <1>1, <1>2, <1>3

\* The same for the queue towards the Edge and its datagrams.
LEMMA EdgeQueue ==
  ASSUME InFlight, UNCHANGED <<nextID, clientOf>>,
         \/ toEdge' = toEdge
         \/ toEdge # <<>> /\ toEdge' = Tail(toEdge)
         \/ \E f \in Frame : /\ toEdge' = Append(toEdge, f)
                             /\ f.type = "Datagram" => Right(f.id, f.client)
  PROVE  toEdge' \in Seq(Frame) /\ ToEdgeRight'
<1>1. CASE toEdge' = toEdge
  BY <1>1 DEF InFlight, Queues, ToEdgeRight, Right
<1>2. CASE toEdge # <<>> /\ toEdge' = Tail(toEdge)
  BY <1>2, QueueRead DEF InFlight, Queues, ToEdgeRight, Right
<1>3. ASSUME NEW f \in Frame, toEdge' = Append(toEdge, f),
             f.type = "Datagram" => Right(f.id, f.client)
      PROVE  toEdge' \in Seq(Frame) /\ ToEdgeRight'
  BY <1>3, QueueWrite DEF InFlight, Queues, ToEdgeRight, Right
<1> QED
  BY <1>1, <1>2, <1>3

\* The tables of the Edge survive every step.
LEMMA TablesPreserved == Types /\ Tables /\ [Next]_vars => Tables'
<1> SUFFICES ASSUME Types /\ Tables, [Next]_vars PROVE Tables'
  OBVIOUS
<1>1. ASSUME NEW k \in Client, PacketKnown(k) PROVE Tables'
  BY <1>1, HubAssumption
  DEF Types, TableTypes, Working, Tables, Opening, ID, Proc, assocs, agents,
      sessions, PacketKnown, Goto
<1>2. ASSUME NEW k \in Client, PacketNew(k) PROVE Tables'
  BY <1>2, HubAssumption
  DEF Types, TableTypes, Working, Tables, Opening, ID, Proc, assocs, agents,
      sessions, PacketNew, Goto
<1>3. CASE OpenAssocWritten
  BY <1>3, HubAssumption
  DEF Types, TableTypes, Working, Tables, Opening, ID, Proc, assocs, agents,
      sessions, OpenAssocWritten, Wrote, Goto
<1>4. CASE OpenAssocNotWritten
  BY <1>4, HubAssumption
  DEF Types, TableTypes, Working, Tables, Opening, ID, Proc, assocs, agents,
      sessions, OpenAssocNotWritten, NotWritten, FailAssoc, Delete, Goto
<1>5. CASE Released
  BY <1>5, HubAssumption
  DEF Types, TableTypes, Working, Tables, Opening, ID, Proc, assocs, agents,
      sessions, Released, Goto
<1>6. CASE TimerFires
  BY <1>6, HubAssumption
  DEF Types, TableTypes, Working, Tables, Opening, ID, Proc, assocs, agents,
      sessions, TimerFires, Goto
<1>7. CASE OpenTimeout
  BY <1>7, HubAssumption
  DEF Types, TableTypes, Working, Tables, Opening, ID, Proc, assocs, agents,
      sessions, OpenTimeout, FailAssoc, Delete, Goto
<1>8. CASE Forward
  BY <1>8, HubAssumption
  DEF Types, TableTypes, Working, Tables, Opening, ID, Proc, assocs, agents,
      sessions, Forward, Wrote, NotWritten, Goto
<1>9. CASE MarkReady
  <2> DEFINE ack == Head(toEdge)
  <2>1. CASE ack.id \in byID /\ ~ack.ok /\ Goto("read", "nack", ack.id) /\ UNCHANGED assocs
    BY <2>1 DEF Types, TableTypes, Tables, Opening, assocs, Goto
  <2>2. CASE /\ ack.id \in byID
             /\ chan' = [chan EXCEPT ![ack.id] = "ready"]
             /\ Goto("read", "add", ack.id)
             /\ UNCHANGED <<clientOf, byID, byAddr, nextID, closed>>
    BY <2>2 DEF Types, TableTypes, Tables, Opening, Goto, Proc
  <2>3. CASE UNCHANGED <<assocs, pc, on>>
    BY <2>3 DEF Tables, assocs
  <2> QED
    BY <1>9, <2>1, <2>2, <2>3 DEF MarkReady
<1>10. CASE Refused
  BY <1>10, HubAssumption
  DEF Types, TableTypes, Working, Tables, Opening, ID, Proc, assocs, agents,
      sessions, Refused, FailAssoc, Delete, Goto
<1>11. CASE CountSession
  BY <1>11, HubAssumption
  DEF Types, TableTypes, Working, Tables, Opening, ID, Proc, assocs, agents,
      sessions, CountSession, AddSessions, Goto
<1>12. CASE Deliver
  BY <1>12, HubAssumption
  DEF Types, TableTypes, Working, Tables, Opening, ID, Proc, assocs, agents,
      sessions, Deliver, Incoming
<1>13. CASE PeerClosed
  <2>1. CASE UNCHANGED <<assocs, pc, on>>
    BY <2>1 DEF Tables, assocs
  <2>2. ASSUME NEW id \in byID, RemoveAssoc(id),
               Goto("read", "sub", id) \/ UNCHANGED <<pc, on>>
        PROVE  Tables'
    BY <2>2 DEF Types, TableTypes, Tables, Opening, RemoveAssoc, Delete, Goto, Proc
  <2> QED
    BY <1>13, <2>1, <2>2 DEF PeerClosed
<1>14. CASE HubClose
  BY <1>14, HubAssumption
  DEF Types, TableTypes, Working, Tables, Opening, ID, Proc, assocs, agents,
      sessions, HubClose
<1>15. CASE HubUncount
  BY <1>15, HubAssumption
  DEF Types, TableTypes, Working, Tables, Opening, ID, Proc, assocs, agents,
      sessions, HubUncount, SubSessions
<1>16. CASE AgentRefuses
  BY <1>16, HubAssumption
  DEF Types, TableTypes, Working, Tables, Opening, ID, Proc, assocs, agents,
      sessions, AgentRefuses, AgentIncoming, AgentWrote, AgentLost, edge
<1>17. CASE AgentOpens
  BY <1>17, HubAssumption
  DEF Types, TableTypes, Working, Tables, Opening, ID, Proc, assocs, agents,
      sessions, AgentOpens, AgentIncoming, edge
<1>18. CASE AgentAcks
  BY <1>18, HubAssumption
  DEF Types, TableTypes, Working, Tables, Opening, ID, Proc, assocs, agents,
      sessions, AgentAcks, AgentWrote, AgentLost, edge
<1>19. CASE AgentForwards
  BY <1>19, HubAssumption
  DEF Types, TableTypes, Working, Tables, Opening, ID, Proc, assocs, agents,
      sessions, AgentForwards, AgentIncoming, edge
<1>20. CASE AgentToldToClose
  BY <1>20, HubAssumption
  DEF Types, TableTypes, Working, Tables, Opening, ID, Proc, assocs, agents,
      sessions, AgentToldToClose, AgentIncoming, edge
<1>21. ASSUME NEW id \in ID, LocalDatagram(id) PROVE Tables'
  BY <1>21, HubAssumption
  DEF Types, TableTypes, Working, Tables, Opening, ID, Proc, assocs, agents,
      sessions, LocalDatagram, Locals, AgentWrote, AgentLost, edge
<1>22. ASSUME NEW id \in ID, AgentCloses(id) PROVE Tables'
  BY <1>22, HubAssumption
  DEF Types, TableTypes, Working, Tables, Opening, ID, Proc, assocs, agents,
      sessions, AgentCloses, edge
<1>23. ASSUME NEW id \in ID, AgentNotifies(id) PROVE Tables'
  BY <1>23, HubAssumption
  DEF Types, TableTypes, Working, Tables, Opening, ID, Proc, assocs, agents,
      sessions, AgentNotifies, AgentWrote, AgentLost, edge
<1>24. CASE AgentEnds
  BY <1>24, HubAssumption
  DEF Types, TableTypes, Working, Tables, Opening, ID, Proc, assocs, agents,
      sessions, AgentEnds, edge
<1>25. ASSUME NEW r \in Remover, NEW id \in ID, Remove(r, id) PROVE Tables'
  BY <1>25, HubAssumption
  DEF Types, TableTypes, Working, Tables, Opening, ID, Proc, assocs, agents,
      sessions, Remove, RemoveAssoc, Delete, Goto, Remover
<1>26. ASSUME NEW p \in Proc, UncountSession(p) PROVE Tables'
  BY <1>26, HubAssumption
  DEF Types, TableTypes, Working, Tables, Opening, ID, Proc, assocs, agents,
      sessions, UncountSession, SubSessions, Goto
<1>27. ASSUME NEW p \in Proc, Notify(p) PROVE Tables'
  BY <1>27, HubAssumption
  DEF Types, TableTypes, Working, Tables, Opening, ID, Proc, assocs, agents,
      sessions, Notify, Wrote, NotWritten, Goto
<1>28. ASSUME NEW id \in ID, LocalRead(id) PROVE Tables'
  BY <1>28 DEF Tables, LocalRead, edge, assocs
<1>29. CASE UNCHANGED vars
  BY <1>29 DEF Types, TableTypes, Working, Tables, Opening, ID, Proc, vars
<1> QED
  BY <1>1, <1>2, <1>3, <1>4, <1>5, <1>6, <1>7, <1>8, <1>9, <1>10, <1>11, <1>12,
     <1>13, <1>14, <1>15, <1>16, <1>17, <1>18, <1>19, <1>20, <1>21, <1>22, <1>23,
     <1>24, <1>25, <1>26, <1>27, <1>28, <1>29
  DEF Next, Serve, Read, Close, AgentStep

\* Types survive every step.
LEMMA TypesPreserved == Types /\ Queues /\ Tables /\ [Next]_vars => Types'
<1> SUFFICES ASSUME Types /\ Queues /\ Tables, [Next]_vars PROVE Types'
  OBVIOUS
<1>1. ASSUME NEW k \in Client, PacketKnown(k) PROVE Types'
  BY <1>1, HubAssumption
  DEF Types, TableTypes, Working, Tables, Proc, assocs, agents, sessions,
      PacketKnown, Goto
<1>2. ASSUME NEW k \in Client, PacketNew(k) PROVE Types'
  <2>1. nextID \in ID /\ nextID + 1 \in 1..(MaxID + 1)
    BY <1>2, HubAssumption DEF Types, TableTypes, PacketNew, ID
  <2> QED
    BY <1>2, <2>1 DEF Types, TableTypes, Working, Proc, PacketNew, Goto, sessions, agents
<1>3. CASE OpenAssocWritten
  BY <1>3, HubAssumption
  DEF Types, TableTypes, Working, Tables, Proc, assocs, agents, sessions,
      OpenAssocWritten, Wrote, Goto
<1>4. CASE OpenAssocNotWritten
  BY <1>4, HubAssumption
  DEF Types, TableTypes, Working, Tables, Proc, assocs, agents, sessions,
      OpenAssocNotWritten, NotWritten, FailAssoc, Delete, Goto
<1>5. CASE Released
  BY <1>5, HubAssumption
  DEF Types, TableTypes, Working, Tables, Proc, assocs, agents, sessions,
      Released, Goto
<1>6. CASE TimerFires
  BY <1>6, HubAssumption
  DEF Types, TableTypes, Working, Tables, Proc, assocs, agents, sessions,
      TimerFires, Goto
<1>7. CASE OpenTimeout
  BY <1>7, HubAssumption
  DEF Types, TableTypes, Working, Tables, Proc, assocs, agents, sessions,
      OpenTimeout, FailAssoc, Delete, Goto
<1>8. CASE Forward
  BY <1>8, HubAssumption
  DEF Types, TableTypes, Working, Tables, Proc, assocs, agents, sessions, Forward,
      Wrote, NotWritten, Goto
<1>9. CASE MarkReady
  BY <1>9, HubAssumption
  DEF Types, TableTypes, Working, Tables, Proc, assocs, agents, sessions,
      MarkReady, Incoming, Goto
<1>10. CASE Refused
  BY <1>10, HubAssumption
  DEF Types, TableTypes, Working, Tables, Proc, assocs, agents, sessions, Refused,
      FailAssoc, Delete, Goto
<1>11. CASE CountSession
  BY <1>11, HubAssumption
  DEF Types, TableTypes, Working, Tables, Proc, assocs, agents, sessions,
      CountSession, AddSessions, Goto
<1>12. CASE Deliver
  BY <1>12, HubAssumption
  DEF Types, TableTypes, Working, Tables, Proc, assocs, agents, sessions, Deliver,
      Incoming
<1>13. CASE PeerClosed
  BY <1>13, HubAssumption
  DEF Types, TableTypes, Working, Tables, Proc, assocs, agents, sessions,
      PeerClosed, Incoming, RemoveAssoc, Delete, Goto
<1>14. CASE HubClose
  <2>1. IsFiniteSet(ID)
    BY HubAssumption, FS_Interval DEF ID
  <2>2. Cardinality(Live) \in Nat
    BY <2>1, FS_Subset, FS_CardinalityType DEF Live, Types, TableTypes
  <2> QED
    BY <1>14, <2>2 DEF Types, TableTypes, Working, HubClose, agents
<1>15. CASE HubUncount
  BY <1>15, HubAssumption
  DEF Types, TableTypes, Working, Tables, Proc, assocs, agents, sessions,
      HubUncount, SubSessions
<1>16. CASE AgentRefuses
  BY <1>16, HubAssumption
  DEF Types, TableTypes, Working, Tables, Proc, assocs, agents, sessions,
      AgentRefuses, AgentIncoming, AgentWrote, AgentLost, edge
<1>17. CASE AgentOpens
  <2>1. Head(toAgent).id \in ID /\ Head(toAgent).client \in Client
    BY <1>17, QueueRead, FrameFields DEF Queues, AgentOpens, AgentIncoming
  <2> QED
    BY <1>17, <2>1
    DEF Types, TableTypes, Working, AgentOpens, edge, assocs, sessions
<1>18. CASE AgentAcks
  BY <1>18, HubAssumption
  DEF Types, TableTypes, Working, Tables, Proc, assocs, agents, sessions,
      AgentAcks, AgentWrote, AgentLost, edge
<1>19. CASE AgentForwards
  BY <1>19, HubAssumption
  DEF Types, TableTypes, Working, Tables, Proc, assocs, agents, sessions,
      AgentForwards, AgentIncoming, edge
<1>20. CASE AgentToldToClose
  BY <1>20, HubAssumption
  DEF Types, TableTypes, Working, Tables, Proc, assocs, agents, sessions,
      AgentToldToClose, AgentIncoming, edge
<1>21. ASSUME NEW id \in ID, LocalDatagram(id) PROVE Types'
  BY <1>21, HubAssumption
  DEF Types, TableTypes, Working, Tables, Proc, assocs, agents, sessions,
      LocalDatagram, Locals, AgentWrote, AgentLost, edge
<1>22. ASSUME NEW id \in ID, AgentCloses(id) PROVE Types'
  BY <1>22, HubAssumption
  DEF Types, TableTypes, Working, Tables, Proc, assocs, agents, sessions,
      AgentCloses, edge
<1>23. ASSUME NEW id \in ID, AgentNotifies(id) PROVE Types'
  BY <1>23, HubAssumption
  DEF Types, TableTypes, Working, Tables, Proc, assocs, agents, sessions,
      AgentNotifies, AgentWrote, AgentLost, edge
<1>24. CASE AgentEnds
  BY <1>24, HubAssumption
  DEF Types, TableTypes, Working, Tables, Proc, assocs, agents, sessions,
      AgentEnds, edge
<1>25. ASSUME NEW r \in Remover, NEW id \in ID, Remove(r, id) PROVE Types'
  BY <1>25, HubAssumption
  DEF Types, TableTypes, Working, Tables, Proc, assocs, agents, sessions, Remove,
      RemoveAssoc, Delete, Goto, Remover
<1>26. ASSUME NEW p \in Proc, UncountSession(p) PROVE Types'
  BY <1>26, HubAssumption
  DEF Types, TableTypes, Working, Tables, Proc, assocs, agents, sessions,
      UncountSession, SubSessions, Goto
<1>27. ASSUME NEW p \in Proc, Notify(p) PROVE Types'
  BY <1>27, HubAssumption
  DEF Types, TableTypes, Working, Tables, Proc, assocs, agents, sessions, Notify,
      Wrote, NotWritten, Goto
<1>28. ASSUME NEW id \in ID, LocalRead(id) PROVE Types'
  BY <1>28 DEF Types, TableTypes, Working, LocalRead, Locals, edge, assocs, sessions
<1>29. CASE UNCHANGED vars
  BY <1>29 DEF Types, TableTypes, Working, Tables, Proc, vars
<1> QED
  BY <1>1, <1>2, <1>3, <1>4, <1>5, <1>6, <1>7, <1>8, <1>9, <1>10, <1>11, <1>12,
     <1>13, <1>14, <1>15, <1>16, <1>17, <1>18, <1>19, <1>20, <1>21, <1>22, <1>23,
     <1>24, <1>25, <1>26, <1>27, <1>28, <1>29
  DEF Next, Serve, Read, Close, AgentStep

\* What is in flight keeps naming the right client.
LEMMA InFlightPreserved == Types /\ Tables /\ InFlight /\ [Next]_vars => InFlight'
<1> SUFFICES ASSUME Types /\ Tables /\ InFlight, [Next]_vars PROVE InFlight'
  OBVIOUS
<1>1. ASSUME NEW k \in Client, PacketKnown(k) PROVE InFlight'
  BY <1>1, AgentQueue, EdgeQueue
  DEF InFlight, Queues, LocalRight, Right, assocs, agents, PacketKnown,
      Goto
<1>2. ASSUME NEW k \in Client, PacketNew(k) PROVE InFlight'
  <2>1. /\ nextID \in Nat /\ nextID' = nextID + 1
        /\ clientOf' = [clientOf EXCEPT ![nextID] = k]
        /\ UNCHANGED <<toAgent, toEdge, local, held>>
    BY <1>2, HubAssumption DEF PacketNew, Types, TableTypes, agents
  <2>2. \A id \in ID : \A c : Right(id, c) => Right(id, c)'
    BY <2>1 DEF Right, Types, TableTypes, ID
  <2>3. /\ \A i \in 1..Len(toAgent) : toAgent[i].id \in ID
        /\ \A i \in 1..Len(toEdge) : toEdge[i].id \in ID
    BY FrameFields DEF InFlight, Queues
  <2> QED
    BY <2>1, <2>2, <2>3 DEF InFlight, Queues, LocalRight, ToAgentRight, ToEdgeRight
<1>3. CASE OpenAssocWritten
  <2> DEFINE f == [type |-> "OpenAssoc", id |-> on["serve"], client |-> clientOf[on["serve"]]]
  <2>1. f \in Frame /\ Right(f.id, f.client)
    BY <1>3, Frames DEF Types, TableTypes, Working, Tables, Right, Proc, OpenAssocWritten
  <2>2. toAgent' \in Seq(Frame) /\ ToAgentRight'
    BY <1>3, <2>1, AgentQueue DEF OpenAssocWritten, Wrote, assocs, agents
  <2>3. toEdge' \in Seq(Frame) /\ ToEdgeRight'
    BY <1>3, EdgeQueue DEF OpenAssocWritten, Wrote, assocs, agents
  <2> QED
    BY <1>3, <2>2, <2>3 DEF InFlight, Queues, LocalRight, Right, OpenAssocWritten, Wrote, assocs, agents
<1>4. CASE OpenAssocNotWritten
  BY <1>4, AgentQueue, EdgeQueue
  DEF InFlight, Queues, LocalRight, Right, assocs, agents,
      OpenAssocNotWritten, NotWritten, FailAssoc, Delete, Goto
<1>5. CASE Released
  BY <1>5, AgentQueue, EdgeQueue
  DEF InFlight, Queues, LocalRight, Right, assocs, agents, Released,
      Goto
<1>6. CASE TimerFires
  BY <1>6, AgentQueue, EdgeQueue
  DEF InFlight, Queues, LocalRight, Right, assocs, agents, TimerFires,
      Goto
<1>7. CASE OpenTimeout
  BY <1>7, AgentQueue, EdgeQueue
  DEF InFlight, Queues, LocalRight, Right, assocs, agents, OpenTimeout,
      FailAssoc, Delete, Goto
<1>8. CASE Forward
  <2> DEFINE f == [type |-> "Datagram", id |-> on["serve"], client |-> clientOf[on["serve"]]]
  <2>1. f \in Frame /\ f.type # "OpenAssoc"
    BY <1>8, Frames DEF Types, TableTypes, Working, Tables, Right, Proc, Forward
  <2>2. toAgent' \in Seq(Frame) /\ ToAgentRight'
    BY <1>8, <2>1, AgentQueue DEF Forward, Wrote, NotWritten, assocs, agents
  <2>3. toEdge' \in Seq(Frame) /\ ToEdgeRight'
    BY <1>8, EdgeQueue DEF Forward, Wrote, NotWritten, assocs, agents
  <2> QED
    BY <1>8, <2>2, <2>3 DEF InFlight, Queues, LocalRight, Right, Forward, Wrote, NotWritten, assocs, agents
<1>9. CASE MarkReady
  BY <1>9, AgentQueue, EdgeQueue
  DEF InFlight, Queues, LocalRight, Right, assocs, agents, MarkReady,
      Incoming, Goto
<1>10. CASE Refused
  BY <1>10, AgentQueue, EdgeQueue
  DEF InFlight, Queues, LocalRight, Right, assocs, agents, Refused,
      FailAssoc, Delete, Goto
<1>11. CASE CountSession
  BY <1>11, AgentQueue, EdgeQueue
  DEF InFlight, Queues, LocalRight, Right, assocs, agents, CountSession,
      AddSessions, Goto
<1>12. CASE Deliver
  BY <1>12, AgentQueue, EdgeQueue
  DEF InFlight, Queues, LocalRight, Right, assocs, agents, Deliver,
      Incoming
<1>13. CASE PeerClosed
  BY <1>13, AgentQueue, EdgeQueue
  DEF InFlight, Queues, LocalRight, Right, assocs, agents, PeerClosed,
      Incoming, RemoveAssoc, Delete, Goto
<1>14. CASE HubClose
  BY <1>14, AgentQueue, EdgeQueue
  DEF InFlight, Queues, LocalRight, Right, assocs, agents, HubClose
<1>15. CASE HubUncount
  BY <1>15, AgentQueue, EdgeQueue
  DEF InFlight, Queues, LocalRight, Right, assocs, agents, HubUncount,
      SubSessions
<1>16. CASE AgentRefuses
  <2> DEFINE f == [type |-> "OpenAssocAck", id |-> Head(toAgent).id, ok |-> FALSE]
  <2>1. f \in Frame /\ f.type # "Datagram"
    BY <1>16, Frames, QueueRead, FrameFields DEF InFlight, Queues, AgentRefuses, AgentIncoming
  <2>2. toAgent' \in Seq(Frame) /\ ToAgentRight'
    BY <1>16, AgentQueue DEF AgentRefuses, AgentIncoming, AgentWrote, AgentLost, edge, assocs
  <2>3. toEdge' \in Seq(Frame) /\ ToEdgeRight'
    BY <1>16, <2>1, EdgeQueue DEF AgentRefuses, AgentIncoming, AgentWrote, AgentLost, edge, assocs
  <2> QED
    BY <1>16, <2>2, <2>3 DEF InFlight, Queues, LocalRight, Right, AgentRefuses, AgentIncoming, AgentWrote, AgentLost, edge, assocs
<1>17. CASE AgentOpens
  <2> DEFINE f == Head(toAgent)
  <2>1. f \in Frame /\ f.id \in ID /\ f.type = "OpenAssoc" /\ Right(f.id, f.client)
    BY <1>17, QueueRead, FrameFields DEF InFlight, Queues, ToAgentRight, AgentOpens, AgentIncoming
  <2>2. toAgent' \in Seq(Frame) /\ ToAgentRight'
    BY <1>17, AgentQueue DEF AgentOpens, AgentIncoming, edge, assocs
  <2>3. toEdge' \in Seq(Frame) /\ ToEdgeRight'
    BY <1>17, EdgeQueue DEF AgentOpens, AgentIncoming, edge, assocs
  <2>4. local' = [local EXCEPT ![f.id] = f.client] /\ UNCHANGED <<held, nextID, clientOf>>
    BY <1>17 DEF AgentOpens, edge, assocs
  <2>5. LocalRight'
    BY <2>1, <2>4 DEF InFlight, LocalRight, Right, Types, TableTypes
  <2> QED
    BY <2>2, <2>3, <2>5 DEF InFlight, Queues
<1>18. CASE AgentAcks
  <2> DEFINE f == [type |-> "OpenAssocAck", id |-> opening, ok |-> TRUE]
  <2>1. f \in Frame /\ f.type # "Datagram"
    BY <1>18, Frames DEF Types, Working, AgentAcks
  <2>2. toAgent' \in Seq(Frame) /\ ToAgentRight'
    BY <1>18, AgentQueue DEF AgentAcks, AgentWrote, AgentLost, edge, assocs
  <2>3. toEdge' \in Seq(Frame) /\ ToEdgeRight'
    BY <1>18, <2>1, EdgeQueue DEF AgentAcks, AgentWrote, AgentLost, edge, assocs
  <2> QED
    BY <1>18, <2>2, <2>3 DEF Types, TableTypes, InFlight, Queues, LocalRight, Right, AgentAcks, AgentWrote, AgentLost, edge, assocs
<1>19. CASE AgentForwards
  BY <1>19, AgentQueue, EdgeQueue
  DEF InFlight, Queues, LocalRight, Right, assocs, agents,
      AgentForwards, AgentIncoming, edge
<1>20. CASE AgentToldToClose
  BY <1>20, AgentQueue, EdgeQueue
  DEF InFlight, Queues, LocalRight, Right, assocs, agents,
      AgentToldToClose, AgentIncoming, edge
<1>21. ASSUME NEW id \in ID, LocalDatagram(id) PROVE InFlight'
  <2> DEFINE f == [type |-> "Datagram", id |-> id, client |-> held[id]]
  <2>1. f \in Frame /\ Right(f.id, f.client)
    BY <1>21, Frames DEF InFlight, LocalRight, Right, LocalDatagram, Locals, Types, TableTypes, Tables
  <2>2. toAgent' \in Seq(Frame) /\ ToAgentRight'
    BY <1>21, AgentQueue DEF LocalDatagram, AgentWrote, AgentLost, edge, assocs
  <2>3. toEdge' \in Seq(Frame) /\ ToEdgeRight'
    BY <1>21, <2>1, EdgeQueue DEF LocalDatagram, AgentWrote, AgentLost, edge, assocs
  <2> QED
    BY <1>21, <2>2, <2>3 DEF Types, TableTypes, InFlight, Queues, LocalRight, Right, LocalDatagram, AgentWrote, AgentLost, edge, assocs
<1>22. ASSUME NEW id \in ID, AgentCloses(id) PROVE InFlight'
  BY <1>22, AgentQueue, EdgeQueue
  DEF InFlight, Queues, LocalRight, Right, assocs, agents, AgentCloses,
      edge
<1>23. ASSUME NEW id \in ID, AgentNotifies(id) PROVE InFlight'
  <2> DEFINE f == [type |-> "CloseAssoc", id |-> id]
  <2>1. f \in Frame /\ f.type # "Datagram"
    BY <1>23, Frames
  <2>2. toAgent' \in Seq(Frame) /\ ToAgentRight'
    BY <1>23, AgentQueue DEF AgentNotifies, AgentWrote, AgentLost, edge, assocs
  <2>3. toEdge' \in Seq(Frame) /\ ToEdgeRight'
    BY <1>23, <2>1, EdgeQueue DEF AgentNotifies, AgentWrote, AgentLost, edge, assocs
  <2> QED
    BY <1>23, <2>2, <2>3 DEF InFlight, Queues, LocalRight, Right, AgentNotifies, AgentWrote, AgentLost, edge, assocs
<1>24. CASE AgentEnds
  BY <1>24, AgentQueue, EdgeQueue
  DEF InFlight, Queues, LocalRight, Right, assocs, agents, AgentEnds,
      edge
<1>25. ASSUME NEW r \in Remover, NEW id \in ID, Remove(r, id) PROVE InFlight'
  BY <1>25, AgentQueue, EdgeQueue
  DEF InFlight, Queues, LocalRight, Right, assocs, agents, Remove,
      RemoveAssoc, Delete, Goto, Remover
<1>26. ASSUME NEW p \in Proc, UncountSession(p) PROVE InFlight'
  BY <1>26, AgentQueue, EdgeQueue
  DEF InFlight, Queues, LocalRight, Right, assocs, agents,
      UncountSession, SubSessions, Goto
<1>27. ASSUME NEW p \in Proc, Notify(p) PROVE InFlight'
  <2> DEFINE f == [type |-> "CloseAssoc", id |-> on[p]]
  <2>1. f \in Frame /\ f.type # "OpenAssoc"
    BY <1>27, Frames DEF Types, Working, Notify
  <2>2. toAgent' \in Seq(Frame) /\ ToAgentRight'
    BY <1>27, <2>1, AgentQueue DEF Notify, Wrote, NotWritten, assocs, agents
  <2>3. toEdge' \in Seq(Frame) /\ ToEdgeRight'
    BY <1>27, EdgeQueue DEF Notify, Wrote, NotWritten, assocs, agents
  <2> QED
    BY <1>27, <2>2, <2>3 DEF InFlight, Queues, LocalRight, Right, Notify, Wrote, NotWritten, assocs, agents
<1>28. ASSUME NEW id \in ID, LocalRead(id) PROVE InFlight'
  BY <1>28, AgentQueue, EdgeQueue
  DEF Types, TableTypes, InFlight, Queues, LocalRight, Right, LocalRead, Locals, edge, assocs
<1>29. CASE UNCHANGED vars
  BY <1>29, AgentQueue, EdgeQueue DEF InFlight, Queues, LocalRight, Right, vars
<1> QED
  BY <1>1, <1>2, <1>3, <1>4, <1>5, <1>6, <1>7, <1>8, <1>9, <1>10, <1>11, <1>12,
     <1>13, <1>14, <1>15, <1>16, <1>17, <1>18, <1>19, <1>20, <1>21, <1>22, <1>23,
     <1>24, <1>25, <1>26, <1>27, <1>28, <1>29
  DEF Next, Serve, Read, Close, AgentStep

\* The initial states satisfy the invariant.
LEMMA InitHolds == Init => IInv
<1> SUFFICES ASSUME Init PROVE IInv
  OBVIOUS
<1>1. Types
  <2>1. nextID \in 1..(MaxID + 1) /\ gauge \in Nat /\ due \in Nat
    BY HubAssumption DEF Init
  <2>2. Working
    BY DEF Init, Working
  <2> QED
    BY <2>1, <2>2 DEF Init, Types, TableTypes
<1>2. Tables
  BY DEF Init, Tables, ID, Proc, Remover
<1>3. toAgent = <<>> /\ toEdge = <<>> /\ toAgent \in Seq(Frame) /\ toEdge \in Seq(Frame)
  BY DEF Init
<1>4. ToAgentRight /\ ToEdgeRight
  BY <1>3 DEF ToAgentRight, ToEdgeRight
<1>5. LocalRight
  BY DEF Init, LocalRight
<1> QED
  BY <1>1, <1>2, <1>3, <1>4, <1>5 DEF IInv, InFlight, Queues

\* The invariant is inductive.
THEOREM Invariance == Spec => []IInv
<1>1. IInv /\ [Next]_vars => IInv'
  BY TypesPreserved, TablesPreserved, InFlightPreserved DEF IInv, InFlight
<1> QED
  BY InitHolds, <1>1, PTL DEF Spec

\* Every variable of UdpHub keeps its type.
THEOREM TypeCorrect == Spec => []TypeOK
<1>1. IInv => TypeOK
  BY DEF IInv, Types, TableTypes, InFlight, Queues, TypeOK
<1> QED
  BY Invariance, <1>1, PTL

\* serveUDP only ever finds usable associations in byAddr.
THEOREM AddrEntriesUsable == Spec => []AddrEntryUsable
<1>1. IInv => AddrEntryUsable
  BY DEF IInv, Types, TableTypes, Tables, Opening, AddrEntryUsable
<1> QED
  BY Invariance, <1>1, PTL

\* A reply of the local service reaches its own client or nobody.
THEOREM RepliesNotCrossed == Spec => []NoCrossDelivery
<1>1. IInv => NoCrossDelivery
  BY DEF IInv, InFlight, ToEdgeRight, Right, NoCrossDelivery
<1> QED
  BY Invariance, <1>1, PTL

-----------------------------------------------------------------------------
(***************************************************************************)
(* The gauge.  close() may set what is due only once, so the invariant     *)
(* adds that nothing is due while the hub is open.                         *)
(***************************************************************************)

Counted == GaugeNotLow /\ (due > 0 => closed)

\* Of the four goroutines, those that stand at a step.
At(f, step) == Cardinality({p \in Proc : f[p] = step})

\* They can be counted.
LEMMA AtNat ==
  ASSUME NEW f, NEW step
  PROVE  IsFiniteSet({p \in Proc : f[p] = step}) /\ At(f, step) \in Nat
<1>1. IsFiniteSet(Proc)
  <2>1. IsFiniteSet({"reaper"})
    BY FS_Singleton
  <2>2. IsFiniteSet({"reaper"} \cup {"evictor"})
    BY <2>1, FS_AddElement
  <2>3. IsFiniteSet({"reaper"} \cup {"evictor"} \cup {"serve"})
    BY <2>2, FS_AddElement
  <2>4. IsFiniteSet({"reaper"} \cup {"evictor"} \cup {"serve"} \cup {"read"})
    BY <2>3, FS_AddElement
  <2>5. Proc = {"reaper"} \cup {"evictor"} \cup {"serve"} \cup {"read"}
    BY DEF Proc, Remover
  <2> QED
    BY <2>4, <2>5
<1>2. IsFiniteSet({p \in Proc : f[p] = step})
  BY <1>1, FS_Subset
<1> QED
  BY <1>2, FS_CardinalityType DEF At

\* One goroutine goes from one step to another.
Moves(f, g, from, to) ==
  \E p \in Proc : f[p] = from /\ g[p] = to /\ \A q \in Proc \ {p} : g[q] = f[q]

\* What that does to the numbers of those that stand at "add" and at "sub".
LEMMA PendingMoves ==
  ASSUME NEW f, NEW g, NEW from, NEW to, Moves(f, g, from, to)
  PROVE  /\ from \notin {"add", "sub"} /\ to \notin {"add", "sub"} =>
              At(g, "add") = At(f, "add") /\ At(g, "sub") = At(f, "sub")
         /\ from \notin {"add", "sub"} /\ to = "add" =>
              At(g, "add") = At(f, "add") + 1 /\ At(g, "sub") = At(f, "sub")
         /\ from \notin {"add", "sub"} /\ to = "sub" =>
              At(g, "add") = At(f, "add") /\ At(g, "sub") = At(f, "sub") + 1
         /\ from = "add" /\ to \notin {"add", "sub"} =>
              At(g, "add") = At(f, "add") - 1 /\ At(g, "sub") = At(f, "sub")
         /\ from = "sub" /\ to \notin {"add", "sub"} =>
              At(g, "add") = At(f, "add") /\ At(g, "sub") = At(f, "sub") - 1
<1>1. PICK p \in Proc : f[p] = from /\ g[p] = to /\ \A q \in Proc \ {p} : g[q] = f[q]
  BY DEF Moves
<1>2. ASSUME NEW s
      PROVE  /\ to # s /\ from # s => At(g, s) = At(f, s)
             /\ to = s /\ from # s => At(g, s) = At(f, s) + 1
             /\ to # s /\ from = s => At(g, s) = At(f, s) - 1
  <2> DEFINE S == {q \in Proc : f[q] = s}
             T == {q \in Proc : g[q] = s}
  <2>1. IsFiniteSet(S) /\ At(f, s) = Cardinality(S) /\ At(g, s) = Cardinality(T)
    BY AtNat DEF At
  <2>2. to # s /\ from # s => T = S
    BY <1>1
  <2>3. to = s /\ from # s => T = S \cup {p} /\ p \notin S
    BY <1>1
  <2>4. to # s /\ from = s => T = S \ {p} /\ p \in S
    BY <1>1
  <2> HIDE DEF S, T
  <2>5. p \notin S => Cardinality(S \cup {p}) = Cardinality(S) + 1
    BY <2>1, FS_AddElement
  <2>6. p \in S => Cardinality(S \ {p}) = Cardinality(S) - 1
    BY <2>1, FS_RemoveElement
  <2> QED
    BY <2>1, <2>2, <2>3, <2>4, <2>5, <2>6
<1> QED
  BY <1>2

\* The associations in use are finitely many, and fewer when some go.
LEMMA LiveCount ==
  ASSUME Types
  PROVE  /\ IsFiniteSet(Live) /\ Cardinality(Live) \in Nat
         /\ Live' \subseteq Live =>
              Cardinality(Live') \in Nat /\ Cardinality(Live') <= Cardinality(Live)
         /\ \A id \in Live : Live' \subseteq Live \ {id} =>
              Cardinality(Live') \in Nat /\ Cardinality(Live') + 1 <= Cardinality(Live)
         /\ \A id : Live' = Live \cup {id} =>
              Cardinality(Live') \in Nat /\ Cardinality(Live') <= Cardinality(Live) + 1
<1>1. IsFiniteSet(Live) /\ Cardinality(Live) \in Nat
  <2>1. IsFiniteSet(ID)
    BY HubAssumption, FS_Interval DEF ID
  <2>2. Live \in SUBSET ID
    BY DEF Live, Types, TableTypes
  <2> QED
    BY <2>1, <2>2, FS_Subset, FS_CardinalityType
<1>2. ASSUME NEW S, S \subseteq Live
      PROVE  IsFiniteSet(S) /\ Cardinality(S) \in Nat /\ Cardinality(S) <= Cardinality(Live)
  BY <1>1, <1>2, FS_Subset, FS_CardinalityType
<1>3. ASSUME NEW id \in Live, Live' \subseteq Live \ {id}
      PROVE  Cardinality(Live') \in Nat /\ Cardinality(Live') + 1 <= Cardinality(Live)
  <2>1. /\ IsFiniteSet(Live \ {id})
        /\ Cardinality(Live \ {id}) = Cardinality(Live) - 1
    BY <1>1, FS_RemoveElement
  <2>2. IsFiniteSet(Live') /\ Cardinality(Live') <= Cardinality(Live \ {id})
    BY <1>3, <2>1, FS_Subset
  <2>3. Cardinality(Live') \in Nat
    BY <2>2, FS_CardinalityType
  <2> QED
    BY <1>1, <2>1, <2>2, <2>3
<1>4. ASSUME NEW id, Live' = Live \cup {id}
      PROVE  Cardinality(Live') \in Nat /\ Cardinality(Live') <= Cardinality(Live) + 1
  <2>1. Cardinality(Live') = IF id \in Live THEN Cardinality(Live) ELSE Cardinality(Live) + 1
    BY <1>1, <1>4, FS_AddElement
  <2> QED
    BY <1>1, <2>1
<1> QED
  BY <1>1, <1>2, <1>3, <1>4

\* The gauge in terms of At.
LEMMA GaugeAt ==
  /\ GaugeNotLow <=> gauge + At(pc, "add") >= Cardinality(Live) + At(pc, "sub") + due
  /\ GaugeNotLow' <=> gauge' + At(pc', "add") >= Cardinality(Live') + At(pc', "sub") + due'
BY DEF GaugeNotLow, Pending, At

\* Nobody counts, while associations at most go.
LEMMA QuietStep ==
  ASSUME Types, Counted, Live' \subseteq Live, UNCHANGED <<gauge, due>>,
         closed => closed',
         At(pc', "add") = At(pc, "add"), At(pc', "sub") = At(pc, "sub")
  PROVE  Counted'
<1>1. Cardinality(Live) \in Nat /\ Cardinality(Live') \in Nat
      /\ Cardinality(Live') <= Cardinality(Live)
  BY LiveCount
<1>2. At(pc, "add") \in Nat /\ At(pc, "sub") \in Nat
  BY AtNat
<1>3. gauge' + At(pc', "add") >= Cardinality(Live') + At(pc', "sub") + due'
  BY <1>1, <1>2, GaugeAt DEF Counted, Types, TableTypes
<1> QED
  BY <1>3, GaugeAt DEF Counted

LEMMA CountedPreserved == Types /\ Tables /\ Counted /\ [Next]_vars => Counted'
<1> SUFFICES ASSUME Types /\ Tables, Counted, [Next]_vars PROVE Counted'
  OBVIOUS
<1>0. /\ gauge \in Nat /\ due \in Nat /\ Cardinality(Live) \in Nat
      /\ At(pc, "add") \in Nat /\ At(pc, "sub") \in Nat
      /\ "serve" \in Proc /\ "read" \in Proc
  BY LiveCount, AtNat DEF Types, TableTypes, Proc
<1>1. ASSUME NEW k \in Client, PacketKnown(k) PROVE Counted'
  <2>1. Live' \subseteq Live /\ UNCHANGED <<gauge, due, closed>>
    BY <1>1 DEF PacketKnown, assocs, sessions, Live
  <2>2. Moves(pc, pc', "idle", "send")
    BY <1>0, <1>1 DEF Moves, Types, TableTypes, PacketKnown, Goto
  <2>3. At(pc', "add") = At(pc, "add") /\ At(pc', "sub") = At(pc, "sub")
    BY <2>2, PendingMoves
  <2> QED
    BY <2>1, <2>3, QuietStep
<1>2. ASSUME NEW k \in Client, PacketNew(k) PROVE Counted'
  <2>1. Live' \subseteq Live /\ UNCHANGED <<gauge, due, closed>>
    BY <1>2, HubAssumption DEF PacketNew, sessions, Live, Types, TableTypes, ID
  <2>2. Moves(pc, pc', "idle", "open")
    BY <1>0, <1>2 DEF Moves, Types, TableTypes, PacketNew, Goto
  <2>3. At(pc', "add") = At(pc, "add") /\ At(pc', "sub") = At(pc, "sub")
    BY <2>2, PendingMoves
  <2> QED
    BY <2>1, <2>3, QuietStep
<1>3. CASE OpenAssocWritten
  <2>1. Live' \subseteq Live /\ UNCHANGED <<gauge, due, closed>>
    BY <1>3 DEF OpenAssocWritten, assocs, sessions, Live
  <2>2. Moves(pc, pc', "open", "wait")
    BY <1>0, <1>3 DEF Moves, Types, TableTypes, OpenAssocWritten, Goto
  <2>3. At(pc', "add") = At(pc, "add") /\ At(pc', "sub") = At(pc, "sub")
    BY <2>2, PendingMoves
  <2> QED
    BY <2>1, <2>3, QuietStep
<1>4. CASE OpenAssocNotWritten
  <2>1. Live' \subseteq Live /\ UNCHANGED <<gauge, due, closed>>
    BY <1>4 DEF OpenAssocNotWritten, FailAssoc, Delete, sessions, Live, Types, TableTypes
  <2>2. Moves(pc, pc', "open", "idle")
    BY <1>0, <1>4 DEF Moves, Types, TableTypes, OpenAssocNotWritten, Goto
  <2>3. At(pc', "add") = At(pc, "add") /\ At(pc', "sub") = At(pc, "sub")
    BY <2>2, PendingMoves
  <2> QED
    BY <2>1, <2>3, QuietStep
<1>5. CASE Released
  <2>1. Live' \subseteq Live /\ UNCHANGED <<gauge, due, closed>>
    BY <1>5 DEF Released, assocs, sessions, Live
  <2>2. Moves(pc, pc', "wait", "send") \/ Moves(pc, pc', "wait", "idle")
    BY <1>0, <1>5 DEF Moves, Types, TableTypes, Released, Goto
  <2>3. At(pc', "add") = At(pc, "add") /\ At(pc', "sub") = At(pc, "sub")
    BY <2>2, PendingMoves
  <2> QED
    BY <2>1, <2>3, QuietStep
<1>6. CASE TimerFires
  <2>1. Live' \subseteq Live /\ UNCHANGED <<gauge, due, closed>>
    BY <1>6 DEF TimerFires, assocs, sessions, Live
  <2>2. Moves(pc, pc', "wait", "timeout")
    BY <1>0, <1>6 DEF Moves, Types, TableTypes, TimerFires, Goto
  <2>3. At(pc', "add") = At(pc, "add") /\ At(pc', "sub") = At(pc, "sub")
    BY <2>2, PendingMoves
  <2> QED
    BY <2>1, <2>3, QuietStep
<1>7. CASE OpenTimeout
  <2>1. Live' \subseteq Live /\ UNCHANGED <<gauge, due, closed>>
    BY <1>7 DEF OpenTimeout, FailAssoc, Delete, sessions, Live, Types, TableTypes
  <2>2. Moves(pc, pc', "timeout", "notify")
    BY <1>0, <1>7 DEF Moves, Types, TableTypes, OpenTimeout, Goto
  <2>3. At(pc', "add") = At(pc, "add") /\ At(pc', "sub") = At(pc, "sub")
    BY <2>2, PendingMoves
  <2> QED
    BY <2>1, <2>3, QuietStep
<1>8. CASE Forward
  <2>1. Live' \subseteq Live /\ UNCHANGED <<gauge, due, closed>>
    BY <1>8 DEF Forward, assocs, sessions, Live
  <2>2. Moves(pc, pc', "send", "idle")
    BY <1>0, <1>8 DEF Moves, Types, TableTypes, Forward, Goto
  <2>3. At(pc', "add") = At(pc, "add") /\ At(pc', "sub") = At(pc, "sub")
    BY <2>2, PendingMoves
  <2> QED
    BY <2>1, <2>3, QuietStep
<1>9. CASE MarkReady
  <2> DEFINE ack == Head(toEdge)
  <2>0. pc["read"] = "idle" /\ UNCHANGED <<gauge, due>>
    BY <1>9 DEF MarkReady, Incoming, sessions
  <2>1. CASE ack.id \in byID /\ ~ack.ok /\ Goto("read", "nack", ack.id) /\ UNCHANGED assocs
    <3>1. Live' \subseteq Live /\ closed' = closed
      BY <2>1 DEF assocs, Live
    <3>2. Moves(pc, pc', "idle", "nack")
      BY <1>0, <2>0, <2>1 DEF Moves, Types, TableTypes, Goto
    <3>3. At(pc', "add") = At(pc, "add") /\ At(pc', "sub") = At(pc, "sub")
      BY <3>2, PendingMoves
    <3> QED
      BY <2>0, <3>1, <3>3, QuietStep
  <2>2. CASE /\ ack.id \in byID /\ chan[ack.id] = "wait"
             /\ chan' = [chan EXCEPT ![ack.id] = "ready"]
             /\ Goto("read", "add", ack.id)
             /\ UNCHANGED <<clientOf, byID, byAddr, nextID, closed>>
    <3>1. Live' = Live \cup {ack.id}
      BY <2>2 DEF Live, Types, TableTypes
    <3>2. Cardinality(Live') \in Nat /\ Cardinality(Live') <= Cardinality(Live) + 1
      BY <3>1, LiveCount
    <3>3. Moves(pc, pc', "idle", "add")
      BY <1>0, <2>0, <2>2 DEF Moves, Types, TableTypes, Goto
    <3>4. At(pc', "add") = At(pc, "add") + 1 /\ At(pc', "sub") = At(pc, "sub")
      BY <3>3, PendingMoves
    <3>5. gauge' + At(pc', "add") >= Cardinality(Live') + At(pc', "sub") + due'
      BY <1>0, <2>0, <3>2, <3>4, GaugeAt DEF Counted
    <3> QED
      BY <2>0, <2>2, <3>5, GaugeAt DEF Counted
  <2>3. CASE UNCHANGED <<assocs, pc, on>>
    <3>1. Live' \subseteq Live /\ closed' = closed /\ pc' = pc
      BY <2>3 DEF assocs, Live
    <3> QED
      BY <2>0, <3>1, QuietStep
  <2> QED
    BY <1>9, <2>1, <2>2, <2>3 DEF MarkReady
<1>10. CASE Refused
  <2>1. Live' \subseteq Live /\ UNCHANGED <<gauge, due, closed>>
    BY <1>10 DEF Refused, FailAssoc, Delete, sessions, Live, Types, TableTypes
  <2>2. Moves(pc, pc', "nack", "idle")
    BY <1>0, <1>10 DEF Moves, Types, TableTypes, Refused, Goto
  <2>3. At(pc', "add") = At(pc, "add") /\ At(pc', "sub") = At(pc, "sub")
    BY <2>2, PendingMoves
  <2> QED
    BY <2>1, <2>3, QuietStep
<1>11. CASE CountSession
  <2>1. Live' = Live /\ UNCHANGED <<due, closed>> /\ gauge' = gauge + 1
    BY <1>11 DEF CountSession, AddSessions, assocs, Live
  <2>2. Moves(pc, pc', "add", "idle")
    BY <1>0, <1>11 DEF Moves, Types, TableTypes, CountSession, Goto
  <2>3. At(pc', "add") = At(pc, "add") - 1 /\ At(pc', "sub") = At(pc, "sub")
    BY <2>2, PendingMoves
  <2>4. gauge' + At(pc', "add") >= Cardinality(Live') + At(pc', "sub") + due'
    BY <1>0, <2>1, <2>3, GaugeAt DEF Counted
  <2> QED
    BY <2>1, <2>4, GaugeAt DEF Counted
<1>12. CASE Deliver
  <2>1. Live' \subseteq Live /\ UNCHANGED <<gauge, due, closed, pc>>
    BY <1>12 DEF Deliver, assocs, sessions, Live
  <2> QED
    BY <2>1, QuietStep
<1>13. CASE PeerClosed
  <2> DEFINE id == Head(toEdge).id
  <2>0. pc["read"] = "idle" /\ UNCHANGED <<gauge, due>>
    BY <1>13 DEF PeerClosed, Incoming, sessions
  <2>1. CASE id \in byID /\ RemoveAssoc(id) /\ chan[id] = "ready" /\ Goto("read", "sub", id)
    <3>1. id \in Live /\ Live' \subseteq Live \ {id} /\ closed' = closed
      BY <2>1 DEF RemoveAssoc, Delete, Live, Types, TableTypes
    <3>2. Cardinality(Live') \in Nat /\ Cardinality(Live') + 1 <= Cardinality(Live)
      BY <3>1, LiveCount
    <3>3. Moves(pc, pc', "idle", "sub")
      BY <1>0, <2>0, <2>1 DEF Moves, Types, TableTypes, Goto
    <3>4. At(pc', "add") = At(pc, "add") /\ At(pc', "sub") = At(pc, "sub") + 1
      BY <3>3, PendingMoves
    <3>5. gauge' + At(pc', "add") >= Cardinality(Live') + At(pc', "sub") + due'
      BY <1>0, <2>0, <3>2, <3>4, GaugeAt DEF Counted
    <3> QED
      BY <2>0, <3>1, <3>5, GaugeAt DEF Counted
  <2>2. CASE id \in byID /\ RemoveAssoc(id) /\ chan[id] # "ready" /\ UNCHANGED <<pc, on>>
    <3>1. Live' \subseteq Live /\ closed' = closed /\ pc' = pc
      BY <2>2 DEF RemoveAssoc, Delete, Live, Types, TableTypes
    <3> QED
      BY <2>0, <3>1, QuietStep
  <2>3. CASE UNCHANGED <<assocs, pc, on>>
    <3>1. Live' \subseteq Live /\ closed' = closed /\ pc' = pc
      BY <2>3 DEF assocs, Live
    <3> QED
      BY <2>0, <3>1, QuietStep
  <2> QED
    BY <1>13, <2>1, <2>2, <2>3 DEF PeerClosed
<1>14. CASE HubClose
  <2>1. /\ due = 0 /\ due' = Cardinality(Live) /\ Live' = {} /\ closed'
        /\ UNCHANGED <<gauge, pc>>
    BY <1>0, <1>14 DEF HubClose, Counted, Live
  <2>2. Cardinality(Live') = 0
    BY <2>1, FS_EmptySet
  <2>3. At(pc', "add") = At(pc, "add") /\ At(pc', "sub") = At(pc, "sub")
    BY <2>1
  <2>4. gauge' + At(pc', "add") >= Cardinality(Live') + At(pc', "sub") + due'
    BY <1>0, <2>1, <2>2, <2>3, GaugeAt DEF Counted
  <2> QED
    BY <2>1, <2>4, GaugeAt DEF Counted
<1>15. CASE HubUncount
  <2>1. /\ due' = 0 /\ Live' = Live /\ pc' = pc
        /\ gauge' = IF gauge >= due THEN gauge - due ELSE 0
    BY <1>15 DEF HubUncount, SubSessions, assocs, Live
  <2>2. At(pc', "add") = At(pc, "add") /\ At(pc', "sub") = At(pc, "sub")
    BY <2>1
  <2>3. gauge' + At(pc', "add") >= Cardinality(Live') + At(pc', "sub") + due'
    BY <1>0, <2>1, <2>2, GaugeAt DEF Counted
  <2> QED
    BY <2>1, <2>3, GaugeAt DEF Counted
<1>16. CASE AgentStep
  <2>1. UNCHANGED <<assocs, pc, on, sessions>>
    BY <1>16 DEF AgentStep, AgentRefuses, AgentOpens, AgentAcks, AgentForwards,
       AgentToldToClose, LocalRead, LocalDatagram, AgentCloses, AgentNotifies,
       AgentEnds, edge
  <2>2. Live' \subseteq Live /\ UNCHANGED <<gauge, due, closed, pc>>
    BY <2>1 DEF assocs, sessions, Live
  <2> QED
    BY <2>2, QuietStep
<1>17. ASSUME NEW r \in Remover, NEW id \in ID, Remove(r, id) PROVE Counted'
  <2>0. /\ pc[r] = "idle" /\ UNCHANGED <<gauge, due>> /\ RemoveAssoc(id)
        /\ id \in byID /\ r \in Proc
    BY <1>17 DEF Remove, sessions, Proc
  <2>1. CASE chan[id] = "ready"
    <3>1. id \in Live /\ Live' \subseteq Live \ {id} /\ closed' = closed
      BY <2>0, <2>1 DEF RemoveAssoc, Delete, Live, Types, TableTypes
    <3>2. Cardinality(Live') \in Nat /\ Cardinality(Live') + 1 <= Cardinality(Live)
      BY <3>1, LiveCount
    <3>3. Moves(pc, pc', "idle", "sub")
      BY <1>0, <2>0, <1>17, <2>1 DEF Moves, Types, TableTypes, Remove, Goto
    <3>4. At(pc', "add") = At(pc, "add") /\ At(pc', "sub") = At(pc, "sub") + 1
      BY <3>3, PendingMoves
    <3>5. gauge' + At(pc', "add") >= Cardinality(Live') + At(pc', "sub") + due'
      BY <1>0, <2>0, <3>2, <3>4, GaugeAt DEF Counted
    <3> QED
      BY <2>0, <3>1, <3>5, GaugeAt DEF Counted
  <2>2. CASE chan[id] # "ready"
    <3>1. Live' \subseteq Live /\ closed' = closed
      BY <2>0, <2>2 DEF RemoveAssoc, Delete, Live, Types, TableTypes
    <3>2. Moves(pc, pc', "idle", "notify")
      BY <1>0, <2>0, <1>17, <2>2 DEF Moves, Types, TableTypes, Remove, Goto
    <3>3. At(pc', "add") = At(pc, "add") /\ At(pc', "sub") = At(pc, "sub")
      BY <3>2, PendingMoves
    <3> QED
      BY <2>0, <3>1, <3>3, QuietStep
  <2> QED
    BY <2>1, <2>2
<1>18. ASSUME NEW p \in Proc, UncountSession(p) PROVE Counted'
  <2>1. /\ Live' = Live /\ UNCHANGED <<due, closed>>
        /\ gauge' = IF gauge >= 1 THEN gauge - 1 ELSE 0
    BY <1>18 DEF UncountSession, SubSessions, assocs, Live
  <2>2. Moves(pc, pc', "sub", "idle") \/ Moves(pc, pc', "sub", "notify")
    BY <1>18 DEF Moves, Types, TableTypes, UncountSession, Goto
  <2>3. At(pc', "add") = At(pc, "add") /\ At(pc', "sub") = At(pc, "sub") - 1
    BY <2>2, PendingMoves
  <2>4. gauge' + At(pc', "add") >= Cardinality(Live') + At(pc', "sub") + due'
    BY <1>0, <2>1, <2>3, GaugeAt DEF Counted
  <2> QED
    BY <2>1, <2>4, GaugeAt DEF Counted
<1>19. ASSUME NEW p \in Proc, Notify(p) PROVE Counted'
  <2>1. Live' \subseteq Live /\ UNCHANGED <<gauge, due, closed>>
    BY <1>19 DEF Notify, assocs, sessions, Live
  <2>2. Moves(pc, pc', "notify", "idle")
    BY <1>0, <1>19 DEF Moves, Types, TableTypes, Notify, Goto
  <2>3. At(pc', "add") = At(pc, "add") /\ At(pc', "sub") = At(pc, "sub")
    BY <2>2, PendingMoves
  <2> QED
    BY <2>1, <2>3, QuietStep
<1>20. CASE UNCHANGED vars
  <2>1. Live' \subseteq Live /\ UNCHANGED <<gauge, due, closed, pc>>
    BY <1>20 DEF vars, Live
  <2> QED
    BY <2>1, QuietStep
<1> QED
  BY <1>1, <1>2, <1>3, <1>4, <1>5, <1>6, <1>7, <1>8, <1>9, <1>10, <1>11, <1>12,
     <1>13, <1>14, <1>15, <1>16, <1>17, <1>18, <1>19, <1>20
  DEF Next, Serve, Read, Close

\* AddSessions and its clamp at zero never make the gauge of sessions lower
\* than what markReady has counted and removeAssoc and close have not uncounted.
THEOREM GaugeNeverLow == Spec => []GaugeNotLow
<1>1. Init => Counted
  <2> SUFFICES ASSUME Init PROVE Counted
    OBVIOUS
  <2>1. Live = {} /\ gauge = 0 /\ due = 0
    BY DEF Init, Live
  <2>2. {p \in Proc : pc[p] = "sub"} = {}
    BY DEF Init
  <2>3. At(pc, "sub") = 0 /\ Cardinality(Live) = 0
    BY <2>1, <2>2, FS_EmptySet DEF At
  <2>4. At(pc, "add") \in Nat
    BY AtNat
  <2> QED
    BY <2>1, <2>3, <2>4, GaugeAt DEF Counted
<1>2. IInv /\ Counted /\ [Next]_vars => Counted'
  BY CountedPreserved DEF IInv
<1>3. Counted => GaugeNotLow
  BY DEF Counted
<1> QED
  BY Invariance, <1>1, <1>2, <1>3, PTL DEF Spec

-----------------------------------------------------------------------------
(***************************************************************************)
(* No association of the Edge is stranded.  A CloseAssoc on its way to the *)
(* agent names an id that has left byID for good; an acknowledgement on    *)
(* its way back names one that the agent has, or whose end it will report. *)
(***************************************************************************)

CloseFrame(id) == [type |-> "CloseAssoc", id |-> id]

Told(id) == \E i \in 1..Len(toEdge) : toEdge[i] = CloseFrame(id)

\* The agent has the association, or its end is or will be reported, or the
\* agent can report nothing any more.
Known(id) == id \in Locals \/ id \in notifying \/ Told(id) \/ lost \/ agent = "down"

\* Ids that goroutines of the Edge work on were handed out, and one that is
\* being uncounted or reported is gone from byID.
Gone ==
  /\ \A p \in Proc : pc[p] # "idle" => on[p] < nextID
  /\ \A p \in Proc : pc[p] \in {"sub", "notify"} => on[p] \notin byID

CloseRight ==
  \A i \in 1..Len(toAgent) :
    toAgent[i].type = "CloseAssoc" => toAgent[i].id < nextID /\ toAgent[i].id \notin byID

OpeningKnown == agent = "ack" => opening < nextID /\ (opening \in Locals \/ lost)

AckRight ==
  \A i \in 1..Len(toEdge), id \in ID :
    toEdge[i].type = "OpenAssocAck" /\ toEdge[i].id = id =>
      /\ id < nextID
      /\ toEdge[i].ok /\ id \in byID => Known(id)

LiveKnown == \A id \in Live : Known(id)

News == Gone /\ CloseRight /\ OpeningKnown /\ AckRight /\ LiveKnown

\* The agent changes nothing at the Edge.
LEMMA AgentLeavesEdge == AgentStep => UNCHANGED <<assocs, pc, on, sessions>>
BY DEF AgentStep, AgentRefuses, AgentOpens, AgentAcks, AgentForwards,
   AgentToldToClose, LocalRead, LocalDatagram, AgentCloses, AgentNotifies,
   AgentEnds, edge

\* An id that was handed out never comes back to byID.
LEMMA NeverBack ==
  ASSUME Types, Tables, [Next]_vars
  PROVE  /\ nextID \in Nat /\ nextID' \in Nat /\ nextID <= nextID'
         /\ \A id \in ID : id < nextID /\ id \in byID' => id \in byID
<1> USE HubAssumption DEF Types, TableTypes, ID
<1>1. CASE Serve
  BY <1>1 DEF Serve, PacketKnown, PacketNew, OpenAssocWritten, OpenAssocNotWritten,
     Released, TimerFires, OpenTimeout, Forward, assocs, FailAssoc, Delete
<1>2. CASE Read
  BY <1>2 DEF Read, MarkReady, Refused, CountSession, Deliver, PeerClosed, assocs,
     FailAssoc, RemoveAssoc, Delete
<1>3. CASE Close
  BY <1>3 DEF Close, HubClose, HubUncount, assocs
<1>4. CASE AgentStep
  BY <1>4, AgentLeavesEdge DEF assocs
<1>5. ASSUME NEW r \in Remover, NEW id \in ID, Remove(r, id)
      PROVE  nextID' = nextID /\ byID' \subseteq byID
  BY <1>5 DEF Remove, RemoveAssoc, Delete
<1>6. ASSUME NEW p \in Proc, UncountSession(p) \/ Notify(p)
      PROVE  nextID' = nextID /\ byID' \subseteq byID
  BY <1>6 DEF UncountSession, Notify, assocs
<1>7. CASE UNCHANGED vars
  BY <1>7 DEF vars
<1> QED
  BY <1>1, <1>2, <1>3, <1>4, <1>5, <1>6, <1>7 DEF Next

\* An association comes into use by an acknowledgement only.
Acked(id) ==
  /\ Incoming("OpenAssocAck")
  /\ id = Head(toEdge).id /\ Head(toEdge).ok /\ id \in byID

LEMMA ComesIntoUse ==
  ASSUME Types, Tables, [Next]_vars, NEW id \in Live'
  PROVE  id \in Live \/ (Acked(id) /\ UNCHANGED agents)
<1> USE HubAssumption DEF Types, TableTypes, ID, Live, Acked
<1>1. CASE Serve
  <2>1. ASSUME NEW k \in Client, PacketNew(k) PROVE id \in Live
    BY <2>1 DEF PacketNew
  <2>2. ASSUME NEW k \in Client, PacketKnown(k) PROVE id \in Live
    BY <2>2 DEF PacketKnown, assocs
  <2>3. CASE OpenAssocNotWritten \/ OpenTimeout
    BY <2>3 DEF OpenAssocNotWritten, OpenTimeout, FailAssoc, Delete
  <2>4. CASE OpenAssocWritten \/ Released \/ TimerFires \/ Forward
    BY <2>4 DEF OpenAssocWritten, Released, TimerFires, Forward, assocs
  <2> QED
    BY <1>1, <2>1, <2>2, <2>3, <2>4 DEF Serve
<1>2. CASE Read
  <2>1. CASE MarkReady
    BY <2>1 DEF MarkReady, assocs
  <2>2. CASE Refused \/ CountSession \/ Deliver \/ PeerClosed
    BY <2>2 DEF Refused, CountSession, Deliver, PeerClosed, assocs,
     FailAssoc, RemoveAssoc, Delete
  <2> QED
    BY <1>2, <2>1, <2>2 DEF Read
<1>3. CASE Close
  BY <1>3 DEF Close, HubClose, HubUncount, assocs
<1>4. CASE AgentStep
  BY <1>4, AgentLeavesEdge DEF assocs
<1>5. ASSUME NEW r \in Remover, NEW j \in ID, Remove(r, j) PROVE id \in Live
  BY <1>5 DEF Remove, RemoveAssoc, Delete
<1>6. ASSUME NEW p \in Proc, UncountSession(p) \/ Notify(p) PROVE id \in Live
  BY <1>6 DEF UncountSession, Notify, assocs
<1>7. CASE UNCHANGED vars
  BY <1>7 DEF vars
<1> QED
  BY <1>1, <1>2, <1>3, <1>4, <1>5, <1>6, <1>7 DEF Next

\* What the agent reported stays in the queue until it is read.
LEMMA ToldStays ==
  ASSUME Queues, NEW id, Told(id),
         \/ toEdge' = toEdge
         \/ \E f \in Frame : toEdge' = Append(toEdge, f)
         \/ toEdge # <<>> /\ Head(toEdge) # CloseFrame(id) /\ toEdge' = Tail(toEdge)
  PROVE  Told(id)'
<1>1. PICK i \in 1..Len(toEdge) : toEdge[i] = CloseFrame(id)
  BY DEF Told
<1>2. CASE toEdge' = toEdge
  BY <1>1, <1>2 DEF Told, CloseFrame
<1>3. ASSUME NEW f \in Frame, toEdge' = Append(toEdge, f) PROVE Told(id)'
  <2>1. i \in 1..Len(toEdge') /\ toEdge'[i] = toEdge[i]
    BY <1>1, <1>3 DEF Queues
  <2> QED
    BY <1>1, <2>1 DEF Told, CloseFrame
<1>4. CASE toEdge # <<>> /\ Head(toEdge) # CloseFrame(id) /\ toEdge' = Tail(toEdge)
  <2>1. i # 1
    BY <1>1, <1>4 DEF Queues
  <2>2. i - 1 \in 1..Len(toEdge') /\ toEdge'[i - 1] = toEdge[i]
    BY <1>1, <1>4, <2>1 DEF Queues
  <2> QED
    BY <1>1, <2>2 DEF Told, CloseFrame
<1> QED
  BY <1>2, <1>3, <1>4

\* An association that stays in byID stays known.
LEMMA KnownStays ==
  ASSUME Types, Queues, Tables, Gone, CloseRight, [Next]_vars,
         NEW id \in ID, id \in byID, id \in byID', Known(id)
  PROVE  Known(id)'
<1> USE DEF Known, Types, TableTypes, Locals
<1>1. CASE UNCHANGED <<toEdge, agents>>
  BY <1>1, ToldStays DEF agents
<1>2. CASE Read
  <2>1. CASE Refused \/ CountSession
    BY <1>1, <2>1 DEF Refused, CountSession
  <2>2. CASE MarkReady \/ Deliver \/ PeerClosed
    <3>1. toEdge # <<>> /\ toEdge' = Tail(toEdge) /\ UNCHANGED agents
      BY <2>2 DEF MarkReady, Deliver, PeerClosed, Incoming
    <3>2. Head(toEdge) # CloseFrame(id)
      BY <2>2 DEF MarkReady, Deliver, PeerClosed, Incoming, CloseFrame, RemoveAssoc, Delete
    <3>3. Told(id) => Told(id)'
      BY <3>1, <3>2, ToldStays
    <3> QED
      BY <3>1, <3>3 DEF agents
  <2> QED
    BY <1>2, <2>1, <2>2 DEF Read
<1>3. CASE AgentRefuses
  <2> DEFINE f == [type |-> "OpenAssocAck", id |-> Head(toAgent).id, ok |-> FALSE]
  <2>1. f \in Frame
    BY <1>3, Frames, QueueRead, FrameFields DEF Queues, AgentRefuses, AgentIncoming
  <2>2. lost' = TRUE \/ toEdge' = Append(toEdge, f)
    BY <1>3 DEF AgentRefuses, AgentWrote, AgentLost
  <2>3. Told(id) => Told(id)' \/ lost'
    BY <2>1, <2>2, ToldStays
  <2> QED
    BY <1>3, <2>3 DEF AgentRefuses, AgentWrote, AgentLost
<1>4. CASE AgentOpens
  <2>1. Head(toAgent).client \in Client /\ NoClient \notin Client
    BY <1>4, HubAssumption, QueueRead, FrameFields DEF Queues, AgentOpens, AgentIncoming
  <2>2. Told(id) => Told(id)'
    BY <1>4, ToldStays DEF AgentOpens
  <2>3. local[id] # NoClient => local'[id] # NoClient
    BY <1>4, <2>1 DEF AgentOpens
  <2>4. UNCHANGED <<notifying, lost>> /\ agent # "down"
    BY <1>4 DEF AgentOpens, AgentIncoming
  <2> QED
    BY <2>2, <2>3, <2>4
<1>5. CASE AgentAcks
  <2> DEFINE f == [type |-> "OpenAssocAck", id |-> opening, ok |-> TRUE]
  <2>1. f \in Frame
    BY <1>5, Frames DEF Working, AgentAcks
  <2>2. lost' = TRUE \/ toEdge' = Append(toEdge, f)
    BY <1>5 DEF AgentAcks, AgentWrote, AgentLost
  <2>3. Told(id) => Told(id)' \/ lost'
    BY <2>1, <2>2, ToldStays
  <2> QED
    BY <1>5, <2>3 DEF AgentAcks, AgentWrote, AgentLost
<1>6. CASE AgentForwards
  BY <1>1, <1>6 DEF AgentForwards
<1>7. CASE AgentToldToClose
  <2>1. Head(toAgent).id # id
    BY <1>7, QueueRead DEF AgentToldToClose, AgentIncoming, CloseRight, Queues
  <2>2. Told(id) => Told(id)'
    BY <1>7, ToldStays DEF AgentToldToClose
  <2> QED
    BY <1>7, <2>1, <2>2 DEF AgentToldToClose
<1>8. ASSUME NEW j \in ID, LocalRead(j) PROVE Known(id)'
  BY <1>8, ToldStays DEF LocalRead
<1>9. ASSUME NEW j \in ID, LocalDatagram(j) PROVE Known(id)'
  <2> DEFINE f == [type |-> "Datagram", id |-> j, client |-> held[j]]
  <2>1. f \in Frame
    BY <1>9, Frames DEF LocalDatagram
  <2>2. lost' = TRUE \/ (toEdge' = Append(toEdge, f) /\ UNCHANGED <<local, lost>>)
    BY <1>9 DEF LocalDatagram, AgentWrote, AgentLost
  <2>3. Told(id) => Told(id)' \/ lost'
    BY <2>1, <2>2, ToldStays
  <2> QED
    BY <1>9, <2>2, <2>3 DEF LocalDatagram
<1>10. ASSUME NEW j \in ID, AgentCloses(j) PROVE Known(id)'
  BY <1>10, ToldStays DEF AgentCloses
<1>11. ASSUME NEW j \in ID, AgentNotifies(j) PROVE Known(id)'
  <2> DEFINE f == CloseFrame(j)
  <2>1. f \in Frame
    BY Frames DEF CloseFrame
  <2>2. lost' = TRUE \/ (toEdge' = Append(toEdge, f) /\ UNCHANGED lost)
    BY <1>11 DEF AgentNotifies, AgentWrote, AgentLost, CloseFrame
  <2>3. Told(id) => Told(id)' \/ lost'
    BY <2>1, <2>2, ToldStays
  <2>4. toEdge' = Append(toEdge, f) => Told(j)'
    <3> SUFFICES ASSUME toEdge' = Append(toEdge, f) PROVE Told(j)'
      OBVIOUS
    <3>1. Len(toEdge) + 1 \in 1..Len(toEdge') /\ toEdge'[Len(toEdge) + 1] = f
      BY DEF Queues
    <3> QED
      BY <3>1 DEF Told, CloseFrame
  <2> QED
    BY <1>11, <2>2, <2>3, <2>4 DEF AgentNotifies
<1>12. CASE AgentEnds
  BY <1>12 DEF AgentEnds
<1>13. CASE Serve
  BY <1>1, <1>13 DEF Serve, PacketKnown, PacketNew, OpenAssocWritten,
     OpenAssocNotWritten, Released, TimerFires, OpenTimeout, Forward
<1>14. CASE Close
  BY <1>1, <1>14 DEF Close, HubClose, HubUncount
<1>15. ASSUME NEW r \in Remover, NEW j \in ID, Remove(r, j) PROVE Known(id)'
  BY <1>1, <1>15 DEF Remove
<1>16. ASSUME NEW p \in Proc, UncountSession(p) \/ Notify(p) PROVE Known(id)'
  BY <1>1, <1>16 DEF UncountSession, Notify
<1>17. CASE UNCHANGED vars
  BY <1>1, <1>17 DEF vars, agents
<1> QED
  BY <1>2, <1>3, <1>4, <1>5, <1>6, <1>7, <1>8, <1>9, <1>10, <1>11, <1>12, <1>13,
     <1>14, <1>15, <1>16, <1>17 DEF Next, AgentStep

\* The goroutines of the Edge.
LEMMA GoneStep ==
  ASSUME Types, Tables, Gone, [Next]_vars
  PROVE  Gone'
<1>0. /\ nextID \in Nat /\ nextID' \in Nat /\ nextID <= nextID'
      /\ \A id \in ID : id < nextID /\ id \in byID' => id \in byID
      /\ pc \in [Proc -> {"idle", "open", "wait", "timeout", "fail", "send",
                          "nack", "add", "sub", "notify"}]
      /\ on \in [Proc -> ID \cup {0}]
      /\ \A p \in Proc : pc[p] # "idle" => on[p] \in ID
  BY NeverBack, HubAssumption DEF Types, TableTypes, Working
<1>1. ASSUME UNCHANGED <<pc, on>> PROVE Gone'
  BY <1>0, HubAssumption, <1>1 DEF Gone, ID
<1>2. ASSUME NEW p \in Proc, NEW step, NEW id \in ID, Goto(p, step, id),
             step # "idle" => id < nextID',
             step \in {"sub", "notify"} => id \notin byID'
      PROVE  Gone'
  BY <1>0, HubAssumption, <1>2 DEF Gone, ID, Goto
<1>3. ASSUME NEW p \in Proc, Goto(p, "idle", 0) PROVE Gone'
  BY <1>0, HubAssumption, <1>3 DEF Gone, ID, Goto
<1>4. \A id \in byID : id \in ID /\ id < nextID
  BY DEF Types, TableTypes, Tables
<1>5. "serve" \in Proc /\ "read" \in Proc /\ \A r \in Remover : r \in Proc
  BY DEF Proc
<1>6. \A p \in Proc : pc[p] # "idle" => on[p] \in ID /\ on[p] < nextID'
  BY <1>0 DEF Gone, ID
<1>7. CASE Serve
  <2>1. ASSUME NEW k \in Client, PacketKnown(k) PROVE Gone'
    <3>1. byAddr[k] \in byID /\ Goto("serve", "send", byAddr[k]) /\ nextID' = nextID
      BY <2>1 DEF PacketKnown, Tables, assocs
    <3> QED
      BY <1>2, <1>4, <1>5, <3>1
  <2>2. ASSUME NEW k \in Client, PacketNew(k) PROVE Gone'
    <3>1. nextID \in ID /\ Goto("serve", "open", nextID) /\ nextID < nextID'
      BY <1>0, <2>2, HubAssumption DEF PacketNew, Types, TableTypes, ID
    <3> QED
      BY <1>2, <1>5, <3>1
  <2>3. CASE OpenAssocWritten
    BY <1>2, <1>5, <1>6, <2>3 DEF OpenAssocWritten
  <2>4. CASE OpenAssocNotWritten
    BY <1>3, <1>5, <2>4 DEF OpenAssocNotWritten
  <2>5. CASE Released
    BY <1>2, <1>5, <1>6, <2>5 DEF Released
  <2>6. CASE TimerFires
    BY <1>2, <1>5, <1>6, <2>6 DEF TimerFires
  <2>7. CASE OpenTimeout
    <3>1. on["serve"] \notin byID'
      BY <2>7 DEF OpenTimeout, FailAssoc, Delete
    <3> QED
      BY <1>2, <1>5, <1>6, <2>7, <3>1 DEF OpenTimeout
  <2>8. CASE Forward
    BY <1>3, <1>5, <2>8 DEF Forward
  <2> QED
    BY <1>7, <2>1, <2>2, <2>3, <2>4, <2>5, <2>6, <2>7, <2>8 DEF Serve
<1>8. CASE Read
  <2>1. CASE MarkReady
    <3>1. nextID' = nextID
      BY <2>1 DEF MarkReady, assocs
    <3>2. \/ UNCHANGED <<pc, on>>
          \/ \E id \in byID : Goto("read", "nack", id) \/ Goto("read", "add", id)
      BY <2>1 DEF MarkReady
    <3> QED
      BY <1>1, <1>2, <1>4, <1>5, <3>1, <3>2
  <2>2. CASE Refused \/ CountSession
    BY <1>3, <1>5, <2>2 DEF Refused, CountSession
  <2>3. CASE Deliver
    BY <1>1, <2>3 DEF Deliver
  <2>4. CASE PeerClosed
    <3>1. CASE UNCHANGED <<pc, on>>
      BY <1>1, <3>1
    <3>2. ASSUME NEW id \in byID, RemoveAssoc(id), Goto("read", "sub", id) PROVE Gone'
      BY <1>2, <1>4, <1>5, <3>2 DEF RemoveAssoc, Delete
    <3> QED
      BY <2>4, <3>1, <3>2 DEF PeerClosed
  <2> QED
    BY <1>8, <2>1, <2>2, <2>3, <2>4 DEF Read
<1>9. CASE Close
  BY <1>1, <1>9 DEF Close, HubClose, HubUncount
<1>10. CASE AgentStep
  BY <1>1, <1>10, AgentLeavesEdge
<1>11. ASSUME NEW r \in Remover, NEW id \in ID, Remove(r, id) PROVE Gone'
  <2>1. id \in byID /\ id \notin byID' /\ nextID' = nextID
    BY <1>11 DEF Remove, RemoveAssoc, Delete
  <2>2. \E step : Goto(r, step, id)
    BY <1>11 DEF Remove
  <2> QED
    BY <1>2, <1>4, <1>5, <2>1, <2>2
<1>12. ASSUME NEW p \in Proc, UncountSession(p) PROVE Gone'
  <2>1. on[p] \in ID /\ on[p] < nextID' /\ on[p] \notin byID'
    BY <1>6, <1>12 DEF UncountSession, assocs, Gone
  <2>2. \E step : Goto(p, step, on[p])
    BY <1>12 DEF UncountSession
  <2> QED
    BY <1>2, <2>1, <2>2
<1>13. ASSUME NEW p \in Proc, Notify(p) PROVE Gone'
  BY <1>3, <1>13 DEF Notify
<1>14. CASE UNCHANGED vars
  BY <1>1, <1>14 DEF vars
<1> QED
  BY <1>7, <1>8, <1>9, <1>10, <1>11, <1>12, <1>13, <1>14 DEF Next

\* The queue towards the agent.
LEMMA CloseStep ==
  ASSUME Types, Queues, Tables, Gone, CloseRight, [Next]_vars
  PROVE  CloseRight'
<1>0. /\ nextID \in Nat /\ nextID' \in Nat /\ nextID <= nextID'
      /\ \A id \in ID : id < nextID /\ id \in byID' => id \in byID
  BY NeverBack, HubAssumption DEF Types, TableTypes
<1>1. \A i \in 1..Len(toAgent) :
         toAgent[i].type = "CloseAssoc" =>
           toAgent[i].id < nextID' /\ toAgent[i].id \notin byID'
  <2>1. \A i \in 1..Len(toAgent) : toAgent[i].id \in ID
    BY FrameFields DEF Queues
  <2> QED
    BY <1>0, <2>1 DEF CloseRight, ID
<1>2. CASE toAgent' = toAgent
  BY <1>1, <1>2 DEF CloseRight
<1>3. CASE toAgent # <<>> /\ toAgent' = Tail(toAgent)
  BY <1>1, <1>3, QueueRead DEF CloseRight, Queues
<1>4. ASSUME NEW f \in Frame, toAgent' = Append(toAgent, f),
             f.type = "CloseAssoc" => f.id < nextID' /\ f.id \notin byID'
      PROVE  CloseRight'
  BY <1>1, <1>4, QueueWrite DEF CloseRight, Queues
<1>5. CASE Serve
  <2>1. CASE OpenAssocWritten
    <3> DEFINE f == [type |-> "OpenAssoc", id |-> on["serve"], client |-> clientOf[on["serve"]]]
    <3>1. f \in Frame
      BY <2>1, Frames DEF Types, TableTypes, Working, Tables, Proc, OpenAssocWritten
    <3>2. toAgent' = Append(toAgent, f) /\ f.type # "CloseAssoc"
      BY <2>1 DEF OpenAssocWritten, Wrote
    <3> QED
      BY <1>4, <3>1, <3>2
  <2>2. CASE Forward
    <3> DEFINE f == [type |-> "Datagram", id |-> on["serve"], client |-> clientOf[on["serve"]]]
    <3>1. f \in Frame
      BY <2>2, Frames DEF Types, TableTypes, Working, Tables, Proc, Forward
    <3>2. toAgent' = toAgent \/ (toAgent' = Append(toAgent, f) /\ f.type # "CloseAssoc")
      BY <2>2 DEF Forward, Wrote, NotWritten
    <3> QED
      BY <1>2, <1>4, <3>1, <3>2
  <2> QED
    BY <1>2, <1>5, <2>1, <2>2 DEF Serve, PacketKnown, PacketNew, OpenAssocNotWritten,
       NotWritten, Released, TimerFires, OpenTimeout
<1>6. CASE Read \/ Close
  BY <1>2, <1>6 DEF Read, Close, MarkReady, Refused, CountSession, Deliver, PeerClosed,
     HubClose, HubUncount
<1>7. CASE AgentStep
  BY <1>2, <1>3, <1>7 DEF AgentStep, AgentRefuses, AgentOpens, AgentAcks, AgentForwards,
     AgentToldToClose, LocalRead, LocalDatagram, AgentCloses, AgentNotifies, AgentEnds,
     AgentIncoming
<1>8. ASSUME NEW r \in Remover, NEW id \in ID, Remove(r, id) PROVE CloseRight'
  BY <1>2, <1>8 DEF Remove
<1>9. ASSUME NEW p \in Proc, UncountSession(p) PROVE CloseRight'
  BY <1>2, <1>9 DEF UncountSession
<1>10. ASSUME NEW p \in Proc, Notify(p) PROVE CloseRight'
  <2> DEFINE f == [type |-> "CloseAssoc", id |-> on[p]]
  <2>1. f \in Frame
    BY <1>10, Frames DEF Types, Working, Notify
  <2>2. toAgent' = toAgent \/ toAgent' = Append(toAgent, f)
    BY <1>10 DEF Notify, Wrote, NotWritten
  <2>3. on[p] < nextID' /\ on[p] \notin byID'
    BY <1>10 DEF Notify, assocs, Gone
  <2> QED
    BY <1>2, <1>4, <2>1, <2>2, <2>3
<1>11. CASE UNCHANGED vars
  BY <1>2, <1>11 DEF vars
<1> QED
  BY <1>5, <1>6, <1>7, <1>8, <1>9, <1>10, <1>11 DEF Next

\* The agent's end of an association that it has just opened.
LEMMA OpeningStep ==
  ASSUME Types, InFlight, Tables, OpeningKnown, [Next]_vars
  PROVE  OpeningKnown'
<1>0. nextID \in Nat /\ nextID' \in Nat /\ nextID <= nextID'
  BY NeverBack, HubAssumption DEF Types, TableTypes
<1>1. CASE UNCHANGED agents
  BY <1>0, <1>1 DEF OpeningKnown, agents, Locals, Types, Working, ID
<1>2. CASE AgentRefuses
  BY <1>2 DEF AgentRefuses, AgentIncoming, OpeningKnown
<1>3. CASE AgentOpens
  <2>1. Head(toAgent).id \in ID /\ Head(toAgent).client \in Client /\ NoClient \notin Client
    BY <1>3, QueueRead, FrameFields, HubAssumption DEF InFlight, Queues, AgentOpens, AgentIncoming
  <2>2. Head(toAgent).id < nextID /\ nextID' = nextID
    BY <1>3, QueueRead DEF InFlight, Queues, ToAgentRight, Right, AgentOpens, AgentIncoming,
       edge, assocs
  <2> QED
    BY <1>3, <2>1, <2>2 DEF AgentOpens, OpeningKnown, Locals, Types, TableTypes
<1>4. CASE AgentAcks
  BY <1>4 DEF AgentAcks, OpeningKnown
<1>5. CASE AgentForwards \/ AgentToldToClose \/ AgentEnds
  BY <1>5 DEF AgentForwards, AgentToldToClose, AgentEnds, AgentIncoming, OpeningKnown, agents
<1>6. ASSUME NEW j \in ID, LocalRead(j) PROVE OpeningKnown'
  BY <1>6 DEF LocalRead, OpeningKnown, Locals, edge, assocs
<1>7. ASSUME NEW j \in ID, LocalDatagram(j) PROVE OpeningKnown'
  BY <1>7 DEF LocalDatagram, AgentWrote, AgentLost, OpeningKnown, Locals, edge, assocs
<1>8. ASSUME NEW j \in ID, AgentCloses(j) PROVE OpeningKnown'
  BY <1>8 DEF AgentCloses, OpeningKnown, Locals, edge, assocs, Types, TableTypes
<1>9. ASSUME NEW j \in ID, AgentNotifies(j) PROVE OpeningKnown'
  BY <1>9 DEF AgentNotifies, AgentWrote, AgentLost, OpeningKnown, Locals, edge, assocs
<1>10. CASE Serve \/ Read \/ Close
  BY <1>1, <1>10 DEF Serve, PacketKnown, PacketNew, OpenAssocWritten, OpenAssocNotWritten,
     Released, TimerFires, OpenTimeout, Forward, Read, MarkReady, Refused, CountSession,
     Deliver, PeerClosed, Close, HubClose, HubUncount
<1>11. ASSUME NEW r \in Remover, NEW j \in ID, Remove(r, j) PROVE OpeningKnown'
  BY <1>1, <1>11 DEF Remove
<1>12. ASSUME NEW p \in Proc, UncountSession(p) \/ Notify(p) PROVE OpeningKnown'
  BY <1>1, <1>12 DEF UncountSession, Notify
<1>13. CASE UNCHANGED vars
  BY <1>1, <1>13 DEF vars, agents
<1> QED
  BY <1>2, <1>3, <1>4, <1>5, <1>6, <1>7, <1>8, <1>9, <1>10, <1>11, <1>12, <1>13
  DEF Next, AgentStep

\* The queue towards the Edge.
LEMMA AckStep ==
  ASSUME IInv, News, [Next]_vars
  PROVE  AckRight'
<1>0. /\ nextID \in Nat /\ nextID' \in Nat /\ nextID <= nextID'
      /\ \A id \in ID : id < nextID /\ id \in byID' => id \in byID
      /\ Types /\ Queues /\ Tables /\ Gone /\ CloseRight
  BY NeverBack, HubAssumption DEF IInv, Types, TableTypes, InFlight, News
<1>1. ASSUME NEW i \in 1..Len(toEdge), NEW id \in ID,
             toEdge[i].type = "OpenAssocAck", toEdge[i].id = id
      PROVE  /\ id < nextID'
             /\ toEdge[i].ok /\ id \in byID' => Known(id)'
  <2>1. id < nextID /\ (toEdge[i].ok /\ id \in byID => Known(id))
    BY <1>1 DEF News, AckRight
  <2>2. id < nextID'
    BY <1>0, <2>1, HubAssumption DEF ID
  <2>3. ASSUME toEdge[i].ok, id \in byID' PROVE Known(id)'
    <3>1. id \in byID /\ Known(id)
      BY <1>0, <2>1, <2>3
    <3> QED
      BY <1>0, <2>3, <3>1, KnownStays
  <2> QED
    BY <2>2, <2>3
<1>2. CASE toEdge' = toEdge
  BY <1>1, <1>2 DEF AckRight
<1>3. CASE toEdge # <<>> /\ toEdge' = Tail(toEdge)
  <2>1. \A i \in 1..Len(toEdge') : i + 1 \in 1..Len(toEdge) /\ toEdge'[i] = toEdge[i + 1]
    BY <1>0, <1>3, QueueRead DEF Queues
  <2> QED
    BY <1>1, <2>1 DEF AckRight
<1>4. ASSUME NEW f \in Frame, toEdge' = Append(toEdge, f),
             \A id \in ID : f.type = "OpenAssocAck" /\ f.id = id =>
                               id < nextID' /\ (f.ok => Known(id)')
      PROVE  AckRight'
  <2>1. \A i \in 1..Len(toEdge') :
           (i \in 1..Len(toEdge) /\ toEdge'[i] = toEdge[i]) \/ toEdge'[i] = f
    BY <1>0, <1>4, QueueWrite DEF Queues
  <2> QED
    BY <1>1, <1>4, <2>1 DEF AckRight
<1>5. CASE Read
  BY <1>2, <1>3, <1>5 DEF Read, MarkReady, Refused, CountSession, Deliver, PeerClosed, Incoming
<1>6. CASE AgentRefuses
  <2> DEFINE f == [type |-> "OpenAssocAck", id |-> Head(toAgent).id, ok |-> FALSE]
  <2>1. f \in Frame /\ f.id < nextID' /\ ~f.ok
    <3>1. Head(toAgent).id \in ID /\ Head(toAgent).id < nextID
      BY <1>6, QueueRead, FrameFields
      DEF IInv, InFlight, Queues, ToAgentRight, Right, AgentRefuses, AgentIncoming
    <3>2. f \in Frame
      BY <3>1, Frames
    <3>3. Head(toAgent).id < nextID'
      BY <1>0, <3>1, HubAssumption DEF ID
    <3> QED
      BY <3>2, <3>3
  <2>2. toEdge' = toEdge \/ toEdge' = Append(toEdge, f)
    BY <1>6 DEF AgentRefuses, AgentWrote, AgentLost
  <2> HIDE DEF f
  <2> QED
    BY <1>2, <1>4, <2>1, <2>2
<1>7. CASE AgentAcks
  <2> DEFINE f == [type |-> "OpenAssocAck", id |-> opening, ok |-> TRUE]
  <2>1. /\ f \in Frame /\ opening \in ID /\ opening < nextID
        /\ opening \in Locals \/ lost
    BY <1>7, Frames DEF IInv, Types, Working, News, OpeningKnown, AgentAcks
  <2>2. CASE toEdge' = toEdge
    BY <1>2, <2>2
  <2>3. CASE toEdge' = Append(toEdge, f) /\ UNCHANGED <<local, lost>>
    <3>1. Known(opening)
      BY <2>1 DEF Known
    <3>2. opening \in Locals' \/ lost'
      BY <2>1, <2>3 DEF Locals
    <3>3. f.id < nextID' /\ f.id = opening
      BY <1>0, <2>1, HubAssumption DEF ID
    <3>4. \A id : id = opening => Known(id)'
      BY <3>2 DEF Known
    <3> HIDE DEF f
    <3> QED
      BY <1>4, <2>1, <2>3, <3>3, <3>4
  <2> QED
    BY <1>7, <2>2, <2>3 DEF AgentAcks, AgentWrote, AgentLost
<1>8. ASSUME NEW j \in ID, LocalDatagram(j) PROVE AckRight'
  <2> DEFINE f == [type |-> "Datagram", id |-> j, client |-> held[j]]
  <2>1. f \in Frame /\ f.type # "OpenAssocAck"
    BY <1>8, Frames DEF LocalDatagram, IInv, Types, TableTypes
  <2>2. toEdge' = toEdge \/ toEdge' = Append(toEdge, f)
    BY <1>8 DEF LocalDatagram, AgentWrote, AgentLost
  <2> HIDE DEF f
  <2> QED
    BY <1>2, <1>4, <2>1, <2>2
<1>9. ASSUME NEW j \in ID, AgentNotifies(j) PROVE AckRight'
  <2> DEFINE f == [type |-> "CloseAssoc", id |-> j]
  <2>1. f \in Frame /\ f.type # "OpenAssocAck"
    BY Frames
  <2>2. toEdge' = toEdge \/ toEdge' = Append(toEdge, f)
    BY <1>9 DEF AgentNotifies, AgentWrote, AgentLost
  <2> HIDE DEF f
  <2> QED
    BY <1>2, <1>4, <2>1, <2>2
<1>10. CASE AgentOpens \/ AgentForwards \/ AgentToldToClose \/ AgentEnds
  BY <1>2, <1>10 DEF AgentOpens, AgentForwards, AgentToldToClose, AgentEnds
<1>11. ASSUME NEW j \in ID, LocalRead(j) \/ AgentCloses(j) PROVE AckRight'
  BY <1>2, <1>11 DEF LocalRead, AgentCloses
<1>12. CASE Serve \/ Close
  BY <1>2, <1>12 DEF Serve, PacketKnown, PacketNew, OpenAssocWritten, OpenAssocNotWritten,
     Released, TimerFires, OpenTimeout, Forward, Close, HubClose, HubUncount
<1>13. ASSUME NEW r \in Remover, NEW j \in ID, Remove(r, j) PROVE AckRight'
  BY <1>2, <1>13 DEF Remove
<1>14. ASSUME NEW p \in Proc, UncountSession(p) \/ Notify(p) PROVE AckRight'
  BY <1>2, <1>14 DEF UncountSession, Notify
<1>15. CASE UNCHANGED vars
  BY <1>2, <1>15 DEF vars
<1> QED
  BY <1>5, <1>6, <1>7, <1>8, <1>9, <1>10, <1>11, <1>12, <1>13, <1>14, <1>15
  DEF Next, AgentStep

\* Associations in use.
LEMMA LiveKnownStep ==
  ASSUME IInv, News, [Next]_vars
  PROVE  LiveKnown'
<1>0. Types /\ Queues /\ Tables /\ Gone /\ CloseRight
  BY DEF IInv, InFlight, News
<1> SUFFICES ASSUME NEW id \in Live' PROVE Known(id)'
  BY DEF LiveKnown
<1>1. id \in byID'
  BY DEF Live
<1>2. CASE id \in Live
  <2>1. id \in byID /\ id \in ID /\ Known(id)
    BY <1>0, <1>2 DEF Live, News, LiveKnown, Types, TableTypes
  <2> QED
    BY <1>0, <1>1, <2>1, KnownStays
<1>3. CASE Acked(id)
  <2>1. /\ toEdge # <<>> /\ Head(toEdge).type = "OpenAssocAck"
        /\ id = Head(toEdge).id /\ Head(toEdge).ok /\ id \in byID
    BY <1>3 DEF Acked, Incoming
  <2>2. 1 \in 1..Len(toEdge) /\ Head(toEdge) = toEdge[1]
    BY <1>0, <2>1, QueueRead DEF Queues
  <2>3. id \in ID
    BY <1>0, <2>1 DEF Types, TableTypes
  <2>4. Known(id)
    BY <2>1, <2>2, <2>3 DEF News, AckRight
  <2> QED
    BY <1>0, <1>1, <2>1, <2>3, <2>4, KnownStays
<1> QED
  BY <1>0, <1>2, <1>3, ComesIntoUse

LEMMA NewsStart == Init => News
<1> SUFFICES ASSUME Init PROVE News
  OBVIOUS
<1>1. Len(toAgent) = 0 /\ Len(toEdge) = 0 /\ Live = {}
  BY DEF Init, Live
<1>2. CloseRight /\ AckRight /\ LiveKnown
  BY <1>1 DEF CloseRight, AckRight, LiveKnown
<1>3. Gone /\ OpeningKnown
  BY DEF Init, Gone, OpeningKnown
<1> QED
  BY <1>2, <1>3 DEF News

\* Every association that the Edge uses exists at the agent, or the CloseAssoc
\* of closeAssoc is written or about to be, unless a write of the agent failed.
THEOREM NoneStranded == Spec => []ReadyNotStranded
<1>1. IInv /\ News /\ [Next]_vars => News'
  BY GoneStep, CloseStep, OpeningStep, AckStep, LiveKnownStep DEF IInv, InFlight, News
<1>2. News => ReadyNotStranded
  BY DEF News, LiveKnown, Known, Told, CloseFrame, ReadyNotStranded
<1> QED
  BY Invariance, NewsStart, <1>1, <1>2, PTL DEF Spec
=============================================================================
