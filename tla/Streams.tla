-------------------------------- MODULE Streams --------------------------------
(***************************************************************************)
(* Relayed TCP and HTTP sessions: the handlers of the Edge behind the      *)
(* admission check (handlePublic, spliceHTTP, http1Handler) with the       *)
(* semaphore of max_sessions and the session gauge, the opening of a data  *)
(* stream (OpenData, AcceptData, AckData), the accept loop of the agent    *)
(* and its handler per stream (handleStream).                              *)
(*                                                                         *)
(* The bytes relayed are left out: an end of a relay may stop at any time  *)
(* (peer closed, idle, evicted) and must stop when its stream is closed by *)
(* the other end or lost with its session.  Streams are recycled once both *)
(* ends are done with them.  Agent sessions come and go as in module       *)
(* AgentSession.                                                           *)
(***************************************************************************)
EXTENDS Naturals, FiniteSets

CONSTANTS
  Splice,       \* handlers that relay a connection: TCP, HTTP/2, TLS passthrough
  Http1,        \* handlers that proxy HTTP/1 requests
  Stream,       \* yamux streams that can exist at a time
  Sessions,     \* agent sessions that will ever be: a bound for TLC
  MaxSessions   \* max_sessions, the capacity of Server.sem

None == "none"

\* Agent sessions in the order in which setSession installs them; 0 is nil.
Session == 1..Sessions

ASSUME StreamsAssumption ==
  /\ MaxSessions \in Nat \ {0}
  /\ Sessions \in Nat
  /\ Splice \cap Http1 = {}
  /\ None \notin Splice \cup Http1 \cup Stream
  /\ IsFiniteSet(Splice) /\ IsFiniteSet(Http1)

Handler == Splice \cup Http1

VARIABLES
  pc,      \* pc[c]: where handler c stands
  mine,    \* mine[c]: the session getSession gave it
  sem,     \* slots of Server.sem in use
  gauge,   \* Registry.activeSessions, as far as these handlers change it
  cur,     \* Server.sess
  up,      \* sessions that are not closed
  born,    \* the last session so far
  accept,  \* accept[g]: the stream AcceptData reads OpenStream from
  user,    \* user[s]: the handler that waits for or uses stream s
  on,      \* on[s]: the session of stream s
  edge,    \* edge[s]: the Edge's end of s (OpenData)
  sent,    \* streams whose OpenStream frame was written
  ack,     \* ack[s]: the OpenStreamAck on s
  agent    \* agent[s]: the agent's end of s

handlers == <<pc, mine, sem, gauge>>
sessions == <<cur, up, born>>
vars == <<pc, mine, sem, gauge, cur, up, born, accept, user, on, edge, sent, ack, agent>>

HandlerStep == {"idle", "slot", "session", "count", "dial", "relay", "uncount", "release"}
EdgeStep == {"free", "write", "await", "open", "closed"}
AgentStep == {"none", "queued", "read", "dial", "ack", "relay", "done"}

TypeOK ==
  /\ pc \in [Handler -> HandlerStep]
  /\ mine \in [Handler -> 0..Sessions]
  /\ sem \in 0..MaxSessions
  /\ gauge \in Nat
  /\ cur \in 0..Sessions
  /\ up \in SUBSET Session
  /\ born \in 0..Sessions
  /\ accept \in [Session -> Stream \cup {None}]
  /\ user \in [Stream -> Handler \cup {None}]
  /\ on \in [Stream -> 0..Sessions]
  /\ edge \in [Stream -> EdgeStep]
  /\ sent \in SUBSET Stream
  /\ ack \in [Stream -> {"none", "ok", "refused"}]
  /\ agent \in [Stream -> AgentStep]

Init ==
  /\ pc = [c \in Handler |-> "idle"]
  /\ mine = [c \in Handler |-> 0]
  /\ sem = 0
  /\ gauge = 0
  /\ cur = 0
  /\ up = {}
  /\ born = 0
  /\ accept = [g \in Session |-> None]
  /\ user = [s \in Stream |-> None]
  /\ on = [s \in Stream |-> 0]
  /\ edge = [s \in Stream |-> "free"]
  /\ sent = {}
  /\ ack = [s \in Stream |-> "none"]
  /\ agent = [s \in Stream |-> "none"]

-----------------------------------------------------------------------------
\* The handlers of the Edge.

Goto(c, step) == pc' = [pc EXCEPT ![c] = step]

\* Where a handler goes on when it got no stream: only an HTTP/1 request was
\* counted by then.
Failed(c) == IF c \in Http1 THEN "uncount" ELSE "release"

\* A connection was admitted and routed, or a request came on one.
Arrive(c) ==
  /\ pc[c] = "idle"
  /\ Goto(c, "slot")
  /\ UNCHANGED <<mine, sem, gauge, sessions, accept, user, on, edge, sent, ack, agent>>

TakeSlot(c) ==
  /\ pc[c] = "slot"
  /\ sem < MaxSessions
  /\ sem' = sem + 1
  /\ Goto(c, "session")
  /\ UNCHANGED <<mine, gauge, sessions, accept, user, on, edge, sent, ack, agent>>

\* "max sessions reached".
NoSlot(c) ==
  /\ pc[c] = "slot"
  /\ sem = MaxSessions
  /\ Goto(c, "idle")
  /\ UNCHANGED <<mine, sem, gauge, sessions, accept, user, on, edge, sent, ack, agent>>

GetSession(c) ==
  /\ pc[c] = "session"
  /\ cur \in up
  /\ mine' = [mine EXCEPT ![c] = cur]
  /\ Goto(c, IF c \in Http1 THEN "count" ELSE "dial")
  /\ UNCHANGED <<sem, gauge, sessions, accept, user, on, edge, sent, ack, agent>>

\* Mutant: the early return keeps the slot.
NoAgentKeepingSlot(c) ==
  /\ pc[c] = "session"
  /\ cur \notin up
  /\ Goto(c, "idle")
  /\ UNCHANGED <<mine, sem, gauge, sessions, accept, user, on, edge, sent, ack, agent>>

\* "no agent connected".
NoAgent(c) ==
  /\ pc[c] = "session"
  /\ cur \notin up
  /\ Goto(c, "release")
  /\ UNCHANGED <<mine, sem, gauge, sessions, accept, user, on, edge, sent, ack, agent>>

\* AddSessions(1): before the stream is opened for an HTTP/1 request, after it
\* for a relayed connection.
Count(c) ==
  /\ pc[c] = "count"
  /\ gauge' = gauge + 1
  /\ Goto(c, IF c \in Http1 THEN "dial" ELSE "relay")
  /\ UNCHANGED <<mine, sem, sessions, accept, user, on, edge, sent, ack, agent>>

\* Mutant: the stream stays open.
RelayEndsKeepingStream(c, s) ==
  /\ pc[c] = "relay" /\ user[s] = c
  /\ user' = [user EXCEPT ![s] = None]
  /\ Goto(c, "uncount")
  /\ UNCHANGED <<mine, sem, gauge, sessions, accept, on, edge, sent, ack, agent>>

\* Relay returns, or the response is complete: client and stream are closed.
RelayEnds(c, s) ==
  /\ pc[c] = "relay" /\ user[s] = c
  /\ edge' = [edge EXCEPT ![s] = "closed"]
  /\ user' = [user EXCEPT ![s] = None]
  /\ Goto(c, "uncount")
  /\ UNCHANGED <<mine, sem, gauge, sessions, accept, on, sent, ack, agent>>

\* AddSessions(-1).
Uncount(c) ==
  /\ pc[c] = "uncount"
  /\ gauge' = IF gauge > 0 THEN gauge - 1 ELSE 0
  /\ Goto(c, "release")
  /\ UNCHANGED <<mine, sem, sessions, accept, user, on, edge, sent, ack, agent>>

\* Mutant: the slot is given back twice.
ReleaseTwice(c) ==
  /\ pc[c] = "release"
  /\ sem' = sem - 2
  /\ mine' = [mine EXCEPT ![c] = 0]
  /\ Goto(c, "idle")
  /\ UNCHANGED <<gauge, sessions, accept, user, on, edge, sent, ack, agent>>

Release(c) ==
  /\ pc[c] = "release"
  /\ sem' = sem - 1
  /\ mine' = [mine EXCEPT ![c] = 0]
  /\ Goto(c, "idle")
  /\ UNCHANGED <<gauge, sessions, accept, user, on, edge, sent, ack, agent>>

-----------------------------------------------------------------------------
\* OpenData.

Dialling(c) == pc[c] = "dial" /\ \A s \in Stream : user[s] # c

\* mux.Open: the agent learns of the stream before there is a frame on it.
Open(c, s) ==
  /\ Dialling(c)
  /\ mine[c] \in up
  /\ edge[s] = "free"
  /\ edge' = [edge EXCEPT ![s] = "write"]
  /\ user' = [user EXCEPT ![s] = c]
  /\ on' = [on EXCEPT ![s] = mine[c]]
  /\ agent' = [agent EXCEPT ![s] = "queued"]
  /\ UNCHANGED <<handlers, sessions, accept, sent, ack>>

\* mux.Open fails: the session was closed since getSession.
NotOpened(c) ==
  /\ Dialling(c)
  /\ mine[c] \notin up
  /\ Goto(c, Failed(c))
  /\ UNCHANGED <<mine, sem, gauge, sessions, accept, user, on, edge, sent, ack, agent>>

WriteOpenStream(s) ==
  /\ edge[s] = "write"
  /\ on[s] \in up
  /\ sent' = sent \cup {s}
  /\ edge' = [edge EXCEPT ![s] = "await"]
  /\ UNCHANGED <<handlers, sessions, accept, user, on, ack, agent>>

\* Mutant: any ack will do.
OpenedByAnyAck(s) ==
  /\ edge[s] = "await" /\ ack[s] # "none"
  /\ user[s] # None
  /\ edge' = [edge EXCEPT ![s] = "open"]
  /\ Goto(user[s], IF user[s] \in Http1 THEN "relay" ELSE "count")
  /\ UNCHANGED <<mine, sem, gauge, sessions, accept, user, on, sent, ack, agent>>

\* The stream goes to the handler that waits for it.
Opened(s) ==
  /\ edge[s] = "await" /\ ack[s] = "ok"
  /\ user[s] # None
  /\ edge' = [edge EXCEPT ![s] = "open"]
  /\ Goto(user[s], IF user[s] \in Http1 THEN "relay" ELSE "count")
  /\ UNCHANGED <<mine, sem, gauge, sessions, accept, user, on, sent, ack, agent>>

\* The client of an HTTP/1 request is gone: the proxy gives up.  A dial that has
\* begun goes on, because DialContext does not look at its context ...
Abandon(c) ==
  /\ c \in Http1
  /\ pc[c] = "dial"
  /\ user' = [s \in Stream |-> IF user[s] = c THEN None ELSE user[s]]
  /\ Goto(c, "uncount")
  /\ UNCHANGED <<mine, sem, gauge, sessions, accept, on, edge, sent, ack, agent>>

\* ... and the transport closes what it yields.
OpenedForNobody(s) ==
  /\ edge[s] = "await" /\ ack[s] = "ok"
  /\ user[s] = None
  /\ edge' = [edge EXCEPT ![s] = "closed"]
  /\ UNCHANGED <<handlers, sessions, accept, user, on, sent, ack, agent>>

\* Mutant: without the deadline, and blind to the end of the session.
OpenFailsIfRefused(s) ==
  /\ edge[s] \in {"write", "await"} /\ ack[s] = "refused"
  /\ edge' = [edge EXCEPT ![s] = "closed"]
  /\ user' = [user EXCEPT ![s] = None]
  /\ pc' = [c \in Handler |-> IF c = user[s] THEN Failed(c) ELSE pc[c]]
  /\ UNCHANGED <<mine, sem, gauge, sessions, accept, on, sent, ack, agent>>

\* A refusal, an error or the deadline, which may pass at any time: the stream
\* is closed, with or without a frame on it.
OpenFails(s) ==
  /\ edge[s] \in {"write", "await"}
  /\ edge' = [edge EXCEPT ![s] = "closed"]
  /\ user' = [user EXCEPT ![s] = None]
  /\ pc' = [c \in Handler |-> IF c = user[s] THEN Failed(c) ELSE pc[c]]
  /\ UNCHANGED <<mine, sem, gauge, sessions, accept, on, sent, ack, agent>>

-----------------------------------------------------------------------------
\* Sessions and the accept loop of the agent.

\* setSession.
NewSession ==
  /\ born < Sessions
  /\ born' = born + 1
  /\ up' = up \cup {born + 1}
  /\ cur' = born + 1
  /\ UNCHANGED <<handlers, accept, user, on, edge, sent, ack, agent>>

\* The session is closed at both ends: streams nobody handles yet are lost.
Down(g) ==
  /\ up' = up \ {g}
  /\ cur' = IF cur = g THEN 0 ELSE cur
  /\ accept' = [accept EXCEPT ![g] = None]
  /\ agent' = [s \in Stream |-> IF on[s] = g /\ agent[s] \in {"queued", "read"}
                                THEN "done" ELSE agent[s]]
  /\ UNCHANGED <<handlers, born, user, on, edge, sent, ack>>

\* It was replaced, or the connection failed.
SessionEnds(g) == g \in up /\ Down(g)

\* AcceptData takes one stream at a time.
AcceptData(g, s) ==
  /\ g \in up /\ accept[g] = None
  /\ on[s] = g /\ agent[s] = "queued"
  /\ accept' = [accept EXCEPT ![g] = s]
  /\ agent' = [agent EXCEPT ![s] = "read"]
  /\ UNCHANGED <<handlers, sessions, user, on, edge, sent, ack>>

AcceptRead(g) ==
  /\ g \in up /\ accept[g] \in sent
  /\ agent' = [agent EXCEPT ![accept[g]] = "dial"]
  /\ accept' = [accept EXCEPT ![g] = None]
  /\ UNCHANGED <<handlers, sessions, user, on, edge, sent, ack>>

\* The stream was closed without a frame, or none arrived within the deadline,
\* though it may be on its way: acceptLoop returns and connectOnce closes the
\* whole session.
AcceptFails(g) == g \in up /\ accept[g] # None /\ Down(g)

-----------------------------------------------------------------------------
\* handleStream.

\* Unknown tunnel, target not permitted, or the local dial failed: refused, if
\* the frame gets through.
Refuse(s) ==
  /\ agent[s] = "dial"
  /\ agent' = [agent EXCEPT ![s] = "done"]
  /\ \/ on[s] \in up /\ ack' = [ack EXCEPT ![s] = "refused"]
     \/ UNCHANGED ack
  /\ UNCHANGED <<handlers, sessions, accept, user, on, edge, sent>>

DialLocal(s) ==
  /\ agent[s] = "dial"
  /\ agent' = [agent EXCEPT ![s] = "ack"]
  /\ UNCHANGED <<handlers, sessions, accept, user, on, edge, sent, ack>>

AckData(s) ==
  /\ agent[s] = "ack"
  /\ \/ /\ on[s] \in up
        /\ ack' = [ack EXCEPT ![s] = "ok"]
        /\ agent' = [agent EXCEPT ![s] = "relay"]
     \/ agent' = [agent EXCEPT ![s] = "done"] /\ UNCHANGED ack
  /\ UNCHANGED <<handlers, sessions, accept, user, on, edge, sent>>

AgentRelayEnds(s) ==
  /\ agent[s] = "relay"
  /\ agent' = [agent EXCEPT ![s] = "done"]
  /\ UNCHANGED <<handlers, sessions, accept, user, on, edge, sent, ack>>

\* Both ends are closed.
Recycle(s) ==
  /\ edge[s] = "closed" /\ agent[s] = "done"
  /\ edge' = [edge EXCEPT ![s] = "free"]
  /\ agent' = [agent EXCEPT ![s] = "none"]
  /\ on' = [on EXCEPT ![s] = 0]
  /\ ack' = [ack EXCEPT ![s] = "none"]
  /\ sent' = sent \ {s}
  /\ UNCHANGED <<handlers, sessions, accept, user>>

-----------------------------------------------------------------------------
HandlerSteps(c) ==
  \/ TakeSlot(c) \/ NoSlot(c) \/ GetSession(c) \/ NoAgent(c)
  \/ Count(c) \/ Uncount(c) \/ Release(c) \/ NotOpened(c)

OpenSteps(s) ==
  WriteOpenStream(s) \/ Opened(s) \/ OpenedForNobody(s) \/ OpenFails(s)

AgentSteps(s) == Refuse(s) \/ DialLocal(s) \/ AckData(s)

Next ==
  \/ \E c \in Handler : Arrive(c) \/ HandlerSteps(c) \/ Abandon(c)
  \/ \E c \in Handler, s \in Stream : Open(c, s) \/ RelayEnds(c, s)
  \/ \E s \in Stream : OpenSteps(s) \/ AgentSteps(s) \/ AgentRelayEnds(s) \/ Recycle(s)
  \/ NewSession
  \/ \E g \in Session : SessionEnds(g) \/ AcceptRead(g) \/ AcceptFails(g)
  \/ \E g \in Session, s \in Stream : AcceptData(g, s)

Spec == Init /\ [][Next]_vars

\* Goroutines run, deadlines expire, closed streams are forgotten, and a relay
\* ends when the other end of its stream is closed or the session is lost.  A pipe
\* writes without a deadline, so this takes clients and local services to read
\* what they are sent, or an idle_timeout.  Nothing makes clients, local
\* services or sessions come or go.
Fairness ==
  /\ \A c \in Handler : WF_vars(HandlerSteps(c) \/ \E s \in Stream : Open(c, s))
  /\ \A s \in Stream :
       /\ WF_vars(OpenSteps(s))
       /\ WF_vars(AgentSteps(s))
       /\ WF_vars(Recycle(s))
       /\ WF_vars((edge[s] = "closed" \/ on[s] \notin up) /\ AgentRelayEnds(s))
       /\ WF_vars(\E c \in Handler :
            (agent[s] = "done" \/ on[s] \notin up) /\ RelayEnds(c, s))
  /\ \A g \in Session :
       /\ WF_vars(AcceptRead(g) \/ AcceptFails(g))
       /\ WF_vars(\E s \in Stream : AcceptData(g, s))

FairSpec == Spec /\ Fairness

-----------------------------------------------------------------------------
\* Properties.

HoldsSlot == {c \in Handler : pc[c] \notin {"idle", "slot"}}

Counted ==
  {c \in Handler : \/ pc[c] \in {"relay", "uncount"}
                   \/ c \in Http1 /\ pc[c] = "dial"}

\* Whatever way a session ends (no agent, refusal, timeout, lost agent,
\* abandoned request), its slot of max_sessions and its unit of the session
\* gauge are given back, once.
Accounting == sem = Cardinality(HoldsSlot) /\ gauge = Cardinality(Counted)

\* The Edge never relays on a stream whose agent end was not set up: when
\* OpenData hands a stream to a handler, the agent accepted it and has connected
\* the local service, although it may have ended since.
RelayPaired ==
  \A s \in Stream :
    edge[s] = "open" => ack[s] = "ok" /\ agent[s] \in {"relay", "done"}

\* No half-open session stays at the agent: once no handler of the Edge wants
\* the stream any more (the open timed out while the agent was dialling, the
\* request was abandoned, the relay ended) the agent's handler ends.
OrphanEnds ==
  \A s \in Stream :
    (agent[s] \in {"dial", "ack", "relay"} /\ user[s] = None)
      ~> agent[s] \notin {"dial", "ack", "relay"}

\* No handler waits for ever for a stream, and one that relays on a session
\* which is lost returns: its slot becomes free.
HandlerFreed ==
  \A c \in Handler :
    /\ (pc[c] \notin {"idle", "relay"}) ~> (pc[c] \in {"idle", "relay"})
    /\ (pc[c] = "relay" /\ mine[c] \notin up) ~> (pc[c] = "idle")
=============================================================================
