----------------------------- MODULE AgentSession -----------------------------
(***************************************************************************)
(* The life of the one agent session of an Edge: handleAgent, setSession   *)
(* with its watcher and its asynchronous close of the replaced session,    *)
(* getSession as the UDP listener uses it, Shutdown, and the connect loop  *)
(* of the agents (internal/edge/server.go, internal/agent/client.go).      *)
(*                                                                         *)
(* A connection c carries a TLS connection, the handler goroutine that     *)
(* serves it at the Edge, its yamux session and the watcher goroutine of   *)
(* that session.  Every lock region, every write of a gauge and every wait *)
(* is a step of its own.  Connections are recycled once nobody refers to   *)
(* them any more, so agents may reconnect for ever.                        *)
(***************************************************************************)
EXTENDS Naturals, FiniteSets

CONSTANTS
  Conn,      \* connections that can exist at a time
  Agent,     \* agent processes that hold the tunnel token
  MaxDrops   \* how many faults of the network or of agents may happen

None == "none"

ASSUME SessionAssumption ==
  /\ MaxDrops \in Nat
  /\ None \notin Conn \cup Agent

VARIABLES
  owner,     \* owner[c]: the agent that dialled c
  edge,      \* edge[c]: where handleAgent(c) stands
  closed,    \* closed[c]: the Edge's yamux session on c is closed
  remote,    \* remote[c]: the agent's end of c (connectOnce)
  watcher,   \* watcher[c]: the session-watch goroutine
  closing,   \* sessions with a close-old-session goroutine under way
  sess,      \* Server.sess
  gauge,     \* Registry.agentConnected
  hub,       \* session the (one) UDP hub in Server.udpHubs runs on
  opening,   \* session getOrOpenUDPHub opens a stream on, holding udpMu
  stopping,  \* where Shutdown stands
  victim,    \* the session Shutdown took and closes
  drops      \* faults so far

conns == <<owner, edge, closed, remote, watcher, closing>>
udp == <<hub, opening>>
stop == <<stopping, victim>>
vars == <<owner, edge, closed, remote, watcher, closing, sess, gauge, hub,
          opening, stopping, victim, drops>>

EdgeStep == {"free", "handshake", "control", "hubs", "swap", "gauge", "live", "done"}
RemoteStep == {"idle", "handshake", "stalled", "open", "down"}
WatchStep == {"none", "wait", "hubs", "gauge"}
StopStep == {"run", "hubs", "take", "close", "gauge", "drain", "stopped"}

TypeOK ==
  /\ owner \in [Conn -> Agent \cup {None}]
  /\ edge \in [Conn -> EdgeStep]
  /\ closed \in [Conn -> BOOLEAN]
  /\ remote \in [Conn -> RemoteStep]
  /\ watcher \in [Conn -> WatchStep]
  /\ closing \in SUBSET Conn
  /\ sess \in Conn \cup {None}
  /\ gauge \in BOOLEAN
  /\ hub \in Conn \cup {None}
  /\ opening \in Conn \cup {None}
  /\ stopping \in StopStep
  /\ victim \in Conn \cup {None}
  /\ drops \in 0..MaxDrops

Init ==
  /\ owner = [c \in Conn |-> None]
  /\ edge = [c \in Conn |-> "free"]
  /\ closed = [c \in Conn |-> FALSE]
  /\ remote = [c \in Conn |-> "idle"]
  /\ watcher = [c \in Conn |-> "none"]
  /\ closing = {}
  /\ sess = None
  /\ gauge = FALSE
  /\ hub = None
  /\ opening = None
  /\ stopping = "run"
  /\ victim = None
  /\ drops = 0

-----------------------------------------------------------------------------
\* The agent: Run calls connectOnce for ever, with a wait in between.

Connected(a) == \E c \in Conn : owner[c] = a /\ remote[c] # "down"

\* Dialling reaches the listener until Shutdown closes it (closeListeners
\* runs after closeUDPHubs and before the session is taken).
Dial(a, c) ==
  /\ ~Connected(a)
  /\ edge[c] = "free"
  /\ stopping \in {"run", "hubs"}
  /\ owner' = [owner EXCEPT ![c] = a]
  /\ edge' = [edge EXCEPT ![c] = "handshake"]
  /\ remote' = [remote EXCEPT ![c] = "handshake"]
  /\ UNCHANGED <<closed, watcher, closing, sess, gauge, udp, stop, drops>>

\* ClientHandshake read the AuthResponse the Edge wrote; the yamux client is
\* up and the control stream is open.
OpenControl(c) ==
  /\ remote[c] = "handshake"
  /\ edge[c] \notin {"free", "handshake"}
  /\ remote' = [remote EXCEPT ![c] = "open"]
  /\ UNCHANGED <<owner, edge, closed, watcher, closing, sess, gauge, udp, stop, drops>>

\* The other end is gone: the handshake or the accept loop fails, connectOnce
\* closes the session and the connection and returns; Run will dial again.
RemoteEnds(c) ==
  /\ remote[c] \in {"handshake", "stalled", "open"}
  /\ closed[c] \/ edge[c] = "done"
  /\ remote' = [remote EXCEPT ![c] = "down"]
  /\ UNCHANGED <<owner, edge, closed, watcher, closing, sess, gauge, udp, stop, drops>>

-----------------------------------------------------------------------------
\* Faults.

\* The agent's end breaks first: a crash, a lost network, or an AcceptData
\* that fails and ends the accept loop.
BreakRemote(c) ==
  /\ remote[c] \in {"handshake", "open"}
  /\ drops < MaxDrops
  /\ drops' = drops + 1
  /\ remote' = [remote EXCEPT ![c] = "down"]
  /\ UNCHANGED <<owner, edge, closed, watcher, closing, sess, gauge, udp, stop>>

\* The agent hangs after dialling: it sends nothing more and opens no stream.
Stall(c) ==
  /\ remote[c] = "handshake"
  /\ drops < MaxDrops
  /\ drops' = drops + 1
  /\ remote' = [remote EXCEPT ![c] = "stalled"]
  /\ UNCHANGED <<owner, edge, closed, watcher, closing, sess, gauge, udp, stop>>

HasSession(c) == edge[c] \notin {"free", "handshake", "done"}

\* The Edge's end breaks first: a read or write error, or no TCP keepalive answer.
BreakSession(c) ==
  /\ HasSession(c) /\ ~closed[c]
  /\ drops < MaxDrops
  /\ drops' = drops + 1
  /\ closed' = [closed EXCEPT ![c] = TRUE]
  /\ UNCHANGED <<owner, edge, remote, watcher, closing, sess, gauge, udp, stop>>

\* yamux at the Edge notices (EOF, reset, TCP keepalive) that the agent's end is gone.
SessionNotices(c) ==
  /\ HasSession(c) /\ ~closed[c]
  /\ remote[c] = "down"
  /\ closed' = [closed EXCEPT ![c] = TRUE]
  /\ UNCHANGED <<owner, edge, remote, watcher, closing, sess, gauge, udp, stop, drops>>

-----------------------------------------------------------------------------
\* handleAgent.

Goto(c, step) == edge' = [edge EXCEPT ![c] = step]

\* TLS handshake and ServerHandshake succeed, the yamux session exists and the
\* ten second timer of the control stream runs.  (Wrong tokens and probes are
\* in module Admission.)
HandshakeOK(c) ==
  /\ edge[c] = "handshake"
  /\ remote[c] # "stalled"
  /\ Goto(c, "control")
  /\ UNCHANGED <<owner, closed, remote, watcher, closing, sess, gauge, udp, stop, drops>>

\* The agent's end broke, or the handshake deadline passed.
HandshakeFails(c) ==
  /\ edge[c] = "handshake"
  /\ remote[c] \in {"down", "stalled"}
  /\ Goto(c, "done")
  /\ UNCHANGED <<owner, closed, remote, watcher, closing, sess, gauge, udp, stop, drops>>

\* time.AfterFunc closes the session: the agent hangs, or is too slow, which
\* counts as a fault.  timer.Stop() does not wait for it, so the Accept that it
\* races may still succeed.
ControlTimer(c) ==
  /\ edge[c] = "control" /\ ~closed[c]
  /\ \/ remote[c] = "stalled" /\ UNCHANGED drops
     \/ remote[c] \in {"handshake", "open"} /\ drops < MaxDrops /\ drops' = drops + 1
  /\ closed' = [closed EXCEPT ![c] = TRUE]
  /\ UNCHANGED <<owner, edge, remote, watcher, closing, sess, gauge, udp, stop>>

AcceptControl(c) ==
  /\ edge[c] = "control"
  /\ remote[c] = "open"
  /\ Goto(c, "hubs")
  /\ UNCHANGED <<owner, closed, remote, watcher, closing, sess, gauge, udp, stop, drops>>

AcceptControlFails(c) ==
  /\ edge[c] = "control" /\ closed[c]
  /\ Goto(c, "done")
  /\ UNCHANGED <<owner, closed, remote, watcher, closing, sess, gauge, udp, stop, drops>>

\* closeUDPHubs needs udpMu, which getOrOpenUDPHub holds while it opens.
CloseUDPHubs == opening = None /\ hub' = None /\ UNCHANGED opening

\* setSession, first: the hubs of whatever session there is are closed.
SetSessionHubs(c) ==
  /\ edge[c] = "hubs"
  /\ CloseUDPHubs
  /\ Goto(c, "swap")
  /\ UNCHANGED <<owner, closed, remote, watcher, closing, sess, gauge, stop, drops>>

\* Mutant: the replaced session is not closed.
SetSessionSwapOnly(c) ==
  /\ edge[c] = "swap"
  /\ sess' = c
  /\ Goto(c, "gauge")
  /\ UNCHANGED <<owner, closed, remote, watcher, closing, gauge, udp, stop, drops>>

\* Mutant: no check whether there was an old session.
SetSessionCloseNil(c) ==
  /\ edge[c] = "swap"
  /\ closing' = closing \cup {sess}
  /\ sess' = c
  /\ Goto(c, "gauge")
  /\ UNCHANGED <<owner, closed, remote, watcher, gauge, udp, stop, drops>>

\* setSession, under mu: the new session replaces the old one, which a
\* goroutine of its own closes.
SetSessionSwap(c) ==
  /\ edge[c] = "swap"
  /\ closing' = closing \cup ({sess} \ {None})
  /\ sess' = c
  /\ Goto(c, "gauge")
  /\ UNCHANGED <<owner, closed, remote, watcher, gauge, udp, stop, drops>>

\* setSession, last: the gauge is set and the watcher started.
SetSessionGauge(c) ==
  /\ edge[c] = "gauge"
  /\ gauge' = TRUE
  /\ watcher' = [watcher EXCEPT ![c] = "wait"]
  /\ Goto(c, "live")
  /\ UNCHANGED <<owner, closed, remote, closing, sess, udp, stop, drops>>

\* <-sess.CloseChan(): the handler returns and closes session and connection.
HandlerEnds(c) ==
  /\ edge[c] = "live" /\ closed[c]
  /\ Goto(c, "done")
  /\ UNCHANGED <<owner, closed, remote, watcher, closing, sess, gauge, udp, stop, drops>>

\* The close-old-session goroutine.
CloseOld(c) ==
  /\ c \in closing
  /\ closing' = closing \ {c}
  /\ closed' = [closed EXCEPT ![c] = TRUE]
  /\ UNCHANGED <<owner, edge, remote, watcher, sess, gauge, udp, stop, drops>>

-----------------------------------------------------------------------------
\* The session-watch goroutine.

\* Mutant: the watcher clears Server.sess whichever session it is.
WatchClosedAny(c) ==
  /\ watcher[c] = "wait" /\ closed[c]
  /\ sess' = None
  /\ watcher' = [watcher EXCEPT ![c] = "hubs"]
  /\ UNCHANGED <<owner, edge, closed, remote, closing, gauge, udp, stop, drops>>

\* Mutant: the watcher leaves Server.sess alone.
WatchClosedKeep(c) ==
  /\ watcher[c] = "wait" /\ closed[c]
  /\ watcher' = [watcher EXCEPT ![c] = "hubs"]
  /\ UNCHANGED <<owner, edge, closed, remote, closing, sess, gauge, udp, stop, drops>>

WatchClosed(c) ==
  /\ watcher[c] = "wait" /\ closed[c]
  /\ sess' = IF sess = c THEN None ELSE sess
  /\ watcher' = [watcher EXCEPT ![c] = "hubs"]
  /\ UNCHANGED <<owner, edge, closed, remote, closing, gauge, udp, stop, drops>>

\* Whatever session is current, its hubs are closed ...
WatchHubs(c) ==
  /\ watcher[c] = "hubs"
  /\ CloseUDPHubs
  /\ watcher' = [watcher EXCEPT ![c] = "gauge"]
  /\ UNCHANGED <<owner, edge, closed, remote, closing, sess, gauge, stop, drops>>

\* Mutant: the gauge stays up.
WatchNoGauge(c) ==
  /\ watcher[c] = "gauge"
  /\ watcher' = [watcher EXCEPT ![c] = "none"]
  /\ UNCHANGED <<owner, edge, closed, remote, closing, sess, gauge, udp, stop, drops>>

\* ... and the gauge is cleared.
WatchGauge(c) ==
  /\ watcher[c] = "gauge"
  /\ gauge' = FALSE
  /\ watcher' = [watcher EXCEPT ![c] = "none"]
  /\ UNCHANGED <<owner, edge, closed, remote, closing, sess, udp, stop, drops>>

\* Nobody refers to the connection any more.
Recycle(c) ==
  /\ edge[c] = "done" /\ remote[c] = "down" /\ watcher[c] = "none"
  /\ c \notin closing \cup {sess, hub, opening, victim}
  /\ owner' = [owner EXCEPT ![c] = None]
  /\ Goto(c, "free")
  /\ closed' = [closed EXCEPT ![c] = FALSE]
  /\ remote' = [remote EXCEPT ![c] = "idle"]
  /\ UNCHANGED <<watcher, closing, sess, gauge, udp, stop, drops>>

-----------------------------------------------------------------------------
\* The UDP listener (one tunnel): getOrOpenUDPHub.

\* No usable hub: udpMu is taken, getSession yields a session that is not
\* closed, and a stream is being opened on it.
OpenHub ==
  /\ opening = None /\ hub = None
  /\ sess # None
  /\ ~closed[sess]
  /\ stopping # "stopped"
  /\ opening' = sess
  /\ UNCHANGED <<conns, sess, gauge, hub, stop, drops>>

HubOpened ==
  /\ opening # None
  /\ ~closed[opening] /\ remote[opening] = "open"
  /\ hub' = opening
  /\ opening' = None
  /\ UNCHANGED <<conns, sess, gauge, stop, drops>>

\* OpenData failed or timed out.
HubNotOpened ==
  /\ opening # None
  /\ opening' = None
  /\ UNCHANGED <<conns, sess, gauge, hub, stop, drops>>

\* The hub's readLoop fails with its session and removes the hub.
HubEnds ==
  /\ hub # None
  /\ closed[hub]
  /\ opening = None
  /\ hub' = None
  /\ UNCHANGED <<conns, sess, gauge, opening, stop, drops>>

-----------------------------------------------------------------------------
\* Shutdown.

StopGoto(step) == stopping' = step

Stop ==
  /\ stopping = "run"
  /\ StopGoto("hubs")
  /\ UNCHANGED <<conns, sess, gauge, udp, victim, drops>>

StopHubs ==
  /\ stopping = "hubs"
  /\ CloseUDPHubs
  /\ StopGoto("take")
  /\ UNCHANGED <<conns, sess, gauge, victim, drops>>

StopTake ==
  /\ stopping = "take"
  /\ victim' = sess
  /\ sess' = None
  /\ StopGoto("close")
  /\ UNCHANGED <<conns, gauge, udp, drops>>

StopClose ==
  /\ stopping = "close"
  /\ closed' = [c \in Conn |-> closed[c] \/ c = victim]
  /\ victim' = None
  /\ StopGoto("gauge")
  /\ UNCHANGED <<owner, edge, remote, watcher, closing, sess, gauge, udp, drops>>

StopGauge ==
  /\ stopping = "gauge"
  /\ gauge' = FALSE
  /\ StopGoto("drain")
  /\ UNCHANGED <<conns, sess, udp, victim, drops>>

\* wg.Wait() or the drain timeout, whichever comes first.
StopDrained ==
  /\ stopping = "drain"
  /\ StopGoto("stopped")
  /\ UNCHANGED <<conns, sess, gauge, udp, victim, drops>>

-----------------------------------------------------------------------------
AgentStep ==
  \/ \E a \in Agent, c \in Conn : Dial(a, c)
  \/ \E c \in Conn : OpenControl(c) \/ RemoteEnds(c)

Fault == \E c \in Conn : BreakRemote(c) \/ BreakSession(c) \/ Stall(c)

Handler(c) ==
  \/ SessionNotices(c)
  \/ HandshakeOK(c) \/ HandshakeFails(c)
  \/ ControlTimer(c) \/ AcceptControl(c) \/ AcceptControlFails(c)
  \/ SetSessionHubs(c) \/ SetSessionSwap(c) \/ SetSessionGauge(c)
  \/ HandlerEnds(c) \/ CloseOld(c)
  \/ WatchClosed(c) \/ WatchHubs(c) \/ WatchGauge(c)
  \/ Recycle(c)

Udp == OpenHub \/ HubOpened \/ HubNotOpened \/ HubEnds

Shutdown == Stop \/ StopHubs \/ StopTake \/ StopClose \/ StopGauge \/ StopDrained

Next == AgentStep \/ Fault \/ (\E c \in Conn : Handler(c)) \/ Udp \/ Shutdown

Spec == Init /\ [][Next]_vars

\* Goroutines that can run do run, deadlines and TCP keepalives expire, and agents
\* keep dialling; nothing forces faults, UDP traffic or a shutdown.
Fairness ==
  /\ \A a \in Agent : WF_vars(\E c \in Conn : Dial(a, c))
  /\ \A c \in Conn :
       /\ WF_vars(OpenControl(c)) /\ WF_vars(RemoteEnds(c))
       /\ WF_vars(SessionNotices(c))
       /\ WF_vars(HandshakeOK(c) \/ HandshakeFails(c))
       /\ WF_vars(ControlTimer(c) /\ UNCHANGED drops)
       /\ WF_vars(AcceptControl(c) \/ AcceptControlFails(c))
       \* udpMu is a sync.Mutex, which does not starve a waiter
       /\ SF_vars(SetSessionHubs(c)) /\ SF_vars(WatchHubs(c))
       /\ WF_vars(SetSessionSwap(c) \/ SetSessionGauge(c) \/ HandlerEnds(c))
       /\ WF_vars(CloseOld(c))
       /\ WF_vars(WatchClosed(c) \/ WatchGauge(c))
       /\ WF_vars(Recycle(c))
  /\ WF_vars(HubOpened \/ HubNotOpened)
  /\ SF_vars(HubEnds)
  /\ SF_vars(StopHubs)
  /\ WF_vars(StopTake \/ StopClose \/ StopGauge \/ StopDrained)

FairSpec == Spec /\ Fairness

-----------------------------------------------------------------------------
\* Properties.

\* A new agent session replaces the old one: a session whose handler waits on
\* it and that is not the current one is already about to be closed, however
\* the installations of several sessions, the watchers and Shutdown interleave.
ReplacedIsDoomed ==
  \A c \in Conn :
    edge[c] = "live" /\ ~closed[c] => c = sess \/ c \in closing \/ c = victim

\* A UDP hub never lingers on a session that was replaced: setSession closes
\* the hubs before it swaps the sessions, so a datagram may open a hub on the
\* old session in between, but that session is about to be closed.
HubNotStranded ==
  \A c \in {hub, opening} \ {None} :
    c = sess \/ closed[c] \/ c \in closing \/ c = victim

\* The gauge cannot stay up without an agent: while it says connected there is
\* a watcher that will take it down.
GaugeUpIsWatched == gauge => \E c \in Conn : watcher[c] # "none"

\* A replaced session is closed in the end, so its agent is kicked.
ReplacedCloses ==
  \A c \in Conn : (edge[c] = "live" /\ sess # c) ~> closed[c]

\* Server.sess does not keep pointing at a session that died.
DeadSessionCleared ==
  \A c \in Conn : (sess = c /\ closed[c]) ~> sess # c

\* Once the faults are over, a single agent ends up connected for good, unless
\* the Edge is shut down.
AgentReturns ==
  (<>[](sess # None /\ ~closed[sess])) \/ <>(stopping # "run")

\* No goroutine is in the middle of changing the session.
Quiet ==
  /\ \A c \in Conn : /\ edge[c] \in {"free", "live"}
                      /\ watcher[c] \in {"none", "wait"}
                      /\ ~closed[c]
  /\ closing = {}
  /\ stopping = "run"

\* With nothing in progress the agent-connected gauge says whether an agent
\* session is live.
GaugeRight == Quiet => (gauge <=> sess # None)
=============================================================================
