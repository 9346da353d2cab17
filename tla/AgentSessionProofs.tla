-------------------------- MODULE AgentSessionProofs --------------------------
(***************************************************************************)
(* Proofs about AgentSession for any number of connections, agents and     *)
(* faults; TLC checks the liveness properties on a small instance.         *)
(***************************************************************************)
EXTENDS AgentSession, TLAPS

\* Something will close c, or it is the session in use.
Accounted(c) == c = sess \/ c \in closing \/ c = victim

\* ReplacedIsDoomed is not inductive: a session is accounted for from the swap
\* on, before its handler waits on it, and Shutdown must not overwrite a session
\* that it took and has not closed.
Inv ==
  /\ TypeOK
  /\ \A c \in Conn : edge[c] \in {"gauge", "live"} /\ ~closed[c] => Accounted(c)
  /\ stopping # "close" => victim = None
  /\ HubNotStranded
  /\ GaugeUpIsWatched

USE DEF Accounted, conns, udp, stop, Goto, StopGoto, CloseUDPHubs, HasSession

\* Nothing is connected at the start.
LEMMA InitInv == Init => Inv
<1> SUFFICES ASSUME Init PROVE Inv
  OBVIOUS
<1>1. TypeOK
  <2>1. closed \in [Conn -> BOOLEAN]
    BY DEF Init
  <2>2. gauge \in BOOLEAN
    BY DEF Init
  <2> QED
    BY <2>1, <2>2, SessionAssumption
    DEF Init, TypeOK, EdgeStep, RemoteStep, WatchStep, StopStep
<1> QED
  BY <1>1 DEF Init, Inv, HubNotStranded, GaugeUpIsWatched

\* closed and gauge stay Boolean.
LEMMA NextKeepsFlags ==
  ASSUME TypeOK, Next
  PROVE  closed' \in [Conn -> BOOLEAN] /\ gauge' \in BOOLEAN
<1>0. closed \in [Conn -> BOOLEAN] /\ gauge \in BOOLEAN
  BY DEF TypeOK
<1>1. \/ closed' = closed
      \/ \E c \in Conn : closed' = [closed EXCEPT ![c] = TRUE]
      \/ \E c \in Conn : closed' = [closed EXCEPT ![c] = FALSE]
      \/ closed' = [c \in Conn |-> closed[c] \/ c = victim]
  BY DEF Next, AgentStep, Dial, OpenControl, RemoteEnds,
         Fault, BreakRemote, BreakSession, Stall,
         Handler, SessionNotices, HandshakeOK, HandshakeFails, ControlTimer,
         AcceptControl, AcceptControlFails, SetSessionHubs, SetSessionSwap,
         SetSessionGauge, HandlerEnds, CloseOld, WatchClosed, WatchHubs, WatchGauge,
         Recycle, Udp, OpenHub, HubOpened, HubNotOpened, HubEnds,
         Shutdown, Stop, StopHubs, StopTake, StopClose, StopGauge, StopDrained
<1>2. gauge' = gauge \/ gauge' = TRUE \/ gauge' = FALSE
  BY DEF Next, AgentStep, Dial, OpenControl, RemoteEnds,
         Fault, BreakRemote, BreakSession, Stall,
         Handler, SessionNotices, HandshakeOK, HandshakeFails, ControlTimer,
         AcceptControl, AcceptControlFails, SetSessionHubs, SetSessionSwap,
         SetSessionGauge, HandlerEnds, CloseOld, WatchClosed, WatchHubs, WatchGauge,
         Recycle, Udp, OpenHub, HubOpened, HubNotOpened, HubEnds,
         Shutdown, Stop, StopHubs, StopTake, StopClose, StopGauge, StopDrained
<1>3. closed' \in [Conn -> BOOLEAN]
  BY <1>0, <1>1
<1>4. gauge' \in BOOLEAN
  BY <1>0, <1>2
<1> QED
  BY <1>3, <1>4

\* Every action keeps the types.
LEMMA NextKeepsType ==
  ASSUME TypeOK, Next
  PROVE  TypeOK'
<1>0. closed' \in [Conn -> BOOLEAN] /\ gauge' \in BOOLEAN
  BY NextKeepsFlags
<1> USE <1>0, SessionAssumption DEF TypeOK, EdgeStep, RemoteStep, WatchStep, StopStep
<1>1. CASE AgentStep
  BY <1>1 DEF AgentStep, Dial, OpenControl, RemoteEnds
<1>2. CASE Fault
  BY <1>2 DEF Fault, BreakRemote, BreakSession, Stall
<1>3. ASSUME NEW c \in Conn, Handler(c) PROVE TypeOK'
  <2>1. CASE SessionNotices(c) \/ HandshakeOK(c) \/ HandshakeFails(c) \/ ControlTimer(c)
    BY <2>1 DEF SessionNotices, HandshakeOK, HandshakeFails, ControlTimer
  <2>2. CASE AcceptControl(c) \/ AcceptControlFails(c) \/ SetSessionHubs(c)
    BY <2>2 DEF AcceptControl, AcceptControlFails, SetSessionHubs
  <2>3. CASE SetSessionSwap(c) \/ SetSessionGauge(c) \/ HandlerEnds(c) \/ CloseOld(c)
    BY <2>3 DEF SetSessionSwap, SetSessionGauge, HandlerEnds, CloseOld
  <2>4. CASE WatchClosed(c) \/ WatchHubs(c) \/ WatchGauge(c) \/ Recycle(c)
    BY <2>4 DEF WatchClosed, WatchHubs, WatchGauge, Recycle
  <2> QED
    BY <1>3, <2>1, <2>2, <2>3, <2>4 DEF Handler
<1>4. CASE Udp
  BY <1>4 DEF Udp, OpenHub, HubOpened, HubNotOpened, HubEnds
<1>5. CASE Shutdown
  BY <1>5 DEF Shutdown, Stop, StopHubs, StopTake, StopClose, StopGauge, StopDrained
<1> QED
  BY <1>1, <1>2, <1>3, <1>4, <1>5 DEF Next

\* Every action keeps the rest of the invariant.
LEMMA NextKeepsInv ==
  ASSUME Inv, Next
  PROVE  Inv'
<1>0. TypeOK /\ TypeOK'
  BY NextKeepsType DEF Inv
<1> USE <1>0, SessionAssumption DEF Inv, HubNotStranded, GaugeUpIsWatched
<1>1. CASE AgentStep
  BY <1>1 DEF TypeOK, AgentStep, Dial, OpenControl, RemoteEnds
<1>2. CASE Fault
  BY <1>2 DEF TypeOK, Fault, BreakRemote, BreakSession, Stall
<1>3. ASSUME NEW c \in Conn, Handler(c) PROVE Inv'
  <2>1. CASE SessionNotices(c) \/ HandshakeOK(c) \/ HandshakeFails(c) \/ ControlTimer(c)
    BY <2>1 DEF TypeOK, SessionNotices, HandshakeOK, HandshakeFails, ControlTimer
  <2>2. CASE AcceptControl(c) \/ AcceptControlFails(c) \/ SetSessionHubs(c)
    BY <2>2 DEF TypeOK, AcceptControl, AcceptControlFails, SetSessionHubs
  <2>3. CASE SetSessionSwap(c)
    BY <2>3 DEF TypeOK, SetSessionSwap
  <2>4. CASE SetSessionGauge(c) \/ HandlerEnds(c) \/ CloseOld(c)
    BY <2>4 DEF TypeOK, SetSessionGauge, HandlerEnds, CloseOld
  <2>5. CASE WatchClosed(c) \/ WatchHubs(c) \/ WatchGauge(c)
    BY <2>5 DEF TypeOK, WatchClosed, WatchHubs, WatchGauge, WatchStep
  <2>6. CASE Recycle(c)
    BY <2>6 DEF TypeOK, Recycle
  <2> QED
    BY <1>3, <2>1, <2>2, <2>3, <2>4, <2>5, <2>6 DEF Handler
<1>4. CASE Udp
  BY <1>4 DEF TypeOK, Udp, OpenHub, HubOpened, HubNotOpened, HubEnds
<1>5. CASE Shutdown
  BY <1>5 DEF TypeOK, Shutdown, Stop, StopHubs, StopTake, StopClose, StopGauge, StopDrained
<1> QED
  BY <1>1, <1>2, <1>3, <1>4, <1>5 DEF Next

\* Inv holds in every reachable state.
THEOREM Invariance == Spec => []Inv
<1>1. Init => Inv
  BY InitInv
<1>2. Inv /\ [Next]_vars => Inv'
  <2> SUFFICES ASSUME Inv, [Next]_vars PROVE Inv'
    OBVIOUS
  <2>1. CASE Next
    BY <2>1, NextKeepsInv
  <2>2. CASE UNCHANGED vars
    BY <2>2 DEF vars, Inv, TypeOK, HubNotStranded, GaugeUpIsWatched
  <2> QED
    BY <2>1, <2>2
<1> QED
  BY <1>1, <1>2, PTL DEF Spec

\* Types, and the references between the parts: Server.sess, the hub, the stream
\* being opened and Shutdown's victim are sessions or nothing, however the
\* goroutines interleave.
THEOREM TypeCorrect == Spec => []TypeOK
BY Invariance, PTL DEF Inv

\* However many agents connect at once, every session but the current one is
\* closed or about to be: setSession, the watchers and Shutdown lose none.
THEOREM ReplacedSessionsDoomed == Spec => []ReplacedIsDoomed
<1>1. Inv => ReplacedIsDoomed
  BY DEF Inv, ReplacedIsDoomed
<1> QED
  BY <1>1, Invariance, PTL

\* getOrOpenUDPHub never leaves a hub on a session that nobody will close.
THEOREM HubsNotStranded == Spec => []HubNotStranded
BY Invariance, PTL DEF Inv

\* The agent-connected gauge cannot stay up after the last session ended.
THEOREM GaugeUpWatched == Spec => []GaugeUpIsWatched
BY Invariance, PTL DEF Inv
=============================================================================
