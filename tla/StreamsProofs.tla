----------------------------- MODULE StreamsProofs -----------------------------
(***************************************************************************)
(* Proofs about Streams for any handlers, streams, number of sessions and  *)
(* limit: types, the accounting of slots and gauge, and the pairing of the *)
(* two ends of a relay.                                                    *)
(*                                                                         *)
(* The counts are right because a handler that is taken out of OpenData by *)
(* what happens to its stream was in OpenData (Waiting), and it has one    *)
(* stream at most (OneStream).  The ends are paired because an OK frame is *)
(* only on streams whose agent end is set up (Acked), a recycled stream    *)
(* has none (Fresh), and the accept loop handles every stream once         *)
(* (Accepting).                                                            *)
(***************************************************************************)
EXTENDS Streams, FiniteSetTheorems, TLAPS

\* Whoever waits for a stream is in OpenData.
Waiting ==
  \A s \in Stream :
    edge[s] \in {"write", "await"} /\ user[s] # None => pc[user[s]] = "dial"

\* A handler waits for or uses one stream.
OneStream ==
  \A s, t \in Stream : user[s] = user[t] /\ user[s] # None => s = t

Users == Waiting /\ OneStream

\* The agent said OK only after it had connected the local service.
Acked == \A s \in Stream : ack[s] = "ok" => agent[s] \in {"relay", "done"}

\* Nothing is left on a stream that can be opened.
Fresh == \A s \in Stream : edge[s] = "free" => ack[s] = "none" /\ agent[s] = "none"

\* What an accept loop reads from is a stream of its session, not handled yet.
Accepting ==
  \A g \in Session :
    accept[g] # None => agent[accept[g]] = "read" /\ on[accept[g]] = g

Ends == Acked /\ Fresh /\ Accepting /\ RelayPaired

Inv == TypeOK /\ Accounting /\ Users /\ Ends

-----------------------------------------------------------------------------
\* The sets that Accounting counts are finite.
LEMMA SetsFinite == IsFiniteSet(HoldsSlot) /\ IsFiniteSet(Counted)
<1>1. IsFiniteSet(Handler)
  BY StreamsAssumption, FS_Union DEF Handler
<1> QED
  BY <1>1, FS_Subset DEF HoldsSlot, Counted

\* The invariant holds at the start.
LEMMA InitInv == Init => Inv
<1> SUFFICES ASSUME Init PROVE Inv
  OBVIOUS
<1> USE StreamsAssumption
<1>1. TypeOK
  BY DEF Init, TypeOK, HandlerStep, EdgeStep, AgentStep, Session
<1>2. HoldsSlot = {} /\ Counted = {}
  BY DEF Init, HoldsSlot, Counted, Handler
<1>3. Accounting
  BY <1>2, FS_EmptySet DEF Init, Accounting
<1>4. Users /\ Ends
  BY DEF Init, Users, Waiting, OneStream, Ends, Acked, Fresh, Accepting, RelayPaired
<1> QED
  BY <1>1, <1>3, <1>4 DEF Inv

-----------------------------------------------------------------------------
\* A step keeps the types.
LEMMA TypeStep == Inv /\ [Next]_vars => TypeOK'
<1> SUFFICES ASSUME Inv, [Next]_vars PROVE TypeOK'
  OBVIOUS
<1> USE StreamsAssumption DEF Inv
<1>1. ASSUME NEW c \in Handler, Arrive(c) PROVE TypeOK'
  BY <1>1 DEF Arrive, TypeOK, HandlerStep, EdgeStep, AgentStep, Session, Goto,
     Handler, sessions
<1>2. ASSUME NEW c \in Handler, TakeSlot(c) PROVE TypeOK'
  BY <1>2 DEF TakeSlot, TypeOK, HandlerStep, EdgeStep, AgentStep, Session, Goto,
     Handler, sessions
<1>3. ASSUME NEW c \in Handler, NoSlot(c) PROVE TypeOK'
  BY <1>3 DEF NoSlot, TypeOK, HandlerStep, EdgeStep, AgentStep, Session, Goto,
     Handler, sessions
<1>4. ASSUME NEW c \in Handler, GetSession(c) PROVE TypeOK'
  BY <1>4 DEF GetSession, TypeOK, HandlerStep, EdgeStep, AgentStep, Session,
     Goto, Handler, sessions
<1>5. ASSUME NEW c \in Handler, NoAgent(c) PROVE TypeOK'
  BY <1>5 DEF NoAgent, TypeOK, HandlerStep, EdgeStep, AgentStep, Session, Goto,
     Handler, sessions
<1>6. ASSUME NEW c \in Handler, Count(c) PROVE TypeOK'
  BY <1>6 DEF Count, TypeOK, HandlerStep, EdgeStep, AgentStep, Session, Goto,
     Handler, sessions
<1>7. ASSUME NEW c \in Handler, Uncount(c) PROVE TypeOK'
  BY <1>7 DEF Uncount, TypeOK, HandlerStep, EdgeStep, AgentStep, Session, Goto,
     Handler, sessions
<1>8. ASSUME NEW c \in Handler, Release(c) PROVE TypeOK'
  <2>1. sem >= 1
    <3>1. c \in HoldsSlot
      BY <1>8 DEF Release, HoldsSlot
    <3>2. Cardinality(HoldsSlot) # 0
      BY <3>1, SetsFinite, FS_EmptySet
    <3> QED
      BY <3>2 DEF Accounting, TypeOK
  <2> QED
    BY <1>8, <2>1 DEF Release, TypeOK, HandlerStep, Goto, handlers, sessions
<1>9. ASSUME NEW c \in Handler, NotOpened(c) PROVE TypeOK'
  BY <1>9 DEF NotOpened, Dialling, TypeOK, HandlerStep, EdgeStep, AgentStep,
     Session, Goto, Failed, Handler, sessions
<1>10. ASSUME NEW c \in Handler, Abandon(c) PROVE TypeOK'
  BY <1>10 DEF Abandon, TypeOK, HandlerStep, EdgeStep, AgentStep, Session, Goto,
     Handler, sessions
<1>11. ASSUME NEW c \in Handler, NEW s \in Stream, Open(c, s) PROVE TypeOK'
  BY <1>11 DEF Open, Dialling, TypeOK, HandlerStep, EdgeStep, AgentStep,
     Session, Handler, handlers, sessions
<1>12. ASSUME NEW c \in Handler, NEW s \in Stream, RelayEnds(c, s) PROVE TypeOK'
  BY <1>12 DEF RelayEnds, TypeOK, HandlerStep, EdgeStep, AgentStep, Session,
     Goto, Handler, sessions
<1>13. ASSUME NEW s \in Stream, WriteOpenStream(s) PROVE TypeOK'
  BY <1>13 DEF WriteOpenStream, TypeOK, HandlerStep, EdgeStep, AgentStep,
     Session, Handler, handlers, sessions
<1>14. ASSUME NEW s \in Stream, Opened(s) PROVE TypeOK'
  BY <1>14 DEF Opened, TypeOK, HandlerStep, EdgeStep, AgentStep, Session, Goto,
     Handler, sessions
<1>15. ASSUME NEW s \in Stream, OpenedForNobody(s) PROVE TypeOK'
  BY <1>15 DEF OpenedForNobody, TypeOK, HandlerStep, EdgeStep, AgentStep,
     Session, Handler, handlers, sessions
<1>16. ASSUME NEW s \in Stream, OpenFails(s) PROVE TypeOK'
  BY <1>16 DEF OpenFails, TypeOK, HandlerStep, EdgeStep, AgentStep, Session,
     Failed, Handler, sessions
<1>17. ASSUME NEW s \in Stream, Refuse(s) PROVE TypeOK'
  BY <1>17 DEF Refuse, TypeOK, HandlerStep, EdgeStep, AgentStep, Session,
     Handler, handlers, sessions
<1>18. ASSUME NEW s \in Stream, DialLocal(s) PROVE TypeOK'
  BY <1>18 DEF DialLocal, TypeOK, HandlerStep, EdgeStep, AgentStep, Session,
     Handler, handlers, sessions
<1>19. ASSUME NEW s \in Stream, AckData(s) PROVE TypeOK'
  BY <1>19 DEF AckData, TypeOK, HandlerStep, EdgeStep, AgentStep, Session,
     Handler, handlers, sessions
<1>20. ASSUME NEW s \in Stream, AgentRelayEnds(s) PROVE TypeOK'
  BY <1>20 DEF AgentRelayEnds, TypeOK, HandlerStep, EdgeStep, AgentStep,
     Session, Handler, handlers, sessions
<1>21. ASSUME NEW s \in Stream, Recycle(s) PROVE TypeOK'
  BY <1>21 DEF Recycle, TypeOK, HandlerStep, EdgeStep, AgentStep, Session,
     Handler, handlers, sessions
<1>22. CASE NewSession
  BY <1>22 DEF NewSession, TypeOK, HandlerStep, EdgeStep, AgentStep, Session,
     Handler, handlers
<1>23. ASSUME NEW g \in Session, SessionEnds(g) PROVE TypeOK'
  BY <1>23 DEF SessionEnds, Down, TypeOK, HandlerStep, EdgeStep, AgentStep,
     Session, Handler, handlers
<1>24. ASSUME NEW g \in Session, AcceptRead(g) PROVE TypeOK'
  BY <1>24 DEF AcceptRead, TypeOK, HandlerStep, EdgeStep, AgentStep, Session,
     Handler, handlers, sessions
<1>25. ASSUME NEW g \in Session, AcceptFails(g) PROVE TypeOK'
  BY <1>25 DEF AcceptFails, Down, TypeOK, HandlerStep, EdgeStep, AgentStep,
     Session, Handler, handlers
<1>26. ASSUME NEW g \in Session, NEW s \in Stream, AcceptData(g, s) PROVE TypeOK'
  BY <1>26 DEF AcceptData, TypeOK, HandlerStep, EdgeStep, AgentStep, Session,
     Handler, handlers, sessions
<1>27. CASE UNCHANGED vars
  BY <1>27 DEF TypeOK, Session, handlers, sessions, vars
<1> QED
  BY <1>1, <1>2, <1>3, <1>4, <1>5, <1>6, <1>7, <1>8,
     <1>9, <1>10, <1>11, <1>12, <1>13, <1>14, <1>15, <1>16,
     <1>17, <1>18, <1>19, <1>20, <1>21, <1>22, <1>23, <1>24,
     <1>25, <1>26, <1>27
  DEF Next, HandlerSteps, OpenSteps, AgentSteps

\* A step keeps the counts.
LEMMA AccountingStep == Inv /\ [Next]_vars => Accounting'
<1> SUFFICES ASSUME Inv, [Next]_vars PROVE Accounting'
  OBVIOUS
<1> USE StreamsAssumption DEF Inv, Users
<1>1. ASSUME NEW c \in Handler, Arrive(c) PROVE Accounting'
  <2>1. HoldsSlot' = HoldsSlot /\ Counted' = Counted
    BY <1>1 DEF Arrive, TypeOK, Waiting, HoldsSlot, Counted, Goto, Handler
  <2>2. sem' = sem /\ gauge' = gauge
    BY <1>1 DEF Arrive
  <2> QED
    BY <2>1, <2>2 DEF Accounting
<1>2. ASSUME NEW c \in Handler, TakeSlot(c) PROVE Accounting'
  <2>1. HoldsSlot' = HoldsSlot \cup {c} /\ c \notin HoldsSlot /\ Counted' = Counted
    BY <1>2 DEF TakeSlot, TypeOK, HoldsSlot, Counted, Goto, Handler
  <2>2. Cardinality(HoldsSlot') = Cardinality(HoldsSlot) + 1
    BY <2>1, SetsFinite, FS_AddElement
  <2> QED
    BY <1>2, <2>1, <2>2 DEF TakeSlot, Accounting
<1>3. ASSUME NEW c \in Handler, NoSlot(c) PROVE Accounting'
  <2>1. HoldsSlot' = HoldsSlot /\ Counted' = Counted
    BY <1>3 DEF NoSlot, TypeOK, Waiting, HoldsSlot, Counted, Goto, Handler
  <2>2. sem' = sem /\ gauge' = gauge
    BY <1>3 DEF NoSlot
  <2> QED
    BY <2>1, <2>2 DEF Accounting
<1>4. ASSUME NEW c \in Handler, GetSession(c) PROVE Accounting'
  <2>1. HoldsSlot' = HoldsSlot /\ Counted' = Counted
    BY <1>4 DEF GetSession, TypeOK, Waiting, HoldsSlot, Counted, Goto, Handler
  <2>2. sem' = sem /\ gauge' = gauge
    BY <1>4 DEF GetSession
  <2> QED
    BY <2>1, <2>2 DEF Accounting
<1>5. ASSUME NEW c \in Handler, NoAgent(c) PROVE Accounting'
  <2>1. HoldsSlot' = HoldsSlot /\ Counted' = Counted
    BY <1>5 DEF NoAgent, TypeOK, Waiting, HoldsSlot, Counted, Goto, Handler
  <2>2. sem' = sem /\ gauge' = gauge
    BY <1>5 DEF NoAgent
  <2> QED
    BY <2>1, <2>2 DEF Accounting
<1>6. ASSUME NEW c \in Handler, Count(c) PROVE Accounting'
  <2>1. Counted' = Counted \cup {c} /\ c \notin Counted /\ HoldsSlot' = HoldsSlot
    BY <1>6 DEF Count, TypeOK, HoldsSlot, Counted, Goto, Handler
  <2>2. Cardinality(Counted') = Cardinality(Counted) + 1
    BY <2>1, SetsFinite, FS_AddElement
  <2> QED
    BY <1>6, <2>1, <2>2 DEF Count, Accounting
<1>7. ASSUME NEW c \in Handler, Uncount(c) PROVE Accounting'
  <2>1. Counted' = Counted \ {c} /\ c \in Counted /\ HoldsSlot' = HoldsSlot
    BY <1>7 DEF Uncount, TypeOK, HoldsSlot, Counted, Goto, Handler
  <2>2. Cardinality(Counted') = Cardinality(Counted) - 1
    BY <2>1, SetsFinite, FS_RemoveElement
  <2>3. gauge > 0
    <3>1. Cardinality(Counted) # 0
      BY <2>1, SetsFinite, FS_EmptySet
    <3> QED
      BY <3>1 DEF Accounting, TypeOK
  <2> QED
    BY <1>7, <2>1, <2>2, <2>3 DEF Uncount, Accounting
<1>8. ASSUME NEW c \in Handler, Release(c) PROVE Accounting'
  <2>1. HoldsSlot' = HoldsSlot \ {c} /\ c \in HoldsSlot /\ Counted' = Counted
    BY <1>8 DEF Release, TypeOK, HoldsSlot, Counted, Goto, Handler
  <2>2. Cardinality(HoldsSlot') = Cardinality(HoldsSlot) - 1
    BY <2>1, SetsFinite, FS_RemoveElement
  <2> QED
    BY <1>8, <2>1, <2>2 DEF Release, Accounting
<1>9. ASSUME NEW c \in Handler, NotOpened(c) PROVE Accounting'
  <2>1. HoldsSlot' = HoldsSlot /\ Counted' = Counted
    BY <1>9 DEF NotOpened, Dialling, TypeOK, Waiting, HoldsSlot, Counted, Goto,
       Failed, Handler
  <2>2. sem' = sem /\ gauge' = gauge
    BY <1>9 DEF NotOpened
  <2> QED
    BY <2>1, <2>2 DEF Accounting
<1>10. ASSUME NEW c \in Handler, Abandon(c) PROVE Accounting'
  <2>1. HoldsSlot' = HoldsSlot /\ Counted' = Counted
    BY <1>10 DEF Abandon, TypeOK, Waiting, HoldsSlot, Counted, Goto, Handler
  <2>2. sem' = sem /\ gauge' = gauge
    BY <1>10 DEF Abandon
  <2> QED
    BY <2>1, <2>2 DEF Accounting
<1>11. ASSUME NEW c \in Handler, NEW s \in Stream, Open(c, s) PROVE Accounting'
  BY <1>11 DEF Open, Dialling, Accounting, HoldsSlot, Counted, handlers,
     sessions
<1>12. ASSUME NEW c \in Handler, NEW s \in Stream, RelayEnds(c, s) PROVE Accounting'
  <2>1. HoldsSlot' = HoldsSlot /\ Counted' = Counted
    BY <1>12 DEF RelayEnds, TypeOK, Waiting, HoldsSlot, Counted, Goto, Handler
  <2>2. sem' = sem /\ gauge' = gauge
    BY <1>12 DEF RelayEnds
  <2> QED
    BY <2>1, <2>2 DEF Accounting
<1>13. ASSUME NEW s \in Stream, WriteOpenStream(s) PROVE Accounting'
  BY <1>13 DEF WriteOpenStream, Accounting, HoldsSlot, Counted, handlers,
     sessions
<1>14. ASSUME NEW s \in Stream, Opened(s) PROVE Accounting'
  <2>1. HoldsSlot' = HoldsSlot /\ Counted' = Counted
    BY <1>14 DEF Opened, TypeOK, Waiting, HoldsSlot, Counted, Goto, Handler
  <2>2. sem' = sem /\ gauge' = gauge
    BY <1>14 DEF Opened
  <2> QED
    BY <2>1, <2>2 DEF Accounting
<1>15. ASSUME NEW s \in Stream, OpenedForNobody(s) PROVE Accounting'
  BY <1>15 DEF OpenedForNobody, Accounting, HoldsSlot, Counted, handlers,
     sessions
<1>16. ASSUME NEW s \in Stream, OpenFails(s) PROVE Accounting'
  <2>1. HoldsSlot' = HoldsSlot /\ Counted' = Counted
    BY <1>16 DEF OpenFails, TypeOK, Waiting, HoldsSlot, Counted, Failed, Handler
  <2>2. sem' = sem /\ gauge' = gauge
    BY <1>16 DEF OpenFails
  <2> QED
    BY <2>1, <2>2 DEF Accounting
<1>17. ASSUME NEW s \in Stream, Refuse(s) PROVE Accounting'
  BY <1>17 DEF Refuse, Accounting, HoldsSlot, Counted, handlers, sessions
<1>18. ASSUME NEW s \in Stream, DialLocal(s) PROVE Accounting'
  BY <1>18 DEF DialLocal, Accounting, HoldsSlot, Counted, handlers, sessions
<1>19. ASSUME NEW s \in Stream, AckData(s) PROVE Accounting'
  BY <1>19 DEF AckData, Accounting, HoldsSlot, Counted, handlers, sessions
<1>20. ASSUME NEW s \in Stream, AgentRelayEnds(s) PROVE Accounting'
  BY <1>20 DEF AgentRelayEnds, Accounting, HoldsSlot, Counted, handlers,
     sessions
<1>21. ASSUME NEW s \in Stream, Recycle(s) PROVE Accounting'
  BY <1>21 DEF Recycle, Accounting, HoldsSlot, Counted, handlers, sessions
<1>22. CASE NewSession
  BY <1>22 DEF NewSession, Accounting, HoldsSlot, Counted, handlers
<1>23. ASSUME NEW g \in Session, SessionEnds(g) PROVE Accounting'
  BY <1>23 DEF SessionEnds, Down, Accounting, HoldsSlot, Counted, handlers
<1>24. ASSUME NEW g \in Session, AcceptRead(g) PROVE Accounting'
  BY <1>24 DEF AcceptRead, Accounting, HoldsSlot, Counted, handlers, sessions
<1>25. ASSUME NEW g \in Session, AcceptFails(g) PROVE Accounting'
  BY <1>25 DEF AcceptFails, Down, Accounting, HoldsSlot, Counted, handlers
<1>26. ASSUME NEW g \in Session, NEW s \in Stream, AcceptData(g, s) PROVE Accounting'
  BY <1>26 DEF AcceptData, Accounting, HoldsSlot, Counted, handlers, sessions
<1>27. CASE UNCHANGED vars
  BY <1>27 DEF Accounting, HoldsSlot, Counted, handlers, sessions, vars
<1> QED
  BY <1>1, <1>2, <1>3, <1>4, <1>5, <1>6, <1>7, <1>8,
     <1>9, <1>10, <1>11, <1>12, <1>13, <1>14, <1>15, <1>16,
     <1>17, <1>18, <1>19, <1>20, <1>21, <1>22, <1>23, <1>24,
     <1>25, <1>26, <1>27
  DEF Next, HandlerSteps, OpenSteps, AgentSteps

\* A step leaves every handler with one stream, and in OpenData while it waits.
LEMMA UsersStep == Inv /\ [Next]_vars => Users'
<1> SUFFICES ASSUME Inv, [Next]_vars PROVE Users'
  OBVIOUS
<1> USE StreamsAssumption DEF Inv
<1>1. ASSUME NEW c \in Handler, Arrive(c) PROVE Users'
  BY <1>1 DEF Arrive, TypeOK, Users, Waiting, OneStream, Goto, Handler, sessions
<1>2. ASSUME NEW c \in Handler, TakeSlot(c) PROVE Users'
  BY <1>2 DEF TakeSlot, TypeOK, Users, Waiting, OneStream, Goto, Handler,
     sessions
<1>3. ASSUME NEW c \in Handler, NoSlot(c) PROVE Users'
  BY <1>3 DEF NoSlot, TypeOK, Users, Waiting, OneStream, Goto, Handler, sessions
<1>4. ASSUME NEW c \in Handler, GetSession(c) PROVE Users'
  BY <1>4 DEF GetSession, TypeOK, Users, Waiting, OneStream, Goto, Handler,
     sessions
<1>5. ASSUME NEW c \in Handler, NoAgent(c) PROVE Users'
  BY <1>5 DEF NoAgent, TypeOK, Users, Waiting, OneStream, Goto, Handler,
     sessions
<1>6. ASSUME NEW c \in Handler, Count(c) PROVE Users'
  BY <1>6 DEF Count, TypeOK, Users, Waiting, OneStream, Goto, Handler, sessions
<1>7. ASSUME NEW c \in Handler, Uncount(c) PROVE Users'
  BY <1>7 DEF Uncount, TypeOK, Users, Waiting, OneStream, Goto, Handler,
     sessions
<1>8. ASSUME NEW c \in Handler, Release(c) PROVE Users'
  BY <1>8 DEF Release, TypeOK, Users, Waiting, OneStream, Goto, Handler,
     sessions
<1>9. ASSUME NEW c \in Handler, NotOpened(c) PROVE Users'
  BY <1>9 DEF NotOpened, Dialling, TypeOK, Users, Waiting, OneStream, Goto,
     Failed, Handler, sessions
<1>10. ASSUME NEW c \in Handler, Abandon(c) PROVE Users'
  BY <1>10 DEF Abandon, TypeOK, Users, Waiting, OneStream, Goto, Handler,
     sessions
<1>11. ASSUME NEW c \in Handler, NEW s \in Stream, Open(c, s) PROVE Users'
  BY <1>11 DEF Open, Dialling, TypeOK, Users, Waiting, OneStream, Handler,
     handlers, sessions
<1>12. ASSUME NEW c \in Handler, NEW s \in Stream, RelayEnds(c, s) PROVE Users'
  BY <1>12 DEF RelayEnds, TypeOK, Users, Waiting, OneStream, Goto, Handler,
     sessions
<1>13. ASSUME NEW s \in Stream, WriteOpenStream(s) PROVE Users'
  BY <1>13 DEF WriteOpenStream, TypeOK, Users, Waiting, OneStream, Handler,
     handlers, sessions
<1>14. ASSUME NEW s \in Stream, Opened(s) PROVE Users'
  BY <1>14 DEF Opened, TypeOK, Users, Waiting, OneStream, Goto, Handler,
     sessions
<1>15. ASSUME NEW s \in Stream, OpenedForNobody(s) PROVE Users'
  BY <1>15 DEF OpenedForNobody, TypeOK, Users, Waiting, OneStream, Handler,
     handlers, sessions
<1>16. ASSUME NEW s \in Stream, OpenFails(s) PROVE Users'
  BY <1>16 DEF OpenFails, TypeOK, Users, Waiting, OneStream, Failed, Handler,
     sessions
<1>17. ASSUME NEW s \in Stream, Refuse(s) PROVE Users'
  BY <1>17 DEF Refuse, TypeOK, Users, Waiting, OneStream, Handler, handlers,
     sessions
<1>18. ASSUME NEW s \in Stream, DialLocal(s) PROVE Users'
  BY <1>18 DEF DialLocal, TypeOK, Users, Waiting, OneStream, Handler, handlers,
     sessions
<1>19. ASSUME NEW s \in Stream, AckData(s) PROVE Users'
  BY <1>19 DEF AckData, TypeOK, Users, Waiting, OneStream, Handler, handlers,
     sessions
<1>20. ASSUME NEW s \in Stream, AgentRelayEnds(s) PROVE Users'
  BY <1>20 DEF AgentRelayEnds, TypeOK, Users, Waiting, OneStream, Handler,
     handlers, sessions
<1>21. ASSUME NEW s \in Stream, Recycle(s) PROVE Users'
  BY <1>21 DEF Recycle, TypeOK, Users, Waiting, OneStream, Handler, handlers,
     sessions
<1>22. CASE NewSession
  BY <1>22 DEF NewSession, TypeOK, Users, Waiting, OneStream, Handler, handlers
<1>23. ASSUME NEW g \in Session, SessionEnds(g) PROVE Users'
  BY <1>23 DEF SessionEnds, Down, TypeOK, Users, Waiting, OneStream, Handler,
     handlers
<1>24. ASSUME NEW g \in Session, AcceptRead(g) PROVE Users'
  BY <1>24 DEF AcceptRead, TypeOK, Users, Waiting, OneStream, Handler, handlers,
     sessions
<1>25. ASSUME NEW g \in Session, AcceptFails(g) PROVE Users'
  BY <1>25 DEF AcceptFails, Down, TypeOK, Users, Waiting, OneStream, Handler,
     handlers
<1>26. ASSUME NEW g \in Session, NEW s \in Stream, AcceptData(g, s) PROVE Users'
  BY <1>26 DEF AcceptData, TypeOK, Users, Waiting, OneStream, Handler, handlers,
     sessions
<1>27. CASE UNCHANGED vars
  BY <1>27 DEF TypeOK, Users, Waiting, OneStream, handlers, sessions, vars
<1> QED
  BY <1>1, <1>2, <1>3, <1>4, <1>5, <1>6, <1>7, <1>8,
     <1>9, <1>10, <1>11, <1>12, <1>13, <1>14, <1>15, <1>16,
     <1>17, <1>18, <1>19, <1>20, <1>21, <1>22, <1>23, <1>24,
     <1>25, <1>26, <1>27
  DEF Next, HandlerSteps, OpenSteps, AgentSteps

\* A step keeps what is known of the two ends of a stream.
LEMMA EndsStep == Inv /\ [Next]_vars => Ends'
<1> SUFFICES ASSUME Inv, [Next]_vars PROVE Ends'
  OBVIOUS
<1> USE StreamsAssumption DEF Inv
<1>1. ASSUME NEW c \in Handler, Arrive(c) PROVE Ends'
  BY <1>1 DEF Arrive, TypeOK, Ends, Acked, Fresh, Accepting, RelayPaired, Goto,
     Handler, sessions
<1>2. ASSUME NEW c \in Handler, TakeSlot(c) PROVE Ends'
  BY <1>2 DEF TakeSlot, TypeOK, Ends, Acked, Fresh, Accepting, RelayPaired,
     Goto, Handler, sessions
<1>3. ASSUME NEW c \in Handler, NoSlot(c) PROVE Ends'
  BY <1>3 DEF NoSlot, TypeOK, Ends, Acked, Fresh, Accepting, RelayPaired, Goto,
     Handler, sessions
<1>4. ASSUME NEW c \in Handler, GetSession(c) PROVE Ends'
  BY <1>4 DEF GetSession, TypeOK, Ends, Acked, Fresh, Accepting, RelayPaired,
     Goto, Handler, sessions
<1>5. ASSUME NEW c \in Handler, NoAgent(c) PROVE Ends'
  BY <1>5 DEF NoAgent, TypeOK, Ends, Acked, Fresh, Accepting, RelayPaired, Goto,
     Handler, sessions
<1>6. ASSUME NEW c \in Handler, Count(c) PROVE Ends'
  BY <1>6 DEF Count, TypeOK, Ends, Acked, Fresh, Accepting, RelayPaired, Goto,
     Handler, sessions
<1>7. ASSUME NEW c \in Handler, Uncount(c) PROVE Ends'
  BY <1>7 DEF Uncount, TypeOK, Ends, Acked, Fresh, Accepting, RelayPaired, Goto,
     Handler, sessions
<1>8. ASSUME NEW c \in Handler, Release(c) PROVE Ends'
  BY <1>8 DEF Release, TypeOK, Ends, Acked, Fresh, Accepting, RelayPaired, Goto,
     Handler, sessions
<1>9. ASSUME NEW c \in Handler, NotOpened(c) PROVE Ends'
  BY <1>9 DEF NotOpened, Dialling, TypeOK, Ends, Acked, Fresh, Accepting,
     RelayPaired, Goto, Failed, Handler, sessions
<1>10. ASSUME NEW c \in Handler, Abandon(c) PROVE Ends'
  BY <1>10 DEF Abandon, TypeOK, Ends, Acked, Fresh, Accepting, RelayPaired,
     Goto, Handler, sessions
<1>11. ASSUME NEW c \in Handler, NEW s \in Stream, Open(c, s) PROVE Ends'
  BY <1>11 DEF Open, Dialling, TypeOK, Ends, Acked, Fresh, Accepting,
     RelayPaired, Handler, handlers, sessions
<1>12. ASSUME NEW c \in Handler, NEW s \in Stream, RelayEnds(c, s) PROVE Ends'
  BY <1>12 DEF RelayEnds, TypeOK, Ends, Acked, Fresh, Accepting, RelayPaired,
     Goto, Handler, sessions
<1>13. ASSUME NEW s \in Stream, WriteOpenStream(s) PROVE Ends'
  BY <1>13 DEF WriteOpenStream, TypeOK, Ends, Acked, Fresh, Accepting,
     RelayPaired, Handler, handlers, sessions
<1>14. ASSUME NEW s \in Stream, Opened(s) PROVE Ends'
  BY <1>14 DEF Opened, TypeOK, Ends, Acked, Fresh, Accepting, RelayPaired, Goto,
     Handler, sessions
<1>15. ASSUME NEW s \in Stream, OpenedForNobody(s) PROVE Ends'
  BY <1>15 DEF OpenedForNobody, TypeOK, Ends, Acked, Fresh, Accepting,
     RelayPaired, Handler, handlers, sessions
<1>16. ASSUME NEW s \in Stream, OpenFails(s) PROVE Ends'
  BY <1>16 DEF OpenFails, TypeOK, Ends, Acked, Fresh, Accepting, RelayPaired,
     Failed, Handler, sessions
<1>17. ASSUME NEW s \in Stream, Refuse(s) PROVE Ends'
  BY <1>17 DEF Refuse, TypeOK, Ends, Acked, Fresh, Accepting, RelayPaired,
     Handler, handlers, sessions
<1>18. ASSUME NEW s \in Stream, DialLocal(s) PROVE Ends'
  BY <1>18 DEF DialLocal, TypeOK, Ends, Acked, Fresh, Accepting, RelayPaired,
     Handler, handlers, sessions
<1>19. ASSUME NEW s \in Stream, AckData(s) PROVE Ends'
  BY <1>19 DEF AckData, TypeOK, Ends, Acked, Fresh, Accepting, RelayPaired,
     Handler, handlers, sessions
<1>20. ASSUME NEW s \in Stream, AgentRelayEnds(s) PROVE Ends'
  BY <1>20 DEF AgentRelayEnds, TypeOK, Ends, Acked, Fresh, Accepting,
     RelayPaired, Handler, handlers, sessions
<1>21. ASSUME NEW s \in Stream, Recycle(s) PROVE Ends'
  BY <1>21 DEF Recycle, TypeOK, Ends, Acked, Fresh, Accepting, RelayPaired,
     Handler, handlers, sessions
<1>22. CASE NewSession
  BY <1>22 DEF NewSession, TypeOK, Ends, Acked, Fresh, Accepting, RelayPaired,
     Handler, handlers
<1>23. ASSUME NEW g \in Session, SessionEnds(g) PROVE Ends'
  BY <1>23 DEF SessionEnds, Down, TypeOK, Ends, Acked, Fresh, Accepting,
     RelayPaired, Handler, handlers
<1>24. ASSUME NEW g \in Session, AcceptRead(g) PROVE Ends'
  BY <1>24 DEF AcceptRead, TypeOK, Ends, Acked, Fresh, Accepting, RelayPaired,
     Handler, handlers, sessions
<1>25. ASSUME NEW g \in Session, AcceptFails(g) PROVE Ends'
  BY <1>25 DEF AcceptFails, Down, TypeOK, Ends, Acked, Fresh, Accepting,
     RelayPaired, Handler, handlers
<1>26. ASSUME NEW g \in Session, NEW s \in Stream, AcceptData(g, s) PROVE Ends'
  BY <1>26 DEF AcceptData, TypeOK, Ends, Acked, Fresh, Accepting, RelayPaired,
     Handler, handlers, sessions
<1>27. CASE UNCHANGED vars
  BY <1>27 DEF TypeOK, Ends, Acked, Fresh, Accepting, RelayPaired, handlers,
     sessions, vars
<1> QED
  BY <1>1, <1>2, <1>3, <1>4, <1>5, <1>6, <1>7, <1>8,
     <1>9, <1>10, <1>11, <1>12, <1>13, <1>14, <1>15, <1>16,
     <1>17, <1>18, <1>19, <1>20, <1>21, <1>22, <1>23, <1>24,
     <1>25, <1>26, <1>27
  DEF Next, HandlerSteps, OpenSteps, AgentSteps
-----------------------------------------------------------------------------
\* The inductive invariant is an invariant of the handlers and streams.
THEOREM Invariance == Spec => []Inv
<1>1. Inv /\ [Next]_vars => Inv'
  BY TypeStep, AccountingStep, UsersStep, EndsStep DEF Inv
<1> QED
  BY <1>1, InitInv, PTL DEF Spec

\* Every variable keeps its type; in particular sem stays within max_sessions
\* and is never released when nobody holds a slot.
THEOREM TypeCorrect == Spec => []TypeOK
<1>1. Inv => TypeOK
  BY DEF Inv
<1> QED
  BY <1>1, Invariance, PTL

\* Every slot of max_sessions and every unit of the session gauge belongs to a
\* handler that will give it back, for any number of handlers.
THEOREM SlotsAccounted == Spec => []Accounting
<1>1. Inv => Accounting
  BY DEF Inv
<1> QED
  BY <1>1, Invariance, PTL

\* A handler of the Edge relays only on a stream whose agent end was connected.
THEOREM RelaysPaired == Spec => []RelayPaired
<1>1. Inv => RelayPaired
  BY DEF Inv, Ends
<1> QED
  BY <1>1, Invariance, PTL
=============================================================================
