---------------------------- MODULE RelayProofs ----------------------------
(***************************************************************************)
(* Proofs about Relay, for every window and any number of bytes.           *)
(***************************************************************************)
EXTENDS Relay, TLAPS

\* The way of the bytes of endpoint y to endpoint x: read on a, written on b
\* by the relay next to y; read on c, written on d by the other one.  While y
\* has not hung up, x still speaks and nobody cut the session, a pipe on this
\* way stops only at the end of what y said, and all connections are closed
\* only behind the last byte.
Kept(y, a, b, c, d, x) ==
  /\ {y, a, b, c} \cap aborted = {}
  /\ {d, x} \cap aborted # {} => Closed(d)
  /\ pipe[a] # "copy" => state[y] = "shut" /\ Waiting(a) = 0
  /\ pipe[a] = "done" => InHand(a) = 0
  /\ Finished(a) \/ Finished(b) \/ pipe[b] # "copy" => pipe[a] = "done"
  /\ pipe[c] # "copy" => Finished(b) /\ Waiting(c) = 0
  /\ pipe[c] = "done" => InHand(c) = 0
  /\ Finished(c) \/ Finished(d) \/ pipe[d] # "copy" => pipe[c] = "done"

Whole(y, a, b, c, d, x) ==
  ~cut /\ state[x] = "open" /\ ~Closed(y) => Kept(y, a, b, c, d, x)

Up == Whole("client", "pub", "out", "in", "loc", "local")
Down == Whole("local", "loc", "in", "out", "pub", "client")

\* What only happens when the session is cut.
Cuts ==
  /\ lost => cut
  /\ (\E e \in Stream : state[e] = "forced") => cut

Inv == TypeOK /\ Cuts /\ Up /\ Down

USE DEF Endpoint, Stream, Pipe, End, Node

LEMMA Wiring ==
  /\ \A e \in End : Peer(e) \in End /\ Peer(Peer(e)) = e /\ Peer(e) # e
  /\ \A e \in Pipe : Dst(e) \in Pipe /\ Dst(Dst(e)) = e /\ Dst(e) # e
  BY DEF Peer, Dst

LEMMA Wires ==
  /\ Peer("client") = "pub" /\ Peer("pub") = "client"
  /\ Peer("out") = "in" /\ Peer("in") = "out"
  /\ Peer("loc") = "local" /\ Peer("local") = "loc"
  /\ Dst("pub") = "out" /\ Dst("out") = "pub"
  /\ Dst("in") = "loc" /\ Dst("loc") = "in"
  BY DEF Peer, Dst

LEMMA InitInv == Init => Inv
  <1> SUFFICES ASSUME Init PROVE Inv
    OBVIOUS
  <1>1. TypeOK
    <2>1. sent \in [End -> Nat] /\ got \in [End -> Nat]
      BY DEF Init
    <2>2. \A e \in End : Waiting(e) \in 0 .. Window
      BY RelayAssumption, Wiring DEF Init, Waiting
    <2>3. \A e \in Pipe : InHand(e) \in 0 .. 1
      BY Wiring DEF Init, InHand
    <2>4. QED
      BY <2>1, <2>2, <2>3 DEF Init, TypeOK
  <1>2. Cuts
    BY DEF Init, Cuts
  <1>3. Up /\ Down
    BY DEF Init, Up, Down, Whole, Kept, Closed, Finished
  <1>4. QED
    BY <1>1, <1>2, <1>3 DEF Inv

LEMMA TypeStep ==
  ASSUME TypeOK, [Next]_vars PROVE TypeOK'
  <1> USE RelayAssumption, Wiring DEF TypeOK
  <1>1. ASSUME NEW e \in Pipe, PipeRead(e) PROVE TypeOK'
    <2>1. \A f \in End : Waiting(f)' \in 0 .. Window
      BY <1>1 DEF PipeRead, Readable, Waiting
    <2>2. \A f \in Pipe : InHand(f)' \in 0 .. 1
      BY <1>1 DEF PipeRead, InHand
    <2>3. QED
      BY <1>1, <2>1, <2>2 DEF PipeRead
  <1>2. ASSUME NEW e \in Pipe, PipeWrite(e) PROVE TypeOK'
    <2>1. \A f \in End : Waiting(f)' \in 0 .. Window
      BY <1>2 DEF PipeWrite, Room, Waiting
    <2>2. \A f \in Pipe : InHand(f)' \in 0 .. 1
      BY <1>2 DEF PipeWrite, InHand
    <2>3. QED
      BY <1>2, <2>1, <2>2 DEF PipeWrite
  <1>3. ASSUME NEW x \in Endpoint, Send(x) PROVE TypeOK'
    <2>1. \A f \in End : Waiting(f)' \in 0 .. Window
      BY <1>3 DEF Send, Room, Waiting
    <2>2. \A f \in Pipe : InHand(f)' \in 0 .. 1
      BY <1>3 DEF Send, InHand
    <2>3. QED
      BY <1>3, <2>1, <2>2 DEF Send
  <1>4. ASSUME NEW x \in Endpoint, Receive(x) PROVE TypeOK'
    <2>1. \A f \in End : Waiting(f)' \in 0 .. Window
      BY <1>4 DEF Receive, Readable, Waiting
    <2>2. \A f \in Pipe : InHand(f)' \in 0 .. 1
      BY <1>4 DEF Receive, InHand
    <2>3. QED
      BY <1>4, <2>1, <2>2 DEF Receive
  <1>5. ASSUME UNCHANGED <<sent, got>>
        PROVE  /\ \A f \in End : Waiting(f)' \in 0 .. Window
               /\ \A f \in Pipe : InHand(f)' \in 0 .. 1
    BY <1>5 DEF Waiting, InHand
  <1>6. ASSUME NEW e \in Pipe, PipeEnds(e) \/ PipeIdle(e) PROVE TypeOK'
    <2>1. /\ UNCHANGED <<sent, got, aborted, lost, idle>>
          /\ cut' \in BOOLEAN
          /\ Return(e)
      BY <1>6 DEF PipeEnds, PipeIdle
    <2>2. pipe' \in [Pipe -> {"copy", "last", "done"}]
      BY <2>1 DEF Return
    <2>3. state' \in [End -> {"open", "shut", "closed", "forced"}]
      BY <2>1 DEF Return
    <2>4. QED
      BY <1>5, <2>1, <2>2, <2>3
  <1>7. ASSUME NEW e \in End, SocketResets(e) \/ StreamTimesOut(e) PROVE TypeOK'
    <2> Peer(e) \in End
      OBVIOUS
    <2>1. CASE SocketResets(e)
      <3>1. /\ UNCHANGED <<sent, got, state, pipe, lost, idle, cut>>
            /\ aborted' = aborted \cup {e, Peer(e)}
        BY <2>1 DEF SocketResets
      <3>2. QED
        BY <1>5, <3>1
    <2>2. CASE StreamTimesOut(e)
      <3>1. /\ UNCHANGED <<sent, got, pipe, lost, idle>>
            /\ aborted' = aborted \cup {Peer(e)}
            /\ state' = [state EXCEPT ![e] = "forced"]
            /\ cut' = TRUE
        BY <2>2 DEF StreamTimesOut
      <3>2. QED
        BY <1>5, <3>1
    <2>3. QED
      BY <1>7, <2>1, <2>2
  <1>8. ASSUME SessionLost \/ Evict \/ CloseConns PROVE TypeOK'
    BY <1>5, <1>8 DEF SessionLost, Evict, CloseConns
  <1>9. ASSUME NEW x \in Endpoint, Shut(x) \/ Hangup(x) \/ Die(x) PROVE TypeOK'
    BY <1>5, <1>9 DEF Shut, Hangup, Die
  <1>10. CASE UNCHANGED vars
    BY <1>5, <1>10 DEF vars
  <1>11. QED
    BY <1>1, <1>2, <1>3, <1>4, <1>6, <1>7, <1>8, <1>9, <1>10
    DEF Next, PipeSteps, Endpoints

LEMMA CutsStep ==
  ASSUME TypeOK, Cuts, [Next]_vars PROVE Cuts'
  <1> USE DEF TypeOK, Cuts
  <1>1. ASSUME NEW e \in Pipe, PipeSteps(e) \/ PipeIdle(e) PROVE Cuts'
    BY <1>1 DEF PipeSteps, PipeRead, PipeWrite, PipeEnds, PipeIdle, Return
  <1>2. ASSUME NEW e \in End, SocketResets(e) \/ StreamTimesOut(e) PROVE Cuts'
    BY <1>2 DEF SocketResets, StreamTimesOut
  <1>3. ASSUME SessionLost \/ Evict \/ CloseConns PROVE Cuts'
    BY <1>3 DEF SessionLost, Evict, CloseConns
  <1>4. ASSUME NEW x \in Endpoint, Endpoints(x) PROVE Cuts'
    BY <1>4 DEF Endpoints, Send, Receive, Shut, Hangup, Die
  <1>5. CASE UNCHANGED vars
    BY <1>5 DEF vars
  <1>6. QED
    BY <1>1, <1>2, <1>3, <1>4, <1>5 DEF Next

\* The two ways through the session.
Way(y, a, b, c, d, x) ==
  \/ <<y, a, b, c, d, x>> = <<"client", "pub", "out", "in", "loc", "local">>
  \/ <<y, a, b, c, d, x>> = <<"local", "loc", "in", "out", "pub", "client">>

LEMMA WayWires ==
  ASSUME NEW y, NEW a, NEW b, NEW c, NEW d, NEW x, Way(y, a, b, c, d, x)
  PROVE  /\ Peer(y) = a /\ Peer(a) = y /\ Peer(b) = c /\ Peer(c) = b
         /\ Peer(d) = x /\ Peer(x) = d
         /\ Dst(a) = b /\ Dst(b) = a /\ Dst(c) = d /\ Dst(d) = c
         /\ End = {y, a, b, c, d, x} /\ Pipe = {a, b, c, d} /\ Endpoint = {x, y}
         /\ Stream = {b, c}
         /\ y \notin {a, b, c, d, x} /\ a \notin {b, c, d, x}
         /\ b \notin {c, d, x} /\ c \notin {d, x} /\ d # x
  BY Wires DEF Way

\* Nothing that opens again: what Whole assumes after a step held before it.
LEMMA WholeHolds ==
  ASSUME TypeOK, [Next]_vars, NEW x \in End
  PROVE  /\ ~cut' => ~cut
         /\ state[x]' = "open" => state[x] = "open"
         /\ ~Closed(x)' => ~Closed(x)
  <1> USE DEF TypeOK, Closed
  <1>1. ASSUME NEW e \in Pipe, PipeSteps(e) \/ PipeIdle(e)
        PROVE  /\ ~cut' => ~cut
               /\ state[x]' = "open" => state[x] = "open"
               /\ ~Closed(x)' => ~Closed(x)
    BY <1>1 DEF PipeSteps, PipeRead, PipeWrite, PipeEnds, PipeIdle, Return
  <1>2. ASSUME NEW e \in End, SocketResets(e) \/ StreamTimesOut(e)
        PROVE  /\ ~cut' => ~cut
               /\ state[x]' = "open" => state[x] = "open"
               /\ ~Closed(x)' => ~Closed(x)
    BY <1>2 DEF SocketResets, StreamTimesOut
  <1>3. CASE SessionLost \/ Evict \/ CloseConns
    BY <1>3 DEF SessionLost, Evict, CloseConns
  <1>4. ASSUME NEW z \in Endpoint, Endpoints(z)
        PROVE  /\ ~cut' => ~cut
               /\ state[x]' = "open" => state[x] = "open"
               /\ ~Closed(x)' => ~Closed(x)
    BY <1>4 DEF Endpoints, Send, Receive, Shut, Hangup, Die
  <1>5. CASE UNCHANGED vars
    BY <1>5 DEF vars
  <1>6. QED
    BY <1>1, <1>2, <1>3, <1>4, <1>5 DEF Next

LEMMA WholeStep ==
  ASSUME NEW y, NEW a, NEW b, NEW c, NEW d, NEW x, Way(y, a, b, c, d, x),
         TypeOK, TypeOK', Cuts, Whole(y, a, b, c, d, x), [Next]_vars
  PROVE  Whole(y, a, b, c, d, x)'
  <1> SUFFICES ASSUME ~cut', state[x]' = "open", ~Closed(y)'
               PROVE  Kept(y, a, b, c, d, x)'
    BY DEF Whole
  <1>0. /\ Peer(y) = a /\ Peer(a) = y /\ Peer(b) = c /\ Peer(c) = b
        /\ Peer(d) = x /\ Peer(x) = d
        /\ Dst(a) = b /\ Dst(b) = a /\ Dst(c) = d /\ Dst(d) = c
        /\ End = {y, a, b, c, d, x} /\ Pipe = {a, b, c, d} /\ Endpoint = {x, y}
        /\ Stream = {b, c}
        /\ y \notin {a, b, c, d, x} /\ a \notin {b, c, d, x}
        /\ b \notin {c, d, x} /\ c \notin {d, x} /\ d # x
    BY WayWires
  <1> USE <1>0
  <1> HIDE DEF End, Pipe, Endpoint, Stream
  <1> USE DEF TypeOK
  <1>1. ~cut /\ state[x] = "open" /\ ~Closed(y)
    BY WholeHolds
  <1>2. Kept(y, a, b, c, d, x)
    BY <1>1 DEF Whole
  <1>3. ~lost /\ state[b] # "forced" /\ state[c] # "forced"
    BY <1>1 DEF Cuts
  <1> USE <1>1, <1>2 DEF Kept, Closed, Finished, Waiting, InHand
  <1>4. CASE PipeRead(a)
    <2>1. /\ UNCHANGED <<sent, state, aborted>>
          /\ pipe[a] = "copy"
          /\ got' = [got EXCEPT ![a] = @ + 1]
          /\ \/ UNCHANGED pipe
             \/ /\ Waiting(a) = 1 /\ Finished(y)
                /\ pipe' = [pipe EXCEPT ![a] = "last"]
      BY <1>4 DEF PipeRead
    <2>2. Waiting(c)' = Waiting(c) /\ InHand(c)' = InHand(c)
      BY <2>1
    <2>3. Waiting(a)' = Waiting(a) - 1
      BY <2>1
    <2>4. QED
      BY <2>1, <2>2, <2>3
  <1>5. CASE PipeRead(b)
    <2>1. /\ UNCHANGED <<sent, state, aborted>>
          /\ got' = [got EXCEPT ![b] = @ + 1]
          /\ \/ UNCHANGED pipe
             \/ Finished(c) /\ pipe' = [pipe EXCEPT ![b] = "last"]
      BY <1>5 DEF PipeRead
    <2>2. /\ Waiting(c)' = Waiting(c) /\ InHand(c)' = InHand(c)
          /\ Waiting(a)' = Waiting(a) /\ InHand(a)' = InHand(a)
      BY <2>1
    <2>3. QED
      BY <2>1, <2>2
  <1>6. CASE PipeRead(c)
    <2>1. /\ UNCHANGED <<sent, state, aborted>>
          /\ pipe[c] = "copy"
          /\ got' = [got EXCEPT ![c] = @ + 1]
          /\ \/ UNCHANGED pipe
             \/ /\ Waiting(c) = 1 /\ Finished(b)
                /\ pipe' = [pipe EXCEPT ![c] = "last"]
      BY <1>6 DEF PipeRead
    <2>2. Waiting(a)' = Waiting(a) /\ InHand(a)' = InHand(a)
      BY <2>1
    <2>3. Waiting(c)' = Waiting(c) - 1
      BY <2>1
    <2>4. QED
      BY <2>1, <2>2, <2>3
  <1>7. CASE PipeRead(d)
    BY <1>7 DEF PipeRead
  <1>8. CASE PipeWrite(a)
    BY <1>8 DEF PipeWrite
  <1>9. CASE PipeWrite(b)
    BY <1>9 DEF PipeWrite
  <1>10. CASE PipeWrite(c)
    BY <1>10 DEF PipeWrite
  <1>11. CASE PipeWrite(d)
    BY <1>11 DEF PipeWrite
  <1>12. CASE PipeEnds(a)
    BY <1>3, <1>12 DEF PipeEnds, Return, WriteFails, ReadEnds
  <1>13. CASE PipeEnds(b)
    BY <1>3, <1>13 DEF PipeEnds, Return, WriteFails, ReadEnds
  <1>14. CASE PipeEnds(c)
    <2>1. UNCHANGED <<sent, got, aborted>> /\ Return(c)
      BY <1>14 DEF PipeEnds
    <2>2. pipe[c] # "done" /\ ~Closed(d)
      BY <1>14 DEF PipeEnds
    <2>3. InHand(c) = 0 /\ Waiting(c) = 0 /\ Finished(b)
      BY <1>3, <1>14, <2>2 DEF PipeEnds, WriteFails, ReadEnds
    <2>4. QED
      BY <2>1, <2>3 DEF Return
  <1>15. CASE PipeEnds(d)
    <2>1. UNCHANGED <<sent, got, aborted>> /\ Return(d)
      BY <1>15 DEF PipeEnds
    <2>2. pipe[c] = "done"
      BY <1>3, <1>15 DEF PipeEnds, WriteFails, ReadEnds
    <2>3. QED
      BY <2>1, <2>2 DEF Return
  <1>16. ASSUME NEW e \in End, SocketResets(e) PROVE Kept(y, a, b, c, d, x)'
    <2>1. /\ UNCHANGED <<sent, got, state, pipe>>
          /\ e \notin Stream
          /\ Closed(e) /\ Waiting(e) > 0
          /\ aborted' = aborted \cup {e, Peer(e)}
      BY <1>16 DEF SocketResets
    <2>2. e = d
      BY <2>1
    <2>3. QED
      BY <2>1, <2>2
  <1>17. ASSUME NEW z \in Endpoint, Send(z) PROVE Kept(y, a, b, c, d, x)'
    BY <1>17 DEF Send
  <1>18. ASSUME NEW z \in Endpoint, Receive(z) PROVE Kept(y, a, b, c, d, x)'
    <2>1. /\ UNCHANGED <<sent, state, aborted, pipe>>
          /\ got' = [got EXCEPT ![z] = @ + 1]
      BY <1>18 DEF Receive
    <2>2. /\ Waiting(c)' = Waiting(c) /\ InHand(c)' = InHand(c)
          /\ Waiting(a)' = Waiting(a) /\ InHand(a)' = InHand(a)
      BY <2>1
    <2>3. QED
      BY <2>1, <2>2
  <1>19. ASSUME NEW z \in Endpoint, Shut(z) \/ Hangup(z) PROVE Kept(y, a, b, c, d, x)'
    BY <1>19 DEF Shut, Hangup
  <1>20. CASE UNCHANGED vars
    BY <1>20 DEF vars
  <1>21. CASE SessionLost \/ Evict \/ CloseConns
    BY <1>21 DEF SessionLost, Evict, CloseConns
  <1>22. ASSUME NEW e \in Pipe, PipeIdle(e) PROVE FALSE
    BY <1>22 DEF PipeIdle
  <1>23. ASSUME NEW e \in End, StreamTimesOut(e) PROVE FALSE
    BY <1>23 DEF StreamTimesOut
  <1>24. ASSUME NEW z \in Endpoint, Die(z) PROVE FALSE
    BY <1>24 DEF Die
  <1>25. ASSUME NEW e \in Pipe, PipeSteps(e) PROVE Kept(y, a, b, c, d, x)'
    <2>1. e = a \/ e = b \/ e = c \/ e = d
      OBVIOUS
    <2>2. PipeRead(e) \/ PipeWrite(e) \/ PipeEnds(e)
      BY <1>25 DEF PipeSteps
    <2> HIDE <1>0, <1>1, <1>2 DEF TypeOK, Kept, Closed, Finished, Waiting, InHand
    <2>3. CASE PipeRead(e)
      BY <1>4, <1>5, <1>6, <1>7, <2>1, <2>3
    <2>4. CASE PipeWrite(e)
      BY <1>8, <1>9, <1>10, <1>11, <2>1, <2>4
    <2>5. CASE PipeEnds(e)
      BY <1>12, <1>13, <1>14, <1>15, <2>1, <2>5
    <2>6. QED
      BY <2>2, <2>3, <2>4, <2>5
  <1>26. QED
    <2> HIDE DEF Kept
    <2>1. QED
      BY <1>16, <1>17, <1>18, <1>19, <1>20, <1>21, <1>22, <1>23, <1>24, <1>25
      DEF Next, Endpoints

LEMMA InvStep ==
  ASSUME Inv, [Next]_vars PROVE Inv'
  <1>1. TypeOK'
    BY TypeStep DEF Inv
  <1>2. Cuts'
    BY CutsStep DEF Inv
  <1>3. Up'
    BY <1>1, WholeStep DEF Inv, Up, Way
  <1>4. Down'
    BY <1>1, WholeStep DEF Inv, Down, Way
  <1>5. QED
    BY <1>1, <1>2, <1>3, <1>4 DEF Inv

LEMMA WholeComplete ==
  ASSUME NEW y, NEW a, NEW b, NEW c, NEW d, NEW x, Way(y, a, b, c, d, x),
         TypeOK, Whole(y, a, b, c, d, x),
         SeesEnd(x), state[x] = "open", ~Closed(y), ~cut
  PROVE  state[y] = "shut" /\ got[x] = sent[y]
  <1>0. /\ Peer(y) = a /\ Peer(a) = y /\ Peer(b) = c /\ Peer(c) = b
        /\ Peer(d) = x /\ Peer(x) = d
        /\ Dst(a) = b /\ Dst(b) = a /\ Dst(c) = d /\ Dst(d) = c
        /\ End = {y, a, b, c, d, x} /\ Pipe = {a, b, c, d} /\ Endpoint = {x, y}
        /\ Stream = {b, c}
        /\ y \notin {a, b, c, d, x} /\ a \notin {b, c, d, x}
        /\ b \notin {c, d, x} /\ c \notin {d, x} /\ d # x
    BY WayWires
  <1> USE <1>0
  <1> HIDE DEF End, Pipe, Endpoint, Stream
  <1> USE DEF TypeOK
  <1>1. Closed(d) /\ Waiting(x) = 0
    BY DEF SeesEnd
  <1>2. Kept(y, a, b, c, d, x)
    BY DEF Whole
  <1>3. /\ Waiting(c) = 0 /\ InHand(c) = 0
        /\ Waiting(a) = 0 /\ InHand(a) = 0
        /\ state[y] = "shut"
    BY <1>1, <1>2 DEF Kept, Closed, Finished
  <1>4. QED
    BY <1>1, <1>3 DEF Waiting, InHand

\* Every buffer keeps its bound: no pipe holds more than what it read last,
\* and nothing is written that was not read (pipe).
THEOREM TypeCorrect == Spec => []TypeOK
  <1>1. Inv => TypeOK
    BY DEF Inv
  <1>2. QED
    BY InitInv, InvStep, <1>1, PTL DEF Spec

\* A clean end is the truth (Relay, pipe): see CleanEndComplete.
THEOREM CleanEnd == Spec => []CleanEndComplete
  <1>1. Inv => CleanEndComplete
    <2> SUFFICES ASSUME Inv, NEW x \in Endpoint, SeesEnd(x), state[x] = "open",
                        ~Closed(Other(x)), ~cut
                 PROVE  state[Other(x)] = "shut" /\ got[x] = sent[Other(x)]
      BY DEF CleanEndComplete
    <2>1. CASE x = "local"
      <3>1. Other(x) = "client"
        BY <2>1 DEF Other
      <3>2. Way("client", "pub", "out", "in", "loc", "local")
        BY DEF Way
      <3>3. QED
        BY <2>1, <3>1, <3>2, WholeComplete DEF Inv, Up
    <2>2. CASE x = "client"
      <3>1. Other(x) = "local"
        BY <2>2 DEF Other
      <3>2. Way("local", "loc", "in", "out", "pub", "client")
        BY DEF Way
      <3>3. QED
        BY <2>2, <3>1, <3>2, WholeComplete DEF Inv, Down
    <2>3. QED
      BY <2>1, <2>2
  <1>2. QED
    BY InitInv, InvStep, <1>1, PTL DEF Spec
=============================================================================
