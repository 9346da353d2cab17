------------------------------- MODULE Relay -------------------------------
(***************************************************************************)
(* The bytes of one relayed session.  proxy.Relay runs twice in series:    *)
(*                                                                         *)
(*   client --- pub  Edge  out === in  agent  loc --- local service        *)
(*                                                                         *)
(* client, pub, loc and local are ends of TCP connections, out and in the  *)
(* two ends of a yamux stream.  A relay copies its two connections into    *)
(* each other with two goroutines (pipe); the first that returns makes it  *)
(* close both.  A pipe is named after the end it reads from.               *)
(*                                                                         *)
(* Bytes are counted, not kept: a connection is first in, first out, so    *)
(* what is on its way to an end e is what its peer has sent and e has not  *)
(* got.  A read takes one byte; larger reads reach the same states.        *)
(***************************************************************************)
EXTENDS Integers

CONSTANTS
  Window,    \* bytes that can be on their way between two ends
  MaxBytes   \* MaxBytes[x]: bytes endpoint x sends at most

Endpoint == {"client", "local"}

ASSUME RelayAssumption == Window \in Nat \ {0} /\ MaxBytes \in [Endpoint -> Nat]

Stream == {"out", "in"}
Pipe == {"pub", "out", "in", "loc"}
End == Endpoint \cup Pipe
Node == {"edge", "agent"}

VARIABLES
  sent,    \* sent[e]: bytes written on end e
  got,     \* got[e]: bytes read on end e
  state,   \* state[e]: open; shut for writing; closed; or a stream that was
           \*   forced shut because its peer did not close it in time
  aborted, \* ends that were reset
  pipe,    \* pipe[e]: copying; has read its last bytes with the error; done
  lost,    \* the agent session is gone
  idle,    \* idle_timeout is set
  cut      \* history: the session was cut by neither endpoint, but by an
           \*   eviction, Shutdown, a deadline or the loss of the agent

vars == <<sent, got, state, aborted, pipe, lost, idle, cut>>

Init ==
  /\ sent = [e \in End |-> 0]
  /\ got = [e \in End |-> 0]
  /\ state = [e \in End |-> "open"]
  /\ aborted = {}
  /\ pipe = [e \in Pipe |-> "copy"]
  /\ lost = FALSE
  /\ idle \in BOOLEAN
  /\ cut = FALSE

-----------------------------------------------------------------------------
Peer(e) ==
  CASE e = "client" -> "pub" [] e = "pub" -> "client"
    [] e = "out" -> "in"     [] e = "in" -> "out"
    [] e = "loc" -> "local"  [] e = "local" -> "loc"

\* The end that the pipe reading from e writes to.
Dst(e) ==
  CASE e = "pub" -> "out" [] e = "out" -> "pub"
    [] e = "in" -> "loc"  [] e = "loc" -> "in"

Ends(n) == IF n = "edge" THEN {"pub", "out"} ELSE {"in", "loc"}

Waiting(e) == sent[Peer(e)] - got[e]
Room(e) == sent[e] - got[Peer(e)] < Window
InHand(e) == got[e] - sent[Dst(e)]    \* in the buffer of the pipe

Closed(e) == state[e] \in {"closed", "forced"}
Finished(e) == state[e] # "open"      \* a FIN follows what e has sent

\* A socket closed here reads nothing more; a yamux stream closed here does.
\* What arrived before a reset of a socket can be read or is lost; a stream
\* that is reset gives nothing.
Readable(e) ==
  /\ Waiting(e) > 0
  /\ IF e \in Stream THEN e \notin aborted ELSE ~Closed(e)

\* Read returns an error: end of file, a reset, or a connection closed here.
ReadEnds(e) ==
  \/ e \in aborted
  \/ Waiting(e) = 0 /\ Finished(Peer(e))
  \/ IF e \in Stream THEN lost \/ state[e] = "forced" ELSE Closed(e)

WriteFails(e) == e \in aborted \/ Closed(e) \/ (e \in Stream /\ lost)

\* Types, and the bounds of every buffer.
TypeOK ==
  /\ sent \in [End -> Nat]
  /\ got \in [End -> Nat]
  /\ state \in [End -> {"open", "shut", "closed", "forced"}]
  /\ aborted \in SUBSET End
  /\ pipe \in [Pipe -> {"copy", "last", "done"}]
  /\ lost \in BOOLEAN /\ idle \in BOOLEAN /\ cut \in BOOLEAN
  /\ \A e \in End : Waiting(e) \in 0 .. Window
  /\ \A e \in Pipe : InHand(e) \in 0 .. 1

-----------------------------------------------------------------------------
\* pipe and Relay.

\* Relay has returned: both goroutines are done.
Returned(n) == \A e \in Ends(n) : pipe[e] = "done"

\* Mutant: only the connection that ended is closed.
ReturnClosingOne(e) ==
  /\ pipe' = [pipe EXCEPT ![e] = "done"]
  /\ state' = [state EXCEPT ![e] = IF @ = "open" THEN "closed" ELSE @]

\* The pipe that reads from e returns.  If it is the first of its both
\* connections are closed; Relay then waits for the other one.
Return(e) ==
  /\ pipe' = [pipe EXCEPT ![e] = "done"]
  /\ state' = [f \in End |->
       IF f \in {e, Dst(e)} /\ state[f] = "open" THEN "closed" ELSE state[f]]

\* Mutant: bytes that come together with the error are dropped.
PipeReadDroppingLast(e) ==
  /\ pipe[e] = "copy" /\ InHand(e) = 0
  /\ Readable(e)
  /\ got' = [got EXCEPT ![e] = @ + 1]
  /\ IF Waiting(e) = 1 /\ Finished(Peer(e)) THEN Return(e) ELSE UNCHANGED <<pipe, state>>
  /\ UNCHANGED <<sent, aborted, lost, idle, cut>>

\* Read returns bytes, the last ones perhaps together with the end of file.
PipeRead(e) ==
  /\ pipe[e] = "copy" /\ InHand(e) = 0
  /\ Readable(e)
  /\ got' = [got EXCEPT ![e] = @ + 1]
  /\ \/ UNCHANGED pipe
     \/ Waiting(e) = 1 /\ Finished(Peer(e)) /\ pipe' = [pipe EXCEPT ![e] = "last"]
  /\ UNCHANGED <<sent, state, aborted, lost, idle, cut>>

\* Mutant: what was written is written again when the next read has nothing.
PipeWriteAgain(e) ==
  /\ pipe[e] # "done"
  /\ ~WriteFails(Dst(e))
  /\ Room(Dst(e))
  /\ sent' = [sent EXCEPT ![Dst(e)] = @ + 1]
  /\ UNCHANGED <<got, state, aborted, pipe, lost, idle, cut>>

\* Write waits for room without a deadline.
PipeWrite(e) ==
  /\ pipe[e] # "done" /\ InHand(e) > 0
  /\ ~WriteFails(Dst(e))
  /\ Room(Dst(e))
  /\ sent' = [sent EXCEPT ![Dst(e)] = @ + 1]
  /\ UNCHANGED <<got, state, aborted, pipe, lost, idle, cut>>

\* The write fails, or the read did.
PipeEnds(e) ==
  /\ pipe[e] # "done"
  /\ IF InHand(e) > 0 THEN WriteFails(Dst(e)) ELSE pipe[e] = "last" \/ ReadEnds(e)
  /\ Return(e)
  /\ UNCHANGED <<sent, got, aborted, lost, idle, cut>>

\* The read deadline, set before each read, passes.
PipeIdle(e) ==
  /\ idle
  /\ pipe[e] = "copy" /\ InHand(e) = 0
  /\ Waiting(e) = 0
  /\ Return(e)
  /\ cut' = TRUE
  /\ UNCHANGED <<sent, got, aborted, lost, idle>>

-----------------------------------------------------------------------------
\* What the connections do by themselves.

\* A socket that is closed with bytes unread, or gets some later, resets
\* the connection.
SocketResets(e) ==
  /\ e \notin Stream
  /\ Closed(e) /\ ~Closed(Peer(e)) /\ Waiting(e) > 0
  /\ aborted' = aborted \cup {e, Peer(e)}
  /\ UNCHANGED <<sent, got, state, pipe, lost, idle, cut>>

\* StreamCloseTimeout: the peer has not closed its end ten seconds after this
\* one was closed; the stream is dropped here and reset there.
StreamTimesOut(e) ==
  /\ e \in Stream /\ ~lost
  /\ state[e] = "closed" /\ ~Closed(Peer(e)) /\ e \notin aborted
  /\ state' = [state EXCEPT ![e] = "forced"]
  /\ aborted' = aborted \cup {Peer(e)}
  /\ cut' = TRUE
  /\ UNCHANGED <<sent, got, pipe, lost, idle>>

\* The session of the agent ends: Shutdown, a new agent, a dead connection.
SessionLost ==
  /\ ~lost /\ ~cut
  /\ lost' = TRUE
  /\ cut' = TRUE
  /\ UNCHANGED <<sent, got, state, aborted, pipe, idle>>

\* evictDisallowed: CloseReset of the public connection.
Evict ==
  /\ ~Returned("edge") /\ state["pub"] = "open" /\ ~cut
  /\ state' = [state EXCEPT !["pub"] = "closed"]
  /\ aborted' = aborted \cup {"pub", "client"}
  /\ cut' = TRUE
  /\ UNCHANGED <<sent, got, pipe, lost, idle>>

\* closeTCPConns and closeAll of Shutdown.
CloseConns ==
  /\ ~Returned("edge") /\ state["pub"] = "open" /\ ~cut
  /\ state' = [state EXCEPT !["pub"] = "closed"]
  /\ cut' = TRUE
  /\ UNCHANGED <<sent, got, aborted, pipe, lost, idle>>

-----------------------------------------------------------------------------
\* The client and the local service.  What they do after the relay next to
\* them has returned, other than read, touches nobody any more.

Served(x) == ~Returned(IF x = "client" THEN "edge" ELSE "agent")

Send(x) ==
  /\ Served(x)
  /\ state[x] = "open" /\ x \notin aborted
  /\ sent[x] < MaxBytes[x] /\ Room(x)
  /\ sent' = [sent EXCEPT ![x] = @ + 1]
  /\ UNCHANGED <<got, state, aborted, pipe, lost, idle, cut>>

Receive(x) ==
  /\ Readable(x)
  /\ got' = [got EXCEPT ![x] = @ + 1]
  /\ UNCHANGED <<sent, state, aborted, pipe, lost, idle, cut>>

\* It has said everything but still listens (shutdown for writing).
Shut(x) ==
  /\ Served(x)
  /\ state[x] = "open"
  /\ state' = [state EXCEPT ![x] = "shut"]
  /\ UNCHANGED <<sent, got, aborted, pipe, lost, idle, cut>>

Hangup(x) ==
  /\ Served(x) /\ ~Closed(x)
  /\ state' = [state EXCEPT ![x] = "closed"]
  /\ UNCHANGED <<sent, got, aborted, pipe, lost, idle, cut>>

\* It dies: the connection is reset.
Die(x) ==
  /\ Served(x) /\ ~Closed(x) /\ ~cut
  /\ state' = [state EXCEPT ![x] = "closed"]
  /\ aborted' = aborted \cup {x, Peer(x)}
  /\ cut' = TRUE
  /\ UNCHANGED <<sent, got, pipe, lost, idle>>

-----------------------------------------------------------------------------
PipeSteps(e) == PipeRead(e) \/ PipeWrite(e) \/ PipeEnds(e)
Endpoints(x) == Send(x) \/ Receive(x) \/ Shut(x) \/ Hangup(x) \/ Die(x)

Next ==
  \/ \E e \in Pipe : PipeSteps(e) \/ PipeIdle(e)
  \/ \E e \in End : SocketResets(e) \/ StreamTimesOut(e)
  \/ SessionLost \/ Evict \/ CloseConns
  \/ \E x \in Endpoint : Endpoints(x)

Spec == Init /\ [][Next]_vars

\* Goroutines run, deadlines pass, a reset arrives.  Only without an
\* idle_timeout must client and service read what they are sent.
Fairness ==
  /\ \A e \in Pipe : WF_vars(PipeSteps(e)) /\ WF_vars(PipeIdle(e))
  /\ \A e \in End : WF_vars(SocketResets(e)) /\ WF_vars(StreamTimesOut(e))
  /\ \A x \in Endpoint : WF_vars(~idle /\ Receive(x))

FairSpec == Spec /\ Fairness

-----------------------------------------------------------------------------
\* Properties.

\* x finds the end of file.
SeesEnd(x) == x \notin aborted /\ Waiting(x) = 0 /\ Closed(Peer(x))

Other(x) == IF x = "client" THEN "local" ELSE "client"

\* A clean end is the truth: an endpoint that still speaks finds the end of
\* file only after the other one has said everything, and has got all of it,
\* although the first pipe that returns closes all four connections.  This
\* needs that nobody cut the session: no eviction, Shutdown, lost session,
\* idle deadline or stream that was closed for too long (then a prefix ends
\* in the same clean way), and that the other one did not hang up with bytes
\* for it on their way.
CleanEndComplete ==
  \A x \in Endpoint :
    LET y == Other(x) IN
    /\ SeesEnd(x) /\ state[x] = "open"
    /\ ~Closed(y)
    /\ ~cut
    => state[y] = "shut" /\ got[x] = sent[y]

\* Both relays return once an endpoint is gone or a pipe has returned:
\* no pipe stays blocked in a read or in a write, whatever the endpoint that
\* is left does if there is an idle_timeout, and if it reads otherwise.
RelaysEnd ==
  (\/ \E x \in Endpoint : Closed(x)
   \/ \E e \in Pipe : pipe[e] = "done")
    ~> (\A n \in Node : Returned(n))
=============================================================================
