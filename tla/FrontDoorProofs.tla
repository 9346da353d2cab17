--------------------------- MODULE FrontDoorProofs ---------------------------
(***************************************************************************)
(* Proofs about FrontDoor, for all files, clients and agents: the Edge     *)
(* starts as a whole or not at all, peeking loses no byte, requests and    *)
(* certificates go by the name the client gave.                            *)
(***************************************************************************)
EXTENDS FrontDoor, WellFoundedInduction, SequenceTheorems, FiniteSetTheorems, TLAPS

-----------------------------------------------------------------------------
\* Least and greatest numbers; the least counterexample takes the place of
\* induction.

Less == {p \in Nat \X Nat : p[1] < p[2]}

\* A set of numbers that is not empty has a least element.
LEMMA LeastNumber ==
  ASSUME NEW T, T \subseteq Nat, T # {}
  PROVE  \E x \in T : \A y \in T : x <= y
<1>1. IsWellFoundedOn(Less, Nat)
  BY NatLessThanWellFounded DEF OpToRel, Less
<1>2. PICK x \in T : \A y \in T : ~(<<y, x>> \in Less)
  BY <1>1, WFMin
<1>3. \A y \in T : ~(y < x)
  BY <1>2 DEF Less
<1> QED BY <1>3

\* Min picks it.
LEMMA MinIsLeast ==
  ASSUME NEW T, T \subseteq Nat, T # {}
  PROVE  Min(T) \in T /\ \A y \in T : Min(T) <= y
<1>1. PICK x \in T : \A y \in T : x <= y
  BY LeastNumber
<1> QED BY <1>1 DEF Min

\* Max picks the greatest element of a bounded set.
LEMMA MaxIsGreatest ==
  ASSUME NEW T, NEW n \in Nat, T \subseteq 1 .. n, T # {}
  PROVE  Max(T) \in T /\ \A y \in T : y <= Max(T)
<1> DEFINE U == {m \in Nat : \A y \in T : y <= m}
<1>1. n \in U
  OBVIOUS
<1>2. PICK m \in U : \A k \in U : m <= k
  <2>1. U \subseteq Nat /\ U # {}
    BY <1>1
  <2> HIDE DEF U
  <2> QED BY <2>1, LeastNumber
<1>3. m \in T
  <2> SUFFICES ASSUME m \notin T PROVE FALSE
    OBVIOUS
  <2>1. \A y \in T : y <= m - 1
    OBVIOUS
  <2>2. m - 1 \in Nat
    <3> PICK y \in T : TRUE
      OBVIOUS
    <3> QED BY <2>1
  <2> QED BY <1>2, <2>1, <2>2
<1> QED BY <1>2, <1>3 DEF Max

\* What is true of m and of i + 1 if it is of i is true up to n.
LEMMA UpTo ==
  ASSUME NEW m \in Nat, NEW n \in Nat, NEW T,
         m \in T, \A i \in m .. n - 1 : i \in T => i + 1 \in T
  PROVE  m .. n \subseteq T
<1> DEFINE U == {i \in m .. n : i \notin T}
<1> SUFFICES ASSUME U # {} PROVE FALSE
  OBVIOUS
<1>1. PICK i \in U : \A j \in U : i <= j
  <2>1. U \subseteq Nat
    OBVIOUS
  <2> HIDE DEF U
  <2> QED BY <2>1, LeastNumber
<1>2. i # m /\ i - 1 \in m .. n - 1 /\ i - 1 \notin U
  BY <1>1
<1> QED BY <1>1, <1>2

\* A function of m .. n that begins with c and goes on by step.
IsStep(step, m, n, V) == \A i \in m + 1 .. n : \A v \in V : step[<<i, v>>] \in V
Follows(f, step, c, m, n) ==
  f[m] = c /\ \A i \in m + 1 .. n : f[i] = step[<<i, f[i - 1]>>]

\* There is one: recursive definitions make sense.
LEMMA Recursion ==
  ASSUME NEW m \in Nat, NEW n \in Nat, m <= n, NEW V, NEW c \in V, NEW step,
         IsStep(step, m, n, V)
  PROVE  \E f \in [m .. n -> V] : Follows(f, step, c, m, n)
<1> USE DEF IsStep, Follows
<1> DEFINE Upto(k) == \E f \in [m .. k -> V] :
                        f[m] = c /\ \A i \in m + 1 .. k : f[i] = step[<<i, f[i - 1]>>]
           T == {k \in m .. n : Upto(k)}
<1>1. Upto(m)
  <2> DEFINE f == [i \in m .. m |-> c]
  <2>1. f \in [m .. m -> V] /\ f[m] = c /\ \A i \in m + 1 .. m : f[i] = step[<<i, f[i - 1]>>]
    OBVIOUS
  <2> QED BY <2>1
<1>2. ASSUME NEW k \in m .. n - 1, Upto(k) PROVE Upto(k + 1)
  <2>1. PICK f \in [m .. k -> V] :
          f[m] = c /\ \A i \in m + 1 .. k : f[i] = step[<<i, f[i - 1]>>]
    BY <1>2
  <2> DEFINE g == [i \in m .. k + 1 |-> IF i = k + 1 THEN step[<<k + 1, f[k]>>] ELSE f[i]]
  <2>2. step[<<k + 1, f[k]>>] \in V
    BY <2>1
  <2>3. g \in [m .. k + 1 -> V]
    BY <2>1, <2>2
  <2>4. g[m] = c
    BY <2>1
  <2>5. ASSUME NEW i \in m + 1 .. k + 1 PROVE g[i] = step[<<i, g[i - 1]>>]
    <3>1. g[i - 1] = f[i - 1] /\ i - 1 \in m .. k
      OBVIOUS
    <3>2. CASE i = k + 1
      <4>1. g[k + 1] = step[<<k + 1, f[k]>>] /\ i - 1 = k
        BY <3>2
      <4> HIDE DEF g
      <4> QED BY <3>1, <3>2, <4>1
    <3>3. CASE i # k + 1
      <4>1. g[i] = f[i] /\ i \in m + 1 .. k
        BY <3>3
      <4> HIDE DEF g
      <4> QED BY <2>1, <3>1, <4>1
    <3> QED BY <3>2, <3>3
  <2> HIDE DEF g
  <2> QED BY <2>3, <2>4, <2>5
<1>3. m .. n \subseteq T
  <2> HIDE DEF Upto
  <2>1. m \in T
    BY <1>1
  <2>2. ASSUME NEW i \in m .. n - 1, i \in T PROVE i + 1 \in T
    <3>1. Upto(i + 1)
      BY <1>2, <2>2
    <3> QED BY <3>1
  <2> HIDE DEF T
  <2> QED BY <2>1, <2>2, UpTo
<1> QED BY <1>3

\* What FlattenSeq computes.
LEMMA Flatten ==
  ASSUME NEW S, NEW ss \in Seq(Seq(S)), ss # <<>>
  PROVE  \E f \in [1 .. Len(ss) -> Seq(S)] :
           /\ f[1] = ss[1]
           /\ \A i \in 2 .. Len(ss) : f[i] = f[i - 1] \o ss[i]
           /\ FlattenSeq(ss) = f[Len(ss)]
<1>1. Len(ss) \in Nat /\ Len(ss) >= 1 /\ \A i \in 1 .. Len(ss) : ss[i] \in Seq(S)
  BY EmptySeq, LenProperties, ElementOfSeq
<1> DEFINE N == Len(ss)
           V == Seq(S)
           c == ss[1]
           step == [p \in (1 + 1 .. N) \X V |-> p[2] \o ss[p[1]]]
           Eq(f) == f = [i \in 1 .. N |-> IF i = 1 THEN ss[i] ELSE f[i - 1] \o ss[i]]
<1>2. ASSUME NEW i \in 1 + 1 .. N, NEW v \in V
      PROVE  step[<<i, v>>] = v \o ss[i] /\ v \o ss[i] \in V
  <2>1. step[<<i, v>>] = v \o ss[i]
    OBVIOUS
  <2>2. ss[i] \in Seq(S)
    BY <1>1
  <2> QED BY <2>1, <2>2, ConcatProperties
<1>3. PICK f \in [1 .. N -> V] :
        f[1] = c /\ \A i \in 1 + 1 .. N : f[i] = step[<<i, f[i - 1]>>]
  <2>1. IsStep(step, 1, N, V)
    <3> HIDE DEF step, V
    <3> QED BY <1>2 DEF IsStep
  <2>2. 1 \in Nat /\ N \in Nat /\ 1 <= N /\ c \in V
    BY <1>1
  <2> HIDE DEF step, N, V, c
  <2>3. \E f \in [1 .. N -> V] : Follows(f, step, c, 1, N)
    BY <2>1, <2>2, Recursion
  <2> QED BY <2>3 DEF Follows
<1> HIDE DEF step
<1>4. ASSUME NEW i \in 2 .. N PROVE f[i] = f[i - 1] \o ss[i]
  <2>1. N \in Nat
    BY <1>1
  <2> HIDE DEF V, N
  <2>2. f[i - 1] \in V /\ i \in 1 + 1 .. N
    BY <2>1, <1>3
  <2> QED BY <1>2, <1>3, <2>2
<1>5. Eq(f)
  <2>1. f = [i \in 1 .. N |-> f[i]]
    BY <1>3
  <2>2. ASSUME NEW i \in 1 .. N PROVE f[i] = IF i = 1 THEN ss[i] ELSE f[i - 1] \o ss[i]
    <3>1. CASE i = 1
      BY <1>3, <3>1
    <3>2. CASE i # 1
      <4>1. i \in 2 .. N
        BY <1>1, <3>2
      <4> QED BY <1>4, <3>2, <4>1
    <3> QED BY <3>1, <3>2
  <2> QED BY <2>1, <2>2, Zenon
<1>6. ASSUME NEW g, Eq(g) PROVE g = f
  <2> DEFINE T == {i \in 1 .. N : g[i] = f[i]}
  <2>0. \A i \in 1 .. N : g[i] = IF i = 1 THEN ss[i] ELSE g[i - 1] \o ss[i]
    BY <1>6, Zenon
  <2>1. 1 \in T
    BY <1>1, <1>3, <2>0
  <2>2. ASSUME NEW i \in 1 .. N - 1, i \in T PROVE i + 1 \in T
    <3>1. i + 1 \in 2 .. N /\ i + 1 \in 1 .. N /\ (i + 1) - 1 = i /\ i + 1 # 1
      BY <1>1
    <3>2. f[i + 1] = f[i] \o ss[i + 1]
      BY <1>4, <3>1
    <3>3. g[i + 1] = g[i] \o ss[i + 1]
      BY <2>0, <3>1
    <3> QED BY <2>2, <3>1, <3>2, <3>3
  <2>3. 1 .. N \subseteq T
    <3> HIDE DEF T
    <3> QED BY <1>1, <2>1, <2>2, UpTo
  <2>4. g = [i \in 1 .. N |-> g[i]]
    <3>1. DOMAIN g = 1 .. N
      BY <1>6
    <3> QED BY <1>6, <3>1
  <2>5. \A i \in 1 .. N : g[i] = f[i]
    BY <2>3
  <2>6. f = [i \in 1 .. N |-> f[i]]
    BY <1>3
  <2> HIDE DEF Eq
  <2> QED BY <2>4, <2>5, <2>6
<1>7. FlattenSeq(ss) = (CHOOSE g : Eq(g))[N]
  BY <1>1 DEF FlattenSeq
<1>8. Eq(CHOOSE g : Eq(g))
  <2> HIDE DEF Eq
  <2> QED BY <1>5
<1>9. (CHOOSE g : Eq(g)) = f
  <2> HIDE DEF Eq
  <2> QED BY <1>6, <1>8
<1> QED BY <1>1, <1>3, <1>4, <1>7, <1>9
-----------------------------------------------------------------------------
\* Steps of the server and steps of the connection.

ServerStep ==
  \/ Load \/ Started
  \/ \E s \in Wanted : Bind(s) \/ BindFails(s)
  \/ \E s \in socks : CertsLoaded(s) \/ CertsUnreadable(s)

ConnStep ==
  \/ \E p \in Publics(conf), c \in Clients : Accept(p, c)
  \/ ReadRecord \/ HelloPeeked \/ Handshake \/ HandshakeFails
  \/ \E n \in 1 .. MaxPeek + 2 : ReadHead(n)
  \/ HeadPeeked \/ PeekRefuses \/ ReadFails
  \/ Handle \/ AnswerHere \/ HTTP1Ends
  \/ Refuse \/ \E a \in Agents : Dial(a)

\* A step is one or the other, and leaves the state of the other alone.
LEMMA Split ==
  ASSUME [Next]_vars
  PROVE  (ServerStep /\ UNCHANGED conn) \/ (ConnStep /\ UNCHANGED srv) \/ UNCHANGED vars
<1>1. CASE ServerStep
  BY <1>1 DEF ServerStep, Load, Started, Bind, BindFails, CertsLoaded, CertsUnreadable
<1>2. CASE ConnStep
  BY <1>2 DEF ConnStep, Accept, ReadRecord, HelloPeeked, Handshake, HandshakeFails,
     ReadHead, HeadPeeked, PeekRefuses, ReadFails, Handle, AnswerHere, HTTP1Ends, Refuse, Dial
<1> QED BY <1>1, <1>2 DEF Next, ServerStep, ConnStep

\* A connection is there only while the Edge is up.
LEMMA ConnNeedsUp ==
  ASSUME ConnStep
  PROVE  (edge = "up" /\ phase = "none") \/ phase # "none" \/ meta # <<>>
  BY DEF ConnStep, Accept, ReadRecord, HelloPeeked, Handshake, HandshakeFails,
     ReadHead, HeadPeeked, PeekRefuses, ReadFails, Waits, Handle, AnswerHere, HTTP1Ends, Refuse, Dial

-----------------------------------------------------------------------------
\* Start.

\* Of the sockets only one at a time is not entered for closeListeners.
Sockets ==
  /\ edge \in {"text", "refused", "starting", "up", "failed"}
  /\ edge \in {"text", "refused"} => socks = {} /\ held = {}
  /\ edge = "failed" => socks = {}
  /\ edge = "starting" => held \subseteq socks /\ \A s, r \in socks \ held : s = r
  /\ edge = "up" => held = Wanted

\* What is in force is what LoadEdge makes of the file, and was accepted.
Loaded ==
  /\ file \in Files
  /\ edge = "text" => conf = file
  /\ edge # "text" => conf = LoadEdge(file)
  /\ edge \in {"starting", "up", "failed"} => ValidateEdge(conf)

LEMMA SocketsPreserved ==
  ASSUME Sockets, [Next]_vars
  PROVE  Sockets'
<1>1. CASE UNCHANGED srv
  BY <1>1 DEF Sockets, srv, Wanted
<1>2. CASE Load
  <2>1. socks' = {} /\ held' = {} /\ edge' \in {"starting", "refused"}
    BY <1>2 DEF Sockets, Load
  <2> QED BY <2>1 DEF Sockets
<1>3. CASE Started
  BY <1>3 DEF Sockets, Started, Wanted
<1>4. ASSUME NEW s \in Wanted, Bind(s) PROVE Sockets'
  <2>1. s \notin socks /\ socks \subseteq held
    BY <1>4 DEF Bind, NextToBind, Pending
  <2>2. edge' = "starting" /\ socks' = socks \cup {s}
    BY <1>4 DEF Bind
  <2>3. held' \in {held, held \cup {s}}
    BY <1>4 DEF Bind
  <2>4. held \subseteq socks
    BY <1>4 DEF Bind, Sockets
  <2> QED BY <2>1, <2>2, <2>3, <2>4 DEF Sockets
<1>5. ASSUME NEW s \in Wanted, BindFails(s) PROVE Sockets'
  BY <1>5 DEF Sockets, BindFails, Pending
<1>6. ASSUME NEW s \in socks, CertsLoaded(s) PROVE Sockets'
  BY <1>6 DEF Sockets, CertsLoaded, Pending
<1>7. ASSUME NEW s \in socks, CertsUnreadable(s) PROVE Sockets'
  <2>1. edge' = "failed" /\ socks' = (socks \ {s}) \ held
    BY <1>7 DEF CertsUnreadable
  <2>2. s \in socks \ held /\ \A r \in socks \ held : s = r
    BY <1>7 DEF CertsUnreadable, Sockets, Pending
  <2>3. socks' = {}
    BY <2>1, <2>2
  <2> QED BY <2>1, <2>3 DEF Sockets
<1> QED BY <1>1, <1>2, <1>3, <1>4, <1>5, <1>6, <1>7, Split DEF ServerStep, vars, srv

LEMMA LoadedPreserved ==
  ASSUME Loaded, [Next]_vars
  PROVE  Loaded'
<1>1. CASE UNCHANGED srv
  BY <1>1 DEF Loaded, srv
<1>2. CASE Load
  <2>1. file' = file /\ file \in Files /\ conf' = LoadEdge(file) /\ edge' # "text"
    BY <1>2 DEF Loaded, Load
  <2>2. edge' \in {"starting", "up", "failed"} => ValidateEdge(conf')
    BY <1>2 DEF Load
  <2> QED BY <2>1, <2>2 DEF Loaded
<1>3. CASE Started
  BY <1>3 DEF Loaded, Started
<1>4. ASSUME NEW s, Bind(s) \/ BindFails(s) \/ CertsLoaded(s) \/ CertsUnreadable(s) PROVE Loaded'
  BY <1>4 DEF Loaded, Bind, BindFails, CertsLoaded, CertsUnreadable
<1> QED BY <1>1, <1>2, <1>3, <1>4, Split DEF ServerStep, vars, srv
-----------------------------------------------------------------------------
\* Moving units from what was not read to what was.

LEMMA ReadOne ==
  ASSUME NEW U, NEW r \in Seq(U), NEW i \in Seq(U), i # <<>>
  PROVE  /\ Append(r, Head(i)) \in Seq(U) /\ Tail(i) \in Seq(U)
         /\ Append(r, Head(i)) \o Tail(i) = r \o i
<1>1. Head(i) \in U /\ Tail(i) \in Seq(U) /\ Head(i) = i[1]
  BY HeadTailProperties
<1>2. i = <<Head(i)>> \o Tail(i)
  <2>1. Len(i) \in Nat /\ Len(i) >= 1
    BY EmptySeq, LenProperties
  <2>2. SubSeq(i, 1, Len(i)) = <<i[1]>> \o SubSeq(i, 2, Len(i))
    BY <2>1, SubSeqRecursiveFirst
  <2> QED BY <1>1, <2>2, SubSeqFull, TailIsSubSeq
<1>3. Append(r, Head(i)) = r \o <<Head(i)>>
  BY <1>1, AppendIsConcat
<1>4. <<Head(i)>> \in Seq(U)
  BY <1>1
<1>5. (r \o <<Head(i)>>) \o Tail(i) = r \o (<<Head(i)>> \o Tail(i))
  BY <1>1, <1>4, ConcatAssociative
<1> QED BY <1>1, <1>2, <1>3, <1>5

LEMMA Regroup ==
  ASSUME NEW U, NEW r \in Seq(U), NEW a \in Seq(U), NEW b \in Seq(U)
  PROVE  (r \o a) \o b = r \o (a \o b)
  BY ConcatAssociative

LEMMA ReadSome ==
  ASSUME NEW U, NEW r \in Seq(U), NEW i \in Seq(U), NEW n \in 1 .. Len(i)
  PROVE  /\ r \o SubSeq(i, 1, n) \in Seq(U) /\ SubSeq(i, n + 1, Len(i)) \in Seq(U)
         /\ (r \o SubSeq(i, 1, n)) \o SubSeq(i, n + 1, Len(i)) = r \o i
<1> DEFINE a == SubSeq(i, 1, n)
           b == SubSeq(i, n + 1, Len(i))
<1>1. Len(i) \in Nat /\ \A j \in 1 .. Len(i) : i[j] \in U
  BY LenProperties, ElementOfSeq
<1>2. a \in Seq(U)
  BY <1>1, SubSeqProperties
<1>3. b \in Seq(U)
  BY <1>1, SubSeqProperties
<1>4. a \o b = i
  BY <1>1, ConcatAdjacentSubSeq, SubSeqFull
<1> HIDE DEF a, b
<1>5. r \o a \in Seq(U)
  BY <1>2, ConcatProperties
<1>6. (r \o a) \o b = r \o (a \o b)
  BY <1>2, <1>3, Regroup, SMTT(60)
<1> QED BY <1>3, <1>4, <1>5, <1>6 DEF a, b

\* What is left of a suffix after its first n units is a shorter suffix.
LEMMA Shorter ==
  ASSUME NEW U, NEW s \in Seq(U), NEW u \in Nat, NEW n \in Nat,
         NEW t, t = SubSeq(s, u + 1, Len(s)), n <= Len(t)
  PROVE  SubSeq(t, n + 1, Len(t)) = SubSeq(s, u + n + 1, Len(s))
<1>1. Len(s) \in Nat /\ \A j \in 1 .. Len(s) : s[j] \in U
  BY LenProperties, ElementOfSeq
<1>2. CASE u + 1 <= Len(s)
  <2>1. Len(t) = Len(s) - u /\ \A j \in 1 .. Len(s) - u : t[j] = s[u + j]
    BY <1>1, <1>2, SubSeqProperties
  <2>2. \A j \in n + 1 .. Len(t) : t[j] \in U
    BY <1>1, <2>1
  <2>3. /\ SubSeq(t, n + 1, Len(t)) \in Seq(U)
        /\ Len(SubSeq(t, n + 1, Len(t))) = IF n + 1 <= Len(t) THEN Len(t) - n ELSE 0
        /\ \A j \in 1 .. Len(t) - n : SubSeq(t, n + 1, Len(t))[j] = t[n + j]
    BY <1>1, <2>1, <2>2, SubSeqProperties
  <2>4. \A j \in u + n + 1 .. Len(s) : s[j] \in U
    BY <1>1
  <2>5. /\ SubSeq(s, u + n + 1, Len(s)) \in Seq(U)
        /\ Len(SubSeq(s, u + n + 1, Len(s))) = IF u + n + 1 <= Len(s) THEN Len(s) - (u + n) ELSE 0
        /\ \A j \in 1 .. Len(s) - (u + n) : SubSeq(s, u + n + 1, Len(s))[j] = s[u + n + j]
    <3> DEFINE m == u + n + 1
    <3>1. m \in Int /\ \A j \in m .. Len(s) : s[j] \in U
      BY <1>1, <2>4
    <3> HIDE DEF m
    <3>2. /\ SubSeq(s, m, Len(s)) \in Seq(U)
          /\ Len(SubSeq(s, m, Len(s))) = IF m <= Len(s) THEN Len(s) - m + 1 ELSE 0
          /\ \A j \in 1 .. Len(s) - m + 1 : SubSeq(s, m, Len(s))[j] = s[m + j - 1]
      BY <1>1, <3>1, SubSeqProperties
    <3> QED BY <1>1, <3>2 DEF m
  <2>6. Len(SubSeq(t, n + 1, Len(t))) = Len(SubSeq(s, u + n + 1, Len(s)))
    BY <1>1, <2>1, <2>3, <2>5
  <2>7. \A j \in 1 .. Len(SubSeq(t, n + 1, Len(t))) :
          SubSeq(t, n + 1, Len(t))[j] = SubSeq(s, u + n + 1, Len(s))[j]
    BY <1>1, <2>1, <2>3, <2>5
  <2> QED BY <2>3, <2>5, <2>6, <2>7, SeqEqual
<1>3. CASE ~(u + 1 <= Len(s))
  <2>1. t = <<>>
    BY <1>1, <1>3, SubSeqEmpty
  <2>2. Len(t) = 0
    BY <2>1, Zenon, EmptySeq
  <2>3. n = 0
    BY <2>2
  <2> QED BY <1>1, <1>3, <2>1, <2>2, <2>3, SubSeqEmpty
<1> QED BY <1>2, <1>3
-----------------------------------------------------------------------------
\* What the client sent.

Seqs ==
  /\ in \in Seq(Unit) /\ raw \in Seq(Unit) /\ prefix \in Seq(Unit)
  /\ client.hello \in Seq(Unit) /\ client.http \in Seq(Unit)
  /\ used \in Nat

\* Where the units are in each phase.
Kept ==
  /\ phase = "none" => raw = <<>> /\ prefix = <<>> /\ cert = <<>> /\ used = 0
  /\ phase = "hello" => /\ raw \o in = client.hello \o client.http
                        /\ prefix = <<>> /\ cert = <<>> /\ used = 0
  /\ phase = "tls" => /\ prefix \o in = client.hello \o client.http
                      /\ raw = <<>> /\ cert = <<>> /\ used = 0
  /\ phase = "peek" => raw \o in = Sent /\ prefix = <<>> /\ used = 0
  /\ NothingSwallowed

Phases == {"none", "hello", "tls", "peek", "http1", "splice", "relay", "closed"}

StreamInv == Seqs /\ Kept

\* A request that is complete is a part of the stream.
LEMMA RequestFact ==
  ASSUME NEW s \in Seq(Unit), Complete(s)
  PROVE  LET n == Min({i \in DOMAIN s : s[i].k \in {"end", "short"}}) IN
         /\ n \in 1 .. Len(s)
         /\ SubSeq(s, 1, n) \in Seq(Unit) /\ Len(SubSeq(s, 1, n)) = n
<1> DEFINE E == {i \in DOMAIN s : s[i].k \in {"end", "short"}}
<1>1. Len(s) \in Nat /\ DOMAIN s = 1 .. Len(s) /\ \A j \in 1 .. Len(s) : s[j] \in Unit
  BY LenProperties, ElementOfSeq
<1>2. E \subseteq Nat /\ E # {} /\ E \subseteq 1 .. Len(s)
  BY <1>1 DEF Complete
<1>3. Min(E) \in E
  <2> HIDE DEF E
  <2> QED BY <1>2, MinIsLeast
<1>4. Min(E) \in 1 .. Len(s)
  BY <1>2, <1>3
<1>5. ASSUME NEW n \in 1 .. Len(s)
      PROVE  SubSeq(s, 1, n) \in Seq(Unit) /\ Len(SubSeq(s, 1, n)) = n
  BY <1>1, SubSeqProperties
<1> QED BY <1>4, <1>5

\* net/http consumes what it reads from the front.
LEMMA ConsumeFact ==
  ASSUME StreamInv, phase = "http1", Complete(Stream), Consume
  PROVE  /\ in' \in Seq(Unit) /\ prefix' = <<>> /\ used' \in Nat
         /\ prefix' \o in' = SubSeq(Sent, used' + 1, Len(Sent))
<1>1. Stream \in Seq(Unit) /\ Sent \in Seq(Unit) /\ used \in Nat
  BY ConcatProperties DEF StreamInv, Seqs, Stream, Sent
<1>2. Stream = SubSeq(Sent, used + 1, Len(Sent))
  BY DEF StreamInv, Kept, NothingSwallowed
<1>3. Len(Request) \in 1 .. Len(Stream)
  BY <1>1, RequestFact DEF Request
<1> DEFINE n == Len(Request)
<1>4. Len(Stream) \in Nat /\ n \in Nat /\ n <= Len(Stream)
  BY <1>1, <1>3, LenProperties
<1>5. used' = used + n /\ prefix' = <<>> /\ in' = SubSeq(Stream, n + 1, Len(Stream))
  BY DEF Consume
<1>6. in' = SubSeq(Sent, used + n + 1, Len(Sent))
  <2> HIDE DEF n
  <2> QED BY <1>1, <1>2, <1>4, <1>5, Shorter
<1>7. in' \in Seq(Unit)
  <2> HIDE DEF n
  <2>1. \A j \in n + 1 .. Len(Stream) : Stream[j] \in Unit
    BY <1>1, <1>4, ElementOfSeq
  <2> QED BY <1>4, <1>5, <2>1, SubSeqProperties
<1>8. prefix' \o in' = in'
  BY <1>5, <1>7, ConcatEmptySeq
<1> HIDE DEF n
<1>9. used' \in Nat /\ used' + 1 = used + n + 1
  BY <1>1, <1>4, <1>5
<1> QED BY <1>5, <1>6, <1>7, <1>8, <1>9

LEMMA StreamPreserved ==
  ASSUME StreamInv, phase \in Phases, [Next]_vars
  PROVE  StreamInv'
<1> USE DEF StreamInv
<1>0. Seqs /\ Kept
  OBVIOUS
<1>1. CASE UNCHANGED conn
  BY <1>1 DEF Seqs, Kept, conn, Sent, NothingSwallowed, Stream
<1>2. ASSUME NEW p, NEW c \in Clients, Accept(p, c) PROVE StreamInv'
  <2>1. c.hello \in Seq(Unit) /\ c.http \in Seq(Unit)
    BY ClientsAssumption
  <2>2. c.hello \o c.http \in Seq(Unit)
    BY <2>1, ConcatProperties
  <2>3. /\ client' = c /\ in' = c.hello \o c.http /\ phase' \in {"hello", "peek"}
        /\ raw' = <<>> /\ prefix' = <<>> /\ used' = 0 /\ cert' = <<>>
    BY <1>2 DEF Accept, Kept
  <2>4. raw' \o in' = c.hello \o c.http
    BY <2>2, <2>3, ConcatEmptySeq
  <2>5. Seqs'
    BY <2>1, <2>2, <2>3, EmptySeq DEF Seqs
  <2>6. Kept'
    BY <2>3, <2>4 DEF Kept, Sent, NothingSwallowed
  <2> QED BY <2>5, <2>6
<1>3. CASE ReadRecord
  <2>1. phase = "hello" /\ in # <<>> /\ raw' = Append(raw, Head(in)) /\ in' = Tail(in)
    BY <1>3 DEF ReadRecord
  <2>2. UNCHANGED <<phase, prefix, used, client, cert>>
    BY <1>3 DEF ReadRecord, link
  <2>3. raw' \in Seq(Unit) /\ in' \in Seq(Unit) /\ raw' \o in' = raw \o in
    BY <2>1, <1>0, ReadOne DEF Seqs
  <2>4. Seqs'
    BY <2>2, <2>3, <1>0 DEF Seqs
  <2>5. Kept'
    BY <2>1, <2>2, <2>3, <1>0 DEF Kept, NothingSwallowed
  <2> QED BY <2>4, <2>5
<1>4. CASE HelloPeeked
  <2>1. phase = "hello" /\ raw' = <<>> /\ UNCHANGED <<client, in, used, cert>>
    BY <1>4 DEF HelloPeeked
  <2>2. \/ phase' = "closed" /\ prefix' = prefix
        \/ phase' \in {"splice", "tls"} /\ prefix' = raw
    BY <1>4 DEF HelloPeeked, Close, Splice
  <2>3. Seqs'
    BY <2>1, <2>2, <1>0, EmptySeq DEF Seqs
  <2>4. raw \o in = client.hello \o client.http /\ cert = <<>> /\ used = 0
    BY <2>1, <1>0 DEF Kept
  <2>5. Kept'
    BY <2>1, <2>2, <2>4 DEF Kept, NothingSwallowed, Stream, Sent
  <2> QED BY <2>3, <2>5
<1>5. CASE Handshake
  <2>1. phase = "tls" /\ prefix = client.hello /\ UNCHANGED <<client, in, raw, used>>
    BY <1>5 DEF Handshake
  <2>2. raw = <<>> /\ used = 0 /\ prefix \o in = client.hello \o client.http
    BY <2>1, <1>0 DEF Kept
  <2>3. in = client.http
    BY <2>1, <2>2, <1>0, ConcatSimplifications DEF Seqs
  <2>4. cert' # <<>>
    BY <1>5 DEF Handshake
  <2>5. \/ phase' = "closed" /\ prefix' = prefix
        \/ phase' \in {"splice", "peek"} /\ prefix' = <<>>
    BY <1>5 DEF Handshake, Close, Splice
  <2>6. Seqs'
    BY <2>1, <2>5, <1>0, EmptySeq DEF Seqs
  <2>7. <<>> \o in = client.http
    BY <2>3, <1>0, ConcatEmptySeq DEF Seqs
  <2>8. Kept'
    BY <2>1, <2>2, <2>4, <2>5, <2>7 DEF Kept, NothingSwallowed, Stream, Sent
  <2> QED BY <2>6, <2>8
<1>6. CASE phase' = "closed" /\ UNCHANGED <<prefix, client, in, raw, used>>
  BY <1>6, <1>0 DEF Seqs, Kept, NothingSwallowed
<1>7. CASE HandshakeFails \/ PeekRefuses \/ HTTP1Ends
  BY <1>6, <1>7 DEF HandshakeFails, PeekRefuses, HTTP1Ends, Close, link
<1>8. ASSUME NEW n, ReadHead(n) PROVE StreamInv'
  <2>1. /\ phase = "peek" /\ n \in 1 .. Len(in)
        /\ raw' = raw \o SubSeq(in, 1, n) /\ in' = SubSeq(in, n + 1, Len(in))
    BY <1>8 DEF ReadHead
  <2>2. UNCHANGED <<phase, prefix, used, client, cert>>
    BY <1>8 DEF ReadHead, link
  <2>3. raw' \in Seq(Unit) /\ in' \in Seq(Unit) /\ raw' \o in' = raw \o in
    BY <2>1, <1>0, ReadSome DEF Seqs
  <2>4. Seqs'
    BY <2>2, <2>3, <1>0 DEF Seqs
  <2>5. Kept'
    BY <2>1, <2>2, <2>3, <1>0 DEF Kept, NothingSwallowed, Sent
  <2> QED BY <2>4, <2>5
<1>9. ASSUME ServeHTTP1, phase = "peek", UNCHANGED <<client, in, used, cert>> PROVE StreamInv'
  <2>1. phase' = "http1" /\ prefix' = raw /\ raw' = <<>>
    BY <1>9 DEF ServeHTTP1
  <2>2. raw \o in = Sent /\ used = 0
    BY <1>9, <1>0 DEF Kept
  <2>3. Sent \in Seq(Unit)
    BY <1>0, ConcatProperties DEF Seqs, Sent
  <2>4. Sent = SubSeq(Sent, 0 + 1, Len(Sent))
    BY <2>3, SubSeqFull
  <2>5. Seqs'
    BY <1>9, <2>1, <1>0, EmptySeq DEF Seqs
  <2>6. Kept'
    BY <1>9, <2>1, <2>2, <2>4 DEF Kept, NothingSwallowed, Stream, Sent
  <2> QED BY <2>5, <2>6
<1>10. CASE HeadPeeked
  <2>1. phase = "peek" /\ UNCHANGED <<client, in, used, cert>>
    BY <1>10 DEF HeadPeeked, link
  <2>2. \/ ServeHTTP1
        \/ phase' = "closed" /\ prefix' = prefix /\ raw' = <<>>
        \/ phase' = "splice" /\ prefix' = raw /\ raw' = <<>>
    BY <1>10 DEF HeadPeeked, Close, Splice
  <2>3. CASE raw' = <<>> /\ phase' \in {"closed", "splice"} /\ prefix' \in {prefix, raw}
              /\ (phase' = "splice" => prefix' = raw)
    <3>1. Seqs'
      BY <2>1, <2>3, <1>0, EmptySeq DEF Seqs
    <3>2. Kept'
      BY <2>1, <2>3, <1>0 DEF Kept, NothingSwallowed, Stream, Sent
    <3> QED BY <3>1, <3>2
  <2> QED BY <1>9, <2>1, <2>2, <2>3
<1>11. CASE ReadFails
  <2>1. UNCHANGED <<client, in, used, cert>>
    BY <1>11 DEF ReadFails, link
  <2>2. (phase = "peek" /\ ServeHTTP1) \/ (phase' = "closed" /\ UNCHANGED <<prefix, raw>>)
    BY <1>11 DEF ReadFails, Close
  <2> QED BY <1>6, <1>9, <2>1, <2>2
<1>12. CASE Handle \/ AnswerHere
  <2>1. /\ phase = "http1" /\ Complete(Stream) /\ Consume
        /\ UNCHANGED <<phase, raw, client, cert>>
    BY <1>12 DEF Handle, AnswerHere, link
  <2>2. /\ in' \in Seq(Unit) /\ prefix' = <<>> /\ used' \in Nat
        /\ prefix' \o in' = SubSeq(Sent, used' + 1, Len(Sent))
    BY <2>1, ConsumeFact
  <2>3. Seqs'
    BY <2>1, <2>2, <1>0, EmptySeq DEF Seqs
  <2>4. Sent' = Sent
    BY <2>1 DEF Sent
  <2>5. Kept'
    BY <2>1, <2>2, <2>4 DEF Kept, NothingSwallowed, Stream
  <2> QED BY <2>3, <2>5
<1>13. ASSUME Refuse \/ \E a \in Agents : Dial(a)
       PROVE  StreamInv'
  <2>1. meta # <<>> /\ UNCHANGED <<in, raw, prefix, used, client, cert>>
    BY <1>13 DEF Refuse, Dial, link
  <2>2. phase' = phase \/ (phase = "splice" /\ phase' \in {"relay", "closed"})
    BY <1>13 DEF Refuse, Dial, Answered
  <2>3. Seqs'
    BY <2>1, <1>0 DEF Seqs
  <2>4. Kept'
    BY <2>1, <2>2, <1>0 DEF Kept, NothingSwallowed, Stream, Sent
  <2> QED BY <2>3, <2>4
<1> QED
  <2>1. ASSUME ConnStep PROVE StreamInv'
    BY <2>1, <1>2, <1>3, <1>4, <1>5, <1>7, <1>8, <1>10, <1>11, <1>12, <1>13 DEF ConnStep
  <2> QED BY <1>1, <2>1, Split DEF vars, conn
-----------------------------------------------------------------------------
\* Types.

\* The part of TypeOK that the connection has to keep, and that there is none
\* before the Edge is up.
Shape ==
  /\ phase \in Phases
  /\ phase # "none" => edge = "up"
  /\ Len(cert) <= 1 /\ Len(meta) <= 1 /\ Len(dial) <= 1
  /\ meta # <<>> => phase \in {"http1", "splice"}
  /\ prefix # <<>> => phase \in {"tls", "http1", "splice", "relay", "closed"}

LEMMA ShapePreserved ==
  ASSUME Shape, StreamInv, [Next]_vars
  PROVE  Shape'
<1>0. Len(<<>>) <= 1 /\ \A x : Len(<<x>>) <= 1
  OBVIOUS
<1>1. CASE ServerStep /\ UNCHANGED conn
  <2>1. edge = "up" => FALSE
    BY <1>1 DEF ServerStep, Load, Started, Bind, BindFails, CertsLoaded, CertsUnreadable
  <2> QED BY <1>1, <2>1 DEF Shape, conn
<1>2. CASE UNCHANGED vars
  BY <1>2 DEF Shape, vars
<1> SUFFICES ASSUME ConnStep, UNCHANGED srv PROVE Shape'
  BY <1>1, <1>2, Split
<1>3. edge = "up" /\ edge' = "up"
  BY ConnNeedsUp DEF srv, Shape
<1>4. ASSUME NEW p, NEW c, Accept(p, c) PROVE Shape'
  BY <1>3, <1>4 DEF Accept, Shape, Phases
<1>5. CASE ReadRecord \/ \E n \in 1 .. MaxPeek + 2 : ReadHead(n)
  BY <1>5 DEF ReadRecord, ReadHead, Shape, link, srv
<1>6. CASE HelloPeeked
  <2>1. phase = "hello" /\ UNCHANGED <<cert, dial>> /\ meta = <<>> /\ prefix = <<>>
    BY <1>6 DEF HelloPeeked, Shape
  <2>2. \/ phase' = "closed" /\ meta' = meta /\ prefix' = prefix
        \/ phase' = "splice" /\ Len(meta') <= 1
        \/ phase' = "tls" /\ meta' = meta
    BY <1>6, <1>0 DEF HelloPeeked, Close, Splice
  <2> QED BY <1>0, <1>3, <2>1, <2>2 DEF Shape, Phases
<1>7. CASE Handshake
  <2>1. phase = "tls" /\ dial' = dial /\ meta = <<>> /\ Len(cert') <= 1
    BY <1>7, <1>0 DEF Handshake, Shape
  <2>2. \/ phase' = "closed" /\ meta' = meta
        \/ phase' = "splice" /\ Len(meta') <= 1
        \/ phase' = "peek" /\ meta' = meta /\ prefix' = <<>>
    BY <1>7, <1>0 DEF Handshake, Close, Splice
  <2> QED BY <1>0, <1>3, <2>1, <2>2 DEF Shape, Phases
<1>8. CASE HandshakeFails \/ PeekRefuses \/ HTTP1Ends
  <2>1. phase' = "closed" /\ UNCHANGED <<meta, cert, dial>>
    BY <1>8 DEF HandshakeFails, PeekRefuses, HTTP1Ends, Close, link
  <2>2. meta = <<>>
    BY <1>8 DEF HandshakeFails, PeekRefuses, HTTP1Ends, Shape
  <2> QED BY <1>3, <2>1, <2>2 DEF Shape, Phases
<1>9. CASE HeadPeeked \/ ReadFails
  <2>1. UNCHANGED <<cert, dial>> /\ phase \in {"hello", "peek"} /\ meta = <<>>
    BY <1>9 DEF HeadPeeked, ReadFails, Waits, Shape, link
  <2>2. \/ phase' \in {"closed", "http1"} /\ meta' = meta
        \/ phase' = "splice" /\ Len(meta') <= 1
    BY <1>9, <1>0 DEF HeadPeeked, ReadFails, Close, Splice, ServeHTTP1
  <2> QED BY <1>0, <1>3, <2>1, <2>2 DEF Shape, Phases
<1>10. CASE Handle \/ AnswerHere
  <2>1. phase = "http1" /\ UNCHANGED <<phase, cert, dial>> /\ prefix' = <<>>
    BY <1>10 DEF Handle, AnswerHere, Consume, link
  <2>2. meta' = meta \/ Len(meta') <= 1
    BY <1>10, <1>0 DEF Handle, AnswerHere
  <2> QED BY <1>0, <1>3, <2>1, <2>2 DEF Shape, Phases
<1>11. CASE Refuse \/ \E a \in Agents : Dial(a)
  <2>1. meta' = <<>> /\ UNCHANGED <<cert, prefix>>
    BY <1>11 DEF Refuse, Dial, Answered, link
  <2>4. Len(dial') <= 1
    <3>1. CASE Refuse
      BY <3>1, <1>0 DEF Refuse
    <3>2. ASSUME NEW a \in Agents, Dial(a) PROVE Len(dial') <= 1
      <4>1. \E x : dial' = <<x>>
        BY <3>2 DEF Dial
      <4> QED BY <4>1, <1>0
    <3> QED BY <1>11, <3>1, <3>2
  <2>2. phase \in {"http1", "splice"}
    BY <1>11 DEF Refuse, Dial, Shape
  <2>3. IF phase = "splice" THEN phase' \in {"relay", "closed"} ELSE phase' = phase
    BY <1>11 DEF Refuse, Dial, Answered
  <2> QED BY <1>0, <1>3, <2>1, <2>2, <2>3, <2>4 DEF Shape, Phases
<1> QED BY <1>4, <1>5, <1>6, <1>7, <1>8, <1>9, <1>10, <1>11 DEF ConnStep

-----------------------------------------------------------------------------
\* The inductive invariant.

Inv == Sockets /\ Loaded /\ Shape /\ StreamInv

LEMMA InvStart == Init => Inv
<1> SUFFICES ASSUME Init PROVE Inv
  OBVIOUS
<1>1. Sockets /\ Loaded
  BY DEF Init, Sockets, Loaded
<1>2. Shape
  BY DEF Init, Shape, Phases
<1>3. StreamInv
  <2>1. client.hello = <<>> /\ client.http = <<>>
    BY DEF Init, NoClient
  <2>2. Seqs
    BY <2>1, EmptySeq DEF Init, Seqs
  <2>3. Kept
    BY DEF Init, Kept, NothingSwallowed
  <2> QED BY <2>2, <2>3 DEF StreamInv
<1> QED BY <1>1, <1>2, <1>3 DEF Inv

LEMMA InvStep == Inv /\ [Next]_vars => Inv'
<1> SUFFICES ASSUME Inv, [Next]_vars PROVE Inv'
  OBVIOUS
<1> USE DEF Inv
<1>1. Sockets' /\ Loaded'
  BY SocketsPreserved, LoadedPreserved
<1>2. Shape'
  BY ShapePreserved
<1>3. StreamInv'
  BY StreamPreserved DEF Shape
<1> QED BY <1>1, <1>2, <1>3

LEMMA InvHolds == Spec => []Inv
<1> QED BY InvStart, InvStep, PTL DEF Spec

\* TypeOK holds for all files, clients and agents: in particular no socket of
\* the Edge is left after Start has failed or the file was refused, and the
\* agent is asked only for a connection that is in one of the two phases that
\* wait for it.
THEOREM TypeCorrect == Spec => []TypeOK
<1>1. Inv => TypeOK
  BY DEF Inv, Sockets, Shape, TypeOK, Phases
<1> QED BY <1>1, InvHolds, PTL

\* Peeking takes nothing away (PeekClientHello, PeekHTTP, WithPrefix): however
\* the bytes are cut into reads, and whether TLS ends at the Edge or not, the
\* tunnel or net/http gets what the client sent, from the first byte on.
THEOREM NoneSwallowed == Spec => []NothingSwallowed
<1>1. Inv => NothingSwallowed
  BY DEF Inv, StreamInv, Kept
<1> QED BY <1>1, InvHolds, PTL
-----------------------------------------------------------------------------
\* Names.

\* A generated name is not in use.
LEMMA UniqueNameFact ==
  ASSUME NEW B, NEW base \in Seq(B), NEW U, IsFiniteSet(U)
  PROVE  /\ uniqueName(base, U) \notin U
         /\ uniqueName(base, U) = base \/ \E k \in Nat : uniqueName(base, U) = Append(base, k)
<1>1. CASE base \notin U
  BY <1>1 DEF uniqueName
<1>2. CASE base \in U
  <2> DEFINE n == Cardinality(U)
             free == {i \in 2 .. n + 2 : Append(base, i) \notin U}
  <2>1. n \in Nat
    BY FS_CardinalityType
  <2>2. free # {}
    <3> SUFFICES ASSUME free = {} PROVE FALSE
      OBVIOUS
    <3> DEFINE b == n + 2
               D == 2 .. b
               f == [i \in D |-> Append(base, i)]
    <3>1. f \in [D -> U]
      OBVIOUS
    <3>2. IsFiniteSet(D) /\ Cardinality(D) = n + 1
      <4>1. b \in Int /\ 2 \in Int /\ b >= 2 /\ b - 2 + 1 = n + 1
        BY <2>1
      <4> HIDE DEF b, n
      <4> QED BY <4>1, FS_Interval
    <3>3. Cardinality(U) < Cardinality(D)
      BY <2>1, <3>2
    <3>4. PICK i, j \in D : i # j /\ f[i] = f[j]
      <4> HIDE DEF f, D
      <4> QED BY <3>1, <3>2, <3>3, FS_PigeonHole
    <3>5. Append(base, i) = Append(base, j)
      BY <3>4
    <3>6. base \in Seq(B \cup Nat) /\ i \in B \cup Nat /\ j \in B \cup Nat
      BY <2>1, SeqMonotonic
    <3> QED BY <3>4, <3>5, <3>6, AppendInjective
  <2>3. free \subseteq Nat
    BY <2>1
  <2>4. Min(free) \in free
    <3> HIDE DEF free
    <3> QED BY <2>2, <2>3, MinIsLeast
  <2>5. uniqueName(base, U) = Append(base, Min(free))
    BY <1>2 DEF uniqueName
  <2>6. Append(base, Min(free)) \notin U /\ Min(free) \in Nat
    BY <2>3, <2>4
  <2> HIDE DEF free
  <2> QED BY <2>5, <2>6
<1> QED BY <1>1, <1>2

\* Expand keeps the name and the host.
LEMMA ExpandFact ==
  ASSUME NEW t, IsTunnel(t)
  PROVE  /\ Expand(t).name = t.name /\ Expand(t).host = t.host
         /\ DOMAIN Expand(t) = DOMAIN t
  BY DEF Expand, IsTunnel

\* What applyCommon computes.
LEMMA CommonFact ==
  ASSUME NEW ts, ts \in Seq(Range(ts)), \A i \in DOMAIN ts : IsTunnel(ts[i])
  PROVE  /\ DOMAIN applyCommon(ts) = DOMAIN ts
         /\ Len(applyCommon(ts)) = Len(ts)
         /\ \A n \in DOMAIN ts :
              applyCommon(ts)[n] =
                IF Expand(ts[n]).name # NoName THEN Expand(ts[n])
                ELSE [Expand(ts[n]) EXCEPT !.name =
                        uniqueName(defaultTunnelName(Expand(ts[n])),
                                   {applyCommon(ts)[i].name : i \in 1 .. n - 1})]
<1> DEFINE L == Len(ts)
           E(n) == Expand(ts[n])
           Base(n) == defaultTunnelName(E(n))
           New(n, v) == [E(n) EXCEPT !.name = uniqueName(Base(n), {v[i].name : i \in 1 .. n - 1})]
           X(n, v) == IF E(n).name # NoName THEN E(n) ELSE New(n, v)
           Names == {Base(n) : n \in 1 .. L} \cup UNION {{Append(Base(n), k) : k \in Nat} : n \in 1 .. L}
           R == {E(n) : n \in 1 .. L}
                  \cup UNION {{[E(n) EXCEPT !.name = u] : u \in Names} : n \in 1 .. L}
           V == Seq(R)
           step == [p \in (0 + 1 .. L) \X V |-> Append(p[2], X(p[1], p[2]))]
           Eq(f) == f = [n \in 0 .. L |-> IF n = 0 THEN <<>> ELSE Append(f[n - 1], X(n, f[n - 1]))]
<1>1. L \in Nat /\ DOMAIN ts = 1 .. L
  BY LenProperties
<1>2. ASSUME NEW n \in 1 .. L, NEW v PROVE X(n, v) \in R
  <2>1. IsFiniteSet({v[i].name : i \in 1 .. n - 1})
    <3> DEFINE T == {v[i].name : i \in 1 .. n - 1}
               h == [i \in 1 .. n - 1 |-> v[i].name]
    <3>1. IsFiniteSet(1 .. n - 1)
      BY <1>1, FS_Interval
    <3>2. h \in Surjection(1 .. n - 1, T)
      BY DEF Surjection
    <3> DEFINE D == 1 .. n - 1
    <3>3. h \in Surjection(D, T) /\ IsFiniteSet(D)
      BY <3>1, <3>2
    <3> HIDE DEF T, D, h
    <3>4. IsFiniteSet(T)
      BY <3>3, FS_Surjection
    <3> QED BY <3>4 DEF T
  <2>2. Base(n) \in Seq({Base(n)[1], Base(n)[2], Base(n)[3], Base(n)[4]})
    BY DEF defaultTunnelName
  <2> DEFINE u == uniqueName(Base(n), {v[i].name : i \in 1 .. n - 1})
  <2>3. u = Base(n) \/ \E k \in Nat : u = Append(Base(n), k)
    <3> HIDE DEF Base
    <3> QED BY <2>1, <2>2, UniqueNameFact
  <2>4. u \in Names
    <3> HIDE DEF u, Base
    <3> QED BY <2>3
  <2> HIDE DEF u, Names, E
  <2>6. [E(n) EXCEPT !.name = u] \in R
    BY <2>4
  <2>7. X(n, v) \in {E(n), [E(n) EXCEPT !.name = u]}
    BY DEF u
  <2> HIDE DEF X
  <2> QED BY <2>6, <2>7
<1> HIDE DEF X, R
<1>3. ASSUME NEW n \in 0 + 1 .. L, NEW v \in V
      PROVE  step[<<n, v>>] = Append(v, X(n, v)) /\ Append(v, X(n, v)) \in V
  <2>1. n \in 1 .. L
    BY <1>1
  <2>2. step[<<n, v>>] = Append(v, X(n, v))
    OBVIOUS
  <2> QED BY <1>2, <2>1, <2>2, AppendProperties
<1>4. PICK f \in [0 .. L -> V] : Follows(f, step, <<>>, 0, L)
  <2>1. IsStep(step, 0, L, V)
    <3> HIDE DEF step, V
    <3> QED BY <1>3 DEF IsStep
  <2>2. <<>> \in V
    BY EmptySeq
  <2> HIDE DEF step, V, L
  <2> QED BY <1>1, <2>1, <2>2, Recursion
<1> HIDE DEF step
<1>5. f[0] = <<>> /\ \A n \in 1 .. L : f[n] = Append(f[n - 1], X(n, f[n - 1]))
  <2>1. f[0] = <<>> /\ \A n \in 0 + 1 .. L : f[n] = step[<<n, f[n - 1]>>]
    BY <1>4 DEF Follows
  <2> SUFFICES ASSUME NEW n \in 1 .. L PROVE f[n] = Append(f[n - 1], X(n, f[n - 1]))
    BY <2>1
  <2> HIDE DEF V
  <2>2. f[n - 1] \in V /\ n \in 0 + 1 .. L
    BY <1>1, <1>4
  <2> QED BY <1>3, <2>1, <2>2
<1>6. ASSUME NEW n \in 1 .. L
      PROVE  /\ Len(f[n]) = Len(f[n - 1]) + 1 /\ f[n][Len(f[n])] = X(n, f[n - 1])
             /\ \A i \in 1 .. Len(f[n - 1]) : f[n][i] = f[n - 1][i]
  <2>1. f[n - 1] \in Seq(R) /\ X(n, f[n - 1]) \in R
    BY <1>1, <1>2, <1>4
  <2> DEFINE a == f[n - 1]
             x == X(n, a)
  <2>2. a \in Seq(R) /\ x \in R /\ f[n] = Append(a, x)
    BY <1>5, <2>1
  <2>3. Len(a) \in Nat
    BY <2>2, LenProperties
  <2> HIDE DEF a, x
  <2>4. Len(f[n]) = Len(a) + 1 /\ f[n][Len(a) + 1] = x /\ \A i \in 1 .. Len(a) : f[n][i] = a[i]
    BY <2>2, AppendProperties
  <2> QED BY <2>3, <2>4 DEF a, x
<1>7. Eq(f)
  <2>1. f = [i \in 0 .. L |-> f[i]]
    BY <1>4
  <2>2. ASSUME NEW i \in 0 .. L
        PROVE  f[i] = IF i = 0 THEN <<>> ELSE Append(f[i - 1], X(i, f[i - 1]))
    <3>1. CASE i = 0
      BY <1>5, <3>1
    <3>2. CASE i # 0
      <4>1. i \in 1 .. L
        BY <1>1, <3>2
      <4> QED BY <1>5, <3>2, <4>1
    <3> QED BY <3>1, <3>2
  <2> QED BY <2>1, <2>2, Zenon
<1>8. ASSUME NEW g, Eq(g) PROVE g = f
  <2> DEFINE T == {i \in 0 .. L : g[i] = f[i]}
  <2>0. \A i \in 0 .. L : g[i] = IF i = 0 THEN <<>> ELSE Append(g[i - 1], X(i, g[i - 1]))
    BY <1>8, Zenon
  <2>1. 0 \in T
    BY <1>1, <1>5, <2>0
  <2>2. ASSUME NEW i \in 0 .. L - 1, i \in T PROVE i + 1 \in T
    <3>1. i + 1 \in 1 .. L /\ i + 1 \in 0 .. L /\ (i + 1) - 1 = i /\ i + 1 # 0
      BY <1>1
    <3>2. f[i + 1] = Append(f[i], X(i + 1, f[i]))
      BY <1>5, <3>1
    <3>3. g[i + 1] = Append(g[i], X(i + 1, g[i]))
      BY <2>0, <3>1
    <3> QED BY <2>2, <3>1, <3>2, <3>3
  <2>3. 0 .. L \subseteq T
    <3> HIDE DEF T
    <3> QED BY <1>1, <2>1, <2>2, UpTo
  <2>4. g = [i \in 0 .. L |-> g[i]]
    <3>1. DOMAIN g = 0 .. L
      BY <1>8
    <3> QED BY <1>8, <3>1
  <2>5. \A i \in 0 .. L : g[i] = f[i]
    BY <2>3
  <2>6. f = [i \in 0 .. L |-> f[i]]
    BY <1>4
  <2> HIDE DEF Eq
  <2> QED BY <2>4, <2>5, <2>6
<1>9. applyCommon(ts) = f[L]
  <2>1. applyCommon(ts) = (CHOOSE g : Eq(g))[L]
    BY DEF applyCommon, X
  <2> HIDE DEF Eq
  <2>2. Eq(CHOOSE g : Eq(g))
    BY <1>7
  <2> QED BY <1>8, <2>1, <2>2
<1>10. \A n \in 0 .. L : Len(f[n]) = n /\ \A i \in 1 .. n : f[n][i] = f[i][i]
  <2> DEFINE T == {n \in 0 .. L : Len(f[n]) = n /\ \A i \in 1 .. n : f[n][i] = f[i][i]}
  <2>1. 0 \in T
    BY <1>1, <1>5, EmptySeq
  <2>2. ASSUME NEW n \in 0 .. L - 1, n \in T PROVE n + 1 \in T
    <3>1. n + 1 \in 1 .. L /\ (n + 1) - 1 = n
      BY <1>1
    <3>2. Len(f[n]) = n /\ \A i \in 1 .. n : f[n][i] = f[i][i]
      BY <2>2
    <3>3. Len(f[n + 1]) = n + 1 /\ \A i \in 1 .. n : f[n + 1][i] = f[n][i]
      BY <1>6, <3>1, <3>2
    <3> QED BY <3>1, <3>2, <3>3
  <2>3. 0 .. L \subseteq T
    <3> HIDE DEF T
    <3> QED BY <1>1, <2>1, <2>2, UpTo
  <2> QED BY <2>3
<1> DEFINE r == applyCommon(ts)
<1>11. r \in Seq(R) /\ Len(r) = L /\ DOMAIN r = 1 .. L
  BY <1>1, <1>4, <1>9, <1>10, LenProperties
<1>12. ASSUME NEW n \in 1 .. L PROVE r[n] = X(n, f[n - 1]) /\ X(n, f[n - 1]) = X(n, r)
  <2>1. n - 1 \in 0 .. L /\ n \in 0 .. L /\ L \in 0 .. L
    BY <1>1
  <2>2. Len(f[n]) = n /\ r[n] = f[n][n]
    BY <1>9, <1>10, <2>1
  <2>3. r[n] = X(n, f[n - 1])
    BY <1>6, <2>2
  <2>4. \A i \in 1 .. n - 1 : f[n - 1][i] = r[i]
    BY <1>1, <1>9, <1>10, <2>1
  <2>5. {f[n - 1][i].name : i \in 1 .. n - 1} = {r[i].name : i \in 1 .. n - 1}
    BY <2>4
  <2> HIDE DEF r, E
  <2>6. X(n, f[n - 1]) = X(n, r)
    BY <2>5 DEF X
  <2> QED BY <2>3, <2>6
<1>13. \A n \in 1 .. L : r[n] = X(n, r)
  <2> HIDE DEF r
  <2> QED BY <1>12
<1> QED BY <1>1, <1>11, <1>13 DEF X

\* What LoadEdge makes of the tunnels of a file.
HostsOK(c) ==
  /\ Len(c.tunnels) \in Nat /\ DOMAIN c.tunnels = 1 .. Len(c.tunnels)
  /\ \A i \in DOMAIN c.tunnels : c.tunnels[i].host \in HostName

LEMMA LoadEdgeFact ==
  ASSUME NEW f, IsFile(f), NEW c, c = LoadEdge(f)
  PROVE  /\ DOMAIN c.tunnels = DOMAIN f.tunnels
         /\ HostsOK(c)
         /\ \A j \in DOMAIN c.tunnels : \A i \in 1 .. j - 1 :
              f.tunnels[j].name = NoName => c.tunnels[i].name # c.tunnels[j].name
<1> DEFINE ts == f.tunnels
           r == applyCommon(ts)
<1>1. ts \in Seq(Range(ts)) /\ \A i \in DOMAIN ts : IsTunnel(ts[i])
  BY DEF IsFile
<1>2. c.tunnels = r
  <2>1. DOMAIN f = {"listen", "token", "secret", "env", "health", "tunnels", "admin", "tls"}
    BY DEF IsFile
  <2> HIDE DEF ts
  <2>2. LoadEdge(f).tunnels = applyCommon(f.tunnels)
    BY <2>1 DEF LoadEdge, applyEdgeDefaults
  <2> QED BY <2>2 DEF ts
<1>3. Len(ts) \in Nat /\ DOMAIN ts = 1 .. Len(ts)
  BY <1>1, LenProperties
<1> DEFINE E(n) == Expand(ts[n])
           old(n) == {r[i].name : i \in 1 .. n - 1}
<1>4. /\ DOMAIN r = DOMAIN ts /\ Len(r) = Len(ts)
      /\ \A n \in DOMAIN ts : r[n] =
           IF E(n).name # NoName THEN E(n)
           ELSE [E(n) EXCEPT !.name = uniqueName(defaultTunnelName(E(n)), old(n))]
  <2> HIDE DEF ts
  <2> QED BY <1>1, CommonFact
<1>5. ASSUME NEW n \in DOMAIN ts
      PROVE  /\ E(n).name = ts[n].name /\ E(n).host = ts[n].host
             /\ "name" \in DOMAIN E(n) /\ "host" \in DOMAIN E(n)
             /\ ts[n].host \in HostName
  <2>1. IsTunnel(ts[n])
    BY <1>1
  <2>2. DOMAIN ts[n] = {"name", "type", "public", "local", "host", "tls", "passthrough",
                        "http2", "cert", "key"}
        /\ ts[n].host \in HostName
    <3> HIDE DEF ts
    <3> QED BY <2>1 DEF IsTunnel
  <2> HIDE DEF ts
  <2> QED BY <2>1, <2>2, ExpandFact
<1> HIDE DEF E
<1>6. ASSUME NEW n \in DOMAIN ts PROVE r[n].host \in HostName
  <2> HIDE DEF r, ts
  <2> QED BY <1>4, <1>5
<1>7. ASSUME NEW n \in DOMAIN ts, ts[n].name = NoName, NEW i \in 1 .. n - 1
      PROVE  r[i].name # r[n].name
  <2> DEFINE base == defaultTunnelName(E(n))
  <2>1. r[n].name = uniqueName(base, old(n))
    <3> HIDE DEF r, ts, old
    <3> QED BY <1>4, <1>5, <1>7
  <2>2. base \in Seq({base[1], base[2], base[3], base[4]})
    BY DEF defaultTunnelName
  <2>3. IsFiniteSet(old(n))
    <3> DEFINE D == 1 .. n - 1
               h == [m \in D |-> r[m].name]
               O == old(n)
    <3>1. h \in Surjection(D, O)
      <4> HIDE DEF r
      <4> QED BY DEF Surjection
    <3>2. IsFiniteSet(D)
      BY <1>3, FS_Interval
    <3> HIDE DEF D, h, O
    <3>3. IsFiniteSet(O)
      BY <3>1, <3>2, FS_Surjection
    <3> QED BY <3>3 DEF O
  <2>4. uniqueName(base, old(n)) \notin old(n)
    <3> HIDE DEF base, old
    <3> QED BY <2>2, <2>3, UniqueNameFact
  <2>5. r[i].name \in old(n)
    <3> HIDE DEF r
    <3> QED OBVIOUS
  <2> HIDE DEF r, old, base
  <2> QED BY <2>1, <2>4, <2>5
<1>8. HostsOK(c)
  <2> HIDE DEF r, ts
  <2> QED BY <1>2, <1>3, <1>4, <1>6 DEF HostsOK
<1>9. \A j \in DOMAIN ts : \A i \in 1 .. j - 1 : ts[j].name = NoName => r[i].name # r[j].name
  <2> HIDE DEF r, ts
  <2> QED BY <1>7
<1> HIDE DEF r
<1> QED BY <1>2, <1>4, <1>8, <1>9

-----------------------------------------------------------------------------
\* Routing.

\* Hosts are compared by name.
LEMMA Normalized ==
  ASSUME NEW h \in HostName
  PROVE  NormalizeHost(h) = [name |-> h.name, upper |-> FALSE, port |-> FALSE, br |-> FALSE]
<1>1. NormalizeHost(h) = [x \in DOMAIN h |-> IF x = "br" THEN FALSE
                            ELSE IF x = "port" THEN FALSE
                            ELSE IF x = "upper" THEN FALSE ELSE h[x]]
  BY DEF NormalizeHost
<1>2. DOMAIN h = {"name", "upper", "port", "br"}
  BY DEF HostName
<1> QED BY <1>1, <1>2

LEMMA NormFact ==
  ASSUME NEW h \in HostName, NEW g \in HostName
  PROVE  /\ NormalizeHost(h) = NormalizeHost(g) <=> h.name = g.name
         /\ NormalizeHost(h) = NoHost <=> h.name = ""
<1>1. NormalizeHost(h).name = h.name /\ NormalizeHost(g).name = g.name /\ NoHost.name = ""
  BY Normalized DEF NoHost
<1>2. h.name = "" => NormalizeHost(h) = NoHost
  BY Normalized DEF NoHost
<1>3. h.name = g.name => NormalizeHost(h) = NormalizeHost(g)
  BY Normalized
<1> QED BY <1>1, <1>2, <1>3

\* What is found for a key, and for one name or two.
At(routes, k) == IF k \in DOMAIN routes THEN {routes[k]} ELSE {}

LEMMA LookupOne ==
  ASSUME NEW routes, NEW h
  PROVE  lookupHTTPTunnel(routes, <<h>>) =
           IF NormalizeHost(h) # NoHost /\ NormalizeHost(h) \in DOMAIN routes
           THEN {routes[NormalizeHost(h)]} ELSE At(routes, NoHost)
<1> DEFINE hosts == <<h>>
           keys == [i \in DOMAIN hosts |-> NormalizeHost(hosts[i])]
           hits == {i \in DOMAIN hosts : keys[i] # NoHost /\ keys[i] \in DOMAIN routes}
<1>1. DOMAIN hosts = {1} /\ hosts[1] = h /\ keys[1] = NormalizeHost(h)
  OBVIOUS
<1>2. lookupHTTPTunnel(routes, hosts) =
        IF hits # {} THEN {routes[keys[Min(hits)]]}
        ELSE IF NoHost \in DOMAIN routes THEN {routes[NoHost]} ELSE {}
  BY DEF lookupHTTPTunnel
<1>3. CASE keys[1] # NoHost /\ keys[1] \in DOMAIN routes
  <2>1. hits = {1}
    BY <1>1, <1>3
  <2>2. Min(hits) = 1
    <3>1. hits \subseteq Nat /\ hits # {}
      BY <2>1
    <3> HIDE DEF hits
    <3> QED BY <2>1, <3>1, MinIsLeast
  <2> HIDE DEF hits, keys
  <2> QED BY <1>1, <1>2, <1>3, <2>1, <2>2
<1>4. CASE ~(keys[1] # NoHost /\ keys[1] \in DOMAIN routes)
  <2>1. hits = {}
    BY <1>1, <1>4
  <2> HIDE DEF hits, keys
  <2> QED BY <1>1, <1>2, <1>4, <2>1 DEF At
<1> QED BY <1>3, <1>4

LEMMA LookupTwo ==
  ASSUME NEW routes, NEW h, NEW g
  PROVE  lookupHTTPTunnel(routes, <<h, g>>) =
           IF NormalizeHost(h) # NoHost /\ NormalizeHost(h) \in DOMAIN routes
           THEN {routes[NormalizeHost(h)]} ELSE lookupHTTPTunnel(routes, <<g>>)
<1> DEFINE hosts == <<h, g>>
           keys == [i \in DOMAIN hosts |-> NormalizeHost(hosts[i])]
           hits == {i \in DOMAIN hosts : keys[i] # NoHost /\ keys[i] \in DOMAIN routes}
<1>1. DOMAIN hosts = {1, 2} /\ keys[1] = NormalizeHost(h) /\ keys[2] = NormalizeHost(g)
  OBVIOUS
<1>2. lookupHTTPTunnel(routes, hosts) =
        IF hits # {} THEN {routes[keys[Min(hits)]]}
        ELSE IF NoHost \in DOMAIN routes THEN {routes[NoHost]} ELSE {}
  BY DEF lookupHTTPTunnel
<1>3. \A i \in {1, 2} : i \in hits <=> keys[i] # NoHost /\ keys[i] \in DOMAIN routes
  BY <1>1
<1>4. hits \subseteq {1, 2}
  BY <1>1
<1>5. hits # {} => Min(hits) \in hits /\ \A i \in hits : Min(hits) <= i
  <2>1. hits \subseteq Nat
    BY <1>4
  <2> HIDE DEF hits
  <2> QED BY <2>1, MinIsLeast
<1> HIDE DEF hits, keys, hosts
<1>6. CASE 1 \in hits
  <2>1. Min(hits) \in {1, 2} /\ Min(hits) <= 1
    BY <1>4, <1>5, <1>6
  <2>2. Min(hits) = 1
    BY <2>1
  <2> QED BY <1>1, <1>2, <1>3, <1>6, <2>2 DEF hosts
<1>7. CASE 1 \notin hits /\ 2 \in hits
  <2>1. Min(hits) = 2
    BY <1>4, <1>5, <1>7
  <2> QED BY <1>1, <1>2, <1>3, <1>7, <2>1, LookupOne DEF hosts
<1>8. CASE 1 \notin hits /\ 2 \notin hits
  <2>1. hits = {}
    BY <1>4, <1>8
  <2> QED BY <1>1, <1>2, <1>3, <1>8, <2>1, LookupOne DEF hosts, At
<1> QED BY <1>6, <1>7, <1>8

\* The routes of a listener.
LEMMA RouteFact ==
  ASSUME NEW c, HostsOK(c), NEW p
  PROVE  /\ DOMAIN byHost(c, p) = {NormalizeHost(c.tunnels[i].host) : i \in Group(c, p)}
         /\ \A k \in DOMAIN byHost(c, p) :
              \E i \in Group(c, p) :
                /\ byHost(c, p)[k] = c.tunnels[i] /\ NormalizeHost(c.tunnels[i].host) = k
                /\ \A j \in Group(c, p) : NormalizeHost(c.tunnels[j].host) = k => j <= i
<1> DEFINE same(k) == {i \in Group(c, p) : NormalizeHost(c.tunnels[i].host) = k}
           keys == {NormalizeHost(c.tunnels[i].host) : i \in Group(c, p)}
<1>1. byHost(c, p) = [k \in keys |-> c.tunnels[Max(same(k))]]
  BY DEF byHost
<1>2. Len(c.tunnels) \in Nat /\ Group(c, p) \subseteq 1 .. Len(c.tunnels)
  BY DEF HostsOK, Group, Typed
<1>3. ASSUME NEW k \in keys
      PROVE  Max(same(k)) \in same(k) /\ \A j \in same(k) : j <= Max(same(k))
  <2>1. same(k) # {} /\ same(k) \subseteq 1 .. Len(c.tunnels)
    BY <1>2
  <2> HIDE DEF same
  <2> QED BY <1>2, <2>1, MaxIsGreatest
<1>4. ASSUME NEW k \in keys
      PROVE  \E i \in Group(c, p) :
               /\ byHost(c, p)[k] = c.tunnels[i] /\ NormalizeHost(c.tunnels[i].host) = k
               /\ \A j \in Group(c, p) : NormalizeHost(c.tunnels[j].host) = k => j <= i
  <2> DEFINE i == Max(same(k))
  <2>1. byHost(c, p)[k] = c.tunnels[i]
    <3> HIDE DEF keys, same
    <3> QED BY <1>1
  <2>2. i \in same(k) /\ \A j \in same(k) : j <= i
    BY <1>3
  <2> HIDE DEF i
  <2>3. i \in Group(c, p) /\ NormalizeHost(c.tunnels[i].host) = k
    BY <2>2
  <2> QED BY <2>1, <2>2, <2>3
<1>5. DOMAIN byHost(c, p) = keys
  <2> HIDE DEF keys, same
  <2> QED BY <1>1
<1> HIDE DEF keys
<1> QED BY <1>4, <1>5 DEF keys

\* The tunnels that have the name of h, and those that take any.
NamedBy(c, p, h) == {i \in Group(c, p) : h.name # "" /\ c.tunnels[i].host.name = h.name}
AnyName(c, p) == {i \in Group(c, p) : c.tunnels[i].host.name = ""}

\* A host has a key among the routes just if a tunnel has its name.
LEMMA KeyFact ==
  ASSUME NEW c, HostsOK(c), NEW p, NEW h \in HostName
  PROVE  /\ NormalizeHost(h) # NoHost /\ NormalizeHost(h) \in DOMAIN byHost(c, p)
              <=> NamedBy(c, p, h) # {}
         /\ NormalizeHost(h) # NoHost /\ NormalizeHost(h) \in DOMAIN byHost(c, p)
              => \E i \in NamedBy(c, p, h) : byHost(c, p)[NormalizeHost(h)] = c.tunnels[i]
         /\ \A t \in At(byHost(c, p), NoHost) : \E i \in AnyName(c, p) : t = c.tunnels[i]
<1> DEFINE k == NormalizeHost(h)
           R == byHost(c, p)
<1>1. ASSUME NEW i \in Group(c, p)
      PROVE  /\ c.tunnels[i].host \in HostName
             /\ NormalizeHost(c.tunnels[i].host) = k <=> c.tunnels[i].host.name = h.name
             /\ NormalizeHost(c.tunnels[i].host) = NoHost <=> c.tunnels[i].host.name = ""
  <2>1. c.tunnels[i].host \in HostName
    BY DEF Group, Typed, HostsOK
  <2> QED BY <2>1, NormFact
<1>2. k = NoHost <=> h.name = ""
  BY NormFact
<1>3. /\ DOMAIN R = {NormalizeHost(c.tunnels[i].host) : i \in Group(c, p)}
      /\ \A l \in DOMAIN R : \E i \in Group(c, p) :
           R[l] = c.tunnels[i] /\ NormalizeHost(c.tunnels[i].host) = l
  <2>1. /\ DOMAIN R = {NormalizeHost(c.tunnels[i].host) : i \in Group(c, p)}
        /\ \A l \in DOMAIN R : \E i \in Group(c, p) :
             /\ R[l] = c.tunnels[i] /\ NormalizeHost(c.tunnels[i].host) = l
             /\ \A j \in Group(c, p) : NormalizeHost(c.tunnels[j].host) = l => j <= i
    BY RouteFact
  <2> HIDE DEF R
  <2> QED BY <2>1
<1> HIDE DEF k, R
<1>4. k # NoHost /\ k \in DOMAIN R => \E i \in NamedBy(c, p, h) : R[k] = c.tunnels[i]
  BY <1>1, <1>2, <1>3 DEF NamedBy
<1>5. NamedBy(c, p, h) # {} => k # NoHost /\ k \in DOMAIN R
  BY <1>1, <1>2, <1>3 DEF NamedBy
<1>6. \A t \in At(R, NoHost) : \E i \in AnyName(c, p) : t = c.tunnels[i]
  BY <1>1, <1>3 DEF AnyName, At
<1> QED BY <1>4, <1>5, <1>6 DEF k, R

\* A lookup goes by the first name that a tunnel has, and else to a tunnel
\* that takes any.
LEMMA FoundByName ==
  ASSUME NEW c, HostsOK(c), NEW p, NEW h \in HostName,
         NEW t \in lookupHTTPTunnel(byHost(c, p), <<h>>)
  PROVE  \E i \in IF NamedBy(c, p, h) # {} THEN NamedBy(c, p, h) ELSE AnyName(c, p) :
           t = c.tunnels[i]
<1> DEFINE R == byHost(c, p)
           k == NormalizeHost(h)
<1>1. t \in IF k # NoHost /\ k \in DOMAIN R THEN {R[k]} ELSE At(R, NoHost)
  BY LookupOne
<1>2. /\ k # NoHost /\ k \in DOMAIN R <=> NamedBy(c, p, h) # {}
      /\ k # NoHost /\ k \in DOMAIN R => \E i \in NamedBy(c, p, h) : R[k] = c.tunnels[i]
      /\ \A u \in At(R, NoHost) : \E i \in AnyName(c, p) : u = c.tunnels[i]
  BY KeyFact
<1> HIDE DEF R, k
<1> QED BY <1>1, <1>2

LEMMA FoundByTwo ==
  ASSUME NEW c, HostsOK(c), NEW p, NEW h \in HostName, NEW g \in HostName,
         NEW t \in lookupHTTPTunnel(byHost(c, p), <<h, g>>)
  PROVE  \E i \in IF NamedBy(c, p, h) # {} THEN NamedBy(c, p, h)
                  ELSE AnyName(c, p) \cup NamedBy(c, p, g) : t = c.tunnels[i]
<1> DEFINE R == byHost(c, p)
           k == NormalizeHost(h)
<1>1. t \in IF k # NoHost /\ k \in DOMAIN R THEN {R[k]} ELSE lookupHTTPTunnel(R, <<g>>)
  BY LookupTwo
<1>2. /\ k # NoHost /\ k \in DOMAIN R <=> NamedBy(c, p, h) # {}
      /\ k # NoHost /\ k \in DOMAIN R => \E i \in NamedBy(c, p, h) : R[k] = c.tunnels[i]
  BY KeyFact
<1>3. t \in lookupHTTPTunnel(R, <<g>>) =>
        \E i \in AnyName(c, p) \cup NamedBy(c, p, g) : t = c.tunnels[i]
  BY FoundByName
<1> HIDE DEF R, k
<1> QED BY <1>1, <1>2, <1>3

\* Nothing is found only if no tunnel has the name.
LEMMA NotFound ==
  ASSUME NEW c, HostsOK(c), NEW p, NEW h \in HostName,
         lookupHTTPTunnel(byHost(c, p), <<h>>) = {}
  PROVE  NamedBy(c, p, h) = {}
<1> DEFINE R == byHost(c, p)
           k == NormalizeHost(h)
<1>1. (IF k # NoHost /\ k \in DOMAIN R THEN {R[k]} ELSE At(R, NoHost)) = {}
  BY LookupOne
<1>2. k # NoHost /\ k \in DOMAIN R <=> NamedBy(c, p, h) # {}
  BY KeyFact
<1> HIDE DEF R, k
<1> QED BY <1>1, <1>2
-----------------------------------------------------------------------------
\* Start, as a whole.

\* Of a configuration that was accepted every HTTP tunnel is found under each
\* spelling of its host.
LEMMA EverySpelling ==
  ASSUME HostsOK(conf), ValidateEdge(conf), NEW i \in Typed(conf, {"http"}), ~Twins(i),
         NEW port \in BOOLEAN, NEW upper \in BOOLEAN
  PROVE  lookupHTTPTunnel(Routes(conf.tunnels[i].public),
           <<[conf.tunnels[i].host EXCEPT !.port = port, !.upper = upper]>>)
             = {conf.tunnels[i]}
<1> DEFINE t == conf.tunnels[i]
           h == [t.host EXCEPT !.port = port, !.upper = upper]
           p == t.public
           k == NormalizeHost(h)
           R == byHost(conf, p)
<1>1. i \in DOMAIN conf.tunnels /\ t.type = "http" /\ t.host \in HostName
  BY DEF Typed, HostsOK
<1>2. i \in Group(conf, p)
  BY DEF Group
<1>3. h \in HostName /\ h.name = t.host.name
  <2> HIDE DEF t
  <2> QED BY <1>1 DEF HostName
<1>4. k = NormalizeHost(t.host)
  <2> HIDE DEF t, h
  <2> QED BY <1>1, <1>3, NormFact
<1>5. k \in DOMAIN R /\ \E m \in Group(conf, p) :
        /\ R[k] = conf.tunnels[m] /\ NormalizeHost(conf.tunnels[m].host) = k
        /\ i <= m
  <2>1. /\ DOMAIN R = {NormalizeHost(conf.tunnels[j].host) : j \in Group(conf, p)}
        /\ \A l \in DOMAIN R : \E m \in Group(conf, p) :
             /\ R[l] = conf.tunnels[m] /\ NormalizeHost(conf.tunnels[m].host) = l
             /\ \A j \in Group(conf, p) : NormalizeHost(conf.tunnels[j].host) = l => j <= m
    BY RouteFact
  <2>2. NormalizeHost(conf.tunnels[i].host) = k
    BY <1>4
  <2> HIDE DEF R, p, k
  <2>3. k \in DOMAIN R
    BY <1>2, <2>1, <2>2
  <2> QED BY <1>2, <2>1, <2>2, <2>3
<1>6. PICK m \in Group(conf, p) : R[k] = conf.tunnels[m] /\ NormalizeHost(conf.tunnels[m].host) = k
  <2> HIDE DEF R, p, k
  <2> QED BY <1>5
<1>7. m = i
  <2> SUFFICES ASSUME m # i PROVE FALSE
    OBVIOUS
  <2>1. NormalizeHost(conf.tunnels[m].host) = NormalizeHost(conf.tunnels[i].host)
    BY <1>4, <1>6
  <2>2. normalizeConfigHost(conf.tunnels[m].host) = normalizeConfigHost(conf.tunnels[i].host)
    BY <1>6, <2>1 DEF Twins
  <2>3. /\ m \in DOMAIN conf.tunnels /\ conf.tunnels[m].type = "http"
        /\ conf.tunnels[m].public = conf.tunnels[i].public
    BY <1>6 DEF Group, Typed
  <2>4. ~SameRoute(conf.tunnels[i], conf.tunnels[m])
    BY <1>1, <2>3 DEF ValidateEdge
  <2> QED BY <2>2, <2>3, <2>4 DEF SameRoute
<1>8. R[k] = t
  BY <1>6, <1>7
<1>9. lookupHTTPTunnel(R, <<h>>)
        = IF k # NoHost /\ k \in DOMAIN R THEN {R[k]} ELSE At(R, NoHost)
  BY LookupOne
<1>10. k \in DOMAIN R
  BY <1>5
<1>11. lookupHTTPTunnel(R, <<h>>) = {t}
  <2> HIDE DEF R, k, h, t
  <2> QED BY <1>8, <1>9, <1>10 DEF At
<1> QED BY <1>11 DEF Routes

LEMMA WholeFact ==
  ASSUME Inv
  PROVE  StartWhole
<1>0. Sockets /\ Loaded
  BY DEF Inv
<1>1. edge = "failed" => socks = {}
  BY <1>0 DEF Sockets
<1>2. edge = "up" => held = Wanted
  BY <1>0 DEF Sockets
<1>3. edge # "text" =>
        /\ HostsOK(conf)
        /\ \A j \in DOMAIN conf.tunnels : \A i \in 1 .. j - 1 :
             file.tunnels[j].name = NoName => conf.tunnels[i].name # conf.tunnels[j].name
  <2> SUFFICES ASSUME edge # "text"
               PROVE  /\ HostsOK(conf)
                      /\ \A j \in DOMAIN conf.tunnels : \A i \in 1 .. j - 1 :
                           file.tunnels[j].name = NoName
                             => conf.tunnels[i].name # conf.tunnels[j].name
    OBVIOUS
  <2>1. conf = LoadEdge(file) /\ IsFile(file)
    BY <1>0, FilesAssumption DEF Loaded
  <2> QED BY <2>1, LoadEdgeFact
<1>4. ASSUME edge = "up", NEW i \in Typed(conf, {"http"}), NEW port \in BOOLEAN,
             NEW upper \in BOOLEAN, ~Twins(i)
      PROVE  lookupHTTPTunnel(Routes(conf.tunnels[i].public),
               <<[conf.tunnels[i].host EXCEPT !.port = port, !.upper = upper]>>)
                 = {conf.tunnels[i]}
  <2>1. HostsOK(conf) /\ ValidateEdge(conf)
    BY <1>0, <1>3, <1>4 DEF Loaded
  <2> QED BY <1>4, <2>1, EverySpelling
<1> QED BY <1>1, <1>2, <1>3, <1>4 DEF StartWhole

\* Start and LoadEdge, for every file: the Edge is up with all its sockets, or
\* has none; every HTTP tunnel of a file that was accepted is reached under
\* each spelling of its host; and a name that LoadEdge made up differs from
\* all names before it.
THEOREM StartsWhole == Spec => []StartWhole
<1>1. Inv => StartWhole
  BY WholeFact
<1> QED BY <1>1, InvHolds, PTL
-----------------------------------------------------------------------------
\* The names a client gives.

Name == [type : Nat, host : HostName]
Field == [f : STRING, host : HostName]

LEMMA UnitFact ==
  ASSUME NEW u \in Unit
  PROVE  /\ u.k = "rec" => u.frag \in Seq(Piece)
         /\ u.k = "host" => u.host \in HostName
         /\ u.k \in {"headers", "continuation"} => u.fields \in Seq(Field)
  BY DEF Unit, Field

LEMMA PieceFact ==
  ASSUME NEW e \in Piece
  PROVE  /\ e.ext \in {"sni", "bad"} => e.names \in Seq(Name)
         /\ e.ext = "hs" => e.len \in Nat
  BY DEF Piece, Name

LEMMA NoHostFact == NoHost \in HostName
<1>1. "" \in STRING \cup {""}
  BY Zenon
<1>2. FALSE \in BOOLEAN
  BY Zenon
<1> QED BY <1>1, <1>2, Zenon DEF NoHost, HostName

LEMMA FcnIsSeq ==
  ASSUME NEW n \in Nat, NEW S, NEW f \in [1 .. n -> S]
  PROVE  f \in Seq(S) /\ Len(f) = n
<1>1. f \in Seq(S)
  BY SeqDef
<1> QED BY <1>1, LenProperties

\* The pieces of records.
LEMMA HandshakesFact ==
  ASSUME NEW recs \in Seq(Unit), \A i \in DOMAIN recs : recs[i].k = "rec"
  PROVE  /\ Handshakes(recs) \in Seq(Piece)
         /\ recs # <<>> /\ recs[Len(recs)].frag # <<>> => Handshakes(recs) # <<>>
<1> DEFINE ss == [i \in DOMAIN recs |-> recs[i].frag]
<1>1. Len(recs) \in Nat /\ DOMAIN recs = 1 .. Len(recs)
  BY LenProperties
<1>2. \A i \in 1 .. Len(recs) : recs[i].frag \in Seq(Piece)
  BY <1>1, ElementOfSeq, UnitFact
<1>3. ss \in Seq(Seq(Piece)) /\ Len(ss) = Len(recs)
  <2>1. ss \in [1 .. Len(recs) -> Seq(Piece)]
    BY <1>1, <1>2
  <2> HIDE DEF ss
  <2> QED BY <1>1, <2>1, FcnIsSeq
<1>6. \A i \in 1 .. Len(recs) : ss[i] = recs[i].frag
  BY <1>1
<1>7. Handshakes(recs) = FlattenSeq(ss)
  BY DEF Handshakes
<1> HIDE DEF ss
<1>4. CASE ss = <<>>
  <2>1. Len(ss) = 0
    BY <1>4
  <2>2. FlattenSeq(ss) = ss
    BY <2>1 DEF FlattenSeq
  <2>3. recs = <<>>
    BY <1>3, <2>1, EmptySeq
  <2> QED BY <1>3, <1>4, <1>7, <2>2, <2>3, EmptySeq
<1>5. CASE ss # <<>>
  <2>1. PICK f \in [1 .. Len(ss) -> Seq(Piece)] :
          /\ f[1] = ss[1] /\ FlattenSeq(ss) = f[Len(ss)]
          /\ \A i \in 2 .. Len(ss) : f[i] = f[i - 1] \o ss[i]
    BY <1>3, <1>5, Flatten
  <2>2. Len(ss) \in Nat /\ Len(ss) \in 1 .. Len(ss)
    BY <1>1, <1>3, <1>5, LenProperties, EmptySeq
  <2>3. FlattenSeq(ss) \in Seq(Piece)
    BY <2>1, <2>2
  <2>4. ASSUME ss[Len(ss)] # <<>> PROVE FlattenSeq(ss) # <<>>
    <3>1. CASE Len(ss) = 1
      BY <2>1, <2>4, <3>1
    <3>2. CASE Len(ss) # 1
      <4> DEFINE a == f[Len(ss) - 1]
                 b == ss[Len(ss)]
      <4>1. Len(ss) \in 2 .. Len(ss) /\ Len(ss) - 1 \in 1 .. Len(ss)
        <5> DEFINE n == Len(ss)
        <5>1. n \in Nat /\ n \in 1 .. n /\ n # 1
          BY <2>2, <3>2
        <5> HIDE DEF n
        <5>2. n \in 2 .. n /\ n - 1 \in 1 .. n
          BY <5>1
        <5> QED BY <5>2 DEF n
      <4>2. a \in Seq(Piece)
        BY <2>1, <4>1
      <4>4. b \in Seq(Piece) /\ b # <<>>
        BY <1>2, <1>3, <1>6, <2>2, <2>4
      <4>3. FlattenSeq(ss) = a \o b
        BY <2>1, <4>1
      <4> HIDE DEF a, b
      <4> QED BY <4>2, <4>3, <4>4, ConcatProperties, EmptySeq, LenProperties
    <3> QED BY <3>1, <3>2
  <2>5. recs[Len(recs)].frag = ss[Len(ss)]
    BY <1>3, <1>6, <2>2
  <2> QED BY <1>7, <2>3, <2>4, <2>5
<1> QED BY <1>4, <1>5

\* All records but the last were found to be of a handshake.
RecsFirst(recs) == \A i \in 1 .. Len(recs) - 1 : recs[i].k = "rec"

\* The extensions of a ClientHello that was read.
Extensions(recs) == SubSeq(Handshakes(recs), 2, 1 + Handshakes(recs)[1].len)

LEMMA HelloFact ==
  ASSUME NEW recs \in Seq(Unit), RecsFirst(recs), HelloVerdict(recs).end = "ok"
  PROVE  /\ Extensions(recs) \in Seq(Piece)
         /\ HelloVerdict(recs) = parseHelloSNI(Extensions(recs))
<1> DEFINE hs == Handshakes(recs)
<1>1. /\ recs # <<>> /\ IsHandshake(recs[Len(recs)])
      /\ IsClientHello(hs[1]) /\ ~(Len(hs) < 1 + hs[1].len)
      /\ HelloVerdict(recs) = parseHelloSNI(Extensions(recs))
  <2> DEFINE more == [end |-> "more", host |-> NoHost]
             error == [end |-> "error", host |-> NoHost]
             last == CASE ~IsClientHello(hs[1]) -> error
                       [] IsClientHello(hs[1]) /\ Len(hs) < 1 + hs[1].len -> more
                       [] OTHER -> parseHelloSNI(Extensions(recs))
  <2>1. HelloVerdict(recs) =
          CASE recs = <<>> -> more
            [] Len(recs) > MaxPeek -> error
            [] recs # <<>> /\ Len(recs) <= MaxPeek /\ ~IsHandshake(recs[Len(recs)]) -> error
            [] OTHER -> last
    BY DEF HelloVerdict, Extensions
  <2>2. more.end # "ok" /\ error.end # "ok"
    OBVIOUS
  <2>3. Len(recs) \in Nat /\ MaxPeek \in Nat
    BY LenProperties, MaxPeekAssumption
  <2> HIDE DEF hs, more, error, last
  <2>4. recs # <<>> /\ IsHandshake(recs[Len(recs)]) /\ HelloVerdict(recs) = last
    BY <2>1, <2>2, <2>3
  <2>5. last.end = "ok"
    BY <2>4
  <2>6. /\ IsClientHello(hs[1]) /\ ~(Len(hs) < 1 + hs[1].len)
        /\ last = parseHelloSNI(Extensions(recs))
    BY <2>2, <2>5 DEF last
  <2> QED BY <2>4, <2>6
<1>2. \A i \in DOMAIN recs : recs[i].k = "rec"
  <2>1. Len(recs) \in Nat /\ DOMAIN recs = 1 .. Len(recs)
    BY LenProperties
  <2>2. recs[Len(recs)].k = "rec"
    BY <1>1 DEF IsHandshake
  <2> QED BY <2>1, <2>2 DEF RecsFirst
<1>3. hs \in Seq(Piece)
  BY <1>2, HandshakesFact
<1>4. hs # <<>>
  BY <1>1, <1>2, HandshakesFact DEF IsHandshake
<1>5. Len(hs) \in Nat /\ Len(hs) >= 1 /\ \A i \in 1 .. Len(hs) : hs[i] \in Piece
  BY <1>3, <1>4, EmptySeq, LenProperties, ElementOfSeq
<1>6. hs[1].len \in Nat
  <2> HIDE DEF hs
  <2> QED BY <1>1, <1>5, PieceFact DEF IsClientHello
<1>7. SubSeq(hs, 2, 1 + hs[1].len) \in Seq(Piece)
  <2> DEFINE n == 1 + hs[1].len
  <2>1. n \in Int /\ n <= Len(hs)
    BY <1>1, <1>5, <1>6
  <2> HIDE DEF n, hs
  <2>2. \A i \in 2 .. n : hs[i] \in Piece
    BY <1>5, <2>1
  <2>3. SubSeq(hs, 2, n) \in Seq(Piece)
    BY <2>1, <2>2, SubSeqProperties
  <2> QED BY <2>3 DEF n
<1> QED BY <1>1, <1>7 DEF Extensions

\* The name that parseHelloSNI takes, and the one of crypto/tls.
LEMMA SniFact ==
  ASSUME NEW exts \in Seq(Piece), parseHelloSNI(exts).end = "ok"
  PROVE  parseHelloSNI(exts).host \in HostName
<1> DEFINE odd == {i \in DOMAIN exts : exts[i].ext \in {"sni", "bad"}}
           x == exts[Min(odd)]
           named == {i \in DOMAIN x.names : x.names[i].type = 0}
<1>1. DOMAIN exts = 1 .. Len(exts) /\ Len(exts) \in Nat /\ \A i \in DOMAIN exts : exts[i] \in Piece
  BY LenProperties, ElementOfSeq
<1>2. parseHelloSNI(exts) =
        CASE odd = {} -> [end |-> "ok", host |-> NoHost]
          [] odd # {} /\ x.ext = "bad" -> [end |-> "error", host |-> NoHost]
          [] OTHER -> [end |-> "ok", host |-> IF named = {} THEN NoHost
                                              ELSE x.names[Min(named)].host]
  BY DEF parseHelloSNI
<1>3. CASE odd = {}
  <2> HIDE DEF odd, named, x
  <2> QED BY <1>2, <1>3, NoHostFact
<1>4. CASE odd # {}
  <2>1. odd \subseteq Nat
    BY <1>1
  <2>2. Min(odd) \in odd
    <3> HIDE DEF odd
    <3> QED BY <1>4, <2>1, MinIsLeast
  <2>3. x \in Piece /\ x.ext \in {"sni", "bad"}
    BY <1>1, <2>2
  <2>4. x.names \in Seq(Name)
    <3> HIDE DEF x
    <3> QED BY <2>3, PieceFact
  <2>5. DOMAIN x.names = 1 .. Len(x.names) /\ Len(x.names) \in Nat
        /\ \A i \in DOMAIN x.names : x.names[i] \in Name
    <3> HIDE DEF x
    <3> QED BY <2>4, LenProperties, ElementOfSeq
  <2>6. ASSUME named # {} PROVE x.names[Min(named)].host \in HostName
    <3>1. named \subseteq Nat
      BY <2>5
    <3>2. Min(named) \in named
      <4> HIDE DEF named
      <4> QED BY <2>6, <3>1, MinIsLeast
    <3>3. x.names[Min(named)] \in Name
      BY <2>5, <3>2
    <3> HIDE DEF x, named
    <3> QED BY <3>3 DEF Name
  <2> HIDE DEF odd, named, x
  <2>7. x.ext # "bad"
    BY <1>2, <1>4
  <2> QED BY <1>2, <1>4, <2>6, <2>7, NoHostFact
<1> QED BY <1>3, <1>4

LEMMA SameName ==
  ASSUME NEW recs, HelloVerdict(recs) = parseHelloSNI(Extensions(recs)),
         Extensions(recs) \in Seq(Piece), HelloVerdict(recs).end = "ok",
         NEW n \in ServerName(recs)
  PROVE  n = HelloVerdict(recs).host
<1> DEFINE exts == Extensions(recs)
           odd == {i \in DOMAIN exts : exts[i].ext \in {"sni", "bad"}}
           x == exts[Min(odd)]
           named == {i \in DOMAIN x.names : x.names[i].type = 0}
           found == {i \in DOMAIN exts : exts[i].ext = "sni"}
           names == exts[Min(found)].names
           mine == {j \in DOMAIN names : names[j].type = 0}
<1>1. HelloVerdict(recs) =
        CASE odd = {} -> [end |-> "ok", host |-> NoHost]
          [] odd # {} /\ x.ext = "bad" -> [end |-> "error", host |-> NoHost]
          [] OTHER -> [end |-> "ok", host |-> IF named = {} THEN NoHost
                                              ELSE x.names[Min(named)].host]
  BY DEF parseHelloSNI
<1>2. ServerName(recs) =
        CASE found = {} -> {NoHost}
          [] found # {} /\ (\E i, j \in found : i # j) -> {}
          [] OTHER -> CASE mine = {} -> {NoHost}
                        [] mine # {} /\ (\E i, j \in mine : i # j) -> {}
                        [] OTHER -> {names[Min(mine)].host}
  BY DEF ServerName, Extensions
<1>3. odd \subseteq Nat /\ found \subseteq odd
  BY LenProperties
<1>4. CASE odd = {}
  <2>1. found = {}
    BY <1>3, <1>4
  <2> HIDE DEF odd, found, mine, named, x, names
  <2> QED BY <1>1, <1>2, <1>4, <2>1
<1>5. CASE odd # {}
  <2>1. Min(odd) \in odd
    <3> HIDE DEF odd
    <3> QED BY <1>3, <1>5, MinIsLeast
  <2>2. x.ext # "bad"
    <3> HIDE DEF odd, x, named
    <3> QED BY <1>1, <1>5
  <2>3. Min(odd) \in found
    BY <2>1, <2>2
  <2>4. Min(found) \in found
    <3>1. found \subseteq Nat /\ found # {}
      BY <1>3, <2>3
    <3> HIDE DEF found
    <3> QED BY <3>1, MinIsLeast
  <2>5. ~(\E i, j \in found : i # j)
    <3> HIDE DEF found, mine, names
    <3> QED BY <1>2, <2>3
  <2>6. Min(found) = Min(odd)
    <3> HIDE DEF found, odd
    <3> QED BY <2>3, <2>4, <2>5
  <2>7. names = x.names
    <3> HIDE DEF found, odd, exts
    <3> QED BY <2>6
  <2>8. mine = named
    <3> HIDE DEF names, x
    <3> QED BY <2>7
  <2> HIDE DEF odd, found, mine, named, x, names
  <2> QED BY <1>1, <1>2, <1>5, <2>2, <2>3, <2>5, <2>7, <2>8
<1> QED BY <1>4, <1>5

-----------------------------------------------------------------------------
\* Heads of requests.

LEMMA FlatFact ==
  ASSUME NEW S, NEW ss \in Seq(Seq(S))
  PROVE  FlattenSeq(ss) \in Seq(S)
<1>1. CASE ss = <<>>
  <2>1. Len(ss) = 0
    BY <1>1
  <2>2. FlattenSeq(ss) = ss
    BY <2>1 DEF FlattenSeq
  <2> QED BY <1>1, <2>2, EmptySeq
<1>2. CASE ss # <<>>
  <2>1. PICK f \in [1 .. Len(ss) -> Seq(S)] : FlattenSeq(ss) = f[Len(ss)]
    BY <1>2, Flatten
  <2>2. Len(ss) \in 1 .. Len(ss)
    BY <1>2, LenProperties, EmptySeq
  <2> QED BY <2>1, <2>2
<1> QED BY <1>1, <1>2

LEMMA AuthorityFact ==
  ASSUME NEW fields \in Seq(Field)
  PROVE  Authority(fields) \in HostName
<1> DEFINE a == {i \in DOMAIN fields : fields[i].f = ":authority"}
<1>1. /\ Len(fields) \in Nat /\ DOMAIN fields = 1 .. Len(fields)
      /\ \A i \in DOMAIN fields : fields[i] \in Field
  BY LenProperties, ElementOfSeq
<1>2. Authority(fields) = IF a = {} THEN NoHost ELSE fields[Max(a)].host
  BY DEF Authority
<1>3. ASSUME a # {} PROVE fields[Max(a)].host \in HostName
  <2>1. a \subseteq 1 .. Len(fields)
    BY <1>1
  <2>2. Max(a) \in a
    <3> HIDE DEF a
    <3> QED BY <1>1, <1>3, <2>1, MaxIsGreatest
  <2>3. fields[Max(a)] \in Field
    BY <1>1, <2>2
  <2> HIDE DEF a
  <2> QED BY <2>3 DEF Field
<1> HIDE DEF a
<1> QED BY <1>2, <1>3, NoHostFact

\* The authority of HTTP/2 is a host, and there is a verdict as soon as a
\* frame ends its header block.
LEMMA HTTP2Fact ==
  ASSUME NEW units \in Seq(Unit)
  PROVE  /\ HTTP2Verdict(units).end = "h2" => HTTP2Verdict(units).host \in HostName
         /\ (\E i \in PrefaceLen + 1 .. Len(units) :
               units[i].k \in {"headers", "continuation"} /\ units[i].last)
              => HTTP2Verdict(units).end # "more"
<1> DEFINE v == HTTP2Verdict(units)
           frames == PrefaceLen + 1 .. Len(units)
           heads == {i \in frames : units[i].k \in {"headers", "continuation"}}
           first == Min(heads)
           odd == {i \in frames : i > first /\ units[i].k # "continuation"}
           ends == {i \in frames : i >= first /\ units[i].k \in {"headers", "continuation"}
                                              /\ units[i].last}
           last == Min(ends)
           ss == [i \in 1 .. last - first + 1 |-> units[first + i - 1].fields]
           fields == FlattenSeq(ss)
           more == [end |-> "more", host |-> NoHost]
           error == [end |-> "error", host |-> NoHost]
           h2 == [end |-> "h2", host |-> Authority(fields)]
           bad == \E i \in DOMAIN fields : fields[i].f = "bad"
           early == units[first].k = "continuation" \/ ~units[first].padOK
           long == Len(units) > MaxPeek
           nested == ends = {} \/ Min(odd) <= last
           block == CASE odd # {} /\ nested -> error
                      [] ends = {} /\ odd = {} -> IF long THEN error ELSE more
                      [] OTHER -> IF bad THEN error ELSE h2
<1>1. v = CASE heads = {} -> IF long THEN error ELSE more
            [] heads # {} /\ early -> error
            [] OTHER -> block
  BY DEF HTTP2Verdict
<1>2. /\ more.end = "more" /\ error.end = "error" /\ h2.end = "h2" /\ h2.host = Authority(fields)
  OBVIOUS
<1>3. /\ Len(units) \in Nat /\ frames \subseteq 1 .. Len(units) /\ frames \subseteq Nat
      /\ \A i \in frames : units[i] \in Unit
  BY LenProperties, ElementOfSeq DEF PrefaceLen
<1>4. heads \subseteq frames /\ odd \subseteq frames /\ ends \subseteq frames
  OBVIOUS
<1>5. heads # {} => first \in heads /\ \A i \in heads : first <= i
  <2> HIDE DEF heads, frames
  <2> QED BY <1>3, <1>4, MinIsLeast
<1>6. ends # {} => last \in ends /\ \A i \in ends : last <= i
  <2> HIDE DEF ends, frames
  <2> QED BY <1>3, <1>4, MinIsLeast
<1>7. odd # {} => Min(odd) \in odd /\ \A i \in odd : Min(odd) <= i
  <2> HIDE DEF odd, frames
  <2> QED BY <1>3, <1>4, MinIsLeast
<1>8. ASSUME v.end = "h2" PROVE v.host \in HostName
  <2>1. heads # {} /\ ends # {} /\ v = h2 /\ (odd = {} \/ ~(Min(odd) <= last))
    <3> HIDE DEF v, heads, ends, odd, early, long, more, error, h2, bad, first, last
    <3>1. heads # {} /\ v = block
      BY <1>1, <1>2, <1>8
    <3>2. block = h2 /\ ends # {} /\ (odd = {} \/ ~(Min(odd) <= last))
      BY <1>2, <1>8, <3>1
    <3> QED BY <3>1, <3>2
  <2>2. first \in frames /\ last \in frames /\ first <= last
    BY <1>4, <1>5, <1>6, <2>1
  <2>3. ASSUME NEW i \in first .. last
        PROVE  i \in frames /\ units[i].k \in {"headers", "continuation"}
    <3>1. i \in frames
      <4> HIDE DEF first, last
      <4> QED BY <1>3, <2>2, <2>3 DEF PrefaceLen
    <3>2. CASE i = first
      BY <1>5, <2>1, <3>2
    <3>3. CASE i # first
      <4>0. first \in Nat /\ last \in Nat /\ (Min(odd) \in Nat \/ odd = {})
        <5> HIDE DEF first, last, odd, frames
        <5> QED BY <1>3, <1>4, <1>7, <2>2
      <4>1. i > first /\ i <= last
        <5> HIDE DEF first, last, frames
        <5> QED BY <1>3, <2>2, <2>3, <3>3
      <4>2. ASSUME units[i].k # "continuation" PROVE FALSE
        <5>1. i \in odd
          <6> HIDE DEF first, frames
          <6> QED BY <3>1, <4>1, <4>2
        <5>2. Min(odd) <= i /\ Min(odd) \in frames /\ i \in Nat /\ last \in Nat /\ ~(Min(odd) <= last)
          <6> HIDE DEF odd, frames, last, first
          <6> QED BY <1>3, <1>4, <1>7, <2>1, <2>2, <5>1
        <5>3. Min(odd) \in Nat
          <6> HIDE DEF odd, frames, last, first
          <6> QED BY <1>3, <5>2
        <5> HIDE DEF odd, frames, last, first
        <5> QED BY <4>1, <5>2, <5>3
      <4> QED BY <3>1, <4>2
    <3> QED BY <3>1, <3>2, <3>3
  <2>4. \A i \in first .. last : units[i].fields \in Seq(Field)
    <3> HIDE DEF first, last, frames
    <3> QED BY <1>3, <2>3, UnitFact
  <2>5. ss \in Seq(Seq(Field))
    <3> DEFINE n == last - first + 1
    <3> HIDE DEF first, last
    <3>1. n \in Nat /\ \A i \in 1 .. n : first + i - 1 \in first .. last
      <4>1. first \in Nat /\ last \in Nat /\ first <= last
        <5> HIDE DEF frames
        <5> QED BY <1>3, <2>2
      <4> QED BY <4>1
    <3>2. ss \in [1 .. n -> Seq(Field)]
      <4> HIDE DEF n
      <4>1. \A i \in 1 .. n : units[first + i - 1].fields \in Seq(Field)
        BY <2>4, <3>1
      <4>2. ss = [i \in 1 .. n |-> units[first + i - 1].fields]
        BY DEF n
      <4> HIDE DEF ss
      <4> QED BY <4>1, <4>2
    <3> HIDE DEF ss, n
    <3> QED BY <3>1, <3>2, FcnIsSeq
  <2>6. fields \in Seq(Field)
    <3> HIDE DEF ss
    <3> QED BY <2>5, FlatFact
  <2> HIDE DEF fields, v, h2
  <2> QED BY <1>2, <2>1, <2>6, AuthorityFact
<1>9. ASSUME NEW i \in frames, units[i].k \in {"headers", "continuation"}, units[i].last
      PROVE  v.end # "more"
  <2>1. heads # {}
    BY <1>9
  <2>2. i \in ends
    <3>1. i \in heads
      BY <1>9
    <3>2. i >= first
      <4> HIDE DEF heads, frames
      <4> QED BY <1>3, <1>4, <1>5, <2>1, <3>1
    <3> HIDE DEF first, frames
    <3> QED BY <1>9, <3>2
  <2>3. ends # {}
    BY <2>2
  <2> HIDE DEF v, heads, ends, odd, early, long, more, error, h2, bad, first, last, nested
  <2>4. block \in {error, h2}
    BY <2>3
  <2>5. v \in {error, h2}
    <3> HIDE DEF block
    <3> QED BY <1>1, <2>1, <2>4
  <2> QED BY <1>2, <2>5
<1> HIDE DEF v, frames
<1> QED BY <1>8, <1>9 DEF v, frames
LEMMA HeadFact ==
  ASSUME NEW units \in Seq(Unit), HTTPVerdict(units).end = "h2"
  PROVE  HTTPVerdict(units).host \in HostName
<1> DEFINE more == [end |-> "more", host |-> NoHost]
           short == Len(units) < PrefaceLen
           same == SubSeq(units, 1, PrefaceLen) = HTTP2ClientPreface
<1>1. HTTPVerdict(units) = CASE short -> more
                             [] Len(units) >= PrefaceLen /\ same -> HTTP2Verdict(units)
                             [] OTHER -> HTTP1Verdict(units)
  BY DEF HTTPVerdict
<1>2. more.end # "h2"
  OBVIOUS
<1>3. HTTP1Verdict(units).end # "h2"
  <2> DEFINE e == CASE Complete(units) -> IF units[1].k = "word" THEN "error" ELSE "h1"
                    [] ~Complete(units) -> IF Len(units) > MaxPeek THEN "error" ELSE "more"
  <2>1. HTTP1Verdict(units).end = e
    BY DEF HTTP1Verdict
  <2>2. e \in {"error", "h1", "more"}
    OBVIOUS
  <2> QED BY <2>1, <2>2
<1>4. Len(units) \in Nat /\ PrefaceLen \in Nat
  BY LenProperties DEF PrefaceLen
<1> HIDE DEF more, same
<1>5. HTTPVerdict(units) = HTTP2Verdict(units)
  BY <1>1, <1>2, <1>3, <1>4
<1> QED BY <1>5, HTTP2Fact

LEMMA RequestHostFact ==
  ASSUME NEW req \in Seq(Unit)
  PROVE  RequestHost(req) \in HostName
<1>1. DOMAIN req = 1 .. Len(req) /\ \A i \in DOMAIN req : req[i] \in Unit
  BY LenProperties, ElementOfSeq
<1>2. ASSUME Hosts(req) # {} PROVE req[Min(Hosts(req))].host \in HostName
  <2>1. Hosts(req) \subseteq Nat
    BY <1>1 DEF Hosts
  <2>2. Min(Hosts(req)) \in Hosts(req)
    BY <1>2, <2>1, MinIsLeast
  <2>3. req[Min(Hosts(req))] \in Unit /\ req[Min(Hosts(req))].k = "host"
    BY <1>1, <2>2 DEF Hosts
  <2> QED BY <2>3, UnitFact
<1> QED BY <1>2, NoHostFact DEF RequestHost
-----------------------------------------------------------------------------
\* Where a request goes.

\* RoutedAsNamed for a request m.
Routed(c, p, s, m) ==
  LET mine == {i \in Group(c, p) : c.tunnels[i].name = m.name}
  IN  /\ mine # {}
      /\ mine \subseteq IF NamedBy(c, p, m.first) # {} THEN NamedBy(c, p, m.first)
                        ELSE AnyName(c, p) \cup NamedBy(c, p, s)

\* A configuration in force: well formed, and a name stands for one tunnel.
Accepted(c) ==
  /\ HostsOK(c)
  /\ \A i, j \in DOMAIN c.tunnels : c.tunnels[i].name = c.tunnels[j].name => i = j

LEMMA MineFact ==
  ASSUME NEW c, Accepted(c), NEW p, NEW s, NEW m,
         NEW i \in IF NamedBy(c, p, m.first) # {} THEN NamedBy(c, p, m.first)
                   ELSE AnyName(c, p) \cup NamedBy(c, p, s),
         m.name = c.tunnels[i].name
  PROVE  Routed(c, p, s, m)
<1>1. i \in Group(c, p)
  BY DEF NamedBy, AnyName
<1>2. ASSUME NEW j \in Group(c, p), c.tunnels[j].name = m.name PROVE j = i
  <2>1. j \in DOMAIN c.tunnels /\ i \in DOMAIN c.tunnels
    BY <1>1 DEF Group, Typed
  <2> QED BY <1>2, <2>1 DEF Accepted
<1>3. {j \in Group(c, p) : c.tunnels[j].name = m.name} = {i}
  BY <1>1, <1>2
<1> QED BY <1>3 DEF Routed

\* By one name, by two, and as Handle does it.
LEMMA OneRouted ==
  ASSUME NEW c, Accepted(c), NEW p, NEW h \in HostName, NEW s,
         NEW t \in lookupHTTPTunnel(byHost(c, p), <<h>>), NEW m,
         m.name = t.name, m.first = h
  PROVE  Routed(c, p, s, m)
<1>1. PICK i \in IF NamedBy(c, p, h) # {} THEN NamedBy(c, p, h) ELSE AnyName(c, p) :
        t = c.tunnels[i]
  BY FoundByName DEF Accepted
<1> QED BY <1>1, MineFact

LEMMA TwoRouted ==
  ASSUME NEW c, Accepted(c), NEW p, NEW h \in HostName, NEW s \in HostName,
         NEW t \in lookupHTTPTunnel(byHost(c, p), <<h, s>>), NEW m,
         m.name = t.name, m.first = h
  PROVE  Routed(c, p, s, m)
<1>1. PICK i \in IF NamedBy(c, p, h) # {} THEN NamedBy(c, p, h)
                 ELSE AnyName(c, p) \cup NamedBy(c, p, s) : t = c.tunnels[i]
  BY FoundByTwo DEF Accepted
<1> QED BY <1>1, MineFact

LEMMA ElseRouted ==
  ASSUME NEW c, Accepted(c), NEW p, NEW h \in HostName, NEW s \in HostName,
         lookupHTTPTunnel(byHost(c, p), <<h>>) = {},
         NEW t \in lookupHTTPTunnel(byHost(c, p), <<s>>), NEW m,
         m.name = t.name, m.first = h
  PROVE  Routed(c, p, s, m)
<1>1. NamedBy(c, p, h) = {}
  BY NotFound DEF Accepted
<1>2. PICK i \in IF NamedBy(c, p, s) # {} THEN NamedBy(c, p, s) ELSE AnyName(c, p) :
        t = c.tunnels[i]
  BY FoundByName DEF Accepted
<1> QED BY <1>1, <1>2, MineFact

\* The certificate for a name under which a tunnel is found, none of them
\* passed through.
LEMMA CertFact ==
  ASSUME NEW c, HostsOK(c), NEW p, NEW h \in HostName,
         lookupHTTPTunnel(byHost(c, p), <<h>>) # {},
         \A t \in lookupHTTPTunnel(byHost(c, p), <<h>>) : ~t.passthrough
  PROVE  \E i \in IF NamedBy(c, p, h) # {} THEN NamedBy(c, p, h) ELSE AnyName(c, p) :
           /\ ~c.tunnels[i].passthrough
           /\ GetCertificate(byHost(c, p), h) =
                IF OwnCert(c.tunnels[i]) THEN c.tunnels[i].name ELSE NoName
<1> DEFINE R == byHost(c, p)
           k == NormalizeHost(h)
           D == {l \in DOMAIN R : l # NoHost /\ ~R[l].passthrough}
<1>1. lookupHTTPTunnel(R, <<h>>) = IF k # NoHost /\ k \in DOMAIN R THEN {R[k]} ELSE At(R, NoHost)
  BY LookupOne
<1>2. /\ k # NoHost /\ k \in DOMAIN R <=> NamedBy(c, p, h) # {}
      /\ k # NoHost /\ k \in DOMAIN R => \E i \in NamedBy(c, p, h) : R[k] = c.tunnels[i]
      /\ \A u \in At(R, NoHost) : \E i \in AnyName(c, p) : u = c.tunnels[i]
  BY KeyFact
<1>3. hostCerts(R) = [l \in D |-> IF OwnCert(R[l]) THEN R[l].name ELSE NoName]
  BY DEF hostCerts
<1>4. GetCertificate(R, h) = IF k \in D THEN IF OwnCert(R[k]) THEN R[k].name ELSE NoName
                             ELSE fallbackCert(R)
  <2> HIDE DEF D, R, k
  <2> QED BY <1>3 DEF GetCertificate, k
<1>5. /\ lookupHTTPTunnel(R, <<h>>) # {}
      /\ \A t \in lookupHTTPTunnel(R, <<h>>) : ~t.passthrough
  OBVIOUS
<1> HIDE DEF R, k
<1>6. CASE k # NoHost /\ k \in DOMAIN R
  <2>1. ~R[k].passthrough
    BY <1>1, <1>5, <1>6
  <2>2. k \in D
    BY <1>6, <2>1
  <2>3. PICK i \in NamedBy(c, p, h) : R[k] = c.tunnels[i]
    BY <1>2, <1>6
  <2> HIDE DEF D
  <2> QED BY <1>2, <1>4, <1>6, <2>1, <2>2, <2>3 DEF R
<1>7. CASE ~(k # NoHost /\ k \in DOMAIN R)
  <2>1. NoHost \in DOMAIN R /\ R[NoHost] \in At(R, NoHost)
    BY <1>1, <1>5, <1>7 DEF At
  <2>2. ~R[NoHost].passthrough
    BY <1>1, <1>5, <1>7, <2>1
  <2>3. k \notin D
    BY <1>7
  <2>4. PICK i \in AnyName(c, p) : R[NoHost] = c.tunnels[i]
    BY <1>2, <2>1
  <2>5. fallbackCert(R) = IF OwnCert(R[NoHost]) THEN R[NoHost].name ELSE NoName
    BY <2>1, <2>2 DEF fallbackCert
  <2> HIDE DEF D
  <2> QED BY <1>2, <1>4, <1>7, <2>2, <2>3, <2>4, <2>5 DEF R
<1> QED BY <1>6, <1>7
-----------------------------------------------------------------------------
\* The names of a connection.

\* The hello that is replayed to crypto/tls is the one that was peeked at, and
\* gave the server name; the tunnels of that name end TLS at the Edge.
HelloRight ==
  /\ sni \in HostName
  /\ phase = "hello" => RecsFirst(raw)
  /\ phase = "tls" =>
       /\ RecsFirst(prefix)
       /\ HelloVerdict(prefix).end = "ok" /\ HelloVerdict(prefix).host = sni
       /\ \A t \in lookupHTTPTunnel(Routes(at), <<sni>>) : ~t.passthrough

CertRight(c, p, s, x) ==
  \E i \in IF NamedBy(c, p, s) # {} THEN NamedBy(c, p, s) ELSE AnyName(c, p) :
    /\ ~c.tunnels[i].passthrough
    /\ x = IF OwnCert(c.tunnels[i]) THEN c.tunnels[i].name ELSE NoName

Names ==
  /\ HelloRight
  /\ meta # <<>> => Routed(conf, at, sni, meta[1])
  /\ cert # <<>> => CertRight(conf, at, sni, cert[1])

LEMMA NamesMeans ==
  ASSUME Names
  PROVE  RoutedAsNamed /\ RightCertificate
<1>1. ASSUME NEW h PROVE Named(h) = NamedBy(conf, at, h) /\ CatchAll = AnyName(conf, at)
  BY DEF Named, NamedBy, CatchAll, AnyName
<1>2. RoutedAsNamed
  BY <1>1 DEF Names, RoutedAsNamed, Routed
<1>3. RightCertificate
  BY <1>1 DEF Names, RightCertificate, CertRight
<1> QED BY <1>2, <1>3

LEMMA UpFact ==
  ASSUME Inv, phase # "none"
  PROVE  Accepted(conf)
<1>1. conf = LoadEdge(file) /\ ValidateEdge(conf) /\ file \in Files
  BY DEF Inv, Shape, Loaded
<1>2. IsFile(file)
  BY <1>1, FilesAssumption
<1>3. HostsOK(conf)
  BY <1>1, <1>2, LoadEdgeFact
<1>4. \A i, j \in DOMAIN conf.tunnels : conf.tunnels[i].name = conf.tunnels[j].name => i = j
  BY <1>1 DEF ValidateEdge, Validate
<1> QED BY <1>3, <1>4 DEF Accepted

\* All records but the last stay records.
LEMMA MoreRecords ==
  ASSUME NEW recs \in Seq(Unit), HelloVerdict(recs).end = "more", NEW u \in Unit,
         RecsFirst(recs)
  PROVE  RecsFirst(Append(recs, u))
<1>1. Len(recs) \in Nat
  BY LenProperties
<1>2. recs # <<>> => recs[Len(recs)].k = "rec"
  <2> DEFINE hs == Handshakes(recs)
             more == [end |-> "more", host |-> NoHost]
             error == [end |-> "error", host |-> NoHost]
             last == CASE ~IsClientHello(hs[1]) -> error
                       [] IsClientHello(hs[1]) /\ Len(hs) < 1 + hs[1].len -> more
                       [] OTHER -> parseHelloSNI(Extensions(recs))
  <2>1. HelloVerdict(recs) =
          CASE recs = <<>> -> more
            [] Len(recs) > MaxPeek -> error
            [] recs # <<>> /\ Len(recs) <= MaxPeek /\ ~IsHandshake(recs[Len(recs)]) -> error
            [] OTHER -> last
    BY DEF HelloVerdict, Extensions
  <2>2. error.end # "more"
    OBVIOUS
  <2>3. MaxPeek \in Nat
    BY MaxPeekAssumption
  <2> HIDE DEF more, error, last
  <2>4. recs # <<>> => IsHandshake(recs[Len(recs)])
    BY <1>1, <2>1, <2>2, <2>3
  <2> QED BY <2>4 DEF IsHandshake
<1>3. /\ Len(Append(recs, u)) = Len(recs) + 1
      /\ \A i \in 1 .. Len(recs) : Append(recs, u)[i] = recs[i]
  BY AppendProperties
<1>4. ASSUME NEW i \in 1 .. Len(recs) PROVE recs[i].k = "rec"
  <2>1. recs # <<>>
    BY <1>1, <1>4, EmptySeq
  <2>2. CASE i = Len(recs)
    BY <1>2, <2>1, <2>2
  <2>3. CASE i # Len(recs)
    <3>1. i \in 1 .. Len(recs) - 1
      BY <1>1, <2>3
    <3> QED BY <3>1 DEF RecsFirst
  <2> QED BY <2>2, <2>3
<1> HIDE DEF RecsFirst
<1>5. \A i \in 1 .. Len(Append(recs, u)) - 1 : Append(recs, u)[i].k = "rec"
  BY <1>1, <1>3, <1>4
<1> QED BY <1>5 DEF RecsFirst

LEMMA NamesPreserved ==
  ASSUME Inv, Names, [Next]_vars
  PROVE  Names'
<1>0. HelloRight /\ phase \in Phases /\ StreamInv /\ Shape
  BY DEF Names, Inv, Shape
<1>1. CASE UNCHANGED conn /\ ServerStep
  <2>1. phase = "none" /\ meta = <<>> /\ cert = <<>>
    <3>1. edge # "up"
      BY <1>1 DEF ServerStep, Load, Started, Bind, BindFails, CertsLoaded, CertsUnreadable
    <3> QED BY <1>0, <3>1 DEF Shape, StreamInv, Kept
  <2>2. phase' = "none" /\ meta' = <<>> /\ cert' = <<>> /\ sni' = sni
    BY <1>1, <2>1 DEF conn
  <2> QED BY <1>0, <2>2 DEF Names, HelloRight
<1>2. CASE UNCHANGED vars
  <2>1. UNCHANGED <<conf, at, sni, phase, raw, prefix, meta, cert>>
    BY <1>2 DEF vars
  <2> QED BY <2>1 DEF Names, HelloRight, Routes
<1> SUFFICES ASSUME ConnStep, UNCHANGED srv PROVE Names'
  BY <1>1, <1>2, Split
<1>3. conf' = conf
  BY DEF srv
<1>4. ASSUME NEW p, NEW c, Accept(p, c) PROVE Names'
  <2>1. phase = "none" /\ meta = <<>> /\ cert = <<>> /\ raw = <<>>
    BY <1>0, <1>4 DEF Accept, StreamInv, Kept, Shape
  <2>2. meta' = <<>> /\ cert' = <<>> /\ sni' = sni /\ raw' = <<>> /\ phase' \in {"hello", "peek"}
    BY <1>4, <2>1 DEF Accept
  <2>3. RecsFirst(raw')
    BY <2>2 DEF RecsFirst
  <2> QED BY <1>0, <2>2, <2>3 DEF Names, HelloRight
\* Steps that choose nothing.
<1>5. ASSUME UNCHANGED link, phase' # "tls", phase' = "hello" => RecsFirst(raw'),
             meta' \in {meta, <<>>}
      PROVE  Names'
  BY <1>0, <1>3, <1>5 DEF Names, HelloRight, link
<1>6. CASE ReadRecord
  <2>1. UNCHANGED link /\ phase' = "hello" /\ meta' = meta
    BY <1>6 DEF ReadRecord
  <2>2. raw' = Append(raw, Head(in)) /\ HelloVerdict(raw).end = "more" /\ RecsFirst(raw)
    BY <1>0, <1>6 DEF ReadRecord, HelloRight
  <2>3. raw \in Seq(Unit) /\ Head(in) \in Unit
    <3>1. raw \in Seq(Unit) /\ in \in Seq(Unit) /\ in # <<>>
      BY <1>0, <1>6 DEF ReadRecord, StreamInv, Seqs
    <3> QED BY <3>1, HeadTailProperties
  <2> QED BY <1>5, <2>1, <2>2, <2>3, MoreRecords
<1>7. CASE HandshakeFails \/ PeekRefuses \/ HTTP1Ends
  <2>1. UNCHANGED link /\ phase' = "closed" /\ meta' = meta
    BY <1>7 DEF HandshakeFails, PeekRefuses, HTTP1Ends, Close
  <2> QED BY <1>5, <2>1
<1>8. CASE ReadFails \/ (\E n \in 1 .. MaxPeek + 2 : ReadHead(n)) \/ AnswerHere
  <2>1. UNCHANGED link /\ phase' \in {"closed", "http1", "peek"} /\ meta' = meta
    BY <1>8 DEF ReadFails, ReadHead, AnswerHere, Close, ServeHTTP1
  <2> QED BY <1>5, <2>1
<1>9. CASE Refuse \/ \E a \in Agents : Dial(a)
  <2>1. UNCHANGED link /\ phase' \in {"closed", "http1", "relay"} /\ meta' = <<>>
    BY <1>0, <1>9 DEF Refuse, Dial, Answered, Shape
  <2> QED BY <1>5, <2>1
<1>10. CASE HelloPeeked
  <2>1. /\ phase = "hello" /\ raw \in Seq(Unit) /\ RecsFirst(raw) /\ meta = <<>> /\ cert = <<>>
        /\ HelloVerdict(raw).end = "ok" /\ sni' = HelloVerdict(raw).host
        /\ UNCHANGED <<at, cert>>
    BY <1>0, <1>10 DEF HelloPeeked, HelloRight, StreamInv, Seqs, Kept, Shape
  <2>2. sni' \in HostName
    <3>1. Extensions(raw) \in Seq(Piece) /\ HelloVerdict(raw) = parseHelloSNI(Extensions(raw))
      BY <2>1, HelloFact
    <3> QED BY <2>1, <3>1, SniFact
  <2>3. Accepted(conf)
    BY <2>1, UpFact
  <2> DEFINE found == lookupHTTPTunnel(byHost(conf, at), <<sni'>>)
  <2>4. \/ phase' = "closed" /\ meta' = meta
        \/ phase' = "splice" /\ \E t \in found :
             meta' = <<[name |-> t.name, local |-> t.local, first |-> sni']>>
        \/ phase' = "tls" /\ prefix' = raw /\ meta' = meta /\ \E t \in found : ~t.passthrough
    <3> HIDE DEF found
    <3> QED BY <1>10 DEF HelloPeeked, Close, Splice, Routes, found
  <2>5. ASSUME NEW t \in found,
               meta' = <<[name |-> t.name, local |-> t.local, first |-> sni']>>
        PROVE  Routed(conf, at, sni', meta'[1])
    <3> DEFINE m == meta'[1]
    <3>1. m.name = t.name /\ m.first = sni'
      BY <2>5
    <3> HIDE DEF m
    <3>2. Routed(conf, at, sni', m)
      BY <2>2, <2>3, <3>1, OneRouted
    <3> QED BY <3>2 DEF m
  <2>6. \A t, u \in found : t = u
    <3> DEFINE k == NormalizeHost(sni')
               R == byHost(conf, at)
    <3>1. found = IF k # NoHost /\ k \in DOMAIN R THEN {R[k]} ELSE At(R, NoHost)
      BY LookupOne
    <3> HIDE DEF found, k, R
    <3> QED BY <3>1 DEF At
  <2>7. ASSUME phase' = "tls", prefix' = raw, NEW t \in found, ~t.passthrough
        PROVE  HelloRight'
    <3>1. \A u \in lookupHTTPTunnel(Routes(at)', <<sni'>>) : ~u.passthrough
      <4>1. Routes(at)' = byHost(conf, at)
        BY <1>3, <2>1 DEF Routes
      <4> QED BY <2>6, <2>7, <4>1
    <3> QED BY <2>1, <2>2, <2>7, <3>1 DEF HelloRight
  <2>8. HelloRight'
    BY <2>2, <2>4, <2>7 DEF HelloRight
  <2>9. meta' # <<>> => Routed(conf', at', sni', meta'[1])
    BY <1>3, <2>1, <2>4, <2>5
  <2> QED BY <2>1, <2>8, <2>9 DEF Names
<1>11. CASE Handshake
  <2>1. /\ phase = "tls" /\ prefix \in Seq(Unit) /\ RecsFirst(prefix) /\ meta = <<>>
        /\ HelloVerdict(prefix).end = "ok" /\ HelloVerdict(prefix).host = sni
        /\ sni \in HostName
        /\ \A t \in lookupHTTPTunnel(byHost(conf, at), <<sni>>) : ~t.passthrough
    BY <1>0, <1>11 DEF Handshake, HelloRight, StreamInv, Seqs, Shape, Routes
  <2>2. Accepted(conf)
    BY <2>1, UpFact
  <2>3. \A n \in ServerName(prefix) : n = sni
    <3>1. /\ Extensions(prefix) \in Seq(Piece)
          /\ HelloVerdict(prefix) = parseHelloSNI(Extensions(prefix))
      BY <2>1, HelloFact
    <3> QED BY <2>1, <3>1, SameName
  <2> DEFINE found == lookupHTTPTunnel(byHost(conf, at), <<sni>>)
  <2>4. /\ sni' = sni /\ at' = at /\ found # {}
        /\ cert' = <<GetCertificate(byHost(conf, at), sni)>>
        /\ \/ phase' = "closed" /\ meta' = meta
           \/ phase' = "peek" /\ meta' = meta
           \/ \E u \in found : /\ phase' = "splice"
                               /\ meta' = <<[name |-> u.name, local |-> u.local, first |-> sni]>>
    <3>1. PICK t \in found, name \in ServerName(prefix) :
            LET s == IF name # NoHost THEN name ELSE sni
                hit == lookupHTTPTunnel(Routes(at), <<s>>)
            IN  /\ sni' = s
                /\ cert' = <<GetCertificate(Routes(at), name)>>
                /\ \/ IF hit = {} THEN Close ELSE \E u \in hit : Splice(u, s, <<>>)
                   \/ phase' = "peek" /\ prefix' = <<>> /\ UNCHANGED meta
      <4> HIDE DEF found
      <4> QED BY <1>11 DEF Handshake, Routes, found
    <3>2. name = sni /\ at' = at
      BY <1>11, <2>3 DEF Handshake
    <3>3. (IF name # NoHost THEN name ELSE sni) = sni
      BY <3>2
    <3> HIDE DEF found
    <3> QED BY <3>1, <3>2, <3>3 DEF Close, Splice, Routes, found
  <2>5. ASSUME NEW u \in found,
               meta' = <<[name |-> u.name, local |-> u.local, first |-> sni]>>
        PROVE  Routed(conf, at, sni, meta'[1])
    <3> DEFINE m == meta'[1]
    <3>1. m.name = u.name /\ m.first = sni
      BY <2>5
    <3> HIDE DEF m
    <3>2. Routed(conf, at, sni, m)
      BY <2>1, <2>2, <3>1, OneRouted
    <3> QED BY <3>2 DEF m
  <2>6. CertRight(conf, at, sni, cert'[1])
    <3>1. cert'[1] = GetCertificate(byHost(conf, at), sni)
      BY <2>4
    <3>2. HostsOK(conf)
      BY <2>2 DEF Accepted
    <3>3. \E i \in IF NamedBy(conf, at, sni) # {} THEN NamedBy(conf, at, sni)
                   ELSE AnyName(conf, at) :
            /\ ~conf.tunnels[i].passthrough
            /\ GetCertificate(byHost(conf, at), sni) =
                 IF OwnCert(conf.tunnels[i]) THEN conf.tunnels[i].name ELSE NoName
      BY <2>1, <2>4, <3>2, CertFact
    <3> QED BY <3>1, <3>3 DEF CertRight
  <2>7. meta' # <<>> => Routed(conf', at', sni', meta'[1])
    BY <1>3, <2>1, <2>4, <2>5
  <2>8. HelloRight'
    BY <2>1, <2>4 DEF HelloRight
  <2> QED BY <1>3, <2>4, <2>6, <2>7, <2>8 DEF Names
<1>12. CASE HeadPeeked
  <2>1. phase = "peek" /\ raw \in Seq(Unit) /\ UNCHANGED link /\ meta = <<>> /\ sni \in HostName
    BY <1>0, <1>12 DEF HeadPeeked, HelloRight, StreamInv, Seqs, Shape
  <2>2. Accepted(conf)
    BY <2>1, UpFact
  <2> DEFINE h == HTTPVerdict(raw).host
             found == lookupHTTPTunnel(byHost(conf, at), <<h, sni>>)
  <2>3. \/ phase' \in {"http1", "closed"} /\ meta' = meta
        \/ /\ phase' = "splice" /\ HTTPVerdict(raw).end = "h2"
           /\ \E t \in found : meta' = <<[name |-> t.name, local |-> t.local, first |-> h]>>
    <3> HIDE DEF found, h
    <3> QED BY <1>12 DEF HeadPeeked, Close, Splice, ServeHTTP1, Routes, found, h
  <2>4. CASE phase' \in {"http1", "closed"} /\ meta' = meta
    BY <1>5, <2>1, <2>4
  <2>5. ASSUME NEW t \in found, HTTPVerdict(raw).end = "h2",
               meta' = <<[name |-> t.name, local |-> t.local, first |-> h]>>
        PROVE  Routed(conf, at, sni, meta'[1])
    <3> DEFINE m == meta'[1]
    <3>1. m.name = t.name /\ m.first = h
      BY <2>5
    <3>2. h \in HostName
      BY <2>1, <2>5, HeadFact
    <3> HIDE DEF m, h
    <3>3. Routed(conf, at, sni, m)
      BY <2>1, <2>2, <3>1, <3>2, TwoRouted
    <3> QED BY <3>3 DEF m
  <2>6. CASE phase' = "splice" /\ Routed(conf, at, sni, meta'[1])
    BY <1>0, <1>3, <2>1, <2>6 DEF Names, HelloRight, link
  <2> HIDE DEF found, h
  <2> QED BY <2>3, <2>4, <2>5, <2>6
<1>13. CASE Handle
  <2>1. /\ phase = "http1" /\ phase' = "http1" /\ UNCHANGED link /\ sni \in HostName
        /\ Complete(Stream)
    BY <1>0, <1>13 DEF Handle, HelloRight
  <2>2. Accepted(conf)
    BY <2>1, UpFact
  <2> DEFINE h == RequestHost(Request)
             byName == lookupHTTPTunnel(byHost(conf, at), <<h>>)
             bySNI == lookupHTTPTunnel(byHost(conf, at), <<sni>>)
  <2>3. h \in HostName
    <3>1. Stream \in Seq(Unit)
      BY <1>0, ConcatProperties DEF StreamInv, Seqs, Stream
    <3>2. Request \in Seq(Unit)
      BY <2>1, <3>1, RequestFact DEF Request
    <3> QED BY <3>2, RequestHostFact
  <2>4. PICK t \in byName \cup bySNI :
          /\ t \in byName \/ (byName = {} /\ t \in bySNI)
          /\ meta' = <<[name |-> t.name, local |-> t.local, first |-> h]>>
    <3> HIDE DEF byName, bySNI, h
    <3> QED BY <1>13 DEF Handle, Routes, byName, bySNI, h
  <2>5. Routed(conf, at, sni, meta'[1])
    <3> DEFINE m == meta'[1]
    <3>1. m.name = t.name /\ m.first = h
      BY <2>4
    <3> HIDE DEF m, h
    <3>2. CASE t \in byName
      BY <2>2, <2>3, <3>1, <3>2, OneRouted DEF m
    <3>3. CASE byName = {} /\ t \in bySNI
      BY <2>1, <2>2, <2>3, <3>1, <3>3, ElseRouted DEF m
    <3> QED BY <2>4, <3>2, <3>3
  <2> QED BY <1>0, <1>3, <2>1, <2>5 DEF Names, HelloRight, link
<1> QED BY <1>4, <1>6, <1>7, <1>8, <1>9, <1>10, <1>11, <1>12, <1>13 DEF ConnStep
LEMMA NamesStart == Init => Names
<1> SUFFICES ASSUME Init PROVE Names
  OBVIOUS
<1>1. sni = NoHost /\ phase = "none" /\ meta = <<>> /\ cert = <<>>
  BY DEF Init
<1>2. sni \in HostName
  BY <1>1, NoHostFact
<1> QED BY <1>1, <1>2 DEF Names, HelloRight

LEMMA NamesHold == Spec => []Names
<1>1. Inv /\ Names /\ [Next]_vars => Names'
  BY NamesPreserved
<1> QED BY <1>1, NamesStart, InvHolds, PTL DEF Spec

LEMMA TargetPreserved ==
  ASSUME TargetPermitted, [Next]_vars
  PROVE  TargetPermitted'
<1>1. CASE dial' = dial \/ dial' = <<>>
  BY <1>1 DEF TargetPermitted
<1>2. ASSUME NEW a \in Agents, Dial(a) PROVE TargetPermitted'
  <2> DEFINE m == meta[1]
  <2>0. PICK local \in resolveLocal(a, m) :
          \E ips, now \in Lookups(local.ip) :
            /\ ValidateLocal(local, ips, a.private)
            /\ \E ip \in now : dial' = <<[local |-> local, ip |-> ip, moved |-> ips # now,
                                          agent |-> a, meta |-> m]>>
    BY <1>2 DEF Dial
  <2>1. PICK ips \in Lookups(local.ip), now \in Lookups(local.ip) :
          /\ ValidateLocal(local, ips, a.private)
          /\ \E ip \in now : dial' = <<[local |-> local, ip |-> ip, moved |-> ips # now,
                                        agent |-> a, meta |-> m]>>
    BY <2>0
  <2>2. PICK ip \in now : dial' = <<[local |-> local, ip |-> ip, moved |-> ips # now,
                                     agent |-> a, meta |-> m]>>
    BY <2>1
  <2> HIDE DEF m
  <2>3. /\ dial'[1].local = local /\ dial'[1].ip = ip /\ dial'[1].moved = (ips # now)
        /\ dial'[1].agent = a /\ dial'[1].meta = m
    BY <2>2
  <2>4. \/ local = m.local
        \/ \E i \in DOMAIN a.tunnels : a.tunnels[i].name = m.name /\ a.tunnels[i].local = local
    BY <2>1 DEF resolveLocal
  <2>5. a.private /\ ips = now => ip \in Private
    BY <2>1, <2>2 DEF ValidateLocal, checkIP
  <2> QED BY <2>3, <2>4, <2>5 DEF TargetPermitted
<1>3. CASE ConnStep /\ ~(\E a \in Agents : Dial(a))
  <2>1. dial' = dial \/ dial' = <<>>
    BY <1>3 DEF ConnStep, Accept, ReadRecord, HelloPeeked, Handshake, HandshakeFails,
       ReadHead, HeadPeeked, PeekRefuses, ReadFails, Handle, AnswerHere, HTTP1Ends, Refuse
  <2> QED BY <1>1, <2>1
<1>4. CASE UNCHANGED conn \/ UNCHANGED vars
  BY <1>1, <1>4 DEF conn, vars
<1> QED BY <1>2, <1>3, <1>4, Split

LEMMA TargetHolds == Spec => []TargetPermitted
<1>1. Init => TargetPermitted
  BY DEF Init, TargetPermitted
<1> QED BY <1>1, TargetPreserved, PTL DEF Spec

\* For all files, clients and agents a request ends up at the service that the
\* two configurations have for the name in it.
THEOREM Service == Spec => []RightService
<1>1. Names => RoutedAsNamed
  BY NamesMeans
<1>2. RoutedAsNamed /\ TargetPermitted => RightService
  BY DEF RightService
<1> QED BY <1>1, <1>2, NamesHold, TargetHolds, PTL

\* The certificate that the client is shown is the one of the tunnel that its
\* server name stands for: the name that crypto/tls reads from the replayed
\* hello is the one that PeekClientHello found.
THEOREM Certificate == Spec => []RightCertificate
<1>1. Names => RightCertificate
  BY NamesMeans
<1> QED BY <1>1, NamesHold, PTL
-----------------------------------------------------------------------------
\* Waiting.

\* A verdict on what has been read comes as soon as it can.
LEMMA HelloInTime ==
  ASSUME NEW recs \in Seq(Unit), recs # <<>>, RecsFirst(recs), HelloVerdict(recs).end = "more"
  PROVE  ~(Len(Handshakes(recs)) > Handshakes(recs)[1].len)
<1> DEFINE hs == Handshakes(recs)
           more == [end |-> "more", host |-> NoHost]
           error == [end |-> "error", host |-> NoHost]
           sniv == parseHelloSNI(Extensions(recs))
           last == CASE ~IsClientHello(hs[1]) -> error
                     [] IsClientHello(hs[1]) /\ Len(hs) < 1 + hs[1].len -> more
                     [] OTHER -> sniv
<1>1. HelloVerdict(recs) =
        CASE recs = <<>> -> more
          [] Len(recs) > MaxPeek -> error
          [] recs # <<>> /\ Len(recs) <= MaxPeek /\ ~IsHandshake(recs[Len(recs)]) -> error
          [] OTHER -> last
  BY DEF HelloVerdict, Extensions
<1>2. error.end # "more"
  OBVIOUS
<1>3. sniv.end # "more"
  <2> DEFINE exts == Extensions(recs)
             odd == {i \in DOMAIN exts : exts[i].ext \in {"sni", "bad"}}
             x == exts[Min(odd)]
             named == {i \in DOMAIN x.names : x.names[i].type = 0}
             some == [end |-> "ok", host |-> IF named = {} THEN NoHost
                                             ELSE x.names[Min(named)].host]
             none == [end |-> "ok", host |-> NoHost]
  <2>1. sniv = CASE odd = {} -> none
                 [] odd # {} /\ x.ext = "bad" -> error
                 [] OTHER -> some
    BY DEF parseHelloSNI
  <2>2. none.end = "ok" /\ some.end = "ok" /\ error.end = "error"
    OBVIOUS
  <2> HIDE DEF odd, x, named, some, none, error, sniv
  <2> QED BY <2>1, <2>2
<1>4. Len(recs) \in Nat /\ MaxPeek \in Nat
  BY LenProperties, MaxPeekAssumption
<1> HIDE DEF more, error, sniv, hs
<1>5. IsHandshake(recs[Len(recs)]) /\ HelloVerdict(recs) = last
  <2> HIDE DEF last
  <2> QED BY <1>1, <1>2, <1>4
<1>6. IsClientHello(hs[1]) /\ Len(hs) < 1 + hs[1].len
  BY <1>2, <1>3, <1>5
<1>7. \A i \in DOMAIN recs : recs[i].k = "rec"
  <2>1. DOMAIN recs = 1 .. Len(recs)
    BY LenProperties
  <2>2. recs[Len(recs)].k = "rec"
    BY <1>5 DEF IsHandshake
  <2> QED BY <1>4, <2>1, <2>2 DEF RecsFirst
<1>8. hs \in Seq(Piece) /\ hs # <<>>
  BY <1>5, <1>7, HandshakesFact DEF IsHandshake, hs
<1>9. Len(hs) \in Nat /\ hs[1] \in Piece
  BY <1>8, EmptySeq, LenProperties, ElementOfSeq
<1>10. hs[1].len \in Nat
  BY <1>6, <1>9, PieceFact DEF IsClientHello
<1>11. ~(Len(hs) > hs[1].len)
  BY <1>6, <1>9, <1>10
<1> QED BY <1>11 DEF hs

LEMMA LineInTime ==
  ASSUME NEW units \in Seq(Unit), Len(units) >= PrefaceLen,
         units[1].k = "line", units[Len(units)].k = "end"
  PROVE  HTTPVerdict(units).end # "more"
<1>1. Len(units) \in Nat /\ DOMAIN units = 1 .. Len(units) /\ Len(units) >= 2
  BY LenProperties DEF PrefaceLen
<1>2. SubSeq(units, 1, PrefaceLen) # HTTP2ClientPreface
  <2>1. SubSeq(units, 1, 2)[1] = units[1]
    <3>1. \A i \in 1 .. 2 : units[i] \in Unit
      BY <1>1, ElementOfSeq
    <3> QED BY <3>1, SubSeqProperties
  <2>2. HTTP2ClientPreface[1].k = "pri"
    BY DEF HTTP2ClientPreface
  <2> QED BY <2>1, <2>2 DEF PrefaceLen
<1>3. HTTPVerdict(units) = HTTP1Verdict(units)
  <2> DEFINE more == [end |-> "more", host |-> NoHost]
             same == SubSeq(units, 1, PrefaceLen) = HTTP2ClientPreface
  <2>1. HTTPVerdict(units) = CASE Len(units) < PrefaceLen -> more
                               [] Len(units) >= PrefaceLen /\ same -> HTTP2Verdict(units)
                               [] OTHER -> HTTP1Verdict(units)
    BY DEF HTTPVerdict
  <2>2. ~same /\ ~(Len(units) < PrefaceLen)
    BY <1>1, <1>2 DEF PrefaceLen
  <2> HIDE DEF more, same
  <2> QED BY <2>1, <2>2
<1>4. Complete(units)
  BY <1>1 DEF Complete
<1>5. HTTP1Verdict(units).end = "h1"
  BY <1>4 DEF HTTP1Verdict
<1> QED BY <1>3, <1>5

LEMMA PrefaceFact ==
  ASSUME NEW u \in Unit, u.k \in {"pri", "sm"}
  PROVE  u = [k |-> u.k]
<1>1. u \in [k : {"word", "end", "pri", "sm"}]
  BY DEF Unit
<1>2. DOMAIN u = {"k"} /\ u = [x \in DOMAIN u |-> u[x]]
  BY <1>1
<1> QED BY <1>2

LEMMA FrameInTime ==
  ASSUME NEW units \in Seq(Unit), Len(units) > PrefaceLen,
         units[1].k = "pri", units[2].k = "sm",
         NEW i \in DOMAIN units, units[i].k \in {"headers", "continuation"}, units[i].last
  PROVE  HTTPVerdict(units).end # "more"
<1>1. /\ Len(units) \in Nat /\ DOMAIN units = 1 .. Len(units) /\ Len(units) > 2
      /\ units[1] \in Unit /\ units[2] \in Unit
  BY LenProperties, ElementOfSeq DEF PrefaceLen
<1>2. units[1] = [k |-> "pri"] /\ units[2] = [k |-> "sm"]
  BY <1>1, PrefaceFact
<1>3. SubSeq(units, 1, PrefaceLen) = HTTP2ClientPreface
  <2> DEFINE s == SubSeq(units, 1, 2)
             g == HTTP2ClientPreface
  <2>1. s \in Seq(Unit) /\ Len(s) = 2 /\ s[1] = units[1] /\ s[2] = units[2]
    <3>1. \A j \in 1 .. 2 : units[j] \in Unit
      BY <1>1
    <3> QED BY <3>1, SubSeqProperties
  <2>2. g = <<units[1], units[2]>>
    BY <1>2, Zenon DEF HTTP2ClientPreface
  <2>3. g \in Seq(Unit) /\ Len(g) = 2 /\ g[1] = units[1] /\ g[2] = units[2]
    <3> HIDE DEF g
    <3> QED BY <1>1, <2>2
  <2> HIDE DEF s, g
  <2>4. s = g
    BY <2>1, <2>3, SeqEqual
  <2> QED BY <2>4 DEF s, g, PrefaceLen
<1>4. HTTPVerdict(units) = HTTP2Verdict(units)
  <2> DEFINE more == [end |-> "more", host |-> NoHost]
             same == SubSeq(units, 1, PrefaceLen) = HTTP2ClientPreface
  <2>1. HTTPVerdict(units) = CASE Len(units) < PrefaceLen -> more
                               [] Len(units) >= PrefaceLen /\ same -> HTTP2Verdict(units)
                               [] OTHER -> HTTP1Verdict(units)
    BY DEF HTTPVerdict
  <2>2. same /\ ~(Len(units) < PrefaceLen) /\ Len(units) >= PrefaceLen
    BY <1>1, <1>3 DEF PrefaceLen
  <2> HIDE DEF more, same
  <2> QED BY <2>1, <2>2
<1>5. i \in PrefaceLen + 1 .. Len(units)
  <2>1. i # 1 /\ i # 2
    OBVIOUS
  <2> QED BY <1>1, <2>1 DEF PrefaceLen
<1> QED BY <1>4, <1>5, HTTP2Fact

LEMMA WaitFact ==
  ASSUME Inv, Names, ReadFails
  PROVE  ~HeadSent
<1>1. /\ raw \in Seq(Unit)
      /\ \/ phase = "hello" /\ HelloVerdict(raw).end = "more"
         \/ phase = "peek" /\ HTTPVerdict(raw).end = "more"
  BY DEF Inv, StreamInv, Seqs, ReadFails, Waits
<1>2. CASE phase = "hello"
  <2>1. RecsFirst(raw)
    BY <1>2 DEF Names, HelloRight
  <2>2. raw # <<>> => ~(Len(Handshakes(raw)) > Handshakes(raw)[1].len)
    BY <1>1, <1>2, <2>1, HelloInTime
  <2> QED BY <1>2, <2>2 DEF HeadSent
<1>3. CASE phase = "peek"
  <2>1. HTTPVerdict(raw).end = "more"
    BY <1>1, <1>3
  <2>2. ~(Len(raw) >= PrefaceLen /\ raw[1].k = "line" /\ raw[Len(raw)].k = "end")
    BY <1>1, <2>1, LineInTime
  <2>3. ~(/\ Len(raw) > PrefaceLen /\ raw[1].k = "pri" /\ raw[2].k = "sm"
          /\ \E i \in DOMAIN raw : raw[i].k \in {"headers", "continuation"} /\ raw[i].last)
    BY <1>1, <2>1, FrameInTime
  <2> QED BY <1>3, <2>2, <2>3 DEF HeadSent
<1> QED BY <1>1, <1>2, <1>3

\* A read of PeekClientHello or PeekHTTP never runs into the deadline while
\* the whole of what it looks for is there, however the client cut it into
\* records, frames and packets.
THEOREM NoWait == Spec => NoNeedlessWait
<1>1. Inv /\ Names => [ReadFails => ~HeadSent]_vars
  BY WaitFact
<1> QED BY <1>1, InvHolds, NamesHold, PTL DEF NoNeedlessWait

=============================================================================
