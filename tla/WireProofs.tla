------------------------------ MODULE WireProofs ------------------------------
(***************************************************************************)
(* Proofs about Wire, for bytes of any width, payloads of any size and all *)
(* messages: Parse is the inverse of Marshal, and as long as no sender     *)
(* goes on after a frame it could not complete, the receiver gets what was *)
(* sent and takes nobody for a probe.                                      *)
(***************************************************************************)
EXTENDS Wire, WellFoundedInduction, SequenceTheorems, TLAPS

-----------------------------------------------------------------------------
\* Induction and recursion; the least counterexample takes the place of
\* induction.

Less == {p \in Nat \X Nat : p[1] < p[2]}

\* A set of numbers that is not empty has a least element.
LEMMA LeastNumber ==
  ASSUME NEW T, T \subseteq Nat, T # {}
  PROVE  \E x \in T : \A y \in T : x <= y
<1>1. IsWellFoundedOn(Less, Nat)
  BY NatLessThanWellFounded DEF OpToRel, Less
<1>2. PICK x \in T : \A y \in T : ~(<<y, x>> \in Less)
  BY <1>1, WFMin
<1>3. \A y \in T : ~(y < x)
  BY <1>2 DEF Less
<1> QED BY <1>3

\* What is true of m and of i + 1 if it is of i is true up to n.
LEMMA UpTo ==
  ASSUME NEW m \in Nat, NEW n \in Nat, NEW T,
         m \in T, \A i \in m..n - 1 : i \in T => i + 1 \in T
  PROVE  m..n \subseteq T
<1> DEFINE U == {i \in m..n : i \notin T}
<1> SUFFICES ASSUME U # {} PROVE FALSE
  OBVIOUS
<1>1. PICK i \in U : \A j \in U : i <= j
  <2>1. U \subseteq Nat
    OBVIOUS
  <2> HIDE DEF U
  <2> QED BY <2>1, LeastNumber
<1>2. i # m /\ i - 1 \in m..n - 1 /\ i - 1 \notin U
  BY <1>1
<1> QED BY <1>1, <1>2

\* A function of m..n that begins with c and goes on by step.
IsStep(step, m, n, V) == \A i \in m + 1..n : \A v \in V : step[<<i, v>>] \in V
Follows(f, step, c, m, n) ==
  f[m] = c /\ \A i \in m + 1..n : f[i] = step[<<i, f[i - 1]>>]

\* There is one: recursive definitions make sense.
LEMMA Recursion ==
  ASSUME NEW m \in Nat, NEW n \in Nat, m <= n, NEW V, NEW c \in V, NEW step,
         IsStep(step, m, n, V)
  PROVE  \E f \in [m..n -> V] : Follows(f, step, c, m, n)
<1> USE DEF IsStep, Follows
<1> DEFINE Upto(k) == \E f \in [m..k -> V] :
                        f[m] = c /\ \A i \in m + 1..k : f[i] = step[<<i, f[i - 1]>>]
           T == {k \in m..n : Upto(k)}
<1>1. Upto(m)
  <2> DEFINE f == [i \in m..m |-> c]
  <2>1. f \in [m..m -> V] /\ f[m] = c /\ \A i \in m + 1..m : f[i] = step[<<i, f[i - 1]>>]
    OBVIOUS
  <2> QED BY <2>1
<1>2. ASSUME NEW k \in m..n - 1, Upto(k) PROVE Upto(k + 1)
  <2>1. PICK f \in [m..k -> V] :
          f[m] = c /\ \A i \in m + 1..k : f[i] = step[<<i, f[i - 1]>>]
    BY <1>2
  <2> DEFINE g == [i \in m..k + 1 |-> IF i = k + 1 THEN step[<<k + 1, f[k]>>] ELSE f[i]]
  <2>2. step[<<k + 1, f[k]>>] \in V
    BY <2>1
  <2>3. g \in [m..k + 1 -> V]
    BY <2>1, <2>2
  <2>4. g[m] = c
    BY <2>1
  <2>5. ASSUME NEW i \in m + 1..k + 1 PROVE g[i] = step[<<i, g[i - 1]>>]
    <3>1. g[i - 1] = f[i - 1] /\ i - 1 \in m..k
      OBVIOUS
    <3>2. CASE i = k + 1
      <4>1. g[k + 1] = step[<<k + 1, f[k]>>] /\ i - 1 = k
        BY <3>2
      <4> HIDE DEF g
      <4> QED BY <3>1, <3>2, <4>1
    <3>3. CASE i # k + 1
      <4>1. g[i] = f[i] /\ i \in m + 1..k
        BY <3>3
      <4> HIDE DEF g
      <4> QED BY <2>1, <3>1, <4>1
    <3> QED BY <3>2, <3>3
  <2> HIDE DEF g
  <2> QED BY <2>3, <2>4, <2>5
<1>3. m..n \subseteq T
  <2> HIDE DEF Upto
  <2>1. m \in T
    BY <1>1
  <2>2. ASSUME NEW i \in m..n - 1, i \in T PROVE i + 1 \in T
    <3>1. Upto(i + 1)
      BY <1>2, <2>2
    <3> QED BY <3>1
  <2> HIDE DEF T
  <2> QED BY <2>1, <2>2, UpTo
<1> QED BY <1>3

\* What FlattenSeq computes.
LEMMA Flatten ==
  ASSUME NEW S, NEW ss \in Seq(Seq(S)), ss # <<>>
  PROVE  \E f \in [1..Len(ss) -> Seq(S)] :
           /\ f[1] = ss[1]
           /\ \A i \in 2..Len(ss) : f[i] = f[i - 1] \o ss[i]
           /\ FlattenSeq(ss) = f[Len(ss)]
<1>1. Len(ss) \in Nat /\ Len(ss) >= 1 /\ \A i \in 1..Len(ss) : ss[i] \in Seq(S)
  BY EmptySeq, LenProperties, ElementOfSeq
<1> DEFINE N == Len(ss)
           V == Seq(S)
           c == ss[1]
           step == [p \in (1 + 1..N) \X V |-> p[2] \o ss[p[1]]]
           Eq(f) == f = [i \in 1..N |-> IF i = 1 THEN ss[i] ELSE f[i - 1] \o ss[i]]
<1>2. ASSUME NEW i \in 1 + 1..N, NEW v \in V
      PROVE  step[<<i, v>>] = v \o ss[i] /\ v \o ss[i] \in V
  <2>1. step[<<i, v>>] = v \o ss[i]
    OBVIOUS
  <2>2. ss[i] \in Seq(S)
    BY <1>1
  <2> QED BY <2>1, <2>2, ConcatProperties
<1>3. PICK f \in [1..N -> V] :
        f[1] = c /\ \A i \in 1 + 1..N : f[i] = step[<<i, f[i - 1]>>]
  <2>1. IsStep(step, 1, N, V)
    <3> HIDE DEF step, V
    <3> QED BY <1>2 DEF IsStep
  <2>2. 1 \in Nat /\ N \in Nat /\ 1 <= N /\ c \in V
    BY <1>1
  <2> HIDE DEF step, N, V, c
  <2>3. \E f \in [1..N -> V] : Follows(f, step, c, 1, N)
    BY <2>1, <2>2, Recursion
  <2> QED BY <2>3 DEF Follows
<1> HIDE DEF step
<1>4. ASSUME NEW i \in 2..N PROVE f[i] = f[i - 1] \o ss[i]
  <2>1. N \in Nat
    BY <1>1
  <2> HIDE DEF V, N
  <2>2. f[i - 1] \in V /\ i \in 1 + 1..N
    BY <2>1, <1>3
  <2> QED BY <1>2, <1>3, <2>2
<1>5. Eq(f)
  <2>1. f = [i \in 1..N |-> f[i]]
    BY <1>3
  <2>2. ASSUME NEW i \in 1..N PROVE f[i] = IF i = 1 THEN ss[i] ELSE f[i - 1] \o ss[i]
    <3>1. CASE i = 1
      BY <1>3, <3>1
    <3>2. CASE i # 1
      <4>1. i \in 2..N
        BY <1>1, <3>2
      <4> QED BY <1>4, <3>2, <4>1
    <3> QED BY <3>1, <3>2
  <2> QED BY <2>1, <2>2, Zenon
<1>6. ASSUME NEW g, Eq(g) PROVE g = f
  <2> DEFINE T == {i \in 1..N : g[i] = f[i]}
  <2>0. \A i \in 1..N : g[i] = IF i = 1 THEN ss[i] ELSE g[i - 1] \o ss[i]
    BY <1>6, Zenon
  <2>1. 1 \in T
    BY <1>1, <1>3, <2>0
  <2>2. ASSUME NEW i \in 1..N - 1, i \in T PROVE i + 1 \in T
    <3>1. i + 1 \in 2..N /\ i + 1 \in 1..N /\ (i + 1) - 1 = i /\ i + 1 # 1
      BY <1>1
    <3>2. f[i + 1] = f[i] \o ss[i + 1]
      BY <1>4, <3>1
    <3>3. g[i + 1] = g[i] \o ss[i + 1]
      BY <2>0, <3>1
    <3> QED BY <2>2, <3>1, <3>2, <3>3
  <2>3. 1..N \subseteq T
    <3> HIDE DEF T
    <3> QED BY <1>1, <2>1, <2>2, UpTo
  <2>4. g = [i \in 1..N |-> g[i]]
    <3>1. DOMAIN g = 1..N
      BY <1>6
    <3> QED BY <1>6, <3>1
  <2>5. \A i \in 1..N : g[i] = f[i]
    BY <2>3
  <2>6. f = [i \in 1..N |-> f[i]]
    BY <1>3
  <2> HIDE DEF Eq
  <2> QED BY <2>4, <2>5, <2>6
<1>7. FlattenSeq(ss) = (CHOOSE g : Eq(g))[N]
  BY <1>1 DEF FlattenSeq
<1>8. Eq(CHOOSE g : Eq(g))
  <2> HIDE DEF Eq
  <2> QED BY <1>5
<1>9. (CHOOSE g : Eq(g)) = f
  <2> HIDE DEF Eq
  <2> QED BY <1>6, <1>8
<1> QED BY <1>1, <1>3, <1>4, <1>7, <1>9

\* Two functions that agree at m and go on in the same way are equal.
IsOn(f, m, n) == f = [i \in m..n |-> f[i]]
Alike(f, g, m, n) ==
  g[m] = f[m] /\ \A i \in m + 1..n : g[i - 1] = f[i - 1] => g[i] = f[i]

LEMMA Agree ==
  ASSUME NEW m \in Nat, NEW n \in Nat, m <= n, NEW f, NEW g,
         IsOn(f, m, n), IsOn(g, m, n), Alike(f, g, m, n)
  PROVE  g = f
<1> USE DEF IsOn, Alike
<1> DEFINE T == {i \in m..n : g[i] = f[i]}
<1>1. m \in T
  OBVIOUS
<1>2. ASSUME NEW i \in m..n - 1, i \in T PROVE i + 1 \in T
  <2>1. i + 1 \in m + 1..n /\ (i + 1) - 1 = i /\ i + 1 \in m..n
    OBVIOUS
  <2>2. g[i] = f[i]
    BY <1>2
  <2>3. g[i + 1] = f[i + 1]
    BY <2>1, <2>2
  <2> QED BY <2>1, <2>3
<1>3. m..n \subseteq T
  <2> HIDE DEF T
  <2> QED BY <1>1, <1>2, UpTo
<1>4. \A i \in m..n : g[i] = f[i]
  BY <1>3
<1> QED BY <1>4

LEMMA FcnIsSeq ==
  ASSUME NEW n \in Nat, NEW S, NEW f \in [1..n -> S]
  PROVE  f \in Seq(S) /\ Len(f) = n
<1>1. f \in Seq(S)
  BY SeqDef
<1> QED BY <1>1, LenProperties
-----------------------------------------------------------------------------
\* Integers.

LEMMA DivFact ==
  ASSUME NEW v \in Nat
  PROVE  /\ v \div W \in Nat /\ v % W \in Byte /\ v = (v \div W) * W + (v % W)
         /\ \A u \in Nat : u <= v => u \div W <= v \div W
<1>1. W \in Nat /\ W > 0
  BY ByteAssumption
<1>2. v \div W \in Nat /\ v % W \in Byte /\ v = (v \div W) * W + (v % W)
  <2>1. v \div W \in Nat /\ v = (v \div W) * W + (v % W)
    BY <1>1
  <2>2. v % W \in 0..(W - 1)
    BY <1>1
  <2> QED BY <2>1, <2>2 DEF Byte
<1>3. ASSUME NEW u \in Nat, u <= v PROVE u \div W <= v \div W
  BY <1>1, <1>3
<1> QED BY <1>2, <1>3

\* What Shift computes.
LEMMA ShiftFact ==
  ASSUME NEW v \in Nat, NEW n \in Nat
  PROVE  /\ Shift(v, n) \in [0..n -> Nat] /\ Shift(v, n)[0] = v
         /\ \A j \in 1..n : Shift(v, n)[j] = Shift(v, n)[j - 1] \div W
<1> DEFINE V == Nat
           step == [p \in (0 + 1..n) \X V |-> p[2] \div W]
           Eq(f) == f = [j \in 0..n |-> IF j = 0 THEN v ELSE f[j - 1] \div W]
<1>0. ASSUME NEW j \in 0 + 1..n, NEW u \in V
      PROVE  step[<<j, u>>] = u \div W /\ u \div W \in V
  BY DivFact
<1>1. PICK f \in [0..n -> V] : f[0] = v /\ \A j \in 0 + 1..n : f[j] = step[<<j, f[j - 1]>>]
  <2>1. IsStep(step, 0, n, V)
    <3> HIDE DEF step, V
    <3> QED BY <1>0 DEF IsStep
  <2>2. 0 \in Nat /\ 0 <= n /\ v \in V
    OBVIOUS
  <2> HIDE DEF step, V
  <2>3. \E f \in [0..n -> V] : Follows(f, step, v, 0, n)
    BY <2>1, <2>2, Recursion
  <2> QED BY <2>3 DEF Follows
<1> HIDE DEF step
<1>2. f[0] = v /\ \A j \in 1..n : f[j] = f[j - 1] \div W
  <2>1. ASSUME NEW j \in 1..n PROVE f[j] = f[j - 1] \div W
    <3>1. f[j - 1] \in V /\ j \in 0 + 1..n
      BY <1>1
    <3> HIDE DEF V
    <3> QED BY <1>0, <1>1, <3>1
  <2> QED BY <1>1, <2>1
<1>3. Eq(f)
  <2>1. f = [j \in 0..n |-> f[j]]
    BY <1>1
  <2>2. ASSUME NEW j \in 0..n PROVE f[j] = IF j = 0 THEN v ELSE f[j - 1] \div W
    BY <1>2
  <2> QED BY <2>1, <2>2, Zenon
<1>4. ASSUME NEW g, Eq(g) PROVE g = f
  <2>1. \A j \in 0..n : g[j] = IF j = 0 THEN v ELSE g[j - 1] \div W
    BY <1>4, Zenon
  <2>2. g = [j \in 0..n |-> g[j]]
    <3>1. DOMAIN g = 0..n
      BY <1>4
    <3> QED BY <1>4, <3>1
  <2>3. g[0] = f[0]
    BY <1>2, <2>1
  <2>4. ASSUME NEW i \in 0 + 1..n, g[i - 1] = f[i - 1] PROVE g[i] = f[i]
    BY <1>2, <2>1, <2>4
  <2>5. f = [j \in 0..n |-> f[j]] /\ 0 \in Nat /\ 0 <= n
    BY <1>1
  <2>6. IsOn(f, 0, n) /\ IsOn(g, 0, n) /\ Alike(f, g, 0, n)
    BY <2>2, <2>3, <2>4, <2>5 DEF IsOn, Alike
  <2> HIDE DEF Eq
  <2> QED BY <2>5, <2>6, Agree
<1>5. Shift(v, n) = CHOOSE g : Eq(g)
  BY DEF Shift
<1>6. Shift(v, n) = f
  <2> HIDE DEF Eq
  <2> QED BY <1>3, <1>4, <1>5
<1> QED BY <1>2, <1>6

\* What ValueOf computes.
LEMMA ValueOfFact ==
  ASSUME NEW b \in Seq(Byte)
  PROVE  \E f \in [0..Len(b) -> Nat] :
           /\ f[0] = 0 /\ ValueOf(b) = f[Len(b)]
           /\ \A i \in 1..Len(b) : f[i] = f[i - 1] * W + b[i]
<1> DEFINE n == Len(b)
           V == Nat
           step == [p \in (0 + 1..n) \X V |-> p[2] * W + b[p[1]]]
           Eq(f) == f = [i \in 0..n |-> IF i = 0 THEN 0 ELSE f[i - 1] * W + b[i]]
<1>0. n \in Nat /\ \A i \in 1..n : b[i] \in Nat
  <2>1. n \in Nat /\ \A i \in 1..n : b[i] \in Byte
    BY LenProperties, ElementOfSeq
  <2>2. Byte \subseteq Nat
    BY ByteAssumption DEF Byte
  <2> QED BY <2>1, <2>2
<1>7. ASSUME NEW i \in 0 + 1..n, NEW v \in V
      PROVE  step[<<i, v>>] = v * W + b[i] /\ v * W + b[i] \in V
  <2>1. step[<<i, v>>] = v * W + b[i]
    OBVIOUS
  <2>2. b[i] \in Nat
    BY <1>0
  <2> QED BY <2>1, <2>2, ByteAssumption
<1>1. PICK f \in [0..n -> V] : f[0] = 0 /\ \A i \in 0 + 1..n : f[i] = step[<<i, f[i - 1]>>]
  <2>1. IsStep(step, 0, n, V)
    <3> HIDE DEF step, V
    <3> QED BY <1>7 DEF IsStep
  <2>2. 0 \in Nat /\ n \in Nat /\ 0 <= n /\ 0 \in V
    BY <1>0
  <2> HIDE DEF step, V, n
  <2>3. \E f \in [0..n -> V] : Follows(f, step, 0, 0, n)
    BY <2>1, <2>2, Recursion
  <2> QED BY <2>3 DEF Follows
<1>2. f[0] = 0 /\ \A i \in 1..n : f[i] = f[i - 1] * W + b[i]
  <2>1. ASSUME NEW i \in 1..n PROVE f[i] = f[i - 1] * W + b[i]
    <3>1. f[i - 1] \in V /\ i \in 0 + 1..n
      <4> HIDE DEF V, n
      <4> QED BY <1>0, <1>1
    <3> HIDE DEF V, step
    <3> QED BY <1>1, <1>7, <3>1
  <2> QED BY <1>1, <2>1
<1> HIDE DEF step
<1>3. Eq(f)
  <2>1. f = [i \in 0..n |-> f[i]]
    BY <1>1
  <2>2. ASSUME NEW i \in 0..n PROVE f[i] = IF i = 0 THEN 0 ELSE f[i - 1] * W + b[i]
    BY <1>0, <1>2
  <2> QED BY <2>1, <2>2, Zenon
<1>4. ASSUME NEW g, Eq(g) PROVE g = f
  <2>1. \A i \in 0..n : g[i] = IF i = 0 THEN 0 ELSE g[i - 1] * W + b[i]
    BY <1>4, Zenon
  <2>2. g = [i \in 0..n |-> g[i]]
    <3>1. DOMAIN g = 0..n
      BY <1>4
    <3> QED BY <1>4, <3>1
  <2>3. g[0] = f[0]
    BY <1>0, <1>2, <2>1
  <2>4. ASSUME NEW i \in 0 + 1..n, g[i - 1] = f[i - 1] PROVE g[i] = f[i]
    BY <1>0, <1>2, <2>1, <2>4
  <2>5. f = [i \in 0..n |-> f[i]] /\ 0 \in Nat /\ 0 <= n
    BY <1>0, <1>1
  <2>6. IsOn(f, 0, n) /\ IsOn(g, 0, n) /\ Alike(f, g, 0, n)
    BY <2>2, <2>3, <2>4, <2>5 DEF IsOn, Alike
  <2> HIDE DEF Eq, n
  <2> QED BY <1>0, <2>5, <2>6, Agree
<1>5. ValueOf(b) = (CHOOSE g : Eq(g))[n]
  BY DEF ValueOf
<1>6. ValueOf(b) = f[n]
  <2> HIDE DEF Eq
  <2> QED BY <1>3, <1>4, <1>5
<1> QED BY <1>1, <1>2, <1>6

LEMMA ValueIsNat ==
  ASSUME NEW b \in Seq(Byte)
  PROVE  ValueOf(b) \in Nat
<1>1. PICK f \in [0..Len(b) -> Nat] : ValueOf(b) = f[Len(b)]
  BY ValueOfFact
<1>2. Len(b) \in 0..Len(b)
  BY LenProperties
<1> QED BY <1>1, <1>2

LEMMA DigitsFact ==
  ASSUME NEW v \in Nat, NEW n \in Nat
  PROVE  Digits(v, n) \in Seq(Byte) /\ Len(Digits(v, n)) = n
<1>1. ASSUME NEW i \in 1..n PROVE Shift(v, n)[n - i] % W \in Byte
  <2>1. n - i \in 0..n
    OBVIOUS
  <2>2. Shift(v, n)[n - i] \in Nat
    BY <2>1, ShiftFact
  <2> QED BY <2>2, DivFact
<1>2. Digits(v, n) \in [1..n -> Byte]
  BY <1>1 DEF Digits
<1> QED BY <1>2, FcnIsSeq

\* What was put into n bytes is read from them.
LEMMA RoundTrip ==
  ASSUME NEW n \in Nat, NEW v, IsUint(v, n)
  PROVE  ValueOf(Digits(v, n)) = v
<1> DEFINE b == Digits(v, n)
           s == Shift(v, n)
<1>1. v \in Nat /\ s[n] = 0
  BY DEF IsUint
<1>2. b \in Seq(Byte) /\ Len(b) = n /\ \A i \in 1..n : b[i] = s[n - i] % W
  BY <1>1, DigitsFact DEF Digits
<1>3. s \in [0..n -> Nat] /\ s[0] = v /\ \A j \in 1..n : s[j] = s[j - 1] \div W
  BY <1>1, ShiftFact
<1> HIDE DEF b, s
<1>4. PICK f \in [0..n -> Nat] :
        f[0] = 0 /\ ValueOf(b) = f[n] /\ \A i \in 1..n : f[i] = f[i - 1] * W + b[i]
  BY <1>2, ValueOfFact
<1> DEFINE T == {i \in 0..n : f[i] = s[n - i]}
<1>5. 0 \in T
  BY <1>1, <1>4
<1>6. ASSUME NEW i \in 0..n - 1, i \in T PROVE i + 1 \in T
  <2>1. i + 1 \in 1..n /\ (i + 1) - 1 = i /\ n - i \in 1..n /\ n - (i + 1) = (n - i) - 1
        /\ n - (i + 1) \in 0..n
    OBVIOUS
  <2> DEFINE q == s[n - (i + 1)]
  <2>2. q \in Nat /\ s[n - i] = q \div W
    BY <1>3, <2>1
  <2>3. f[i + 1] = f[i] * W + b[i + 1] /\ f[i] = s[n - i] /\ b[i + 1] = q % W
    BY <1>2, <1>4, <1>6, <2>1
  <2>4. q = (q \div W) * W + (q % W)
    <3> HIDE DEF q
    <3> QED BY <2>2, DivFact
  <2>5. f[i + 1] = q
    <3>1. f[i + 1] = (q \div W) * W + (q % W)
      <4> HIDE DEF q
      <4> QED BY <2>2, <2>3, Zenon
    <3> QED BY <2>4, <3>1, Zenon
  <2> QED BY <2>1, <2>5
<1>7. 0..n \subseteq T
  <2> HIDE DEF T
  <2> QED BY <1>5, <1>6, UpTo
<1>8. n \in T
  BY <1>7
<1>9. f[n] = s[0]
  BY <1>8
<1> QED BY <1>3, <1>4, <1>9 DEF b

LEMMA Smaller ==
  ASSUME NEW n \in Nat, NEW v, IsUint(v, n), NEW u \in Nat, u <= v
  PROVE  IsUint(u, n)
<1> DEFINE s == Shift(v, n)
           r == Shift(u, n)
           T == {j \in 0..n : r[j] <= s[j]}
<1>1. v \in Nat /\ s[n] = 0
  BY DEF IsUint
<1>2. /\ s \in [0..n -> Nat] /\ s[0] = v /\ \A j \in 1..n : s[j] = s[j - 1] \div W
      /\ r \in [0..n -> Nat] /\ r[0] = u /\ \A j \in 1..n : r[j] = r[j - 1] \div W
  BY <1>1, ShiftFact
<1> HIDE DEF r, s
<1>3. 0 \in T
  BY <1>2
<1>4. ASSUME NEW j \in 0..n - 1, j \in T PROVE j + 1 \in T
  <2>1. j + 1 \in 1..n /\ (j + 1) - 1 = j /\ j \in 0..n /\ j + 1 \in 0..n
    OBVIOUS
  <2>2. r[j] \div W <= s[j] \div W
    BY <1>2, <1>4, <2>1, DivFact
  <2> QED BY <1>2, <2>1, <2>2
<1>5. n \in T
  <2> HIDE DEF T
  <2> QED BY <1>3, <1>4, UpTo
<1>6. r[n] = 0
  BY <1>1, <1>2, <1>5
<1> QED BY <1>6 DEF IsUint, r
-----------------------------------------------------------------------------
\* Sequences that grow.

Items(g, S, m, n) == \A i \in m + 1..n : g[i] \in Seq(S)
HasFront(u, t) == Len(t) <= Len(u) /\ \A k \in 1..Len(t) : u[k] = t[k]
Grows(f, g, m, n) == \A i \in m + 1..n : f[i] = f[i - 1] \o g[i]

LEMMA Flattened ==
  ASSUME NEW S, NEW ss \in Seq(Seq(S))
  PROVE  \E f \in [0..Len(ss) -> Seq(S)] :
           f[0] = <<>> /\ Grows(f, ss, 0, Len(ss)) /\ FlattenSeq(ss) = f[Len(ss)]
<1> DEFINE n == Len(ss)
           V == Seq(S)
<1>1. n \in Nat /\ (ss = <<>> <=> n = 0) /\ <<>> \in V /\ \A i \in 1..n : ss[i] \in V
  BY LenProperties, EmptySeq, ElementOfSeq
<1>2. CASE n = 0
  <2> DEFINE f == [i \in 0..0 |-> ss]
  <2>1. FlattenSeq(ss) = ss
    BY <1>2 DEF FlattenSeq
  <2>2. f \in [0..n -> V] /\ f[0] = <<>> /\ f[n] = ss
    BY <1>1, <1>2
  <2>3. Grows(f, ss, 0, n)
    BY <1>2 DEF Grows
  <2> HIDE DEF f, V
  <2> QED BY <2>1, <2>2, <2>3 DEF V
<1>3. CASE n # 0
  <2>1. PICK h \in [1..n -> V] : /\ h[1] = ss[1] /\ FlattenSeq(ss) = h[n]
                                 /\ \A i \in 2..n : h[i] = h[i - 1] \o ss[i]
    BY <1>1, <1>3, Flatten
  <2> DEFINE f == [i \in 0..n |-> IF i = 0 THEN <<>> ELSE h[i]]
  <2>2. f \in [0..n -> V] /\ f[0] = <<>> /\ \A i \in 1..n : f[i] = h[i]
    <3> HIDE DEF V, n
    <3> QED BY <1>1, <2>1
  <2> HIDE DEF f
  <2>3. ASSUME NEW i \in 0 + 1..n PROVE f[i] = f[i - 1] \o ss[i]
    <3>1. CASE i = 1
      <4>1. f[1] = ss[1] /\ ss[1] \in V /\ f[1 - 1] = <<>>
        <5> HIDE DEF V, n
        <5> QED BY <1>1, <2>1, <2>2, <2>3, <3>1
      <4>2. <<>> \o ss[1] = ss[1]
        BY <4>1, ConcatEmptySeq
      <4> QED BY <3>1, <4>1, <4>2
    <3>2. CASE i # 1
      <4>1. i \in 2..n /\ i - 1 \in 1..n /\ i \in 1..n
        <5> HIDE DEF n
        <5> QED BY <1>1, <3>2
      <4> QED BY <2>1, <2>2, <4>1
    <3> QED BY <3>1, <3>2
  <2>4. Grows(f, ss, 0, n)
    BY <2>3 DEF Grows
  <2>5. FlattenSeq(ss) = f[n]
    <3> HIDE DEF n
    <3> QED BY <1>1, <1>3, <2>1, <2>2
  <2> QED BY <2>2, <2>4, <2>5
<1> QED BY <1>2, <1>3

\* What was there first stays at the front.
LEMMA AtFront ==
  ASSUME NEW S, NEW m \in Nat, NEW n \in Nat, NEW f \in [m..n -> Seq(S)], NEW g,
         Items(g, S, m, n), Grows(f, g, m, n), NEW a \in m..n
  PROVE  HasFront(f[n], f[a])
<1> DEFINE V == Seq(S)
           Has(i) == HasFront(f[i], f[a])
           T == {i \in a..n : Has(i)}
<1> USE DEF HasFront
<1>0. f[a] \in V /\ Len(f[a]) \in Nat /\ a \in Nat
  BY LenProperties
<1>1. a \in T
  BY <1>0
<1>2. ASSUME NEW i \in a..n - 1, i \in T PROVE i + 1 \in T
  <2>1. i + 1 \in m + 1..n /\ (i + 1) - 1 = i /\ i \in m..n /\ i + 1 \in a..n
    BY <1>0
  <2> DEFINE x == f[i]
             y == g[i + 1]
  <2>2. x \in Seq(S) /\ y \in Seq(S) /\ f[i + 1] = x \o y
    BY <2>1 DEF Grows, Items
  <2>3. Len(f[a]) <= Len(x) /\ \A k \in 1..Len(f[a]) : x[k] = f[a][k]
    BY <1>2
  <2> HIDE DEF x, y
  <2>4. /\ Len(x \o y) = Len(x) + Len(y) /\ Len(x) \in Nat /\ Len(y) \in Nat
        /\ \A k \in 1..Len(x) + Len(y) : (x \o y)[k] = IF k <= Len(x) THEN x[k] ELSE y[k - Len(x)]
    BY <2>2, ConcatProperties, LenProperties
  <2>5. Has(i + 1)
    BY <1>0, <2>2, <2>3, <2>4
  <2> HIDE DEF Has
  <2> QED BY <2>1, <2>5
<1>3. a..n \subseteq T
  <2> HIDE DEF T
  <2> QED BY <1>0, <1>1, <1>2, UpTo
<1>4. n \in T
  BY <1>0, <1>3
<1> QED BY <1>4

\* Where the piece g[i] of f[n] is.
IsPiece(S, f, g, n, i) ==
  LET p == f[n]
      a == Len(f[i - 1])
      b == SubSeq(p, a + 1, Len(p))
  IN  /\ Len(f[i]) = a + Len(g[i]) /\ a \in Nat /\ Len(f[i]) <= Len(p)
      /\ SubSeq(p, a + 1, Len(f[i])) = g[i]
      /\ b \in Seq(S) /\ Len(b) = Len(p) - a /\ Len(g[i]) <= Len(b)
      /\ \A k \in 1..Len(g[i]) : b[k] = g[i][k]

LEMMA Piece ==
  ASSUME NEW S, NEW n \in Nat, NEW f \in [0..n -> Seq(S)], NEW g,
         Items(g, S, 0, n), Grows(f, g, 0, n), NEW i \in 1..n
  PROVE  IsPiece(S, f, g, n, i)
<1> DEFINE p == f[n]
           x == f[i - 1]
           y == g[i]
           a == Len(x)
           b == SubSeq(p, a + 1, Len(p))
           c == SubSeq(p, a + 1, Len(f[i]))
<1>0. 0 \in Nat /\ \A j \in 1..n : g[j] \in Seq(S)
  BY DEF Items
<1>1. i - 1 \in 0..n /\ i \in 0..n /\ n \in 0..n /\ i \in 0 + 1..n
  OBVIOUS
<1>2. x \in Seq(S) /\ y \in Seq(S) /\ p \in Seq(S) /\ f[i] = x \o y
  BY <1>0, <1>1 DEF Grows
<1>3. Len(f[i]) <= Len(p) /\ \A k \in 1..Len(f[i]) : p[k] = f[i][k]
  <2>1. HasFront(f[n], f[i])
    BY <1>0, <1>1, AtFront
  <2> QED BY <2>1 DEF HasFront
<1> HIDE DEF p, x, y
<1>4. /\ Len(x \o y) = Len(x) + Len(y) /\ Len(x) \in Nat /\ Len(y) \in Nat /\ Len(p) \in Nat
      /\ \A k \in 1..Len(x) + Len(y) : (x \o y)[k] = IF k <= Len(x) THEN x[k] ELSE y[k - Len(x)]
      /\ \A k \in 1..Len(p) : p[k] \in S
  BY <1>2, ConcatProperties, LenProperties, ElementOfSeq
<1>5. Len(f[i]) = a + Len(y) /\ a \in Nat /\ a + Len(y) <= Len(p)
  BY <1>2, <1>3, <1>4
<1>6. ASSUME NEW k \in 1..Len(y) PROVE p[a + k] = y[k]
  <2>1. a + k \in 1..Len(x) + Len(y) /\ ~(a + k <= Len(x)) /\ (a + k) - Len(x) = k
    BY <1>4
  <2>2. (x \o y)[a + k] = y[k]
    BY <1>4, <2>1
  <2>3. p[a + k] = f[i][a + k]
    BY <1>3, <1>5, <2>1
  <2> QED BY <1>2, <2>2, <2>3
<1>7. ASSUME NEW l \in Nat, a + Len(y) <= l, l <= Len(p)
      PROVE  /\ SubSeq(p, a + 1, l) \in Seq(S) /\ Len(SubSeq(p, a + 1, l)) = l - a
             /\ \A k \in 1..Len(y) : SubSeq(p, a + 1, l)[k] = y[k]
  <2> DEFINE o == a + 1
  <2>1. o \in Int /\ \A j \in o..l : p[j] \in S
    BY <1>4, <1>5, <1>7
  <2>2. /\ SubSeq(p, o, l) \in Seq(S)
        /\ Len(SubSeq(p, o, l)) = IF o <= l THEN l - o + 1 ELSE 0
        /\ \A k \in 1..l - o + 1 : SubSeq(p, o, l)[k] = p[o + k - 1]
    <3> HIDE DEF o, a
    <3> QED BY <1>7, <2>1, SubSeqProperties
  <2>3. Len(SubSeq(p, o, l)) = l - a
    <3> HIDE DEF a
    <3> QED BY <1>4, <1>5, <1>7, <2>2
  <2>4. ASSUME NEW k \in 1..Len(y) PROVE SubSeq(p, o, l)[k] = y[k]
    <3>1. k \in 1..l - o + 1 /\ o + k - 1 = a + k
      <4> HIDE DEF a
      <4> QED BY <1>4, <1>5, <1>7
    <3> HIDE DEF o, a
    <3> QED BY <1>6, <2>2, <3>1
  <2> QED BY <2>2, <2>3, <2>4
<1> HIDE DEF a
<1>8. c = y
  <2>1. c \in Seq(S) /\ Len(c) = Len(y) /\ \A k \in 1..Len(y) : c[k] = y[k]
    <3> DEFINE l == Len(f[i])
    <3>1. l \in Nat /\ a + Len(y) <= l /\ l <= Len(p) /\ l - a = Len(y)
      BY <1>4, <1>5
    <3> HIDE DEF l
    <3>2. /\ SubSeq(p, a + 1, l) \in Seq(S) /\ Len(SubSeq(p, a + 1, l)) = l - a
          /\ \A k \in 1..Len(y) : SubSeq(p, a + 1, l)[k] = y[k]
      BY <1>7, <3>1
    <3>3. c = SubSeq(p, a + 1, l)
      BY DEF l
    <3> HIDE DEF c
    <3> QED BY <3>1, <3>2, <3>3
  <2> HIDE DEF c
  <2> QED BY <1>2, <2>1, SeqEqual
<1>9. b \in Seq(S) /\ Len(b) = Len(p) - a /\ \A k \in 1..Len(y) : b[k] = y[k]
  <2> DEFINE l == Len(p)
  <2>1. l \in Nat /\ a + Len(y) <= l /\ l <= Len(p)
    BY <1>4, <1>5
  <2> HIDE DEF l
  <2>2. /\ SubSeq(p, a + 1, l) \in Seq(S) /\ Len(SubSeq(p, a + 1, l)) = l - a
        /\ \A k \in 1..Len(y) : SubSeq(p, a + 1, l)[k] = y[k]
    BY <1>7, <2>1
  <2> QED BY <2>2 DEF l
<1> HIDE DEF b, c
<1>10. Len(y) <= Len(b)
  BY <1>4, <1>5, <1>9
<1>11. /\ Len(f[i]) = a + Len(y) /\ a \in Nat /\ Len(f[i]) <= Len(p) /\ c = y
       /\ b \in Seq(S) /\ Len(b) = Len(p) - a /\ Len(y) <= Len(b)
       /\ \A k \in 1..Len(y) : b[k] = y[k]
  BY <1>3, <1>5, <1>8, <1>9, <1>10
<1> QED BY <1>11, Zenon DEF IsPiece, a, b, c, p, x, y
-----------------------------------------------------------------------------
\* Fields.

Kind == {"byte", "flag", "u32", "u64", "string", "rest"}

Closed == {"byte", "flag", "u32", "u64", "string"}
FieldList(q) ==
  /\ q \in Seq(Kind) /\ Len(q) >= 1
  /\ \A i \in 1..Len(q) : q[i] = "rest" => i = Len(q)

LEMMA Tuples ==
  ASSUME NEW S, NEW a \in S, NEW b \in S, NEW c \in S, NEW d \in S
  PROVE  /\ <<a>> \in Seq(S) /\ Len(<<a>>) = 1
         /\ <<a, b>> \in Seq(S) /\ <<a, b, c>> \in Seq(S) /\ <<a, b, c, d>> \in Seq(S)
         /\ Len(<<a, b>>) = 2 /\ Len(<<a, b, c>>) = 3 /\ Len(<<a, b, c, d>>) = 4
  OBVIOUS

LEMMA ListsOfFields ==
  ASSUME NEW a \in Closed, NEW b \in Closed, NEW c \in Closed, NEW d \in Kind
  PROVE  FieldList(<<d>>) /\ FieldList(<<a, d>>) /\ FieldList(<<a, b, d>>)
         /\ FieldList(<<a, b, c, d>>)
<1>1. a \in Kind /\ b \in Kind /\ c \in Kind /\ a # "rest" /\ b # "rest" /\ c # "rest"
  BY DEF Closed, Kind
<1>2. FieldList(<<d>>)
  <2> DEFINE q == <<d>>
  <2>1. q \in Seq(Kind) /\ Len(q) = 1
    BY Tuples
  <2> QED BY <2>1 DEF FieldList
<1>3. FieldList(<<a, d>>)
  <2> DEFINE q == <<a, d>>
  <2>1. q \in Seq(Kind) /\ Len(q) = 2 /\ q[1] = a
    BY <1>1, Tuples
  <2> HIDE DEF q
  <2>2. FieldList(q)
    BY <1>1, <2>1 DEF FieldList
  <2> QED BY <2>2 DEF q
<1>4. FieldList(<<a, b, d>>)
  <2> DEFINE q == <<a, b, d>>
  <2>1. q \in Seq(Kind) /\ Len(q) = 3 /\ q[1] = a /\ q[2] = b
    BY <1>1, Tuples
  <2> HIDE DEF q
  <2>2. FieldList(q)
    BY <1>1, <2>1 DEF FieldList
  <2> QED BY <2>2 DEF q
<1>5. FieldList(<<a, b, c, d>>)
  <2> DEFINE q == <<a, b, c, d>>
  <2>1. q \in Seq(Kind) /\ Len(q) = 4 /\ q[1] = a /\ q[2] = b /\ q[3] = c
    BY <1>1, Tuples
  <2> HIDE DEF q
  <2>2. FieldList(q)
    BY <1>1, <2>1 DEF FieldList
  <2> QED BY <2>2 DEF q
<1> QED BY <1>2, <1>3, <1>4, <1>5

\* A message has fields, and only the last one may be open.
LEMMA KindsFact ==
  ASSUME NEW t \in DOMAIN Fields
  PROVE  /\ Fields[t] \in Seq(Kind) /\ Len(Fields[t]) >= 1 /\ t \in Byte
         /\ \A i \in 1..Len(Fields[t]) : Fields[t][i] = "rest" => i = Len(Fields[t])
<1>1. t \in {1, 2, 3, 4, 6, 7, 9, 10, 11, 12}
  BY DEF Fields
<1>2. /\ t = 1 => Fields[t] = <<"string", "string">>
      /\ t = 2 => Fields[t] = <<"flag", "string">>
      /\ t = 3 => Fields[t] = <<"byte", "string", "string", "string">>
      /\ t = 4 => Fields[t] = <<"flag", "string">>
      /\ t \in {6, 7} => Fields[t] = <<"u64">>
      /\ t = 9 => Fields[t] = <<"u32", "string">>
      /\ t = 10 => Fields[t] = <<"u32", "flag", "string">>
      /\ t = 11 => Fields[t] = <<"u32", "rest">>
      /\ t = 12 => Fields[t] = <<"u32">>
  BY <1>1 DEF Fields, AuthRequest, AuthResponse, OpenMeta, OpenAck, Ping, OpenAssoc,
     OpenAssocAck, Datagram, CloseAssoc
<1>3. t \in Byte
  BY <1>1, ByteAssumption DEF Byte
<1>4. FieldList(Fields[t])
  <2>1. \A a \in Closed : a \in Kind
    BY DEF Closed, Kind
  <2>2. CASE t \in {1, 2, 4, 9, 11}
    <3>1. PICK a \in Closed, b \in Kind : Fields[t] = <<a, b>>
      BY <1>2, <2>2 DEF Closed, Kind
    <3> QED BY <3>1, ListsOfFields
  <2>3. CASE t \in {6, 7, 12}
    <3>1. PICK a \in Kind : Fields[t] = <<a>>
      BY <1>2, <2>3 DEF Kind
    <3>2. "byte" \in Closed
      BY DEF Closed
    <3> QED BY <3>1, <3>2, ListsOfFields
  <2>4. CASE t = 3
    <3>1. PICK a \in Closed, b \in Closed, c \in Closed, d \in Kind : Fields[t] = <<a, b, c, d>>
      BY <1>2, <2>4 DEF Closed, Kind
    <3> QED BY <3>1, ListsOfFields
  <2>5. CASE t = 10
    <3>1. PICK a \in Closed, b \in Closed, c \in Kind : Fields[t] = <<a, b, c>>
      BY <1>2, <2>5 DEF Closed, Kind
    <3> QED BY <3>1, ListsOfFields
  <2> QED BY <1>1, <2>2, <2>3, <2>4, <2>5
<1> QED BY <1>3, <1>4 DEF FieldList

LEMMA PutFact ==
  ASSUME NEW kind \in Kind, NEW v, IsField(kind, v), Fits(kind, v)
  PROVE  /\ Put(kind, v) \in Seq(Byte)
         /\ kind \in {"byte", "flag"} => Len(Put(kind, v)) = 1
         /\ kind = "u32" => Len(Put(kind, v)) = 4 /\ ValueOf(Put(kind, v)) = v
         /\ kind = "u64" => Len(Put(kind, v)) = 8 /\ ValueOf(Put(kind, v)) = v
         /\ kind = "string" =>
              /\ v \in Seq(Byte) /\ Put(kind, v) = Digits(Len(v), 2) \o v
              /\ Digits(Len(v), 2) \in Seq(Byte) /\ Len(Digits(Len(v), 2)) = 2
              /\ ValueOf(Digits(Len(v), 2)) = Len(v)
<1>1. CASE kind = "byte"
  <2>1. v \in Byte /\ Put(kind, v) = <<v>>
    BY <1>1 DEF IsField, Put
  <2>2. Put(kind, v) \in Seq(Byte) /\ Len(Put(kind, v)) = 1
    BY <2>1, Tuples
  <2> QED BY <1>1, <2>2
<1>2. CASE kind = "flag"
  <2>1. 0 \in Byte /\ 1 \in Byte
    BY ByteAssumption DEF Byte
  <2>2. Put(kind, v) = <<1>> \/ Put(kind, v) = <<0>>
    BY <1>2 DEF Put
  <2>3. Put(kind, v) \in Seq(Byte) /\ Len(Put(kind, v)) = 1
    BY <2>1, <2>2, Tuples
  <2> QED BY <1>2, <2>3
<1>3. CASE kind = "u32"
  <2>1. IsUint(v, 4) /\ Put(kind, v) = Digits(v, 4) /\ v \in Nat
    BY <1>3 DEF IsField, Put, IsUint
  <2> QED BY <1>3, <2>1, DigitsFact, RoundTrip
<1>4. CASE kind = "u64"
  <2>1. IsUint(v, 8) /\ Put(kind, v) = Digits(v, 8) /\ v \in Nat
    BY <1>4 DEF IsField, Put, IsUint
  <2> QED BY <1>4, <2>1, DigitsFact, RoundTrip
<1>5. CASE kind = "string"
  <2>1. v \in Seq(Byte) /\ Put(kind, v) = Digits(Len(v), 2) \o v /\ IsUint(Len(v), 2)
    BY <1>5 DEF IsField, Put, Fits
  <2>2. Len(v) \in Nat
    BY <2>1, LenProperties
  <2>3. /\ Digits(Len(v), 2) \in Seq(Byte) /\ Len(Digits(Len(v), 2)) = 2
        /\ ValueOf(Digits(Len(v), 2)) = Len(v)
    BY <2>1, <2>2, DigitsFact, RoundTrip
  <2>4. Digits(Len(v), 2) \o v \in Seq(Byte)
    BY <2>1, <2>3, ConcatProperties
  <2> QED BY <1>5, <2>1, <2>3, <2>4
<1>6. CASE kind = "rest"
  <2>1. v \in Seq(Byte) /\ Put(kind, v) = v
    BY <1>6 DEF IsField, Put
  <2> QED BY <1>6, <2>1
<1> QED BY <1>1, <1>2, <1>3, <1>4, <1>5, <1>6 DEF Kind

\* A field is found again at the start of b, and has the value it was given.
LEMMA WidthFact ==
  ASSUME NEW kind \in Kind, NEW v, IsField(kind, v), Fits(kind, v),
         NEW b \in Seq(Byte), HasFront(b, Put(kind, v)),
         kind = "rest" => Len(b) = Len(Put(kind, v))
  PROVE  Width(kind, b) = Len(Put(kind, v))
<1>1. CASE kind # "string"
  BY <1>1, PutFact DEF Width, Kind
<1>2. CASE kind = "string"
  <2> DEFINE d == Digits(Len(v), 2)
             x == Put(kind, v)
  <2>1. v \in Seq(Byte) /\ x = d \o v /\ d \in Seq(Byte) /\ Len(d) = 2 /\ ValueOf(d) = Len(v)
    BY <1>2, PutFact
  <2>2. Len(x) <= Len(b) /\ \A k \in 1..Len(x) : b[k] = x[k]
    BY DEF HasFront
  <2> HIDE DEF d, x
  <2>3. /\ Len(x) = 2 + Len(v) /\ Len(v) \in Nat /\ Len(b) \in Nat
        /\ \A k \in 1..Len(d) + Len(v) : x[k] = IF k <= Len(d) THEN d[k] ELSE v[k - Len(d)]
    <3>1. /\ Len(d \o v) = Len(d) + Len(v)
          /\ \A k \in 1..Len(d) + Len(v) : (d \o v)[k] = IF k <= Len(d) THEN d[k] ELSE v[k - Len(d)]
      BY <2>1, ConcatProperties
    <3>2. Len(v) \in Nat /\ Len(b) \in Nat
      BY <2>1, LenProperties
    <3> QED BY <2>1, <3>1, <3>2
  <2>4. ~(Len(b) < 2) /\ b[1] = d[1] /\ b[2] = d[2]
    BY <2>1, <2>2, <2>3
  <2>5. SubSeq(b, 1, 2) = d
    <3>1. \A k \in 1..2 : b[k] \in Byte
      BY <2>3, <2>4, ElementOfSeq
    <3>2. /\ SubSeq(b, 1, 2) \in Seq(Byte) /\ Len(SubSeq(b, 1, 2)) = 2
          /\ SubSeq(b, 1, 2)[1] = b[1] /\ SubSeq(b, 1, 2)[2] = b[2]
      BY <3>1, SubSeqProperties
    <3> QED BY <2>1, <2>4, <3>2, SeqEqual
  <2> QED BY <1>2, <2>1, <2>3, <2>4, <2>5 DEF Width, x
<1> QED BY <1>1, <1>2

LEMMA ValueFact ==
  ASSUME NEW kind \in Kind, NEW v, IsField(kind, v), Fits(kind, v)
  PROVE  Value(kind, Put(kind, v)) = v
<1>1. CASE kind \in {"byte", "rest"}
  BY <1>1 DEF Value, Put
<1>2. CASE kind = "flag"
  <2>1. v \in BOOLEAN /\ Put(kind, v) = <<IF v THEN 1 ELSE 0>>
    BY <1>2 DEF IsField, Put
  <2>2. Value(kind, Put(kind, v)) = (Put(kind, v)[1] = 1)
    BY <1>2 DEF Value
  <2>3. CASE v = TRUE
    <3>1. Put(kind, v)[1] = 1
      BY <2>1, <2>3
    <3> QED BY <2>2, <2>3, <3>1
  <2>4. CASE v = FALSE
    <3>1. Put(kind, v)[1] # 1
      BY <2>1, <2>4
    <3> QED BY <2>2, <2>4, <3>1
  <2> QED BY <2>1, <2>3, <2>4
<1>3. CASE kind \in {"u32", "u64"}
  BY <1>3, PutFact DEF Value
<1>4. CASE kind = "string"
  <2> DEFINE d == Digits(Len(v), 2)
             x == Put(kind, v)
             y == SubSeq(x, 3, Len(x))
  <2>1. v \in Seq(Byte) /\ x = d \o v /\ d \in Seq(Byte) /\ Len(d) = 2 /\ x \in Seq(Byte)
    BY <1>4, PutFact
  <2>2. Value(kind, x) = y
    BY <1>4 DEF Value
  <2> HIDE DEF d, x
  <2>3. /\ Len(x) = 2 + Len(v) /\ Len(v) \in Nat
        /\ \A k \in 1..Len(d) + Len(v) : x[k] = IF k <= Len(d) THEN d[k] ELSE v[k - Len(d)]
    <3>1. /\ Len(d \o v) = Len(d) + Len(v)
          /\ \A k \in 1..Len(d) + Len(v) : (d \o v)[k] = IF k <= Len(d) THEN d[k] ELSE v[k - Len(d)]
      BY <2>1, ConcatProperties
    <3>2. Len(v) \in Nat
      BY <2>1, LenProperties
    <3> QED BY <2>1, <3>1, <3>2
  <2>4. y \in Seq(Byte) /\ Len(y) = Len(v) /\ \A k \in 1..Len(v) : y[k] = x[k + 2]
    <3> DEFINE l == Len(x)
    <3>1. l \in Nat /\ l = 2 + Len(v) /\ \A k \in 3..l : x[k] \in Byte
      BY <2>1, <2>3, ElementOfSeq
    <3> HIDE DEF l
    <3>2. /\ SubSeq(x, 3, l) \in Seq(Byte)
          /\ Len(SubSeq(x, 3, l)) = IF 3 <= l THEN l - 3 + 1 ELSE 0
          /\ \A k \in 1..l - 3 + 1 : SubSeq(x, 3, l)[k] = x[3 + k - 1]
      BY <3>1, SubSeqProperties
    <3> QED BY <2>3, <3>1, <3>2 DEF l
  <2>5. \A k \in 1..Len(v) : x[k + 2] = v[k]
    BY <2>1, <2>3
  <2> HIDE DEF y
  <2>6. y = v
    BY <2>1, <2>4, <2>5, SeqEqual
  <2> QED BY <2>2, <2>6 DEF x
<1> QED BY <1>1, <1>2, <1>3, <1>4 DEF Kind
-----------------------------------------------------------------------------
\* A message that Marshal does not refuse is what Parse makes of its bytes: no
\* field is cut short, none runs into the next, nothing trails the last one.

THEOREM Codec ==
  ASSUME NEW m, IsMessage(m), Marshals(m)
  PROVE  /\ Marshal(m) \in Seq(Byte) /\ m.type \in Byte
         /\ Parses(m.type, Marshal(m)) /\ Parse(m.type, Marshal(m)) = m
<1> DEFINE t == m.type
           K == Fields[t]
           N == Len(K)
           v == m.fields
           g == [i \in DOMAIN v |-> Put(K[i], v[i])]
           V == Seq(Byte)
<1>1. /\ t \in DOMAIN Fields /\ m = [type |-> t, fields |-> v]
      /\ v = [i \in DOMAIN K |-> v[i]]
  BY DEF IsMessage
<1>2. /\ K \in Seq(Kind) /\ N >= 1 /\ t \in Byte
      /\ \A i \in 1..N : K[i] = "rest" => i = N
  BY <1>1, KindsFact
<1>3. N \in Nat /\ DOMAIN K = 1..N /\ \A i \in 1..N : K[i] \in Kind
  BY <1>2, LenProperties, ElementOfSeq
<1>4. DOMAIN v = 1..N
  BY <1>1, <1>3
<1>5. \A i \in 1..N : IsField(K[i], v[i]) /\ Fits(K[i], v[i])
  BY <1>4 DEF IsMessage, Marshals
<1>6. Marshal(m) = FlattenSeq(g)
  BY DEF Marshal
<1>7. \A i \in 1..N : g[i] = Put(K[i], v[i]) /\ g[i] \in V
  <2>1. \A i \in 1..N : g[i] = Put(K[i], v[i])
    BY <1>4
  <2>2. \A i \in 1..N : Put(K[i], v[i]) \in V
    BY <1>3, <1>5, PutFact
  <2> QED BY <2>1, <2>2
<1>8. g \in Seq(V) /\ Len(g) = N
  <2>1. g \in [1..N -> V]
    <3>1. g = [i \in 1..N |-> g[i]]
      BY <1>4
    <3> HIDE DEF g, V, N
    <3> QED BY <1>7, <3>1
  <2> HIDE DEF g, V, N
  <2> QED BY <1>3, <2>1, FcnIsSeq
<1> HIDE DEF g, t, K, v
<1>9. PICK f \in [0..N -> V] : f[0] = <<>> /\ Grows(f, g, 0, N) /\ FlattenSeq(g) = f[N]
  BY <1>8, Flattened
<1> DEFINE p == f[N]
<1>10. p \in V /\ Marshal(m) = p /\ N \in 0..N /\ Len(p) \in Nat
  <2>1. N \in 0..N
    BY <1>3
  <2> QED BY <1>6, <1>9, <2>1, LenProperties
\* The field i, and what follows the fields before it.
<1>11. ASSUME NEW i \in 1..N
       PROVE  LET a == Len(f[i - 1]) IN
              /\ Len(f[i]) = a + Len(g[i]) /\ a \in Nat
              /\ SubSeq(p, a + 1, Len(f[i])) = g[i]
              /\ Width(K[i], SubSeq(p, a + 1, Len(p))) = Len(g[i])
  <2> DEFINE a == Len(f[i - 1])
             b == SubSeq(p, a + 1, Len(p))
  <2>1. /\ Len(f[i]) = a + Len(g[i]) /\ a \in Nat /\ Len(f[i]) <= Len(p)
        /\ SubSeq(p, a + 1, Len(f[i])) = g[i]
        /\ b \in Seq(Byte) /\ Len(b) = Len(p) - a /\ Len(g[i]) <= Len(b)
        /\ \A k \in 1..Len(g[i]) : b[k] = g[i][k]
    <3>1. Items(g, Byte, 0, N) /\ f \in [0..N -> Seq(Byte)]
      BY <1>7, <1>9 DEF Items
    <3>2. N \in Nat /\ Grows(f, g, 0, N)
      BY <1>3, <1>9
    <3>3. IsPiece(Byte, f, g, N, i)
      <4> HIDE DEF N
      <4> QED BY <3>1, <3>2, Piece
    <3> QED BY <3>3 DEF IsPiece
  <2>2. K[i] = "rest" => Len(b) = Len(g[i])
    <3>1. K[i] = "rest" => i = N
      BY <1>2
    <3>2. Len(g[i]) \in Nat
      BY <1>7, LenProperties
    <3> HIDE DEF b, a, N
    <3>3. K[i] = "rest" => Len(p) = a + Len(g[i])
      BY <2>1, <3>1
    <3> QED BY <2>1, <3>2, <3>3
  <2>3. HasFront(b, g[i])
    <3> HIDE DEF b, a
    <3> QED BY <2>1 DEF HasFront
  <2>4. /\ K[i] \in Kind /\ IsField(K[i], v[i]) /\ Fits(K[i], v[i]) /\ g[i] = Put(K[i], v[i])
    BY <1>3, <1>5, <1>7
  <2> HIDE DEF b
  <2>5. Width(K[i], b) = Len(g[i])
    BY <2>1, <2>2, <2>3, <2>4, WidthFact
  <2> QED BY <2>1, <2>5 DEF b
<1> DEFINE start == [i \in 1..N + 1 |-> Len(f[i - 1]) + 1]
           next(i, s) == s + Width(K[i], SubSeq(p, s, Len(p)))
           Eq(h) == h = [i \in 1..(N + 1) |-> IF i = 1 THEN 1 ELSE next(i - 1, h[i - 1])]
<1>12. \A i \in 1..N + 1 : start[i] = Len(f[i - 1]) + 1
  OBVIOUS
<1>13. start[1] = 1
  <2>1. 1 \in 1..N + 1 /\ f[1 - 1] = <<>>
    BY <1>3, <1>9
  <2>2. Len(<<>>) + 1 = 1
    OBVIOUS
  <2> QED BY <1>12, <2>1, <2>2
<1>14. ASSUME NEW i \in 2..N + 1 PROVE start[i] = next(i - 1, start[i - 1])
  <2> DEFINE j == i - 1
             a == Len(f[j - 1])
  <2>1. j \in 1..N /\ i \in 1..N + 1 /\ j \in 1..N + 1 /\ i = j + 1
    <3> HIDE DEF N
    <3> QED BY <1>3
  <2>2. start[j] = a + 1 /\ start[i] = Len(f[j]) + 1
    <3> HIDE DEF start
    <3> QED BY <1>12, <2>1
  <2> HIDE DEF j, start, p
  <2>3. /\ Len(f[j]) = a + Len(g[j]) /\ a \in Nat
        /\ Width(K[j], SubSeq(p, a + 1, Len(p))) = Len(g[j])
    BY <1>11, <2>1
  <2>4. Len(g[j]) \in Nat
    BY <1>7, <2>1, LenProperties
  <2>5. start[i] = next(j, start[j])
    <3> HIDE DEF a
    <3>1. next(j, start[j]) = (a + 1) + Len(g[j])
      BY <2>2, <2>3
    <3> QED BY <2>2, <2>3, <2>4, <3>1
  <2> QED BY <2>5 DEF j
<1>15. IsOn(start, 1, N + 1)
  BY DEF IsOn
<1>16. Eq(start)
  <2>1. start = [i \in 1..(N + 1) |-> start[i]]
    BY <1>15 DEF IsOn
  <2>2. ASSUME NEW i \in 1..(N + 1) PROVE start[i] = IF i = 1 THEN 1 ELSE next(i - 1, start[i - 1])
    <3>1. i = 1 \/ i \in 2..N + 1
      <4> HIDE DEF N
      <4> QED BY <1>3
    <3> HIDE DEF start, next
    <3> QED BY <1>13, <1>14, <3>1
  <2> HIDE DEF start, next, N
  <2> QED BY <2>1, <2>2, Zenon
<1>17. ASSUME NEW h, Eq(h) PROVE h = start
  <2> HIDE DEF start, next
  <2>1. \A i \in 1..(N + 1) : h[i] = IF i = 1 THEN 1 ELSE next(i - 1, h[i - 1])
    BY <1>17, Zenon
  <2>2. IsOn(h, 1, N + 1)
    <3>1. DOMAIN h = 1..(N + 1)
      BY <1>17
    <3>2. h = [i \in DOMAIN h |-> h[i]]
      BY <1>17
    <3> QED BY <3>1, <3>2 DEF IsOn
  <2>3. h[1] = start[1]
    <3>1. 1 \in 1..(N + 1)
      BY <1>3
    <3> QED BY <1>13, <2>1, <3>1
  <2>4. ASSUME NEW i \in 1 + 1..N + 1, h[i - 1] = start[i - 1] PROVE h[i] = start[i]
    <3>1. i \in 2..N + 1 /\ i \in 1..(N + 1) /\ i # 1
      <4> HIDE DEF N
      <4> QED BY <1>3
    <3> QED BY <1>14, <2>1, <2>4, <3>1
  <2>5. Alike(start, h, 1, N + 1)
    BY <2>3, <2>4 DEF Alike
  <2>6. 1 \in Nat /\ N + 1 \in Nat /\ 1 <= N + 1
    <3> HIDE DEF N
    <3> QED BY <1>3
  <2> HIDE DEF Eq
  <2> DEFINE n == N + 1
  <2>7. IsOn(start, 1, n) /\ IsOn(h, 1, n) /\ Alike(start, h, 1, n) /\ n \in Nat /\ 1 <= n
    BY <1>15, <2>2, <2>5, <2>6
  <2> HIDE DEF n
  <2> QED BY <2>7, Agree
<1>18. Starts(t, p) = start
  <2>1. Starts(t, p) = CHOOSE h : Eq(h)
    BY DEF Starts, K
  <2> HIDE DEF Eq
  <2> QED BY <1>16, <1>17, <2>1
<1>19. Parses(t, p)
  <2>1. N + 1 \in 1..N + 1 /\ (N + 1) - 1 = N
    <3> HIDE DEF N
    <3> QED BY <1>3
  <2>2. start[N + 1] = Len(p) + 1
    <3> HIDE DEF start
    <3> QED BY <1>12, <2>1
  <2> HIDE DEF start, p
  <2> QED BY <1>1, <1>18, <2>2 DEF Parses, K
<1>20. ASSUME NEW i \in 1..N
       PROVE  Value(K[i], SubSeq(p, start[i], start[i + 1] - 1)) = v[i]
  <2>1. i \in 1..N + 1 /\ i + 1 \in 1..N + 1 /\ (i + 1) - 1 = i
    <3> HIDE DEF N
    <3> QED BY <1>3
  <2> DEFINE a == Len(f[i - 1])
  <2>2. start[i] = a + 1 /\ start[i + 1] = Len(f[i]) + 1
    <3> HIDE DEF start
    <3> QED BY <1>12, <2>1
  <2>3. SubSeq(p, a + 1, Len(f[i])) = g[i] /\ Len(f[i]) = a + Len(g[i]) /\ a \in Nat
    <3> HIDE DEF p
    <3> QED BY <1>11
  <2>4. Len(g[i]) \in Nat
    BY <1>7, LenProperties
  <2> HIDE DEF start, p, a
  <2>5. start[i + 1] - 1 = Len(f[i])
    BY <2>2, <2>3, <2>4
  <2>6. SubSeq(p, start[i], start[i + 1] - 1) = g[i]
    BY <2>2, <2>3, <2>5
  <2>7. /\ K[i] \in Kind /\ IsField(K[i], v[i]) /\ Fits(K[i], v[i]) /\ g[i] = Put(K[i], v[i])
    BY <1>3, <1>5, <1>7
  <2> QED BY <2>6, <2>7, ValueFact
<1>21. Parse(t, p) = m
  <2> HIDE DEF start, p
  <2>1. Parse(t, p) = [type |-> t, fields |->
          [i \in DOMAIN K |-> Value(K[i], SubSeq(p, start[i], start[i + 1] - 1))]]
    BY <1>18 DEF Parse, K
  <2>2. [i \in DOMAIN K |-> Value(K[i], SubSeq(p, start[i], start[i + 1] - 1))]
          = [i \in DOMAIN K |-> v[i]]
    <3> HIDE DEF N
    <3> QED BY <1>3, <1>20
  <2> QED BY <1>1, <2>1, <2>2
<1> QED BY <1>2, <1>10, <1>19, <1>21 DEF t
-----------------------------------------------------------------------------
\* Frames on the stream.

Frame(m) == Header(m) \o Marshal(m)

\* What ReadFrame finds in the header that WriteFrame writes.
LEMMA HeaderFact ==
  ASSUME NEW m, IsMessage(m), Sends(m)
  PROVE  /\ Header(m) \in Seq(Byte) /\ Len(Header(m)) = headerSize
         /\ Header(m)[2] = m.type /\ m.type \in Byte
         /\ ValueOf(SubSeq(Header(m), 5, 8)) = Len(Marshal(m)) /\ Acceptable(Header(m))
         /\ Marshal(m) \in Seq(Byte) /\ Len(Marshal(m)) \in 0..MaxPayloadSize
<1> DEFINE l == Len(Marshal(m))
           d == Digits(l, 4)
           a == <<Version, m.type, 0, 0>>
           h == Header(m)
           b == SubSeq(h, 5, 8)
<1>1. /\ Marshal(m) \in Seq(Byte) /\ m.type \in Byte /\ l \in Nat /\ l <= MaxPayloadSize
      /\ MaxPayloadSize \in Nat
  <2>1. Marshal(m) \in Seq(Byte) /\ m.type \in Byte
    BY Codec DEF Sends
  <2>2. l \in Nat
    BY <2>1, LenProperties
  <2> QED BY <2>1, <2>2, SizeAssumption DEF Sends, IsUint
<1>2. IsUint(l, 4)
  <2> HIDE DEF l
  <2>1. 4 \in Nat
    OBVIOUS
  <2> QED BY <1>1, <2>1, SizeAssumption, Smaller
<1>3. d \in Seq(Byte) /\ Len(d) = 4 /\ ValueOf(d) = l
  <2> HIDE DEF l
  <2>1. 4 \in Nat
    OBVIOUS
  <2> QED BY <1>1, <1>2, <2>1, DigitsFact, RoundTrip
<1>4. a \in Seq(Byte) /\ Len(a) = 4 /\ a[1] = Version /\ a[2] = m.type
  <2>1. Version \in Byte /\ 0 \in Byte
    BY ByteAssumption DEF Version, Byte
  <2>2. a \in Seq(Byte) /\ Len(a) = 4
    BY <1>1, <2>1, Tuples
  <2> QED BY <2>2
<1>5. h = a \o d
  BY DEF Header
<1> HIDE DEF l, d, a, h
<1>6. /\ h \in Seq(Byte) /\ Len(h) = 8 /\ h[1] = Version /\ h[2] = m.type
      /\ \A k \in 1..4 : h[k + 4] = d[k]
  <2>1. /\ a \o d \in Seq(Byte) /\ Len(a \o d) = Len(a) + Len(d)
        /\ \A k \in 1..Len(a) + Len(d) :
             (a \o d)[k] = IF k <= Len(a) THEN a[k] ELSE d[k - Len(a)]
    BY <1>3, <1>4, ConcatProperties
  <2> QED BY <1>3, <1>4, <1>5, <2>1
<1>7. b = d
  <2>1. \A j \in 5..8 : h[j] \in Byte
    <3>1. \A j \in 1..Len(h) : h[j] \in Byte
      BY <1>6, ElementOfSeq
    <3> QED BY <1>6, <3>1
  <2>2. b \in Seq(Byte) /\ Len(b) = 4 /\ \A k \in 1..4 : b[k] = h[5 + k - 1]
    <3>1. /\ b \in Seq(Byte) /\ Len(b) = IF 5 <= 8 THEN 8 - 5 + 1 ELSE 0
          /\ \A k \in 1..8 - 5 + 1 : b[k] = h[5 + k - 1]
      BY <2>1, SubSeqProperties
    <3> HIDE DEF b
    <3> QED BY <3>1
  <2> HIDE DEF b
  <2>3. \A k \in 1..4 : b[k] = d[k]
    BY <1>6, <2>2
  <2> QED BY <1>3, <2>2, <2>3, SeqEqual
<1>8. ValueOf(b) = l
  BY <1>3, <1>7
<1>9. Acceptable(h)
  <2> HIDE DEF b
  <2> QED BY <1>1, <1>6, <1>8 DEF Acceptable, b
<1>10. l \in 0..MaxPayloadSize
  BY <1>1
<1> QED BY <1>1, <1>6, <1>8, <1>9, <1>10 DEF headerSize, h, l

\* A sequence that is cut in two.
LEMMA Cut ==
  ASSUME NEW S, NEW s \in Seq(S), NEW k \in 0..Len(s)
  PROVE  /\ SubSeq(s, 1, k) \in Seq(S) /\ SubSeq(s, k + 1, Len(s)) \in Seq(S)
         /\ SubSeq(s, 1, k) \o SubSeq(s, k + 1, Len(s)) = s
         /\ Len(SubSeq(s, k + 1, Len(s))) = Len(s) - k
<1> DEFINE l == Len(s)
           j == k + 1
<1>1. /\ l \in Nat /\ k \in 0..l /\ \A i \in 1..l : s[i] \in S
      /\ j \in Nat /\ j = k + 1 /\ \A i \in 1..k : s[i] \in S
  BY LenProperties, ElementOfSeq
<1>2. SubSeq(s, 1, k) \in Seq(S)
  BY <1>1, SubSeqProperties
<1>3. SubSeq(s, 1, k) \o SubSeq(s, k + 1, Len(s)) = SubSeq(s, 1, Len(s))
  <2>1. /\ 1 \in 1..Len(s) + 1 /\ k \in 1 - 1..Len(s) /\ Len(s) \in k..Len(s)
    BY <1>1
  <2> QED BY <2>1, ConcatAdjacentSubSeq
<1>4. SubSeq(s, 1, Len(s)) = s
  BY SubSeqFull
<1> HIDE DEF l, j
<1>5. SubSeq(s, j, l) \in Seq(S) /\ Len(SubSeq(s, j, l)) = IF j <= l THEN l - j + 1 ELSE 0
  <2>1. \A i \in j..l : s[i] \in S
    BY <1>1
  <2> QED BY <1>1, <2>1, SubSeqProperties
<1>6. Len(SubSeq(s, j, l)) = l - k
  BY <1>1, <1>5
<1> QED BY <1>2, <1>3, <1>4, <1>5, <1>6 DEF l, j
\* The frames of messages that were sent, and what is left of them after the
\* first d.
CanSend(m) == IsMessage(m) /\ Sends(m)
Whole(s) == \A i \in 1..Len(s) : CanSend(s[i])
Frames(s) == [i \in 1..Len(s) |-> Frame(s[i])]
InPlace(s, d, rest) ==
  \E T \in [0..Len(s) -> Seq(Byte)] :
    /\ T[0] = <<>> /\ Grows(T, Frames(s), 0, Len(s))
    /\ T[Len(s)] = T[d] \o rest

LEMMA FrameFact ==
  ASSUME NEW m, CanSend(m)
  PROVE  /\ Frame(m) \in Seq(Byte) /\ Len(Frame(m)) = headerSize + Len(Marshal(m))
         /\ Frame(m) = Header(m) \o Marshal(m)
<1>1. /\ Header(m) \in Seq(Byte) /\ Len(Header(m)) = headerSize /\ Marshal(m) \in Seq(Byte)
  BY HeaderFact DEF CanSend
<1> QED BY <1>1, ConcatProperties DEF Frame

LEMMA FramesFact ==
  ASSUME NEW S, NEW s \in Seq(S), Whole(s)
  PROVE  /\ Len(s) \in Nat /\ Items(Frames(s), Byte, 0, Len(s))
         /\ \A i \in 1..Len(s) : Frames(s)[i] = Frame(s[i]) /\ Frame(s[i]) \in Seq(Byte)
<1>1. \A i \in 1..Len(s) : Frames(s)[i] = Frame(s[i])
  BY DEF Frames
<1>2. \A i \in 1..Len(s) : Frame(s[i]) \in Seq(Byte)
  BY FrameFact DEF Whole
<1>3. Items(Frames(s), Byte, 0, Len(s))
  BY <1>1, <1>2 DEF Items
<1> QED BY <1>1, <1>2, <1>3, LenProperties

LEMMA NothingYet == InPlace(<<>>, 0, <<>>)
<1> DEFINE T == [i \in 0..0 |-> <<>>]
<1>1. Len(<<>>) = 0 /\ T \in [0..0 -> Seq(Byte)] /\ T[0] = <<>>
  OBVIOUS
<1>2. <<>> = <<>> \o <<>>
  BY EmptySeq, ConcatEmptySeq
<1>3. Grows(T, Frames(<<>>), 0, 0)
  BY DEF Grows
<1>4. T[0] = T[0] \o <<>>
  BY <1>1, <1>2
<1> HIDE DEF T
<1> QED BY <1>1, <1>3, <1>4 DEF InPlace

\* The frame of one more message goes behind the others.
LEMMA OneMore ==
  ASSUME NEW S, NEW s \in Seq(S), Whole(s), NEW m \in S, CanSend(m), NEW d \in 0..Len(s),
         NEW rest \in Seq(Byte), InPlace(s, d, rest)
  PROVE  InPlace(Append(s, m), d, rest \o Frame(m)) /\ Whole(Append(s, m))
<1> DEFINE n == Len(s)
           s1 == Append(s, m)
           F == Frame(m)
<1>1. /\ n \in Nat /\ Len(s1) = n + 1 /\ \A i \in 1..n : s1[i] = s[i]
      /\ s1[n + 1] = m
  BY AppendProperties, LenProperties
<1>2. PICK T \in [0..n -> Seq(Byte)] :
        /\ T[0] = <<>> /\ Grows(T, Frames(s), 0, n) /\ T[n] = T[d] \o rest
  BY DEF InPlace
<1>3. F \in Seq(Byte)
  BY FrameFact
<1> HIDE DEF n, s1, F
<1>4. d \in 0..n /\ \A i \in 0..n : T[i] \in Seq(Byte)
  BY <1>2 DEF n
<1> DEFINE U == [i \in 0..n + 1 |-> IF i = n + 1 THEN T[n] \o F ELSE T[i]]
<1>5. T[n] \o F \in Seq(Byte)
  BY <1>1, <1>3, <1>4, ConcatProperties
<1>6. /\ U \in [0..n + 1 -> Seq(Byte)] /\ U[n + 1] = T[n] \o F
      /\ \A i \in 0..n : U[i] = T[i]
  <2>1. \A i \in 0..n + 1 : (IF i = n + 1 THEN T[n] \o F ELSE T[i]) \in Seq(Byte)
    BY <1>1, <1>4, <1>5
  <2> QED BY <1>1, <2>1
<1> HIDE DEF U
<1>7. U[0] = <<>> /\ U[d] = T[d]
  BY <1>1, <1>2, <1>4, <1>6
<1>8. Grows(U, Frames(s1), 0, n + 1)
  <2> SUFFICES ASSUME NEW i \in 1..n + 1 PROVE U[i] = U[i - 1] \o Frames(s1)[i]
    <3>1. 0 + 1 = 1
      OBVIOUS
    <3> QED BY <3>1, Zenon DEF Grows
  <2>1. Frames(s1)[i] = Frame(s1[i])
    BY <1>1 DEF Frames
  <2>2. CASE i = n + 1
    <3>1. s1[i] = m /\ U[i] = T[n] \o F /\ U[i - 1] = T[n]
      BY <1>1, <1>6, <2>2
    <3> QED BY <2>1, <3>1 DEF F
  <2>3. CASE i # n + 1
    <3>1. i \in 1..n /\ i - 1 \in 0..n /\ i \in 0..n /\ i \in 0 + 1..n
      BY <1>1, <2>3
    <3>2. Frames(s)[i] = Frame(s[i])
      BY <3>1 DEF Frames, n
    <3>3. T[i] = T[i - 1] \o Frames(s)[i]
      BY <1>2, <3>1 DEF Grows
    <3> QED BY <1>1, <1>6, <2>1, <3>1, <3>2, <3>3
  <2> QED BY <2>2, <2>3
<1>9. U[n + 1] = U[d] \o (rest \o F)
  <2>1. (T[d] \o rest) \o F = T[d] \o (rest \o F)
    BY <1>3, <1>4, ConcatAssociative
  <2> QED BY <1>2, <1>6, <1>7, <2>1
<1>10. InPlace(s1, d, rest \o F)
  BY <1>1, <1>6, <1>7, <1>8, <1>9 DEF InPlace
<1>11. Whole(s1)
  <2>1. \A i \in 1..n + 1 : i \in 1..n \/ i = n + 1
    BY <1>1
  <2> QED BY <1>1, <2>1 DEF Whole, n
<1> QED BY <1>10, <1>11 DEF s1, F

\* What is left begins with the next frame.
LEMMA NextFrame ==
  ASSUME NEW S, NEW s \in Seq(S), Whole(s), NEW d \in Nat, d < Len(s),
         NEW rest \in Seq(Byte), InPlace(s, d, rest)
  PROVE  HasFront(rest, Frame(s[d + 1]))
<1> DEFINE n == Len(s)
           F == Frame(s[d + 1])
<1>1. /\ n \in Nat /\ Items(Frames(s), Byte, 0, n) /\ F \in Seq(Byte)
      /\ Frames(s)[d + 1] = F /\ d + 1 \in 0..n /\ n \in 0..n /\ d \in 0..n
      /\ d + 1 \in 0 + 1..n
  <2>1. n \in Nat /\ d + 1 \in 1..n /\ n \in 0..n /\ d \in 0..n /\ d + 1 \in 0..n
    BY LenProperties
  <2>2. Items(Frames(s), Byte, 0, n)
    BY FramesFact
  <2>3. Frames(s)[d + 1] = F /\ F \in Seq(Byte)
    BY <2>1, FramesFact
  <2> HIDE DEF n, F
  <2> QED BY <2>1, <2>2, <2>3
<1>2. PICK T \in [0..n -> Seq(Byte)] :
        /\ T[0] = <<>> /\ Grows(T, Frames(s), 0, n) /\ T[n] = T[d] \o rest
  BY DEF InPlace
<1> HIDE DEF n, F
<1> DEFINE x == T[d]
<1>3. T[d + 1] = x \o F /\ x \in Seq(Byte) /\ T[n] = x \o rest
  <2> DEFINE e == d + 1
  <2>1. e - 1 = d /\ e \in 0 + 1..n
    BY <1>1
  <2> HIDE DEF e
  <2>2. T[e] = T[e - 1] \o Frames(s)[e]
    BY <1>2, <2>1 DEF Grows
  <2>3. T[e] = x \o F
    BY <1>1, <2>1, <2>2 DEF e
  <2> QED BY <1>1, <1>2, <2>3 DEF e
<1>4. HasFront(T[n], T[d + 1])
  <2>1. 0 \in Nat
    OBVIOUS
  <2> QED BY <1>1, <1>2, <2>1, AtFront
<1> HIDE DEF x
<1>5. HasFront(x \o rest, x \o F)
  BY <1>3, <1>4
<1>6. /\ Len(x \o F) = Len(x) + Len(F) /\ Len(x) \in Nat /\ Len(F) \in Nat /\ Len(rest) \in Nat
      /\ Len(x \o rest) = Len(x) + Len(rest)
  BY <1>1, <1>3, ConcatProperties, LenProperties
<1>7. /\ \A k \in 1..Len(x) + Len(F) : (x \o F)[k] = IF k <= Len(x) THEN x[k] ELSE F[k - Len(x)]
      /\ \A k \in 1..Len(x) + Len(rest) :
           (x \o rest)[k] = IF k <= Len(x) THEN x[k] ELSE rest[k - Len(x)]
  BY <1>1, <1>3, ConcatProperties
<1>8. Len(F) <= Len(rest)
  BY <1>5, <1>6 DEF HasFront
<1>9. ASSUME NEW k \in 1..Len(F) PROVE rest[k] = F[k]
  <2> DEFINE j == Len(x) + k
  <2>1. /\ j \in 1..Len(x) + Len(F) /\ j \in 1..Len(x) + Len(rest) /\ ~(j <= Len(x))
        /\ j - Len(x) = k
    BY <1>6, <1>8
  <2> HIDE DEF j
  <2>2. (x \o F)[j] = F[k] /\ (x \o rest)[j] = rest[k]
    BY <1>7, <2>1
  <2>3. (x \o rest)[j] = (x \o F)[j]
    BY <1>5, <1>6, <2>1 DEF HasFront
  <2> QED BY <2>2, <2>3
<1> QED BY <1>8, <1>9 DEF HasFront, F

\* Nothing is left after the last frame.
LEMMA NothingLeft ==
  ASSUME NEW S, NEW s \in Seq(S), NEW rest \in Seq(Byte), InPlace(s, Len(s), rest)
  PROVE  rest = <<>>
<1> DEFINE n == Len(s)
<1>1. n \in Nat
  BY LenProperties
<1>2. PICK T \in [0..n -> Seq(Byte)] : T[n] = T[n] \o rest
  BY DEF InPlace
<1> HIDE DEF n
<1>3. T[n] \in Seq(Byte)
  BY <1>1, <1>2
<1> QED BY <1>2, <1>3, ConcatEqualIffEmpty

\* The next frame was read.
LEMMA FrameTaken ==
  ASSUME NEW S, NEW s \in Seq(S), Whole(s), NEW d \in Nat, d < Len(s),
         NEW rest \in Seq(Byte), InPlace(s, d, Frame(s[d + 1]) \o rest)
  PROVE  InPlace(s, d + 1, rest)
<1> DEFINE n == Len(s)
           F == Frame(s[d + 1])
<1>1. n \in Nat /\ d + 1 \in 1..n /\ d \in 0..n /\ d + 1 \in 0 + 1..n
  BY LenProperties
<1>2. PICK T \in [0..n -> Seq(Byte)] :
        /\ T[0] = <<>> /\ Grows(T, Frames(s), 0, n) /\ T[n] = T[d] \o (F \o rest)
  BY DEF InPlace
<1>3. F \in Seq(Byte) /\ Frames(s)[d + 1] = F
  BY <1>1, FramesFact
<1> HIDE DEF n, F
<1>4. T[d + 1] = T[d] \o F /\ T[d] \in Seq(Byte)
  <2> DEFINE e == d + 1
  <2>1. e - 1 = d /\ e \in 0 + 1..n
    BY <1>1
  <2> HIDE DEF e
  <2>2. T[e] = T[e - 1] \o Frames(s)[e]
    BY <1>2, <2>1 DEF Grows
  <2>3. T[e] = T[d] \o F
    BY <1>3, <2>1, <2>2 DEF e
  <2> QED BY <1>1, <1>2, <2>3 DEF e
<1>5. (T[d] \o F) \o rest = T[d] \o (F \o rest)
  <2> DEFINE x == T[d]
  <2>1. x \in Seq(Byte) /\ F \in Seq(Byte) /\ rest \in Seq(Byte)
    BY <1>3, <1>4
  <2> HIDE DEF x
  <2>2. (x \o F) \o rest = x \o (F \o rest)
    BY <2>1, ConcatAssociative, SMTT(60)
  <2> QED BY <2>2 DEF x
<1>6. T[n] = T[d + 1] \o rest
  BY <1>2, <1>4, <1>5
<1> QED BY <1>2, <1>6 DEF InPlace, n
LEMMA Joined ==
  ASSUME NEW a \in Seq(Byte), NEW b \in Seq(Byte)
  PROVE  a \o b \in Seq(Byte)
BY ConcatProperties

LEMMA Regrouped ==
  ASSUME NEW a \in Seq(Byte), NEW b \in Seq(Byte), NEW c \in Seq(Byte)
  PROVE  (a \o b) \o c = a \o (b \o c)
BY ConcatAssociative

\* Bytes move from the frame to the stream, and from there to the reader.
LEMMA Emitted ==
  ASSUME NEW p \in Seq(Byte), NEW o \in Seq(Byte), NEW k \in 0..Len(o)
  PROVE  LET x == p \o SubSeq(o, 1, k)
             y == SubSeq(o, k + 1, Len(o))
         IN  x \in Seq(Byte) /\ y \in Seq(Byte) /\ x \o y = p \o o /\ Len(y) = Len(o) - k
<1> DEFINE a == SubSeq(o, 1, k)
           y == SubSeq(o, k + 1, Len(o))
<1>1. a \in Seq(Byte) /\ y \in Seq(Byte) /\ a \o y = o /\ Len(y) = Len(o) - k
  BY Cut
<1> HIDE DEF a, y
<1>2. p \o a \in Seq(Byte)
  BY <1>1, Joined
<1>3. (p \o a) \o y = p \o (a \o y)
  BY <1>1, Regrouped
<1>4. (p \o a) \o y = p \o o
  BY <1>1, <1>3
<1> QED BY <1>1, <1>2, <1>4 DEF a, y

ByteTaken(b, p, o, h) ==
  LET c == Append(b, Head(p))
  IN  /\ c \in Seq(Byte) /\ Tail(p) \in Seq(Byte) /\ Len(c) = Len(b) + 1
      /\ c \o (Tail(p) \o o) = b \o (p \o o)
      /\ (h \o c) \o (Tail(p) \o o) = (h \o b) \o (p \o o)

LEMMA Taken ==
  ASSUME NEW b \in Seq(Byte), NEW p \in Seq(Byte), p # <<>>, NEW o \in Seq(Byte),
         NEW h \in Seq(Byte)
  PROVE  ByteTaken(b, p, o, h)
<1> DEFINE x == <<Head(p)>>
           y == Tail(p)
           c == Append(b, Head(p))
<1>1. /\ Head(p) \in Byte /\ y \in Seq(Byte) /\ c \in Seq(Byte) /\ Len(c) = Len(b) + 1
      /\ c = b \o x
  BY HeadTailProperties, AppendProperties, AppendIsConcat
<1>2. x \in Seq(Byte)
  BY <1>1, Tuples
<1>3. p = x \o y
  <2>1. Len(p) \in Nat /\ 1 \in 1..Len(p) /\ Len(p) \in 1..Len(p)
    BY EmptySeq, LenProperties
  <2>2. SubSeq(p, 1, Len(p)) = <<p[1]>> \o SubSeq(p, 1 + 1, Len(p))
    BY <2>1, SubSeqRecursiveFirst
  <2>3. SubSeq(p, 1, Len(p)) = p /\ y = SubSeq(p, 2, Len(p))
    BY SubSeqFull, TailIsSubSeq
  <2>4. Head(p) = p[1] /\ 1 + 1 = 2
    OBVIOUS
  <2> QED BY <2>2, <2>3, <2>4
<1> HIDE DEF x, y, c
<1>4. y \o o \in Seq(Byte) /\ p \o o \in Seq(Byte)
  BY <1>1, Joined
<1>5. (x \o y) \o o = x \o (y \o o)
  BY <1>1, <1>2, Regrouped, Zenon
<1> DEFINE z == y \o o
           q == p \o o
<1> HIDE DEF z, q
<1>6. z \in Seq(Byte) /\ q \in Seq(Byte) /\ q = x \o z
  BY <1>3, <1>4, <1>5 DEF z, q
<1>7. (b \o x) \o z = b \o (x \o z)
  <2>1. z \in Seq(Byte)
    BY <1>6
  <2> QED BY <1>2, <2>1, Regrouped, Zenon
<1>8. c \o z = b \o q
  BY <1>1, <1>6, <1>7
<1>9. (h \o c) \o z = h \o (c \o z)
  BY <1>1, <1>6, Regrouped, Zenon
<1>10. (h \o b) \o q = h \o (b \o q)
  BY <1>6, Regrouped, Zenon
<1>11. (h \o c) \o z = (h \o b) \o q
  BY <1>8, <1>9, <1>10
<1> QED BY <1>1, <1>8, <1>11, Zenon DEF ByteTaken, c, y, z, q

LEMMA FrontIs ==
  ASSUME NEW h \in Seq(Byte), NEW rest \in Seq(Byte), NEW c \in Seq(Byte), NEW d \in Seq(Byte),
         HasFront(h \o rest, c \o d), Len(h) = Len(c)
  PROVE  h = c
<1>1. /\ Len(c) \in Nat /\ Len(d) \in Nat /\ Len(rest) \in Nat
      /\ Len(c \o d) = Len(c) + Len(d)
      /\ \A k \in 1..Len(c) + Len(d) : (c \o d)[k] = IF k <= Len(c) THEN c[k] ELSE d[k - Len(c)]
  BY ConcatProperties, LenProperties
<1>2. \A k \in 1..Len(h) + Len(rest) :
        (h \o rest)[k] = IF k <= Len(h) THEN h[k] ELSE rest[k - Len(h)]
  BY ConcatProperties
<1>3. \A k \in 1..Len(c) : h[k] = c[k]
  <2> TAKE k \in 1..Len(c)
  <2>1. k \in 1..Len(c) + Len(d) /\ k \in 1..Len(h) + Len(rest) /\ k <= Len(h) /\ k <= Len(c)
    BY <1>1
  <2>2. (c \o d)[k] = c[k] /\ (h \o rest)[k] = h[k]
    BY <1>1, <1>2, <2>1
  <2>3. (h \o rest)[k] = (c \o d)[k]
    BY <1>1, <2>1 DEF HasFront
  <2> QED BY <2>2, <2>3
<1> QED BY <1>3, SeqEqual
-----------------------------------------------------------------------------
\* The types, and how far the two writes and the two reads of a frame are.

Received == {Parse(t, b) : t \in DOMAIN Fields, b \in Seq(Byte)}

Typed ==
  /\ TypeOK
  /\ delivered \in Seq(Received)
  /\ Whole(sent)
  /\ writer = "idle" => out = <<>>
  /\ writer = "header" => Len(out) >= headerSize
  /\ reader = "header" => need = headerSize

LEMMA TypedInit == Init => Typed
<1> SUFFICES ASSUME Init PROVE Typed
  OBVIOUS
<1>1. MaxPayloadSize \in Nat /\ 0 \in Byte
  BY SizeAssumption, ByteAssumption DEF IsUint, Byte
<1>2. Whole(sent)
  BY DEF Init, Whole
<1>3. delivered \in Seq(Received) /\ \A i \in DOMAIN delivered : delivered[i].type \in DOMAIN Fields
  BY DEF Init
<1>4. /\ out \in Seq(Byte) /\ pipe \in Seq(Byte) /\ buf \in Seq(Byte) /\ sent \in Seq(Message)
      /\ Len(buf) <= need
  BY DEF Init, headerSize
<1> QED BY <1>1, <1>2, <1>3, <1>4 DEF Init, Typed, TypeOK, headerSize

LEMMA ReceivedTypes ==
  ASSUME NEW s \in Seq(Received)
  PROVE  \A i \in DOMAIN s : s[i].type \in DOMAIN Fields
<1>1. \A r \in Received : r.type \in DOMAIN Fields
  BY DEF Received, Parse
<1>2. \A i \in DOMAIN s : s[i] \in Received
  BY LenProperties, ElementOfSeq
<1> QED BY <1>1, <1>2

LEMMA EmitTyped ==
  ASSUME Typed, NEW k \in 0..Len(out), Emit(k)
  PROVE  /\ pipe' \in Seq(Byte) /\ out' \in Seq(Byte) /\ pipe' \o out' = pipe \o out
         /\ Len(out') = Len(out) - k
<1>1. pipe \in Seq(Byte) /\ out \in Seq(Byte)
  BY DEF Typed, TypeOK
<1>2. pipe' = pipe \o SubSeq(out, 1, k) /\ out' = SubSeq(out, k + 1, Len(out))
  BY DEF Emit
<1> QED BY <1>1, <1>2, Emitted

LEMMA TypedNext ==
  ASSUME Typed, [Next]_vars
  PROVE  Typed'
<1>0. /\ TypeOK /\ delivered \in Seq(Received) /\ Whole(sent)
      /\ (writer = "idle" => out = <<>>)
      /\ (writer = "header" => Len(out) >= headerSize)
      /\ (reader = "header" => need = headerSize)
      /\ MaxPayloadSize \in Nat /\ Len(out) \in Nat /\ Len(<<>>) = 0
  BY SizeAssumption, LenProperties DEF Typed, TypeOK, IsUint
<1>1. ASSUME NEW m \in Message, Begin(m) PROVE Typed'
  <2>1. CanSend(m)
    BY <1>1, MessageAssumption DEF Begin, CanSend
  <2>2. out' = Frame(m) /\ out' \in Seq(Byte) /\ Len(out') >= headerSize
    <3>1. Len(Marshal(m)) \in Nat
      BY <2>1, HeaderFact DEF CanSend
    <3> QED BY <1>1, <2>1, <3>1, FrameFact DEF Begin, Frame, headerSize
  <2>3. sent' = Append(sent, m) /\ sent \in Seq(Message)
    BY <1>0, <1>1 DEF Begin, TypeOK
  <2>4. sent' \in Seq(Message)
    BY <2>3, AppendProperties
  <2>5. Whole(sent')
    <3>1. /\ Len(sent') = Len(sent) + 1 /\ Len(sent) \in Nat /\ sent'[Len(sent) + 1] = m
          /\ \A i \in 1..Len(sent) : sent'[i] = sent[i]
      BY <2>3, AppendProperties, LenProperties
    <3>2. \A i \in 1..Len(sent) + 1 : i \in 1..Len(sent) \/ i = Len(sent) + 1
      BY <3>1
    <3> QED BY <1>0, <2>1, <3>1, <3>2 DEF Whole
  <2>6. torn' \in BOOLEAN
    BY <1>0, <1>1 DEF Begin, TypeOK
  <2>7. writer' = "header" /\ UNCHANGED <<pipe, reader, need, type, buf, delivered>>
    BY <1>1 DEF Begin, reading
  <2> QED BY <1>0, <2>2, <2>4, <2>5, <2>6, <2>7 DEF Typed, TypeOK, Whole
<1>2. ASSUME NEW k \in 0..Len(out), Emit(k), writer' \in {"idle", "payload", "failed"},
             writer' = "idle" => k = Len(out), UNCHANGED <<sent, torn, reading>>
      PROVE  Typed'
  <2>1. pipe' \in Seq(Byte) /\ out' \in Seq(Byte) /\ Len(out') = Len(out) - k
    BY <1>2, EmitTyped
  <2>2. writer' = "idle" => out' = <<>>
    BY <1>0, <1>2, <2>1, EmptySeq
  <2> QED BY <1>0, <1>2, <2>1, <2>2 DEF Typed, TypeOK, Whole, reading
<1>3. ASSUME WriteHeader PROVE Typed'
  <2>1. headerSize \in 0..Len(out)
    BY <1>0, <1>3 DEF WriteHeader, headerSize
  <2> QED BY <1>2, <1>3, <2>1 DEF WriteHeader
<1>4. ASSUME WritePayload PROVE Typed'
  <2>1. Len(out) \in 0..Len(out)
    BY <1>0
  <2> QED BY <1>2, <1>4, <2>1 DEF WritePayload
<1>5. ASSUME NEW k \in 0..Len(out), WriteFails(k) PROVE Typed'
  BY <1>2, <1>5 DEF WriteFails
<1>6. ASSUME Close PROVE Typed'
  BY <1>0, <1>6 DEF Close, Typed, TypeOK, Whole, reading
<1>7. ASSUME ReadByte PROVE Typed'
  <2>1. /\ buf \in Seq(Byte) /\ pipe \in Seq(Byte) /\ out \in Seq(Byte) /\ pipe # <<>>
        /\ buf' = Append(buf, Head(pipe)) /\ pipe' = Tail(pipe) /\ Len(buf) < need
        /\ UNCHANGED <<writer, out, sent, torn, reader, need, type, delivered>>
    BY <1>0, <1>7 DEF ReadByte, TypeOK, writing
  <2>2. buf' \in Seq(Byte) /\ pipe' \in Seq(Byte) /\ Len(buf') = Len(buf) + 1
    BY <2>1, HeadTailProperties, AppendProperties
  <2>3. Len(buf') <= need'
    <3>1. Len(buf) \in Nat /\ need \in Nat
      BY <1>0, LenProperties DEF TypeOK, headerSize
    <3> QED BY <2>1, <2>2, <3>1
  <2> QED BY <1>0, <2>1, <2>2, <2>3 DEF Typed, TypeOK, Whole
<1>8. ASSUME HeaderRead PROVE Typed'
  <2>1. /\ buf \in Seq(Byte) /\ reader = "header" /\ Len(buf) = 8 /\ buf' = <<>>
        /\ UNCHANGED <<writer, out, sent, torn, pipe, delivered>>
    BY <1>0, <1>8 DEF HeaderRead, TypeOK, writing, headerSize
  <2>2. \A i \in 1..8 : buf[i] \in Byte
    BY <2>1, ElementOfSeq
  <2>3. SubSeq(buf, 5, 8) \in Seq(Byte)
    BY <2>2, SubSeqProperties
  <2>4. ValueOf(SubSeq(buf, 5, 8)) \in Nat
    BY <2>3, ValueIsNat
  <2>5. \/ /\ reader' = "payload" /\ need' = ValueOf(SubSeq(buf, 5, 8)) /\ type' = buf[2]
           /\ ValueOf(SubSeq(buf, 5, 8)) <= MaxPayloadSize
        \/ reader' = "probe" /\ need' = need /\ type' = type
    BY <1>8 DEF HeaderRead, Acceptable
  <2>6. /\ need' \in 0..MaxPayloadSize \/ need' = headerSize
        /\ type' \in Byte /\ reader' \in {"payload", "probe"} /\ Len(buf') <= need'
    BY <1>0, <2>1, <2>2, <2>4, <2>5 DEF TypeOK, headerSize
  <2> QED BY <1>0, <2>1, <2>6 DEF Typed, TypeOK, Whole
<1>9. ASSUME FrameRead PROVE Typed'
  <2>1. /\ buf \in Seq(Byte) /\ buf' = <<>> /\ need' = headerSize
        /\ UNCHANGED <<writer, out, sent, torn, pipe, type>>
        /\ reader' \in {"header", "bad"}
    BY <1>0, <1>9 DEF FrameRead, TypeOK, writing
  <2>2. delivered' \in Seq(Received)
    <3>1. CASE Parses(type, buf)
      <4>1. Parse(type, buf) \in Received
        BY <2>1, <3>1 DEF Received, Parses
      <4>2. delivered' = Append(delivered, Parse(type, buf))
        BY <1>9, <3>1 DEF FrameRead
      <4> DEFINE r == Parse(type, buf)
      <4>3. r \in Received /\ delivered' = Append(delivered, r)
        BY <4>1, <4>2
      <4> HIDE DEF r
      <4> QED BY <1>0, <4>3, AppendProperties
    <3>2. CASE ~Parses(type, buf)
      BY <1>0, <1>9, <3>2 DEF FrameRead
    <3> QED BY <3>1, <3>2
  <2>3. \A i \in DOMAIN delivered' : delivered'[i].type \in DOMAIN Fields
    BY <2>2, ReceivedTypes
  <2>4. Len(buf') <= need'
    BY <2>1 DEF headerSize
  <2> QED BY <1>0, <2>1, <2>2, <2>3, <2>4 DEF Typed, TypeOK, Whole
<1>10. ASSUME EndOfFile PROVE Typed'
  BY <1>0, <1>10 DEF EndOfFile, Typed, TypeOK, Whole, writing
<1>11. CASE UNCHANGED vars
  BY <1>0, <1>11 DEF vars, Typed, TypeOK, Whole
<1> QED BY <1>1, <1>3, <1>4, <1>5, <1>6, <1>7, <1>8, <1>9, <1>10, <1>11 DEF Next, Reads
\* Every value is of its type, and a stream position is within its piece.
THEOREM TypeCorrect == Spec => []TypeOK
<1>1. Typed => TypeOK
  BY DEF Typed
<1> QED BY <1>1, TypedInit, TypedNext, PTL DEF Spec

-----------------------------------------------------------------------------
\* On a stream that is not torn, what the reader has of the frame it reads,
\* what is on the stream and what is to be written are the frames of the
\* messages that were not delivered yet, one after the other.

Consumed ==
  IF reader = "payload" THEN Header(sent[Len(delivered) + 1]) \o buf ELSE buf

InOrder ==
  /\ Len(delivered) <= Len(sent)
  /\ \A i \in 1..Len(delivered) : delivered[i] = sent[i]

Expects ==
  reader = "payload" =>
    /\ Len(delivered) < Len(sent)
    /\ type = sent[Len(delivered) + 1].type
    /\ need = Len(Marshal(sent[Len(delivered) + 1]))

Aligned ==
  ~torn =>
    /\ reader \notin {"probe", "bad"}
    /\ InOrder
    /\ Expects
    /\ reader # "eof" => InPlace(sent, Len(delivered), Consumed \o (pipe \o out))

LEMMA AlignedInit == Init => Aligned
<1> SUFFICES ASSUME Init PROVE Aligned
  OBVIOUS
<1>1. <<>> \o (<<>> \o <<>>) = <<>>
  BY EmptySeq, ConcatEmptySeq
<1>2. Consumed \o (pipe \o out) = <<>> /\ sent = <<>> /\ Len(delivered) = 0 /\ Len(sent) = 0
  BY <1>1 DEF Init, Consumed
<1>3. InPlace(sent, Len(delivered), Consumed \o (pipe \o out))
  BY <1>2, NothingYet
<1> QED BY <1>2, <1>3 DEF Init, Aligned, InOrder, Expects

\* What the reader has is a sequence of bytes.
LEMMA Held ==
  ASSUME Typed, ~torn, Aligned
  PROVE  /\ Consumed \in Seq(Byte) /\ pipe \in Seq(Byte) /\ out \in Seq(Byte)
         /\ pipe \o out \in Seq(Byte) /\ Consumed \o (pipe \o out) \in Seq(Byte)
         /\ Len(delivered) \in 0..Len(sent) /\ Len(sent) \in Nat /\ Len(delivered) \in Nat
         /\ Len(delivered) < Len(sent) => CanSend(sent[Len(delivered) + 1])
<1>1. /\ Len(sent) \in Nat /\ Len(delivered) \in Nat /\ Len(delivered) <= Len(sent)
      /\ Len(delivered) \in 0..Len(sent)
  <2>1. Len(sent) \in Nat /\ Len(delivered) \in Nat
    BY LenProperties DEF Typed, TypeOK
  <2> QED BY <2>1 DEF Aligned, InOrder
<1>2. Len(delivered) < Len(sent) => CanSend(sent[Len(delivered) + 1])
  BY <1>1 DEF Typed, Whole
<1>3. Consumed \in Seq(Byte)
  <2>1. CASE reader = "payload"
    <3> DEFINE h == Header(sent[Len(delivered) + 1])
    <3>1. h \in Seq(Byte)
      BY <1>2, <2>1, HeaderFact DEF Aligned, Expects, CanSend
    <3> HIDE DEF h
    <3>2. buf \in Seq(Byte)
      BY DEF Typed, TypeOK
    <3>3. h \o buf \in Seq(Byte)
      BY <3>1, <3>2, Joined
    <3> QED BY <2>1, <3>3 DEF Consumed, h
  <2> QED BY <2>1 DEF Consumed, Typed, TypeOK
<1>4. pipe \in Seq(Byte) /\ out \in Seq(Byte)
  BY DEF Typed, TypeOK
<1>5. pipe \o out \in Seq(Byte)
  BY <1>4, Joined
<1>6. Consumed \o (pipe \o out) \in Seq(Byte)
  BY <1>3, <1>5, Joined
<1> QED BY <1>1, <1>2, <1>3, <1>4, <1>5, <1>6

LEMMA AlignedBegin ==
  ASSUME Typed, Aligned, NEW m \in Message, Begin(m)
  PROVE  Aligned'
<1> SUFFICES ASSUME ~torn' PROVE Aligned'
  BY DEF Aligned
<1>1. /\ ~torn /\ out = <<>> /\ out' = Frame(m) /\ sent' = Append(sent, m)
      /\ UNCHANGED <<pipe, reader, need, type, buf, delivered>>
  BY DEF Typed, TypeOK, Begin, Frame, reading
<1>2. CanSend(m)
  BY MessageAssumption DEF Begin, CanSend
<1> DEFINE d == Len(delivered)
           n == Len(sent)
           c == Consumed
<1>3. /\ c \in Seq(Byte) /\ pipe \in Seq(Byte) /\ out \in Seq(Byte) /\ d \in 0..n /\ n \in Nat
      /\ c \o (pipe \o out) \in Seq(Byte) /\ pipe \o out \in Seq(Byte)
  BY <1>1, Held
<1>4. Len(sent') = n + 1 /\ \A i \in 1..n : sent'[i] = sent[i]
  BY <1>1, AppendProperties DEF Typed, TypeOK
<1>5. InOrder /\ Expects /\ reader \notin {"probe", "bad"}
      /\ (reader # "eof" => InPlace(sent, d, c \o (pipe \o out)))
  BY <1>1 DEF Aligned
<1>6. InOrder'
  <2>1. d <= n /\ \A i \in 1..d : delivered[i] = sent[i] /\ i \in 1..n
    BY <1>3, <1>5 DEF InOrder
  <2> QED BY <1>1, <1>3, <1>4, <2>1 DEF InOrder
<1>7. reader = "payload" => d + 1 \in 1..n /\ d < n /\ sent'[d + 1] = sent[d + 1]
  BY <1>3, <1>4, <1>5 DEF Expects
<1>8. Expects'
  BY <1>1, <1>3, <1>4, <1>5, <1>7 DEF Expects
<1>9. Consumed' = c
  BY <1>1, <1>7 DEF Consumed
<1>10. reader # "eof" => InPlace(sent', d, c \o (pipe \o out'))
  <2> SUFFICES ASSUME reader # "eof" PROVE InPlace(sent', d, c \o (pipe \o out'))
    OBVIOUS
  <2> DEFINE F == Frame(m)
  <2>1. F \in Seq(Byte)
    BY <1>2, FrameFact
  <2> HIDE DEF F, c, d, n
  <2>2. pipe \o out = pipe
    BY <1>1, <1>3, ConcatEmptySeq
  <2>3. (c \o pipe) \o F = c \o (pipe \o F)
    BY <1>3, <2>1, Regrouped
  <2> DEFINE r == c \o (pipe \o out)
  <2>4. r \in Seq(Byte) /\ InPlace(sent, d, r) /\ r \o F = c \o (pipe \o F)
    BY <1>3, <1>5, <2>2, <2>3
  <2> HIDE DEF r
  <2>5. sent \in Seq(Message) /\ Whole(sent) /\ d \in 0..Len(sent)
    BY <1>3 DEF Typed, TypeOK, n
  <2>6. InPlace(Append(sent, m), d, r \o F)
    BY <1>2, <2>4, <2>5, OneMore DEF F
  <2> QED BY <1>1, <2>4, <2>6 DEF F
<1> QED BY <1>1, <1>5, <1>6, <1>8, <1>9, <1>10 DEF Aligned

LEMMA AlignedEmit ==
  ASSUME Typed, Aligned, NEW k \in 0..Len(out), Emit(k), UNCHANGED <<sent, torn, reading>>
  PROVE  Aligned'
<1>1. pipe' \o out' = pipe \o out
  BY EmitTyped
<1>2. UNCHANGED <<sent, torn, reader, need, type, buf, delivered>>
  BY DEF reading
<1>3. Consumed' = Consumed
  BY <1>2 DEF Consumed
<1>4. InOrder' = InOrder /\ Expects' = Expects
  BY <1>2 DEF InOrder, Expects
<1>5. InPlace(sent, Len(delivered), Consumed \o (pipe \o out))'
        = InPlace(sent, Len(delivered), Consumed \o (pipe \o out))
  BY <1>1, <1>2, <1>3
<1> QED BY <1>2, <1>4, <1>5 DEF Aligned
LEMMA AlignedReadByte ==
  ASSUME Typed, Aligned, ReadByte
  PROVE  Aligned'
<1> SUFFICES ASSUME ~torn PROVE Aligned'
  BY DEF Aligned, ReadByte, writing
<1>1. /\ buf' = Append(buf, Head(pipe)) /\ pipe' = Tail(pipe) /\ pipe # <<>>
      /\ UNCHANGED <<sent, torn, out, reader, need, type, delivered>>
      /\ reader # "eof"
  BY DEF ReadByte, writing
<1> DEFINE d == Len(delivered)
           h == Header(sent[d + 1])
           q == pipe \o out
           q1 == Tail(pipe) \o out
           b1 == Append(buf, Head(pipe))
<1>2. InOrder /\ Expects /\ reader \notin {"probe", "bad"} /\ InPlace(sent, d, Consumed \o q)
  BY <1>1 DEF Aligned
<1>3. buf \in Seq(Byte) /\ pipe \in Seq(Byte) /\ out \in Seq(Byte)
  BY DEF Typed, TypeOK
<1> HIDE DEF h
<1>4. pipe # <<>>
  BY <1>1
<1>5. ASSUME NEW g \in Seq(Byte)
      PROVE  b1 \o q1 = buf \o q /\ (g \o b1) \o q1 = (g \o buf) \o q
  <2>1. ByteTaken(buf, pipe, out, g)
    BY <1>3, <1>4, Taken
  <2> QED BY <2>1, Zenon DEF ByteTaken
<1>6. Consumed' \o (pipe' \o out') = Consumed \o q
  <2>1. CASE reader = "payload"
    <3>1. h \in Seq(Byte)
      BY <1>2, <2>1, Held, HeaderFact DEF Expects, CanSend, h
    <3>2. Consumed = h \o buf /\ Consumed' = h \o b1
      BY <1>1, <2>1 DEF Consumed, h
    <3>3. (h \o b1) \o q1 = (h \o buf) \o q
      BY <1>5, <3>1
    <3> QED BY <1>1, <3>2, <3>3
  <2>2. CASE reader # "payload"
    <3>1. Consumed = buf /\ Consumed' = b1
      BY <1>1, <2>2 DEF Consumed
    <3>2. b1 \o q1 = buf \o q
      BY <1>5, <1>3
    <3> QED BY <1>1, <3>1, <3>2
  <2> QED BY <2>1, <2>2
<1>7. InOrder' /\ Expects'
  BY <1>1, <1>2 DEF InOrder, Expects
<1>8. InPlace(sent', Len(delivered'), Consumed' \o (pipe' \o out'))
  BY <1>1, <1>2, <1>6
<1> QED BY <1>1, <1>2, <1>7, <1>8 DEF Aligned

\* A header is read where a frame begins.
LEMMA AlignedHeaderRead ==
  ASSUME Typed, Aligned, HeaderRead
  PROVE  Aligned'
<1> SUFFICES ASSUME ~torn PROVE Aligned'
  BY DEF Aligned, HeaderRead, writing
<1> DEFINE d == Len(delivered)
           m == sent[d + 1]
           q == pipe \o out
<1>1. /\ reader = "header" /\ Len(buf) = headerSize /\ buf' = <<>> /\ buf \in Seq(Byte)
      /\ UNCHANGED <<sent, torn, out, pipe, delivered>>
  BY DEF Typed, TypeOK, HeaderRead, writing
<1>2. /\ InOrder /\ Consumed = buf /\ InPlace(sent, d, buf \o q)
  BY <1>1 DEF Aligned, Consumed
<1>3. /\ q \in Seq(Byte) /\ buf \o q \in Seq(Byte) /\ d \in 0..Len(sent) /\ d \in Nat
      /\ Len(sent) \in Nat /\ (d < Len(sent) => CanSend(m))
  BY <1>2, Held
<1>4. Len(buf \o q) >= 8
  <2> HIDE DEF q
  <2>1. Len(buf \o q) = Len(buf) + Len(q) /\ Len(q) \in Nat
    BY <1>1, <1>3, ConcatProperties, LenProperties
  <2> QED BY <1>1, <2>1 DEF headerSize
<1>5. d < Len(sent)
  <2> SUFFICES ASSUME d = Len(sent) PROVE FALSE
    BY <1>3
  <2> DEFINE r == buf \o q
  <2>1. r \in Seq(Byte) /\ InPlace(sent, Len(sent), r) /\ Len(r) >= 8
    BY <1>2, <1>3, <1>4
  <2> HIDE DEF r
  <2>2. r = <<>>
    BY <2>1, NothingLeft DEF Typed, TypeOK
  <2> QED BY <2>1, <2>2
<1>6. buf = Header(m)
  <2>1. HasFront(buf \o q, Frame(m))
    <3> DEFINE r == buf \o q
    <3>1. r \in Seq(Byte) /\ InPlace(sent, d, r) /\ sent \in Seq(Message) /\ Whole(sent)
      BY <1>2, <1>3 DEF Typed, TypeOK
    <3> HIDE DEF r, d
    <3>2. HasFront(r, Frame(sent[d + 1]))
      BY <1>3, <1>5, <3>1, NextFrame
    <3> QED BY <3>2 DEF r
  <2> DEFINE h == Header(m)
             b == Marshal(m)
  <2>2. h \in Seq(Byte) /\ Len(h) = headerSize /\ b \in Seq(Byte)
    BY <1>3, <1>5, HeaderFact DEF CanSend
  <2>3. HasFront(buf \o q, h \o b)
    BY <2>1 DEF Frame
  <2> HIDE DEF h, b, q
  <2>4. buf = h
    BY <1>1, <1>3, <2>2, <2>3, FrontIs
  <2> QED BY <2>4 DEF h
<1>7. /\ reader' = "payload" /\ type' = m.type /\ need' = Len(Marshal(m))
  <2>1. /\ Header(m)[2] = m.type /\ Acceptable(Header(m))
        /\ ValueOf(SubSeq(Header(m), 5, 8)) = Len(Marshal(m))
    BY <1>3, <1>5, HeaderFact DEF CanSend
  <2> QED BY <1>6, <2>1 DEF HeaderRead
<1>8. InOrder' /\ Expects'
  BY <1>1, <1>2, <1>5, <1>7 DEF InOrder, Expects
<1>9. Consumed' = buf
  <2>1. buf \o <<>> = buf
    BY <1>1, ConcatEmptySeq
  <2>2. Consumed' = Header(m) \o <<>>
    BY <1>1, <1>7 DEF Consumed
  <2> QED BY <1>6, <2>1, <2>2
<1>10. InPlace(sent', Len(delivered'), Consumed' \o (pipe' \o out'))
  BY <1>1, <1>2, <1>9
<1> QED BY <1>7, <1>8, <1>10 DEF Aligned

\* The frame that is complete is that of the next message.
LEMMA AlignedFrameRead ==
  ASSUME Typed, Aligned, FrameRead
  PROVE  Aligned'
<1> SUFFICES ASSUME ~torn PROVE Aligned'
  BY DEF Aligned, FrameRead, writing
<1> DEFINE d == Len(delivered)
           m == sent[d + 1]
           q == pipe \o out
           h == Header(m)
           b == Marshal(m)
<1>1. /\ reader = "payload" /\ Len(buf) = need /\ buf' = <<>> /\ buf \in Seq(Byte)
      /\ need' = headerSize /\ UNCHANGED <<sent, torn, out, pipe>>
      /\ sent \in Seq(Message) /\ Whole(sent)
  BY DEF Typed, TypeOK, FrameRead, writing
<1>2. /\ InOrder /\ Expects /\ Consumed = h \o buf /\ InPlace(sent, d, (h \o buf) \o q)
  BY <1>1 DEF Aligned, Consumed
<1>3. /\ q \in Seq(Byte) /\ h \o buf \in Seq(Byte) /\ (h \o buf) \o q \in Seq(Byte)
      /\ d \in Nat /\ Len(sent) \in Nat /\ d < Len(sent) /\ CanSend(m)
      /\ type = m.type /\ need = Len(b) /\ d \in 0..Len(sent)
  BY <1>1, <1>2, Held DEF Expects
<1>4. h \in Seq(Byte) /\ b \in Seq(Byte) /\ Frame(m) = h \o b
  BY <1>3, HeaderFact, FrameFact DEF CanSend
<1>5. HasFront((h \o buf) \o q, h \o b)
  <2> DEFINE r == (h \o buf) \o q
  <2>1. r \in Seq(Byte) /\ InPlace(sent, d, r)
    BY <1>2, <1>3
  <2> HIDE DEF r
  <2>2. HasFront(r, Frame(m))
    <3> HIDE DEF d
    <3> QED BY <1>1, <1>3, <2>1, NextFrame
  <2> QED BY <1>4, <2>2 DEF r
<1> HIDE DEF h, b, q, m
<1>6. h \o buf = h \o b
  <2> DEFINE x == h \o buf
             y == h \o b
  <2>1. x \in Seq(Byte) /\ y \in Seq(Byte) /\ Len(x) = Len(y)
    <3>1. Len(x) = Len(h) + Len(buf) /\ x \in Seq(Byte)
      BY <1>1, <1>4, ConcatProperties
    <3>2. Len(y) = Len(h) + Len(b) /\ y \in Seq(Byte)
      BY <1>4, ConcatProperties
    <3>3. Len(buf) = Len(b)
      BY <1>1, <1>3
    <3> QED BY <3>1, <3>2, <3>3
  <2>2. y \o <<>> = y /\ <<>> \in Seq(Byte)
    BY <2>1, ConcatEmptySeq, EmptySeq
  <2>3. HasFront(x \o q, y \o <<>>)
    BY <1>5, <2>2
  <2> HIDE DEF x, y
  <2>4. x = y
    BY <1>3, <2>1, <2>2, <2>3, FrontIs
  <2> QED BY <2>4 DEF x, y
<1>7. buf = b
  BY <1>1, <1>4, <1>6, ConcatSimplifications
<1>8. Parses(type, buf) /\ Parse(type, buf) = m
  BY <1>3, <1>7, Codec DEF b, CanSend, Sends
<1>9. delivered' = Append(delivered, m) /\ reader' = "header"
  BY <1>8 DEF FrameRead
<1>10. /\ Len(delivered') = d + 1 /\ delivered'[d + 1] = m
       /\ \A i \in 1..d : delivered'[i] = delivered[i]
  <2>1. delivered \in Seq(Received) /\ m \in Received
    <3>1. m = Parse(type, buf) /\ type \in DOMAIN Fields
      BY <1>8 DEF Parses
    <3> QED BY <1>1, <3>1 DEF Received, Typed
  <2> QED BY <1>9, <2>1, AppendProperties
<1>11. InOrder'
  <2>1. \A i \in 1..d + 1 : i \in 1..d \/ i = d + 1
    BY <1>3
  <2> QED BY <1>1, <1>2, <1>3, <1>10, <2>1 DEF InOrder, m
<1>12. InPlace(sent, d + 1, q)
  <2>1. InPlace(sent, d, Frame(m) \o q)
    BY <1>2, <1>4, <1>6
  <2> HIDE DEF d
  <2> QED BY <1>1, <1>3, <2>1, FrameTaken DEF m
<1>13. Consumed' \o (pipe' \o out') = q
  <2>1. Consumed' = <<>>
    BY <1>1, <1>9 DEF Consumed
  <2>2. <<>> \o q = q
    BY <1>3, ConcatEmptySeq
  <2> QED BY <1>1, <2>1, <2>2 DEF q
<1>14. InPlace(sent', Len(delivered'), Consumed' \o (pipe' \o out'))
  BY <1>1, <1>10, <1>12, <1>13
<1> QED BY <1>9, <1>11, <1>14 DEF Aligned, Expects

LEMMA AlignedNext ==
  ASSUME Typed, Aligned, [Next]_vars
  PROVE  Aligned'
<1>0. Len(out) \in Nat
  BY LenProperties DEF Typed, TypeOK
<1>1. ASSUME NEW m \in Message, Begin(m) PROVE Aligned'
  BY <1>1, AlignedBegin
<1>2. ASSUME WriteHeader PROVE Aligned'
  <2>1. headerSize \in 0..Len(out)
    BY <1>0, <1>2 DEF WriteHeader, Typed, headerSize
  <2> QED BY <1>2, <2>1, AlignedEmit DEF WriteHeader
<1>3. ASSUME WritePayload PROVE Aligned'
  <2>1. Len(out) \in 0..Len(out)
    BY <1>0
  <2> QED BY <1>3, <2>1, AlignedEmit DEF WritePayload
<1>4. ASSUME NEW k \in 0..Len(out), WriteFails(k) PROVE Aligned'
  BY <1>4, AlignedEmit DEF WriteFails
<1>5. ASSUME UNCHANGED <<out, sent, torn, pipe, reading>> PROVE Aligned'
  BY <1>5 DEF reading, Aligned, InOrder, Expects, Consumed
<1>6. ASSUME EndOfFile PROVE Aligned'
  BY <1>6 DEF EndOfFile, writing, Aligned, InOrder, Expects
<1>7. CASE UNCHANGED vars
  BY <1>5, <1>7 DEF vars, reading
<1>8. CASE Close
  BY <1>5, <1>8 DEF Close
<1> QED BY <1>1, <1>2, <1>3, <1>4, <1>6, <1>7, <1>8, AlignedReadByte, AlignedHeaderRead,
           AlignedFrameRead DEF Next, Reads

-----------------------------------------------------------------------------
LEMMA AlignedAlways == Spec => [](Typed /\ Aligned)
BY TypedInit, TypedNext, AlignedInit, AlignedNext, PTL DEF Spec

\* Until a sender goes on after a frame it could not complete, ReadFrame and
\* Parse return what was sent, field by field and in order, however the bytes
\* are cut into pieces and whenever a write fails: for bytes of any width,
\* every bound on payloads and all messages.
THEOREM InStepAlways == Spec => []InStep
<1>1. Typed /\ Aligned => InStep
  <2> SUFFICES ASSUME Typed, Aligned, ~torn PROVE IsPrefix(delivered, sent)
    BY DEF InStep
  <2>1. /\ Len(delivered) \in Nat /\ Len(sent) \in Nat /\ InOrder
        /\ delivered \in Seq(Received) /\ sent \in Seq(Message)
    BY Held DEF Aligned, Typed, TypeOK
  <2>2. Len(delivered) <= Len(sent) /\ \A i \in 1..Len(delivered) : delivered[i] = sent[i]
    BY <2>1 DEF InOrder
  <2> QED BY <2>1, <2>2 DEF IsPrefix
<1> QED BY <1>1, AlignedAlways, PTL

\* A peer that speaks the protocol is taken neither for a probe nor for one
\* that sends malformed messages: what Marshal makes of a message passes the
\* checks of ReadFrame and of Parse.
THEOREM ProbesAreTrue == Spec => []NoFalseProbe
<1>1. Typed /\ Aligned => NoFalseProbe
  BY DEF NoFalseProbe, Aligned
<1> QED BY <1>1, AlignedAlways, PTL

=============================================================================
