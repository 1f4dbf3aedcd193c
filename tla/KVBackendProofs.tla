--------------------------- MODULE KVBackendProofs ---------------------------
(***************************************************************************)
(* A key-value backend, for any fields, rows, sizes, calls and workers,    *)
(* any buffer, alignment, batch limit, retries and number of puts: what is *)
(* packed fits the staging buffer, what is cleared is gone, and a get has  *)
(* what the last put wrote, and all of it.                                 *)
(*                                                                         *)
(* First part: the transfers of a call carry every part of its values,     *)
(* each from its own key, and those of one staged transfer lie one after   *)
(* the other in the buffer.  Second part: what each action makes of the    *)
(* call that takes it, of its lock and of the store.  Third part: whom the *)
(* objects in the store belong to.  Fourth part: what a call has no more   *)
(* to transfer is stored, is in the buffer it holds, or was taken, as the  *)
(* last put wrote it.                                                      *)
(***************************************************************************)
EXTENDS KVBackend, BatchProofs

-----------------------------------------------------------------------------
(* Sequences of sequences, end to end.                                     *)
ElementsTo(s, q, i, T) == s \in Seq(T) /\ \A x : x \in Range(s) <=> \E n \in 1..i : x \in Range(q[n])

LEMMA OneMoreSequence ==
  ASSUME NEW T, NEW i \in Nat, NEW q, NEW s, ElementsTo(s, q, i, T), q[i + 1] \in Seq(T)
  PROVE  ElementsTo(s \o q[i + 1], q, i + 1, T)
<1>1. s \in Seq(T)
  BY DEF ElementsTo
<1>2. s \o q[i + 1] \in Seq(T) /\ Range(s \o q[i + 1]) = Range(s) \cup Range(q[i + 1])
  BY <1>1, RangeOfConcat
<1>3. ASSUME NEW x
      PROVE  x \in Range(s \o q[i + 1]) <=> \E n \in 1..(i + 1) : x \in Range(q[n])
  <2>1. x \in Range(s) <=> \E n \in 1..i : x \in Range(q[n])
    BY DEF ElementsTo
  <2>2. \A n : n \in 1..(i + 1) <=> n \in 1..i \/ n = i + 1
    OBVIOUS
  <2> QED
    BY <1>2, <2>1, <2>2
<1> QED
  BY <1>2, <1>3 DEF ElementsTo

LEMMA FlattenElements ==
  ASSUME NEW T, NEW q \in Seq(Seq(T))
  PROVE  ElementsTo(FlattenSeq(q), q, Len(q), T)
<1>1. Len(q) \in Nat
  OBVIOUS
<1>2. CASE Len(q) = 0
  <2>1. q = << >> /\ 1..Len(q) = {}
    BY <1>2
  <2>2. FlattenSeq(q) = << >>
    BY <1>2, <2>1 DEF FlattenSeq
  <2>3. << >> \in Seq(T) /\ Range(<< >>) = {}
    BY DEF Range
  <2>4. \A x : ~ \E n \in 1..Len(q) : x \in Range(q[n])
    BY <2>1
  <2> QED
    BY <2>2, <2>3, <2>4 DEF ElementsTo
<1>3. CASE Len(q) # 0
  <2> DEFINE F == CHOOSE h : h = [i \in 1..Len(q) |-> FlatOf(q, h, i)]
  <2>1. FlattenSeq(q) = F[Len(q)]
    BY <1>3 DEF FlattenSeq, FlatOf
  <2>2. \E h : h = [i \in 1..Len(q) |-> FlatOf(q, h, i)]
    <3> DEFINE step == [x \in (1..Len(q)) \X Seq(T) |-> x[2] \o q[x[1]]]
    <3>1. \A i \in 1..Len(q), v \in Seq(T) : v \o q[i] \in Seq(T)
      BY ConcatProperties
    <3>2. step \in [(1..Len(q)) \X Seq(T) -> Seq(T)]
      BY <3>1
    <3>7. \A i \in 1..Len(q), v \in Seq(T) : step[<<i, v>>] = v \o q[i]
      OBVIOUS
    <3> HIDE DEF step
    <3>6. PICK V : V = Seq(T)
      OBVIOUS
    <3>8. << >> \in V /\ step \in [(1..Len(q)) \X V -> V]
      BY <3>2, <3>6
    <3>9. PICK m \in Nat : m = Len(q)
      BY <1>1
    <3>10. PICK base \in V : base = << >>
      BY <3>8
    <3>11. step \in [(1..m) \X V -> V]
      BY <3>8, <3>9
    <3>12. PICK f : FollowsUp(f, m, V, base, step, m)
      BY <3>11, RecursionUp, Zenon
    <3>3. f \in [0..Len(q) -> V] /\ f[0] = << >> /\ \A i \in 1..Len(q) : f[i] = step[<<i, f[i - 1]>>]
      BY <3>9, <3>10, <3>12 DEF FollowsUp
    <3>4. ASSUME NEW i \in 1..Len(q)
          PROVE  f[i] = f[i - 1] \o q[i] /\ f[i - 1] \in Seq(T) /\ q[i] \in Seq(T)
      <4>1. i - 1 \in 0..Len(q)
        OBVIOUS
      <4>2. f[i - 1] \in Seq(T)
        BY <3>3, <3>6, <4>1
      <4>3. step[<<i, f[i - 1]>>] = f[i - 1] \o q[i]
        BY <3>7, <4>2
      <4>4. f[i] = step[<<i, f[i - 1]>>]
        BY <3>3
      <4> QED
        BY <4>2, <4>3, <4>4
    <3> DEFINE h == [i \in 1..Len(q) |-> f[i]]
    <3>5. ASSUME NEW i \in 1..Len(q)
          PROVE  h[i] = FlatOf(q, h, i)
      <4>1. f[i] = f[i - 1] \o q[i] /\ f[i - 1] \in Seq(T) /\ q[i] \in Seq(T)
        BY <3>4
      <4>2. i = 1 => f[i] = q[i]
        <5>1. << >> \o q[i] = q[i]
          BY <4>1, ConcatEmptySeq
        <5>2. i = 1 => f[i - 1] = << >>
          BY <3>3
        <5> QED
          BY <4>1, <5>1, <5>2, Zenon
      <4>3. i # 1 => h[i - 1] = f[i - 1]
        OBVIOUS
      <4> QED
        BY <4>1, <4>2, <4>3 DEF FlatOf
    <3>13. h = [i \in 1..Len(q) |-> FlatOf(q, h, i)]
      <4>1. h = [i \in 1..Len(q) |-> h[i]]
        OBVIOUS
      <4> HIDE DEF h
      <4> QED
        BY <3>5, <4>1
    <3> QED
      BY <3>13
  <2>3. F = [i \in 1..Len(q) |-> FlatOf(q, F, i)]
    BY <2>2, Zenon
  <2> HIDE DEF F
  <2> DEFINE U == {i \in 1..Len(q) : ~ ElementsTo(F[i], q, i, T)}
  <2>4. U = {}
    <3> SUFFICES ASSUME U # {} PROVE FALSE
      OBVIOUS
    <3>1. U \in SUBSET Nat /\ \A i : i \in U <=> i \in 1..Len(q) /\ ~ ElementsTo(F[i], q, i, T)
      OBVIOUS
    <3> HIDE DEF U
    <3>2. PICK i \in U : \A j \in U : i <= j
      BY <3>1, LeastIn
    <3>3. i \in 1..Len(q) /\ ~ ElementsTo(F[i], q, i, T)
      BY <3>1
    <3>4. CASE i = 1
      <4>1. F[i] = q[i] /\ q[i] \in Seq(T)
        BY <2>3, <3>3, <3>4 DEF FlatOf
      <4>2. \A x : (\E n \in 1..1 : x \in Range(q[n])) <=> x \in Range(q[1])
        <5>1. 1..1 = {1}
          OBVIOUS
        <5> QED
          BY <5>1
      <4> QED
        BY <3>3, <3>4, <4>1, <4>2 DEF ElementsTo
    <3>5. CASE i # 1
      <4>1. i - 1 \in 1..Len(q) /\ i - 1 \in Nat /\ (i - 1) + 1 = i
        BY <3>3, <3>5
      <4>2. i - 1 \notin U
        BY <3>1, <3>2, <4>1
      <4>3. ElementsTo(F[i - 1], q, i - 1, T)
        BY <3>1, <4>1, <4>2
      <4>4. F[i] = F[i - 1] \o q[i]
        BY <2>3, <3>3, <3>5 DEF FlatOf
      <4>5. q[i] \in Seq(T)
        BY <3>3
      <4>6. ElementsTo(F[i - 1] \o q[i], q, i, T)
        BY <4>1, <4>3, <4>5, OneMoreSequence
      <4> QED
        BY <3>3, <4>4, <4>6
    <3> QED
      BY <3>4, <3>5
  <2>5. Len(q) \in 1..Len(q)
    BY <1>1, <1>3
  <2> QED
    BY <2>1, <2>4, <2>5
<1> QED
  BY <1>2, <1>3

-----------------------------------------------------------------------------
(* Offsets, and groups that fit the staging buffer.                        *)
LEMMA AlignedIs ==
  ASSUME NEW n \in Nat
  PROVE  Aligned(n) \in Nat /\ n <= Aligned(n)
<1>1. PICK A \in Nat \ {0} : A = Align
  BY KVBackendAssumption
<1>2. PICK m \in Nat : m = n + A - 1
  OBVIOUS
<1>3. PICK q \in Nat : q = (m \div A) * A
  BY Quotient
<1>4. m < q + A
  BY <1>3, Quotient
<1>5. Aligned(n) = q
  BY <1>1, <1>2, <1>3 DEF Aligned
<1> QED
  BY <1>2, <1>4, <1>5

AlignedUpTo(s, f, k) == IF k = 0 THEN 0 ELSE f[k - 1] + Aligned(s[k])

AreEnds(f, s) ==
  /\ f \in [0..Len(s) -> Nat] /\ f[0] = 0
  /\ \A i \in 1..Len(s) : f[i] = f[i - 1] + Aligned(s[i])

LEMMA EndsAre ==
  ASSUME NEW s \in Seq(Nat)
  PROVE  AreEnds(Ends(s), s)
<1>1. PICK n \in Nat : n = Len(s)
  OBVIOUS
<1>2. ASSUME NEW i \in 1..n
      PROVE  s[i] \in Nat /\ Aligned(s[i]) \in Nat
  <2>1. s[i] \in Nat
    BY <1>1
  <2> QED
    BY <2>1, AlignedIs
<1>3. PICK step : step = [p \in (1..n) \X Nat |-> p[2] + Aligned(s[p[1]])]
  OBVIOUS
<1>4. step \in [(1..n) \X Nat -> Nat]
  BY <1>2, <1>3
<1>5. PICK V : V = Nat
  OBVIOUS
<1>6. PICK base : base = 0
  OBVIOUS
<1>7. step \in [(1..n) \X V -> V] /\ base \in V
  BY <1>4, <1>5, <1>6
<1>8. PICK f : FollowsUp(f, n, V, base, step, n)
  BY <1>7, RecursionUp, Zenon
<1>9. f \in [0..n -> Nat] /\ f[0] = 0 /\ \A i \in 1..n : f[i] = f[i - 1] + Aligned(s[i])
  <2>1. f \in [0..n -> Nat] /\ f[0] = 0 /\ \A i \in 1..n : f[i] = step[<<i, f[i - 1]>>]
    BY <1>5, <1>6, <1>8 DEF FollowsUp
  <2>2. \A i \in 1..n : i - 1 \in 0..n
    OBVIOUS
  <2> QED
    BY <1>3, <2>1, <2>2
<1>10. f = [i \in 0..n |-> AlignedUpTo(s, f, i)]
  <2>1. f = [i \in 0..n |-> f[i]]
    BY <1>9
  <2>2. \A i \in 0..n : f[i] = AlignedUpTo(s, f, i)
    <3> TAKE i \in 0..n
    <3>1. i = 0 \/ i \in 1..n
      OBVIOUS
    <3> QED
      BY <1>9, <3>1 DEF AlignedUpTo
  <2>3. [i \in 0..n |-> f[i]] = [i \in 0..n |-> AlignedUpTo(s, f, i)]
    BY <2>2
  <2> QED
    BY <2>1, <2>3
<1> DEFINE F == CHOOSE g : g = [i \in 0..n |-> AlignedUpTo(s, g, i)]
<1>11. F = [i \in 0..n |-> AlignedUpTo(s, F, i)]
  BY <1>10, Zenon
<1>12. Ends(s) = F
  BY <1>1 DEF Ends, AlignedUpTo
<1> HIDE DEF F
<1>13. DOMAIN F = 0..n /\ F[0] = 0 /\ \A i \in 1..n : F[i] = F[i - 1] + Aligned(s[i])
  BY <1>11 DEF AlignedUpTo
<1> DEFINE U == {i \in 0..n : F[i] \notin Nat}
<1>14. U = {}
  <2> SUFFICES ASSUME U # {} PROVE FALSE
    OBVIOUS
  <2>1. U \in SUBSET Nat /\ \A i : i \in U <=> i \in 0..n /\ F[i] \notin Nat
    OBVIOUS
  <2> HIDE DEF U
  <2>2. PICK i \in U : \A j \in U : i <= j
    BY <2>1, LeastIn
  <2>3. i \in 0..n /\ F[i] \notin Nat /\ i # 0
    BY <1>13, <2>1
  <2>4. i \in 1..n /\ i - 1 \in 0..n /\ i - 1 \notin U
    BY <2>2, <2>3
  <2>5. F[i - 1] \in Nat
    BY <2>1, <2>4
  <2> QED
    BY <1>2, <1>13, <2>3, <2>4, <2>5
<1>15. F = [i \in 0..n |-> F[i]]
  BY <1>11, <1>13
<1>16. \A i \in 0..n : F[i] \in Nat
  BY <1>14
<1>17. F \in [0..n -> Nat]
  BY <1>15, <1>16
<1> QED
  BY <1>1, <1>12, <1>13, <1>17 DEF AreEnds

LEMMA EndsRise ==
  ASSUME NEW s \in Seq(Nat), NEW f, AreEnds(f, s), NEW i \in 0..Len(s), NEW j \in 0..Len(s), i <= j
  PROVE  f[i] <= f[j]
<1>1. PICK n \in Nat : n = Len(s)
  OBVIOUS
<1>2. (\A k \in 0..n : f[k] \in Nat) /\ \A k \in 1..n : f[k] = f[k - 1] + Aligned(s[k])
  <2>1. f \in [0..n -> Nat]
    BY <1>1 DEF AreEnds
  <2> QED
    BY <1>1, <2>1 DEF AreEnds
<1>3. ASSUME NEW k \in 1..n
      PROVE  Aligned(s[k]) \in Nat
  <2>1. s[k] \in Nat
    BY <1>1
  <2> QED
    BY <2>1, AlignedIs
<1> DEFINE U == {k \in 0..n : i <= k /\ ~(f[i] <= f[k])}
<1>4. U = {}
  <2> SUFFICES ASSUME U # {} PROVE FALSE
    OBVIOUS
  <2>1. U \in SUBSET Nat /\ \A k : k \in U <=> k \in 0..n /\ i <= k /\ ~(f[i] <= f[k])
    OBVIOUS
  <2> HIDE DEF U
  <2>2. PICK k \in U : \A m \in U : k <= m
    BY <2>1, LeastIn
  <2>3. k \in 0..n /\ i <= k /\ ~(f[i] <= f[k])
    BY <2>1
  <2>4. i # k
    BY <1>1, <1>2, <2>3
  <2>5. k \in 1..n /\ k - 1 \in 0..n /\ i <= k - 1
    BY <1>1, <2>3, <2>4
  <2>6. k - 1 \notin U
    BY <2>2, <2>5
  <2>7. f[i] <= f[k - 1]
    BY <2>1, <2>5, <2>6
  <2>8. f[k] = f[k - 1] + Aligned(s[k]) /\ Aligned(s[k]) \in Nat /\ f[k - 1] \in Nat /\ f[i] \in Nat
    BY <1>1, <1>2, <1>3, <2>5
  <2> QED
    BY <2>3, <2>7, <2>8
<1> QED
  BY <1>1, <1>4

LEMMA EndsAlike ==
  ASSUME NEW s \in Seq(Nat), NEW t \in Seq(Nat), NEW f, NEW g, AreEnds(f, s), AreEnds(g, t),
         NEW n \in Nat, n <= Len(s), n <= Len(t), \A i \in 1..n : s[i] = t[i]
  PROVE  f[n] = g[n]
<1>1. f[0] = 0 /\ g[0] = 0
  BY DEF AreEnds
<1>2. ASSUME NEW i \in 1..n
      PROVE  f[i] = f[i - 1] + Aligned(s[i]) /\ g[i] = g[i - 1] + Aligned(t[i])
  <2>1. i \in 1..Len(s) /\ i \in 1..Len(t)
    OBVIOUS
  <2> QED
    BY <2>1 DEF AreEnds
<1> DEFINE U == {k \in 0..n : f[k] # g[k]}
<1>3. U = {}
  <2> SUFFICES ASSUME U # {} PROVE FALSE
    OBVIOUS
  <2>1. U \in SUBSET Nat /\ \A k : k \in U <=> k \in 0..n /\ f[k] # g[k]
    OBVIOUS
  <2> HIDE DEF U
  <2>2. PICK k \in U : \A m \in U : k <= m
    BY <2>1, LeastIn
  <2>3. k \in 1..n /\ k - 1 \in 0..n /\ f[k] # g[k]
    BY <1>1, <2>1
  <2>4. k - 1 \notin U
    BY <2>2, <2>3
  <2>5. f[k - 1] = g[k - 1]
    BY <2>1, <2>3, <2>4
  <2> QED
    BY <1>2, <2>3, <2>5
<1>4. n \in 0..n
  OBVIOUS
<1> QED
  BY <1>3, <1>4

(* No two that are laid out overlap, and all end where the last one does.  *)
LEMMA EndsApart ==
  ASSUME NEW s \in Seq(Nat), NEW f, AreEnds(f, s), NEW i \in 1..Len(s), NEW j \in 1..Len(s), i < j
  PROVE  /\ f[i - 1] \in Nat /\ f[j - 1] \in Nat
         /\ f[i - 1] + s[i] <= f[j - 1] /\ f[j - 1] + s[j] <= f[Len(s)]
<1>1. PICK n \in Nat : n = Len(s)
  OBVIOUS
<1>2. i - 1 \in 0..n /\ j - 1 \in 0..n /\ i \in 0..n /\ j \in 0..n /\ n \in 0..n /\ i <= j - 1 /\ j <= n
  BY <1>1
<1>3. f[i] <= f[j - 1] /\ f[j] <= f[n]
  BY <1>1, <1>2, EndsRise
<1>4. \A k \in 0..n : f[k] \in Nat
  <2>1. f \in [0..n -> Nat]
    BY <1>1 DEF AreEnds
  <2> QED
    BY <2>1
<1>5. f[i] = f[i - 1] + Aligned(s[i]) /\ f[j] = f[j - 1] + Aligned(s[j])
  BY DEF AreEnds
<1>6. s[i] \in Nat /\ s[j] \in Nat
  OBVIOUS
<1>7. Aligned(s[i]) \in Nat /\ Aligned(s[j]) \in Nat /\ s[i] <= Aligned(s[i]) /\ s[j] <= Aligned(s[j])
  BY <1>6, AlignedIs
<1>8. f[i] \in Nat /\ f[j] \in Nat /\ f[n] \in Nat /\ f[i - 1] \in Nat /\ f[j - 1] \in Nat
  BY <1>2, <1>4
<1>9. PICK a, b, c, d, m, x, y \in Nat :
         a = f[i - 1] /\ b = f[i] /\ c = f[j - 1] /\ d = f[j] /\ m = f[n] /\ x = s[i] /\ y = s[j]
  BY <1>6, <1>8
<1>10. PICK p, q \in Nat : p = Aligned(s[i]) /\ q = Aligned(s[j])
  BY <1>7
<1>11. b = a + p /\ d = c + q /\ x <= p /\ y <= q /\ b <= c /\ d <= m
  BY <1>1, <1>3, <1>5, <1>7, <1>9, <1>10
<1>12. a + x <= c /\ c + y <= m
  BY <1>11
<1> QED
  BY <1>1, <1>9, <1>12

AreSizes(t, s, g) ==
  t \in Seq(Nat) /\ Len(t) = Len(g) /\ \A i \in 1..Len(g) : t[i] = s[g[i]]

IsSizing(s, P) == \E last \in Nat : s \in [1..last -> Nat] /\ P \in SUBSET (1..last)

LEMMA SizesAre ==
  ASSUME NEW s, NEW P, IsSizing(s, P), NEW g \in Seq(P)
  PROVE  AreSizes(SizesOf(s, g), s, g)
<1>0. PICK last \in Nat : s \in [1..last -> Nat] /\ P \in SUBSET (1..last)
  BY DEF IsSizing
<1>1. PICK n \in Nat : n = Len(g) /\ DOMAIN g = 1..n
  OBVIOUS
<1>2. ASSUME NEW i \in 1..n
      PROVE  s[g[i]] \in Nat
  <2>1. PICK p : p = g[i]
    OBVIOUS
  <2>2. p \in P
    BY <1>1, <2>1
  <2>3. p \in 1..last
    BY <1>0, <2>2
  <2>4. s[p] \in Nat
    BY <1>0, <2>3
  <2> QED
    BY <2>1, <2>4
<1>3. PICK t : t = SizesOf(s, g)
  OBVIOUS
<1>4. t = [i \in 1..n |-> s[g[i]]]
  BY <1>1, <1>3 DEF SizesOf
<1>5. t \in [1..n -> Nat]
  BY <1>2, <1>4
<1>6. t \in Seq(Nat) /\ Len(t) = n
  BY <1>5
<1> QED
  BY <1>1, <1>3, <1>4, <1>6 DEF AreSizes

IsAlone(g) == Len(g) = 1
FitTogether(g, s) ==
  (\A y \in 1..Len(g) : s[g[y]] <= BufferSize) /\ Ends(SizesOf(s, g))[Len(g)] <= BufferSize

IsGroup(g, s, P) == g \in Seq(P) /\ Len(g) \in Nat \ {0} /\ (IsAlone(g) \/ FitTogether(g, s))

LEMMA JoinGroup ==
  ASSUME NEW s, NEW P, IsSizing(s, P), NEW g, IsGroup(g, s, P),
         NEW p \in P, s[p] <= BufferSize, s[g[1]] <= BufferSize, Fits(s, g, p)
  PROVE  IsGroup(Append(g, p), s, P)
<1>1. PICK n \in Nat \ {0} : n = Len(g)
  BY DEF IsGroup
<1>2. g \in Seq(P)
  BY DEF IsGroup
<1>3. PICK h : h = Append(g, p)
  OBVIOUS
<1>4. h \in Seq(P) /\ Len(h) = n + 1 /\ h[n + 1] = p /\ \A i \in 1..n : h[i] = g[i]
  BY <1>1, <1>2, <1>3
<1>5. PICK t : t = SizesOf(s, g)
  OBVIOUS
<1>6. PICK u : u = SizesOf(s, h)
  OBVIOUS
<1>7. t \in Seq(Nat) /\ Len(t) = n /\ \A i \in 1..n : t[i] = s[g[i]]
  <2>1. AreSizes(t, s, g)
    BY <1>2, <1>5, SizesAre
  <2> QED
    BY <1>1, <2>1 DEF AreSizes
<1>8. u \in Seq(Nat) /\ Len(u) = n + 1 /\ \A i \in 1..(n + 1) : u[i] = s[h[i]]
  <2>1. AreSizes(u, s, h)
    BY <1>4, <1>6, SizesAre
  <2> QED
    BY <1>4, <2>1 DEF AreSizes
<1>9. AreEnds(Ends(t), t) /\ AreEnds(Ends(u), u)
  BY <1>7, <1>8, EndsAre
<1>10. ASSUME NEW i \in 1..n PROVE u[i] = t[i]
  <2>1. i \in 1..(n + 1)
    OBVIOUS
  <2>2. t[i] = s[g[i]] /\ h[i] = g[i] /\ u[i] = s[h[i]]
    BY <1>4, <1>7, <1>8, <2>1
  <2> QED
    BY <2>2
<1>11. Ends(u)[n] = Ends(t)[n]
  <2>1. u \in Seq(Nat) /\ t \in Seq(Nat) /\ n \in Nat /\ n <= Len(u) /\ n <= Len(t)
    BY <1>7, <1>8
  <2>2. \A i \in 1..n : u[i] = t[i]
    BY <1>10
  <2> QED
    BY <1>9, <2>1, <2>2, EndsAlike
<1>12. Ends(u)[n + 1] = Ends(u)[n] + Aligned(u[n + 1])
  BY <1>8, <1>9 DEF AreEnds
<1>13. u[n + 1] = s[p]
  BY <1>4, <1>8
<1>14. Ends(u)[n + 1] <= BufferSize
  BY <1>1, <1>5, <1>11, <1>12, <1>13 DEF Fits
<1>15. ASSUME NEW y \in 1..n PROVE s[g[y]] <= BufferSize
  BY <1>1 DEF IsGroup, IsAlone, FitTogether
<1>16. \A y \in 1..(n + 1) : s[h[y]] <= BufferSize
  BY <1>4, <1>15
<1> QED
  BY <1>3, <1>4, <1>6, <1>14, <1>16 DEF IsGroup, FitTogether

LEMMA SingleGroup ==
  ASSUME NEW s, NEW P, NEW p \in P
  PROVE  IsGroup(<<p>>, s, P)
BY DEF IsGroup, IsAlone

AreGroups(gs, s, P) == gs \in Seq(Seq(P)) /\ \A x \in 1..Len(gs) : IsGroup(gs[x], s, P)
GroupedTo(gs, order, n) == \A m \in 1..n : \E x \in 1..Len(gs) : order[m] \in Range(gs[x])

LEMMA ReplacedLast ==
  ASSUME NEW T, NEW gs \in Seq(T), gs # << >>, NEW h \in T
  PROVE  /\ Last(gs) = gs[Len(gs)] /\ Len(gs) \in Nat \ {0}
         /\ Front(gs) \o <<h>> \in Seq(T) /\ Len(Front(gs) \o <<h>>) = Len(gs)
         /\ (Front(gs) \o <<h>>)[Len(gs)] = h
         /\ \A x \in 1..(Len(gs) - 1) : (Front(gs) \o <<h>>)[x] = gs[x]
<1>1. PICK n \in Nat \ {0} : n = Len(gs)
  OBVIOUS
<1>2. PICK f : f = Front(gs)
  OBVIOUS
<1>3. f \in Seq(T) /\ Len(f) = n - 1 /\ \A x \in 1..(n - 1) : f[x] = gs[x]
  BY <1>1, <1>2 DEF Front
<1>4. PICK k : k = <<h>>
  OBVIOUS
<1>5. k \in Seq(T) /\ Len(k) = 1 /\ k[1] = h
  BY <1>4
<1>6. PICK w : w = f \o k
  OBVIOUS
<1>7. w \in Seq(T) /\ Len(w) = n /\ w[n] = h /\ \A x \in 1..(n - 1) : w[x] = f[x]
  <2>0. w \in Seq(T) /\ Len(w) = Len(f) + Len(k)
    BY <1>3, <1>5, <1>6, RangeOfConcat
  <2>1. w \in Seq(T) /\ Len(w) = n
    BY <1>1, <1>3, <1>5, <2>0
  <2>2. ASSUME NEW x \in 1..n
        PROVE  w[x] = IF x <= n - 1 THEN f[x] ELSE k[x - (n - 1)]
    BY <1>1, <1>3, <1>5, <1>6, ConcatProperties
  <2>3. n \in 1..n /\ n - (n - 1) = 1
    OBVIOUS
  <2> QED
    BY <1>5, <2>1, <2>2, <2>3
<1>8. \A x \in 1..(n - 1) : w[x] = gs[x]
  BY <1>3, <1>7
<1> QED
  BY <1>1, <1>2, <1>4, <1>6, <1>7, <1>8 DEF Last

LEMMA PlaceKeeps ==
  ASSUME NEW s, NEW P, IsSizing(s, P), NEW gs, AreGroups(gs, s, P),
         NEW p \in P
  PROVE  /\ AreGroups(Place(s, gs, p), s, P)
         /\ \E x \in 1..Len(Place(s, gs, p)) : p \in Range(Place(s, gs, p)[x])
         /\ \A q : (\E x \in 1..Len(gs) : q \in Range(gs[x])) =>
                      \E x \in 1..Len(Place(s, gs, p)) : q \in Range(Place(s, gs, p)[x])
<1>1. PICK T : T = Seq(P)
  OBVIOUS
<1>2. gs \in Seq(T) /\ \A x \in 1..Len(gs) : IsGroup(gs[x], s, P)
  BY <1>1 DEF AreGroups
<1>3. PICK n \in Nat : n = Len(gs)
  BY <1>2
<1>4. PICK w : w = Place(s, gs, p)
  OBVIOUS
<1>5. CASE gs # <<>> /\ s[p] <= BufferSize /\ s[Last(gs)[1]] <= BufferSize /\ Fits(s, Last(gs), p)
  <2>1. PICK g : g = gs[n]
    OBVIOUS
  <2>2. Last(gs) = g /\ n # 0 /\ IsGroup(g, s, P)
    BY <1>2, <1>3, <1>5, <2>1 DEF Last
  <2>3. PICK h : h = Append(g, p)
    OBVIOUS
  <2>4. IsGroup(h, s, P)
    BY <1>5, <2>2, <2>3, JoinGroup
  <2>5. h \in T /\ g \in T
    BY <1>1, <2>2, <2>4 DEF IsGroup
  <2>6. w = Front(gs) \o <<h>>
    BY <1>4, <1>5, <2>2, <2>3 DEF Place
  <2>7. w \in Seq(T) /\ Len(w) = n /\ w[n] = h /\ \A x \in 1..(n - 1) : w[x] = gs[x]
    BY <1>2, <1>3, <1>5, <2>5, <2>6, ReplacedLast
  <2>8. p \in Range(h) /\ \A q : q \in Range(g) => q \in Range(h)
    BY <1>1, <2>3, <2>5 DEF Range
  <2>9. \A x \in 1..n : x = n \/ x \in 1..(n - 1)
    OBVIOUS
  <2>10. AreGroups(w, s, P)
    BY <1>1, <1>2, <1>3, <2>4, <2>7, <2>9 DEF AreGroups
  <2>11. p \in Range(w[n]) /\ n \in 1..Len(w)
    BY <2>2, <2>7, <2>8
  <2>12. \A q, x : x \in 1..n /\ q \in Range(gs[x]) => q \in Range(w[x])
    BY <2>1, <2>7, <2>8, <2>9
  <2> QED
    BY <1>3, <1>4, <2>7, <2>10, <2>11, <2>12
<1>6. CASE ~(gs # <<>> /\ s[p] <= BufferSize /\ s[Last(gs)[1]] <= BufferSize /\ Fits(s, Last(gs), p))
  <2>1. PICK h : h = <<p>>
    OBVIOUS
  <2>2. w = Append(gs, h)
    BY <1>4, <1>6, <2>1 DEF Place
  <2>3. IsGroup(h, s, P) /\ h \in T /\ p \in Range(h)
    <3>1. IsGroup(h, s, P) /\ h \in T
      BY <1>1, <2>1, SingleGroup
    <3>2. 1 \in DOMAIN h /\ h[1] = p
      BY <2>1
    <3> QED
      BY <3>1, <3>2 DEF Range
  <2>4. w \in Seq(T) /\ Len(w) = n + 1 /\ w[n + 1] = h /\ \A x \in 1..n : w[x] = gs[x]
    BY <1>2, <1>3, <2>2, <2>3
  <2>5. \A x \in 1..(n + 1) : x = n + 1 \/ x \in 1..n
    OBVIOUS
  <2>6. AreGroups(w, s, P)
    BY <1>1, <1>2, <1>3, <2>3, <2>4, <2>5 DEF AreGroups
  <2>7. p \in Range(w[n + 1]) /\ n + 1 \in 1..Len(w)
    BY <2>3, <2>4
  <2>8. \A q, x : x \in 1..n /\ q \in Range(gs[x]) => x \in 1..Len(w) /\ q \in Range(w[x])
    BY <2>4
  <2> QED
    BY <1>3, <1>4, <2>6, <2>7, <2>8
<1> QED
  BY <1>5, <1>6

BySize(s, P) == {q \in P \X P : s[q[1]] < s[q[2]] \/ (s[q[1]] = s[q[2]] /\ q[1] < q[2])}

LEMMA BySizeIsAnOrder ==
  ASSUME NEW s, NEW P, IsSizing(s, P)
  PROVE  IsOrder(BySize(s, P), P)
<1>1. PICK last \in Nat : s \in [1..last -> Nat] /\ P \in SUBSET (1..last)
  BY DEF IsSizing
<1>2. ASSUME NEW x \in P
      PROVE  x \in Nat /\ s[x] \in Nat
  BY <1>1
<1>3. \A x, y \in P : <<x, y>> \in BySize(s, P) <=> s[x] < s[y] \/ (s[x] = s[y] /\ x < y)
  BY DEF BySize
<1>4. ASSUME NEW x \in P PROVE <<x, x>> \notin BySize(s, P)
  BY <1>2, <1>3
<1>5. ASSUME NEW x \in P, NEW y \in P, NEW z \in P, <<x, y>> \in BySize(s, P), <<y, z>> \in BySize(s, P)
      PROVE  <<x, z>> \in BySize(s, P)
  <2>1. x \in Nat /\ y \in Nat /\ z \in Nat /\ s[x] \in Nat /\ s[y] \in Nat /\ s[z] \in Nat
    BY <1>2
  <2>2. s[x] < s[y] \/ (s[x] = s[y] /\ x < y)
    BY <1>3, <1>5
  <2>3. s[y] < s[z] \/ (s[y] = s[z] /\ y < z)
    BY <1>3, <1>5
  <2>4. s[x] < s[z] \/ (s[x] = s[z] /\ x < z)
    BY <2>1, <2>2, <2>3
  <2> QED
    BY <1>3, <2>4
<1>6. ASSUME NEW x \in P, NEW y \in P, x # y
      PROVE  <<x, y>> \in BySize(s, P) \/ <<y, x>> \in BySize(s, P)
  <2>1. x \in Nat /\ y \in Nat /\ s[x] \in Nat /\ s[y] \in Nat
    BY <1>2
  <2> QED
    BY <1>3, <1>6, <2>1
<1> QED
  BY <1>4, <1>5, <1>6 DEF IsOrder

GroupsUpTo(s, order, f, n) == IF n = 0 THEN <<>> ELSE Place(s, f[n - 1], order[n])

(* The groups are of the positions in P, fit, and leave none out.          *)
AreSplit(gs, s, P) ==
  AreGroups(gs, s, P) /\ \A p \in P : \E x \in 1..Len(gs) : p \in Range(gs[x])

LEMMA SplitsAre ==
  ASSUME NEW s, NEW P, IsSizing(s, P)
  PROVE  AreSplit(SplitByBytes(s, P), s, P)
<1>1. IsFiniteSet(P)
  <2>1. PICK last \in Nat : P \in SUBSET (1..last)
    BY DEF IsSizing
  <2>2. IsFiniteSet(1..last)
    BY <2>1, FS_Interval
  <2> QED
    BY <2>1, <2>2, FS_Subset
<1>2. PICK order : order = InOrder(P, BySize(s, P))
  OBVIOUS
<1>3. PICK n : n = Cardinality(P)
  OBVIOUS
<1>4. n \in Nat /\ order \in [1..n -> P] /\ \A x \in P : \E k \in 1..n : order[k] = x
  <2>1. IsInOrder(order, P, BySize(s, P))
    BY <1>1, <1>2, BySizeIsAnOrder, InOrderFacts
  <2> QED
    BY <1>3, <2>1 DEF IsInOrder
<1>5. PICK V : V = {gs \in Seq(Seq(P)) : AreGroups(gs, s, P)}
  OBVIOUS
<1>6. ASSUME NEW gs \in V, NEW p \in P
      PROVE  Place(s, gs, p) \in V
  <2>1. AreGroups(gs, s, P)
    BY <1>5
  <2>2. AreGroups(Place(s, gs, p), s, P)
    BY <2>1, PlaceKeeps
  <2> QED
    BY <1>5, <2>2 DEF AreGroups
<1>7. PICK base : base = << >>
  OBVIOUS
<1>8. base \in V
  BY <1>5, <1>7 DEF AreGroups
<1>9. PICK step : step = [x \in (1..n) \X V |-> Place(s, x[2], order[x[1]])]
  OBVIOUS
<1>10. \A i \in 1..n, gs \in V : step[<<i, gs>>] = Place(s, gs, order[i])
  BY <1>9
<1>11. step \in [(1..n) \X V -> V]
  BY <1>4, <1>6, <1>9
<1>12. PICK f : FollowsUp(f, n, V, base, step, n)
  BY <1>4, <1>8, <1>11, RecursionUp, Zenon
<1>13. f \in [0..n -> V] /\ f[0] = << >> /\ \A i \in 1..n : f[i] = step[<<i, f[i - 1]>>]
  BY <1>7, <1>12 DEF FollowsUp
<1>14. ASSUME NEW i \in 0..n
       PROVE  f[i] = GroupsUpTo(s, order, f, i)
  <2>1. CASE i = 0
    BY <1>13, <2>1 DEF GroupsUpTo
  <2>2. CASE i # 0
    <3>1. i \in 1..n /\ i - 1 \in 0..n
      BY <1>4, <2>2
    <3>2. f[i - 1] \in V
      BY <1>13, <3>1
    <3> QED
      BY <1>10, <1>13, <2>2, <3>1, <3>2 DEF GroupsUpTo
  <2> QED
    BY <2>1, <2>2
<1>15. f = [i \in 0..n |-> GroupsUpTo(s, order, f, i)]
  <2>1. f = [i \in 0..n |-> f[i]]
    BY <1>13
  <2>2. [i \in 0..n |-> f[i]] = [i \in 0..n |-> GroupsUpTo(s, order, f, i)]
    BY <1>14
  <2> QED
    BY <2>1, <2>2
<1> DEFINE F == CHOOSE g : g = [i \in 0..n |-> GroupsUpTo(s, order, g, i)]
<1>16. F = [i \in 0..n |-> GroupsUpTo(s, order, F, i)]
  BY <1>15, Zenon
<1>17. SplitByBytes(s, P) = F[n]
  BY <1>2, <1>3 DEF SplitByBytes, GroupsUpTo, BySize
<1> HIDE DEF F
<1>18. F[0] = <<>> /\ \A i \in 1..n : F[i] = Place(s, F[i - 1], order[i])
  <2>1. F[0] = GroupsUpTo(s, order, F, 0)
    BY <1>4, <1>16
  <2>2. ASSUME NEW i \in 1..n PROVE F[i] = Place(s, F[i - 1], order[i])
    <3>1. i \in 0..n /\ i # 0
      BY <1>4
    <3>2. F[i] = GroupsUpTo(s, order, F, i)
      BY <1>16, <3>1
    <3> QED
      BY <3>1, <3>2 DEF GroupsUpTo
  <2> QED
    BY <2>1, <2>2 DEF GroupsUpTo
<1> DEFINE Good(i) == AreGroups(F[i], s, P) /\ GroupedTo(F[i], order, i)
           U == {i \in 0..n : ~ Good(i)}
<1>19. U = {}
  <2> SUFFICES ASSUME U # {} PROVE FALSE
    OBVIOUS
  <2>1. U \in SUBSET Nat /\ \A i : i \in U <=> i \in 0..n /\ ~ Good(i)
    OBVIOUS
  <2> HIDE DEF U
  <2>2. PICK i \in U : \A j \in U : i <= j
    BY <2>1, LeastIn
  <2>3. i \in 0..n /\ ~ Good(i)
    BY <2>1
  <2>4. CASE i = 0
    <3>1. AreGroups(F[0], s, P)
      BY <1>18 DEF AreGroups
    <3>2. GroupedTo(F[0], order, 0)
      BY DEF GroupedTo
    <3> QED
      BY <2>3, <2>4, <3>1, <3>2
  <2>5. CASE i # 0
    <3>1. i \in 1..n /\ i - 1 \in 0..n
      BY <1>4, <2>3, <2>5
    <3>2. i - 1 \notin U
      BY <1>4, <2>2, <3>1
    <3>3. Good(i - 1)
      BY <2>1, <3>1, <3>2
    <3>4. PICK gs : gs = F[i - 1]
      OBVIOUS
    <3>5. PICK p \in P : p = order[i]
      BY <1>4, <3>1
    <3>6. PICK w : w = Place(s, gs, p)
      OBVIOUS
    <3>7. F[i] = w
      BY <1>18, <3>1, <3>4, <3>5, <3>6
    <3>8. AreGroups(gs, s, P) /\ GroupedTo(gs, order, i - 1)
      BY <3>3, <3>4
    <3>9. /\ AreGroups(w, s, P)
          /\ \E x \in 1..Len(w) : p \in Range(w[x])
          /\ \A q : (\E x \in 1..Len(gs) : q \in Range(gs[x])) => \E x \in 1..Len(w) : q \in Range(w[x])
      BY <3>6, <3>8, PlaceKeeps
    <3>10. ASSUME NEW m \in 1..i
           PROVE  \E x \in 1..Len(w) : order[m] \in Range(w[x])
      <4>1. CASE m = i
        BY <3>5, <3>9, <4>1
      <4>2. CASE m # i
        <5>1. m \in 1..(i - 1)
          BY <3>1, <4>2
        <5>2. \E x \in 1..Len(gs) : order[m] \in Range(gs[x])
          BY <3>8, <5>1 DEF GroupedTo
        <5> QED
          BY <3>9, <5>2
      <4> QED
        BY <4>1, <4>2
    <3>11. GroupedTo(w, order, i)
      BY <3>10 DEF GroupedTo
    <3> QED
      BY <2>3, <3>7, <3>9, <3>11
  <2> QED
    BY <2>4, <2>5
<1>20. Good(n)
  BY <1>4, <1>19
<1> QED
  <2>1. AreGroups(F[n], s, P) /\ GroupedTo(F[n], order, n)
    BY <1>20
  <2>2. ASSUME NEW p \in P PROVE \E x \in 1..Len(F[n]) : p \in Range(F[n][x])
    BY <1>4, <2>1 DEF GroupedTo
  <2> QED
    BY <1>17, <2>1, <2>2 DEF AreSplit

-----------------------------------------------------------------------------
(* Transfers: batches of keys, and groups of tensors.                      *)
AreBatches(bs, ps, P) ==
  bs \in Seq(Seq(P)) /\ \A x \in Range(ps) : \E b \in 1..Len(bs) : x \in Range(bs[b])

LEMMA BatchesAre ==
  ASSUME NEW P, NEW ps \in Seq(P)
  PROVE  AreBatches(Batches(ps), ps, P)
<1>1. PICK n \in Nat : n = Len(ps) /\ DOMAIN ps = 1..n
  OBVIOUS
<1>2. PICK L \in Nat \ {0} : L = BatchLimit
  BY KVBackendAssumption
<1>3. PICK m \in Nat : m = n + L - 1
  OBVIOUS
<1>4. PICK c \in Nat : c = m \div L
  BY Quotient
<1>5. PICK e \in Nat : e = c * L
  BY <1>4, Quotient
<1>6. m < e + L
  BY <1>4, <1>5, Quotient
<1>7. PICK bs : bs = Batches(ps)
  OBVIOUS
<1> DEFINE first(b) == (b - 1) * L + 1
           last(b)  == IF b * L < n THEN b * L ELSE n
<1>8. bs = [b \in 1..c |-> SubSeq(ps, first(b), last(b))]
  BY <1>1, <1>2, <1>3, <1>4, <1>7 DEF Batches
<1>9. ASSUME NEW b \in 1..c
      PROVE  /\ first(b) \in Nat \ {0} /\ last(b) \in Nat /\ last(b) <= n
             /\ (b - 1) * L \in Nat /\ b * L \in Nat /\ b * L = (b - 1) * L + L
  <2>1. PICK a \in Nat : b = a + 1
    <3>1. b - 1 \in Nat /\ b = (b - 1) + 1
      OBVIOUS
    <3> QED
      BY <3>1
  <2>2. a * L \in Nat /\ (a + 1) * L = a * L + L
    BY BlockPlaces
  <2>3. b - 1 = a
    BY <2>1
  <2> QED
    BY <2>1, <2>2, <2>3
<1> HIDE DEF first, last
<1>10. ASSUME NEW b \in 1..c
       PROVE  /\ bs[b] \in Seq(P) /\ DOMAIN bs[b] = 1..(last(b) - first(b) + 1)
              /\ \A i \in 1..(last(b) - first(b) + 1) : bs[b][i] = ps[first(b) + i - 1]
  <2>1. PICK f \in Nat \ {0} : f = first(b)
    BY <1>9
  <2>2. PICK l \in Nat : l = last(b) /\ l <= n
    BY <1>9
  <2>3. bs[b] = SubSeq(ps, f, l)
    BY <1>8, <2>1, <2>2
  <2>4. ASSUME NEW i \in f..l PROVE ps[i] \in P
    <3>1. i \in 1..n
      BY <2>2
    <3> QED
      BY <1>1, <3>1
  <2>5. /\ SubSeq(ps, f, l) \in Seq(P)
        /\ Len(SubSeq(ps, f, l)) = IF f <= l THEN l - f + 1 ELSE 0
        /\ \A i \in 1..(l - f + 1) : SubSeq(ps, f, l)[i] = ps[f + i - 1]
    BY <2>4, SubSeqProperties
  <2>6. DOMAIN bs[b] = 1..(l - f + 1)
    BY <2>3, <2>5, LenProperties
  <2> QED
    BY <2>1, <2>2, <2>3, <2>5, <2>6
<1>11. bs \in [1..c -> Seq(P)]
  BY <1>8, <1>10
<1>12. bs \in Seq(Seq(P)) /\ Len(bs) = c
  BY <1>11, SequenceOfLength
<1>13. ASSUME NEW i \in 1..n
       PROVE  \E b \in 1..c : ps[i] \in Range(bs[b])
  <2>0. PICK j \in Nat : j = i - 1
    OBVIOUS
  <2>1. PICK a \in Nat : a = j \div L
    BY Quotient
  <2>2. PICK d \in Nat : d = a * L
    BY <2>1, Quotient
  <2>3. d <= i - 1 /\ i - 1 < d + L
    BY <2>0, <2>1, <2>2, Quotient
  <2>4. a < c
    <3> SUFFICES ASSUME c <= a PROVE FALSE
      OBVIOUS
    <3>1. e <= d
      BY <1>5, <2>2, TimesMonotone
    <3> QED
      BY <1>3, <1>6, <2>3, <3>1
  <2>5. PICK b \in 1..c : b = a + 1
    BY <2>4
  <2>6. b - 1 = a
    BY <2>5
  <2>7. first(b) = d + 1
    BY <2>2, <2>6 DEF first
  <2>8. last(b) = IF d + L < n THEN d + L ELSE n
    <3>1. b * L = d + L
      BY <1>9, <2>2, <2>6
    <3> QED
      BY <3>1 DEF last
  <2>9. i - d \in 1..(last(b) - first(b) + 1)
    BY <2>3, <2>7, <2>8
  <2>10. first(b) + (i - d) - 1 = i
    BY <2>7
  <2>11. i - d \in DOMAIN bs[b] /\ bs[b][i - d] = ps[i]
    BY <1>10, <2>9, <2>10
  <2> QED
    BY <2>11 DEF Range
<1>14. ASSUME NEW x \in Range(ps)
       PROVE  \E b \in 1..Len(bs) : x \in Range(bs[b])
  <2>1. PICK i \in 1..n : x = ps[i]
    BY <1>1 DEF Range
  <2> QED
    BY <1>12, <1>13, <2>1
<1> QED
  BY <1>7, <1>12, <1>14 DEF AreBatches

-----------------------------------------------------------------------------
Places  == {"store", "npu", "general"}
Layouts == [size : Nat, where : Places, parts : Nat]
Items   == [pos : Nat, slot : Places \X Cells \X Nat, off : Nat]
AllTransfers == [staged : BOOLEAN, items : Seq(Items)]

IsItem(i, order, ks) ==
  /\ i \in Items /\ i.pos \in DOMAIN order
  /\ i.slot = <<ks[i.pos].where, order[i.pos], i.slot[3]>> /\ i.slot[3] \in PartsOf(ks[i.pos])

(* What an item takes of the staging buffer.                               *)
Bytes(i, ks) == IF i.slot[3] = 0 THEN ks[i.pos].size ELSE BufferSize

ItemsFit(items, ks) ==
  /\ \A a \in DOMAIN items : Bytes(items[a], ks) \in Nat \ {0} /\ items[a].off + Bytes(items[a], ks) <= BufferSize
  /\ \A a, b \in DOMAIN items : a < b => items[a].off + Bytes(items[a], ks) <= items[b].off

IsTransfer(t, order, ks) ==
  /\ t \in AllTransfers
  /\ \A j \in DOMAIN t.items : IsItem(t.items[j], order, ks)
  /\ t.staged => ItemsFit(t.items, ks)

AreTransfers(T, order, ks) == T \in Seq(AllTransfers) /\ \A t \in Range(T) : IsTransfer(t, order, ks)

IsOf(i, p, part) == i.pos = p /\ i.slot[3] = part
HasPart(t, p, part) == \E j \in DOMAIN t.items : IsOf(t.items[j], p, part)
Covers(T, ks, P) == \A p \in P : \A part \in PartsOf(ks[p]) : \E t \in Range(T) : HasPart(t, p, part)

LEMMA ItemIs ==
  ASSUME NEW n \in Nat, NEW order \in [1..n -> Cells], NEW ks \in [1..n -> Layouts],
         NEW p \in 1..n, NEW part \in PartsOf(ks[p]), NEW off \in Nat
  PROVE  /\ IsItem(Item(order, p, ks[p].where, part, off), order, ks)
         /\ IsOf(Item(order, p, ks[p].where, part, off), p, part)
         /\ Item(order, p, ks[p].where, part, off).off = off
<1>1. PICK k \in Layouts : k = ks[p]
  OBVIOUS
<1>2. k.where \in Places /\ k.parts \in Nat
  BY DEF Layouts
<1>3. part \in Nat
  BY <1>1, <1>2 DEF PartsOf
<1>4. order[p] \in Cells /\ p \in Nat
  OBVIOUS
<1>5. PICK w \in Places : w = ks[p].where
  BY <1>1, <1>2
<1>6. PICK e \in Cells : e = order[p]
  BY <1>4
<1>7. PICK i : i = [pos |-> p, slot |-> <<w, e, part>>, off |-> off]
  OBVIOUS
<1>8. i \in Items /\ i.pos = p /\ i.slot = <<w, e, part>> /\ i.slot[3] = part /\ i.off = off
  BY <1>3, <1>4, <1>7 DEF Items
<1>9. Item(order, p, ks[p].where, part, off) = i
  BY <1>5, <1>6, <1>7 DEF Item
<1> QED
  BY <1>5, <1>6, <1>8, <1>9 DEF IsItem, IsOf

ItemsOfGroup(order, ks, g, offs) == [j \in DOMAIN g |-> Item(order, g[j], ks[g[j]].where, 0, offs[j])]

(* The items of a group: each of one position, whole, at its offset.       *)
AreItemsOf(items, order, ks, g, offs) ==
  /\ items \in Seq(Items) /\ DOMAIN items = DOMAIN g
  /\ \A j \in DOMAIN g : IsItem(items[j], order, ks) /\ IsOf(items[j], g[j], 0) /\ items[j].off = offs[j]

LEMMA ItemsOfGroupAre ==
  ASSUME NEW n \in Nat, NEW order \in [1..n -> Cells], NEW ks \in [1..n -> Layouts],
         NEW g \in Seq(1..n), NEW offs, \A j \in DOMAIN g : offs[j] \in Nat /\ ks[g[j]].parts = 0
  PROVE  AreItemsOf(ItemsOfGroup(order, ks, g, offs), order, ks, g, offs)
<1>1. PICK l \in Nat : l = Len(g) /\ DOMAIN g = 1..l
  OBVIOUS
<1>2. PICK items : items = ItemsOfGroup(order, ks, g, offs)
  OBVIOUS
<1>3. ASSUME NEW j \in 1..l
      PROVE  IsItem(items[j], order, ks) /\ IsOf(items[j], g[j], 0) /\ items[j].off = offs[j]
  <2>1. PICK p \in 1..n : p = g[j]
    BY <1>1
  <2>2. PICK off \in Nat : off = offs[j]
    BY <1>1
  <2>3. 0 \in PartsOf(ks[p])
    BY <1>1, <2>1 DEF PartsOf
  <2>4. items[j] = Item(order, p, ks[p].where, 0, off)
    BY <1>1, <1>2, <2>1, <2>2 DEF ItemsOfGroup
  <2>5. PICK i : i = Item(order, p, ks[p].where, 0, off)
    OBVIOUS
  <2>6. IsItem(i, order, ks) /\ IsOf(i, p, 0) /\ i.off = off
    BY <2>3, <2>5, ItemIs
  <2>7. items[j] = i
    BY <2>4, <2>5
  <2> QED
    BY <2>1, <2>2, <2>6, <2>7
<1>4. \A j \in 1..l : items[j] \in Items
  BY <1>3 DEF IsItem
<1>5. items \in [1..l -> Items]
  BY <1>1, <1>2, <1>4 DEF ItemsOfGroup
<1>6. items \in Seq(Items) /\ DOMAIN items = 1..l
  BY <1>5, SequenceOfLength
<1> QED
  BY <1>1, <1>2, <1>3, <1>6 DEF AreItemsOf

(* Transfers whose items are those of groups.                              *)
LEMMA PlainTransfersAre ==
  ASSUME NEW n \in Nat, NEW order \in [1..n -> Cells], NEW ks \in [1..n -> Layouts],
         NEW P \in SUBSET (1..n), \A p \in P : ks[p].parts = 0
  PROVE  /\ AreTransfers(PlainTransfers(order, ks, P), order, ks)
         /\ Covers(PlainTransfers(order, ks, P), ks, P)
<1>1. PICK bs : bs = Batches(Ascending(P))
  OBVIOUS
<1>2. IsFiniteSet(P) /\ P \in SUBSET Nat
  <2>1. IsFiniteSet(1..n)
    BY FS_Interval
  <2>2. IsFiniteSet(P)
    BY <2>1, FS_Subset
  <2> QED
    BY <2>2
<1>3. PICK ps \in Seq(P) : ps = Ascending(P) /\ \A x \in P : x \in Range(ps)
  <2>1. /\ Ascending(P) \in Seq(P) /\ DOMAIN Ascending(P) = 1..Cardinality(P)
        /\ \A x \in P : \E k \in 1..Cardinality(P) : Ascending(P)[k] = x
    BY <1>2, AscendingFacts
  <2>2. \A x \in P : x \in Range(Ascending(P))
    BY <2>1 DEF Range
  <2> QED
    BY <2>1, <2>2
<1>4. AreBatches(bs, ps, P)
  BY <1>1, <1>3, BatchesAre
<1>5. PICK m \in Nat : m = Len(bs) /\ DOMAIN bs = 1..m /\ \A b \in 1..m : bs[b] \in Seq(P)
  BY <1>4 DEF AreBatches
<1>6. PICK T : T = PlainTransfers(order, ks, P)
  OBVIOUS
<1>7. PICK zero : zero = [x \in Nat |-> 0]
  OBVIOUS
<1>8. ASSUME NEW b \in 1..m
      PROVE  /\ bs[b] \in Seq(1..n)
             /\ T[b] = [staged |-> FALSE, items |-> ItemsOfGroup(order, ks, bs[b], zero)]
             /\ AreItemsOf(T[b].items, order, ks, bs[b], zero)
             /\ T[b] \in AllTransfers
             /\ IsTransfer(T[b], order, ks)
  <2>1. PICK g \in Seq(P) : g = bs[b]
    BY <1>5
  <2>2. PICK l \in Nat : l = Len(g) /\ DOMAIN g = 1..l
    OBVIOUS
  <2>3. \A j \in 1..l : g[j] \in P /\ zero[j] = 0
    BY <1>7, <2>2
  <2>4. g \in Seq(1..n)
    <3>0. g \in [1..l -> P]
      BY <2>2, LenProperties
    <3>1. g \in [1..l -> 1..n]
      BY <3>0
    <3> QED
      BY <3>1, SeqDef
  <2>5. ItemsOfGroup(order, ks, g, zero) = [j \in DOMAIN g |-> Item(order, g[j], ks[g[j]].where, 0, 0)]
    BY <2>2, <2>3 DEF ItemsOfGroup
  <2>6. T[b] = [staged |-> FALSE, items |-> ItemsOfGroup(order, ks, g, zero)]
    BY <1>1, <1>5, <1>6, <2>1, <2>5 DEF PlainTransfers
  <2>7. AreItemsOf(ItemsOfGroup(order, ks, g, zero), order, ks, g, zero)
    <3>1. ASSUME NEW j \in DOMAIN g PROVE zero[j] \in Nat /\ ks[g[j]].parts = 0
      <4>1. PICK p \in P : p = g[j]
        BY <2>2, <2>3
      <4>2. zero[j] = 0
        BY <2>2, <2>3
      <4>3. ks[p].parts = 0
        OBVIOUS
      <4>4. ks[g[j]] = ks[p]
        BY <4>1
      <4> QED
        BY <4>2, <4>3, <4>4
    <3> QED
      BY <2>4, <3>1, ItemsOfGroupAre
  <2>8. PICK items \in Seq(Items) : items = ItemsOfGroup(order, ks, g, zero)
    BY <2>7 DEF AreItemsOf
  <2>9. T[b] \in AllTransfers /\ T[b].staged = FALSE /\ T[b].items = items
    BY <2>6, <2>8 DEF AllTransfers
  <2>10. \A j \in DOMAIN items : IsItem(items[j], order, ks)
    BY <2>7, <2>8 DEF AreItemsOf
  <2>11. IsTransfer(T[b], order, ks)
    BY <2>9, <2>10 DEF IsTransfer
  <2> QED
    BY <2>1, <2>4, <2>6, <2>7, <2>8, <2>9, <2>11
<1>9. T = [b \in 1..m |-> T[b]]
  BY <1>1, <1>5, <1>6 DEF PlainTransfers
<1>10. T \in [1..m -> AllTransfers]
  BY <1>8, <1>9
<1>11. T \in Seq(AllTransfers) /\ DOMAIN T = 1..m
  BY <1>10, SequenceOfLength
<1>12. AreTransfers(T, order, ks)
  BY <1>8, <1>11 DEF AreTransfers, Range
<1>13. ASSUME NEW p \in P, NEW part \in PartsOf(ks[p])
       PROVE  \E t \in Range(T) : HasPart(t, p, part)
  <2>1. part = 0
    BY DEF PartsOf
  <2>2. p \in Range(ps)
    BY <1>3
  <2>3. PICK b \in 1..m : p \in Range(bs[b])
    BY <1>4, <1>5, <2>2 DEF AreBatches
  <2>4. PICK j \in DOMAIN bs[b] : bs[b][j] = p
    BY <2>3 DEF Range
  <2>5. j \in DOMAIN T[b].items /\ IsOf(T[b].items[j], p, 0)
    BY <1>8, <2>4 DEF AreItemsOf
  <2>6. T[b] \in Range(T)
    BY <1>11 DEF Range
  <2> QED
    BY <2>1, <2>5, <2>6 DEF HasPart
<1> QED
  BY <1>6, <1>12, <1>13 DEF Covers

LEMMA EndsWithin ==
  ASSUME NEW s \in Seq(Nat), NEW f, AreEnds(f, s), NEW j \in 1..Len(s)
  PROVE  f[j - 1] \in Nat /\ s[j] \in Nat /\ f[j - 1] + s[j] <= f[Len(s)] /\ f[Len(s)] \in Nat
<1>1. PICK n \in Nat : n = Len(s)
  OBVIOUS
<1>2. j - 1 \in 0..n /\ j \in 0..n /\ n \in 0..n /\ j <= n
  BY <1>1
<1>3. f[j] <= f[n]
  BY <1>1, <1>2, EndsRise
<1>4. f \in [0..n -> Nat] /\ f[j] = f[j - 1] + Aligned(s[j])
  BY <1>1 DEF AreEnds
<1>5. s[j] \in Nat
  OBVIOUS
<1>6. Aligned(s[j]) \in Nat /\ s[j] <= Aligned(s[j])
  BY <1>5, AlignedIs
<1>7. f[j] \in Nat /\ f[n] \in Nat /\ f[j - 1] \in Nat
  BY <1>2, <1>4
<1>8. PICK a, b, m, x, p \in Nat : a = f[j - 1] /\ b = f[j] /\ m = f[n] /\ x = s[j] /\ p = Aligned(s[j])
  BY <1>5, <1>6, <1>7
<1>9. b = a + p /\ x <= p /\ b <= m
  BY <1>3, <1>4, <1>6, <1>8
<1>10. a + x <= m
  BY <1>9
<1> QED
  BY <1>1, <1>8, <1>10

(* The tensors of a GDR worker: the large ones, and only they, have parts. *)
AreTensors(P, ks, n) ==
  /\ P \in SUBSET (1..n)
  /\ \A p \in P : ks[p].size # 0 /\ (ks[p].parts > 0 <=> ks[p].size > BufferSize)

SizesIn(order, ks) == [q \in DOMAIN order |-> ks[q].size]

LEMMA SizesInAre ==
  ASSUME NEW n \in Nat, NEW order \in [1..n -> Cells], NEW ks \in [1..n -> Layouts],
         NEW P \in SUBSET (1..n)
  PROVE  IsSizing(SizesIn(order, ks), P) /\ \A q \in 1..n : SizesIn(order, ks)[q] = ks[q].size
<1>1. PICK s : s = SizesIn(order, ks)
  OBVIOUS
<1>2. ASSUME NEW q \in 1..n PROVE ks[q].size \in Nat
  <2>1. PICK k \in Layouts : k = ks[q]
    OBVIOUS
  <2>2. k.size \in Nat
    BY DEF Layouts
  <2> QED
    BY <2>1, <2>2
<1>3. s = [q \in 1..n |-> ks[q].size]
  BY <1>1 DEF SizesIn
<1>4. s \in [1..n -> Nat]
  BY <1>2, <1>3
<1>5. IsSizing(s, P)
  BY <1>4 DEF IsSizing
<1> QED
  BY <1>1, <1>3, <1>5

(* What becomes of a group.                                                *)
AreOfGroup(T, order, ks, g) == AreTransfers(T, order, ks) /\ Covers(T, ks, Range(g))

LEMMA ChunksAre ==
  ASSUME NEW n \in Nat, NEW order \in [1..n -> Cells], NEW ks \in [1..n -> Layouts],
         NEW p \in 1..n, ks[p].parts > 0, NEW g, Range(g) = {p}, g[1] = p
  PROVE  AreOfGroup(Staged(order, ks, g), order, ks, g)
<1>1. PICK m \in Nat \ {0} : m = ks[p].parts
  <2>1. PICK k \in Layouts : k = ks[p]
    OBVIOUS
  <2>2. k.parts \in Nat
    BY DEF Layouts
  <2>3. PICK x \in Nat : x = ks[p].parts
    BY <2>1, <2>2
  <2> QED
    BY <2>3
<1>2. PICK where : where = ks[p].where
  OBVIOUS
<1>3. PICK T : T = [x \in 1..m |-> [staged |-> TRUE, items |-> << Item(order, p, where, x, 0) >>]]
  OBVIOUS
<1>4. Staged(order, ks, g) = T
  BY <1>1, <1>2, <1>3 DEF Staged
<1>5. PartsOf(ks[p]) = 1..m
  BY <1>1 DEF PartsOf
<1>6. ASSUME NEW x \in 1..m
      PROVE  /\ T[x] \in AllTransfers /\ IsTransfer(T[x], order, ks)
             /\ HasPart(T[x], p, x)
  <2>1. PICK i : i = Item(order, p, where, x, 0)
    OBVIOUS
  <2>2. IsItem(i, order, ks) /\ IsOf(i, p, x) /\ i.off = 0
    <3>1. x \in PartsOf(ks[p])
      BY <1>5
    <3> QED
      BY <1>2, <2>1, <3>1, ItemIs
  <2>3. i \in Items
    BY <2>2 DEF IsItem
  <2>4. PICK items : items = <<i>>
    OBVIOUS
  <2>5. items \in Seq(Items) /\ DOMAIN items = {1} /\ items[1] = i
    BY <2>3, <2>4
  <2>6. T[x] \in AllTransfers /\ T[x].staged = TRUE /\ T[x].items = items
    BY <1>3, <2>1, <2>4, <2>5 DEF AllTransfers
  <2>7. Bytes(i, ks) = BufferSize /\ BufferSize \in Nat \ {0}
    BY <2>2, KVBackendAssumption DEF Bytes, IsOf
  <2>8. ItemsFit(items, ks)
    BY <2>2, <2>5, <2>7 DEF ItemsFit
  <2>9. IsTransfer(T[x], order, ks)
    BY <2>2, <2>5, <2>6, <2>8 DEF IsTransfer
  <2>10. HasPart(T[x], p, x)
    BY <2>2, <2>5, <2>6 DEF HasPart
  <2> QED
    BY <2>6, <2>9, <2>10
<1>7. T \in [1..m -> AllTransfers]
  BY <1>3, <1>6
<1>8. T \in Seq(AllTransfers) /\ DOMAIN T = 1..m
  BY <1>7, SequenceOfLength
<1>9. AreTransfers(T, order, ks)
  BY <1>6, <1>8 DEF AreTransfers, Range
<1>10. ASSUME NEW x \in PartsOf(ks[p]) PROVE \E t \in Range(T) : HasPart(t, p, x)
  <2>1. x \in 1..m
    BY <1>5
  <2> QED
    BY <1>6, <1>8, <2>1 DEF Range
<1>11. Covers(T, ks, Range(g))
  BY <1>10 DEF Covers
<1> QED
  BY <1>4, <1>9, <1>11 DEF AreOfGroup

LEMMA StagedAre ==
  ASSUME NEW n \in Nat, NEW order \in [1..n -> Cells], NEW ks \in [1..n -> Layouts],
         NEW P, AreTensors(P, ks, n), NEW g, IsGroup(g, SizesIn(order, ks), P)
  PROVE  AreOfGroup(Staged(order, ks, g), order, ks, g)
<1>1. PICK s : s = SizesIn(order, ks)
  OBVIOUS
<1>2. /\ P \in SUBSET (1..n)
      /\ \A p \in P : ks[p].size # 0 /\ (ks[p].parts > 0 <=> ks[p].size > BufferSize)
  BY DEF AreTensors
<1>3. IsSizing(s, P) /\ \A q \in 1..n : s[q] = ks[q].size
  BY <1>1, <1>2, SizesInAre
<1>4. PICK l \in Nat \ {0} : l = Len(g) /\ DOMAIN g = 1..l /\ g \in Seq(P)
  BY DEF IsGroup
<1>5. ASSUME NEW j \in 1..l
      PROVE  /\ g[j] \in P /\ g[j] \in 1..n /\ ks[g[j]].size \in Nat \ {0} /\ ks[g[j]].parts \in Nat
             /\ s[g[j]] = ks[g[j]].size
             /\ (ks[g[j]].parts > 0 <=> ks[g[j]].size > BufferSize)
  <2>1. PICK p \in P : p = g[j]
    BY <1>4
  <2>2. p \in 1..n
    BY <1>2, <2>1
  <2>3. PICK k \in Layouts : k = ks[p]
    BY <2>2
  <2>4. k.size \in Nat /\ k.parts \in Nat
    BY DEF Layouts
  <2>5. ks[p].size \in Nat \ {0} /\ ks[p].parts \in Nat
    BY <1>2, <2>1, <2>3, <2>4
  <2>6. s[p] = ks[p].size
    BY <1>3, <2>2
  <2>7. ks[p].parts > 0 <=> ks[p].size > BufferSize
    BY <1>2, <2>1
  <2> QED
    BY <2>1, <2>2, <2>5, <2>6, <2>7
<1>6. PICK B \in Nat \ {0} : B = BufferSize
  BY KVBackendAssumption
<1>7. 1 \in 1..l
  BY <1>4
<1>8. CASE ks[g[1]].parts > 0
  <2>1. PICK p \in 1..n : p = g[1]
    BY <1>5, <1>7
  <2>2. ~ FitTogether(g, s)
    <3>1. 1 \in 1..Len(g)
      BY <1>4, <1>7
    <3>2. ~ s[g[1]] <= BufferSize
      BY <1>5, <1>6, <1>7, <1>8
    <3> QED
      BY <3>1, <3>2 DEF FitTogether
  <2>3. l = 1
    BY <1>1, <1>4, <2>2 DEF IsGroup, IsAlone
  <2>4. Range(g) = {p}
    BY <1>4, <2>1, <2>3 DEF Range
  <2>5. ks[p].parts > 0
    BY <1>8, <2>1
  <2> QED
    BY <2>1, <2>4, <2>5, ChunksAre
<1>9. CASE ~ ks[g[1]].parts > 0
  <2>1. PICK t : t = SizesOf(s, g)
    OBVIOUS
  <2>2. t \in Seq(Nat) /\ Len(t) = l /\ \A i \in 1..l : t[i] = s[g[i]]
    <3>1. AreSizes(t, s, g)
      BY <1>3, <1>4, <2>1, SizesAre
    <3> QED
      BY <1>4, <3>1 DEF AreSizes
  <2>3. PICK ends : ends = Ends(t) /\ AreEnds(ends, t)
    BY <2>2, EndsAre
  <2>4. PICK f : f = [j \in Nat |-> ends[j - 1]]
    OBVIOUS
  <2>5. ASSUME NEW j \in 1..l PROVE f[j] = ends[j - 1] /\ f[j] \in Nat
    <3>1. ends[j - 1] \in Nat
      BY <2>2, <2>3, EndsWithin
    <3> QED
      BY <2>4, <3>1
  <2>6. \A j \in 1..l : ks[g[j]].size <= B
    <3>1. CASE IsAlone(g)
      <4>1. l = 1
        BY <1>4, <3>1 DEF IsAlone
      <4>2. ks[g[1]].size <= B
        BY <1>5, <1>6, <1>7, <1>9
      <4> QED
        BY <4>1, <4>2
    <3>2. CASE FitTogether(g, s)
      BY <1>4, <1>5, <1>6, <3>2 DEF FitTogether
    <3> QED
      BY <1>1, <3>1, <3>2 DEF IsGroup
  <2>7. ASSUME NEW j \in 1..l PROVE ks[g[j]].parts = 0
    <3>1. PICK x, y \in Nat : x = ks[g[j]].size /\ y = ks[g[j]].parts
      BY <1>5
    <3>2. ~ y > 0
      BY <1>5, <1>6, <2>6, <3>1
    <3> QED
      BY <3>1, <3>2
  <2>8. g \in Seq(1..n)
    <3>1. g \in [1..l -> P]
      BY <1>4, LenProperties
    <3>2. g \in [1..l -> 1..n]
      BY <1>5, <3>1
    <3> QED
      BY <3>2, SeqDef
  <2>9. PICK items : items = ItemsOfGroup(order, ks, g, f)
    OBVIOUS
  <2>10. AreItemsOf(items, order, ks, g, f)
    <3>1. \A j \in DOMAIN g : f[j] \in Nat /\ ks[g[j]].parts = 0
      BY <1>4, <2>5, <2>7
    <3> QED
      BY <2>8, <2>9, <3>1, ItemsOfGroupAre
  <2>11. items = [j \in DOMAIN g |-> Item(order, g[j], ks[g[j]].where, 0, ends[j - 1])]
    BY <1>4, <2>5, <2>9 DEF ItemsOfGroup
  <2>12. Staged(order, ks, g) = << [staged |-> TRUE, items |-> items] >>
    BY <1>1, <1>9, <2>1, <2>3, <2>11 DEF Staged, SizesIn
  <2>13. items \in Seq(Items) /\ DOMAIN items = 1..l
    BY <1>4, <2>10 DEF AreItemsOf
  <2>14. ASSUME NEW j \in 1..l
         PROVE  /\ IsItem(items[j], order, ks) /\ IsOf(items[j], g[j], 0) /\ items[j].off = ends[j - 1]
                /\ Bytes(items[j], ks) = t[j]
    <3>1. IsItem(items[j], order, ks) /\ IsOf(items[j], g[j], 0) /\ items[j].off = f[j]
      BY <1>4, <2>10 DEF AreItemsOf
    <3>2. Bytes(items[j], ks) = ks[g[j]].size
      BY <3>1 DEF IsOf, Bytes
    <3> QED
      BY <1>5, <2>2, <2>5, <3>1, <3>2
  <2>15. ASSUME NEW a \in 1..l
         PROVE  Bytes(items[a], ks) \in Nat \ {0} /\ items[a].off + Bytes(items[a], ks) <= BufferSize
    <3>1. PICK x \in Nat \ {0} : x = t[a]
      BY <1>5, <2>2
    <3>2. PICK y, z \in Nat : y = ends[a - 1] /\ z = ends[l] /\ y + x <= z
      BY <2>2, <2>3, <3>1, EndsWithin
    <3>9. items[a].off = y /\ Bytes(items[a], ks) = x
      BY <2>14, <3>1, <3>2
    <3>3. CASE FitTogether(g, s)
      <4>1. z <= B
        BY <1>4, <1>6, <2>1, <2>3, <3>2, <3>3 DEF FitTogether
      <4> QED
        BY <1>6, <3>2, <3>9, <4>1
    <3>4. CASE IsAlone(g)
      <4>1. l = 1
        BY <1>4, <3>4 DEF IsAlone
      <4>2. ends[0] = 0
        BY <2>3 DEF AreEnds
      <4>3. a = 1 /\ a - 1 = 0
        BY <4>1
      <4>4. y = 0
        BY <3>2, <4>2, <4>3
      <4>5. x <= B
        BY <1>5, <2>2, <2>6, <3>1
      <4> QED
        BY <1>6, <3>9, <4>4, <4>5
    <3> QED
      BY <1>1, <3>3, <3>4 DEF IsGroup
  <2>16. ASSUME NEW a \in 1..l, NEW b \in 1..l, a < b
         PROVE  items[a].off + Bytes(items[a], ks) <= items[b].off
    <3>1. ends[a - 1] + t[a] <= ends[b - 1]
      BY <2>2, <2>3, <2>16, EndsApart
    <3> QED
      BY <2>14, <3>1
  <2>17. ItemsFit(items, ks)
    BY <2>13, <2>15, <2>16 DEF ItemsFit
  <2>18. PICK x : x = [staged |-> TRUE, items |-> items]
    OBVIOUS
  <2>19. x \in AllTransfers /\ x.items = items
    BY <2>13, <2>18 DEF AllTransfers
  <2>20. IsTransfer(x, order, ks)
    BY <2>13, <2>14, <2>17, <2>19 DEF IsTransfer
  <2>21. PICK T : T = <<x>>
    OBVIOUS
  <2>22. T \in Seq(AllTransfers) /\ Range(T) = {x}
    BY <2>19, <2>21 DEF Range
  <2>23. AreTransfers(T, order, ks)
    BY <2>20, <2>22 DEF AreTransfers
  <2>24. ASSUME NEW p \in Range(g), NEW part \in PartsOf(ks[p])
         PROVE  \E y \in Range(T) : HasPart(y, p, part)
    <3>1. PICK j \in 1..l : p = g[j]
      BY <1>4 DEF Range
    <3>2. part = 0
      BY <2>7, <3>1 DEF PartsOf
    <3>3. HasPart(x, p, part)
      BY <2>13, <2>14, <2>19, <3>1, <3>2 DEF HasPart
    <3> QED
      BY <2>22, <3>3
  <2>25. Covers(T, ks, Range(g))
    BY <2>24 DEF Covers
  <2> QED
    BY <2>12, <2>18, <2>21, <2>23, <2>25 DEF AreOfGroup
<1> QED
  BY <1>8, <1>9

LEMMA StagedTransfersAre ==
  ASSUME NEW n \in Nat, NEW order \in [1..n -> Cells], NEW ks \in [1..n -> Layouts],
         NEW P, AreTensors(P, ks, n)
  PROVE  /\ AreTransfers(StagedTransfers(order, ks, P), order, ks)
         /\ Covers(StagedTransfers(order, ks, P), ks, P)
<1>1. PICK s : s = SizesIn(order, ks)
  OBVIOUS
<1>2. IsSizing(s, P)
  <2>1. P \in SUBSET (1..n)
    BY DEF AreTensors
  <2> QED
    BY <1>1, <2>1, SizesInAre
<1>3. PICK gs : gs = SplitByBytes(s, P) /\ AreSplit(gs, s, P)
  BY <1>2, SplitsAre
<1>4. AreGroups(gs, s, P)
  BY <1>3 DEF AreSplit
<1>5. PICK m \in Nat : m = Len(gs) /\ DOMAIN gs = 1..m
  BY <1>4 DEF AreGroups
<1>6. PICK q : q = [x \in 1..m |-> Staged(order, ks, gs[x])]
  OBVIOUS
<1>7. ASSUME NEW x \in 1..m
      PROVE  AreOfGroup(q[x], order, ks, gs[x])
  <2>1. IsGroup(gs[x], s, P)
    BY <1>4, <1>5 DEF AreGroups
  <2>2. AreOfGroup(Staged(order, ks, gs[x]), order, ks, gs[x])
    BY <1>1, <2>1, StagedAre
  <2> QED
    BY <1>6, <2>2
<1>8. \A x \in 1..m : q[x] \in Seq(AllTransfers)
  BY <1>7 DEF AreOfGroup, AreTransfers
<1>9. q \in [1..m -> Seq(AllTransfers)]
  BY <1>6, <1>8
<1>10. q \in Seq(Seq(AllTransfers)) /\ Len(q) = m
  BY <1>9, SequenceOfLength
<1>11. PICK T : T = FlattenSeq(q)
  OBVIOUS
<1>12. ElementsTo(T, q, m, AllTransfers)
  BY <1>10, <1>11, FlattenElements
<1>13. T \in Seq(AllTransfers) /\ \A t : t \in Range(T) <=> \E x \in 1..m : t \in Range(q[x])
  BY <1>12 DEF ElementsTo
<1>14. StagedTransfers(order, ks, P) = T
  BY <1>1, <1>3, <1>5, <1>6, <1>11 DEF StagedTransfers, SizesIn
<1>15. AreTransfers(T, order, ks)
  <2>1. ASSUME NEW t \in Range(T) PROVE IsTransfer(t, order, ks)
    <3>1. PICK x \in 1..m : t \in Range(q[x])
      BY <1>13
    <3>2. AreTransfers(q[x], order, ks)
      BY <1>7 DEF AreOfGroup
    <3> QED
      BY <3>1, <3>2 DEF AreTransfers
  <2> QED
    BY <1>13, <2>1 DEF AreTransfers
<1>16. ASSUME NEW p \in P, NEW part \in PartsOf(ks[p])
       PROVE  \E t \in Range(T) : HasPart(t, p, part)
  <2>1. PICK x \in 1..m : p \in Range(gs[x])
    BY <1>3, <1>5 DEF AreSplit
  <2>2. Covers(q[x], ks, Range(gs[x]))
    BY <1>7 DEF AreOfGroup
  <2>3. PICK t \in Range(q[x]) : HasPart(t, p, part)
    BY <2>1, <2>2 DEF Covers
  <2> QED
    BY <1>13, <2>3
<1>17. Covers(T, ks, P)
  BY <1>16 DEF Covers
<1> QED
  BY <1>14, <1>15, <1>17

LEMMA TransfersOfBoth ==
  ASSUME NEW order, NEW ks, NEW S, NEW T, NEW P, NEW Q,
         AreTransfers(S, order, ks), AreTransfers(T, order, ks), Covers(S, ks, P), Covers(T, ks, Q)
  PROVE  AreTransfers(S \o T, order, ks) /\ Covers(S \o T, ks, P \cup Q)
<1>1. S \in Seq(AllTransfers) /\ T \in Seq(AllTransfers)
  BY DEF AreTransfers
<1>2. PICK U : U = S \o T
  OBVIOUS
<1>3. U \in Seq(AllTransfers) /\ Range(U) = Range(S) \cup Range(T)
  BY <1>1, <1>2, RangeOfConcat
<1>4. AreTransfers(U, order, ks)
  BY <1>3 DEF AreTransfers
<1>5. Covers(U, ks, P \cup Q)
  BY <1>3 DEF Covers
<1> QED
  BY <1>2, <1>4, <1>5

(* The metadata with which w can find a value, or store it.                *)
Suits(w, k) ==
  IF IsYuan THEN k.parts = 0 ELSE k.parts > 0 <=> Fast(w) /\ k.size > BufferSize

LEMMA TransfersAre ==
  ASSUME NEW w, NEW n \in Nat, NEW order \in [1..n -> Cells], NEW ks \in [1..n -> Layouts],
         \A p \in 1..n : Suits(w, ks[p])
  PROVE  AreTransfers(Transfers(w, order, ks), order, ks) /\ Covers(Transfers(w, order, ks), ks, 1..n)
<1>1. DOMAIN order = 1..n
  OBVIOUS
<1>2. ASSUME NEW p \in 1..n PROVE ks[p].size \in Nat /\ ks[p].parts \in Nat
  <2>1. PICK k \in Layouts : k = ks[p]
    OBVIOUS
  <2>2. k.size \in Nat /\ k.parts \in Nat
    BY DEF Layouts
  <2> QED
    BY <2>1, <2>2
<1>3. PICK B \in Nat \ {0} : B = BufferSize
  BY KVBackendAssumption
<1>4. CASE IsYuan
  <2>1. PICK npu : npu = {p \in 1..n : ks[p].where = "npu"}
    OBVIOUS
  <2>2. PICK rest : rest = (1..n) \ npu
    OBVIOUS
  <2>3. \A p \in 1..n : ks[p].parts = 0
    BY <1>4 DEF Suits
  <2>4. npu \in SUBSET (1..n) /\ rest \in SUBSET (1..n) /\ npu \cup rest = 1..n
    BY <2>1, <2>2
  <2>5. PICK S : /\ S = PlainTransfers(order, ks, npu)
                 /\ AreTransfers(S, order, ks) /\ Covers(S, ks, npu)
    <3>1. \A p \in npu : ks[p].parts = 0
      BY <2>3, <2>4
    <3> QED
      BY <2>4, <3>1, PlainTransfersAre
  <2>6. PICK T : /\ T = PlainTransfers(order, ks, rest)
                 /\ AreTransfers(T, order, ks) /\ Covers(T, ks, rest)
    <3>1. \A p \in rest : ks[p].parts = 0
      BY <2>3, <2>4
    <3> QED
      BY <2>4, <3>1, PlainTransfersAre
  <2>7. Transfers(w, order, ks) = S \o T
    BY <1>1, <1>4, <2>1, <2>2, <2>5, <2>6 DEF Transfers
  <2>8. PICK U : U = S \o T
    OBVIOUS
  <2>9. AreTransfers(U, order, ks) /\ Covers(U, ks, npu \cup rest)
    BY <2>5, <2>6, <2>8, TransfersOfBoth
  <2>10. Covers(U, ks, 1..n)
    BY <2>4, <2>9
  <2> QED
    BY <2>7, <2>8, <2>9, <2>10
<1>5. CASE ~ IsYuan
  <2>1. PICK tensors : tensors = {p \in 1..n : ks[p].size # 0}
    OBVIOUS
  <2>2. PICK rest : rest = (1..n) \ tensors
    OBVIOUS
  <2>3. \A p \in 1..n : ks[p].parts > 0 <=> Fast(w) /\ ks[p].size > BufferSize
    BY <1>5 DEF Suits
  <2>4. tensors \in SUBSET (1..n) /\ rest \in SUBSET (1..n) /\ tensors \cup rest = 1..n
    BY <2>1, <2>2
  <2>5. ASSUME NEW p \in 1..n, ~ (Fast(w) /\ p \in tensors) PROVE ks[p].parts = 0
    <3>1. PICK x, y \in Nat : x = ks[p].size /\ y = ks[p].parts
      BY <1>2
    <3>2. ~ (Fast(w) /\ x > B)
      BY <1>3, <2>1, <2>5, <3>1
    <3>3. ~ y > 0
      BY <1>3, <2>3, <3>1, <3>2
    <3> QED
      BY <3>1, <3>3
  <2>6. PICK T : /\ T = PlainTransfers(order, ks, rest)
                 /\ AreTransfers(T, order, ks) /\ Covers(T, ks, rest)
    <3>1. \A p \in rest : ks[p].parts = 0
      BY <2>2, <2>5
    <3> QED
      BY <2>4, <3>1, PlainTransfersAre
  <2>7. PICK S : /\ S = IF Fast(w) THEN StagedTransfers(order, ks, tensors) ELSE PlainTransfers(order, ks, tensors)
                 /\ AreTransfers(S, order, ks) /\ Covers(S, ks, tensors)
    <3>1. CASE Fast(w)
      <4>1. AreTensors(tensors, ks, n)
        BY <2>1, <2>3, <3>1 DEF AreTensors
      <4> QED
        BY <3>1, <4>1, StagedTransfersAre
    <3>2. CASE ~ Fast(w)
      <4>1. \A p \in tensors : ks[p].parts = 0
        BY <2>4, <2>5, <3>2
      <4> QED
        BY <2>4, <3>2, <4>1, PlainTransfersAre
    <3> QED
      BY <3>1, <3>2
  <2>8. Transfers(w, order, ks) = S \o T
    BY <1>1, <1>5, <2>1, <2>2, <2>6, <2>7 DEF Transfers
  <2>9. PICK U : U = S \o T
    OBVIOUS
  <2>10. AreTransfers(U, order, ks) /\ Covers(U, ks, tensors \cup rest)
    BY <2>6, <2>7, <2>9, TransfersOfBoth
  <2>11. Covers(U, ks, 1..n)
    BY <2>4, <2>10
  <2> QED
    BY <2>8, <2>9, <2>10, <2>11
<1> QED
  BY <1>4, <1>5

(* A layout that some worker of deployment d gives a value.                *)
IsLayout(d, k) ==
  /\ k \in Layouts
  /\ d.client = "yuanrong" => k.parts = 0
  /\ d.client # "yuanrong" /\ k.parts > 0 => k.size > BufferSize
  /\ d.client # "yuanrong" /\ d.fast = {} => k.parts = 0

LEMMA ChunksAreMany ==
  ASSUME NEW s \in Nat
  PROVE  Chunks(s) \in Nat /\ (Chunks(s) > 0 <=> s > BufferSize)
<1>1. PICK B \in Nat \ {0} : B = BufferSize
  BY KVBackendAssumption
<1>2. PICK m \in Nat : m = s + B - 1
  OBVIOUS
<1>3. PICK q \in Nat : q = m \div B
  BY Quotient
<1>4. s > B => q # 0
  <2>1. ASSUME s > B PROVE B <= m
    BY <1>2, <2>1
  <2>2. B <= m => m \div B \in Nat \ {0}
    BY QuotientAtLeast
  <2> QED
    BY <1>3, <2>1, <2>2
<1>5. Chunks(s) = IF s <= B THEN 0 ELSE q
  BY <1>1, <1>2, <1>3 DEF Chunks
<1> QED
  BY <1>1, <1>4, <1>5

LEMMA LayoutFits ==
  ASSUME NEW w, NEW s \in Nat
  PROVE  IsLayout(deployment, Layout(w, s)) /\ Suits(w, Layout(w, s))
<1>1. PICK x \in Nat : x = Chunks(s) /\ (x > 0 <=> s > BufferSize)
  BY ChunksAreMany
<1>2. PICK B \in Nat \ {0} : B = BufferSize
  BY KVBackendAssumption
<1>3. PICK k : k = Layout(w, s)
  OBVIOUS
<1>4. CASE IsYuan
  <2>1. PICK place \in Places : k = [size |-> s, where |-> place, parts |-> 0]
    <3>1. PICK place : place = IF Fast(w) /\ s # 0 THEN "npu" ELSE "general"
      OBVIOUS
    <3>2. place \in Places
      BY <3>1 DEF Places
    <3> QED
      BY <1>3, <1>4, <3>1, <3>2 DEF Layout
  <2>2. k \in Layouts /\ k.parts = 0
    BY <2>1 DEF Layouts
  <2> QED
    BY <1>3, <1>4, <2>2 DEF IsLayout, Suits, IsYuan
<1>5. CASE ~ IsYuan
  <2>1. PICK y \in Nat : y = (IF Fast(w) /\ s # 0 THEN x ELSE 0)
    OBVIOUS
  <2>2. k = [size |-> s, where |-> "store", parts |-> y]
    BY <1>1, <1>3, <1>5, <2>1 DEF Layout
  <2>3. k \in Layouts /\ k.parts = y /\ k.size = s
    BY <2>2 DEF Layouts, Places
  <2>4. y > 0 <=> Fast(w) /\ s > B
    BY <1>1, <1>2, <2>1
  <2>5. deployment.fast = {} => y = 0
    BY <2>1 DEF Fast
  <2> QED
    BY <1>2, <1>3, <1>5, <2>3, <2>4, <2>5 DEF IsLayout, Suits, IsYuan
<1> QED
  BY <1>4, <1>5

LEMMA SeenFits ==
  ASSUME NEW w, NEW k, IsLayout(deployment, k), ~ Refuses(w, k)
  PROVE  Seen(w, k) \in Layouts /\ Suits(w, Seen(w, k))
<1>1. k \in Layouts /\ k.size \in Nat /\ k.parts \in Nat /\ k.where \in Places
  BY DEF IsLayout, Layouts
<1>2. PICK B \in Nat \ {0} : B = BufferSize
  BY KVBackendAssumption
<1>3. CASE IsYuan
  <2>1. Seen(w, k) = k /\ k.parts = 0
    BY <1>3 DEF Seen, IsLayout, IsYuan
  <2> QED
    BY <1>1, <1>3, <2>1 DEF Suits
<1>4. CASE ~ IsYuan /\ Fast(w)
  <2>1. Seen(w, k) = k
    BY <1>4 DEF Seen
  <2>2. k.parts > 0 <=> k.size > B
    <3>1. ~ (k.size > B /\ k.parts = 0)
      BY <1>2, <1>4 DEF Refuses
    <3>2. k.parts > 0 => k.size > B
      BY <1>2, <1>4 DEF IsLayout, IsYuan
    <3> QED
      BY <1>1, <3>1, <3>2
  <2> QED
    BY <1>1, <1>2, <1>4, <2>1, <2>2 DEF Suits
<1>5. CASE ~ IsYuan /\ ~ Fast(w)
  <2>1. PICK s : s = [k EXCEPT !.parts = 0]
    OBVIOUS
  <2>2. s \in Layouts /\ s.parts = 0
    BY <1>1, <2>1 DEF Layouts
  <2>3. Seen(w, k) = s
    BY <1>5, <2>1 DEF Seen
  <2> QED
    BY <1>5, <2>2, <2>3 DEF Suits
<1> QED
  BY <1>3, <1>4, <1>5

-----------------------------------------------------------------------------
(* The cells of a call in order, and the place of each.                    *)
Count(fs, rows) == Cardinality(fs) * Len(rows)

IsAsk(fs, rows) == fs \in SUBSET Fields /\ IsFiniteSet(fs) /\ rows \in Seq(Indexes)

OrderIs(order, fs, rows) ==
  /\ Count(fs, rows) \in Nat
  /\ order \in [1..Count(fs, rows) -> Cells]
  /\ \A p \in DOMAIN order : order[p] \in fs \X Range(rows)
  /\ \A f \in fs, k \in DOMAIN rows :
       ValueOf(fs, rows, f, k) \in DOMAIN order /\ order[ValueOf(fs, rows, f, k)] = <<f, rows[k]>>

LEMMA PlaceOf ==
  ASSUME NEW fs \in SUBSET Nat, IsFiniteSet(fs), NEW f \in fs
  PROVE  LET b == Cardinality({g \in fs : g < f})
         IN  b \in Nat /\ b + 1 \in 1..Cardinality(fs) /\ Ascending(fs)[b + 1] = f
<1>1. PICK asc : asc = Ascending(fs)
  OBVIOUS
<1>2. PICK n \in Nat : n = Cardinality(fs)
  BY FS_CardinalityType
<1>3. /\ asc \in Seq(fs) /\ Len(asc) = n /\ DOMAIN asc = 1..n
      /\ \A x \in fs : \E k \in 1..n : asc[k] = x
      /\ \A j, k \in 1..n : j < k => asc[j] < asc[k]
  BY <1>1, <1>2, AscendingFacts
<1>4. PICK k \in 1..n : asc[k] = f
  BY <1>3
<1>5. PICK b \in Nat : b = k - 1
  OBVIOUS
<1>6. \A j \in 1..n : asc[j] \in fs /\ asc[j] \in Nat
  <2>1. ASSUME NEW j \in 1..n PROVE asc[j] \in fs
    BY <1>3
  <2>2. \A x \in fs : x \in Nat
    OBVIOUS
  <2> QED
    BY <2>1, <2>2
<1>7. PICK h : h = [j \in 1..b |-> asc[j]]
  OBVIOUS
<1>8. \A i, j \in 1..b : h[i] = h[j] => i = j
  <2>1. SUFFICES ASSUME NEW i \in 1..b, NEW j \in 1..b, h[i] = h[j], i # j PROVE FALSE
    OBVIOUS
  <2>2. i \in 1..n /\ j \in 1..n
    BY <1>5
  <2>3. asc[i] = asc[j] /\ asc[i] \in Nat
    BY <1>6, <1>7, <2>1, <2>2
  <2>4. i < j \/ j < i
    BY <2>1
  <2>5. asc[i] < asc[j] \/ asc[j] < asc[i]
    BY <1>3, <2>2, <2>4
  <2> QED
    BY <2>3, <2>5
<1>9. Cardinality(Range(h)) = b
  BY <1>7, <1>8, ImageOf
<1>10. Range(h) = {g \in fs : g < f}
  <2>1. ASSUME NEW x \in Range(h) PROVE x \in fs /\ x < f
    <3>1. PICK j \in 1..b : x = asc[j]
      BY <1>7 DEF Range
    <3>2. j \in 1..n /\ j < k
      BY <1>5
    <3> QED
      BY <1>3, <1>4, <1>6, <3>1, <3>2
  <2>2. ASSUME NEW g \in fs, g < f PROVE g \in Range(h)
    <3>1. PICK j \in 1..n : asc[j] = g
      BY <1>3
    <3>2. j < k
      <4>1. SUFFICES ASSUME k < j \/ k = j PROVE FALSE
        OBVIOUS
      <4>2. g \in Nat /\ f \in Nat
        OBVIOUS
      <4>3. f < g \/ f = g
        BY <1>3, <1>4, <3>1, <4>1
      <4> QED
        BY <2>2, <4>2, <4>3
    <3>3. j \in 1..b
      BY <1>5, <3>2
    <3> QED
      BY <1>7, <3>1, <3>3 DEF Range
  <2> QED
    BY <2>1, <2>2
<1>11. PICK T : T = {g \in fs : g < f}
  OBVIOUS
<1>12. Cardinality(T) = b
  BY <1>9, <1>10, <1>11
<1>13. b + 1 = k
  BY <1>5
<1> QED
  BY <1>1, <1>2, <1>4, <1>11, <1>12, <1>13

LEMMA KeyOrderIs ==
  ASSUME NEW fs, NEW rows, IsAsk(fs, rows)
  PROVE  OrderIs(KeyOrder(fs, rows), fs, rows)
<1>0. fs \in SUBSET Fields /\ IsFiniteSet(fs) /\ rows \in Seq(Indexes) /\ Fields \subseteq Nat
  BY KVBackendAssumption DEF IsAsk
<1>1. PICK n \in Nat : n = Cardinality(fs)
  BY <1>0, FS_CardinalityType
<1>2. PICK l \in Nat : l = Len(rows) /\ DOMAIN rows = 1..l /\ \A k \in 1..l : rows[k] \in Indexes
  BY <1>0
<1>3. PICK last \in Nat : last = n * l
  BY BlockPlaces
<1>4. PICK asc : asc = Ascending(fs)
  OBVIOUS
<1>5. \A k \in 1..n : asc[k] \in fs
  <2>1. fs \in SUBSET Nat
    BY <1>0
  <2>2. asc \in Seq(fs) /\ Len(asc) = n
    BY <1>0, <1>1, <1>4, <2>1, AscendingFacts
  <2> QED
    BY <2>2
<1>6. PICK order : order = KeyOrder(fs, rows)
  OBVIOUS
<1>7. order = [p \in 1..last |-> <<asc[((p - 1) \div l) + 1], rows[((p - 1) % l) + 1]>>]
  BY <1>1, <1>2, <1>3, <1>4, <1>6 DEF KeyOrder, CellAt
<1>8. ASSUME NEW p \in 1..last
      PROVE  order[p] \in fs \X Range(rows) /\ order[p] \in Cells
  <2>1. l # 0
    BY <1>3
  <2>2. PICK a \in Nat : p = a + 1
    <3>1. p - 1 \in Nat /\ p = (p - 1) + 1
      OBVIOUS
    <3> QED
      BY <3>1
  <2>3. PICK q \in Nat : q = a \div l
    BY <2>1, Quotient
  <2>4. PICK x \in Nat : x = q * l
    BY <2>1, <2>3, Quotient
  <2>5. x <= a /\ a < x + l /\ a % l = a - x
    BY <2>1, <2>3, <2>4, Quotient
  <2>6. q < n
    <3> SUFFICES ASSUME n <= q PROVE FALSE
      OBVIOUS
    <3>1. last <= x
      BY <1>3, <2>4, TimesMonotone
    <3> QED
      BY <2>2, <2>5, <3>1
  <2>7. PICK r \in 0..(l - 1) : r = a % l
    BY <2>5
  <2>8. PICK i \in 1..n, k \in 1..l : i = q + 1 /\ k = r + 1
    BY <2>6
  <2>9. order[p] = <<asc[i], rows[k]>>
    <3>1. p - 1 = a
      BY <2>2
    <3>2. ((p - 1) \div l) + 1 = i /\ ((p - 1) % l) + 1 = k
      BY <2>3, <2>7, <2>8, <3>1
    <3> QED
      BY <1>7, <3>2
  <2>10. asc[i] \in fs /\ rows[k] \in Range(rows) /\ rows[k] \in Indexes
    BY <1>2, <1>5 DEF Range
  <2>11. PICK x1 \in fs, y1 \in Range(rows) : x1 = asc[i] /\ y1 = rows[k] /\ y1 \in Indexes
    BY <2>10
  <2>12. x1 \in Fields
    BY <1>0
  <2>13. order[p] = <<x1, y1>>
    BY <2>9, <2>11
  <2> QED
    BY <2>11, <2>12, <2>13 DEF Cells
<1>9. order \in [1..last -> Cells] /\ DOMAIN order = 1..last
  BY <1>7, <1>8
<1>10. ASSUME NEW f \in fs, NEW k \in DOMAIN rows
       PROVE  ValueOf(fs, rows, f, k) \in DOMAIN order /\ order[ValueOf(fs, rows, f, k)] = <<f, rows[k]>>
  <2>1. PICK q \in Nat : /\ q = Cardinality({g \in fs : g < f})
                         /\ q + 1 \in 1..n /\ asc[q + 1] = f
    <3>1. fs \in SUBSET Nat
      BY <1>0
    <3> QED
      BY <1>0, <1>1, <1>4, <3>1, PlaceOf
  <2>2. k \in 1..l /\ l \in Nat \ {0}
    BY <1>2
  <2>3. PICK x \in Nat : x = q * l /\ (q + 1) * l = x + l
    BY BlockPlaces
  <2>4. PICK p \in Nat : p = x + k
    BY <2>2
  <2>5. ValueOf(fs, rows, f, k) = p
    BY <1>2, <2>1, <2>3, <2>4 DEF ValueOf
  <2>6. x + l <= last
    <3>1. q + 1 <= n
      BY <2>1
    <3>2. (q + 1) * l <= n * l
      BY <3>1, TimesMonotone
    <3> QED
      BY <1>3, <2>3, <3>2
  <2>7. p \in 1..last
    BY <2>2, <2>4, <2>6
  <2>8. PICK a \in Nat : a = p - 1
    BY <2>2, <2>4
  <2>9. a \div l = q
    <3>1. PICK y \in Nat : y = a \div l
      BY <2>2, Quotient
    <3>2. PICK z \in Nat : z = y * l
      BY <2>2, <3>1, Quotient
    <3>3. z <= a /\ a < z + l
      BY <2>2, <3>1, <3>2, Quotient
    <3>4. x <= a /\ a < x + l
      BY <2>2, <2>4, <2>8
    <3>5. ~ y < q
      <4> SUFFICES ASSUME y + 1 <= q PROVE FALSE
        OBVIOUS
      <4>1. (y + 1) * l = z + l
        BY <3>2, BlockPlaces
      <4>2. (y + 1) * l <= q * l
        BY TimesMonotone
      <4> QED
        BY <2>3, <3>3, <3>4, <4>1, <4>2
    <3>6. ~ q < y
      <4> SUFFICES ASSUME q + 1 <= y PROVE FALSE
        OBVIOUS
      <4>1. (q + 1) * l <= y * l
        BY TimesMonotone
      <4> QED
        BY <2>3, <3>2, <3>3, <3>4, <4>1
    <3> QED
      BY <3>1, <3>5, <3>6
  <2>10. a % l = k - 1
    <3>1. a % l = a - x
      BY <2>2, <2>3, <2>9, Quotient
    <3> QED
      BY <2>2, <2>4, <2>8, <3>1
  <2>11. ((p - 1) \div l) + 1 = q + 1 /\ ((p - 1) % l) + 1 = k
    BY <2>2, <2>8, <2>9, <2>10
  <2>12. order[p] = <<asc[q + 1], rows[k]>>
    BY <1>7, <2>7, <2>11
  <2> QED
    BY <1>9, <2>1, <2>5, <2>7, <2>12
<1>11. Count(fs, rows) = last
  BY <1>1, <1>2, <1>3 DEF Count
<1> QED
  BY <1>6, <1>8, <1>9, <1>10, <1>11 DEF OrderIs

-----------------------------------------------------------------------------
(* What a call is, and what a step makes of it.                            *)
IsRecord(call) ==
  call = [op |-> call.op, worker |-> call.worker, fs |-> call.fs, rows |-> call.rows, put |-> call.put,
          ks |-> call.ks, todo |-> call.todo, left |-> call.left, attempt |-> call.attempt,
          ready |-> call.ready, failed |-> call.failed, got |-> call.got]

SameAsk(new, call) ==
  /\ IsRecord(new) /\ new.op = call.op /\ new.worker = call.worker /\ new.fs = call.fs
  /\ new.rows = call.rows /\ new.put = call.put /\ new.ks = call.ks

OrderOf(call) == KeyOrder(call.fs, call.rows)

(* A put gives a cell one layout, that of its worker.                      *)
PutLayouts(d, call) ==
  \A p \in DOMAIN OrderOf(call) :
    /\ IsLayout(d, call.ks[p])
    /\ \A q \in DOMAIN OrderOf(call) : OrderOf(call)[p] = OrderOf(call)[q] => call.ks[p] = call.ks[q]

IsCall(d, call) ==
  /\ IsRecord(call)
  /\ call.op \in {"put", "get"} /\ call.worker \in Workers /\ IsAsk(call.fs, call.rows)
  /\ call.ks \in [1..Count(call.fs, call.rows) -> Layouts]
  /\ AreTransfers(call.todo, OrderOf(call), call.ks)
  /\ call.todo # <<>> => call.left \in Seq(DOMAIN call.todo[1].items)
  /\ call.op = "put" => PutLayouts(d, call)

IsLock(l) == l = [holder |-> l.holder, at |-> l.at]

BackendShape ==
  /\ deployment \in Deployments
  /\ known = [e \in Cells |-> known[e]] /\ \A e \in Cells : known[e] = None \/ IsLayout(deployment, known[e])
  /\ latest = [e \in Cells |-> latest[e]]
  /\ calls = [c \in Calls |-> calls[c]] /\ \A c \in Calls : calls[c] = NoCall \/ IsCall(deployment, calls[c])
  /\ staging = [w \in Workers |-> staging[w]] /\ \A w \in Workers : IsLock(staging[w])

FreshLeft(T) == IF T = <<>> THEN <<>> ELSE [j \in DOMAIN T[1].items |-> j]

(* Those of `left` at the places in bad.                                   *)
AreOf(a, left, bad, S) == a \in Seq(S) /\ \A x : x \in Range(a) <=> \E j \in bad : x = left[j]

LEMMA AgainIs ==
  ASSUME NEW S, NEW left \in Seq(S), NEW bad \in SUBSET DOMAIN left, NEW js, js = Ascending(bad)
  PROVE  AreOf([n \in DOMAIN js |-> left[js[n]]], left, bad, S)
<1>1. PICK l \in Nat : l = Len(left) /\ DOMAIN left = 1..l
  OBVIOUS
<1>2. IsFiniteSet(bad) /\ bad \in SUBSET Nat
  <2>1. IsFiniteSet(1..l)
    BY FS_Interval
  <2>2. bad \in SUBSET (1..l)
    BY <1>1
  <2>3. IsFiniteSet(bad)
    BY <2>1, <2>2, FS_Subset
  <2> QED
    BY <2>2, <2>3
<1>3. PICK m \in Nat : /\ js \in Seq(bad) /\ Len(js) = m /\ DOMAIN js = 1..m
                       /\ \A x \in bad : \E k \in 1..m : js[k] = x
  BY <1>2, AscendingFacts
<1>4. \A n \in 1..m : js[n] \in bad
  BY <1>3
<1>5. PICK a : a = [n \in DOMAIN js |-> left[js[n]]]
  OBVIOUS
<1>6. ASSUME NEW n \in 1..m PROVE a[n] = left[js[n]] /\ a[n] \in S
  <2>1. PICK j \in bad : j = js[n]
    BY <1>4
  <2>2. left[j] \in S
    BY <1>1
  <2> QED
    BY <1>3, <1>5, <2>1, <2>2
<1>7. a \in [1..m -> S]
  BY <1>3, <1>5, <1>6
<1>8. a \in Seq(S) /\ DOMAIN a = 1..m
  BY <1>7, SequenceOfLength
<1>9. ASSUME NEW x \in Range(a) PROVE \E j \in bad : x = left[j]
  <2>1. PICK n \in 1..m : x = a[n]
    BY <1>8 DEF Range
  <2> QED
    BY <1>4, <1>6, <2>1
<1>10. ASSUME NEW j \in bad PROVE left[j] \in Range(a)
  <2>1. PICK n \in 1..m : js[n] = j
    BY <1>3
  <2> QED
    BY <1>6, <1>8, <2>1 DEF Range
<1> QED
  BY <1>5, <1>8, <1>9, <1>10 DEF AreOf

(* The call goes on with the transfer after its first.                     *)
GoesOn(new, call) ==
  /\ SameAsk(new, call) /\ new.ready = FALSE
  /\ new.todo = Tail(call.todo) /\ new.left = FreshLeft(Tail(call.todo))

LockAfter(call, lock, at) ==
  IF ~ call.todo[1].staged THEN lock
  ELSE IF Tail(call.todo) = <<>> \/ ~ Tail(call.todo)[1].staged THEN NoLock
  ELSE [holder |-> lock.holder, at |-> at]

Relocks(w, lock) == staging' = [staging EXCEPT ![w] = lock]
Becomes(c, new)  == calls' = [calls EXCEPT ![c] = new]

LEMMA AdvanceIs ==
  ASSUME BackendShape, NEW c \in Calls, NEW call, NEW at, IsRecord(call), call.worker \in Workers,
         call.todo \in Seq(AllTransfers), call.todo # <<>>, Advance(c, call, at)
  PROVE  \E new : /\ Becomes(c, new) /\ GoesOn(new, call)
                  /\ new.failed = call.failed /\ new.got = call.got
                  /\ Relocks(call.worker, LockAfter(call, staging[call.worker], at))
<1>1. PICK rest : rest = Tail(call.todo)
  OBVIOUS
<1>2. Head(call.todo) = call.todo[1]
  OBVIOUS
<1>3. PICK w \in Workers : w = call.worker
  OBVIOUS
<1>4. PICK lock : lock = staging[w] /\ IsLock(lock)
  BY DEF BackendShape
<1>5. PICK left : left = FreshLeft(rest)
  OBVIOUS
<1>6. PICK new : new = [call EXCEPT !.todo = rest, !.attempt = 0, !.ready = FALSE, !.left = left]
  OBVIOUS
<1>7. Becomes(c, new)
  BY <1>1, <1>5, <1>6 DEF Advance, Becomes, FreshLeft
<1>8. GoesOn(new, call) /\ new.failed = call.failed /\ new.got = call.got
  <2>1. SameAsk(new, call)
    BY <1>6 DEF IsRecord, SameAsk
  <2>2. new.ready = FALSE /\ new.todo = rest /\ new.left = left /\ new.failed = call.failed /\ new.got = call.got
    BY <1>6 DEF IsRecord
  <2> QED
    BY <1>1, <1>5, <2>1, <2>2 DEF GoesOn
<1>9. [lock EXCEPT !.at = at] = [holder |-> lock.holder, at |-> at]
  BY <1>4 DEF IsLock
<1>10. PICK after : after = LockAfter(call, lock, at)
  OBVIOUS
<1>11. after = IF ~ call.todo[1].staged THEN lock
               ELSE IF rest = <<>> \/ ~ rest[1].staged THEN NoLock ELSE [lock EXCEPT !.at = at]
  BY <1>1, <1>9, <1>10 DEF LockAfter
<1>12. Relocks(w, after)
  BY <1>1, <1>2, <1>3, <1>4, <1>11 DEF Advance, Relocks
<1> QED
  BY <1>3, <1>4, <1>7, <1>8, <1>10, <1>12

(* A call that failed for good.                                            *)
Fails(new, call) ==
  /\ SameAsk(new, call) /\ new.failed = TRUE
  /\ \/ call.todo[1].staged /\ new.todo = <<>>
     \/ ~ call.todo[1].staged /\ GoesOn(new, call)

LEMMA GiveUpIs ==
  ASSUME BackendShape, NEW c \in Calls, NEW call, NEW at, IsRecord(call), call.worker \in Workers,
         call.todo \in Seq(AllTransfers), call.todo # <<>>, GiveUp(c, call, at)
  PROVE  \E new, lock : /\ Becomes(c, new) /\ Fails(new, call) /\ Relocks(call.worker, lock)
                        /\ lock = IF call.todo[1].staged THEN NoLock ELSE staging[call.worker]
<1>1. Head(call.todo) = call.todo[1]
  OBVIOUS
<1>2. CASE call.todo[1].staged
  <2>1. PICK new : new = [call EXCEPT !.todo = <<>>, !.left = <<>>, !.failed = TRUE]
    OBVIOUS
  <2>2. Becomes(c, new) /\ Relocks(call.worker, NoLock)
    BY <1>1, <1>2, <2>1 DEF GiveUp, Becomes, Relocks
  <2>3. SameAsk(new, call) /\ new.failed = TRUE /\ new.todo = <<>>
    BY <2>1 DEF IsRecord, SameAsk
  <2> QED
    BY <1>2, <2>2, <2>3 DEF Fails
<1>3. CASE ~ call.todo[1].staged
  <2>1. PICK lost : lost = [call EXCEPT !.failed = TRUE]
    OBVIOUS
  <2>2. /\ SameAsk(lost, call) /\ lost.failed = TRUE /\ lost.todo = call.todo /\ lost.left = call.left
        /\ lost.got = call.got
    BY <2>1 DEF IsRecord, SameAsk
  <2>3. Advance(c, lost, at)
    BY <1>1, <1>3, <2>1 DEF GiveUp
  <2>4. IsRecord(lost) /\ lost.worker = call.worker
    BY <2>2 DEF SameAsk
  <2>5. PICK new : /\ Becomes(c, new) /\ GoesOn(new, lost) /\ new.failed = lost.failed
                   /\ Relocks(lost.worker, LockAfter(lost, staging[lost.worker], at))
    BY <2>2, <2>3, <2>4, AdvanceIs
  <2>6. SameAsk(new, call) /\ GoesOn(new, call)
    BY <2>2, <2>5 DEF GoesOn, SameAsk
  <2>7. LockAfter(lost, staging[lost.worker], at) = staging[call.worker]
    BY <1>3, <2>2, <2>4 DEF LockAfter
  <2> QED
    BY <1>3, <2>2, <2>4, <2>5, <2>6, <2>7 DEF Fails
<1> QED
  BY <1>2, <1>3

(* The keys at the places `bad` of what is left are tried again.           *)
TriesAgain(new, call, bad) ==
  /\ SameAsk(new, call) /\ new.ready = call.ready /\ new.failed = call.failed
  /\ new.todo = call.todo /\ AreOf(new.left, call.left, bad, DOMAIN call.todo[1].items)

ContentOf(call, item) == [cell |-> item.slot[2], put |-> call.put, part |-> item.slot[3]]
InBuffer(at, off)     == IF off \in DOMAIN at THEN at[off] ELSE None
ItemsOfFirst(call)    == call.todo[1].items
LeftItem(call, j)     == call.todo[1].items[call.left[j]]

(* The items at the places `good` of what is left are written, ...         *)
Written(after, before, call, at, good) ==
  /\ \A slot : slot \in DOMAIN after <=> slot \in DOMAIN before \/ \E j \in good : LeftItem(call, j).slot = slot
  /\ \A slot \in DOMAIN before : (\A j \in good : LeftItem(call, j).slot # slot) => after[slot] = before[slot]
  /\ \A j \in good : \E i \in good :
       /\ LeftItem(call, i).slot = LeftItem(call, j).slot
       /\ after[LeftItem(call, j).slot] = IF call.todo[1].staged THEN InBuffer(at, LeftItem(call, i).off)
                                          ELSE ContentOf(call, LeftItem(call, i))

(* ... are read into a buffer, or are taken.                               *)
Filled(after, before, store, call, good) ==
  /\ \A off \in DOMAIN before : (\A j \in good : LeftItem(call, j).off # off) =>
       off \in DOMAIN after /\ after[off] = before[off]
  /\ \A j \in good : \E i \in good :
       /\ LeftItem(call, i).off = LeftItem(call, j).off
       /\ LeftItem(call, j).off \in DOMAIN after
       /\ after[LeftItem(call, j).off] = store[LeftItem(call, i).slot]

Taken(store, call, good) ==
  {[pos |-> LeftItem(call, j).pos, of |-> store[LeftItem(call, j).slot]] : j \in good}

HasFirst(call) == call.todo # <<>> /\ call.todo[1] \in AllTransfers /\ call.left \in Seq(DOMAIN call.todo[1].items)

LEMMA FirstIs ==
  ASSUME NEW d, NEW call, IsCall(d, call), call.todo # <<>>
  PROVE  /\ HasFirst(call) /\ call.todo \in Seq(AllTransfers) /\ Head(call.todo) = call.todo[1]
         /\ IsTransfer(call.todo[1], OrderOf(call), call.ks)
         /\ IsRecord(call) /\ call.worker \in Workers
<1>1. call.todo \in Seq(AllTransfers) /\ \A t \in Range(call.todo) : IsTransfer(t, OrderOf(call), call.ks)
  BY DEF IsCall, AreTransfers
<1>2. PICK T \in Seq(AllTransfers) : T = call.todo
  BY <1>1
<1>3. T # <<>> /\ Head(T) = T[1] /\ 1 \in DOMAIN T /\ T[1] \in AllTransfers
  BY <1>2
<1>4. T[1] \in Range(T)
  BY <1>3 DEF Range
<1> QED
  BY <1>1, <1>2, <1>3, <1>4 DEF HasFirst, IsCall

LEMMA Overlaid ==
  ASSUME NEW f, NEW g
  PROVE  /\ \A x : x \in DOMAIN Over(f, g) <=> x \in DOMAIN f \/ x \in DOMAIN g
         /\ \A x \in DOMAIN g : Over(f, g)[x] = g[x]
         /\ \A x \in DOMAIN f : x \notin DOMAIN g => Over(f, g)[x] = f[x]
BY DEF Over

LEMMA SameLock ==
  ASSUME BackendShape, NEW w \in Workers, staging' = staging
  PROVE  Relocks(w, staging[w])
BY DEF BackendShape, Relocks

LEMMA Retried ==
  ASSUME BackendShape, NEW c \in Calls, NEW call, call = calls[c], IsRecord(call), HasFirst(call),
         NEW bad \in SUBSET DOMAIN call.left, calls' = [calls EXCEPT ![c].left = Again(c, bad), ![c].attempt = @ + 1]
  PROVE  \E new : Becomes(c, new) /\ TriesAgain(new, call, bad) /\ new.got = call.got
<1>1. PICK a : a = Again(c, bad) /\ AreOf(a, call.left, bad, DOMAIN call.todo[1].items)
  BY AgainIs DEF Again, HasFirst
<1>2. PICK new : new = [call EXCEPT !.left = a, !.attempt = call.attempt + 1]
  OBVIOUS
<1>3. Becomes(c, new)
  BY <1>1, <1>2 DEF Becomes
<1>4. SameAsk(new, call) /\ new.left = a /\ new.ready = call.ready /\ new.failed = call.failed /\ new.got = call.got
      /\ new.todo = call.todo
  BY <1>2 DEF SameAsk, IsRecord
<1> QED
  BY <1>1, <1>3, <1>4 DEF TriesAgain

(* How an attempt of an upsert ends.                                       *)
UpsertEnds(new, call, bad, after, lock) ==
  \/ bad = {} /\ GoesOn(new, call) /\ new.failed = call.failed /\ after = LockAfter(call, lock, lock.at)
  \/ TriesAgain(new, call, bad) /\ after = lock
  \/ Fails(new, call) /\ after = IF call.todo[1].staged THEN NoLock ELSE lock

UpsertOf(c, call, lock, bad, new, after) ==
  /\ call.op = "put" /\ HasFirst(call)
  /\ call.todo[1].staged => lock.holder = c /\ call.ready
  /\ Becomes(c, new) /\ Relocks(call.worker, after)
  /\ UpsertEnds(new, call, bad, after, lock)
  /\ Written(objects', objects, call, lock.at, DOMAIN call.left \ bad)

LEMMA UpsertIs ==
  ASSUME BackendShape, NEW c \in Calls, NEW call, call = calls[c], IsCall(deployment, call),
         NEW lock, lock = staging[call.worker], Upsert(c)
  PROVE  \E bad \in SUBSET DOMAIN call.left : \E new, after : UpsertOf(c, call, lock, bad, new, after)
<1>1. call.op = "put" /\ call.todo # <<>>
  BY DEF Upsert
<1>2. /\ HasFirst(call) /\ call.todo \in Seq(AllTransfers) /\ Head(call.todo) = call.todo[1]
      /\ IsRecord(call) /\ call.worker \in Workers
  BY <1>1, FirstIs
<1>3. Transfer(c) = call.todo[1]
  BY <1>2 DEF Transfer
<1>4. call.todo[1].staged => lock.holder = c /\ call.ready
  BY <1>3 DEF Upsert, MaySend
<1>5. PICK value : value = [item \in Items |-> IF call.todo[1].staged THEN InBuffer(lock.at, item.off)
                                               ELSE ContentOf(call, item)]
  OBVIOUS
<1>6. PICK bad \in SUBSET DOMAIN calls[c].left :
        /\ objects' = Over(objects,
             [slot \in {Transfer(c).items[calls[c].left[j]].slot : j \in DOMAIN calls[c].left \ bad} |->
                LET item == Transfer(c).items[calls[c].left[CHOOSE j \in DOMAIN calls[c].left \ bad :
                                                           Transfer(c).items[calls[c].left[j]].slot = slot]]
                IN  IF Transfer(c).staged THEN At(calls[c].worker, item.off) ELSE Content(c, item)])
        /\ IF bad = {} THEN Advance(c, calls[c], staging[calls[c].worker].at)
           ELSE IF calls[c].attempt < Retries
           THEN /\ calls' = [calls EXCEPT ![c].left = Again(c, bad), ![c].attempt = @ + 1]
                /\ UNCHANGED staging
           ELSE GiveUp(c, calls[c], staging[calls[c].worker].at)
  BY DEF Upsert, BufferOf
<1> DEFINE good == DOMAIN calls[c].left \ bad
           first(slot) == CHOOSE j \in good : Transfer(c).items[calls[c].left[j]].slot = slot
<1>8. \A off : At(calls[c].worker, off) = InBuffer(lock.at, off)
  BY DEF At, InBuffer
<1>9. \A item : Content(c, item) = ContentOf(call, item)
  BY DEF Content, ContentOf
<1>10. PICK g : g = [slot \in {Transfer(c).items[calls[c].left[j]].slot : j \in good} |->
                       LET item == Transfer(c).items[calls[c].left[first(slot)]]
                       IN  IF Transfer(c).staged THEN At(calls[c].worker, item.off) ELSE Content(c, item)]
  OBVIOUS
<1>11. objects' = Over(objects, g)
  BY <1>6, <1>10
<1>7. good = DOMAIN call.left \ bad
  OBVIOUS
<1>14. ASSUME NEW slot, NEW j \in good, Transfer(c).items[calls[c].left[j]].slot = slot
       PROVE  first(slot) \in good /\ Transfer(c).items[calls[c].left[first(slot)]].slot = slot
  BY <1>14
<1> HIDE DEF good, first
<1>12. Written(objects', objects, call, lock.at, good)
  <2>1. PICK store : store = objects
    OBVIOUS
  <2>2. PICK after : after = Over(store, g)
    OBVIOUS
  <2>3. \A slot : slot \in DOMAIN g <=> \E j \in good : LeftItem(call, j).slot = slot
    BY <1>3, <1>10 DEF LeftItem
  <2>4. ASSUME NEW j \in good
        PROVE  \E i \in good :
                 /\ LeftItem(call, i).slot = LeftItem(call, j).slot
                 /\ g[LeftItem(call, j).slot] = IF call.todo[1].staged THEN InBuffer(lock.at, LeftItem(call, i).off)
                                                ELSE ContentOf(call, LeftItem(call, i))
    <3>1. PICK slot : slot = LeftItem(call, j).slot
      OBVIOUS
    <3>0. \A x : LeftItem(call, x) = Transfer(c).items[calls[c].left[x]]
      BY <1>3 DEF LeftItem
    <3>2. PICK i \in good : /\ i = first(slot)
                            /\ Transfer(c).items[calls[c].left[i]].slot = slot
      BY <1>14, <3>0, <3>1
    <3>3. slot \in {Transfer(c).items[calls[c].left[x]].slot : x \in good}
      BY <3>0, <3>1
    <3>5. g[slot] = IF Transfer(c).staged THEN At(calls[c].worker, Transfer(c).items[calls[c].left[i]].off)
                    ELSE Content(c, Transfer(c).items[calls[c].left[i]])
      BY <1>10, <3>2, <3>3
    <3>4. g[slot] = IF call.todo[1].staged THEN InBuffer(lock.at, LeftItem(call, i).off)
                    ELSE ContentOf(call, LeftItem(call, i))
      <4>1. PICK item : item = Transfer(c).items[calls[c].left[i]]
        OBVIOUS
      <4>2. g[slot] = IF Transfer(c).staged THEN At(calls[c].worker, item.off) ELSE Content(c, item)
        BY <3>5, <4>1
      <4>3. g[slot] = IF call.todo[1].staged THEN InBuffer(lock.at, item.off) ELSE ContentOf(call, item)
        BY <1>3, <1>8, <1>9, <4>2
      <4>4. item = LeftItem(call, i)
        BY <3>0, <4>1
      <4> QED
        BY <4>3, <4>4
    <3> QED
      BY <3>0, <3>1, <3>2, <3>4
  <2>5. /\ \A x : x \in DOMAIN after <=> x \in DOMAIN store \/ x \in DOMAIN g
        /\ \A x \in DOMAIN g : after[x] = g[x]
        /\ \A x \in DOMAIN store : x \notin DOMAIN g => after[x] = store[x]
    BY <2>2, Overlaid
  <2>6. Written(after, store, call, lock.at, good)
    <3>1. \A slot : slot \in DOMAIN after <=> slot \in DOMAIN store \/ \E j \in good : LeftItem(call, j).slot = slot
      BY <2>3, <2>5
    <3>2. \A slot \in DOMAIN store : (\A j \in good : LeftItem(call, j).slot # slot) => after[slot] = store[slot]
      BY <2>3, <2>5
    <3>3. \A j \in good : LeftItem(call, j).slot \in DOMAIN g
      BY <2>3
    <3>4. \A j \in good : after[LeftItem(call, j).slot] = g[LeftItem(call, j).slot]
      BY <2>5, <3>3
    <3> QED
      BY <2>4, <3>1, <3>2, <3>4 DEF Written
  <2> QED
    BY <1>11, <2>1, <2>2, <2>6
<1>13. \E new, after : Becomes(c, new) /\ Relocks(call.worker, after) /\ UpsertEnds(new, call, bad, after, lock)
  <2>1. CASE bad = {}
    <3>1. Advance(c, call, lock.at)
      BY <1>6, <2>1
    <3>2. \E new : /\ Becomes(c, new) /\ GoesOn(new, call) /\ new.failed = call.failed
                   /\ Relocks(call.worker, LockAfter(call, lock, lock.at))
      BY <1>1, <1>2, <3>1, AdvanceIs
    <3> QED
      BY <2>1, <3>2 DEF UpsertEnds
  <2>2. CASE bad # {} /\ call.attempt < Retries
    <3>1. \E new : Becomes(c, new) /\ TriesAgain(new, call, bad)
      BY <1>2, <1>6, <2>2, Retried
    <3>2. Relocks(call.worker, lock)
      BY <1>2, <1>6, <2>2, SameLock
    <3> QED
      BY <3>1, <3>2 DEF UpsertEnds
  <2>3. CASE bad # {} /\ ~ call.attempt < Retries
    <3>1. GiveUp(c, call, lock.at)
      BY <1>6, <2>3
    <3>2. \E new, after : /\ Becomes(c, new) /\ Fails(new, call) /\ Relocks(call.worker, after)
                          /\ after = IF call.todo[1].staged THEN NoLock ELSE lock
      BY <1>1, <1>2, <3>1, GiveUpIs
    <3> QED
      BY <3>2 DEF UpsertEnds
  <2> QED
    BY <2>1, <2>2, <2>3
<1> QED
  BY <1>1, <1>2, <1>4, <1>7, <1>12, <1>13 DEF UpsertOf

(* How an attempt of a read ends; `at` is what the buffer then has.        *)
ReadEnds(new, call, bad, after, lock, at, got) ==
  \/ /\ bad = {} /\ call.todo[1].staged
     /\ SameAsk(new, call) /\ new.ready = TRUE /\ new.failed = call.failed /\ new.got = call.got
     /\ new.todo = call.todo /\ new.left = call.left
     /\ after = [holder |-> lock.holder, at |-> at]
  \/ /\ bad = {} /\ ~ call.todo[1].staged
     /\ GoesOn(new, call) /\ new.failed = call.failed /\ new.got = call.got \cup got
     /\ after = lock
  \/ /\ TriesAgain(new, call, bad)
     /\ new.got = IF call.todo[1].staged THEN call.got ELSE call.got \cup got
     /\ after = IF call.todo[1].staged THEN [holder |-> lock.holder, at |-> at] ELSE lock
  \/ Fails(new, call) /\ after = IF call.todo[1].staged THEN NoLock ELSE lock

ReadOf(c, call, lock, bad, new, after, at) ==
  /\ call.op = "get" /\ HasFirst(call) /\ ~ call.ready
  /\ call.todo[1].staged => lock.holder = c
  /\ \A j \in DOMAIN call.left \ bad : LeftItem(call, j).slot \in DOMAIN objects
  /\ Filled(at, lock.at, objects, call, DOMAIN call.left \ bad)
  /\ Becomes(c, new) /\ Relocks(call.worker, after)
  /\ ReadEnds(new, call, bad, after, lock, at, Taken(objects, call, DOMAIN call.left \ bad))

LEMMA LockWith ==
  ASSUME BackendShape, NEW w \in Workers, NEW at, staging' = [staging EXCEPT ![w].at = at]
  PROVE  Relocks(w, [holder |-> staging[w].holder, at |-> at])
<1>1. PICK lock : lock = staging[w] /\ IsLock(lock)
  BY DEF BackendShape
<1>2. [lock EXCEPT !.at = at] = [holder |-> lock.holder, at |-> at]
  BY <1>1 DEF IsLock
<1>3. staging' = [staging EXCEPT ![w] = [lock EXCEPT !.at = at]]
  BY <1>1
<1> QED
  BY <1>1, <1>2, <1>3 DEF Relocks

LEMMA ReadIs ==
  ASSUME BackendShape, NEW c \in Calls, NEW call, call = calls[c], IsCall(deployment, call),
         NEW lock, lock = staging[call.worker], Read(c)
  PROVE  \E bad \in SUBSET DOMAIN call.left : \E new, after, at : ReadOf(c, call, lock, bad, new, after, at)
<1>1. call.op = "get" /\ call.todo # <<>> /\ ~ call.ready
  BY DEF Read
<1>2. /\ HasFirst(call) /\ call.todo \in Seq(AllTransfers) /\ Head(call.todo) = call.todo[1]
      /\ IsRecord(call) /\ call.worker \in Workers
  BY <1>1, FirstIs
<1>3. Transfer(c) = call.todo[1]
  BY <1>2 DEF Transfer
<1>4. call.todo[1].staged => lock.holder = c
  BY <1>3 DEF Read, MaySend
<1> DEFINE good(bad)  == DOMAIN calls[c].left \ bad
           first(bad, off) == CHOOSE j \in good(bad) : Transfer(c).items[calls[c].left[j]].off = off
           read(bad)  == [off \in {Transfer(c).items[calls[c].left[j]].off : j \in good(bad)} |->
                            objects[Transfer(c).items[calls[c].left[first(bad, off)]].slot]]
           taken(bad) == {[pos |-> Transfer(c).items[calls[c].left[j]].pos,
                           of |-> objects[Transfer(c).items[calls[c].left[j]].slot]] : j \in good(bad)}
           at(bad)    == Over(staging[calls[c].worker].at, read(bad))
           next(bad)  == IF Transfer(c).staged THEN calls[c] ELSE [calls[c] EXCEPT !.got = @ \cup taken(bad)]
<1>5. PICK bad \in SUBSET DOMAIN calls[c].left :
        /\ \A j \in good(bad) : Transfer(c).items[calls[c].left[j]].slot \in DOMAIN objects
        /\ IF bad = {}
           THEN IF Transfer(c).staged
                THEN /\ calls' = [calls EXCEPT ![c].ready = TRUE]
                     /\ staging' = [staging EXCEPT ![calls[c].worker].at = at(bad)]
                ELSE Advance(c, next(bad), at(bad))
           ELSE IF calls[c].attempt < Retries
           THEN /\ calls' = [calls EXCEPT ![c] = [next(bad) EXCEPT !.left = Again(c, bad), !.attempt = @ + 1]]
                /\ staging' = IF Transfer(c).staged THEN [staging EXCEPT ![calls[c].worker].at = at(bad)]
                              ELSE staging
           ELSE GiveUp(c, next(bad), at(bad))
  BY DEF Read, BufferOf
<1>6. good(bad) = DOMAIN call.left \ bad
  OBVIOUS
<1>7. \A x : LeftItem(call, x) = Transfer(c).items[calls[c].left[x]]
  BY <1>3 DEF LeftItem
<1>8. PICK f : f = read(bad)
  OBVIOUS
<1>9. PICK to : to = at(bad)
  OBVIOUS
<1>10. PICK got : got = taken(bad)
  OBVIOUS
<1>11. to = Over(lock.at, f)
  BY <1>8, <1>9
<1>12. got = Taken(objects, call, good(bad))
  BY <1>7, <1>10 DEF Taken
<1>13. PICK nc : nc = next(bad)
  OBVIOUS
<1>14. nc = IF call.todo[1].staged THEN call ELSE [call EXCEPT !.got = @ \cup got]
  BY <1>3, <1>10, <1>13
<1>15. /\ \A off : off \in DOMAIN f <=> \E j \in good(bad) : LeftItem(call, j).off = off
       /\ \A j \in good(bad) : \E i \in good(bad) :
            LeftItem(call, i).off = LeftItem(call, j).off /\ f[LeftItem(call, j).off] = objects[LeftItem(call, i).slot]
  <2> HIDE DEF good
  <2>1. ASSUME NEW off, NEW j \in good(bad), Transfer(c).items[calls[c].left[j]].off = off
        PROVE  first(bad, off) \in good(bad) /\ Transfer(c).items[calls[c].left[first(bad, off)]].off = off
    BY <2>1
  <2> HIDE DEF first
  <2>2. \A off : off \in DOMAIN f <=> \E j \in good(bad) : LeftItem(call, j).off = off
    BY <1>7, <1>8
  <2>3. ASSUME NEW j \in good(bad)
        PROVE  \E i \in good(bad) :
            LeftItem(call, i).off = LeftItem(call, j).off /\ f[LeftItem(call, j).off] = objects[LeftItem(call, i).slot]
    <3>1. PICK off : off = LeftItem(call, j).off
      OBVIOUS
    <3>2. PICK i \in good(bad) : i = first(bad, off) /\ Transfer(c).items[calls[c].left[i]].off = off
      BY <1>7, <2>1, <3>1
    <3>3. off \in {Transfer(c).items[calls[c].left[x]].off : x \in good(bad)}
      BY <1>7, <3>1
    <3>4. f[off] = objects[Transfer(c).items[calls[c].left[i]].slot]
      BY <1>8, <3>2, <3>3
    <3> QED
      BY <1>7, <3>1, <3>2, <3>4
  <2> QED
    BY <2>2, <2>3
<1> HIDE DEF good, first, read, taken, at, next
<1>16. Filled(to, lock.at, objects, call, good(bad))
  <2>1. /\ \A x : x \in DOMAIN to <=> x \in DOMAIN lock.at \/ x \in DOMAIN f
        /\ \A x \in DOMAIN f : to[x] = f[x]
        /\ \A x \in DOMAIN lock.at : x \notin DOMAIN f => to[x] = lock.at[x]
    BY <1>11, Overlaid
  <2>2. \A off \in DOMAIN lock.at : (\A j \in good(bad) : LeftItem(call, j).off # off) =>
          off \in DOMAIN to /\ to[off] = lock.at[off]
    BY <1>15, <2>1
  <2>3. ASSUME NEW j \in good(bad)
        PROVE  \E i \in good(bad) :
                 /\ LeftItem(call, i).off = LeftItem(call, j).off
                 /\ LeftItem(call, j).off \in DOMAIN to
                 /\ to[LeftItem(call, j).off] = objects[LeftItem(call, i).slot]
    <3>1. PICK i \in good(bad) :
            LeftItem(call, i).off = LeftItem(call, j).off /\ f[LeftItem(call, j).off] = objects[LeftItem(call, i).slot]
      BY <1>15
    <3>2. PICK off : off = LeftItem(call, j).off
      OBVIOUS
    <3>3. off \in DOMAIN f
      BY <1>15, <3>2
    <3>4. off \in DOMAIN to /\ to[off] = f[off]
      BY <2>1, <3>3
    <3> QED
      BY <3>1, <3>2, <3>4
  <2> QED
    BY <2>2, <2>3 DEF Filled
<1>17. /\ IsRecord(nc) /\ SameAsk(nc, call) /\ nc.todo = call.todo /\ nc.left = call.left /\ nc.ready = call.ready
       /\ nc.failed = call.failed /\ nc.got = IF call.todo[1].staged THEN call.got ELSE call.got \cup got
  <2>1. CASE call.todo[1].staged
    <3>1. nc = call
      BY <1>14, <2>1
    <3> QED
      BY <1>2, <2>1, <3>1 DEF SameAsk
  <2>2. CASE ~ call.todo[1].staged
    <3>1. nc = [call EXCEPT !.got = call.got \cup got]
      BY <1>14, <2>2
    <3> QED
      BY <1>2, <2>2, <3>1 DEF SameAsk, IsRecord
  <2> QED
    BY <2>1, <2>2
<1>18. /\ HasFirst(nc) /\ nc.worker = call.worker
  BY <1>2, <1>17 DEF HasFirst, SameAsk
<1>19. \E new, after : /\ Becomes(c, new) /\ Relocks(call.worker, after)
                       /\ ReadEnds(new, call, bad, after, lock, to, got)
  <2>1. CASE bad = {} /\ call.todo[1].staged
    <3>1. PICK new : new = [call EXCEPT !.ready = TRUE]
      OBVIOUS
    <3>2. calls' = [calls EXCEPT ![c].ready = TRUE] /\ staging' = [staging EXCEPT ![call.worker].at = to]
      BY <1>3, <1>5, <1>9, <2>1
    <3>3. Becomes(c, new)
      BY <3>1, <3>2 DEF Becomes
    <3>4. Relocks(call.worker, [holder |-> lock.holder, at |-> to])
      BY <1>2, <3>2, LockWith
    <3>5. /\ SameAsk(new, call) /\ new.ready = TRUE /\ new.failed = call.failed /\ new.got = call.got
          /\ new.todo = call.todo /\ new.left = call.left
      BY <1>2, <3>1 DEF IsRecord, SameAsk
    <3> QED
      BY <2>1, <3>3, <3>4, <3>5 DEF ReadEnds
  <2>2. CASE bad = {} /\ ~ call.todo[1].staged
    <3>1. Advance(c, nc, to)
      BY <1>3, <1>5, <1>9, <1>13, <2>2
    <3>2. PICK new : /\ Becomes(c, new) /\ GoesOn(new, nc) /\ new.failed = nc.failed /\ new.got = nc.got
                     /\ Relocks(nc.worker, LockAfter(nc, staging[nc.worker], to))
      BY <1>1, <1>2, <1>17, <1>18, <3>1, AdvanceIs
    <3>3. GoesOn(new, call)
      BY <1>17, <3>2 DEF GoesOn, SameAsk
    <3>4. LockAfter(nc, staging[nc.worker], to) = lock
      BY <1>17, <1>18, <2>2 DEF LockAfter
    <3> QED
      BY <1>17, <1>18, <2>2, <3>2, <3>3, <3>4 DEF ReadEnds
  <2>3. CASE bad # {} /\ call.attempt < Retries
    <3>1. PICK a : a = Again(c, bad) /\ AreOf(a, call.left, bad, DOMAIN call.todo[1].items)
      BY <1>2, AgainIs DEF Again, HasFirst
    <3>2. PICK new : new = [nc EXCEPT !.left = a, !.attempt = @ + 1]
      OBVIOUS
    <3>3. Becomes(c, new)
      BY <1>5, <1>13, <2>3, <3>1, <3>2 DEF Becomes
    <3>4. SameAsk(new, nc) /\ new.left = a /\ new.ready = nc.ready /\ new.failed = nc.failed /\ new.got = nc.got
          /\ new.todo = nc.todo
      BY <1>17, <3>2 DEF SameAsk, IsRecord
    <3>5. TriesAgain(new, call, bad)
      BY <1>17, <3>1, <3>4 DEF TriesAgain, SameAsk
    <3>6. CASE call.todo[1].staged
      <4>1. staging' = [staging EXCEPT ![call.worker].at = to]
        BY <1>3, <1>5, <1>9, <2>3, <3>6
      <4>2. Relocks(call.worker, [holder |-> lock.holder, at |-> to])
        BY <1>2, <4>1, LockWith
      <4> QED
        BY <1>17, <3>3, <3>4, <3>5, <3>6, <4>2 DEF ReadEnds
    <3>7. CASE ~ call.todo[1].staged
      <4>1. staging' = staging
        BY <1>3, <1>5, <1>9, <2>3, <3>7
      <4>2. Relocks(call.worker, lock)
        BY <1>2, <4>1, SameLock
      <4> QED
        BY <1>17, <3>3, <3>4, <3>5, <3>7, <4>2 DEF ReadEnds
    <3> QED
      BY <3>6, <3>7
  <2>4. CASE bad # {} /\ ~ call.attempt < Retries
    <3>1. GiveUp(c, nc, to)
      BY <1>5, <1>9, <1>13, <2>4
    <3>2. PICK new, after : /\ Becomes(c, new) /\ Fails(new, nc) /\ Relocks(nc.worker, after)
                            /\ after = IF nc.todo[1].staged THEN NoLock ELSE staging[nc.worker]
      BY <1>1, <1>2, <1>17, <1>18, <3>1, GiveUpIs
    <3>3. Fails(new, call)
      BY <1>17, <3>2 DEF Fails, GoesOn, SameAsk
    <3> QED
      BY <1>17, <1>18, <3>2, <3>3 DEF ReadEnds
  <2> QED
    BY <2>1, <2>2, <2>3, <2>4
<1>20. \A j \in good(bad) : LeftItem(call, j).slot \in DOMAIN objects
  BY <1>5, <1>7
<1>21. bad \in SUBSET DOMAIN call.left
  OBVIOUS
<1>22. PICK new, after : /\ Becomes(c, new) /\ Relocks(call.worker, after)
                         /\ ReadEnds(new, call, bad, after, lock, to, got)
  BY <1>19
<1>23. ReadOf(c, call, lock, bad, new, after, to)
  BY <1>1, <1>2, <1>4, <1>6, <1>12, <1>16, <1>20, <1>22 DEF ReadOf
<1> QED
  BY <1>21, <1>23

(* The buffer has what is to be put.                                       *)
Packed(at, call) ==
  \A j \in DOMAIN ItemsOfFirst(call) : \E i \in DOMAIN ItemsOfFirst(call) :
    /\ ItemsOfFirst(call)[i].off = ItemsOfFirst(call)[j].off
    /\ ItemsOfFirst(call)[j].off \in DOMAIN at
    /\ at[ItemsOfFirst(call)[j].off] = ContentOf(call, ItemsOfFirst(call)[i])

PackOf(c, call, lock, new, at) ==
  /\ call.op = "put" /\ HasFirst(call) /\ call.todo[1].staged /\ lock.holder = c
  /\ Becomes(c, new) /\ Relocks(call.worker, [holder |-> lock.holder, at |-> at])
  /\ SameAsk(new, call) /\ new.ready = TRUE /\ new.failed = call.failed
  /\ new.todo = call.todo /\ new.left = call.left
  /\ Packed(at, call)

LEMMA PackIs ==
  ASSUME BackendShape, NEW c \in Calls, NEW call, call = calls[c], IsCall(deployment, call),
         NEW lock, lock = staging[call.worker], Pack(c)
  PROVE  \E new, at : PackOf(c, call, lock, new, at)
<1>1. call.op = "put" /\ call.todo # <<>>
  BY DEF Pack
<1>2. /\ HasFirst(call) /\ call.todo \in Seq(AllTransfers) /\ Head(call.todo) = call.todo[1]
      /\ IsRecord(call) /\ call.worker \in Workers
  BY <1>1, FirstIs
<1>3. Transfer(c) = call.todo[1]
  BY <1>2 DEF Transfer
<1>4. call.todo[1].staged /\ lock.holder = c
  BY <1>3 DEF Pack
<1> DEFINE items == Range(Transfer(c).items)
           first(off) == CHOOSE i \in items : i.off = off
           packed == [off \in {i.off : i \in items} |-> Content(c, first(off))]
<1>5. staging' = [staging EXCEPT ![calls[c].worker].at = packed] /\ calls' = [calls EXCEPT ![c].ready = TRUE]
  BY DEF Pack
<1>6. PICK at : at = packed
  OBVIOUS
<1>7. Relocks(call.worker, [holder |-> lock.holder, at |-> at])
  <2>1. staging' = [staging EXCEPT ![call.worker].at = at]
    BY <1>5, <1>6
  <2> QED
    BY <1>2, <2>1, LockWith
<1>8. PICK new : new = [call EXCEPT !.ready = TRUE]
  OBVIOUS
<1>9. Becomes(c, new)
  BY <1>5, <1>8 DEF Becomes
<1>10. /\ SameAsk(new, call) /\ new.ready = TRUE /\ new.failed = call.failed
       /\ new.todo = call.todo /\ new.left = call.left
  BY <1>2, <1>8 DEF SameAsk, IsRecord
<1>11. \A item : Content(c, item) = ContentOf(call, item)
  BY DEF Content, ContentOf
<1>12. items = {ItemsOfFirst(call)[j] : j \in DOMAIN ItemsOfFirst(call)}
  BY <1>3 DEF ItemsOfFirst, Range
<1> HIDE DEF items
<1>13. ASSUME NEW off, NEW i \in items, i.off = off
       PROVE  first(off) \in items /\ first(off).off = off
  BY <1>13
<1> HIDE DEF first
<1>14. ASSUME NEW j \in DOMAIN ItemsOfFirst(call)
       PROVE  \E i \in DOMAIN ItemsOfFirst(call) :
                /\ ItemsOfFirst(call)[i].off = ItemsOfFirst(call)[j].off
                /\ ItemsOfFirst(call)[j].off \in DOMAIN at
                /\ at[ItemsOfFirst(call)[j].off] = ContentOf(call, ItemsOfFirst(call)[i])
  <2>1. PICK item \in items : item = ItemsOfFirst(call)[j]
    BY <1>12
  <2>2. PICK off : off = item.off
    OBVIOUS
  <2>3. PICK it \in items : it = first(off) /\ it.off = off
    BY <1>13, <2>2
  <2>4. PICK i \in DOMAIN ItemsOfFirst(call) : it = ItemsOfFirst(call)[i]
    BY <1>12
  <2>5. off \in {x.off : x \in items}
    BY <2>2
  <2>6. off \in DOMAIN at /\ at[off] = ContentOf(call, it)
    BY <1>6, <1>11, <2>3, <2>5
  <2> QED
    BY <2>1, <2>2, <2>3, <2>4, <2>6
<1>15. Packed(at, call)
  BY <1>14 DEF Packed
<1> QED
  BY <1>1, <1>2, <1>4, <1>7, <1>9, <1>10, <1>15 DEF PackOf

LockOf(c, call, lock) ==
  /\ HasFirst(call) /\ call.todo[1].staged /\ lock.holder = NoCaller
  /\ Relocks(call.worker, [holder |-> c, at |-> lock.at])

LEMMA LockIs ==
  ASSUME BackendShape, NEW c \in Calls, NEW call, call = calls[c], IsCall(deployment, call),
         NEW lock, lock = staging[call.worker], Lock(c)
  PROVE  LockOf(c, call, lock)
<1>1. call.todo # <<>>
  BY DEF Lock
<1>2. /\ HasFirst(call) /\ call.todo \in Seq(AllTransfers) /\ Head(call.todo) = call.todo[1]
      /\ IsRecord(call) /\ call.worker \in Workers
  BY <1>1, FirstIs
<1>3. Transfer(c) = call.todo[1]
  BY <1>2 DEF Transfer
<1>4. IsLock(lock)
  BY <1>2 DEF BackendShape
<1>5. [lock EXCEPT !.holder = c] = [holder |-> c, at |-> lock.at]
  BY <1>4 DEF IsLock
<1>6. staging' = [staging EXCEPT ![call.worker] = [lock EXCEPT !.holder = c]]
  BY DEF Lock
<1> QED
  BY <1>2, <1>3, <1>5, <1>6 DEF Lock, LockOf, StagingIsFree, Relocks

UnpackOf(c, call, lock, new) ==
  /\ call.op = "get" /\ HasFirst(call) /\ call.ready
  /\ Becomes(c, new) /\ Relocks(call.worker, LockAfter(call, lock, lock.at))
  /\ GoesOn(new, call) /\ new.failed = call.failed
  /\ new.got = call.got \cup {[pos |-> ItemsOfFirst(call)[j].pos, of |-> InBuffer(lock.at, ItemsOfFirst(call)[j].off)] :
                                j \in DOMAIN ItemsOfFirst(call)}

LEMMA UnpackIs ==
  ASSUME BackendShape, NEW c \in Calls, NEW call, call = calls[c], IsCall(deployment, call),
         NEW lock, lock = staging[call.worker], Unpack(c)
  PROVE  \E new : UnpackOf(c, call, lock, new)
<1>1. call.op = "get" /\ call.todo # <<>> /\ call.ready
  BY DEF Unpack
<1>2. /\ HasFirst(call) /\ call.todo \in Seq(AllTransfers) /\ Head(call.todo) = call.todo[1]
      /\ IsRecord(call) /\ call.worker \in Workers
  BY <1>1, FirstIs
<1>3. Transfer(c) = call.todo[1]
  BY <1>2 DEF Transfer
<1> DEFINE taken == {[pos |-> i.pos, of |-> At(calls[c].worker, i.off)] : i \in Range(Transfer(c).items)}
<1>4. Advance(c, [calls[c] EXCEPT !.got = @ \cup taken], staging[calls[c].worker].at)
  BY DEF Unpack
<1>5. PICK got : got = taken
  OBVIOUS
<1>6. \A off : At(calls[c].worker, off) = InBuffer(lock.at, off)
  BY DEF At, InBuffer
<1>7. got = {[pos |-> ItemsOfFirst(call)[j].pos, of |-> InBuffer(lock.at, ItemsOfFirst(call)[j].off)] :
                                j \in DOMAIN ItemsOfFirst(call)}
  BY <1>3, <1>5, <1>6 DEF ItemsOfFirst, Range
<1>8. PICK nc : nc = [call EXCEPT !.got = call.got \cup got]
  OBVIOUS
<1>9. Advance(c, nc, lock.at)
  BY <1>4, <1>5, <1>8
<1>10. /\ SameAsk(nc, call) /\ nc.todo = call.todo /\ nc.left = call.left /\ nc.failed = call.failed
       /\ nc.got = call.got \cup got
  BY <1>2, <1>8 DEF SameAsk, IsRecord
<1>11. IsRecord(nc) /\ nc.worker = call.worker
  BY <1>10 DEF SameAsk
<1>12. PICK new : /\ Becomes(c, new) /\ GoesOn(new, nc) /\ new.failed = nc.failed /\ new.got = nc.got
                  /\ Relocks(nc.worker, LockAfter(nc, staging[nc.worker], lock.at))
  BY <1>1, <1>2, <1>9, <1>10, <1>11, AdvanceIs
<1>13. GoesOn(new, call)
  BY <1>10, <1>12 DEF GoesOn, SameAsk
<1>14. LockAfter(nc, staging[nc.worker], lock.at) = LockAfter(call, lock, lock.at)
  BY <1>10, <1>11 DEF LockAfter
<1>15. Relocks(call.worker, LockAfter(call, lock, lock.at))
  BY <1>11, <1>12, <1>14
<1>16. new.got = call.got \cup got
  BY <1>10, <1>12
<1>17. new.failed = call.failed
  BY <1>10, <1>12
<1> QED
  BY <1>1, <1>2, <1>7, <1>12, <1>13, <1>15, <1>16, <1>17 DEF UnpackOf

-----------------------------------------------------------------------------
(* A call that begins has all of its transfers before it.                  *)
Begins(c, new, op, w, fs, rows, put, ks) ==
  /\ Becomes(c, new) /\ IsRecord(new) /\ new.op = op /\ new.worker = w /\ new.fs = fs /\ new.rows = rows
  /\ new.put = put /\ new.ks = ks /\ new.todo = Transfers(w, KeyOrder(fs, rows), ks)
  /\ new.left = FreshLeft(new.todo) /\ new.ready = FALSE /\ new.failed = FALSE /\ new.got = {}

Prepared(call, op, w, fs, rows, put, ks) ==
  /\ IsRecord(call) /\ call.op = op /\ call.worker = w /\ call.fs = fs /\ call.rows = rows
  /\ call.put = put /\ call.ks = ks /\ call.todo = Transfers(w, KeyOrder(fs, rows), ks)
  /\ call.ready = FALSE /\ call.failed = FALSE /\ call.got = {}

LEMMA BegunIs ==
  ASSUME NEW c \in Calls, NEW op, NEW w, NEW fs, NEW rows, NEW put, NEW ks, NEW call,
         Prepared(call, op, w, fs, rows, put, ks), Begun(c, call)
  PROVE  \E new : Begins(c, new, op, w, fs, rows, put, ks)
<1>1. PICK T : T = Transfers(w, KeyOrder(fs, rows), ks)
  OBVIOUS
<1>2. PICK left : left = FreshLeft(T)
  OBVIOUS
<1>3. /\ IsRecord(call) /\ call.op = op /\ call.worker = w /\ call.fs = fs /\ call.rows = rows /\ call.put = put
      /\ call.ks = ks /\ call.todo = T /\ call.ready = FALSE /\ call.failed = FALSE /\ call.got = {}
  BY <1>1 DEF Prepared
<1>4. PICK new : new = [call EXCEPT !.left = left]
  OBVIOUS
<1>5. Becomes(c, new)
  BY <1>2, <1>3, <1>4 DEF Begun, Becomes, FreshLeft
<1>6. /\ IsRecord(new) /\ new.op = op /\ new.worker = w /\ new.fs = fs /\ new.rows = rows /\ new.put = put
      /\ new.ks = ks /\ new.todo = T /\ new.left = left /\ new.ready = FALSE /\ new.failed = FALSE /\ new.got = {}
  BY <1>3, <1>4 DEF IsRecord
<1> QED
  BY <1>1, <1>2, <1>5, <1>6 DEF Begins

StartsOf(c, new) ==
  /\ Becomes(c, new) /\ IsCall(deployment, new)
  /\ new.ready = FALSE /\ new.failed = FALSE /\ new.got = {}
  /\ new.left = FreshLeft(new.todo) /\ Covers(new.todo, new.ks, DOMAIN OrderOf(new))

AskedOf(call) == call.fs \X Range(call.rows)

PutOf(c, new) ==
  /\ calls[c] = NoCall /\ StartsOf(c, new) /\ new.op = "put"
  /\ MayUse(AskedOf(new), {"put", "get", "clear"})

GetOf(c, new) ==
  /\ calls[c] = NoCall /\ StartsOf(c, new) /\ new.op = "get"
  /\ MayUse(AskedOf(new), {"put", "clear"})
  /\ \A p \in DOMAIN OrderOf(new) :
       known[OrderOf(new)[p]] # None /\ new.ks[p] = Seen(new.worker, known[OrderOf(new)[p]])

LEMMA FreshLeftIs ==
  ASSUME NEW T \in Seq(AllTransfers), T # <<>>
  PROVE  /\ FreshLeft(T) \in Seq(DOMAIN T[1].items)
         /\ DOMAIN FreshLeft(T) = DOMAIN T[1].items /\ \A j \in DOMAIN T[1].items : FreshLeft(T)[j] = j
<1>1. PICK t \in AllTransfers : t = T[1]
  OBVIOUS
<1>2. PICK items \in Seq(Items) : items = t.items
  BY DEF AllTransfers
<1>3. PICK n \in Nat : DOMAIN items = 1..n
  BY <1>2
<1>4. PICK left : left = FreshLeft(T)
  OBVIOUS
<1>5. left = [j \in 1..n |-> j]
  BY <1>1, <1>2, <1>3, <1>4 DEF FreshLeft
<1>6. left \in [1..n -> 1..n]
  BY <1>5
<1>7. left \in Seq(1..n)
  BY <1>6, SeqDef
<1> QED
  BY <1>1, <1>2, <1>3, <1>4, <1>5, <1>7

(* A call with fitting layouts is one, and has a transfer for every part.  *)
LEMMA BeginningIs ==
  ASSUME NEW c, NEW new, NEW op \in {"put", "get"}, NEW w \in Workers, NEW fs, NEW rows, IsAsk(fs, rows),
         NEW put, NEW ks \in [1..Count(fs, rows) -> Layouts], \A p \in 1..Count(fs, rows) : Suits(w, ks[p]),
         Begins(c, new, op, w, fs, rows, put, ks), op = "put" => PutLayouts(deployment, new)
  PROVE  StartsOf(c, new)
<1>1. PICK n \in Nat : n = Count(fs, rows)
  BY KeyOrderIs DEF OrderIs
<1>2. PICK order \in [1..n -> Cells] : order = KeyOrder(fs, rows)
  BY <1>1, KeyOrderIs DEF OrderIs
<1>3. PICK T : T = Transfers(w, order, ks)
  OBVIOUS
<1>4. AreTransfers(T, order, ks) /\ Covers(T, ks, 1..n)
  BY <1>1, <1>3, TransfersAre
<1>5. /\ Becomes(c, new) /\ IsRecord(new) /\ new.op = op /\ new.worker = w /\ new.fs = fs /\ new.rows = rows
      /\ new.put = put /\ new.ks = ks /\ new.todo = T
      /\ new.left = FreshLeft(T) /\ new.ready = FALSE /\ new.failed = FALSE /\ new.got = {}
  BY <1>2, <1>3 DEF Begins
<1>6. OrderOf(new) = order /\ DOMAIN order = 1..n
  BY <1>2, <1>5 DEF OrderOf
<1>7. T # <<>> => FreshLeft(T) \in Seq(DOMAIN T[1].items)
  <2>1. T \in Seq(AllTransfers)
    BY <1>4 DEF AreTransfers
  <2> QED
    BY <2>1, FreshLeftIs
<1>8. IsCall(deployment, new)
  BY <1>1, <1>4, <1>5, <1>6, <1>7 DEF IsCall
<1> QED
  BY <1>4, <1>5, <1>6, <1>8 DEF StartsOf

LEMMA PutIs ==
  ASSUME BackendShape, NEW c \in Calls, Put(c)
  PROVE  \E new : PutOf(c, new)
<1>1. calls[c] = NoCall
  BY DEF Put
<1>2. PICK w \in Workers, ask \in Asked, size \in [Fields -> Sizes] :
        LET order == KeyOrder(ask[1], ask[2])
            ks    == [p \in DOMAIN order |-> Layout(w, size[order[p][1]])]
        IN  /\ MayUse(ask[1] \X Range(ask[2]), {"put", "get", "clear"})
            /\ Begun(c, [NoCall EXCEPT !.op = "put", !.worker = w, !.fs = ask[1], !.rows = ask[2],
                                       !.put = puts + 1, !.ks = ks, !.todo = Transfers(w, order, ks)])
  BY DEF Put
<1>3. PICK fs, rows : fs = ask[1] /\ rows = ask[2] /\ IsAsk(fs, rows)
  BY KVBackendAssumption DEF IsAsk
<1>4. PICK n \in Nat : n = Count(fs, rows)
  BY <1>3, KeyOrderIs DEF OrderIs
<1>5. PICK order \in [1..n -> Cells] : order = KeyOrder(fs, rows)
  BY <1>3, <1>4, KeyOrderIs DEF OrderIs
<1>6. PICK ks : ks = [p \in DOMAIN order |-> Layout(w, size[order[p][1]])]
  OBVIOUS
<1>7. PICK call : call = [NoCall EXCEPT !.op = "put", !.worker = w, !.fs = fs, !.rows = rows, !.put = puts + 1,
                                        !.ks = ks, !.todo = Transfers(w, order, ks)]
  OBVIOUS
<1>15. Prepared(call, "put", w, fs, rows, puts + 1, ks)
  BY <1>5, <1>7 DEF Prepared, NoCall, IsRecord
<1>8. Begun(c, call) /\ MayUse(fs \X Range(rows), {"put", "get", "clear"})
  BY <1>2, <1>3, <1>5, <1>6, <1>7
<1>9. PICK new : Begins(c, new, "put", w, fs, rows, puts + 1, ks)
  BY <1>8, <1>15, BegunIs
<1>10. ASSUME NEW p \in 1..n
       PROVE  /\ order[p] \in Cells /\ ks[p] = Layout(w, size[order[p][1]]) /\ size[order[p][1]] \in Nat
              /\ IsLayout(deployment, ks[p]) /\ Suits(w, ks[p]) /\ ks[p] \in Layouts
  <2>1. order[p] \in Cells
    OBVIOUS
  <2>2. order[p][1] \in Fields
    BY <2>1 DEF Cells
  <2>3. PICK s \in Nat : s = size[order[p][1]]
    BY <2>2, KVBackendAssumption
  <2>4. ks[p] = Layout(w, s)
    BY <1>6, <2>3
  <2>5. IsLayout(deployment, Layout(w, s)) /\ Suits(w, Layout(w, s))
    BY LayoutFits
  <2> QED
    BY <2>1, <2>3, <2>4, <2>5 DEF IsLayout
<1>11. ks \in [1..n -> Layouts]
  BY <1>6, <1>10
<1>12. PutLayouts(deployment, new)
  <2>1. OrderOf(new) = order /\ new.ks = ks /\ DOMAIN order = 1..n
    BY <1>5, <1>9 DEF Begins, OrderOf
  <2>2. \A p, q \in 1..n : order[p] = order[q] => ks[p] = ks[q]
    BY <1>10
  <2> QED
    BY <1>10, <2>1, <2>2 DEF PutLayouts
<1>13. StartsOf(c, new)
  BY <1>3, <1>4, <1>9, <1>10, <1>11, <1>12, BeginningIs
<1>14. new.op = "put" /\ AskedOf(new) = fs \X Range(rows)
  BY <1>9 DEF Begins, AskedOf
<1> QED
  BY <1>1, <1>8, <1>13, <1>14 DEF PutOf

LEMMA GetIs ==
  ASSUME BackendShape, NEW c \in Calls, Get(c)
  PROVE  \E new : GetOf(c, new)
<1>1. calls[c] = NoCall
  BY DEF Get
<1>2. PICK w \in Workers, ask \in Asked :
        LET order == KeyOrder(ask[1], ask[2])
            ks    == [p \in DOMAIN order |-> Seen(w, known[order[p]])]
        IN  /\ None \notin {known[order[p]] : p \in DOMAIN order}
            /\ MayUse(ask[1] \X Range(ask[2]), {"put", "clear"})
            /\ \A p \in DOMAIN order : ~ Refuses(w, known[order[p]])
            /\ Begun(c, [NoCall EXCEPT !.op = "get", !.worker = w, !.fs = ask[1], !.rows = ask[2],
                                       !.ks = ks, !.todo = Transfers(w, order, ks)])
  BY DEF Get
<1>3. PICK fs, rows : fs = ask[1] /\ rows = ask[2] /\ IsAsk(fs, rows)
  BY KVBackendAssumption DEF IsAsk
<1>4. PICK n \in Nat : n = Count(fs, rows)
  BY <1>3, KeyOrderIs DEF OrderIs
<1>5. PICK order \in [1..n -> Cells] : order = KeyOrder(fs, rows)
  BY <1>3, <1>4, KeyOrderIs DEF OrderIs
<1>6. PICK ks : ks = [p \in DOMAIN order |-> Seen(w, known[order[p]])]
  OBVIOUS
<1>7. PICK call : call = [NoCall EXCEPT !.op = "get", !.worker = w, !.fs = fs, !.rows = rows,
                                        !.ks = ks, !.todo = Transfers(w, order, ks)]
  OBVIOUS
<1>8. Prepared(call, "get", w, fs, rows, 0, ks)
  BY <1>5, <1>7 DEF Prepared, NoCall, IsRecord
<1>9. /\ Begun(c, call) /\ MayUse(fs \X Range(rows), {"put", "clear"})
      /\ \A p \in 1..n : known[order[p]] # None /\ ~ Refuses(w, known[order[p]])
  BY <1>2, <1>3, <1>5, <1>6, <1>7
<1>10. PICK new : Begins(c, new, "get", w, fs, rows, 0, ks)
  BY <1>8, <1>9, BegunIs
<1>11. ASSUME NEW p \in 1..n
       PROVE  ks[p] = Seen(w, known[order[p]]) /\ Suits(w, ks[p]) /\ ks[p] \in Layouts
  <2>1. order[p] \in Cells
    OBVIOUS
  <2>2. PICK k : k = known[order[p]] /\ IsLayout(deployment, k) /\ ~ Refuses(w, k)
    BY <1>9, <2>1 DEF BackendShape
  <2>3. Seen(w, k) \in Layouts /\ Suits(w, Seen(w, k))
    BY <2>2, SeenFits
  <2>4. ks[p] = Seen(w, k)
    BY <1>6, <2>2
  <2> QED
    BY <2>2, <2>3, <2>4
<1>12. ks \in [1..n -> Layouts]
  BY <1>6, <1>11
<1>13. StartsOf(c, new)
  BY <1>3, <1>4, <1>10, <1>11, <1>12, BeginningIs
<1>14. new.op = "get" /\ AskedOf(new) = fs \X Range(rows) /\ OrderOf(new) = order /\ new.ks = ks /\ new.worker = w
  BY <1>5, <1>10 DEF Begins, AskedOf, OrderOf
<1> QED
  BY <1>1, <1>9, <1>11, <1>13, <1>14 DEF GetOf

Moves(new, call) ==
  \/ GoesOn(new, call)
  \/ SameAsk(new, call) /\ new.todo = call.todo /\ new.left \in Seq(DOMAIN call.todo[1].items)
  \/ SameAsk(new, call) /\ new.todo = <<>>

LEMMA RestIs ==
  ASSUME NEW d, NEW call, IsCall(d, call), call.todo # <<>>
  PROVE  /\ Tail(call.todo) \in Seq(AllTransfers) /\ Range(Tail(call.todo)) \subseteq Range(call.todo)
         /\ AreTransfers(Tail(call.todo), OrderOf(call), call.ks)
         /\ \A m \in DOMAIN Tail(call.todo) : m + 1 \in DOMAIN call.todo /\ Tail(call.todo)[m] = call.todo[m + 1]
         /\ \A m \in DOMAIN call.todo : m # 1 => m - 1 \in DOMAIN Tail(call.todo) /\ Tail(call.todo)[m - 1] = call.todo[m]
<1>1. AreTransfers(call.todo, OrderOf(call), call.ks)
  BY DEF IsCall
<1>2. PICK T \in Seq(AllTransfers) : T = call.todo
  BY <1>1 DEF AreTransfers
<1>3. PICK rest : rest = Tail(T)
  OBVIOUS
<1>4. PICK n \in Nat : n = Len(T) /\ DOMAIN T = 1..n /\ n # 0
  BY <1>2
<1>5. rest \in Seq(AllTransfers) /\ Len(rest) = n - 1 /\ \A m \in 1..(n - 1) : rest[m] = T[m + 1]
  BY <1>2, <1>3, <1>4, HeadTailProperties
<1>6. DOMAIN rest = 1..(n - 1)
  BY <1>5
<1>7. \A m \in DOMAIN rest : m + 1 \in DOMAIN T /\ rest[m] = T[m + 1]
  BY <1>4, <1>5, <1>6
<1>8. ASSUME NEW m \in DOMAIN T, m # 1
      PROVE  m - 1 \in DOMAIN rest /\ rest[m - 1] = T[m]
  <2>1. PICK k \in 1..(n - 1) : k = m - 1 /\ m = k + 1
    BY <1>4, <1>8
  <2> QED
    BY <1>5, <1>6, <2>1
<1>9. Range(rest) \subseteq Range(T)
  BY <1>7 DEF Range
<1>10. AreTransfers(rest, OrderOf(call), call.ks)
  BY <1>1, <1>2, <1>5, <1>9 DEF AreTransfers
<1> QED
  BY <1>2, <1>3, <1>5, <1>7, <1>8, <1>9, <1>10

LEMMA KeepsCall ==
  ASSUME NEW d, NEW call, IsCall(d, call), call.todo # <<>>, NEW new, Moves(new, call)
  PROVE  IsCall(d, new)
<1>1. SameAsk(new, call)
  BY DEF Moves, GoesOn
<1>2. OrderOf(new) = OrderOf(call)
  BY <1>1 DEF SameAsk, OrderOf
<1>3. PutLayouts(d, call) => PutLayouts(d, new)
  BY <1>1, <1>2 DEF PutLayouts, SameAsk
<1>4. AreTransfers(new.todo, OrderOf(new), new.ks) /\ (new.todo # <<>> => new.left \in Seq(DOMAIN new.todo[1].items))
  <2>1. CASE GoesOn(new, call)
    <3>1. new.todo = Tail(call.todo) /\ new.left = FreshLeft(new.todo)
      BY <2>1 DEF GoesOn
    <3>2. new.todo \in Seq(AllTransfers)
      BY <3>1, RestIs
    <3>3. new.todo # <<>> => FreshLeft(new.todo) \in Seq(DOMAIN new.todo[1].items)
      BY <3>2, FreshLeftIs
    <3>4. AreTransfers(new.todo, OrderOf(call), call.ks)
      BY <3>1, RestIs
    <3> QED
      BY <1>1, <1>2, <3>1, <3>3, <3>4 DEF SameAsk
  <2>2. CASE new.todo = call.todo /\ new.left \in Seq(DOMAIN call.todo[1].items)
    BY <1>1, <1>2, <2>2 DEF SameAsk, IsCall
  <2>3. CASE new.todo = <<>>
    <3>1. AreTransfers(<<>>, OrderOf(call), call.ks)
      BY DEF AreTransfers, Range
    <3> QED
      BY <1>1, <1>2, <2>3, <3>1 DEF SameAsk
  <2> QED
    BY <2>1, <2>2, <2>3 DEF Moves
<1> QED
  BY <1>1, <1>3, <1>4 DEF IsCall, SameAsk

LEMMA TryingMoves ==
  ASSUME NEW new, NEW call, NEW bad, HasFirst(call), TriesAgain(new, call, bad) \/ Fails(new, call)
  PROVE  Moves(new, call)
BY DEF TriesAgain, Fails, Moves, AreOf

(* Where a cell of a call is, and the layout it is put with.               *)
LayoutOf(call, e) == call.ks[CHOOSE p \in DOMAIN OrderOf(call) : OrderOf(call)[p] = e]

LEMMA CellsOfCall ==
  ASSUME NEW d, NEW call, IsCall(d, call)
  PROVE  /\ OrderIs(OrderOf(call), call.fs, call.rows) /\ DOMAIN OrderOf(call) = 1..Count(call.fs, call.rows)
         /\ Count(call.fs, call.rows) \in Nat
         /\ \A p \in DOMAIN OrderOf(call) :
              OrderOf(call)[p] \in AskedOf(call) /\ OrderOf(call)[p] \in Cells /\ call.ks[p] \in Layouts
         /\ AskedOf(call) \subseteq Cells
         /\ \A e \in AskedOf(call) : \E p \in DOMAIN OrderOf(call) : OrderOf(call)[p] = e
<1>1. /\ IsAsk(call.fs, call.rows) /\ call.ks \in [1..Count(call.fs, call.rows) -> Layouts]
  BY DEF IsCall
<1>2. PICK order : order = OrderOf(call) /\ OrderIs(order, call.fs, call.rows)
  BY <1>1, KeyOrderIs DEF OrderOf
<1>3. PICK n \in Nat : n = Count(call.fs, call.rows) /\ order \in [1..n -> Cells]
  BY <1>2 DEF OrderIs
<1>4. \A p \in 1..n : order[p] \in AskedOf(call)
  BY <1>2, <1>3 DEF OrderIs, AskedOf
<1>5. ASSUME NEW e \in AskedOf(call) PROVE \E p \in DOMAIN order : order[p] = e
  <2>1. PICK f \in call.fs, r \in Range(call.rows) : e = <<f, r>>
    BY DEF AskedOf
  <2>2. PICK k \in DOMAIN call.rows : r = call.rows[k]
    BY DEF Range
  <2> QED
    BY <1>2, <2>1, <2>2 DEF OrderIs
<1>6. \A p \in 1..n : order[p] \in Cells /\ call.ks[p] \in Layouts
  BY <1>1, <1>3
<1>7. AskedOf(call) \subseteq Cells
  BY <1>3, <1>5, <1>6
<1> QED
  BY <1>2, <1>3, <1>4, <1>5, <1>6, <1>7

LEMMA PutLayoutIs ==
  ASSUME NEW d, NEW call, IsCall(d, call), call.op = "put", NEW e \in AskedOf(call)
  PROVE  /\ IsLayout(d, LayoutOf(call, e))
         /\ \A p \in DOMAIN OrderOf(call) : OrderOf(call)[p] = e => call.ks[p] = LayoutOf(call, e)
<1>1. PICK p \in DOMAIN OrderOf(call) : /\ p = CHOOSE x \in DOMAIN OrderOf(call) : OrderOf(call)[x] = e
                                        /\ OrderOf(call)[p] = e
  BY CellsOfCall
<1>2. LayoutOf(call, e) = call.ks[p]
  BY <1>1 DEF LayoutOf
<1>3. PutLayouts(d, call)
  BY DEF IsCall
<1>4. IsLayout(d, call.ks[p]) /\ \A q \in DOMAIN OrderOf(call) : OrderOf(call)[p] = OrderOf(call)[q] => call.ks[p] = call.ks[q]
  BY <1>3 DEF PutLayouts
<1> QED
  BY <1>1, <1>2, <1>4

EndPutOf(c, call) ==
  /\ call.op = "put" /\ call.todo = <<>> /\ Becomes(c, NoCall)
  /\ known' = [e \in Cells |-> IF e \in AskedOf(call) /\ ~ call.failed THEN LayoutOf(call, e) ELSE known[e]]
  /\ latest' = [e \in Cells |-> IF e \notin AskedOf(call) THEN latest[e] ELSE IF call.failed THEN 0 ELSE call.put]
  /\ littered' = littered \cup
       {e \in AskedOf(call) : \/ call.failed
                              \/ known[e] # None /\ SlotsOf(e, known[e]) # SlotsOf(e, LayoutOf(call, e))}

LEMMA EndPutIs ==
  ASSUME NEW c \in Calls, EndPut(c)
  PROVE  EndPutOf(c, calls[c])
BY DEF EndPut, EndPutOf, Becomes, CellsOf, AskedOf, LayoutOf, OrderOf

StepsTo(c, call, new) == Becomes(c, new) /\ Moves(new, call) /\ call.todo # <<>>

LEMMA CallSteps ==
  ASSUME BackendShape, NEW c \in Calls, calls[c] # NoCall, NEW call, call = calls[c],
         Pack(c) \/ Upsert(c) \/ Read(c) \/ Unpack(c)
  PROVE  \E new, lock : StepsTo(c, call, new) /\ Relocks(call.worker, lock) /\ IsLock(lock)
<1>1. IsCall(deployment, call)
  BY DEF BackendShape
<1>2. PICK lock : lock = staging[call.worker] /\ IsLock(lock)
  BY <1>1 DEF BackendShape, IsCall
<1>3. IsLock(NoLock) /\ (\A h, at : IsLock([holder |-> h, at |-> at])) /\ (\A at : IsLock(LockAfter(call, lock, at)))
  <2>1. IsLock(NoLock)
    BY DEF IsLock, NoLock
  <2>2. \A h, at : IsLock([holder |-> h, at |-> at])
    BY DEF IsLock
  <2> QED
    BY <1>2, <2>1, <2>2 DEF LockAfter
<1>4. CASE Pack(c)
  <2>1. PICK new, at : PackOf(c, call, lock, new, at)
    BY <1>1, <1>2, <1>4, PackIs
  <2>2. StepsTo(c, call, new) /\ Relocks(call.worker, [holder |-> lock.holder, at |-> at])
    BY <2>1 DEF PackOf, StepsTo, Moves, HasFirst
  <2> QED
    BY <1>3, <2>2
<1>5. CASE Upsert(c)
  <2>1. PICK bad, new, after : bad \in SUBSET DOMAIN call.left /\ UpsertOf(c, call, lock, bad, new, after)
    BY <1>1, <1>2, <1>5, UpsertIs
  <2>2. HasFirst(call) /\ Becomes(c, new) /\ Relocks(call.worker, after) /\ UpsertEnds(new, call, bad, after, lock)
    BY <2>1 DEF UpsertOf
  <2>3. Moves(new, call)
    BY <2>2, TryingMoves DEF UpsertEnds, Moves
  <2>4. IsLock(after)
    BY <1>2, <1>3, <2>2 DEF UpsertEnds
  <2> QED
    BY <2>2, <2>3, <2>4 DEF StepsTo, HasFirst
<1>6. CASE Read(c)
  <2>1. PICK bad, new, after, at : bad \in SUBSET DOMAIN call.left /\ ReadOf(c, call, lock, bad, new, after, at)
    BY <1>1, <1>2, <1>6, ReadIs
  <2>2. /\ HasFirst(call) /\ Becomes(c, new) /\ Relocks(call.worker, after)
        /\ ReadEnds(new, call, bad, after, lock, at, Taken(objects, call, DOMAIN call.left \ bad))
    BY <2>1 DEF ReadOf
  <2>3. Moves(new, call)
    BY <2>2, TryingMoves DEF ReadEnds, Moves, HasFirst
  <2>4. IsLock(after)
    BY <1>2, <1>3, <2>2 DEF ReadEnds
  <2> QED
    BY <2>2, <2>3, <2>4 DEF StepsTo, HasFirst
<1>7. CASE Unpack(c)
  <2>1. PICK new : UnpackOf(c, call, lock, new)
    BY <1>1, <1>2, <1>7, UnpackIs
  <2>2. StepsTo(c, call, new) /\ Relocks(call.worker, LockAfter(call, lock, lock.at))
    BY <2>1 DEF UnpackOf, StepsTo, Moves, HasFirst
  <2> QED
    BY <1>3, <2>2
<1> QED
  BY <1>4, <1>5, <1>6, <1>7

CallIs(d, call) == call = NoCall \/ IsCall(d, call)

LEMMA OneCallChanges ==
  ASSUME BackendShape, NEW c \in Calls, NEW new, CallIs(deployment, new), Becomes(c, new)
  PROVE  /\ calls' = [d \in Calls |-> calls'[d]] /\ \A d \in Calls : CallIs(deployment, calls'[d])
         /\ calls'[c] = new /\ \A d \in Calls : d # c => calls'[d] = calls[d]
<1>1. calls = [d \in Calls |-> calls[d]] /\ \A d \in Calls : CallIs(deployment, calls[d])
  BY DEF BackendShape, CallIs
<1>2. calls' = [calls EXCEPT ![c] = new]
  BY DEF Becomes
<1>3. calls' = [d \in Calls |-> IF d = c THEN new ELSE calls[d]]
  BY <1>1, <1>2
<1>4. \A d \in Calls : calls'[d] = IF d = c THEN new ELSE calls[d]
  BY <1>3
<1>5. calls' = [d \in Calls |-> calls'[d]]
  BY <1>3, <1>4
<1> QED
  BY <1>1, <1>4, <1>5

LEMMA OneLockChanges ==
  ASSUME BackendShape, NEW w \in Workers, NEW lock, IsLock(lock), Relocks(w, lock)
  PROVE  /\ staging' = [v \in Workers |-> staging'[v]] /\ \A v \in Workers : IsLock(staging'[v])
         /\ staging'[w] = lock /\ \A v \in Workers : v # w => staging'[v] = staging[v]
<1>1. staging = [v \in Workers |-> staging[v]] /\ \A v \in Workers : IsLock(staging[v])
  BY DEF BackendShape
<1>2. staging' = [staging EXCEPT ![w] = lock]
  BY DEF Relocks
<1>3. staging' = [v \in Workers |-> IF v = w THEN lock ELSE staging[v]]
  BY <1>1, <1>2
<1>4. \A v \in Workers : staging'[v] = IF v = w THEN lock ELSE staging[v]
  BY <1>3
<1>5. staging' = [v \in Workers |-> staging'[v]]
  BY <1>3, <1>4
<1> QED
  BY <1>1, <1>4, <1>5

KnownIs(f, d) == f = [e \in Cells |-> f[e]] /\ \A e \in Cells : f[e] = None \/ IsLayout(d, f[e])
LatestIs(f)   == f = [e \in Cells |-> f[e]]
CallsAre(f, d) == f = [c \in Calls |-> f[c]] /\ \A c \in Calls : CallIs(d, f[c])
LocksAre(f)   == f = [w \in Workers |-> f[w]] /\ \A w \in Workers : IsLock(f[w])

LEMMA ShapeIs ==
  BackendShape <=> /\ deployment \in Deployments /\ KnownIs(known, deployment) /\ LatestIs(latest)
                   /\ CallsAre(calls, deployment) /\ LocksAre(staging)
BY DEF BackendShape, KnownIs, LatestIs, CallsAre, LocksAre, CallIs

LEMMA ShapeHolds ==
  ASSUME deployment' \in Deployments, KnownIs(known', deployment'), LatestIs(latest'),
         CallsAre(calls', deployment'), LocksAre(staging')
  PROVE  BackendShape'
BY DEF BackendShape, KnownIs, LatestIs, CallsAre, LocksAre, CallIs, IsCall, PutLayouts, IsLayout, IsRecord, OrderOf, IsLock

LEMMA ShapeInit == BackendInit => BackendShape
<1> SUFFICES ASSUME BackendInit PROVE BackendShape
  OBVIOUS
<1>1. KnownIs(known, deployment)
  <2>1. known = [e \in Cells |-> None]
    BY DEF BackendInit
  <2>2. \A e \in Cells : known[e] = None
    BY <2>1
  <2>3. known = [e \in Cells |-> known[e]]
    BY <2>1, <2>2
  <2> QED
    BY <2>2, <2>3 DEF KnownIs
<1>2. LatestIs(latest)
  <2>1. latest = [e \in Cells |-> 0]
    BY DEF BackendInit
  <2> QED
    BY <2>1 DEF LatestIs
<1>3. CallsAre(calls, deployment)
  <2>1. calls = [c \in Calls |-> NoCall]
    BY DEF BackendInit
  <2>2. \A c \in Calls : calls[c] = NoCall
    BY <2>1
  <2>3. calls = [c \in Calls |-> calls[c]]
    BY <2>1, <2>2
  <2> QED
    BY <2>2, <2>3 DEF CallsAre, CallIs
<1>4. LocksAre(staging)
  <2>1. staging = [w \in Workers |-> NoLock]
    BY DEF BackendInit
  <2>2. \A w \in Workers : staging[w] = NoLock
    BY <2>1
  <2>3. staging = [w \in Workers |-> staging[w]]
    BY <2>1, <2>2
  <2>4. IsLock(NoLock)
    BY DEF IsLock, NoLock
  <2> QED
    BY <2>2, <2>3, <2>4 DEF LocksAre
<1> QED
  BY <1>1, <1>2, <1>3, <1>4, ShapeIs DEF BackendInit

LEMMA ShapeStep == BackendShape /\ [BackendNext]_backendVars => BackendShape'
<1> SUFFICES ASSUME BackendShape, [BackendNext]_backendVars PROVE BackendShape'
  OBVIOUS
<1>0. /\ deployment \in Deployments /\ KnownIs(known, deployment) /\ LatestIs(latest)
      /\ CallsAre(calls, deployment) /\ LocksAre(staging)
  BY ShapeIs
<1>a. ASSUME NEW c \in Calls, NEW new, CallIs(deployment, new), Becomes(c, new)
      PROVE  CallsAre(calls', deployment)
  BY <1>a, OneCallChanges DEF CallsAre
<1>b. ASSUME NEW w \in Workers, NEW lock, IsLock(lock), Relocks(w, lock)
      PROVE  LocksAre(staging')
  BY <1>b, OneLockChanges DEF LocksAre
<1>c. ASSUME NEW c \in Calls, calls[c].op \in {"put", "get"}
      PROVE  IsCall(deployment, calls[c]) /\ calls[c].worker \in Workers
  <2>1. calls[c] # NoCall
    BY <1>c DEF NoCall
  <2> QED
    BY <2>1 DEF BackendShape, IsCall
<1>d. ASSUME NEW c \in Calls, calls[c].todo # <<>>
      PROVE  IsCall(deployment, calls[c]) /\ calls[c].worker \in Workers /\ calls[c] # NoCall
  <2>1. calls[c] # NoCall
    BY <1>d DEF NoCall
  <2> QED
    BY <2>1 DEF BackendShape, IsCall
<1>1. CASE UNCHANGED backendVars
  <2>1. deployment' = deployment /\ known' = known /\ latest' = latest /\ calls' = calls /\ staging' = staging
    BY <1>1 DEF backendVars
  <2> QED
    BY <1>0, <2>1, ShapeHolds
<1>2. ASSUME NEW c \in Calls, Put(c) PROVE BackendShape'
  <2>1. PICK new : PutOf(c, new)
    BY <1>2, PutIs
  <2>2. CallsAre(calls', deployment)
    BY <1>a, <2>1 DEF PutOf, StartsOf, CallIs
  <2>3. deployment' = deployment /\ known' = known /\ latest' = latest /\ staging' = staging
    BY <1>2 DEF Put
  <2> QED
    BY <1>0, <2>2, <2>3, ShapeHolds
<1>3. ASSUME NEW c \in Calls, Get(c) PROVE BackendShape'
  <2>1. PICK new : GetOf(c, new)
    BY <1>3, GetIs
  <2>2. CallsAre(calls', deployment)
    BY <1>a, <2>1 DEF GetOf, StartsOf, CallIs
  <2>3. deployment' = deployment /\ known' = known /\ latest' = latest /\ staging' = staging
    BY <1>3 DEF Get
  <2> QED
    BY <1>0, <2>2, <2>3, ShapeHolds
<1>4. ASSUME NEW c \in Calls, Clear(c) PROVE BackendShape'
  <2>1. PICK cells : /\ known' = [e \in Cells |-> IF e \in cells THEN None ELSE known[e]]
                     /\ latest' = [e \in Cells |-> IF e \in cells THEN 0 ELSE latest[e]]
    BY <1>4 DEF Clear
  <2>2. deployment' = deployment /\ calls' = calls /\ staging' = staging
    BY <1>4 DEF Clear
  <2>3. \A e \in Cells : known'[e] = IF e \in cells THEN None ELSE known[e]
    BY <2>1
  <2>4. known' = [e \in Cells |-> known'[e]]
    BY <2>1, <2>3
  <2>5. KnownIs(known', deployment)
    BY <1>0, <2>3, <2>4 DEF KnownIs
  <2>6. LatestIs(latest')
    <3>1. \A e \in Cells : latest'[e] = IF e \in cells THEN 0 ELSE latest[e]
      BY <2>1
    <3>2. latest' = [e \in Cells |-> latest'[e]]
      BY <2>1, <3>1
    <3> QED
      BY <3>2 DEF LatestIs
  <2> QED
    BY <1>0, <2>2, <2>5, <2>6, ShapeHolds
<1>5. ASSUME NEW c \in Calls, Lock(c) PROVE BackendShape'
  <2>1. calls[c].todo # <<>>
    BY <1>5 DEF Lock
  <2>2. LockOf(c, calls[c], staging[calls[c].worker])
    BY <1>5, <1>d, <2>1, LockIs
  <2>3. \A h, at : IsLock([holder |-> h, at |-> at])
    BY DEF IsLock
  <2>4. LocksAre(staging')
    BY <1>b, <1>d, <2>1, <2>2, <2>3 DEF LockOf
  <2>5. deployment' = deployment /\ known' = known /\ latest' = latest /\ calls' = calls
    BY <1>5 DEF Lock
  <2> QED
    BY <1>0, <2>4, <2>5, ShapeHolds
<1>6. ASSUME NEW c \in Calls, Pack(c) \/ Upsert(c) \/ Read(c) \/ Unpack(c) PROVE BackendShape'
  <2>1. calls[c].todo # <<>>
    BY <1>6 DEF Pack, Upsert, Read, Unpack
  <2>2. PICK new, lock : StepsTo(c, calls[c], new) /\ Relocks(calls[c].worker, lock) /\ IsLock(lock)
    BY <1>6, <1>d, <2>1, CallSteps
  <2>3. IsCall(deployment, new)
    BY <1>d, <2>1, <2>2, KeepsCall DEF StepsTo
  <2>4. CallsAre(calls', deployment)
    BY <1>a, <2>2, <2>3 DEF StepsTo, CallIs
  <2>5. LocksAre(staging')
    BY <1>b, <1>d, <2>1, <2>2
  <2>6. deployment' = deployment /\ known' = known /\ latest' = latest
    BY <1>6 DEF Pack, Upsert, Read, Unpack
  <2> QED
    BY <1>0, <2>4, <2>5, <2>6, ShapeHolds
<1>7. ASSUME NEW c \in Calls, EndPut(c) PROVE BackendShape'
  <2>1. EndPutOf(c, calls[c])
    BY <1>7, EndPutIs
  <2>2. PICK call : call = calls[c] /\ IsCall(deployment, call) /\ EndPutOf(c, call)
    BY <1>c, <2>1 DEF EndPutOf
  <2>3. CallsAre(calls', deployment)
    BY <1>a, <2>2 DEF EndPutOf, CallIs
  <2>4. /\ known' = [e \in Cells |-> IF e \in AskedOf(call) /\ ~ call.failed THEN LayoutOf(call, e) ELSE known[e]]
        /\ latest' = [e \in Cells |-> IF e \notin AskedOf(call) THEN latest[e] ELSE IF call.failed THEN 0 ELSE call.put]
        /\ call.op = "put"
    BY <2>2 DEF EndPutOf
  <2>5. \A e \in Cells : known'[e] = IF e \in AskedOf(call) /\ ~ call.failed THEN LayoutOf(call, e) ELSE known[e]
    BY <2>4
  <2>6. known' = [e \in Cells |-> known'[e]]
    BY <2>4, <2>5
  <2>7. \A e \in AskedOf(call) : IsLayout(deployment, LayoutOf(call, e))
    BY <2>2, <2>4, PutLayoutIs
  <2>8. KnownIs(known', deployment)
    BY <1>0, <2>5, <2>6, <2>7 DEF KnownIs
  <2>9. LatestIs(latest')
    <3>1. \A e \in Cells : latest'[e] = IF e \notin AskedOf(call) THEN latest[e] ELSE IF call.failed THEN 0 ELSE call.put
      BY <2>4
    <3>2. latest' = [e \in Cells |-> latest'[e]]
      BY <2>4, <3>1
    <3> QED
      BY <3>2 DEF LatestIs
  <2>10. deployment' = deployment /\ staging' = staging
    BY <1>7 DEF EndPut
  <2> QED
    BY <1>0, <2>3, <2>8, <2>9, <2>10, ShapeHolds
<1>8. ASSUME NEW c \in Calls, EndGet(c) PROVE BackendShape'
  <2>1. Becomes(c, NoCall)
    BY <1>8 DEF EndGet, Becomes
  <2>2. CallsAre(calls', deployment)
    BY <1>a, <2>1 DEF CallIs
  <2>3. deployment' = deployment /\ known' = known /\ latest' = latest /\ staging' = staging
    BY <1>8 DEF EndGet
  <2> QED
    BY <1>0, <2>2, <2>3, ShapeHolds
<1> QED
  BY <1>1, <1>2, <1>3, <1>4, <1>5, <1>6, <1>7, <1>8 DEF BackendNext

LEMMA ShapeAlways == BackendSpec => []BackendShape
<1>1. BackendInit => BackendShape
  BY ShapeInit
<1>2. BackendShape /\ [BackendNext]_backendVars => BackendShape'
  BY ShapeStep
<1> QED
  BY <1>1, <1>2, PTL DEF BackendSpec

LEMMA ShapeFits == BackendShape => StagingFits
<1> SUFFICES ASSUME BackendShape, NEW c \in Calls, calls[c].todo # <<>>, Transfer(c).staged,
                    NEW i \in Range(Transfer(c).items), NEW j \in Range(Transfer(c).items)
             PROVE  LET size(x) == IF x.slot[3] = 0 THEN calls[c].ks[x.pos].size ELSE BufferSize
                    IN  /\ i.off + size(i) <= BufferSize
                        /\ i # j => i.off + size(i) <= j.off \/ j.off + size(j) <= i.off
  BY DEF StagingFits
<1>1. calls[c] # NoCall
  BY DEF NoCall
<1>2. PICK call : call = calls[c] /\ IsCall(deployment, call)
  BY <1>1 DEF BackendShape
<1>3. IsTransfer(call.todo[1], OrderOf(call), call.ks) /\ Head(call.todo) = call.todo[1]
  BY <1>2, FirstIs
<1>4. Transfer(c) = call.todo[1]
  BY <1>2, <1>3 DEF Transfer
<1>5. PICK items : items = Transfer(c).items
  OBVIOUS
<1>6. ItemsFit(items, call.ks)
  BY <1>3, <1>4, <1>5 DEF IsTransfer
<1>7. items \in Seq(Items)
  BY <1>3, <1>4, <1>5 DEF IsTransfer, AllTransfers
<1>8. PICK a \in DOMAIN items, b \in DOMAIN items : i = items[a] /\ j = items[b]
  BY <1>5 DEF Range
<1>9. /\ i.off + Bytes(i, call.ks) <= BufferSize
      /\ a < b => i.off + Bytes(i, call.ks) <= j.off
      /\ b < a => j.off + Bytes(j, call.ks) <= i.off
  BY <1>6, <1>8 DEF ItemsFit
<1>10. i # j => a < b \/ b < a
  <2>1. PICK n \in Nat : DOMAIN items = 1..n
    BY <1>7
  <2> QED
    BY <1>8, <2>1
<1>11. \A x : Bytes(x, call.ks) = IF x.slot[3] = 0 THEN calls[c].ks[x.pos].size ELSE BufferSize
  BY <1>2 DEF Bytes
<1> QED
  BY <1>9, <1>10, <1>11

(* Nobody reads or writes what a put writes.                               *)
ExclusiveIn(cs) ==
  \A c, d \in Calls : c # d /\ cs[c].op = "put" /\ cs[d].op \in {"put", "get"} =>
    AskedOf(cs[c]) \cap AskedOf(cs[d]) = {}

LEMMA ExclusiveStays ==
  ASSUME BackendShape, ExclusiveIn(calls), NEW c \in Calls, NEW new, CallIs(deployment, new), Becomes(c, new),
         \/ new.op = "idle"
         \/ SameAsk(new, calls[c])
         \/ new.op = "get" /\ MayUse(AskedOf(new), {"put", "clear"})
         \/ new.op = "put" /\ MayUse(AskedOf(new), {"put", "get", "clear"})
  PROVE  ExclusiveIn(calls')
<1>1. calls'[c] = new /\ \A d \in Calls : d # c => calls'[d] = calls[d]
  BY OneCallChanges
<1>2. ASSUME NEW d \in Calls, d # c, new.op = "put", calls[d].op \in {"put", "get"}
      PROVE  AskedOf(new) \cap AskedOf(calls[d]) = {}
  <2>1. CASE SameAsk(new, calls[c])
    <3>1. AskedOf(new) = AskedOf(calls[c]) /\ calls[c].op = "put"
      BY <1>2, <2>1 DEF SameAsk, AskedOf
    <3>2. AskedOf(calls[c]) \cap AskedOf(calls[d]) = {}
      BY <1>2, <3>1 DEF ExclusiveIn
    <3> QED
      BY <3>1, <3>2
  <2>2. CASE MayUse(AskedOf(new), {"put", "get", "clear"})
    <3>1. CellsOf(d) \cap AskedOf(new) = {}
      BY <1>2, <2>2 DEF MayUse
    <3> QED
      BY <3>1 DEF CellsOf, AskedOf
  <2> QED
    BY <1>2, <2>1, <2>2
<1>3. ASSUME NEW d \in Calls, d # c, new.op \in {"put", "get"}, calls[d].op = "put"
      PROVE  AskedOf(new) \cap AskedOf(calls[d]) = {}
  <2>1. CASE SameAsk(new, calls[c])
    <3>1. AskedOf(new) = AskedOf(calls[c]) /\ calls[c].op \in {"put", "get"}
      BY <1>3, <2>1 DEF SameAsk, AskedOf
    <3>2. AskedOf(calls[d]) \cap AskedOf(calls[c]) = {}
      BY <1>3, <3>1 DEF ExclusiveIn
    <3> QED
      BY <3>1, <3>2
  <2>2. CASE MayUse(AskedOf(new), {"put", "get", "clear"}) \/ MayUse(AskedOf(new), {"put", "clear"})
    <3>1. CellsOf(d) \cap AskedOf(new) = {}
      BY <1>3, <2>2 DEF MayUse
    <3> QED
      BY <3>1 DEF CellsOf, AskedOf
  <2> QED
    BY <1>3, <2>1, <2>2
<1>4. ASSUME NEW a \in Calls, NEW d \in Calls, a # d, calls'[a].op = "put", calls'[d].op \in {"put", "get"}
      PROVE  AskedOf(calls'[a]) \cap AskedOf(calls'[d]) = {}
  <2>1. CASE a = c
    <3>1. AskedOf(new) \cap AskedOf(calls[d]) = {}
      BY <1>1, <1>2, <1>4, <2>1
    <3> QED
      BY <1>1, <1>4, <2>1, <3>1
  <2>2. CASE d = c
    <3>1. AskedOf(new) \cap AskedOf(calls[a]) = {}
      BY <1>1, <1>3, <1>4, <2>2
    <3>2. calls'[a] = calls[a] /\ calls'[d] = new
      BY <1>1, <1>4, <2>2
    <3> QED
      BY <3>1, <3>2
  <2>3. CASE a # c /\ d # c
    <3>1. calls'[a] = calls[a] /\ calls'[d] = calls[d]
      BY <1>1, <2>3
    <3> QED
      BY <1>4, <3>1 DEF ExclusiveIn
  <2> QED
    BY <2>1, <2>2, <2>3
<1> QED
  BY <1>4 DEF ExclusiveIn

-----------------------------------------------------------------------------
(* What is in the store is of a layout the controller knows, or is being   *)
(* put.                                                                    *)
IsKept(slot, kn)   == kn[slot[2]] # None /\ slot \in SlotsOf(slot[2], kn[slot[2]])
IsPutBy(slot, call) == call.op = "put" /\ slot[2] \in AskedOf(call) /\ slot \in SlotsOf(slot[2], LayoutOf(call, slot[2]))

AccountedFor(store, kn, cs, litter) ==
  \A slot \in DOMAIN store :
    /\ slot[2] \in Cells
    /\ slot[2] \in litter \/ IsKept(slot, kn) \/ \E c \in Calls : IsPutBy(slot, cs[c])

(* All workers of a deployment of Mooncake have the fast path, or none has. *)
AllAlike == \A d \in Deployments : d.client = "mooncake" => d.fast \in {{}, Workers}

LEMMA SeenIs ==
  ASSUME AllAlike, deployment \in Deployments, NEW w \in Workers, NEW k, IsLayout(deployment, k)
  PROVE  Seen(w, k) = k
<1>1. k \in Layouts
  BY DEF IsLayout
<1>2. CASE IsYuan \/ Fast(w)
  BY <1>2 DEF Seen
<1>3. CASE ~ IsYuan /\ ~ Fast(w)
  <2>1. deployment.client = "mooncake"
    BY <1>3, KVBackendAssumption DEF IsYuan
  <2>2. deployment.fast = {}
    BY <1>3, <2>1 DEF AllAlike, Fast
  <2>3. k.parts = 0
    BY <1>3, <2>2 DEF IsLayout, IsYuan
  <2>4. [k EXCEPT !.parts = 0] = k
    BY <1>1, <2>3 DEF Layouts
  <2> QED
    BY <1>3, <2>4 DEF Seen
<1> QED
  BY <1>2, <1>3

LEMMA LeftItemIs ==
  ASSUME NEW d, NEW call, IsCall(d, call), call.todo # <<>>, NEW j \in DOMAIN call.left
  PROVE  /\ call.left[j] \in DOMAIN ItemsOfFirst(call) /\ LeftItem(call, j) = ItemsOfFirst(call)[call.left[j]]
         /\ IsItem(LeftItem(call, j), OrderOf(call), call.ks)
<1>1. HasFirst(call) /\ IsTransfer(call.todo[1], OrderOf(call), call.ks)
  BY FirstIs
<1>2. call.left \in Seq(DOMAIN call.todo[1].items)
  BY <1>1 DEF HasFirst
<1>3. PICK x \in DOMAIN call.todo[1].items : x = call.left[j]
  BY <1>2
<1>4. IsItem(call.todo[1].items[x], OrderOf(call), call.ks)
  BY <1>1 DEF IsTransfer
<1> QED
  BY <1>3, <1>4 DEF ItemsOfFirst, LeftItem

LEMMA ItemIsPut ==
  ASSUME NEW d, NEW call, IsCall(d, call), call.op = "put", NEW i, IsItem(i, OrderOf(call), call.ks)
  PROVE  i.slot[2] \in Cells /\ IsPutBy(i.slot, call)
<1>1. PICK p \in DOMAIN OrderOf(call) : p = i.pos
  BY DEF IsItem
<1>2. PICK e : e = OrderOf(call)[p]
  OBVIOUS
<1>3. PICK part \in PartsOf(call.ks[p]) : i.slot = <<call.ks[p].where, e, part>>
  BY <1>1, <1>2 DEF IsItem
<1>4. e \in AskedOf(call) /\ e \in Cells
  BY <1>2, CellsOfCall
<1>5. call.ks[p] = LayoutOf(call, e)
  BY <1>2, <1>4, PutLayoutIs
<1>6. i.slot[2] = e
  BY <1>3
<1>7. i.slot \in SlotsOf(e, call.ks[p])
  BY <1>3 DEF SlotsOf
<1> QED
  BY <1>4, <1>5, <1>6, <1>7 DEF IsPutBy

LEMMA PutByTheSame ==
  ASSUME NEW slot, NEW new, NEW call, SameAsk(new, call), IsPutBy(slot, call)
  PROVE  IsPutBy(slot, new)
<1>1. new.op = call.op /\ AskedOf(new) = AskedOf(call) /\ OrderOf(new) = OrderOf(call) /\ new.ks = call.ks
  BY DEF SameAsk, AskedOf, OrderOf
<1>2. \A e : LayoutOf(new, e) = LayoutOf(call, e)
  BY <1>1 DEF LayoutOf
<1> QED
  BY <1>1, <1>2 DEF IsPutBy

(* A step of a call that keeps what it is about, or that was none.         *)
LEMMA StaysAccountedFor ==
  ASSUME BackendShape, AccountedFor(objects, known, calls, littered), NEW c \in Calls, NEW new,
         CallIs(deployment, new), Becomes(c, new), SameAsk(new, calls[c]) \/ calls[c].op # "put"
  PROVE  AccountedFor(objects, known, calls', littered)
<1>1. calls'[c] = new /\ \A d \in Calls : d # c => calls'[d] = calls[d]
  BY OneCallChanges
<1>2. ASSUME NEW slot, NEW d \in Calls, IsPutBy(slot, calls[d])
      PROVE  IsPutBy(slot, calls'[d])
  <2>1. CASE d # c
    BY <1>1, <1>2, <2>1
  <2>2. CASE d = c
    <3>1. SameAsk(new, calls[c])
      BY <1>2, <2>2 DEF IsPutBy
    <3>2. IsPutBy(slot, new)
      BY <1>2, <2>2, <3>1, PutByTheSame
    <3> QED
      BY <1>1, <2>2, <3>2
  <2> QED
    BY <2>1, <2>2
<1> QED
  BY <1>2 DEF AccountedFor

BackendCore == /\ BackendShape /\ ExclusiveIn(calls)

LEMMA BusyIs ==
  ASSUME BackendShape, NEW c \in Calls, calls[c].op \in {"put", "get"} \/ calls[c].todo # <<>>
  PROVE  IsCall(deployment, calls[c]) /\ calls[c].worker \in Workers /\ calls[c] # NoCall
<1>1. calls[c] # NoCall
  BY DEF NoCall
<1> QED
  BY <1>1 DEF BackendShape, IsCall

LEMMA IdleIs == CallIs(deployment, NoCall) /\ NoCall.op = "idle"
BY DEF CallIs, NoCall

(* A call takes a step of its own.                                         *)
LEMMA CallStepIs ==
  ASSUME BackendShape, NEW c \in Calls, Pack(c) \/ Upsert(c) \/ Read(c) \/ Unpack(c)
  PROVE  \E new : Becomes(c, new) /\ IsCall(deployment, new) /\ SameAsk(new, calls[c])
<1>1. calls[c].todo # <<>>
  BY DEF Pack, Upsert, Read, Unpack
<1>2. PICK new : StepsTo(c, calls[c], new)
  BY <1>1, BusyIs, CallSteps
<1>3. IsCall(deployment, new)
  BY <1>1, <1>2, BusyIs, KeepsCall DEF StepsTo
<1> QED
  BY <1>2, <1>3 DEF StepsTo, Moves, GoesOn

LEMMA CoreInit == BackendInit => BackendCore
<1> SUFFICES ASSUME BackendInit PROVE BackendCore
  OBVIOUS
<1>1. \A c \in Calls : calls[c] = NoCall
  BY DEF BackendInit
<1>2. ExclusiveIn(calls)
  BY <1>1, IdleIs DEF ExclusiveIn
<1> QED
  BY <1>2, ShapeInit DEF BackendCore

LEMMA CoreStep == BackendCore /\ [BackendNext]_backendVars => BackendCore'
<1> SUFFICES ASSUME BackendCore, [BackendNext]_backendVars PROVE BackendCore'
  OBVIOUS
<1>1. BackendShape /\ ExclusiveIn(calls) /\ BackendShape'
  BY ShapeStep DEF BackendCore
<1>2. CASE calls' = calls
  <2>1. ExclusiveIn(calls')
    BY <1>1, <1>2
  <2> QED
    BY <1>1, <2>1 DEF BackendCore, ExclusiveIn, AskedOf
<1>3. ASSUME ExclusiveIn(calls') PROVE BackendCore'
  BY <1>1, <1>3 DEF BackendCore, ExclusiveIn, AskedOf
<1>4. ASSUME NEW c \in Calls, Put(c) PROVE ExclusiveIn(calls')
  <2>1. PICK new : PutOf(c, new)
    BY <1>1, <1>4, PutIs
  <2> QED
    BY <1>1, <2>1, ExclusiveStays DEF PutOf, StartsOf, CallIs
<1>5. ASSUME NEW c \in Calls, Get(c) PROVE ExclusiveIn(calls')
  <2>1. PICK new : GetOf(c, new)
    BY <1>1, <1>5, GetIs
  <2> QED
    BY <1>1, <2>1, ExclusiveStays DEF GetOf, StartsOf, CallIs
<1>6. ASSUME NEW c \in Calls, Pack(c) \/ Upsert(c) \/ Read(c) \/ Unpack(c) PROVE ExclusiveIn(calls')
  <2>1. PICK new : Becomes(c, new) /\ IsCall(deployment, new) /\ SameAsk(new, calls[c])
    BY <1>1, <1>6, CallStepIs
  <2> QED
    BY <1>1, <2>1, ExclusiveStays DEF CallIs
<1>7. ASSUME NEW c \in Calls, EndPut(c) \/ EndGet(c) PROVE ExclusiveIn(calls')
  <2>1. Becomes(c, NoCall)
    BY <1>7 DEF EndPut, EndGet, Becomes
  <2> QED
    BY <1>1, <2>1, IdleIs, ExclusiveStays
<1>8. ASSUME NEW c \in Calls, Clear(c) \/ Lock(c) PROVE calls' = calls
  BY <1>8 DEF Clear, Lock
<1>9. UNCHANGED backendVars => calls' = calls
  BY DEF backendVars
<1> QED
  BY <1>2, <1>3, <1>4, <1>5, <1>6, <1>7, <1>8, <1>9 DEF BackendNext

BackendAccounts == AccountedFor(objects, known, calls, littered)

LEMMA AccountsStay ==
  ASSUME AllAlike, BackendCore, BackendAccounts, [BackendNext]_backendVars
  PROVE  AccountedFor(objects', known', calls', littered')
<1>1. BackendShape /\ ExclusiveIn(calls) /\ AccountedFor(objects, known, calls, littered)
  BY DEF BackendCore, BackendAccounts
<1>2. CASE UNCHANGED backendVars
  BY <1>1, <1>2 DEF backendVars
<1>3. ASSUME NEW c \in Calls, NEW new, CallIs(deployment, new), Becomes(c, new),
             SameAsk(new, calls[c]) \/ calls[c].op # "put", UNCHANGED <<objects, known, littered>>
      PROVE  AccountedFor(objects', known', calls', littered')
  BY <1>1, <1>3, StaysAccountedFor
<1>4. ASSUME NEW c \in Calls, Put(c) PROVE AccountedFor(objects', known', calls', littered')
  <2>1. PICK new : PutOf(c, new)
    BY <1>1, <1>4, PutIs
  <2>2. calls[c].op # "put"
    BY <2>1, IdleIs DEF PutOf
  <2> QED
    BY <1>3, <1>4, <2>1, <2>2 DEF Put, PutOf, StartsOf, CallIs
<1>5. ASSUME NEW c \in Calls, Get(c) PROVE AccountedFor(objects', known', calls', littered')
  <2>1. PICK new : GetOf(c, new)
    BY <1>1, <1>5, GetIs
  <2>2. calls[c].op # "put"
    BY <2>1, IdleIs DEF GetOf
  <2> QED
    BY <1>3, <1>5, <2>1, <2>2 DEF Get, GetOf, StartsOf, CallIs
<1>6. ASSUME NEW c \in Calls, Pack(c) \/ Read(c) \/ Unpack(c) PROVE AccountedFor(objects', known', calls', littered')
  <2>1. PICK new : Becomes(c, new) /\ IsCall(deployment, new) /\ SameAsk(new, calls[c])
    BY <1>1, <1>6, CallStepIs
  <2>2. UNCHANGED <<objects, known, littered>>
    BY <1>6 DEF Pack, Read, Unpack
  <2> QED
    BY <1>3, <2>1, <2>2 DEF CallIs
<1>7. ASSUME NEW c \in Calls, EndGet(c) PROVE AccountedFor(objects', known', calls', littered')
  <2>1. Becomes(c, NoCall) /\ calls[c].op # "put"
    BY <1>7 DEF EndGet, Becomes
  <2>2. UNCHANGED <<objects, known, littered>>
    BY <1>7 DEF EndGet
  <2> QED
    BY <1>3, <2>1, <2>2, IdleIs
<1>8. ASSUME NEW c \in Calls, Lock(c) PROVE AccountedFor(objects', known', calls', littered')
  BY <1>1, <1>8 DEF Lock
<1>9. ASSUME NEW c \in Calls, Upsert(c) PROVE AccountedFor(objects', known', calls', littered')
  <2>1. calls[c].op = "put" /\ calls[c].todo # <<>>
    BY <1>9 DEF Upsert
  <2>2. PICK call : call = calls[c] /\ IsCall(deployment, call)
    BY <1>1, <2>1, BusyIs
  <2>3. PICK lock : lock = staging[call.worker]
    OBVIOUS
  <2>4. PICK bad \in SUBSET DOMAIN call.left : \E new, after : UpsertOf(c, call, lock, bad, new, after)
    BY <1>1, <1>9, <2>2, <2>3, UpsertIs
  <2>5. PICK good : good = DOMAIN call.left \ bad
    OBVIOUS
  <2>6. Written(objects', objects, call, lock.at, good)
    BY <2>4, <2>5 DEF UpsertOf
  <2>7. PICK new : Becomes(c, new) /\ IsCall(deployment, new) /\ SameAsk(new, calls[c])
    BY <1>1, <1>9, CallStepIs
  <2>8. AccountedFor(objects, known, calls', littered)
    BY <1>1, <2>7, StaysAccountedFor DEF CallIs
  <2>9. calls'[c] = new
    BY <1>1, <2>7, OneCallChanges DEF CallIs
  <2>10. ASSUME NEW slot \in DOMAIN objects', slot \notin DOMAIN objects
         PROVE  slot[2] \in Cells /\ IsPutBy(slot, calls'[c])
    <3>1. PICK j \in good : LeftItem(call, j).slot = slot
      BY <2>6, <2>10 DEF Written
    <3>2. IsItem(LeftItem(call, j), OrderOf(call), call.ks)
      BY <2>1, <2>2, <2>5, LeftItemIs
    <3>3. slot[2] \in Cells /\ IsPutBy(slot, call)
      BY <2>1, <2>2, <3>1, <3>2, ItemIsPut
    <3> QED
      BY <2>2, <2>7, <2>9, <3>3, PutByTheSame
  <2>11. AccountedFor(objects', known, calls', littered)
    BY <2>8, <2>10 DEF AccountedFor
  <2>12. known' = known /\ littered' = littered
    BY <1>9 DEF Upsert
  <2> QED
    BY <2>11, <2>12
<1>10. ASSUME NEW c \in Calls, EndPut(c) PROVE AccountedFor(objects', known', calls', littered')
  <2>1. calls[c].op = "put"
    BY <1>10 DEF EndPut
  <2>2. PICK call : call = calls[c] /\ IsCall(deployment, call) /\ EndPutOf(c, call)
    BY <1>1, <1>10, <2>1, BusyIs, EndPutIs
  <2>3. /\ call.op = "put" /\ Becomes(c, NoCall)
        /\ known' = [e \in Cells |-> IF e \in AskedOf(call) /\ ~ call.failed THEN LayoutOf(call, e) ELSE known[e]]
        /\ littered' = littered \cup
             {e \in AskedOf(call) : \/ call.failed
                                    \/ known[e] # None /\ SlotsOf(e, known[e]) # SlotsOf(e, LayoutOf(call, e))}
    BY <2>2 DEF EndPutOf
  <2>4. \A d \in Calls : d # c => calls'[d] = calls[d]
    BY <1>1, <2>3, IdleIs, OneCallChanges
  <2>5. objects' = objects
    BY <1>10 DEF EndPut
  <2>6. ASSUME NEW slot \in DOMAIN objects, slot[2] \notin littered'
        PROVE  IsKept(slot, known') \/ \E d \in Calls : IsPutBy(slot, calls'[d])
    <3>1. PICK e \in Cells : e = slot[2]
      BY <1>1 DEF AccountedFor
    <3>2. e \notin littered /\ (IsKept(slot, known) \/ \E d \in Calls : IsPutBy(slot, calls[d]))
      BY <1>1, <2>3, <2>6, <3>1 DEF AccountedFor
    <3>3. CASE e \notin AskedOf(call)
      <4>1. known'[e] = known[e]
        BY <2>3, <3>3
      <4>2. IsKept(slot, known) => IsKept(slot, known')
        BY <3>1, <4>1 DEF IsKept
      <4>3. ASSUME NEW d \in Calls, IsPutBy(slot, calls[d]) PROVE IsPutBy(slot, calls'[d])
        <5>1. d # c
          BY <2>2, <3>1, <3>3, <4>3 DEF IsPutBy
        <5> QED
          BY <2>4, <4>3, <5>1
      <4> QED
        BY <3>2, <4>2, <4>3
    <3>4. CASE e \in AskedOf(call)
      <4>1. ~ call.failed /\ (known[e] = None \/ SlotsOf(e, known[e]) = SlotsOf(e, LayoutOf(call, e)))
        BY <2>3, <2>6, <3>1, <3>4
      <4>2. known'[e] = LayoutOf(call, e)
        BY <2>3, <3>4, <4>1
      <4>3. LayoutOf(call, e) # None
        <5>1. LayoutOf(call, e) \in Layouts
          BY <2>2, <2>3, <3>4, PutLayoutIs DEF IsLayout
        <5> QED
          BY <5>1 DEF Layouts, Places, None
      <4>4. slot \in SlotsOf(e, LayoutOf(call, e))
        <5>1. CASE IsKept(slot, known)
          BY <3>1, <4>1, <5>1 DEF IsKept
        <5>2. ASSUME NEW d \in Calls, IsPutBy(slot, calls[d]) PROVE slot \in SlotsOf(e, LayoutOf(call, e))
          <6>1. d = c
            <7> SUFFICES ASSUME d # c PROVE FALSE
              OBVIOUS
            <7>1. calls[d].op = "put" /\ e \in AskedOf(calls[d])
              BY <3>1, <5>2 DEF IsPutBy
            <7>2. AskedOf(calls[c]) \cap AskedOf(calls[d]) = {}
              BY <1>1, <2>1, <7>1 DEF ExclusiveIn
            <7> QED
              BY <2>2, <3>4, <7>1, <7>2
          <6> QED
            BY <2>2, <3>1, <5>2, <6>1 DEF IsPutBy
        <5> QED
          BY <3>2, <5>1, <5>2
      <4>5. IsKept(slot, known')
        BY <3>1, <4>2, <4>3, <4>4 DEF IsKept
      <4> QED
        BY <4>5
    <3> QED
      BY <3>3, <3>4
  <2>7. \A slot \in DOMAIN objects : slot[2] \in Cells
    BY <1>1 DEF AccountedFor
  <2>8. AccountedFor(objects, known', calls', littered')
    BY <2>6, <2>7 DEF AccountedFor
  <2> QED
    BY <2>5, <2>8
<1>11. ASSUME NEW c \in Calls, Clear(c) PROVE AccountedFor(objects', known', calls', littered')
  <2>1. PICK w \in Workers, ask \in Asked, works \in BOOLEAN :
          /\ \A e \in ask[1] \X Range(ask[2]) : known[e] # None
          /\ MayUse(ask[1] \X Range(ask[2]), {"put", "get", "clear"})
          /\ objects' = [s \in DOMAIN objects \ (IF works THEN UNION {Removed(w, e) : e \in ask[1] \X Range(ask[2])} ELSE {})
                           |-> objects[s]]
          /\ known' = [e \in Cells |-> IF e \in ask[1] \X Range(ask[2]) THEN None ELSE known[e]]
          /\ latest' = [e \in Cells |-> IF e \in ask[1] \X Range(ask[2]) THEN 0 ELSE latest[e]]
          /\ littered' = littered \cup {e \in ask[1] \X Range(ask[2]) : ~ works \/ Refuses(w, known[e])}
    BY <1>11, ZenonT(40) DEF Clear
  <2> DEFINE cells == ask[1] \X Range(ask[2])
  <2>9. /\ \A e \in cells : known[e] # None
        /\ MayUse(cells, {"put", "get", "clear"})
        /\ objects' = [s \in DOMAIN objects \ (IF works THEN UNION {Removed(w, e) : e \in cells} ELSE {}) |-> objects[s]]
        /\ known' = [e \in Cells |-> IF e \in cells THEN None ELSE known[e]]
        /\ littered' = littered \cup {e \in cells : ~ works \/ Refuses(w, known[e])}
    BY <2>1
  <2> HIDE DEF cells
  <2>2. calls' = calls
    BY <1>11 DEF Clear
  <2>3. ASSUME NEW slot \in DOMAIN objects', slot[2] \notin littered'
        PROVE  IsKept(slot, known') \/ \E d \in Calls : IsPutBy(slot, calls[d])
    <3>0. slot \in DOMAIN objects
      BY <2>9
    <3>1. PICK e \in Cells : e = slot[2]
      BY <1>1, <3>0 DEF AccountedFor
    <3>2. e \notin littered /\ (IsKept(slot, known) \/ \E d \in Calls : IsPutBy(slot, calls[d]))
      BY <1>1, <2>9, <2>3, <3>0, <3>1 DEF AccountedFor
    <3>3. CASE e \notin cells
      <4>1. known'[e] = known[e]
        BY <2>9, <3>3
      <4>2. IsKept(slot, known) => IsKept(slot, known')
        BY <3>1, <4>1 DEF IsKept
      <4> QED
        BY <3>2, <4>2
    <3>4. CASE e \in cells
      <4>1. works /\ ~ Refuses(w, known[e])
        BY <2>9, <2>3, <3>1, <3>4
      <4>2. \A d \in Calls : ~ IsPutBy(slot, calls[d])
        <5>1. ASSUME NEW d \in Calls, IsPutBy(slot, calls[d]) PROVE FALSE
          <6>1. calls[d].op = "put" /\ e \in CellsOf(d)
            BY <3>1, <5>1 DEF IsPutBy, CellsOf, AskedOf
          <6>2. CellsOf(d) \cap cells = {}
            BY <2>9, <6>1 DEF MayUse
          <6> QED
            BY <3>4, <6>1, <6>2
        <5> QED
          BY <5>1
      <4>3. known[e] # None /\ slot \in SlotsOf(e, known[e])
        BY <3>1, <3>2, <4>2 DEF IsKept
      <4>4. Seen(w, known[e]) = known[e]
        BY <1>1, <4>3, SeenIs DEF BackendShape
      <4>5. Removed(w, e) = SlotsOf(e, known[e])
        BY <4>1, <4>4 DEF Removed
      <4>6. slot \notin DOMAIN objects'
        <5>1. slot \in UNION {Removed(w, x) : x \in cells}
          BY <3>4, <4>3, <4>5
        <5> QED
          BY <2>9, <4>1, <5>1
      <4> QED
        BY <4>6
    <3> QED
      BY <3>3, <3>4
  <2>4. \A slot \in DOMAIN objects' : slot[2] \in Cells
    BY <1>1, <2>9 DEF AccountedFor
  <2>5. AccountedFor(objects', known', calls, littered')
    BY <2>3, <2>4 DEF AccountedFor
  <2> QED
    BY <2>2, <2>5
<1> QED
  BY <1>2, <1>4, <1>5, <1>6, <1>7, <1>8, <1>9, <1>10, <1>11 DEF BackendNext

LEMMA AccountsHold ==
  ASSUME AccountedFor(objects', known', calls', littered')
  PROVE  BackendAccounts'
BY DEF BackendAccounts, AccountedFor, IsKept, IsPutBy, SlotsOf, PartsOf, AskedOf, LayoutOf, OrderOf, KeyOrder, CellAt

LEMMA AccountsInit == BackendInit => BackendAccounts
<1> SUFFICES ASSUME BackendInit PROVE BackendAccounts
  OBVIOUS
<1>1. DOMAIN objects = {}
  BY DEF BackendInit
<1> QED
  BY <1>1 DEF BackendAccounts, AccountedFor

LEMMA AccountsClear == BackendAccounts => ClearedIsGone
<1> SUFFICES ASSUME BackendAccounts, NEW e \in Cells \ littered, known[e] = None,
                    \A c \in Calls : calls[c].op = "put" => e \notin CellsOf(c), NEW slot \in Holds(e)
             PROVE  FALSE
  BY DEF ClearedIsGone
<1>1. slot \in DOMAIN objects /\ slot[2] = e
  BY DEF Holds
<1>2. IsKept(slot, known) \/ \E c \in Calls : IsPutBy(slot, calls[c])
  BY <1>1 DEF BackendAccounts, AccountedFor
<1>3. ~ IsKept(slot, known)
  BY <1>1 DEF IsKept
<1>4. \A c \in Calls : ~ IsPutBy(slot, calls[c])
  BY <1>1 DEF IsPutBy, CellsOf, AskedOf
<1> QED
  BY <1>2, <1>3, <1>4

-----------------------------------------------------------------------------
(* What calls have done so far.                                            *)
ValueFor(e, n, part)     == [cell |-> e, put |-> n, part |-> part]
IsThere(store, slot, x)  == slot \in DOMAIN store /\ store[slot] = x
SlotOf(call, p, part)    == <<call.ks[p].where, OrderOf(call)[p], part>>

(* A part that is still to be transferred; what a get has in its staging   *)
(* buffer is, until it is unpacked.                                        *)
IsLeft(call, j) == j \in Range(call.left) \/ (call.op = "get" /\ call.todo[1].staged)

Awaits(call, p, part) ==
  /\ call.todo # <<>>
  /\ \/ \E m \in 2..Len(call.todo) : HasPart(call.todo[m], p, part)
     \/ \E j \in DOMAIN ItemsOfFirst(call) : IsOf(ItemsOfFirst(call)[j], p, part) /\ IsLeft(call, j)

(* What a put has no more to transfer is stored.                           *)
PutHolds(store, call) ==
  call.op = "put" /\ ~ call.failed =>
    \A p \in DOMAIN OrderOf(call) : \A part \in PartsOf(call.ks[p]) :
      Awaits(call, p, part) \/ IsThere(store, SlotOf(call, p, part), ValueFor(OrderOf(call)[p], call.put, part))

(* What a put packed is in the staging buffer, which it holds.             *)
PackHolds(lock, c, call) ==
  call.op = "put" /\ call.todo # <<>> /\ call.ready =>
    /\ call.todo[1].staged /\ lock.holder = c
    /\ \A j \in DOMAIN ItemsOfFirst(call) :
         IsThere(lock.at, ItemsOfFirst(call)[j].off, ContentOf(call, ItemsOfFirst(call)[j]))

(* A get looks for its values where they are, ...                          *)
GetKnows(kn, call) ==
  call.op = "get" => \A p \in DOMAIN OrderOf(call) : kn[OrderOf(call)[p]] # None /\ call.ks[p] = kn[OrderOf(call)[p]]

(* ... has only the values the last put wrote, ...                         *)
GotIs(lt, call) ==
  call.op = "get" /\ ~ call.failed => \A g \in call.got :
    /\ g.pos \in DOMAIN OrderOf(call)
    /\ lt[OrderOf(call)[g.pos]] # 0 =>
         \E part \in PartsOf(call.ks[g.pos]) : g.of = ValueFor(OrderOf(call)[g.pos], lt[OrderOf(call)[g.pos]], part)

(* ... has all of them that it has no more to transfer, ...                *)
GotAll(lt, call) ==
  call.op = "get" /\ ~ call.failed =>
    \A p \in DOMAIN OrderOf(call) : lt[OrderOf(call)[p]] # 0 => \A part \in PartsOf(call.ks[p]) :
      \/ Awaits(call, p, part)
      \/ \E g \in call.got : g.pos = p /\ g.of = ValueFor(OrderOf(call)[p], lt[OrderOf(call)[p]], part)

IsBuffered(lt, at, i) ==
  /\ i.off \in DOMAIN at
  /\ lt[i.slot[2]] # 0 => at[i.off] = ValueFor(i.slot[2], lt[i.slot[2]], i.slot[3])

(* ... and has those that it read into the staging buffer there.           *)
BufferHolds(lt, lock, c, call) ==
  call.op = "get" /\ call.todo # <<>> =>
    /\ call.ready => call.todo[1].staged /\ lock.holder = c
    /\ \A j \in DOMAIN ItemsOfFirst(call) :
         call.todo[1].staged /\ (call.ready \/ j \notin Range(call.left)) =>
           lock.holder = c /\ IsBuffered(lt, lock.at, ItemsOfFirst(call)[j])

CallHolds(store, kn, lt, lock, c, call) ==
  /\ PutHolds(store, call) /\ PackHolds(lock, c, call)
  /\ GetKnows(kn, call) /\ GotIs(lt, call) /\ GotAll(lt, call) /\ BufferHolds(lt, lock, c, call)

(* A cell nobody puts has what the last put wrote.                         *)
IsStored(store, k, e, n) == \A part \in PartsOf(k) : IsThere(store, <<k.where, e, part>>, ValueFor(e, n, part))

StoreHolds(store, kn, lt, cs) ==
  \A e \in Cells : lt[e] # 0 /\ (\A c \in Calls : cs[c].op = "put" => e \notin AskedOf(cs[c])) =>
    kn[e] # None /\ IsStored(store, kn[e], e, lt[e])

LEMMA NoCallHolds ==
  ASSUME NEW store, NEW kn, NEW lt, NEW lock, NEW c
  PROVE  CallHolds(store, kn, lt, lock, c, NoCall)
BY IdleIs DEF CallHolds, PutHolds, PackHolds, GetKnows, GotIs, GotAll, BufferHolds

LEMMA SameOrder ==
  ASSUME NEW new, NEW call, SameAsk(new, call)
  PROVE  OrderOf(new) = OrderOf(call) /\ AskedOf(new) = AskedOf(call)
BY DEF SameAsk, OrderOf, AskedOf

(* The call is left alone, with the cells it uses and the buffer it holds. *)
LEMMA HoldsStill ==
  ASSUME NEW d, NEW call, CallIs(d, call), NEW c,
         NEW store, NEW kn, NEW lt, NEW lock, CallHolds(store, kn, lt, lock, c, call),
         NEW store2, NEW kn2, NEW lt2, NEW lock2,
         call.op = "put" => \A slot \in DOMAIN store : slot[2] \in AskedOf(call) =>
                              slot \in DOMAIN store2 /\ store2[slot] = store[slot],
         call.op = "get" => \A e \in AskedOf(call) : kn2[e] = kn[e] /\ lt2[e] = lt[e],
         lock.holder = c => lock2 = lock
  PROVE  CallHolds(store2, kn2, lt2, lock2, c, call)
<1>1. CASE call = NoCall
  BY <1>1, NoCallHolds
<1>2. CASE IsCall(d, call)
  <2>1. \A p \in DOMAIN OrderOf(call) : OrderOf(call)[p] \in AskedOf(call)
    BY <1>2, CellsOfCall
  <2>2. PutHolds(store2, call)
    <3> SUFFICES ASSUME call.op = "put", ~ call.failed, NEW p \in DOMAIN OrderOf(call), NEW part \in PartsOf(call.ks[p]),
                        ~ Awaits(call, p, part)
                 PROVE  IsThere(store2, SlotOf(call, p, part), ValueFor(OrderOf(call)[p], call.put, part))
      BY DEF PutHolds
    <3>1. IsThere(store, SlotOf(call, p, part), ValueFor(OrderOf(call)[p], call.put, part))
      BY DEF CallHolds, PutHolds
    <3>2. SlotOf(call, p, part)[2] \in AskedOf(call)
      BY <2>1 DEF SlotOf
    <3> QED
      BY <3>1, <3>2 DEF IsThere
  <2>3. PackHolds(lock2, c, call)
    BY DEF CallHolds, PackHolds
  <2>4. GetKnows(kn2, call)
    BY <2>1 DEF CallHolds, GetKnows
  <2>5. GotIs(lt2, call)
    BY <2>1 DEF CallHolds, GotIs
  <2>6. GotAll(lt2, call)
    BY <2>1 DEF CallHolds, GotAll
  <2>7. BufferHolds(lt2, lock2, c, call)
    <3> SUFFICES ASSUME call.op = "get", call.todo # <<>> PROVE BufferHolds(lt2, lock2, c, call)
      BY DEF BufferHolds
    <3>1. IsTransfer(call.todo[1], OrderOf(call), call.ks)
      BY <1>2, FirstIs
    <3>2. ASSUME NEW j \in DOMAIN ItemsOfFirst(call) PROVE ItemsOfFirst(call)[j].slot[2] \in AskedOf(call)
      BY <2>1, <3>1 DEF IsTransfer, IsItem, ItemsOfFirst
    <3> QED
      BY <3>2 DEF CallHolds, BufferHolds, IsBuffered
  <2> QED
    BY <2>2, <2>3, <2>4, <2>5, <2>6, <2>7 DEF CallHolds
<1> QED
  BY <1>1, <1>2 DEF CallIs

-----------------------------------------------------------------------------
(* What is left to transfer.                                               *)
LEMMA FreshAwaits ==
  ASSUME NEW new, new.todo \in Seq(AllTransfers), new.left = FreshLeft(new.todo),
         NEW m \in 1..Len(new.todo), NEW p, NEW part, HasPart(new.todo[m], p, part)
  PROVE  Awaits(new, p, part)
<1>1. new.todo # <<>>
  OBVIOUS
<1>2. CASE m = 1
  <2>1. PICK j \in DOMAIN ItemsOfFirst(new) : IsOf(ItemsOfFirst(new)[j], p, part)
    BY <1>2 DEF HasPart, ItemsOfFirst
  <2>2. j \in DOMAIN new.left /\ new.left[j] = j
    BY <1>1, <2>1, FreshLeftIs DEF ItemsOfFirst
  <2>3. j \in Range(new.left)
    BY <2>2 DEF Range
  <2>4. IsLeft(new, j)
    BY <2>3 DEF IsLeft
  <2> QED
    BY <1>1, <2>1, <2>4 DEF Awaits
<1>3. CASE m # 1
  BY <1>1, <1>3 DEF Awaits
<1> QED
  BY <1>2, <1>3

LEMMA CoveredAwaits ==
  ASSUME NEW d, NEW new, IsCall(d, new), new.left = FreshLeft(new.todo),
         Covers(new.todo, new.ks, DOMAIN OrderOf(new)),
         NEW p \in DOMAIN OrderOf(new), NEW part \in PartsOf(new.ks[p])
  PROVE  Awaits(new, p, part)
<1>1. new.todo \in Seq(AllTransfers)
  BY DEF IsCall, AreTransfers
<1>2. PICK t \in Range(new.todo) : HasPart(t, p, part)
  BY DEF Covers
<1>3. PICK m \in 1..Len(new.todo) : new.todo[m] = t
  BY <1>1, <1>2 DEF Range
<1> QED
  BY <1>1, <1>2, <1>3, FreshAwaits

LEMMA GoesOnAwaits ==
  ASSUME NEW d, NEW call, IsCall(d, call), call.todo # <<>>, NEW new, GoesOn(new, call),
         NEW m \in 2..Len(call.todo), NEW p, NEW part, HasPart(call.todo[m], p, part)
  PROVE  Awaits(new, p, part)
<1>1. call.todo \in Seq(AllTransfers)
  BY FirstIs
<1>2. m \in DOMAIN call.todo /\ m # 1
  BY <1>1
<1>3. m - 1 \in DOMAIN new.todo /\ new.todo[m - 1] = call.todo[m] /\ new.todo \in Seq(AllTransfers)
  BY <1>2, RestIs DEF GoesOn
<1>4. new.left = FreshLeft(new.todo) /\ m - 1 \in 1..Len(new.todo)
  BY <1>3 DEF GoesOn
<1> QED
  BY <1>3, <1>4, FreshAwaits

-----------------------------------------------------------------------------
(* Items of the first transfer of a call.                                  *)
LEMMA ItemOfFirstIs ==
  ASSUME NEW d, NEW call, IsCall(d, call), call.todo # <<>>, NEW j \in DOMAIN ItemsOfFirst(call)
  PROVE  LET i == ItemsOfFirst(call)[j]
         IN  /\ i \in Items /\ i.pos \in DOMAIN OrderOf(call) /\ i.slot[3] \in PartsOf(call.ks[i.pos])
             /\ i.slot = SlotOf(call, i.pos, i.slot[3]) /\ i.slot[2] = OrderOf(call)[i.pos]
<1>1. IsItem(ItemsOfFirst(call)[j], OrderOf(call), call.ks)
  BY FirstIs DEF IsTransfer, ItemsOfFirst
<1> QED
  BY <1>1 DEF IsItem, SlotOf

(* The items of a staged transfer have offsets of their own.               *)
LEMMA OffsetsDiffer ==
  ASSUME NEW d, NEW call, IsCall(d, call), call.todo # <<>>, call.todo[1].staged,
         NEW i \in DOMAIN ItemsOfFirst(call), NEW j \in DOMAIN ItemsOfFirst(call), i # j
  PROVE  ItemsOfFirst(call)[i].off # ItemsOfFirst(call)[j].off
<1>1. ItemsFit(ItemsOfFirst(call), call.ks) /\ call.todo[1].items \in Seq(Items)
  BY FirstIs DEF IsTransfer, ItemsOfFirst, AllTransfers
<1>2. i \in Nat /\ j \in Nat
  BY <1>1 DEF ItemsOfFirst
<1>3. ItemsOfFirst(call)[i].off \in Nat /\ ItemsOfFirst(call)[j].off \in Nat
  <2>1. ItemsOfFirst(call)[i] \in Items /\ ItemsOfFirst(call)[j] \in Items
    BY ItemOfFirstIs
  <2> QED
    BY <2>1 DEF Items
<1>4. /\ Bytes(ItemsOfFirst(call)[i], call.ks) \in Nat \ {0} /\ Bytes(ItemsOfFirst(call)[j], call.ks) \in Nat \ {0}
      /\ i < j => ItemsOfFirst(call)[i].off + Bytes(ItemsOfFirst(call)[i], call.ks) <= ItemsOfFirst(call)[j].off
      /\ j < i => ItemsOfFirst(call)[j].off + Bytes(ItemsOfFirst(call)[j], call.ks) <= ItemsOfFirst(call)[i].off
  BY <1>1 DEF ItemsFit
<1> HIDE DEF ItemsOfFirst
<1> QED
  BY <1>2, <1>3, <1>4

-----------------------------------------------------------------------------
(* A put that packs has in the buffer what it puts.                        *)
LEMMA PackingHolds ==
  ASSUME NEW d, NEW call, IsCall(d, call), NEW c \in Calls, NEW lock, NEW new, NEW at,
         PackOf(c, call, lock, new, at), NEW store, PutHolds(store, call)
  PROVE  PutHolds(store, new) /\ PackHolds([holder |-> lock.holder, at |-> at], c, new)
<1>1. /\ call.op = "put" /\ call.todo # <<>> /\ call.todo[1].staged /\ lock.holder = c
      /\ SameAsk(new, call) /\ new.ready = TRUE /\ new.failed = call.failed
      /\ new.todo = call.todo /\ new.left = call.left /\ Packed(at, call)
  BY DEF PackOf, HasFirst
<1>2. OrderOf(new) = OrderOf(call) /\ new.ks = call.ks /\ new.op = call.op /\ new.put = call.put
  BY <1>1, SameOrder DEF SameAsk
<1>3. ItemsOfFirst(new) = ItemsOfFirst(call)
  BY <1>1 DEF ItemsOfFirst
<1>4. ASSUME NEW p, NEW part, Awaits(call, p, part) PROVE Awaits(new, p, part)
  BY <1>1, <1>2, <1>3, <1>4 DEF Awaits, IsLeft
<1>5. PutHolds(store, new)
  BY <1>1, <1>2, <1>4 DEF PutHolds, SlotOf
<1>6. ASSUME NEW j \in DOMAIN ItemsOfFirst(call)
      PROVE  IsThere(at, ItemsOfFirst(call)[j].off, ContentOf(call, ItemsOfFirst(call)[j]))
  <2>1. PICK i \in DOMAIN ItemsOfFirst(call) :
          /\ ItemsOfFirst(call)[i].off = ItemsOfFirst(call)[j].off
          /\ ItemsOfFirst(call)[j].off \in DOMAIN at
          /\ at[ItemsOfFirst(call)[j].off] = ContentOf(call, ItemsOfFirst(call)[i])
    BY <1>1 DEF Packed
  <2>2. i = j
    BY <1>1, <2>1, OffsetsDiffer
  <2> QED
    BY <2>1, <2>2 DEF IsThere
<1>7. \A i : ContentOf(new, i) = ContentOf(call, i)
  BY <1>2 DEF ContentOf
<1>8. PackHolds([holder |-> lock.holder, at |-> at], c, new)
  BY <1>1, <1>3, <1>6, <1>7 DEF PackHolds
<1> QED
  BY <1>5, <1>8

(* What an attempt writes is what was to be written.                       *)
LEMMA WritesAreRight ==
  ASSUME NEW d, NEW call, IsCall(d, call), call.op = "put", call.todo # <<>>, NEW c, NEW lock,
         PackHolds(lock, c, call), call.todo[1].staged => call.ready,
         NEW store, NEW store2, NEW good \in SUBSET DOMAIN call.left, Written(store2, store, call, lock.at, good)
  PROVE  /\ \A j \in good : IsThere(store2, LeftItem(call, j).slot, ContentOf(call, LeftItem(call, j)))
         /\ \A slot : IsThere(store, slot, ValueFor(slot[2], call.put, slot[3])) =>
                      IsThere(store2, slot, ValueFor(slot[2], call.put, slot[3]))
<1>1. ASSUME NEW j \in good PROVE IsThere(store2, LeftItem(call, j).slot, ContentOf(call, LeftItem(call, j)))
  <2>1. PICK i \in good :
          /\ LeftItem(call, i).slot = LeftItem(call, j).slot
          /\ store2[LeftItem(call, j).slot] = IF call.todo[1].staged THEN InBuffer(lock.at, LeftItem(call, i).off)
                                              ELSE ContentOf(call, LeftItem(call, i))
    BY DEF Written
  <2>2. ContentOf(call, LeftItem(call, i)) = ContentOf(call, LeftItem(call, j))
    BY <2>1 DEF ContentOf
  <2>3. call.todo[1].staged => InBuffer(lock.at, LeftItem(call, i).off) = ContentOf(call, LeftItem(call, i))
    <3>1. PICK n \in DOMAIN ItemsOfFirst(call) : ItemsOfFirst(call)[n] = LeftItem(call, i)
      BY LeftItemIs
    <3> QED
      BY <3>1 DEF PackHolds, IsThere, InBuffer
  <2>4. LeftItem(call, j).slot \in DOMAIN store2
    BY DEF Written
  <2> QED
    BY <2>1, <2>2, <2>3, <2>4 DEF IsThere
<1>2. ASSUME NEW slot, IsThere(store, slot, ValueFor(slot[2], call.put, slot[3]))
      PROVE  IsThere(store2, slot, ValueFor(slot[2], call.put, slot[3]))
  <2>1. CASE \E j \in good : LeftItem(call, j).slot = slot
    BY <1>1, <2>1 DEF ContentOf, ValueFor
  <2>2. CASE \A j \in good : LeftItem(call, j).slot # slot
    BY <1>2, <2>2 DEF Written, IsThere
  <2> QED
    BY <2>1, <2>2
<1> QED
  BY <1>1, <1>2

(* An attempt of a put: what succeeded is stored, what failed is left.     *)
LEMMA UpsertingHolds ==
  ASSUME NEW d, NEW call, IsCall(d, call), NEW c, NEW lock,
         NEW bad \in SUBSET DOMAIN call.left, NEW new, NEW after, NEW store, NEW store2,
         call.op = "put", HasFirst(call), call.todo[1].staged => call.ready,
         UpsertEnds(new, call, bad, after, lock), Written(store2, store, call, lock.at, DOMAIN call.left \ bad),
         PutHolds(store, call), PackHolds(lock, c, call)
  PROVE  PutHolds(store2, new) /\ PackHolds(after, c, new)
<1>1. call.todo # <<>> /\ SameAsk(new, call)
  BY DEF UpsertEnds, GoesOn, TriesAgain, Fails, HasFirst
<1>2. OrderOf(new) = OrderOf(call) /\ new.ks = call.ks /\ new.op = call.op /\ new.put = call.put
  BY <1>1, SameOrder DEF SameAsk
<1>3. PICK good \in SUBSET DOMAIN call.left : good = DOMAIN call.left \ bad
  OBVIOUS
<1>8. Written(store2, store, call, lock.at, good)
  BY <1>3
<1>4. /\ \A j \in good : IsThere(store2, LeftItem(call, j).slot, ContentOf(call, LeftItem(call, j)))
      /\ \A slot : IsThere(store, slot, ValueFor(slot[2], call.put, slot[3])) =>
                   IsThere(store2, slot, ValueFor(slot[2], call.put, slot[3]))
  BY <1>1, <1>8, WritesAreRight
<1>5. PackHolds(after, c, new)
  <2>1. CASE GoesOn(new, call)
    BY <2>1 DEF PackHolds, GoesOn
  <2>2. CASE TriesAgain(new, call, bad) /\ after = lock
    <3>1. ItemsOfFirst(new) = ItemsOfFirst(call) /\ new.todo = call.todo /\ new.ready = call.ready
      BY <2>2 DEF TriesAgain, ItemsOfFirst
    <3>2. \A i : ContentOf(new, i) = ContentOf(call, i)
      BY <1>2 DEF ContentOf
    <3> QED
      BY <1>2, <2>2, <3>1, <3>2 DEF PackHolds
  <2>3. CASE Fails(new, call) /\ new.todo = <<>>
    BY <2>3 DEF PackHolds
  <2> QED
    BY <2>1, <2>2, <2>3 DEF UpsertEnds, Fails
<1>6. ASSUME ~ new.failed, NEW p \in DOMAIN OrderOf(call), NEW part \in PartsOf(call.ks[p])
      PROVE  Awaits(new, p, part) \/ IsThere(store2, SlotOf(call, p, part), ValueFor(OrderOf(call)[p], call.put, part))
  <2>1. ~ call.failed /\ ((bad = {} /\ GoesOn(new, call)) \/ TriesAgain(new, call, bad))
    BY <1>6 DEF UpsertEnds, Fails, TriesAgain
  <2>2. SlotOf(call, p, part)[2] = OrderOf(call)[p] /\ SlotOf(call, p, part)[3] = part
    BY DEF SlotOf
  <2>3. CASE IsThere(store, SlotOf(call, p, part), ValueFor(OrderOf(call)[p], call.put, part))
    BY <1>4, <2>2, <2>3
  <2>4. ASSUME NEW m \in 2..Len(call.todo), HasPart(call.todo[m], p, part) PROVE Awaits(new, p, part)
    <3>1. CASE GoesOn(new, call)
      BY <1>1, <2>4, <3>1, GoesOnAwaits
    <3>2. CASE TriesAgain(new, call, bad)
      <4>1. new.todo = call.todo
        BY <3>2 DEF TriesAgain
      <4> QED
        BY <1>1, <2>4, <4>1 DEF Awaits
    <3> QED
      BY <2>1, <3>1, <3>2
  <2>5. ASSUME NEW j \in DOMAIN ItemsOfFirst(call), IsOf(ItemsOfFirst(call)[j], p, part), IsLeft(call, j)
        PROVE  Awaits(new, p, part) \/ IsThere(store2, SlotOf(call, p, part), ValueFor(OrderOf(call)[p], call.put, part))
    <3>1. PICK n \in DOMAIN call.left : call.left[n] = j
      BY <2>5 DEF IsLeft, Range
    <3>2. LeftItem(call, n) = ItemsOfFirst(call)[j]
      BY <3>1 DEF LeftItem, ItemsOfFirst
    <3>3. LeftItem(call, n).slot = SlotOf(call, p, part)
      BY <1>1, <2>5, <3>2, ItemOfFirstIs DEF IsOf
    <3>4. CASE n \in good
      BY <1>4, <2>2, <3>3, <3>4 DEF ContentOf, ValueFor
    <3>5. CASE n \in bad
      <4>1. TriesAgain(new, call, bad)
        BY <2>1, <3>5
      <4>2. j \in Range(new.left) /\ new.todo = call.todo
        BY <3>1, <3>5, <4>1 DEF TriesAgain, AreOf
      <4>3. IsLeft(new, j) /\ ItemsOfFirst(new) = ItemsOfFirst(call)
        BY <4>2 DEF IsLeft, ItemsOfFirst
      <4> QED
        BY <1>1, <2>5, <4>2, <4>3 DEF Awaits
    <3> QED
      BY <1>3, <3>4, <3>5
  <2> QED
    BY <2>1, <2>3, <2>4, <2>5 DEF PutHolds, Awaits
<1>7. PutHolds(store2, new)
  <2>1. \A p, part : SlotOf(new, p, part) = SlotOf(call, p, part)
    BY <1>2 DEF SlotOf
  <2> QED
    BY <1>2, <1>6, <2>1 DEF PutHolds
<1> QED
  BY <1>5, <1>7

-----------------------------------------------------------------------------
(* Where a get looks, it finds what the last put wrote.                    *)
FindsLatest(store, lt, call) ==
  \A p \in DOMAIN OrderOf(call) : lt[OrderOf(call)[p]] # 0 => \A part \in PartsOf(call.ks[p]) :
    SlotOf(call, p, part) \in DOMAIN store =>
      store[SlotOf(call, p, part)] = ValueFor(OrderOf(call)[p], lt[OrderOf(call)[p]], part)

LEMMA FirstIsFresh ==
  ASSUME NEW d, NEW call, IsCall(d, call), call.todo # <<>>, NEW new, GoesOn(new, call),
         NEW lt, NEW lock, NEW c
  PROVE  BufferHolds(lt, lock, c, new)
<1>1. new.ready = FALSE /\ new.todo = Tail(call.todo) /\ new.left = FreshLeft(new.todo)
  BY DEF GoesOn
<1>2. new.todo \in Seq(AllTransfers)
  BY <1>1, RestIs
<1>3. ASSUME new.todo # <<>>, NEW j \in DOMAIN ItemsOfFirst(new) PROVE j \in Range(new.left)
  <2>1. j \in DOMAIN new.left /\ new.left[j] = j
    BY <1>1, <1>2, <1>3, FreshLeftIs DEF ItemsOfFirst
  <2> QED
    BY <2>1 DEF Range
<1> QED
  BY <1>1, <1>3 DEF BufferHolds

(* What an attempt reads into the buffer.                                  *)
LEMMA FillsAreRight ==
  ASSUME NEW d, NEW call, IsCall(d, call), call.op = "get", call.todo # <<>>, call.todo[1].staged,
         NEW c, NEW lock, NEW lt, BufferHolds(lt, lock, c, call),
         NEW store, FindsLatest(store, lt, call), NEW at, NEW good \in SUBSET DOMAIN call.left,
         \A n \in good : LeftItem(call, n).slot \in DOMAIN store,
         Filled(at, lock.at, store, call, good),
         NEW j \in DOMAIN ItemsOfFirst(call), j \notin Range(call.left) \/ \E n \in good : call.left[n] = j
  PROVE  IsBuffered(lt, at, ItemsOfFirst(call)[j])
<1>1. PICK i : i = ItemsOfFirst(call)[j]
  OBVIOUS
<1>2. /\ i.pos \in DOMAIN OrderOf(call) /\ i.slot[3] \in PartsOf(call.ks[i.pos])
      /\ i.slot = SlotOf(call, i.pos, i.slot[3]) /\ i.slot[2] = OrderOf(call)[i.pos]
  BY <1>1, ItemOfFirstIs
<1>3. \A n \in good : call.left[n] \in DOMAIN ItemsOfFirst(call) /\ LeftItem(call, n) = ItemsOfFirst(call)[call.left[n]]
  BY LeftItemIs
<1>4. ASSUME NEW n \in good, LeftItem(call, n).off = i.off PROVE call.left[n] = j
  BY <1>1, <1>3, <1>4, OffsetsDiffer
<1>5. CASE \E n \in good : call.left[n] = j
  <2>1. PICK n \in good : call.left[n] = j
    BY <1>5
  <2>2. LeftItem(call, n) = i
    BY <1>1, <1>3, <2>1
  <2>3. PICK m \in good : /\ LeftItem(call, m).off = LeftItem(call, n).off /\ LeftItem(call, n).off \in DOMAIN at
                          /\ at[LeftItem(call, n).off] = store[LeftItem(call, m).slot]
    BY DEF Filled
  <2>4. LeftItem(call, m) = i
    BY <1>1, <1>3, <1>4, <2>2, <2>3
  <2>5. i.slot \in DOMAIN store
    BY <2>4
  <2>6. lt[i.slot[2]] # 0 => store[i.slot] = ValueFor(i.slot[2], lt[i.slot[2]], i.slot[3])
    BY <1>2, <2>5 DEF FindsLatest
  <2> QED
    BY <1>1, <2>2, <2>3, <2>4, <2>6 DEF IsBuffered
<1>6. CASE j \notin Range(call.left)
  <2>1. \A n \in good : LeftItem(call, n).off # i.off
    BY <1>4, <1>6 DEF Range
  <2>2. IsBuffered(lt, lock.at, i)
    BY <1>1, <1>6 DEF BufferHolds
  <2>3. i.off \in DOMAIN at /\ at[i.off] = lock.at[i.off]
    BY <2>1, <2>2 DEF Filled, IsBuffered
  <2> QED
    BY <1>1, <2>2, <2>3 DEF IsBuffered
<1> QED
  BY <1>5, <1>6

(* An attempt of a get: what succeeded is taken, or is in the buffer.      *)
LEMMA ReadingHolds ==
  ASSUME NEW d, NEW call, IsCall(d, call), NEW c, NEW lock, NEW lt, NEW store,
         NEW bad \in SUBSET DOMAIN call.left, NEW new, NEW after, NEW at,
         call.op = "get", HasFirst(call), ~ call.ready, call.todo[1].staged => lock.holder = c,
         \A j \in DOMAIN call.left \ bad : LeftItem(call, j).slot \in DOMAIN store,
         Filled(at, lock.at, store, call, DOMAIN call.left \ bad),
         ReadEnds(new, call, bad, after, lock, at, Taken(store, call, DOMAIN call.left \ bad)),
         FindsLatest(store, lt, call), BufferHolds(lt, lock, c, call), GotIs(lt, call), GotAll(lt, call)
  PROVE  GotIs(lt, new) /\ GotAll(lt, new) /\ BufferHolds(lt, after, c, new)
<1>1. PICK good, got : good = DOMAIN call.left \ bad /\ got = Taken(store, call, good)
  OBVIOUS
<1>2. /\ \A n \in good : n \in DOMAIN call.left /\ LeftItem(call, n).slot \in DOMAIN store
      /\ \A n \in DOMAIN call.left : n \in good \/ n \in bad
      /\ Filled(at, lock.at, store, call, good)
      /\ ReadEnds(new, call, bad, after, lock, at, got)
  BY <1>1
<1>3. call.todo # <<>> /\ SameAsk(new, call)
  BY <1>2 DEF ReadEnds, GoesOn, TriesAgain, Fails, HasFirst
<1>4. OrderOf(new) = OrderOf(call) /\ new.ks = call.ks /\ new.op = call.op
  BY <1>3, SameOrder DEF SameAsk
<1>5. \A n \in good : call.left[n] \in DOMAIN ItemsOfFirst(call) /\ LeftItem(call, n) = ItemsOfFirst(call)[call.left[n]]
  BY <1>2, <1>3, LeftItemIs
<1>6. ASSUME NEW n \in good
      PROVE  LET i == LeftItem(call, n)
             IN  /\ i.pos \in DOMAIN OrderOf(call) /\ i.slot[3] \in PartsOf(call.ks[i.pos])
                 /\ lt[OrderOf(call)[i.pos]] # 0 =>
                      store[i.slot] = ValueFor(OrderOf(call)[i.pos], lt[OrderOf(call)[i.pos]], i.slot[3])
  <2>1. PICK j \in DOMAIN ItemsOfFirst(call) : LeftItem(call, n) = ItemsOfFirst(call)[j]
    BY <1>5
  <2>2. PICK i : i = LeftItem(call, n)
    OBVIOUS
  <2>3. /\ i.pos \in DOMAIN OrderOf(call) /\ i.slot[3] \in PartsOf(call.ks[i.pos])
        /\ i.slot = SlotOf(call, i.pos, i.slot[3]) /\ i.slot \in DOMAIN store
    BY <1>2, <1>3, <2>1, <2>2, ItemOfFirstIs
  <2> QED
    BY <2>2, <2>3 DEF FindsLatest
<1>7. ~ new.failed => /\ ~ call.failed
                      /\ \/ bad = {} /\ call.todo[1].staged /\ new.todo = call.todo /\ new.left = call.left /\ new.got = call.got
                         \/ bad = {} /\ ~ call.todo[1].staged /\ GoesOn(new, call) /\ new.got = call.got \cup got
                         \/ TriesAgain(new, call, bad) /\ new.got = IF call.todo[1].staged THEN call.got ELSE call.got \cup got
  BY <1>2 DEF ReadEnds, Fails, TriesAgain
<1>8. GotIs(lt, new)
  <2> SUFFICES ASSUME ~ new.failed, NEW g \in new.got
               PROVE  /\ g.pos \in DOMAIN OrderOf(call)
                      /\ lt[OrderOf(call)[g.pos]] # 0 =>
                           \E part \in PartsOf(call.ks[g.pos]) : g.of = ValueFor(OrderOf(call)[g.pos], lt[OrderOf(call)[g.pos]], part)
    BY <1>4 DEF GotIs
  <2>1. CASE g \in call.got
    BY <1>7, <2>1 DEF GotIs
  <2>2. CASE g \in got
    <3>1. PICK n \in good : g = [pos |-> LeftItem(call, n).pos, of |-> store[LeftItem(call, n).slot]]
      BY <1>1, <2>2 DEF Taken
    <3>2. g.pos = LeftItem(call, n).pos /\ g.of = store[LeftItem(call, n).slot]
      BY <3>1
    <3> QED
      BY <1>6, <3>2
  <2> QED
    BY <1>7, <2>1, <2>2
<1>9. GotAll(lt, new)
  <2> SUFFICES ASSUME ~ new.failed, NEW p \in DOMAIN OrderOf(call), lt[OrderOf(call)[p]] # 0, NEW part \in PartsOf(call.ks[p])
               PROVE  \/ Awaits(new, p, part)
                      \/ \E g \in new.got : g.pos = p /\ g.of = ValueFor(OrderOf(call)[p], lt[OrderOf(call)[p]], part)
    BY <1>4 DEF GotAll
  <2>1. CASE \E g \in call.got : g.pos = p /\ g.of = ValueFor(OrderOf(call)[p], lt[OrderOf(call)[p]], part)
    BY <1>7, <2>1
  <2>2. ASSUME NEW m \in 2..Len(call.todo), HasPart(call.todo[m], p, part) PROVE Awaits(new, p, part)
    <3>1. CASE GoesOn(new, call)
      BY <1>3, <2>2, <3>1, GoesOnAwaits
    <3>2. CASE new.todo = call.todo
      BY <1>3, <2>2, <3>2 DEF Awaits
    <3> QED
      BY <1>7, <3>1, <3>2 DEF TriesAgain
  <2>3. ASSUME NEW j \in DOMAIN ItemsOfFirst(call), IsOf(ItemsOfFirst(call)[j], p, part), IsLeft(new, j), new.todo = call.todo
        PROVE  Awaits(new, p, part)
    BY <1>3, <2>3 DEF Awaits, ItemsOfFirst
  <2>4. ASSUME NEW j \in DOMAIN ItemsOfFirst(call), IsOf(ItemsOfFirst(call)[j], p, part), IsLeft(call, j)
        PROVE  \/ Awaits(new, p, part)
               \/ \E g \in new.got : g.pos = p /\ g.of = ValueFor(OrderOf(call)[p], lt[OrderOf(call)[p]], part)
    <3>1. CASE call.todo[1].staged
      <4>1. new.todo = call.todo
        BY <1>7, <3>1 DEF TriesAgain
      <4>2. IsLeft(new, j)
        BY <1>4, <3>1, <4>1 DEF IsLeft
      <4> QED
        BY <2>3, <2>4, <4>1, <4>2
    <3>2. CASE ~ call.todo[1].staged
      <4>1. PICK n \in DOMAIN call.left : call.left[n] = j
        BY <2>4, <3>2 DEF IsLeft, Range
      <4>2. CASE n \in bad
        <5>1. TriesAgain(new, call, bad)
          BY <1>7, <3>2, <4>2
        <5>2. j \in Range(new.left) /\ new.todo = call.todo
          BY <4>1, <4>2, <5>1 DEF TriesAgain, AreOf
        <5>3. IsLeft(new, j)
          BY <5>2 DEF IsLeft
        <5> QED
          BY <2>3, <2>4, <5>2, <5>3
      <4>3. CASE n \in good
        <5>1. [pos |-> LeftItem(call, n).pos, of |-> store[LeftItem(call, n).slot]] \in got
          BY <1>1, <4>3 DEF Taken
        <5>2. new.got = call.got \cup got
          BY <1>7, <3>2
        <5>3. LeftItem(call, n).pos = p /\ LeftItem(call, n).slot[3] = part
          BY <1>5, <2>4, <4>1, <4>3 DEF IsOf
        <5>4. store[LeftItem(call, n).slot] = ValueFor(OrderOf(call)[p], lt[OrderOf(call)[p]], part)
          BY <1>6, <4>3, <5>3
        <5>5. PICK g \in new.got : g = [pos |-> LeftItem(call, n).pos, of |-> store[LeftItem(call, n).slot]]
          BY <5>1, <5>2
        <5>6. g.pos = p /\ g.of = ValueFor(OrderOf(call)[p], lt[OrderOf(call)[p]], part)
          BY <5>3, <5>4, <5>5
        <5> QED
          BY <5>6
      <4> QED
        BY <1>2, <4>2, <4>3
    <3> QED
      BY <3>1, <3>2
  <2>5. \/ \E g \in call.got : g.pos = p /\ g.of = ValueFor(OrderOf(call)[p], lt[OrderOf(call)[p]], part)
        \/ Awaits(call, p, part)
    BY <1>7 DEF GotAll
  <2> QED
    BY <2>1, <2>2, <2>4, <2>5 DEF Awaits
<1>10. BufferHolds(lt, after, c, new)
  <2>1. CASE GoesOn(new, call)
    BY <1>3, <2>1, FirstIsFresh
  <2>2. CASE new.todo = <<>>
    BY <2>2 DEF BufferHolds
  <2>3. CASE ~ call.todo[1].staged /\ new.todo = call.todo /\ new.ready = FALSE
    BY <2>3 DEF BufferHolds
  <2>4. ASSUME call.todo[1].staged, new.todo = call.todo, after = [holder |-> lock.holder, at |-> at],
               \A j \in DOMAIN ItemsOfFirst(call) : new.ready \/ j \notin Range(new.left) =>
                 j \notin Range(call.left) \/ \E n \in good : call.left[n] = j
        PROVE  BufferHolds(lt, after, c, new)
    <3>1. ASSUME NEW j \in DOMAIN ItemsOfFirst(call), new.ready \/ j \notin Range(new.left)
          PROVE  IsBuffered(lt, at, ItemsOfFirst(call)[j])
      <4>1. j \notin Range(call.left) \/ \E n \in good : call.left[n] = j
        BY <2>4, <3>1
      <4>2. good \in SUBSET DOMAIN call.left
        BY <1>1
      <4>3. /\ call.todo # <<>> /\ Filled(at, lock.at, store, call, good)
            /\ \A n \in good : LeftItem(call, n).slot \in DOMAIN store
        BY <1>2, <1>3
      <4> QED
        BY <2>4, <4>1, <4>2, <4>3, FillsAreRight
    <3>2. ItemsOfFirst(new) = ItemsOfFirst(call) /\ after.holder = c /\ after.at = at
      BY <2>4 DEF ItemsOfFirst
    <3> QED
      BY <2>4, <3>1, <3>2 DEF BufferHolds
  <2>5. CASE bad = {} /\ call.todo[1].staged /\ new.todo = call.todo /\ new.left = call.left
             /\ after = [holder |-> lock.holder, at |-> at]
    <3>1. \A j \in DOMAIN ItemsOfFirst(call) : j \notin Range(call.left) \/ \E n \in good : call.left[n] = j
      BY <1>2, <2>5 DEF Range
    <3> QED
      BY <2>4, <2>5, <3>1
  <2>6. CASE TriesAgain(new, call, bad) /\ call.todo[1].staged /\ after = [holder |-> lock.holder, at |-> at]
    <3>1. new.ready = call.ready /\ new.todo = call.todo /\ \A j \in bad : call.left[j] \in Range(new.left)
      BY <2>6 DEF TriesAgain, AreOf
    <3>2. \A j \in DOMAIN ItemsOfFirst(call) : new.ready \/ j \notin Range(new.left) =>
            j \notin Range(call.left) \/ \E n \in good : call.left[n] = j
      BY <1>2, <3>1 DEF Range
    <3> QED
      BY <2>4, <2>6, <3>1, <3>2
  <2>7. CASE TriesAgain(new, call, bad) /\ ~ call.todo[1].staged
    <3>1. new.ready = call.ready /\ new.todo = call.todo
      BY <2>7 DEF TriesAgain
    <3> QED
      BY <2>7, <3>1 DEF BufferHolds
  <2> QED
    BY <1>2, <2>1, <2>2, <2>5, <2>6, <2>7 DEF ReadEnds, Fails
<1> QED
  BY <1>8, <1>9, <1>10

(* A get that unpacks takes what the buffer has.                           *)
LEMMA UnpackingHolds ==
  ASSUME NEW d, NEW call, IsCall(d, call), NEW c, NEW lock, NEW new, UnpackOf(c, call, lock, new),
         NEW lt, BufferHolds(lt, lock, c, call), GotIs(lt, call), GotAll(lt, call), NEW after
  PROVE  GotIs(lt, new) /\ GotAll(lt, new) /\ BufferHolds(lt, after, c, new) /\ lock.holder = c
<1>1. /\ call.op = "get" /\ call.todo # <<>> /\ call.ready /\ GoesOn(new, call) /\ new.failed = call.failed
      /\ new.got = call.got \cup {[pos |-> ItemsOfFirst(call)[j].pos, of |-> InBuffer(lock.at, ItemsOfFirst(call)[j].off)] :
                                    j \in DOMAIN ItemsOfFirst(call)}
  BY DEF UnpackOf, HasFirst
<1>2. OrderOf(new) = OrderOf(call) /\ new.ks = call.ks /\ new.op = call.op
  BY <1>1, SameOrder DEF GoesOn, SameAsk
<1>3. /\ call.todo[1].staged /\ lock.holder = c
      /\ \A j \in DOMAIN ItemsOfFirst(call) : IsBuffered(lt, lock.at, ItemsOfFirst(call)[j])
  BY <1>1 DEF BufferHolds
<1>4. ASSUME NEW j \in DOMAIN ItemsOfFirst(call)
      PROVE  \E i, g : /\ i = ItemsOfFirst(call)[j] /\ g.pos = i.pos /\ g.of = InBuffer(lock.at, i.off)
                       /\ g = [pos |-> i.pos, of |-> InBuffer(lock.at, i.off)] /\ g \in new.got
                       /\ i.pos \in DOMAIN OrderOf(call) /\ i.slot[3] \in PartsOf(call.ks[i.pos])
                       /\ lt[OrderOf(call)[i.pos]] # 0 =>
                            g.of = ValueFor(OrderOf(call)[i.pos], lt[OrderOf(call)[i.pos]], i.slot[3])
  <2>1. PICK i : i = ItemsOfFirst(call)[j]
    OBVIOUS
  <2>2. PICK g : g = [pos |-> i.pos, of |-> InBuffer(lock.at, i.off)]
    OBVIOUS
  <2>3. g.pos = i.pos /\ g.of = InBuffer(lock.at, i.off)
    BY <2>2
  <2>4. g \in new.got
    BY <1>1, <2>1, <2>2
  <2>5. i.pos \in DOMAIN OrderOf(call) /\ i.slot[3] \in PartsOf(call.ks[i.pos]) /\ i.slot[2] = OrderOf(call)[i.pos]
    BY <1>1, <2>1, ItemOfFirstIs
  <2>6. lt[OrderOf(call)[i.pos]] # 0 => g.of = ValueFor(OrderOf(call)[i.pos], lt[OrderOf(call)[i.pos]], i.slot[3])
    BY <1>3, <2>1, <2>3, <2>5 DEF IsBuffered, InBuffer
  <2> QED
    BY <2>1, <2>2, <2>3, <2>4, <2>5, <2>6
<1>5. GotIs(lt, new)
  <2> SUFFICES ASSUME ~ new.failed, NEW g \in new.got
               PROVE  /\ g.pos \in DOMAIN OrderOf(call)
                      /\ lt[OrderOf(call)[g.pos]] # 0 =>
                           \E part \in PartsOf(call.ks[g.pos]) : g.of = ValueFor(OrderOf(call)[g.pos], lt[OrderOf(call)[g.pos]], part)
    BY <1>2 DEF GotIs
  <2>1. CASE g \in call.got
    BY <1>1, <2>1 DEF GotIs
  <2>2. CASE g \notin call.got
    <3>1. PICK j \in DOMAIN ItemsOfFirst(call) :
            g = [pos |-> ItemsOfFirst(call)[j].pos, of |-> InBuffer(lock.at, ItemsOfFirst(call)[j].off)]
      BY <1>1, <2>2
    <3> QED
      BY <1>4, <3>1
  <2> QED
    BY <2>1, <2>2
<1>6. GotAll(lt, new)
  <2> SUFFICES ASSUME ~ new.failed, NEW p \in DOMAIN OrderOf(call), lt[OrderOf(call)[p]] # 0, NEW part \in PartsOf(call.ks[p])
               PROVE  \/ Awaits(new, p, part)
                      \/ \E g \in new.got : g.pos = p /\ g.of = ValueFor(OrderOf(call)[p], lt[OrderOf(call)[p]], part)
    BY <1>2 DEF GotAll
  <2>1. CASE \E g \in call.got : g.pos = p /\ g.of = ValueFor(OrderOf(call)[p], lt[OrderOf(call)[p]], part)
    BY <1>1, <2>1
  <2>2. ASSUME NEW m \in 2..Len(call.todo), HasPart(call.todo[m], p, part) PROVE Awaits(new, p, part)
    BY <1>1, <2>2, GoesOnAwaits
  <2>3. ASSUME NEW j \in DOMAIN ItemsOfFirst(call), IsOf(ItemsOfFirst(call)[j], p, part)
        PROVE  \E g \in new.got : g.pos = p /\ g.of = ValueFor(OrderOf(call)[p], lt[OrderOf(call)[p]], part)
    <3>1. PICK i, g : /\ i = ItemsOfFirst(call)[j] /\ g.pos = i.pos /\ g \in new.got
                      /\ lt[OrderOf(call)[i.pos]] # 0 =>
                           g.of = ValueFor(OrderOf(call)[i.pos], lt[OrderOf(call)[i.pos]], i.slot[3])
      BY <1>4
    <3>2. i.pos = p /\ i.slot[3] = part
      BY <2>3, <3>1 DEF IsOf
    <3> QED
      BY <3>1, <3>2
  <2>4. \/ \E g \in call.got : g.pos = p /\ g.of = ValueFor(OrderOf(call)[p], lt[OrderOf(call)[p]], part)
        \/ Awaits(call, p, part)
    BY <1>1 DEF GotAll
  <2> QED
    BY <2>1, <2>2, <2>3, <2>4 DEF Awaits
<1>7. BufferHolds(lt, after, c, new)
  BY <1>1, FirstIsFresh
<1> QED
  BY <1>3, <1>5, <1>6, <1>7

LEMMA KnowsStill ==
  ASSUME NEW kn, NEW new, NEW call, SameAsk(new, call), GetKnows(kn, call)
  PROVE  GetKnows(kn, new)
<1>1. OrderOf(new) = OrderOf(call) /\ new.ks = call.ks /\ new.op = call.op
  BY SameOrder DEF SameAsk
<1> QED
  BY <1>1 DEF GetKnows

(* A call that begins awaits everything.                                   *)
LEMMA StartHolds ==
  ASSUME NEW c, NEW new, StartsOf(c, new), NEW store, NEW kn, NEW lt, NEW lock, GetKnows(kn, new)
  PROVE  CallHolds(store, kn, lt, lock, c, new)
<1>1. /\ IsCall(deployment, new) /\ new.ready = FALSE /\ new.failed = FALSE /\ new.got = {}
      /\ new.left = FreshLeft(new.todo) /\ Covers(new.todo, new.ks, DOMAIN OrderOf(new))
  BY DEF StartsOf
<1>2. \A p \in DOMAIN OrderOf(new) : \A part \in PartsOf(new.ks[p]) : Awaits(new, p, part)
  BY <1>1, CoveredAwaits
<1>3. PutHolds(store, new) /\ GotAll(lt, new)
  BY <1>2 DEF PutHolds, GotAll
<1>4. PackHolds(lock, c, new) /\ GotIs(lt, new)
  BY <1>1 DEF PackHolds, GotIs
<1>5. BufferHolds(lt, lock, c, new)
  <2>1. new.todo \in Seq(AllTransfers)
    BY <1>1 DEF IsCall, AreTransfers
  <2>2. ASSUME new.todo # <<>>, NEW j \in DOMAIN ItemsOfFirst(new) PROVE j \in Range(new.left)
    <3>1. j \in DOMAIN new.left /\ new.left[j] = j
      BY <1>1, <2>1, <2>2, FreshLeftIs DEF ItemsOfFirst
    <3> QED
      BY <3>1 DEF Range
  <2> QED
    BY <1>1, <2>2 DEF BufferHolds
<1> QED
  BY <1>3, <1>4, <1>5 DEF CallHolds

-----------------------------------------------------------------------------
CallsHold == \A c \in Calls : CallHolds(objects, known, latest, staging[calls[c].worker], c, calls[c])

LEMMA FindsFromStore ==
  ASSUME BackendCore, StoreHolds(objects, known, latest, calls), NEW c \in Calls, NEW call, call = calls[c],
         IsCall(deployment, call), call.op = "get", GetKnows(known, call)
  PROVE  FindsLatest(objects, latest, call)
<1> SUFFICES ASSUME NEW p \in DOMAIN OrderOf(call), latest[OrderOf(call)[p]] # 0, NEW part \in PartsOf(call.ks[p])
             PROVE  IsThere(objects, SlotOf(call, p, part), ValueFor(OrderOf(call)[p], latest[OrderOf(call)[p]], part))
  BY DEF FindsLatest, IsThere
<1>1. PICK e \in Cells : e = OrderOf(call)[p] /\ e \in AskedOf(call)
  BY CellsOfCall
<1>2. ASSUME NEW d \in Calls, calls[d].op = "put" PROVE e \notin AskedOf(calls[d])
  <2>1. d # c
    BY <1>2
  <2> QED
    BY <1>1, <1>2, <2>1 DEF BackendCore, ExclusiveIn
<1>3. IsStored(objects, known[e], e, latest[e])
  BY <1>1, <1>2 DEF StoreHolds
<1>4. call.ks[p] = known[e]
  BY <1>1 DEF GetKnows
<1> QED
  BY <1>1, <1>3, <1>4 DEF IsStored, SlotOf

(* One call steps, and the others keep their cells and their buffers.      *)
LEMMA LockKept ==
  ASSUME BackendShape, NEW c \in Calls, NEW w \in Workers, NEW lock2, IsLock(lock2), Relocks(w, lock2),
         staging[w].holder \in {c, NoCaller} \/ lock2 = staging[w]
  PROVE  \A d \in Calls : d # c => \A v \in Workers : staging[v].holder = d => staging'[v] = staging[v]
<1>1. staging'[w] = lock2 /\ \A v \in Workers : v # w => staging'[v] = staging[v]
  BY OneLockChanges
<1>2. NoCaller \notin Calls
  BY KVBackendAssumption
<1> QED
  BY <1>1, <1>2

LEMMA OthersHold ==
  ASSUME BackendShape, CallsHold, NEW c \in Calls, NEW new, CallIs(deployment, new), Becomes(c, new),
         \A d \in Calls : d # c /\ calls[d].op = "put" =>
           \A slot \in DOMAIN objects : slot[2] \in AskedOf(calls[d]) =>
             slot \in DOMAIN objects' /\ objects'[slot] = objects[slot],
         \A d \in Calls : d # c /\ calls[d].op = "get" =>
           \A e \in AskedOf(calls[d]) : known'[e] = known[e] /\ latest'[e] = latest[e],
         \A d \in Calls : d # c => \A v \in Workers : staging[v].holder = d => staging'[v] = staging[v],
         CallHolds(objects', known', latest', staging'[new.worker], c, new)
  PROVE  \A d \in Calls : CallHolds(objects', known', latest', staging'[calls'[d].worker], d, calls'[d])
<1> SUFFICES ASSUME NEW d \in Calls
             PROVE  CallHolds(objects', known', latest', staging'[calls'[d].worker], d, calls'[d])
  OBVIOUS
<1>1. calls'[c] = new /\ \A x \in Calls : x # c => calls'[x] = calls[x]
  BY OneCallChanges
<1>2. CASE d = c
  BY <1>1, <1>2
<1>3. CASE d # c
  <2>1. PICK call : call = calls[d]
    OBVIOUS
  <2>2. calls'[d] = call
    BY <1>1, <1>3, <2>1
  <2>3. CASE call = NoCall
    BY <2>2, <2>3, NoCallHolds
  <2>4. CASE IsCall(deployment, call)
    <3>1. PICK v \in Workers : v = call.worker
      BY <2>4 DEF IsCall
    <3>2. CallHolds(objects, known, latest, staging[v], d, call)
      BY <2>1, <3>1 DEF CallsHold
    <3>3. CallHolds(objects', known', latest', staging'[v], d, call)
      BY <1>3, <2>1, <2>4, <3>2, HoldsStill DEF CallIs
    <3> QED
      BY <2>2, <3>1, <3>3
  <2> QED
    BY <2>1, <2>3, <2>4 DEF BackendShape
<1> QED
  BY <1>2, <1>3

CallsHoldIn(store, kn, lt, locks, cs) == \A d \in Calls : CallHolds(store, kn, lt, locks[cs[d].worker], d, cs[d])

LEMMA BusyHolds ==
  ASSUME CallsHold, NEW c \in Calls, NEW call, call = calls[c], NEW lock, lock = staging[call.worker]
  PROVE  CallHolds(objects, known, latest, lock, c, call)
BY DEF CallsHold

(* A step that leaves the store and the metadata alone.                    *)
LEMMA OnlyItSteps ==
  ASSUME BackendShape, CallsHold, NEW c \in Calls, NEW new, CallIs(deployment, new), Becomes(c, new),
         UNCHANGED <<objects, known, latest>>,
         \A d \in Calls : d # c => \A v \in Workers : staging[v].holder = d => staging'[v] = staging[v],
         CallHolds(objects, known, latest, staging'[new.worker], c, new)
  PROVE  CallsHoldIn(objects', known', latest', staging', calls')
<1>1. /\ \A d \in Calls : d # c /\ calls[d].op = "put" =>
           \A slot \in DOMAIN objects : slot[2] \in AskedOf(calls[d]) =>
             slot \in DOMAIN objects' /\ objects'[slot] = objects[slot]
      /\ \A d \in Calls : d # c /\ calls[d].op = "get" =>
           \A e \in AskedOf(calls[d]) : known'[e] = known[e] /\ latest'[e] = latest[e]
      /\ CallHolds(objects', known', latest', staging'[new.worker], c, new)
  OBVIOUS
<1>2. \A d \in Calls : CallHolds(objects', known', latest', staging'[calls'[d].worker], d, calls'[d])
  BY <1>1, OthersHold
<1> QED
  BY <1>2 DEF CallsHoldIn

LEMMA BeginningsHold ==
  ASSUME AllAlike, BackendCore, CallsHold, NEW c \in Calls, Put(c) \/ Get(c)
  PROVE  CallsHoldIn(objects', known', latest', staging', calls')
<1>1. BackendShape
  BY DEF BackendCore
<1>2. PICK new : StartsOf(c, new) /\ GetKnows(known, new)
  <2>1. CASE Put(c)
    <3>1. PICK new : PutOf(c, new)
      BY <1>1, <2>1, PutIs
    <3> QED
      BY <3>1 DEF PutOf, GetKnows
  <2>2. CASE Get(c)
    <3>1. PICK new : GetOf(c, new)
      BY <1>1, <2>2, GetIs
    <3>2. IsCall(deployment, new) /\ new.worker \in Workers
      BY <3>1 DEF GetOf, StartsOf, IsCall
    <3>3. ASSUME NEW p \in DOMAIN OrderOf(new)
          PROVE  known[OrderOf(new)[p]] # None /\ new.ks[p] = known[OrderOf(new)[p]]
      <4>1. PICK e \in Cells : e = OrderOf(new)[p]
        BY <3>2, CellsOfCall
      <4>2. known[e] # None /\ new.ks[p] = Seen(new.worker, known[e])
        BY <3>1, <4>1 DEF GetOf
      <4>3. IsLayout(deployment, known[e]) /\ deployment \in Deployments
        BY <1>1, <4>2 DEF BackendShape
      <4>4. Seen(new.worker, known[e]) = known[e]
        BY <3>2, <4>3, SeenIs
      <4> QED
        BY <4>1, <4>2, <4>4
    <3> QED
      BY <3>1, <3>3 DEF GetOf, GetKnows
  <2> QED
    BY <2>1, <2>2
<1>3. Becomes(c, new) /\ CallIs(deployment, new)
  BY <1>2 DEF StartsOf, CallIs
<1>4. UNCHANGED <<objects, known, latest>> /\ UNCHANGED staging
  BY DEF Put, Get
<1>5. CallHolds(objects, known, latest, staging'[new.worker], c, new)
  BY <1>2, StartHolds
<1> QED
  BY <1>1, <1>3, <1>4, <1>5, OnlyItSteps

LEMMA LockingHolds ==
  ASSUME BackendCore, CallsHold, NEW c \in Calls, Lock(c)
  PROVE  CallsHoldIn(objects', known', latest', staging', calls')
<1>1. BackendShape
  BY DEF BackendCore
<1>2. calls[c].todo # <<>> /\ UNCHANGED <<objects, known, latest>> /\ UNCHANGED calls
  BY DEF Lock
<1>3. PICK call : call = calls[c]
  OBVIOUS
<1>4. IsCall(deployment, call)
  BY <1>1, <1>2, <1>3, BusyIs
<1>5. PICK w \in Workers : w = call.worker
  BY <1>4 DEF IsCall
<1>6. PICK lock : lock = staging[w]
  OBVIOUS
<1>7. lock.holder = NoCaller /\ Relocks(w, [holder |-> c, at |-> lock.at])
  BY <1>1, <1>3, <1>4, <1>5, <1>6, LockIs DEF LockOf
<1>8. \A d \in Calls : d # c => \A v \in Workers : staging[v].holder = d => staging'[v] = staging[v]
  <2>1. IsLock([holder |-> c, at |-> lock.at])
    BY DEF IsLock
  <2> QED
    BY <1>1, <1>6, <1>7, <2>1, LockKept
<1>9. Becomes(c, call) /\ CallIs(deployment, call)
  BY <1>1, <1>2, <1>3, <1>4 DEF BackendShape, Becomes, CallIs
<1>10. CallHolds(objects, known, latest, lock, c, call)
  BY <1>3, <1>5, <1>6, BusyHolds
<1>11. lock.holder # c
  BY <1>7, KVBackendAssumption
<1>12. CallHolds(objects, known, latest, staging'[call.worker], c, call)
  <2> HIDE DEF CallHolds
  <2> QED
    BY <1>9, <1>10, <1>11, HoldsStill
<1> QED
  BY <1>1, <1>2, <1>8, <1>9, <1>12, OnlyItSteps

LEMMA PackHoldsOn ==
  ASSUME BackendCore, CallsHold, NEW c \in Calls, Pack(c)
  PROVE  CallsHoldIn(objects', known', latest', staging', calls')
<1>1. BackendShape
  BY DEF BackendCore
<1>2. calls[c].todo # <<>> /\ UNCHANGED <<objects, known, latest>>
  BY DEF Pack
<1>3. PICK call : call = calls[c]
  OBVIOUS
<1>4. IsCall(deployment, call)
  BY <1>1, <1>2, <1>3, BusyIs
<1>5. PICK w \in Workers : w = call.worker
  BY <1>4 DEF IsCall
<1>6. PICK lock : lock = staging[w]
  OBVIOUS
<1>7. PICK new, at : PackOf(c, call, lock, new, at)
  BY <1>1, <1>3, <1>4, <1>5, <1>6, PackIs
<1>8. PICK lock2 : lock2 = [holder |-> lock.holder, at |-> at]
  OBVIOUS
<1>9. /\ Becomes(c, new) /\ Relocks(w, lock2) /\ IsLock(lock2) /\ lock.holder = c
      /\ SameAsk(new, call) /\ call.op = "put"
  BY <1>5, <1>7, <1>8 DEF PackOf, IsLock
<1>11. IsCall(deployment, new) /\ new.worker = w /\ new.op = "put"
  <2>2. Moves(new, call)
    BY <1>7 DEF PackOf, Moves, HasFirst
  <2>3. IsCall(deployment, new)
    BY <1>2, <1>3, <1>4, <2>2, KeepsCall
  <2> QED
    BY <1>5, <1>9, <2>3 DEF SameAsk
<1>12. staging'[w] = lock2
  BY <1>1, <1>9, OneLockChanges
<1>13. \A d \in Calls : d # c => \A v \in Workers : staging[v].holder = d => staging'[v] = staging[v]
  BY <1>1, <1>6, <1>9, LockKept
<1>14. CallHolds(objects, known, latest, lock, c, call)
  BY <1>3, <1>5, <1>6, BusyHolds
<1>15. PutHolds(objects, new) /\ PackHolds(lock2, c, new)
  <2>1. PutHolds(objects, call)
    BY <1>14 DEF CallHolds
  <2> QED
    BY <1>4, <1>7, <1>8, <2>1, PackingHolds
<1>16. CallHolds(objects, known, latest, lock2, c, new)
  BY <1>11, <1>15 DEF CallHolds, GetKnows, GotIs, GotAll, BufferHolds
<1> QED
  BY <1>1, <1>2, <1>9, <1>11, <1>12, <1>13, <1>16, OnlyItSteps DEF CallIs

LEMMA UpsertHoldsOn ==
  ASSUME BackendCore, CallsHold, NEW c \in Calls, Upsert(c)
  PROVE  CallsHoldIn(objects', known', latest', staging', calls')
<1>1. BackendShape
  BY DEF BackendCore
<1>2. calls[c].todo # <<>> /\ UNCHANGED <<known, latest>>
  BY DEF Upsert
<1>3. PICK call : call = calls[c]
  OBVIOUS
<1>4. IsCall(deployment, call) /\ call.todo # <<>>
  BY <1>1, <1>2, <1>3, BusyIs
<1>5. PICK w \in Workers : w = call.worker
  BY <1>4 DEF IsCall
<1>6. PICK lock : lock = staging[w]
  OBVIOUS
<1>7. PICK bad \in SUBSET DOMAIN call.left : \E new, after : UpsertOf(c, call, lock, bad, new, after)
  BY <1>1, <1>3, <1>4, <1>5, <1>6, UpsertIs
<1>8. PICK new, after : UpsertOf(c, call, lock, bad, new, after)
  BY <1>7
<1>9. /\ call.op = "put" /\ HasFirst(call)
      /\ call.todo[1].staged => lock.holder = c /\ call.ready
      /\ Becomes(c, new) /\ Relocks(w, after)
      /\ UpsertEnds(new, call, bad, after, lock)
      /\ Written(objects', objects, call, lock.at, DOMAIN call.left \ bad)
  BY <1>5, <1>8 DEF UpsertOf
<1>10. IsCall(deployment, new) /\ new.worker = w /\ new.op = "put"
  <2>1. Moves(new, call) /\ SameAsk(new, call)
    BY <1>9, TryingMoves DEF UpsertEnds, Moves, GoesOn, TriesAgain, Fails
  <2> QED
    BY <1>4, <1>5, <1>9, <2>1, KeepsCall DEF SameAsk
<1>11. IsLock(after) /\ (lock.holder = c \/ after = lock)
  <2>1. IsLock(lock)
    BY <1>1, <1>5, <1>6 DEF BackendShape
  <2> QED
    BY <1>9, <2>1 DEF UpsertEnds, LockAfter, IsLock, NoLock
<1>12. staging'[w] = after
  BY <1>1, <1>9, <1>11, OneLockChanges
<1>13. \A d \in Calls : d # c => \A v \in Workers : staging[v].holder = d => staging'[v] = staging[v]
  BY <1>1, <1>6, <1>9, <1>11, LockKept
<1>14. CallHolds(objects, known, latest, lock, c, call)
  BY <1>3, <1>5, <1>6, BusyHolds
<1>15. PutHolds(objects', new) /\ PackHolds(after, c, new)
  <2>1. PutHolds(objects, call) /\ PackHolds(lock, c, call)
    BY <1>14 DEF CallHolds
  <2> QED
    BY <1>4, <1>9, <2>1, UpsertingHolds
<1>16. CallHolds(objects', known', latest', after, c, new)
  BY <1>10, <1>15 DEF CallHolds, GetKnows, GotIs, GotAll, BufferHolds
<1>17. ASSUME NEW d \in Calls, d # c, calls[d].op = "put", NEW slot \in DOMAIN objects, slot[2] \in AskedOf(calls[d])
       PROVE  slot \in DOMAIN objects' /\ objects'[slot] = objects[slot]
  <2>1. ASSUME NEW j \in DOMAIN call.left PROVE LeftItem(call, j).slot[2] \in AskedOf(call)
    <3>1. PICK n \in DOMAIN ItemsOfFirst(call) : LeftItem(call, j) = ItemsOfFirst(call)[n]
      BY <1>4, LeftItemIs
    <3> QED
      BY <1>4, <3>1, ItemOfFirstIs, CellsOfCall
  <2>2. AskedOf(call) \cap AskedOf(calls[d]) = {}
    BY <1>3, <1>9, <1>17 DEF BackendCore, ExclusiveIn
  <2>3. \A j \in DOMAIN call.left \ bad : LeftItem(call, j).slot # slot
    BY <1>17, <2>1, <2>2
  <2> QED
    BY <1>9, <2>3 DEF Written
<1>18. \A d \in Calls : CallHolds(objects', known', latest', staging'[calls'[d].worker], d, calls'[d])
  <2>1. CallIs(deployment, new) /\ CallHolds(objects', known', latest', staging'[new.worker], c, new)
    BY <1>10, <1>12, <1>16 DEF CallIs
  <2> QED
    BY <1>1, <1>2, <1>9, <1>13, <1>17, <2>1, OthersHold
<1> QED
  BY <1>18 DEF CallsHoldIn

LEMMA ReadHoldsOn ==
  ASSUME BackendCore, StoreHolds(objects, known, latest, calls), CallsHold, NEW c \in Calls, Read(c)
  PROVE  CallsHoldIn(objects', known', latest', staging', calls')
<1>1. BackendShape
  BY DEF BackendCore
<1>2. calls[c].todo # <<>> /\ UNCHANGED <<objects, known, latest>>
  BY DEF Read
<1>3. PICK call : call = calls[c]
  OBVIOUS
<1>4. IsCall(deployment, call) /\ call.todo # <<>>
  BY <1>1, <1>2, <1>3, BusyIs
<1>5. PICK w \in Workers : w = call.worker
  BY <1>4 DEF IsCall
<1>6. PICK lock : lock = staging[w]
  OBVIOUS
<1>7. PICK bad \in SUBSET DOMAIN call.left : \E new, after, at : ReadOf(c, call, lock, bad, new, after, at)
  BY <1>1, <1>3, <1>4, <1>5, <1>6, ReadIs
<1>8. PICK new, after, at : ReadOf(c, call, lock, bad, new, after, at)
  BY <1>7
<1>9. /\ call.op = "get" /\ HasFirst(call) /\ ~ call.ready
      /\ call.todo[1].staged => lock.holder = c
      /\ \A j \in DOMAIN call.left \ bad : LeftItem(call, j).slot \in DOMAIN objects
      /\ Filled(at, lock.at, objects, call, DOMAIN call.left \ bad)
      /\ Becomes(c, new) /\ Relocks(w, after)
      /\ ReadEnds(new, call, bad, after, lock, at, Taken(objects, call, DOMAIN call.left \ bad))
  BY <1>5, <1>8 DEF ReadOf
<1>10. SameAsk(new, call) /\ IsCall(deployment, new) /\ new.worker = w /\ new.op = "get"
  <2>1. Moves(new, call) /\ SameAsk(new, call)
    BY <1>9, TryingMoves DEF ReadEnds, Moves, GoesOn, TriesAgain, Fails, HasFirst
  <2> QED
    BY <1>4, <1>5, <1>9, <2>1, KeepsCall DEF SameAsk
<1>11. IsLock(after) /\ (lock.holder = c \/ after = lock)
  <2>1. IsLock(lock)
    BY <1>1, <1>5, <1>6 DEF BackendShape
  <2> QED
    BY <1>9, <2>1 DEF ReadEnds, IsLock, NoLock
<1>12. staging'[w] = after
  BY <1>1, <1>9, <1>11, OneLockChanges
<1>13. \A d \in Calls : d # c => \A v \in Workers : staging[v].holder = d => staging'[v] = staging[v]
  BY <1>1, <1>6, <1>9, <1>11, LockKept
<1>14. /\ GetKnows(known, call) /\ GotIs(latest, call) /\ GotAll(latest, call)
       /\ BufferHolds(latest, lock, c, call)
  <2>1. CallHolds(objects, known, latest, lock, c, call)
    BY <1>3, <1>5, <1>6, BusyHolds
  <2> QED
    BY <2>1 DEF CallHolds
<1>15. FindsLatest(objects, latest, call)
  BY <1>3, <1>4, <1>9, <1>14, FindsFromStore
<1>16. GotIs(latest, new) /\ GotAll(latest, new) /\ BufferHolds(latest, after, c, new)
  BY <1>4, <1>9, <1>14, <1>15, ReadingHolds
<1>17. GetKnows(known, new)
  BY <1>10, <1>14, KnowsStill
<1>18. CallHolds(objects, known, latest, after, c, new)
  BY <1>10, <1>16, <1>17 DEF CallHolds, PutHolds, PackHolds
<1> QED
  BY <1>1, <1>2, <1>9, <1>10, <1>12, <1>13, <1>18, OnlyItSteps DEF CallIs

LEMMA UnpackHoldsOn ==
  ASSUME BackendCore, CallsHold, NEW c \in Calls, Unpack(c)
  PROVE  CallsHoldIn(objects', known', latest', staging', calls')
<1>1. BackendShape
  BY DEF BackendCore
<1>2. calls[c].todo # <<>> /\ UNCHANGED <<objects, known, latest>>
  BY DEF Unpack
<1>3. PICK call : call = calls[c]
  OBVIOUS
<1>4. IsCall(deployment, call) /\ call.todo # <<>>
  BY <1>1, <1>2, <1>3, BusyIs
<1>5. PICK w \in Workers : w = call.worker
  BY <1>4 DEF IsCall
<1>6. PICK lock : lock = staging[w]
  OBVIOUS
<1>7. PICK new : UnpackOf(c, call, lock, new)
  BY <1>1, <1>3, <1>4, <1>5, <1>6, UnpackIs
<1>8. PICK after : after = LockAfter(call, lock, lock.at)
  OBVIOUS
<1>9. Becomes(c, new) /\ Relocks(w, after) /\ GoesOn(new, call) /\ SameAsk(new, call) /\ call.op = "get"
  BY <1>5, <1>7, <1>8 DEF UnpackOf, GoesOn
<1>10. IsCall(deployment, new) /\ new.worker = w /\ new.op = "get"
  BY <1>4, <1>5, <1>9, KeepsCall DEF Moves, SameAsk
<1>11. IsLock(after)
  <2>1. IsLock(lock)
    BY <1>1, <1>5, <1>6 DEF BackendShape
  <2> QED
    BY <1>8, <2>1 DEF LockAfter, IsLock, NoLock
<1>12. staging'[w] = after
  BY <1>1, <1>9, <1>11, OneLockChanges
<1>13. /\ GetKnows(known, call) /\ GotIs(latest, call) /\ GotAll(latest, call)
       /\ BufferHolds(latest, lock, c, call)
  <2>1. CallHolds(objects, known, latest, lock, c, call)
    BY <1>3, <1>5, <1>6, BusyHolds
  <2> QED
    BY <2>1 DEF CallHolds
<1>14. GotIs(latest, new) /\ GotAll(latest, new) /\ BufferHolds(latest, after, c, new) /\ lock.holder = c
  BY <1>4, <1>7, <1>13, UnpackingHolds
<1>15. \A d \in Calls : d # c => \A v \in Workers : staging[v].holder = d => staging'[v] = staging[v]
  BY <1>1, <1>6, <1>9, <1>11, <1>14, LockKept
<1>16. GetKnows(known, new)
  BY <1>9, <1>13, KnowsStill
<1>17. CallHolds(objects, known, latest, after, c, new)
  BY <1>10, <1>14, <1>16 DEF CallHolds, PutHolds, PackHolds
<1> QED
  BY <1>1, <1>2, <1>9, <1>10, <1>12, <1>15, <1>17, OnlyItSteps DEF CallIs

(* A call ends: the others have other cells.                               *)
LEMMA EndHoldsOn ==
  ASSUME BackendCore, CallsHold, NEW c \in Calls, EndPut(c) \/ EndGet(c)
  PROVE  CallsHoldIn(objects', known', latest', staging', calls')
<1>1. BackendShape /\ CallIs(deployment, NoCall)
  BY IdleIs DEF BackendCore
<1>2. UNCHANGED objects /\ UNCHANGED staging
  BY DEF EndPut, EndGet
<1>3. \A d \in Calls : d # c => \A v \in Workers : staging[v].holder = d => staging'[v] = staging[v]
  BY <1>2
<1>4. CASE EndGet(c)
  <2>1. UNCHANGED <<objects, known, latest>> /\ Becomes(c, NoCall)
    BY <1>4 DEF EndGet, Becomes
  <2> QED
    BY <1>1, <1>3, <2>1, NoCallHolds, OnlyItSteps
<1>5. CASE EndPut(c)
  <2>1. PICK call : call = calls[c] /\ EndPutOf(c, call)
    BY <1>5, EndPutIs
  <2>2. Becomes(c, NoCall)
    BY <2>1 DEF EndPutOf
  <2>3. ASSUME NEW d \in Calls, d # c, calls[d].op = "get", NEW e \in AskedOf(calls[d])
        PROVE  known'[e] = known[e] /\ latest'[e] = latest[e]
    <3>1. e \notin AskedOf(call)
      BY <2>1, <2>3 DEF BackendCore, ExclusiveIn, EndPutOf
    <3>2. e \in Cells
      BY <1>1, <2>3, BusyIs, CellsOfCall
    <3> QED
      BY <2>1, <3>1, <3>2 DEF EndPutOf
  <2>4. \A d \in Calls : CallHolds(objects', known', latest', staging'[calls'[d].worker], d, calls'[d])
    BY <1>1, <1>2, <1>3, <2>2, <2>3, NoCallHolds, OthersHold
  <2> QED
    BY <2>4 DEF CallsHoldIn
<1> QED
  BY <1>4, <1>5

(* What a clear does to the store, and to what is known of its cells.      *)
ClearOf(c, cells) ==
  /\ calls[c] = NoCall /\ UNCHANGED <<calls, staging>>
  /\ \A e \in cells : known[e] # None
  /\ MayUse(cells, {"put", "get", "clear"})
  /\ \A slot \in DOMAIN objects : slot[2] \notin cells => slot \in DOMAIN objects' /\ objects'[slot] = objects[slot]
  /\ known' = [e \in Cells |-> IF e \in cells THEN None ELSE known[e]]
  /\ latest' = [e \in Cells |-> IF e \in cells THEN 0 ELSE latest[e]]

LEMMA ClearIs ==
  ASSUME NEW c \in Calls, Clear(c)
  PROVE  \E cells : ClearOf(c, cells)
<1>1. PICK w \in Workers, ask \in Asked, works \in BOOLEAN :
        /\ \A e \in ask[1] \X Range(ask[2]) : known[e] # None
        /\ MayUse(ask[1] \X Range(ask[2]), {"put", "get", "clear"})
        /\ objects' = [s \in DOMAIN objects \ (IF works THEN UNION {Removed(w, e) : e \in ask[1] \X Range(ask[2])} ELSE {})
                         |-> objects[s]]
        /\ known' = [e \in Cells |-> IF e \in ask[1] \X Range(ask[2]) THEN None ELSE known[e]]
        /\ latest' = [e \in Cells |-> IF e \in ask[1] \X Range(ask[2]) THEN 0 ELSE latest[e]]
        /\ littered' = littered \cup {e \in ask[1] \X Range(ask[2]) : ~ works \/ Refuses(w, known[e])}
  BY ZenonT(40) DEF Clear
<1> DEFINE cells == ask[1] \X Range(ask[2])
           gone  == IF works THEN UNION {Removed(w, e) : e \in cells} ELSE {}
<1>2. /\ \A e \in cells : known[e] # None
      /\ MayUse(cells, {"put", "get", "clear"})
      /\ objects' = [s \in DOMAIN objects \ gone |-> objects[s]]
      /\ known' = [e \in Cells |-> IF e \in cells THEN None ELSE known[e]]
      /\ latest' = [e \in Cells |-> IF e \in cells THEN 0 ELSE latest[e]]
  BY <1>1
<1>3. calls[c] = NoCall /\ UNCHANGED <<calls, staging>>
  BY DEF Clear
<1>4. ASSUME NEW slot \in gone PROVE slot[2] \in cells
  <2> HIDE DEF cells
  <2>1. PICK e \in cells : slot \in Removed(w, e)
    OBVIOUS
  <2>2. slot \in SlotsOf(e, Seen(w, known[e]))
    BY <2>1 DEF Removed
  <2> QED
    BY <2>2 DEF SlotsOf
<1> HIDE DEF cells, gone
<1>5. \A slot \in DOMAIN objects : slot[2] \notin cells => slot \in DOMAIN objects' /\ objects'[slot] = objects[slot]
  BY <1>2, <1>4
<1> QED
  BY <1>2, <1>3, <1>5 DEF ClearOf

LEMMA ClearHoldsOn ==
  ASSUME BackendCore, CallsHold, NEW c \in Calls, Clear(c)
  PROVE  CallsHoldIn(objects', known', latest', staging', calls')
<1>1. BackendShape /\ CallIs(deployment, NoCall)
  BY IdleIs DEF BackendCore
<1>2. PICK cells : ClearOf(c, cells)
  BY ClearIs
<1>3. Becomes(c, NoCall)
  BY <1>1, <1>2 DEF ClearOf, Becomes, BackendShape
<1>4. \A d \in Calls : d # c => \A v \in Workers : staging[v].holder = d => staging'[v] = staging[v]
  BY <1>2 DEF ClearOf
<1>5. ASSUME NEW d \in Calls, calls[d].op \in {"put", "get"} PROVE AskedOf(calls[d]) \cap cells = {}
  BY <1>2, <1>5 DEF ClearOf, MayUse, CellsOf, AskedOf
<1>6. ASSUME NEW d \in Calls, calls[d].op = "put", NEW slot \in DOMAIN objects, slot[2] \in AskedOf(calls[d])
      PROVE  slot \in DOMAIN objects' /\ objects'[slot] = objects[slot]
  <2>1. slot[2] \notin cells
    BY <1>5, <1>6
  <2> QED
    BY <1>2, <2>1 DEF ClearOf
<1>7. ASSUME NEW d \in Calls, calls[d].op = "get", NEW e \in AskedOf(calls[d])
      PROVE  known'[e] = known[e] /\ latest'[e] = latest[e]
  <2>1. e \notin cells
    BY <1>5, <1>7
  <2>2. e \in Cells
    BY <1>1, <1>7, BusyIs, CellsOfCall
  <2> QED
    BY <1>2, <2>1, <2>2 DEF ClearOf
<1>8. \A d \in Calls : CallHolds(objects', known', latest', staging'[calls'[d].worker], d, calls'[d])
  BY <1>1, <1>3, <1>4, <1>6, <1>7, NoCallHolds, OthersHold
<1> QED
  BY <1>8 DEF CallsHoldIn

LEMMA CallsStep ==
  ASSUME AllAlike, BackendCore, StoreHolds(objects, known, latest, calls), CallsHold, [BackendNext]_backendVars
  PROVE  CallsHoldIn(objects', known', latest', staging', calls')
<1>1. CASE UNCHANGED backendVars
  BY <1>1 DEF backendVars, CallsHold, CallsHoldIn
<1>2. ASSUME NEW c \in Calls,
             \/ Put(c) \/ Get(c) \/ Clear(c)
             \/ Lock(c) \/ Pack(c) \/ Upsert(c) \/ Read(c) \/ Unpack(c)
             \/ EndPut(c) \/ EndGet(c)
      PROVE  CallsHoldIn(objects', known', latest', staging', calls')
  BY <1>2, BeginningsHold, ClearHoldsOn, LockingHolds, PackHoldsOn, UpsertHoldsOn, ReadHoldsOn, UnpackHoldsOn, EndHoldsOn
<1> QED
  BY <1>1, <1>2 DEF BackendNext

-----------------------------------------------------------------------------
(* What is stored of the cells nobody puts.                                *)
LEMMA StoreStays ==
  ASSUME NEW store, NEW kn, NEW lt, NEW cs, StoreHolds(store, kn, lt, cs), NEW store2, NEW kn2, NEW lt2, NEW cs2,
         \A d \in Calls : cs[d].op = "put" => cs2[d].op = "put" /\ AskedOf(cs2[d]) = AskedOf(cs[d]),
         \A e \in Cells : lt2[e] # 0 => lt2[e] = lt[e] /\ kn2[e] = kn[e],
         \A e \in Cells : lt2[e] # 0 /\ (\A d \in Calls : cs[d].op = "put" => e \notin AskedOf(cs[d])) =>
           \A slot \in DOMAIN store : slot[2] = e => slot \in DOMAIN store2 /\ store2[slot] = store[slot]
  PROVE  StoreHolds(store2, kn2, lt2, cs2)
<1> SUFFICES ASSUME NEW e \in Cells, lt2[e] # 0, \A d \in Calls : cs2[d].op = "put" => e \notin AskedOf(cs2[d])
             PROVE  kn2[e] # None /\ IsStored(store2, kn2[e], e, lt2[e])
  BY DEF StoreHolds
<1>1. \A d \in Calls : cs[d].op = "put" => e \notin AskedOf(cs[d])
  OBVIOUS
<1>2. lt2[e] = lt[e] /\ kn2[e] = kn[e]
  OBVIOUS
<1>3. kn[e] # None /\ IsStored(store, kn[e], e, lt[e])
  BY <1>1, <1>2 DEF StoreHolds
<1>4. ASSUME NEW part \in PartsOf(kn[e])
      PROVE  IsThere(store2, <<kn[e].where, e, part>>, ValueFor(e, lt[e], part))
  <2>1. PICK slot : slot = <<kn[e].where, e, part>>
    OBVIOUS
  <2>2. IsThere(store, slot, ValueFor(e, lt[e], part)) /\ slot[2] = e
    BY <1>3, <2>1 DEF IsStored
  <2> QED
    BY <1>1, <2>1, <2>2 DEF IsThere
<1> QED
  BY <1>2, <1>3, <1>4 DEF IsStored

LEMMA PutsStay ==
  ASSUME BackendShape, NEW c \in Calls, NEW new, CallIs(deployment, new), Becomes(c, new),
         calls[c].op = "put" => SameAsk(new, calls[c])
  PROVE  \A d \in Calls : calls[d].op = "put" => calls'[d].op = "put" /\ AskedOf(calls'[d]) = AskedOf(calls[d])
<1> SUFFICES ASSUME NEW d \in Calls, calls[d].op = "put"
             PROVE  calls'[d].op = "put" /\ AskedOf(calls'[d]) = AskedOf(calls[d])
  OBVIOUS
<1>1. calls'[c] = new /\ (d # c => calls'[d] = calls[d])
  BY OneCallChanges
<1>2. CASE d = c
  BY <1>1, <1>2, SameOrder DEF SameAsk
<1> QED
  BY <1>1, <1>2

LEMMA EndPutStores ==
  ASSUME BackendCore, StoreHolds(objects, known, latest, calls), CallsHold, NEW c \in Calls, EndPut(c)
  PROVE  StoreHolds(objects', known', latest', calls')
<1>1. BackendShape /\ CallIs(deployment, NoCall) /\ UNCHANGED objects
  BY IdleIs DEF BackendCore, EndPut
<1>2. PICK call : call = calls[c] /\ EndPutOf(c, call)
  BY EndPutIs
<1>3. call.op = "put" /\ call.todo = <<>> /\ Becomes(c, NoCall)
  BY <1>2 DEF EndPutOf
<1>4. IsCall(deployment, call)
  BY <1>1, <1>2, <1>3, BusyIs
<1>5. calls'[c] = NoCall /\ \A d \in Calls : d # c => calls'[d] = calls[d]
  BY <1>1, <1>3, OneCallChanges
<1> SUFFICES ASSUME NEW e \in Cells, latest'[e] # 0, \A d \in Calls : calls'[d].op = "put" => e \notin AskedOf(calls'[d])
             PROVE  known'[e] # None /\ IsStored(objects, known'[e], e, latest'[e])
  BY <1>1 DEF StoreHolds
<1>6. CASE e \notin AskedOf(call)
  <2>1. latest'[e] = latest[e] /\ known'[e] = known[e]
    BY <1>2, <1>6 DEF EndPutOf
  <2>2. \A d \in Calls : calls[d].op = "put" => e \notin AskedOf(calls[d])
    BY <1>2, <1>5, <1>6
  <2> QED
    BY <2>1, <2>2 DEF StoreHolds
<1>7. CASE e \in AskedOf(call)
  <2>1. ~ call.failed /\ latest'[e] = call.put /\ known'[e] = LayoutOf(call, e)
    BY <1>2, <1>7 DEF EndPutOf
  <2>2. IsLayout(deployment, LayoutOf(call, e))
    BY <1>3, <1>4, <1>7, PutLayoutIs
  <2>3. LayoutOf(call, e) # None
    BY <2>2 DEF IsLayout, Layouts, Places, None
  <2>4. PICK p \in DOMAIN OrderOf(call) : OrderOf(call)[p] = e /\ call.ks[p] = LayoutOf(call, e)
    BY <1>3, <1>4, <1>7, CellsOfCall, PutLayoutIs
  <2>5. PutHolds(objects, call)
    BY <1>2 DEF CallsHold, CallHolds
  <2>6. ASSUME NEW part \in PartsOf(LayoutOf(call, e))
        PROVE  IsThere(objects, <<LayoutOf(call, e).where, e, part>>, ValueFor(e, call.put, part))
    <3>1. ~ Awaits(call, p, part)
      BY <1>3 DEF Awaits
    <3> QED
      BY <1>3, <2>1, <2>4, <2>5, <3>1 DEF PutHolds, SlotOf
  <2> QED
    BY <2>1, <2>3, <2>6 DEF IsStored
<1> QED
  BY <1>6, <1>7

LEMMA StoreStep ==
  ASSUME BackendCore, StoreHolds(objects, known, latest, calls), CallsHold, [BackendNext]_backendVars
  PROVE  StoreHolds(objects', known', latest', calls')
<1>1. BackendShape /\ CallIs(deployment, NoCall) /\ NoCall.op = "idle"
  BY IdleIs DEF BackendCore
<1>2. CASE UNCHANGED backendVars
  BY <1>2 DEF backendVars
<1>3. ASSUME NEW c \in Calls, NEW new, CallIs(deployment, new), Becomes(c, new),
             calls[c].op = "put" => SameAsk(new, calls[c]), UNCHANGED <<objects, known, latest>>
      PROVE  StoreHolds(objects', known', latest', calls')
  <2>1. \A d \in Calls : calls[d].op = "put" => calls'[d].op = "put" /\ AskedOf(calls'[d]) = AskedOf(calls[d])
    BY <1>1, <1>3, PutsStay
  <2> QED
    BY <1>3, <2>1, StoreStays
<1>4. ASSUME NEW c \in Calls, Put(c) \/ Get(c) PROVE StoreHolds(objects', known', latest', calls')
  <2>1. PICK new : StartsOf(c, new)
    BY <1>1, <1>4, PutIs, GetIs DEF PutOf, GetOf
  <2>2. calls[c].op # "put" /\ UNCHANGED <<objects, known, latest>>
    BY <1>1, <1>4 DEF Put, Get
  <2> QED
    BY <1>3, <2>1, <2>2 DEF StartsOf, CallIs
<1>5. ASSUME NEW c \in Calls, Pack(c) \/ Read(c) \/ Unpack(c) PROVE StoreHolds(objects', known', latest', calls')
  <2>1. PICK new : Becomes(c, new) /\ IsCall(deployment, new) /\ SameAsk(new, calls[c])
    BY <1>1, <1>5, CallStepIs
  <2>2. UNCHANGED <<objects, known, latest>>
    BY <1>5 DEF Pack, Read, Unpack
  <2> QED
    BY <1>3, <2>1, <2>2 DEF CallIs
<1>6. ASSUME NEW c \in Calls, Lock(c) PROVE StoreHolds(objects', known', latest', calls')
  BY <1>6 DEF Lock
<1>7. ASSUME NEW c \in Calls, EndGet(c) PROVE StoreHolds(objects', known', latest', calls')
  <2>1. Becomes(c, NoCall) /\ calls[c].op # "put" /\ UNCHANGED <<objects, known, latest>>
    BY <1>7 DEF EndGet, Becomes
  <2> QED
    BY <1>1, <1>3, <2>1
<1>8. ASSUME NEW c \in Calls, Upsert(c) PROVE StoreHolds(objects', known', latest', calls')
  <2>1. calls[c].op = "put" /\ calls[c].todo # <<>> /\ UNCHANGED <<known, latest>>
    BY <1>8 DEF Upsert
  <2>2. PICK call : call = calls[c] /\ IsCall(deployment, call) /\ call.todo # <<>>
    BY <1>1, <2>1, BusyIs
  <2>3. PICK lock : lock = staging[call.worker]
    OBVIOUS
  <2>4. PICK bad \in SUBSET DOMAIN call.left : \E new, after : UpsertOf(c, call, lock, bad, new, after)
    BY <1>1, <1>8, <2>2, <2>3, UpsertIs
  <2>5. Written(objects', objects, call, lock.at, DOMAIN call.left \ bad)
    BY <2>4 DEF UpsertOf
  <2>6. PICK new : Becomes(c, new) /\ IsCall(deployment, new) /\ SameAsk(new, calls[c])
    BY <1>1, <1>8, CallStepIs
  <2>7. \A d \in Calls : calls[d].op = "put" => calls'[d].op = "put" /\ AskedOf(calls'[d]) = AskedOf(calls[d])
    BY <1>1, <2>6, PutsStay DEF CallIs
  <2>8. ASSUME NEW e \in Cells, \A d \in Calls : calls[d].op = "put" => e \notin AskedOf(calls[d]),
               NEW slot \in DOMAIN objects, slot[2] = e
        PROVE  slot \in DOMAIN objects' /\ objects'[slot] = objects[slot]
    <3>1. ASSUME NEW j \in DOMAIN call.left PROVE LeftItem(call, j).slot[2] \in AskedOf(call)
      <4>1. PICK n \in DOMAIN ItemsOfFirst(call) : LeftItem(call, j) = ItemsOfFirst(call)[n]
        BY <2>2, LeftItemIs
      <4> QED
        BY <2>2, <4>1, ItemOfFirstIs, CellsOfCall
    <3>2. e \notin AskedOf(call)
      BY <2>1, <2>2, <2>8
    <3>3. \A j \in DOMAIN call.left \ bad : LeftItem(call, j).slot # slot
      BY <2>8, <3>1, <3>2
    <3> QED
      BY <2>5, <3>3 DEF Written
  <2> QED
    BY <2>1, <2>7, <2>8, StoreStays
<1>9. ASSUME NEW c \in Calls, Clear(c) PROVE StoreHolds(objects', known', latest', calls')
  <2>1. PICK cells : ClearOf(c, cells)
    BY <1>9, ClearIs
  <2>2. ASSUME NEW e \in Cells, latest'[e] # 0
        PROVE  e \notin cells /\ latest'[e] = latest[e] /\ known'[e] = known[e]
    BY <2>1, <2>2 DEF ClearOf
  <2>3. \A slot \in DOMAIN objects : slot[2] \notin cells => slot \in DOMAIN objects' /\ objects'[slot] = objects[slot]
    BY <2>1 DEF ClearOf
  <2>4. calls' = calls
    BY <2>1 DEF ClearOf
  <2> QED
    BY <2>2, <2>3, <2>4, StoreStays
<1> QED
  BY <1>2, <1>4, <1>5, <1>6, <1>7, <1>8, <1>9, EndPutStores DEF BackendNext

-----------------------------------------------------------------------------
ReadInv == BackendCore /\ StoreHolds(objects, known, latest, calls) /\ CallsHold

LEMMA ReadInvInit == BackendInit => ReadInv
<1> SUFFICES ASSUME BackendInit PROVE ReadInv
  OBVIOUS
<1>1. \A c \in Calls : calls[c] = NoCall
  BY DEF BackendInit
<1>2. CallsHold
  BY <1>1, NoCallHolds DEF CallsHold
<1>3. StoreHolds(objects, known, latest, calls)
  BY DEF BackendInit, StoreHolds
<1> QED
  BY <1>2, <1>3, CoreInit DEF ReadInv

LEMMA ReadInvStep == ASSUME AllAlike PROVE ReadInv /\ [BackendNext]_backendVars => ReadInv'
<1> SUFFICES ASSUME ReadInv, [BackendNext]_backendVars PROVE ReadInv'
  OBVIOUS
<1>1. BackendCore'
  BY CoreStep DEF ReadInv
<1>2. CallsHoldIn(objects', known', latest', staging', calls')
  BY CallsStep DEF ReadInv
<1>3. CallsHold'
  BY <1>2 DEF CallsHold, CallsHoldIn
<1>4. StoreHolds(objects', known', latest', calls')
  BY StoreStep DEF ReadInv
<1>5. StoreHolds(objects, known, latest, calls)'
  BY <1>4
<1> QED
  BY <1>1, <1>3, <1>5 DEF ReadInv

LEMMA ReadInvReads == ReadInv => ReadsAreLatest
<1> SUFFICES ASSUME ReadInv, NEW c \in Calls, calls[c].op = "get", calls[c].todo = <<>>, ~ calls[c].failed,
                    NEW f \in calls[c].fs, NEW k \in DOMAIN calls[c].rows, latest[<<f, calls[c].rows[k]>>] # 0
             PROVE  Returned(c, f, k) = {[cell |-> <<f, calls[c].rows[k]>>, put |-> latest[<<f, calls[c].rows[k]>>], part |-> n] :
                                          n \in PartsOf(known[<<f, calls[c].rows[k]>>])}
  BY DEF ReadsAreLatest
<1>1. PICK call : call = calls[c]
  OBVIOUS
<1>2. PICK e : e = <<f, call.rows[k]>>
  OBVIOUS
<1>3. PICK p : p = ValueOf(call.fs, call.rows, f, k)
  OBVIOUS
<1>4. IsCall(deployment, call) /\ CallHolds(objects, known, latest, staging[call.worker], c, call)
  BY <1>1, BusyIs, BusyHolds DEF ReadInv, BackendCore
<1>5. p \in DOMAIN OrderOf(call) /\ OrderOf(call)[p] = e
  BY <1>1, <1>2, <1>3, <1>4, CellsOfCall DEF OrderIs
<1>6. call.ks[p] = known[e]
  BY <1>1, <1>4, <1>5 DEF CallHolds, GetKnows
<1>7. ASSUME NEW g \in call.got, g.pos = p
      PROVE  \E part \in PartsOf(known[e]) : g.of = ValueFor(e, latest[e], part)
  BY <1>1, <1>2, <1>4, <1>5, <1>6, <1>7 DEF CallHolds, GotIs
<1>8. ASSUME NEW part \in PartsOf(known[e])
      PROVE  \E g \in call.got : g.pos = p /\ g.of = ValueFor(e, latest[e], part)
  <2>1. ~ Awaits(call, p, part)
    BY <1>1 DEF Awaits
  <2> QED
    BY <1>1, <1>2, <1>4, <1>5, <1>6, <2>1 DEF CallHolds, GotAll
<1>9. Returned(c, f, k) = {g.of : g \in {x \in call.got : x.pos = p}}
  BY <1>1, <1>3 DEF Returned
<1>10. {g.of : g \in {x \in call.got : x.pos = p}} = {ValueFor(e, latest[e], n) : n \in PartsOf(known[e])}
  BY <1>7, <1>8
<1> QED
  BY <1>1, <1>2, <1>9, <1>10 DEF ValueFor

-----------------------------------------------------------------------------
(* What a call packs into its staging buffer ends within the buffer, and   *)
(* no two tensors of a group overlap (clients/mooncake_client.py,          *)
(* split_by_bytes, _aligned_offsets, chunk_subkeys).                       *)
THEOREM StagingAlways == BackendSpec => []StagingFits
BY ShapeAlways, ShapeFits, PTL

(* If the fast path is in all workers of a Mooncake deployment or in none, *)
(* a cell that no put failed on, that was not put with another layout, and *)
(* that was cleared or never put has no object left, of any tier or        *)
(* sub-key (KVStorageManager.put_data and clear_data, the clients' clear). *)
THEOREM ClearedAlways == ASSUME AllAlike PROVE BackendSpec => []ClearedIsGone
<1>1. BackendInit => BackendCore /\ BackendAccounts
  BY CoreInit, AccountsInit
<1>2. BackendCore /\ BackendAccounts /\ [BackendNext]_backendVars => (BackendCore /\ BackendAccounts)'
  BY CoreStep, AccountsStay, AccountsHold
<1>3. BackendAccounts => ClearedIsGone
  BY AccountsClear
<1> QED
  BY <1>1, <1>2, <1>3, PTL DEF BackendSpec

(* If the fast path is in all workers of a Mooncake deployment or in none, *)
(* a get that succeeds has, in every row of every field, exactly the parts *)
(* of the value that the last good put wrote for that cell: whatever is    *)
(* retried, and whoever uses the staging buffer in between                 *)
(* (KVStorageManager.get_data, the clients' _batch_get_into_with_retry).   *)
THEOREM LatestAlways == ASSUME AllAlike PROVE BackendSpec => []ReadsAreLatest
<1>1. BackendInit => ReadInv
  BY ReadInvInit
<1>2. ReadInv /\ [BackendNext]_backendVars => ReadInv'
  BY ReadInvStep
<1> QED
  BY <1>1, <1>2, ReadInvReads, PTL DEF BackendSpec
=============================================================================
