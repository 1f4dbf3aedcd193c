----------------------------- MODULE LockProofs -----------------------------
(***************************************************************************)
(* Two callers never believe at once that they hold a name: a proof for   *)
(* any number of callers, names and shards, any lease times and any delay *)
(* of calls.  What a caller counts on, be it the deadline of its lease, a *)
(* grant not read yet or the answers to a renewal round, is covered by its*)
(* leases at the actors; and the holder of a leased name is the token of  *)
(* the lease.  Then the queues: a hand-off serves all it can, timers cover*)
(* leases, nobody is passed, and callers never wait in a ring, because a  *)
(* shard's queues keep to one order of arrival and each caller asks its   *)
(* shards in one order.                                                   *)
(***************************************************************************)
EXTENDS GlobalLock, NaturalsInduction, WellFoundedInduction, FiniteSetTheorems,
        SequenceTheorems, TLAPS

-----------------------------------------------------------------------------
(* Numbers.                                                                *)

LEMMA LeastNumber ==
  ASSUME NEW T \in SUBSET Nat, T # {}
  PROVE  \E n \in T : \A m \in T : n <= m
<1> DEFINE R == {ss \in Nat \X Nat : ss[1] < ss[2]}
<1>1. IsWellFoundedOn(R, Nat)
  BY NatLessThanWellFounded DEF OpToRel
<1>2. \A y, x \in Nat : y < x => <<y, x>> \in R
  OBVIOUS
<1> HIDE DEF R
<1>3. PICK x \in T : \A y \in T : ~ (<<y, x>> \in R)
  BY <1>1, WFMin
<1>4. \A y \in T : x <= y
  <2> TAKE y \in T
  <2>1. y \in Nat /\ x \in Nat /\ ~(y < x)
    BY <1>2, <1>3
  <2> QED
    BY <2>1
<1> QED
  BY <1>4

-----------------------------------------------------------------------------
(* What remains of a queue: the function `place` says where each of its    *)
(* tokens was, in ascending order, and nothing else was not gone.          *)
IsWhatRemains(r, q, gone, k) ==
  /\ r \in Seq(Tokens)
  /\ \E place \in [1..Len(r) -> 1..k] :
       /\ \A i \in 1..Len(r) : r[i] = q[place[i]] /\ q[place[i]] \notin gone
       /\ \A i, j \in 1..Len(r) : i < j => place[i] < place[j]
       /\ \A m \in 1..k : q[m] \notin gone => \E i \in 1..Len(r) : place[i] = m

KeptOf(q, gone, f, i) ==
  IF i = 0 THEN <<>>
  ELSE IF q[i] \in gone THEN f[i - 1] ELSE Append(f[i - 1], q[i])

LEMMA KeptExists ==
  ASSUME NEW q \in Seq(Tokens), NEW gone, NEW n \in Nat
  PROVE  \E f : f = [i \in 0..n |-> KeptOf(q, gone, f, i)]
<1> DEFINE T == {m \in Nat : ~ \E f : f = [i \in 0..m |-> KeptOf(q, gone, f, i)]}
<1> SUFFICES ASSUME T # {} PROVE FALSE
  OBVIOUS
<1>1. PICK m \in T : \A k \in T : m <= k
  BY LeastNumber
<1>2. m \in Nat /\ ~ \E f : f = [i \in 0..m |-> KeptOf(q, gone, f, i)]
  BY <1>1
<1>3. CASE m = 0
  <2> DEFINE f == [i \in 0..0 |-> <<>>]
  <2>1. f = [i \in 0..m |-> KeptOf(q, gone, f, i)]
    BY <1>3 DEF KeptOf
  <2> QED
    BY <1>2, <2>1
<1>4. CASE m # 0
  <2>1. m - 1 \in Nat /\ m - 1 \notin T
    BY <1>1, <1>2, <1>4
  <2>2. PICK f : f = [i \in 0..(m - 1) |-> KeptOf(q, gone, f, i)]
    BY <2>1
  <2> DEFINE g == [i \in 0..m |-> IF i = m THEN KeptOf(q, gone, f, m) ELSE f[i]]
  <2>3. ASSUME NEW i \in 0..m
        PROVE  g[i] = KeptOf(q, gone, g, i)
    <3>1. i # 0 => i - 1 \in 0..(m - 1) /\ i - 1 \in 0..m /\ i - 1 # m
      BY <1>2
    <3>2. i # 0 => g[i - 1] = f[i - 1]
      BY <3>1
    <3>3. KeptOf(q, gone, g, i) = KeptOf(q, gone, f, i)
      BY <3>2 DEF KeptOf
    <3>4. i # m => i \in 0..(m - 1)
      BY <1>2
    <3>5. i # m => f[i] = KeptOf(q, gone, f, i)
      BY <2>2, <3>4
    <3> QED
      BY <3>3, <3>5
  <2>4. g = [i \in 0..m |-> KeptOf(q, gone, g, i)]
    <3> HIDE DEF g
    <3>1. g = [i \in 0..m |-> g[i]]
      BY DEF g
    <3> QED
      BY <2>3, <3>1
  <2> QED
    BY <1>2, <2>4
<1> QED
  BY <1>3, <1>4

LEMMA KeptStep ==
  ASSUME NEW q \in Seq(Tokens), NEW gone, NEW k \in 1..Len(q), NEW r,
         IsWhatRemains(r, q, gone, k - 1)
  PROVE  IsWhatRemains(IF q[k] \in gone THEN r ELSE Append(r, q[k]), q, gone, k)
<1>1. PICK place \in [1..Len(r) -> 1..(k - 1)] :
        /\ \A i \in 1..Len(r) : r[i] = q[place[i]] /\ q[place[i]] \notin gone
        /\ \A i, j \in 1..Len(r) : i < j => place[i] < place[j]
        /\ \A m \in 1..(k - 1) : q[m] \notin gone => \E i \in 1..Len(r) : place[i] = m
  BY DEF IsWhatRemains
<1>2. r \in Seq(Tokens) /\ Len(r) \in Nat /\ k \in Nat
  BY DEF IsWhatRemains
<1>3. CASE q[k] \in gone
  <2>1. place \in [1..Len(r) -> 1..k]
    BY <1>2
  <2>2. \A m \in 1..k : q[m] \notin gone => m \in 1..(k - 1)
    BY <1>2, <1>3
  <2>3. \A m \in 1..k : q[m] \notin gone => \E i \in 1..Len(r) : place[i] = m
    BY <1>1, <2>2
  <2>4. IsWhatRemains(r, q, gone, k)
    BY <1>1, <1>2, <2>1, <2>3 DEF IsWhatRemains
  <2> QED
    BY <1>3, <2>4
<1>4. CASE q[k] \notin gone
  <2> DEFINE r2 == Append(r, q[k])
             p2 == [i \in 1..(Len(r) + 1) |-> IF i = Len(r) + 1 THEN k ELSE place[i]]
  <2>1. /\ r2 \in Seq(Tokens) /\ Len(r2) = Len(r) + 1
        /\ \A i \in 1..Len(r) : r2[i] = r[i]
        /\ r2[Len(r) + 1] = q[k]
    BY <1>2
  <2>2. \A i \in 1..(Len(r) + 1) : i = Len(r) + 1 \/ i \in 1..Len(r)
    BY <1>2
  <2>3. \A i \in 1..Len(r) : place[i] \in 1..(k - 1)
    OBVIOUS
  <2>4. \A i \in 1..(Len(r) + 1) : p2[i] = IF i = Len(r) + 1 THEN k ELSE place[i]
    OBVIOUS
  <2>5. p2 \in [1..Len(r2) -> 1..k]
    BY <1>2, <2>1, <2>2, <2>3
  <2> HIDE DEF r2, p2
  <2>6. \A i \in 1..Len(r2) : r2[i] = q[p2[i]] /\ q[p2[i]] \notin gone
    <3> TAKE i \in 1..Len(r2)
    <3>1. CASE i = Len(r) + 1
      BY <1>2, <1>4, <2>1, <2>4, <3>1
    <3>2. CASE i \in 1..Len(r)
      BY <1>1, <1>2, <2>1, <2>4, <3>2
    <3> QED
      BY <2>1, <2>2, <3>1, <3>2
  <2>7. \A i, j \in 1..Len(r2) : i < j => p2[i] < p2[j]
    <3> TAKE i, j \in 1..Len(r2)
    <3> HAVE i < j
    <3>1. i \in 1..Len(r) /\ p2[i] = place[i] /\ place[i] \in 1..(k - 1)
      BY <1>2, <2>1, <2>2, <2>3, <2>4
    <3>2. CASE j = Len(r) + 1
      BY <1>2, <2>1, <2>4, <3>1, <3>2
    <3>3. CASE j \in 1..Len(r)
      <4>1. p2[j] = place[j]
        BY SMTT(20), <1>2, <2>1, <2>4, <3>3
      <4> QED
        BY <1>1, <3>1, <3>3, <4>1
    <3> QED
      BY <2>1, <2>2, <3>2, <3>3
  <2>8. ASSUME NEW m \in 1..k, q[m] \notin gone
        PROVE  \E i \in 1..Len(r2) : p2[i] = m
    <3>1. CASE m = k
      BY <1>2, <2>1, <2>4, <3>1
    <3>2. CASE m # k
      <4>1. m \in 1..(k - 1)
        BY <1>2, <3>2
      <4>2. PICK i \in 1..Len(r) : place[i] = m
        BY <1>1, <2>8, <4>1
      <4>3. i \in 1..Len(r2) /\ p2[i] = m
        BY <1>2, <2>1, <2>4, <4>2
      <4> QED
        BY <4>3
    <3> QED
      BY <3>1, <3>2
  <2>9. IsWhatRemains(r2, q, gone, k)
    BY <2>1, <2>5, <2>6, <2>7, <2>8 DEF IsWhatRemains
  <2> QED
    BY <1>4, <2>9 DEF r2
<1> QED
  BY <1>3, <1>4

LEMMA RemainingIs ==
  ASSUME NEW q \in Seq(Tokens), NEW gone
  PROVE  IsWhatRemains(Remaining(q, gone), q, gone, Len(q))
<1> DEFINE f == CHOOSE f : f = [i \in 0..Len(q) |-> KeptOf(q, gone, f, i)]
<1>0. Len(q) \in Nat
  OBVIOUS
<1>1. f = [i \in 0..Len(q) |-> KeptOf(q, gone, f, i)]
  BY <1>0, KeptExists
<1>2. Remaining(q, gone) = f[Len(q)]
  BY DEF Remaining, KeptOf
<1> HIDE DEF f
<1>3. f[0] = <<>> /\ \A i \in 1..Len(q) : f[i] = IF q[i] \in gone THEN f[i - 1] ELSE Append(f[i - 1], q[i])
  <2>1. \A i \in 0..Len(q) : f[i] = KeptOf(q, gone, f, i)
    BY <1>1
  <2> QED
    BY <1>0, <2>1 DEF KeptOf
<1> DEFINE T == {k \in 0..Len(q) : ~IsWhatRemains(f[k], q, gone, k)}
<1>4. T = {}
  <2> SUFFICES ASSUME T # {} PROVE FALSE
    OBVIOUS
  <2>0. T \in SUBSET Nat
    BY <1>0
  <2>1. PICK k \in T : \A m \in T : k <= m
    <3> HIDE DEF T
    <3> QED
      BY <2>0, LeastNumber
  <2>2. k \in 0..Len(q) /\ ~IsWhatRemains(f[k], q, gone, k)
    BY <2>1
  <2>3. CASE k = 0
    <3>1. IsWhatRemains(<<>>, q, gone, 0)
      <4> DEFINE place == [i \in 1..0 |-> 1]
      <4>1. <<>> \in Seq(Tokens) /\ Len(<<>>) = 0 /\ 1..0 = {}
        OBVIOUS
      <4>2. place \in [1..Len(<<>>) -> 1..0]
        BY <4>1
      <4> HIDE DEF place
      <4> QED
        BY <4>1, <4>2 DEF IsWhatRemains
    <3> QED
      BY <1>3, <2>2, <2>3, <3>1
  <2>4. CASE k # 0
    <3>1. k \in 1..Len(q) /\ k - 1 \in 0..Len(q) /\ k - 1 \notin T
      BY <1>0, <2>1, <2>2, <2>4
    <3>2. IsWhatRemains(f[k - 1], q, gone, k - 1)
      BY <3>1
    <3> QED
      BY <1>3, <2>2, <3>1, <3>2, KeptStep
  <2> QED
    BY <2>3, <2>4
<1> QED
  BY <1>0, <1>2, <1>4
(* The actors: leases are on tokens and never longer than their lease_s,   *)
(* and a lease holds all it was asked for.                                 *)
HoldersAgree ==
  \A s \in Shards : \A t \in Leased(s) : \A n \in Part(t, s) : holder[n] = t

ActorInv ==
  /\ holder \in [Names -> Tokens \cup {Nobody}]
  /\ queues \in [Names -> Seq(Tokens)]
  /\ leases = [s \in Shards |-> leases[s]]
  /\ waiting = [s \in Shards |-> waiting[s]]
  /\ \A s \in Shards : Waiters(s) \subseteq Tokens
  /\ \A s \in Shards : Leased(s) \subseteq Tokens
  /\ \A s \in Shards : \A t \in Leased(s) : leases[s][t] \in 0..LeaseTime[t]
  /\ HoldersAgree

(* The callers.                                                            *)
CallerTypes ==
  /\ phase \in [Tokens -> {"asking", "holding", "left", "dead"}]
  /\ call \in [Tokens -> [at : Places, shard : 0..NumShards, time : Nat]]
  /\ granted \in [Tokens -> SUBSET Shards]
  /\ pending \in [Tokens -> SUBSET Shards]
  /\ deadline \in [Tokens -> Nat]
  /\ lost \in [Tokens -> BOOLEAN]
  /\ round \in [Tokens -> [shards : SUBSET Shards, unanswered : SUBSET Shards,
                           refused : BOOLEAN, age : Nat]]
  /\ late \in [Tokens -> SUBSET Shards]
  /\ releases \in [Tokens -> SUBSET Shards]

(* A call in progress has a shard; who has departed counts on nothing; an  *)
(* answer is for one that asks; and releases are sent by those that left.  *)
CallsAgree ==
  \A t \in Tokens :
    /\ call[t].at # "none" => call[t].shard \in Shards
    /\ phase[t] \in {"left", "dead"} => granted[t] = {} /\ round[t] = NoRound
    /\ call[t].at \in {"granted", "denied"} => phase[t] = "asking"
    /\ releases[t] # {} => phase[t] = "left"

(* The lease of t at s has k or more to go.                                *)
Covered(s, t, k) == k # 0 => t \in Leased(s) /\ k <= leases[s][t]

DeadlinesCovered == \A t \in Tokens : \A s \in granted[t] : Covered(s, t, deadline[t])

GrantsCovered ==
  \A t \in Tokens : call[t].at = "granted" => Covered(call[t].shard, t, call[t].time)

RoundsCovered ==
  \A t \in Tokens : ~round[t].refused =>
    \A s \in round[t].shards \ round[t].unanswered :
      Covered(s, t, GoodFromSent(LeaseTime[t], round[t].age))

(* The inductive invariant.                                                *)
LockInv ==
  /\ ActorInv
  /\ CallerTypes
  /\ CallsAgree
  /\ DeadlinesCovered
  /\ GrantsCovered
  /\ RoundsCovered

-----------------------------------------------------------------------------
(* Steps of an actor.                                                      *)

(* Leases that are not over only grow, but those of the tokens T.          *)
LeasesKeep(T) ==
  \A s \in Shards : \A t \in Leased(s) \ T :
    leases[s][t] # 0 => t \in DOMAIN leases'[s] /\ leases[s][t] <= leases'[s][t]

LEMMA LeaseTimes ==
  /\ \A t \in Tokens : LeaseTime[t] \in Nat \ {0} /\ LeaseTime[t] <= MaxLease
  /\ MaxLease \in Nat
  /\ \A t \in Tokens : t # Nobody
BY LockManagerAssumption

LEMMA LeasesAre ==
  ASSUME ActorInv
  PROVE  \A s \in Shards : \A t \in Leased(s) :
           t \in Tokens /\ leases[s][t] \in Nat /\ leases[s][t] <= LeaseTime[t]
BY LeaseTimes DEF ActorInv

(* Granted tokens share no name, waited for it, and find all of it free.   *)
LEMMA GrantedApart ==
  ASSUME ActorInv, NEW s \in Shards, NEW freed \in SUBSET Tokens, NEW left \in SUBSET Tokens
  PROVE  /\ Granted(s, freed, left) \subseteq Tokens
         /\ \A t \in Granted(s, freed, left) : \A n \in Part(t, s) : holder[n] \in freed \cup {Nobody}
         /\ \A t, u \in Granted(s, freed, left) : \A n \in Part(t, s) \cap Part(u, s) : t = u
<1> DEFINE gone == Gone(s, freed, left)
<1>1. \A t \in Granted(s, freed, left) :
        /\ t \in Waiters(s) \ gone
        /\ \A n \in Part(t, s) : IsFree(n, freed) /\ IsFirst(t, n, gone)
  BY DEF Granted
<1> HIDE DEF gone
<1>2. ASSUME NEW t \in Granted(s, freed, left), NEW u \in Granted(s, freed, left),
             NEW n \in Part(t, s) \cap Part(u, s)
      PROVE  t = u
  <2>1. n \in Names /\ queues[n] \in Seq(Tokens)
    BY <1>1, LockManagerAssumption DEF Part, ActorInv
  <2>2. PICK i \in DOMAIN queues[n] :
          queues[n][i] = t /\ \A k \in 1..(i - 1) : queues[n][k] \in gone
    BY <1>1 DEF IsFirst
  <2>3. PICK j \in DOMAIN queues[n] :
          queues[n][j] = u /\ \A k \in 1..(j - 1) : queues[n][k] \in gone
    BY <1>1 DEF IsFirst
  <2>4. i \in Nat \ {0} /\ j \in Nat \ {0}
    BY <2>1
  <2>5. i \notin 1..(j - 1) /\ j \notin 1..(i - 1)
    BY <1>1, <2>2, <2>3
  <2> QED
    BY <2>2, <2>3, <2>4, <2>5
<1> QED
  BY <1>1, <1>2 DEF IsFree, ActorInv

(* A hand-off.                                                             *)
LEMMA HandOffKeeps ==
  ASSUME ActorInv, NEW s \in Shards, NEW freed \in SUBSET Tokens, NEW left \in SUBSET Tokens,
         NEW entries, HandOff(s, freed, left, entries),
         \A t \in freed : t \in Leased(s)
  PROVE  /\ ActorInv'
         /\ \A r \in Shards : \A t \in Leased(r) : ~(r = s /\ t \in freed) =>
              t \in DOMAIN leases'[r] /\ leases[r][t] <= leases'[r][t]
<1> DEFINE G == Granted(s, freed, left)
           Q == Gone(s, freed, left) \cup G
<1>1. /\ holder' = [n \in Names |->
                      IF ShardOf[n] # s THEN holder[n]
                      ELSE IF \E t \in G : n \in Part(t, s)
                           THEN CHOOSE t \in G : n \in Part(t, s)
                      ELSE IF holder[n] \in freed THEN Nobody ELSE holder[n]]
      /\ waiting' = [waiting EXCEPT ![s] = Without(@, Q)]
      /\ leases' = [leases EXCEPT ![s] = WithAll(Without(@, freed), G, LAMBDA t : LeaseTime[t])]
  BY DEF HandOff
<1>2. /\ G \subseteq Tokens
      /\ \A t \in G : \A n \in Part(t, s) : holder[n] \in freed \cup {Nobody}
      /\ \A t, u \in G : \A n \in Part(t, s) \cap Part(u, s) : t = u
  BY GrantedApart
<1> HIDE DEF G, Q
<1>3. /\ leases' = [r \in Shards |-> leases'[r]]
      /\ \A r \in Shards \ {s} : leases'[r] = leases[r]
      /\ leases'[s] = [t \in (Leased(s) \ freed) \cup G |->
                        IF t \in G THEN LeaseTime[t] ELSE leases[s][t]]
  <2>1. leases = [r \in Shards |-> leases[r]]
    BY DEF ActorInv
  <2>2. leases'[s] = WithAll(Without(leases[s], freed), G, LAMBDA t : LeaseTime[t])
    BY <1>1, <2>1
  <2>3. WithAll(Without(leases[s], freed), G, LAMBDA t : LeaseTime[t])
          = [t \in (Leased(s) \ freed) \cup G |-> IF t \in G THEN LeaseTime[t] ELSE leases[s][t]]
    BY DEF WithAll, Without, Leased
  <2> QED
    BY <1>1, <2>1, <2>2, <2>3
<1>4. /\ waiting' = [r \in Shards |-> waiting'[r]]
      /\ \A r \in Shards : DOMAIN waiting'[r] \subseteq DOMAIN waiting[r]
  <2>1. waiting = [r \in Shards |-> waiting[r]]
    BY DEF ActorInv
  <2> QED
    BY <1>1, <2>1 DEF Without
<1>5. \A n \in Names : holder'[n] \in Tokens \cup {Nobody}
  BY <1>1, <1>2 DEF ActorInv
<1>6. \A r \in Shards : DOMAIN leases'[r] \subseteq Tokens
                     /\ \A t \in DOMAIN leases'[r] : leases'[r][t] \in 0..LeaseTime[t]
  BY <1>2, <1>3, LeaseTimes DEF ActorInv, Leased
<1>7. HoldersAgree'
  <2> SUFFICES ASSUME NEW r \in Shards, NEW t \in DOMAIN leases'[r], NEW n \in Part(t, r)
               PROVE  holder'[n] = t
    BY DEF HoldersAgree, Leased, Part
  <2>1. n \in Names /\ ShardOf[n] = r
    BY <1>6, LockManagerAssumption DEF Part
  <2>2. CASE r # s
    <3>1. t \in Leased(r) /\ holder[n] = t
      BY <1>3, <2>2 DEF Leased, ActorInv, HoldersAgree
    <3> QED
      BY <1>1, <2>1, <2>2, <3>1
  <2>3. CASE r = s /\ t \in G
    <3>1. \A u \in G : n \in Part(u, s) => u = t
      BY <1>2, <2>3
    <3> QED
      BY <1>1, <2>1, <2>3, <3>1
  <2>4. CASE r = s /\ t \notin G
    <3>1. t \in Leased(s) /\ t \notin freed /\ holder[n] = t
      BY <1>3, <2>4 DEF ActorInv, HoldersAgree
    <3>2. ~ \E u \in G : n \in Part(u, s)
      BY <1>2, <1>6, <3>1, LeaseTimes
    <3> QED
      BY <1>1, <2>1, <2>4, <3>1, <3>2
  <2> QED
    BY <2>2, <2>3, <2>4
<1>8. ActorInv'
  <2>1. holder' \in [Names -> Tokens \cup {Nobody}]
    BY <1>1, <1>5
  <2>2. queues' \in [Names -> Seq(Tokens)]
    <3>1. queues' = [n \in Names |-> IF ShardOf[n] = s THEN Remaining(queues[n], Q) ELSE queues[n]]
      BY DEF HandOff, Q, G
    <3>2. \A n \in Names : queues[n] \in Seq(Tokens) /\ Remaining(queues[n], Q) \in Seq(Tokens)
      BY RemainingIs DEF ActorInv, IsWhatRemains
    <3> QED
      BY <3>1, <3>2
  <2> QED
    BY <1>3, <1>4, <1>6, <1>7, <2>1, <2>2 DEF ActorInv, Leased, Waiters
<1>9. \A r \in Shards : \A t \in Leased(r) : ~(r = s /\ t \in freed) =>
        t \in DOMAIN leases'[r] /\ leases[r][t] <= leases'[r][t]
  BY <1>3, <1>2, LeaseTimes DEF Leased, ActorInv
<1> QED
  BY <1>8, <1>9

LEMMA AcquireKeeps ==
  ASSUME ActorInv, NEW s \in Shards, NEW t \in Tokens, Acquire(s, t)
  PROVE  ActorInv' /\ LeasesKeep({})
<1>1. CASE AnswerAtOnce(s, t)
  BY <1>1, LeaseTimes DEF AnswerAtOnce, lockVars, ActorInv, HoldersAgree, LeasesKeep, Leased, Waiters
<1>2. CASE GrantAtOnce(s, t)
  <2>1. /\ t \notin Leased(s)
        /\ \A n \in Part(t, s) : holder[n] = Nobody
        /\ holder' = [n \in Names |-> IF n \in Part(t, s) THEN t ELSE holder[n]]
        /\ waiting' = waiting /\ queues' = queues
    BY <1>2 DEF GrantAtOnce, IsKnown, IsUnclaimed
  <2>2. /\ leases' = [r \in Shards |-> leases'[r]]
        /\ \A r \in Shards \ {s} : leases'[r] = leases[r]
        /\ leases'[s] = [u \in Leased(s) \cup {t} |-> IF u = t THEN LeaseTime[t] ELSE leases[s][u]]
    <3>1. leases = [r \in Shards |-> leases[r]]
      BY DEF ActorInv
    <3>2. leases' = [leases EXCEPT ![s] = WithAll(@, {t}, LAMBDA u : LeaseTime[u])]
      BY <1>2 DEF GrantAtOnce
    <3>3. WithAll(leases[s], {t}, LAMBDA u : LeaseTime[u])
            = [u \in Leased(s) \cup {t} |-> IF u = t THEN LeaseTime[t] ELSE leases[s][u]]
      BY DEF WithAll, Leased
    <3> QED
      BY <3>1, <3>2, <3>3
  <2>3. HoldersAgree'
    <3> SUFFICES ASSUME NEW r \in Shards, NEW u \in DOMAIN leases'[r], NEW n \in Part(u, r)
                 PROVE  holder'[n] = u
      BY DEF HoldersAgree, Leased, Part
    <3>1. u \in Tokens
      BY <2>2 DEF ActorInv, Leased
    <3>2. n \in Names /\ ShardOf[n] = r
      BY <3>1, LockManagerAssumption DEF Part
    <3>3. CASE r = s /\ u = t
      BY <2>1, <3>2, <3>3
    <3>4. CASE ~(r = s /\ u = t)
      <4>1. u \in Leased(r) /\ holder[n] = u
        BY <2>2, <3>4 DEF Leased, ActorInv, HoldersAgree
      <4>2. n \notin Part(t, s)
        BY <2>1, <3>1, <4>1, LeaseTimes
      <4> QED
        BY <2>1, <3>2, <4>1, <4>2
    <3> QED
      BY <3>3, <3>4
  <2>4. ActorInv'
    <3>1. holder' \in [Names -> Tokens \cup {Nobody}] /\ queues' \in [Names -> Seq(Tokens)]
      BY <2>1 DEF ActorInv
    <3>2. /\ waiting' = [r \in Shards |-> waiting'[r]]
          /\ \A r \in Shards : DOMAIN waiting'[r] \subseteq Tokens
      BY <2>1 DEF ActorInv, Waiters
    <3>3. \A r \in Shards : DOMAIN leases'[r] \subseteq Tokens
                         /\ \A u \in DOMAIN leases'[r] : leases'[r][u] \in 0..LeaseTime[u]
      BY <2>2, LeaseTimes, LeasesAre DEF Leased
    <3> QED
      BY <2>2, <2>3, <3>1, <3>2, <3>3 DEF ActorInv, Leased, Waiters
  <2>5. LeasesKeep({})
    BY <2>1, <2>2, LeasesAre DEF LeasesKeep, Leased
  <2> QED
    BY <2>4, <2>5
<1>3. CASE Enqueue(s, t)
  <2>1. /\ holder' = holder /\ leases' = leases
        /\ waiting' = [waiting EXCEPT ![s] = WithAll(@, {t}, LAMBDA u : 0)]
    BY <1>3 DEF Enqueue
  <2>2. waiting = [r \in Shards |-> waiting[r]]
    BY DEF ActorInv
  <2>3. /\ waiting' = [r \in Shards |-> waiting'[r]]
        /\ \A r \in Shards : DOMAIN waiting'[r] \subseteq DOMAIN waiting[r] \cup {t}
    BY <2>1, <2>2 DEF WithAll
  <2>4. \A r \in Shards : DOMAIN waiting'[r] \subseteq Tokens
    BY <2>3 DEF ActorInv, Waiters
  <2>5. queues' \in [Names -> Seq(Tokens)]
    <3>1. queues' = [n \in Names |-> IF n \in Part(t, s) THEN Append(queues[n], t) ELSE queues[n]]
      BY <1>3 DEF Enqueue
    <3>2. \A n \in Names : queues[n] \in Seq(Tokens) /\ Append(queues[n], t) \in Seq(Tokens)
      BY DEF ActorInv
    <3> QED
      BY <3>1, <3>2
  <2>8. ActorInv'
    BY <2>1, <2>3, <2>4, <2>5 DEF ActorInv, HoldersAgree, Leased, Waiters
  <2>6. \A r \in Shards : \A u \in Leased(r) : leases[r][u] <= leases[r][u]
    BY LeaseTimes DEF ActorInv
  <2>7. LeasesKeep({})
    BY <2>1, <2>6 DEF LeasesKeep, Leased
  <2> QED
    BY <2>7, <2>8
<1>4. CASE WaitAgain(s, t)
  BY <1>4, LeaseTimes DEF WaitAgain, ActorInv, HoldersAgree, LeasesKeep, Leased, Waiters
<1> QED
  BY <1>1, <1>2, <1>3, <1>4 DEF Acquire

LEMMA EndWaitKeeps ==
  ASSUME ActorInv, NEW s \in Shards, NEW t \in Tokens, EndWait(s, t)
  PROVE  ActorInv' /\ LeasesKeep({})
<1>1. /\ holder' = holder /\ leases' = leases /\ queues' = queues
      /\ waiting' = [waiting EXCEPT ![s] = [u \in DOMAIN @ |-> IF u = t THEN 0 ELSE @[u]]]
  BY DEF EndWait
<1>2. waiting = [r \in Shards |-> waiting[r]]
  BY DEF ActorInv
<1>3. /\ waiting' = [r \in Shards |-> waiting'[r]]
      /\ \A r \in Shards : DOMAIN waiting'[r] = DOMAIN waiting[r]
  BY <1>1, <1>2
<1> QED
  BY <1>1, <1>3, LeaseTimes DEF ActorInv, HoldersAgree, LeasesKeep, Leased, Waiters

(* A renewal, which gives a lease that is not over its full time.          *)
LEMMA RenewKeeps ==
  ASSUME ActorInv, NEW s \in Shards, NEW t \in Tokens, Renew(s, t)
  PROVE  /\ ActorInv' /\ LeasesKeep({})
         /\ IsAlive(s, t) => t \in DOMAIN leases'[s] /\ leases'[s][t] = LeaseTime[t]
<1>1. /\ holder' = holder /\ waiting' = waiting /\ queues' = queues
      /\ leases' = [leases EXCEPT ![s] =
           [u \in DOMAIN @ |-> IF u = t /\ IsAlive(s, t) THEN LeaseTime[t] ELSE @[u]]]
  BY DEF Renew
<1>2. leases = [r \in Shards |-> leases[r]]
  BY DEF ActorInv
<1>3. /\ leases' = [r \in Shards |-> leases'[r]]
      /\ \A r \in Shards \ {s} : leases'[r] = leases[r]
      /\ leases'[s] = [u \in Leased(s) |-> IF u = t /\ IsAlive(s, t) THEN LeaseTime[t] ELSE leases[s][u]]
  BY <1>1, <1>2 DEF Leased
<1>4. \A r \in Shards : DOMAIN leases'[r] = DOMAIN leases[r]
  BY <1>3 DEF Leased
<1>5. \A r \in Shards : \A u \in DOMAIN leases'[r] :
        leases'[r][u] \in 0..LeaseTime[u] /\ leases[r][u] <= leases'[r][u]
  BY <1>3, LeaseTimes, LeasesAre DEF Leased
<1>6. ActorInv'
  BY <1>1, <1>3, <1>4, <1>5 DEF ActorInv, HoldersAgree, Leased, Waiters
<1>7. LeasesKeep({})
  BY <1>4, <1>5 DEF LeasesKeep, Leased
<1> QED
  BY <1>3, <1>6, <1>7 DEF IsAlive

LEMMA ReleaseKeeps ==
  ASSUME ActorInv, NEW s \in Shards, NEW t \in Tokens, Release(s, t)
  PROVE  ActorInv' /\ LeasesKeep({t})
<1>1. CASE ReleaseLease(s, t)
  BY <1>1, HandOffKeeps DEF ReleaseLease, LeasesKeep
<1>2. CASE Withdraw(s, t) /\ t \in Waiters(s)
  <2>1. HandOff(s, {}, {t}, expiries[s])
    BY <1>2 DEF Withdraw
  <2>2. {} \in SUBSET Tokens /\ {t} \in SUBSET Tokens
    OBVIOUS
  <2>3. /\ ActorInv'
        /\ \A r \in Shards : \A u \in Leased(r) : ~(r = s /\ u \in {}) =>
             u \in DOMAIN leases'[r] /\ leases[r][u] <= leases'[r][u]
    BY <2>1, <2>2, HandOffKeeps
  <2> QED
    BY <2>3 DEF LeasesKeep
<1>3. CASE Withdraw(s, t) /\ t \notin Waiters(s)
  BY <1>3, LeaseTimes DEF Withdraw, ActorInv, HoldersAgree, LeasesKeep, Leased, Waiters
<1> QED
  BY <1>1, <1>2, <1>3 DEF Release

LEMMA ExpireKeeps ==
  ASSUME ActorInv, NEW s \in Shards, Expire(s)
  PROVE  ActorInv' /\ LeasesKeep({})
<1>1. HandOff(s, Over(s), {}, Kept(s))
  BY DEF Expire
<1>2. \A t \in Over(s) : t \in Leased(s) /\ t \in Tokens /\ leases[s][t] = 0
  BY DEF Over, ActorInv
<1> QED
  BY <1>1, <1>2, HandOffKeeps DEF LeasesKeep

(* A tick takes one off every lease that is not over.                      *)
LEMMA TickKeeps ==
  ASSUME ActorInv, LockTick
  PROVE  /\ ActorInv'
         /\ \A s \in Shards : \A t \in Leased(s) :
              t \in DOMAIN leases'[s] /\ leases'[s][t] = Less(leases[s][t])
<1>1. /\ leases' = [s \in Shards |-> [t \in Leased(s) |-> Less(leases[s][t])]]
      /\ holder' = holder /\ queues' = queues
      /\ waiting' = [s \in Shards |-> waiting'[s]]
      /\ \A s \in Shards : DOMAIN waiting'[s] = DOMAIN waiting[s]
  BY DEF LockTick, Waiters
<1>2. \A s \in Shards : DOMAIN leases'[s] = DOMAIN leases[s]
  BY <1>1 DEF Leased
<1>3. \A s \in Shards : \A t \in Leased(s) : Less(leases[s][t]) \in 0..LeaseTime[t]
  BY LeaseTimes DEF ActorInv, Less
<1> QED
  BY <1>1, <1>2, <1>3 DEF ActorInv, HoldersAgree, Leased, Waiters

-----------------------------------------------------------------------------
(* Steps of the callers.  Whatever an actor does, what is covered stays so,*)
(* but by a release that is run of its own token.                          *)
LEMMA CoveredStays ==
  ASSUME ActorInv, NEW T, LeasesKeep(T), NEW s \in Shards, NEW t \in Tokens, t \notin T,
         NEW k \in Nat, Covered(s, t, k),
         \A u \in DOMAIN leases'[s] : leases'[s][u] \in Nat
  PROVE  k # 0 => t \in DOMAIN leases'[s] /\ k <= leases'[s][t]
BY LeaseTimes DEF ActorInv, LeasesKeep, Covered

(* A step of an actor that leaves the callers' own state alone, up to what *)
(* is on its way.                                                          *)
LEMMA CallersStay ==
  ASSUME LockInv, ActorInv', NEW T, LeasesKeep(T),
         \A t \in T : granted[t] = {} /\ round[t] = NoRound /\ call[t].at # "granted",
         UNCHANGED <<granted, deadline, round>>
  PROVE  /\ DeadlinesCovered' /\ RoundsCovered'
         /\ \A t \in Tokens : call[t].at = "granted" =>
              LET s == call[t].shard IN
              call[t].time # 0 => t \in DOMAIN leases'[s] /\ call[t].time <= leases'[s][t]
<1>1. \A s \in Shards : \A u \in DOMAIN leases'[s] : leases'[s][u] \in Nat
  BY LeaseTimes DEF ActorInv, Leased
<1>2. ASSUME NEW t \in Tokens, NEW s \in granted[t]
      PROVE  Covered(s, t, deadline[t])'
  <2>1. s \in Shards /\ deadline[t] \in Nat /\ Covered(s, t, deadline[t]) /\ t \notin T
    BY DEF LockInv, CallerTypes, DeadlinesCovered
  <2>2. deadline[t] # 0 => t \in DOMAIN leases'[s] /\ deadline[t] <= leases'[s][t]
    BY <1>1, <2>1, CoveredStays DEF LockInv
  <2> QED
    BY <2>2 DEF Covered, Leased
<1>3. ASSUME NEW t \in Tokens, ~round[t].refused, NEW s \in round[t].shards \ round[t].unanswered
      PROVE  Covered(s, t, GoodFromSent(LeaseTime[t], round[t].age))'
  <2> DEFINE k == GoodFromSent(LeaseTime[t], round[t].age)
  <2>0. /\ round[t].shards \in SUBSET Shards /\ round[t].age \in Nat
        /\ LeaseTime[t] \in Nat
    BY LeaseTimes DEF LockInv, CallerTypes
  <2>1. /\ s \in Shards /\ Covered(s, t, k) /\ k \in Nat
        /\ t \notin T
    <3>1. Covered(s, t, k)
      BY <1>3 DEF LockInv, RoundsCovered
    <3>2. t \notin T
      BY DEF NoRound
    <3> QED
      BY <2>0, <3>1, <3>2 DEF GoodFromSent
  <2>2. k # 0 => t \in DOMAIN leases'[s] /\ k <= leases'[s][t]
    BY <1>1, <2>1, CoveredStays DEF LockInv
  <2>3. k' = k
    BY DEF GoodFromSent
  <2> QED
    BY <2>2, <2>3 DEF Covered, Leased
<1>4. ASSUME NEW t \in Tokens, call[t].at = "granted"
      PROVE  call[t].time # 0 =>
               t \in DOMAIN leases'[call[t].shard] /\ call[t].time <= leases'[call[t].shard][t]
  <2>1. /\ call[t].shard \in Shards /\ call[t].time \in Nat
        /\ Covered(call[t].shard, t, call[t].time) /\ t \notin T
    BY <1>4 DEF LockInv, CallerTypes, CallsAgree, GrantsCovered
  <2> QED
    BY <1>1, <2>1, CoveredStays DEF LockInv
<1> QED
  BY <1>2, <1>3, <1>4 DEF DeadlinesCovered, RoundsCovered

(* The actor's answer to a call that has a shard.                          *)
LEMMA AnswerIsCovered ==
  ASSUME LockInv, ActorInv', NEW t \in Tokens, call[t].at \in {"sent", "parked"}
  PROVE  /\ Answer(t) \in [at : Places, shard : 0..NumShards, time : Nat]
         /\ Answer(t).at # "none" => Answer(t).shard = call[t].shard
         /\ Answer(t).at \in {"granted", "denied"} => phase[t] = "asking"
         /\ Answer(t).at = "granted" /\ Answer(t).time # 0 =>
              /\ t \in DOMAIN leases'[call[t].shard]
              /\ Answer(t).time <= leases'[call[t].shard][t]
<1> DEFINE c == call[t]
           s == call[t].shard
<1>1. /\ c \in [at : Places, shard : 0..NumShards, time : Nat]
      /\ s \in Shards
  BY DEF LockInv, CallerTypes, CallsAgree
<1>2. t \in DOMAIN leases'[s] => leases'[s][t] \in Nat
  BY <1>1, LeaseTimes DEF ActorInv, Leased
<1>3. CASE t \in parked'[s]
  <2>1. Answer(t) = [c EXCEPT !.at = "parked"]
    BY <1>3 DEF Answer
  <2> QED
    BY <1>1, <2>1 DEF Places
<1>4. CASE t \notin parked'[s] /\ phase[t] # "asking"
  <2>1. Answer(t) = NoCall
    BY <1>4 DEF Answer
  <2> QED
    BY <2>1, LockManagerAssumption DEF NoCall, Places
<1>5. CASE t \notin parked'[s] /\ phase[t] = "asking" /\ t \in DOMAIN leases'[s]
  <2>1. Answer(t) = [c EXCEPT !.at = "granted", !.time = GoodFromSent(leases'[s][t], c.time)]
    BY <1>5 DEF Answer
  <2>2. /\ GoodFromSent(leases'[s][t], c.time) \in Nat
        /\ GoodFromSent(leases'[s][t], c.time) <= leases'[s][t]
    BY <1>1, <1>2, <1>5 DEF GoodFromSent
  <2> QED
    BY <1>1, <1>5, <2>1, <2>2 DEF Places
<1>6. CASE t \notin parked'[s] /\ phase[t] = "asking" /\ t \notin DOMAIN leases'[s]
  <2>1. Answer(t) = [c EXCEPT !.at = "denied", !.time = 0]
    BY <1>6 DEF Answer
  <2>2. Answer(t) = [at |-> "denied", shard |-> s, time |-> 0]
    BY <1>1, <2>1
  <2>3. Answer(t) \in [at : Places, shard : 0..NumShards, time : Nat]
    BY <1>1, <2>2 DEF Places
  <2> QED
    BY <1>6, <2>2, <2>3
<1> QED
  BY <1>3, <1>4, <1>5, <1>6

(* A call goes into the actor, or ends there.                              *)
LEMMA AnswerKeeps ==
  ASSUME LockInv, ActorInv', LeasesKeep({}), NEW t \in Tokens, call[t].at \in {"sent", "parked"},
         call' = [call EXCEPT ![t] = Answer(t)],
         UNCHANGED <<phase, granted, pending, deadline, lost, round, late, releases>>
  PROVE  LockInv'
<1>1. DeadlinesCovered' /\ RoundsCovered'
  BY CallersStay
<1>2. /\ Answer(t) \in [at : Places, shard : 0..NumShards, time : Nat]
      /\ Answer(t).at # "none" => Answer(t).shard = call[t].shard
      /\ Answer(t).at \in {"granted", "denied"} => phase[t] = "asking"
      /\ Answer(t).at = "granted" /\ Answer(t).time # 0 =>
           /\ t \in DOMAIN leases'[call[t].shard]
           /\ Answer(t).time <= leases'[call[t].shard][t]
  BY AnswerIsCovered
<1>3. \A u \in Tokens : call'[u] = IF u = t THEN Answer(t) ELSE call[u]
  BY DEF LockInv, CallerTypes
<1>4. CallerTypes'
  BY <1>2 DEF LockInv, CallerTypes
<1>5. CallsAgree'
  BY <1>2, <1>3 DEF LockInv, CallsAgree
<1>6. GrantsCovered'
  <2> SUFFICES ASSUME NEW u \in Tokens, call'[u].at = "granted", call'[u].time # 0
               PROVE  /\ u \in DOMAIN leases'[call'[u].shard]
                      /\ call'[u].time <= leases'[call'[u].shard][u]
    BY DEF GrantsCovered, Covered, Leased
  <2>1. CASE u = t
    BY <1>2, <1>3, <2>1
  <2>2. CASE u # t
    BY <1>3, <2>2, CallersStay
  <2> QED
    BY <2>1, <2>2
<1> QED
  BY <1>1, <1>4, <1>5, <1>6 DEF LockInv

(* Steps of a caller that no actor takes part in.                          *)
LEMMA ActorsStay ==
  ASSUME LockInv, UNCHANGED lockVars
  PROVE  ActorInv'
BY DEF LockInv, lockVars, ActorInv, HoldersAgree, Leased, Waiters

LEMMA DepartedKeeps ==
  ASSUME LockInv, UNCHANGED lockVars, NEW t \in Tokens, NEW how \in {"left", "dead"},
         Departed(t, how),
         NEW c, c = NoCall \/ c = [call[t] EXCEPT !.time = 0] \/ c = call[t],
         c.at \notin {"granted", "denied"},
         call' = [call EXCEPT ![t] = c],
         \/ how = "left" /\ releases' = [releases EXCEPT ![t] = pending[t]]
         \/ releases[t] = {} /\ releases' = releases
  PROVE  LockInv'
<1>1. CallerTypes
  BY DEF LockInv
<1>2. /\ c \in [at : Places, shard : 0..NumShards, time : Nat]
      /\ c.at # "none" => c.shard \in Shards
  <2>1. NoCall \in [at : Places, shard : 0..NumShards, time : Nat] /\ NoCall.at = "none"
    BY LockManagerAssumption DEF NoCall, Places
  <2>2. /\ call[t] \in [at : Places, shard : 0..NumShards, time : Nat]
        /\ call[t].at # "none" => call[t].shard \in Shards
    BY <1>1 DEF CallerTypes, LockInv, CallsAgree
  <2>3. LET d == [call[t] EXCEPT !.time = 0]
        IN  /\ d \in [at : Places, shard : 0..NumShards, time : Nat]
            /\ d.at = call[t].at /\ d.shard = call[t].shard
    BY <2>2
  <2> QED
    BY <2>1, <2>2, <2>3
<1>3. /\ releases' \in [Tokens -> SUBSET Shards]
      /\ \A u \in Tokens \ {t} : releases'[u] = releases[u]
      /\ releases'[t] # {} => how = "left"
  BY <1>1 DEF CallerTypes
<1>4. /\ phase' = [phase EXCEPT ![t] = how]
      /\ granted' = [granted EXCEPT ![t] = {}]
      /\ pending' = [pending EXCEPT ![t] = {}]
      /\ deadline' = [deadline EXCEPT ![t] = Never]
      /\ lost' = [lost EXCEPT ![t] = FALSE]
      /\ round' = [round EXCEPT ![t] = NoRound]
      /\ late' = [late EXCEPT ![t] = @ \cup round[t].unanswered]
  BY DEF Departed
<1>5. CallerTypes'
  <2>1. /\ phase' \in [Tokens -> {"asking", "holding", "left", "dead"}]
        /\ call' \in [Tokens -> [at : Places, shard : 0..NumShards, time : Nat]]
        /\ granted' \in [Tokens -> SUBSET Shards]
        /\ pending' \in [Tokens -> SUBSET Shards]
        /\ lost' \in [Tokens -> BOOLEAN]
    BY <1>1, <1>2, <1>4 DEF CallerTypes
  <2>2. deadline' \in [Tokens -> Nat]
    BY <1>1, <1>4, LeaseTimes DEF CallerTypes, Never
  <2>3. round' \in [Tokens -> [shards : SUBSET Shards, unanswered : SUBSET Shards,
                               refused : BOOLEAN, age : Nat]]
    <3>1. NoRound \in [shards : SUBSET Shards, unanswered : SUBSET Shards,
                       refused : BOOLEAN, age : Nat]
      BY DEF NoRound
    <3> QED
      BY <1>1, <1>4, <3>1 DEF CallerTypes
  <2>4. late' \in [Tokens -> SUBSET Shards]
    BY <1>1, <1>4 DEF CallerTypes
  <2> QED
    BY <1>3, <2>1, <2>2, <2>3, <2>4 DEF CallerTypes
<1>6. \A u \in Tokens \ {t} :
        /\ phase'[u] = phase[u] /\ granted'[u] = granted[u] /\ deadline'[u] = deadline[u]
        /\ round'[u] = round[u] /\ call'[u] = call[u]
  BY <1>1, <1>4 DEF CallerTypes
<1>7. /\ phase'[t] = how /\ granted'[t] = {} /\ round'[t] = NoRound /\ call'[t] = c
  BY <1>1, <1>4 DEF CallerTypes
<1>8. CallsAgree'
  BY <1>2, <1>3, <1>6, <1>7 DEF LockInv, CallsAgree
<1>9. leases' = leases
  BY DEF lockVars
<1>10. DeadlinesCovered' /\ GrantsCovered'
  BY <1>6, <1>7, <1>9 DEF LockInv, DeadlinesCovered, GrantsCovered, Covered, Leased
<1>11. RoundsCovered'
  <2> SUFFICES ASSUME NEW u \in Tokens, ~round'[u].refused,
                      NEW s \in round'[u].shards \ round'[u].unanswered
               PROVE  Covered(s, u, GoodFromSent(LeaseTime[u], round[u].age))' 
    BY DEF RoundsCovered
  <2>1. u # t
    BY <1>7 DEF NoRound
  <2>2. round'[u] = round[u]
    BY <1>6, <2>1
  <2> QED
    BY <1>9, <2>2 DEF LockInv, RoundsCovered, Covered, Leased, GoodFromSent
<1> QED
  BY <1>5, <1>8, <1>10, <1>11, ActorsStay DEF LockInv

LEMMA MinOfTwo ==
  ASSUME NEW j \in Nat, NEW k \in Nat
  PROVE  Min({j, k}) \in Nat /\ Min({j, k}) <= j /\ Min({j, k}) <= k
<1>1. \E x \in {j, k} : \A y \in {j, k} : x <= y
  OBVIOUS
<1>2. Min({j, k}) \in {j, k} /\ \A y \in {j, k} : Min({j, k}) <= y
  BY <1>1 DEF Min
<1> QED
  BY <1>2

LEMMA AskKeeps ==
  ASSUME LockInv, NEW t \in Tokens, Ask(t)
  PROVE  LockInv'
<1>1. PICK s \in NextShards(t) :
        /\ call' = [call EXCEPT ![t] = [at |-> "sent", shard |-> s, time |-> 0]]
        /\ pending' = [pending EXCEPT ![t] = @ \cup {s}]
  BY DEF Ask
<1>2. /\ phase[t] = "asking"
      /\ UNCHANGED <<lockVars, phase, granted, deadline, lost, round, late, releases>>
  BY DEF Ask
<1>3. s \in Shards
  BY LockManagerAssumption DEF NextShards, ShardsOf
<1>4. CallerTypes'
  BY <1>1, <1>2, <1>3 DEF LockInv, CallerTypes, Shards, Places
<1>5. \A u \in Tokens : call'[u] = IF u = t THEN [at |-> "sent", shard |-> s, time |-> 0] ELSE call[u]
  BY <1>1 DEF LockInv, CallerTypes
<1>6. CallsAgree' /\ GrantsCovered'
  BY <1>2, <1>3, <1>5 DEF LockInv, CallsAgree, GrantsCovered, Covered, Leased, lockVars
<1>7. DeadlinesCovered' /\ RoundsCovered'
  BY <1>2 DEF LockInv, DeadlinesCovered, RoundsCovered, Covered, Leased, GoodFromSent, lockVars
<1> QED
  BY <1>2, <1>4, <1>6, <1>7, ActorsStay DEF LockInv

LEMMA TakeGrantKeeps ==
  ASSUME LockInv, NEW t \in Tokens, TakeGrant(t)
  PROVE  LockInv'
<1> DEFINE s    == call[t].shard
           got  == granted[t] \cup {call[t].shard}
           left == Min({deadline[t], call[t].time})
<1>1. /\ phase[t] = "asking" /\ call[t].at = "granted"
      /\ call' = [call EXCEPT ![t] = NoCall]
      /\ UNCHANGED lockVars
  BY DEF TakeGrant
<1>2. CASE Leave(t)
  <2>1. NoCall.at \notin {"granted", "denied"}
    BY DEF NoCall
  <2>2. Departed(t, "left") /\ releases' = [releases EXCEPT ![t] = pending[t]]
    BY <1>2 DEF Leave
  <2> QED
    BY <1>1, <2>1, <2>2, DepartedKeeps
<1>3. CASE /\ phase' = [phase EXCEPT ![t] = IF got = ShardsOf(t) THEN "holding" ELSE "asking"]
           /\ granted' = [granted EXCEPT ![t] = got]
           /\ deadline' = [deadline EXCEPT ![t] = left]
           /\ UNCHANGED <<pending, lost, round, late, releases>>
  <2>1. CallerTypes /\ s \in Shards /\ deadline[t] \in Nat /\ call[t].time \in Nat
    BY <1>1 DEF LockInv, CallerTypes, CallsAgree
  <2>2. left \in Nat /\ left <= deadline[t] /\ left <= call[t].time
    BY <2>1, MinOfTwo
  <2> HIDE DEF left
  <2>3. /\ NoCall \in [at : Places, shard : 0..NumShards, time : Nat]
        /\ NoCall.at = "none"
    BY LockManagerAssumption DEF NoCall, Places
  <2>4. CallerTypes'
    BY <1>1, <1>3, <2>1, <2>2, <2>3 DEF CallerTypes
  <2>5. /\ \A u \in Tokens \ {t} : /\ phase'[u] = phase[u] /\ granted'[u] = granted[u]
                                  /\ deadline'[u] = deadline[u] /\ call'[u] = call[u]
        /\ phase'[t] \in {"holding", "asking"} /\ granted'[t] = got
        /\ deadline'[t] = left /\ call'[t] = NoCall
    BY <1>1, <1>3, <2>1 DEF CallerTypes
  <2>6. CallsAgree'
    BY <1>1, <1>3, <2>3, <2>5 DEF LockInv, CallsAgree
  <2>7. leases' = leases
    BY <1>1 DEF lockVars
  <2>8. GrantsCovered'
    BY <2>3, <2>5, <2>7 DEF LockInv, GrantsCovered, Covered, Leased
  <2>9. DeadlinesCovered'
    <3> SUFFICES ASSUME NEW u \in Tokens, NEW r \in granted'[u], deadline'[u] # 0
                 PROVE  u \in Leased(r) /\ deadline'[u] <= leases[r][u]
      BY <2>7 DEF DeadlinesCovered, Covered, Leased
    <3>1. CASE u # t
      BY <2>5, <3>1 DEF LockInv, DeadlinesCovered, Covered
    <3>2. CASE u = t /\ r \in granted[t]
      <4>1. Covered(r, t, deadline[t]) /\ r \in Shards
        BY <3>2, <2>1 DEF LockInv, DeadlinesCovered, CallerTypes
      <4>2. deadline[t] # 0
        BY <2>1, <2>2, <2>5, <3>2
      <4>3. t \in Leased(r) => leases[r][t] \in Nat
        BY <4>1, LeaseTimes DEF LockInv, ActorInv
      <4> QED
        BY <2>1, <2>2, <2>5, <3>2, <4>1, <4>2, <4>3 DEF Covered
    <3>3. CASE u = t /\ r = s
      <4>1. Covered(s, t, call[t].time)
        BY <1>1 DEF LockInv, GrantsCovered
      <4>2. call[t].time # 0
        BY <2>1, <2>2, <2>5, <3>3
      <4>3. t \in Leased(s) => leases[s][t] \in Nat
        BY <2>1, LeaseTimes DEF LockInv, ActorInv
      <4> QED
        BY <2>1, <2>2, <2>5, <3>3, <4>1, <4>2, <4>3 DEF Covered
    <3> QED
      BY <2>5, <3>1, <3>2, <3>3
  <2>10. RoundsCovered'
    BY <1>3, <2>7 DEF LockInv, RoundsCovered, Covered, Leased, GoodFromSent
  <2> QED
    BY <1>1, <2>4, <2>6, <2>8, <2>9, <2>10, ActorsStay DEF LockInv
<1> QED
  BY <1>2, <1>3 DEF TakeGrant

LEMMA TakeDenialKeeps ==
  ASSUME LockInv, NEW t \in Tokens, TakeDenial(t)
  PROVE  LockInv'
<1>1. /\ phase[t] = "asking"
      /\ call' = [call EXCEPT ![t] = NoCall]
      /\ UNCHANGED lockVars
  BY DEF TakeDenial
<1>2. /\ NoCall \in [at : Places, shard : 0..NumShards, time : Nat]
      /\ NoCall.at = "none"
  BY LockManagerAssumption DEF NoCall, Places
<1>3. CASE Leave(t)
  <2>1. Departed(t, "left") /\ releases' = [releases EXCEPT ![t] = pending[t]]
    BY <1>3 DEF Leave
  <2> QED
    BY <1>1, <1>2, <2>1, DepartedKeeps
<1>4. CASE UNCHANGED <<phase, granted, pending, deadline, lost, round, late, releases>>
  <2>1. CallerTypes'
    BY <1>1, <1>2, <1>4 DEF LockInv, CallerTypes
  <2>2. \A u \in Tokens : call'[u] = IF u = t THEN NoCall ELSE call[u]
    BY <1>1 DEF LockInv, CallerTypes
  <2>3. CallsAgree' /\ GrantsCovered'
    BY <1>1, <1>2, <1>4, <2>2 DEF LockInv, CallsAgree, GrantsCovered, Covered, Leased, lockVars
  <2>4. DeadlinesCovered' /\ RoundsCovered'
    BY <1>1, <1>4 DEF LockInv, DeadlinesCovered, RoundsCovered, Covered, Leased, GoodFromSent, lockVars
  <2> QED
    BY <1>1, <2>1, <2>3, <2>4, ActorsStay DEF LockInv
<1> QED
  BY <1>3, <1>4 DEF TakeDenial

LEMMA DepartureKeeps ==
  ASSUME LockInv, NEW t \in Tokens, GiveUp(t) \/ Exit(t) \/ Die(t)
  PROVE  LockInv'
<1>1. /\ Abandoned(call[t]) = NoCall \/ Abandoned(call[t]) = [call[t] EXCEPT !.time = 0]
      /\ Abandoned(call[t]).at \notin {"granted", "denied"}
  <2>1. call[t] \in [at : Places, shard : 0..NumShards, time : Nat]
    BY DEF LockInv, CallerTypes
  <2> QED
    BY <2>1 DEF Abandoned, NoCall
<1>2. CASE GiveUp(t)
  BY <1>1, <1>2, DepartedKeeps DEF GiveUp, Leave
<1>3. CASE Exit(t)
  <2>1. /\ UNCHANGED lockVars /\ UNCHANGED call /\ phase[t] = "holding"
        /\ Departed(t, "left") /\ releases' = [releases EXCEPT ![t] = pending[t]]
    BY <1>3 DEF Exit, Leave
  <2>2. call[t].at \notin {"granted", "denied"}
    BY <2>1 DEF LockInv, CallsAgree
  <2>3. call' = [call EXCEPT ![t] = call[t]]
    BY <2>1 DEF LockInv, CallerTypes
  <2> QED
    BY <2>1, <2>2, <2>3, DepartedKeeps
<1>4. CASE Die(t)
  <2>1. releases[t] = {}
    BY <1>4 DEF Die, LockInv, CallsAgree
  <2> QED
    BY <1>1, <1>4, <2>1, DepartedKeeps DEF Die
<1> QED
  BY <1>2, <1>3, <1>4

LEMMA RoundKeeps ==
  ASSUME LockInv, NEW t \in Tokens, StartRound(t) \/ CloseRound(t)
  PROVE  LockInv'
<1>1. /\ UNCHANGED <<lockVars, phase, call, granted, pending, releases>>
      /\ granted[t] # {} \/ round[t] # NoRound
  BY DEF StartRound, CloseRound
<1>2. /\ CallerTypes
      /\ NoRound \in [shards : SUBSET Shards, unanswered : SUBSET Shards,
                      refused : BOOLEAN, age : Nat]
  BY DEF LockInv, NoRound
<1>3. phase[t] \notin {"left", "dead"}
  BY <1>1 DEF LockInv, CallsAgree
<1>4. GrantsCovered'
  BY <1>1 DEF LockInv, GrantsCovered, Covered, Leased, lockVars
<1>5. CASE StartRound(t)
  <2> DEFINE r == [shards |-> granted[t], unanswered |-> granted[t], refused |-> FALSE, age |-> 0]
  <2>1. /\ round' = [round EXCEPT ![t] = r]
        /\ UNCHANGED <<lockVars, phase, call, granted, pending, deadline, lost, late, releases>>
    BY <1>5 DEF StartRound
  <2>2. r \in [shards : SUBSET Shards, unanswered : SUBSET Shards, refused : BOOLEAN, age : Nat]
    BY <1>2 DEF CallerTypes
  <2>3. CallerTypes'
    BY <1>2, <2>1, <2>2 DEF CallerTypes
  <2>4. \A u \in Tokens : round'[u] = IF u = t THEN r ELSE round[u]
    BY <1>2, <2>1 DEF CallerTypes
  <2>5. CallsAgree'
    BY <1>1, <1>3, <2>4 DEF LockInv, CallsAgree
  <2>6. DeadlinesCovered'
    BY <2>1 DEF LockInv, DeadlinesCovered, Covered, Leased, lockVars
  <2>7. RoundsCovered'
    BY <2>1, <2>4 DEF LockInv, RoundsCovered, Covered, Leased, lockVars, GoodFromSent
  <2> QED
    BY <1>1, <1>4, <2>3, <2>5, <2>6, <2>7, ActorsStay DEF LockInv
<1>6. CASE CloseRound(t)
  <2> DEFINE r == round[t]
             k == GoodFromSent(LeaseTime[t], r.age)
  <2>1. /\ lost' = [lost EXCEPT ![t] = @ \/ r.refused]
        /\ deadline' = [deadline EXCEPT ![t] = IF ~r.refused /\ RenewedAll(t) THEN k ELSE @]
        /\ late' = [late EXCEPT ![t] = @ \cup r.unanswered]
        /\ round' = [round EXCEPT ![t] = NoRound]
    BY <1>6 DEF CloseRound
  <2>2. k \in Nat
    BY <1>2, LeaseTimes DEF CallerTypes, GoodFromSent
  <2> HIDE DEF k
  <2>3. CallerTypes'
    <3>1. deadline' \in [Tokens -> Nat]
      BY <1>2, <2>1, <2>2 DEF CallerTypes
    <3>2. late' \in [Tokens -> SUBSET Shards] /\ lost' \in [Tokens -> BOOLEAN]
      <4>1. r.unanswered \in SUBSET Shards /\ (lost[t] \/ r.refused) \in BOOLEAN
        BY <1>2 DEF CallerTypes
      <4>2. late' \in [Tokens -> SUBSET Shards]
        BY <1>2, <2>1, <4>1 DEF CallerTypes
      <4>3. lost' \in [Tokens -> BOOLEAN]
        BY <1>2, <2>1, <4>1 DEF CallerTypes
      <4> QED
        BY <4>2, <4>3
    <3>3. round' \in [Tokens -> [shards : SUBSET Shards, unanswered : SUBSET Shards,
                                 refused : BOOLEAN, age : Nat]]
      BY <1>2, <2>1 DEF CallerTypes
    <3> QED
      BY <1>1, <1>2, <3>1, <3>2, <3>3 DEF CallerTypes
  <2>4. \A u \in Tokens : round'[u] = IF u = t THEN NoRound ELSE round[u]
    BY <1>2, <2>1 DEF CallerTypes
  <2>5. CallsAgree'
    BY <1>1, <1>3, <2>4 DEF LockInv, CallsAgree
  <2>6. DeadlinesCovered'
    <3> SUFFICES ASSUME NEW u \in Tokens, NEW s \in granted[u]
                 PROVE  Covered(s, u, deadline'[u])
      BY <1>1 DEF DeadlinesCovered, Covered, Leased, lockVars
    <3>1. CASE deadline'[u] = deadline[u]
      BY <3>1 DEF LockInv, DeadlinesCovered
    <3>2. CASE deadline'[u] # deadline[u]
      <4>1. u = t /\ ~r.refused /\ RenewedAll(t) /\ deadline'[u] = k
        BY <1>2, <2>1, <3>2 DEF CallerTypes
      <4>2. s \in r.shards \ r.unanswered
        BY <4>1 DEF RenewedAll
      <4> QED
        BY <4>1, <4>2 DEF LockInv, RoundsCovered, k
    <3> QED
      BY <3>1, <3>2
  <2>7. RoundsCovered'
    BY <1>1, <2>4 DEF LockInv, RoundsCovered, Covered, Leased, lockVars, GoodFromSent, NoRound
  <2> QED
    BY <1>1, <1>4, <2>3, <2>5, <2>6, <2>7, ActorsStay DEF LockInv
<1> QED
  BY <1>5, <1>6

(* A release or a renewal reaches an actor, or an actor's timer fires.     *)
LEMMA DeliveryKeeps ==
  ASSUME LockInv, NEW t \in Tokens, Delivery(t)
  PROVE  LockInv'
<1>1. CASE ReleaseArrives(t)
  <2>1. PICK s \in releases[t] : Release(s, t) /\ releases' = [releases EXCEPT ![t] = @ \ {s}]
    BY <1>1 DEF ReleaseArrives
  <2>2. UNCHANGED <<phase, call, granted, pending, deadline, lost, round, late>>
    BY <1>1 DEF ReleaseArrives
  <2>3. s \in Shards
    BY <2>1 DEF LockInv, CallerTypes
  <2>4. ActorInv' /\ LeasesKeep({t})
    BY <2>1, <2>3, ReleaseKeeps DEF LockInv
  <2>5. granted[t] = {} /\ round[t] = NoRound /\ call[t].at # "granted"
    BY <2>1 DEF LockInv, CallsAgree
  <2>6. /\ DeadlinesCovered' /\ RoundsCovered'
        /\ \A u \in Tokens : call[u].at = "granted" =>
             LET r == call[u].shard IN
             call[u].time # 0 => u \in DOMAIN leases'[r] /\ call[u].time <= leases'[r][u]
    BY <2>2, <2>4, <2>5, CallersStay
  <2>7. CallerTypes' /\ CallsAgree'
    BY <2>1, <2>2 DEF LockInv, CallerTypes, CallsAgree
  <2>8. GrantsCovered'
    BY <2>2, <2>6 DEF GrantsCovered, Covered, Leased
  <2> QED
    BY <2>4, <2>6, <2>7, <2>8 DEF LockInv
<1>2. CASE LateRenewArrives(t)
  <2>1. PICK s \in late[t] : Renew(s, t) /\ late' = [late EXCEPT ![t] = @ \ {s}]
    BY <1>2 DEF LateRenewArrives
  <2>2. UNCHANGED <<phase, call, granted, pending, deadline, lost, round, releases>>
    BY <1>2 DEF LateRenewArrives
  <2>3. s \in Shards
    BY <2>1 DEF LockInv, CallerTypes
  <2>4. ActorInv' /\ LeasesKeep({})
    BY <2>1, <2>3, RenewKeeps DEF LockInv
  <2>5. /\ DeadlinesCovered' /\ RoundsCovered'
        /\ \A u \in Tokens : call[u].at = "granted" =>
             LET r == call[u].shard IN
             call[u].time # 0 => u \in DOMAIN leases'[r] /\ call[u].time <= leases'[r][u]
    BY <2>2, <2>4, CallersStay
  <2>6. CallerTypes' /\ CallsAgree'
    BY <2>1, <2>2 DEF LockInv, CallerTypes, CallsAgree
  <2>7. GrantsCovered'
    BY <2>2, <2>5 DEF GrantsCovered, Covered, Leased
  <2> QED
    BY <2>4, <2>5, <2>6, <2>7 DEF LockInv
<1> QED
  BY <1>1, <1>2 DEF Delivery

LEMMA ExpiryKeeps ==
  ASSUME LockInv, NEW s \in Shards, ExpireShard(s)
  PROVE  LockInv'
<1>1. ActorInv' /\ LeasesKeep({}) /\ UNCHANGED callerVars
  BY ExpireKeeps DEF ExpireShard, LockInv
<1>2. /\ DeadlinesCovered' /\ RoundsCovered'
      /\ \A u \in Tokens : call[u].at = "granted" =>
           LET r == call[u].shard IN
           call[u].time # 0 => u \in DOMAIN leases'[r] /\ call[u].time <= leases'[r][u]
  BY <1>1, CallersStay DEF callerVars
<1>3. CallerTypes' /\ CallsAgree'
  BY <1>1 DEF LockInv, CallerTypes, CallsAgree, callerVars
<1>4. GrantsCovered'
  BY <1>1, <1>2 DEF GrantsCovered, Covered, Leased, callerVars
<1> QED
  BY <1>1, <1>2, <1>3, <1>4 DEF LockInv

LEMMA RenewArrivesKeeps ==
  ASSUME LockInv, NEW t \in Tokens, RenewArrives(t)
  PROVE  LockInv'
<1>1. PICK s \in round[t].unanswered :
        /\ Renew(s, t)
        /\ round' = [round EXCEPT ![t].unanswered = @ \ {s},
                                  ![t].refused = IF IsAlive(s, t) THEN @ ELSE TRUE]
  BY DEF RenewArrives
<1>2. UNCHANGED <<phase, call, granted, pending, deadline, lost, late, releases>>
  BY DEF RenewArrives
<1>3. /\ CallerTypes
      /\ round[t] \in [shards : SUBSET Shards, unanswered : SUBSET Shards,
                       refused : BOOLEAN, age : Nat]
      /\ s \in Shards
  BY <1>1 DEF LockInv, CallerTypes
<1>4. /\ ActorInv' /\ LeasesKeep({})
      /\ IsAlive(s, t) => t \in DOMAIN leases'[s] /\ leases'[s][t] = LeaseTime[t]
  BY <1>1, <1>3, RenewKeeps DEF LockInv
<1>5. round' \in [Tokens -> [shards : SUBSET Shards, unanswered : SUBSET Shards,
                             refused : BOOLEAN, age : Nat]]
  BY <1>1, <1>3 DEF CallerTypes
<1>6. /\ \A u \in Tokens \ {t} : round'[u] = round[u]
      /\ round'[t].shards = round[t].shards
      /\ round'[t].unanswered = round[t].unanswered \ {s}
      /\ round'[t].age = round[t].age
      /\ ~round'[t].refused => IsAlive(s, t) /\ ~round[t].refused
  BY <1>1, <1>3 DEF CallerTypes
<1>7. CallerTypes'
  BY <1>2, <1>3, <1>5 DEF CallerTypes
<1>8. CallsAgree'
  <2>1. phase[t] \notin {"left", "dead"}
    BY <1>1 DEF LockInv, CallsAgree, NoRound
  <2> QED
    BY <1>2, <1>6, <2>1 DEF LockInv, CallsAgree
<1>9. \A q \in Shards : \A u \in DOMAIN leases'[q] : leases'[q][u] \in Nat
  BY <1>4, LeaseTimes DEF ActorInv, Leased
<1>10. DeadlinesCovered'
  <2> SUFFICES ASSUME NEW u \in Tokens, NEW q \in granted[u]
               PROVE  deadline[u] # 0 => u \in DOMAIN leases'[q] /\ deadline[u] <= leases'[q][u]
    BY <1>2 DEF DeadlinesCovered, Covered, Leased
  <2>1. q \in Shards /\ deadline[u] \in Nat /\ Covered(q, u, deadline[u])
    BY <1>3 DEF LockInv, CallerTypes, DeadlinesCovered
  <2> QED
    BY <1>4, <1>9, <2>1, CoveredStays DEF LockInv
<1>11. GrantsCovered'
  <2> SUFFICES ASSUME NEW u \in Tokens, call[u].at = "granted"
               PROVE  call[u].time # 0 => /\ u \in DOMAIN leases'[call[u].shard]
                                          /\ call[u].time <= leases'[call[u].shard][u]
    BY <1>2 DEF GrantsCovered, Covered, Leased
  <2>1. /\ call[u].shard \in Shards /\ call[u].time \in Nat
        /\ Covered(call[u].shard, u, call[u].time)
    BY <1>3 DEF LockInv, CallerTypes, CallsAgree, GrantsCovered
  <2> QED
    BY <1>4, <1>9, <2>1, CoveredStays DEF LockInv
<1>12. RoundsCovered'
  <2> SUFFICES ASSUME NEW u \in Tokens, ~round'[u].refused,
                      NEW q \in round'[u].shards \ round'[u].unanswered
               PROVE  Covered(q, u, GoodFromSent(LeaseTime[u], round[u].age))'
    BY DEF RoundsCovered
  <2> DEFINE k == GoodFromSent(LeaseTime[u], round[u].age)
  <2>1. /\ round[u].age \in Nat /\ round'[u].age = round[u].age
        /\ ~round[u].refused /\ q \in round[u].shards /\ q \in Shards
        /\ LeaseTime[u] \in Nat
    BY <1>3, <1>5, <1>6, LeaseTimes DEF CallerTypes
  <2>2. k \in Nat /\ k <= LeaseTime[u] /\ k' = k
    BY <2>1 DEF GoodFromSent
  <2> HIDE DEF k
  <2>3. k # 0 => u \in DOMAIN leases'[q] /\ k <= leases'[q][u]
    <3>1. CASE u = t /\ q = s
      BY <1>4, <1>6, <2>2, <3>1
    <3>2. CASE ~(u = t /\ q = s)
      <4>1. q \in round[u].shards \ round[u].unanswered
        BY <1>6, <2>1, <3>2
      <4>2. Covered(q, u, k)
        BY <2>1, <4>1 DEF LockInv, RoundsCovered, k
      <4> QED
        BY <1>4, <1>9, <2>1, <2>2, <4>2, CoveredStays DEF LockInv
    <3> QED
      BY <3>1, <3>2
  <2> QED
    BY <2>2, <2>3 DEF Covered, Leased, k
<1> QED
  BY <1>4, <1>7, <1>8, <1>10, <1>11, <1>12 DEF LockInv

(* What is covered stays so when a tick takes one off both sides.          *)
LEMMA CoveredTicks ==
  ASSUME ActorInv, NEW s \in Shards, NEW t \in Tokens, NEW k \in Nat, Covered(s, t, k),
         \A u \in Leased(s) : u \in DOMAIN leases'[s] /\ leases'[s][u] = Less(leases[s][u])
  PROVE  Less(k) # 0 => t \in DOMAIN leases'[s] /\ Less(k) <= leases'[s][t]
<1>1. t \in Leased(s) => leases[s][t] \in Nat
  BY LeaseTimes DEF ActorInv
<1> QED
  BY <1>1 DEF Covered, Less

LEMMA TimeKeeps ==
  ASSUME LockInv, Tick
  PROVE  LockInv'
<1>1. /\ LockTick
      /\ UNCHANGED <<phase, granted, pending, lost, late, releases>>
      /\ deadline' = [t \in Tokens |-> IF deadline[t] = Never THEN Never ELSE Less(deadline[t])]
      /\ round' = [t \in Tokens |-> IF round[t] = NoRound THEN NoRound
                                    ELSE [round[t] EXCEPT !.age = Older(@)]]
  BY DEF Tick
<1>2. /\ ActorInv /\ ActorInv' /\ CallerTypes
      /\ \A s \in Shards : \A u \in Leased(s) :
           u \in DOMAIN leases'[s] /\ leases'[s][u] = Less(leases[s][u])
  BY <1>1, TickKeeps DEF LockInv
<1>3. \A k \in Nat :
        /\ Less(k) \in Nat /\ Older(k) \in Nat
        /\ Older(k) \in {k + 1, MaxLease}
  <2> TAKE k \in Nat
  <2>1. MaxLease \in Nat /\ k + 1 \in Nat
    BY LeaseTimes
  <2>2. \E x \in {k + 1, MaxLease} : \A y \in {k + 1, MaxLease} : x <= y
    BY <2>1
  <2>3. Older(k) \in {k + 1, MaxLease}
    BY <2>2 DEF Older, Min
  <2> QED
    BY <2>1, <2>3 DEF Less
<1>4. \A t \in Tokens :
        /\ call'[t] \in [at : Places, shard : 0..NumShards, time : Nat]
        /\ call'[t].at = call[t].at /\ call'[t].shard = call[t].shard
        /\ call[t].at = "granted" => call'[t].time = Less(call[t].time)
  <2> TAKE t \in Tokens
  <2> DEFINE c == call[t]
  <2>1. c \in [at : Places, shard : 0..NumShards, time : Nat]
    BY <1>2 DEF CallerTypes
  <2>2. CASE c.at \in {"sent", "parked"} /\ phase[t] = "asking"
    <3>1. call'[t] = [c EXCEPT !.time = Older(@)]
      BY <2>2 DEF Tick
    <3>2. Older(c.time) \in Nat
      BY <1>3, <2>1
    <3> QED
      BY <2>1, <2>2, <3>1, <3>2
  <2>3. CASE c.at = "granted"
    <3>1. call'[t] = [c EXCEPT !.time = Less(@)]
      BY <2>3 DEF Tick
    <3>2. Less(c.time) \in Nat
      BY <1>3, <2>1
    <3> QED
      BY <2>1, <2>3, <3>1, <3>2
  <2>4. CASE c.at # "granted" /\ ~(c.at \in {"sent", "parked"} /\ phase[t] = "asking")
    <3>1. call'[t] = c
      BY <2>4 DEF Tick
    <3> QED
      BY <2>1, <2>4, <3>1
  <2> QED
    BY <2>2, <2>3, <2>4
<1>5. \A t \in Tokens :
        /\ round'[t] \in [shards : SUBSET Shards, unanswered : SUBSET Shards,
                          refused : BOOLEAN, age : Nat]
        /\ round[t] = NoRound => round'[t] = NoRound
        /\ round[t] # NoRound => /\ round'[t].shards = round[t].shards
                                 /\ round'[t].unanswered = round[t].unanswered
                                 /\ round'[t].refused = round[t].refused
                                 /\ round'[t].age = Older(round[t].age)
  <2> TAKE t \in Tokens
  <2>1. round[t] \in [shards : SUBSET Shards, unanswered : SUBSET Shards,
                     refused : BOOLEAN, age : Nat]
    BY <1>2 DEF CallerTypes
  <2>2. Older(round[t].age) \in Nat
    BY <1>3, <2>1
  <2>3. round'[t] = IF round[t] = NoRound THEN NoRound ELSE [round[t] EXCEPT !.age = Older(@)]
    BY <1>1
  <2>4. CASE round[t] = NoRound
    BY <2>1, <2>3, <2>4
  <2>5. CASE round[t] # NoRound
    BY <2>1, <2>2, <2>3, <2>5
  <2> QED
    BY <2>4, <2>5
<1>6. CallerTypes'
  <2>1. deadline' \in [Tokens -> Nat]
    <3>1. \A t \in Tokens : Less(deadline[t]) \in Nat
      BY <1>2, <1>3 DEF CallerTypes
    <3>2. Never \in Nat
      BY LeaseTimes DEF Never
    <3> QED
      BY <1>1, <3>1, <3>2
  <2>2. call' \in [Tokens -> [at : Places, shard : 0..NumShards, time : Nat]]
    BY <1>4 DEF Tick
  <2>3. round' \in [Tokens -> [shards : SUBSET Shards, unanswered : SUBSET Shards,
                               refused : BOOLEAN, age : Nat]]
    BY <1>1, <1>5
  <2> QED
    BY <1>1, <1>2, <2>1, <2>2, <2>3 DEF CallerTypes
<1>7. CallsAgree'
  BY <1>1, <1>4, <1>5 DEF LockInv, CallsAgree
<1>8. DeadlinesCovered'
  <2> SUFFICES ASSUME NEW t \in Tokens, NEW s \in granted[t], deadline'[t] # 0
               PROVE  t \in DOMAIN leases'[s] /\ deadline'[t] <= leases'[s][t]
    BY <1>1 DEF DeadlinesCovered, Covered, Leased
  <2>1. s \in Shards /\ deadline[t] \in Nat /\ Covered(s, t, deadline[t])
    BY <1>2 DEF CallerTypes, LockInv, DeadlinesCovered
  <2>2. deadline[t] # Never
    <3>1. t \in Leased(s) => leases[s][t] \in Nat /\ leases[s][t] <= MaxLease
      BY <1>2, <2>1, LeaseTimes DEF ActorInv
    <3> QED
      BY <2>1, <3>1, LeaseTimes DEF Covered, Never
  <2>3. deadline'[t] = Less(deadline[t])
    BY <1>1, <2>2
  <2> QED
    BY <1>2, <2>1, <2>3, CoveredTicks
<1>9. GrantsCovered'
  <2> SUFFICES ASSUME NEW t \in Tokens, call[t].at = "granted", Less(call[t].time) # 0
               PROVE  /\ t \in DOMAIN leases'[call[t].shard]
                      /\ Less(call[t].time) <= leases'[call[t].shard][t]
    BY <1>4 DEF GrantsCovered, Covered, Leased
  <2>1. /\ call[t].shard \in Shards /\ call[t].time \in Nat
        /\ Covered(call[t].shard, t, call[t].time)
    BY <1>2 DEF CallerTypes, LockInv, CallsAgree, GrantsCovered
  <2> QED
    BY <1>2, <2>1, CoveredTicks
<1>10. RoundsCovered'
  <2> SUFFICES ASSUME NEW t \in Tokens, ~round'[t].refused,
                      NEW s \in round'[t].shards \ round'[t].unanswered
               PROVE  Covered(s, t, GoodFromSent(LeaseTime[t], round[t].age))'
    BY DEF RoundsCovered
  <2> DEFINE k == GoodFromSent(LeaseTime[t], round[t].age)
             j == GoodFromSent(LeaseTime[t], round'[t].age)
  <2>1. /\ round[t] # NoRound
        /\ ~round[t].refused /\ s \in round[t].shards \ round[t].unanswered
        /\ round'[t].age = Older(round[t].age)
    BY <1>5 DEF NoRound
  <2>2. /\ round[t].age \in Nat /\ s \in Shards
        /\ LeaseTime[t] \in Nat /\ LeaseTime[t] <= MaxLease /\ MaxLease \in Nat
    BY <1>2, <2>1, LeaseTimes DEF CallerTypes
  <2>3. k \in Nat /\ (j = 0 \/ j = Less(k))
    <3>1. Older(round[t].age) \in {round[t].age + 1, MaxLease}
      BY <1>3, <2>2
    <3> QED
      BY <2>1, <2>2, <3>1 DEF GoodFromSent, Less
  <2>4. Covered(s, t, k)
    BY <2>1 DEF LockInv, RoundsCovered
  <2> HIDE DEF k
  <2>5. j # 0 => t \in DOMAIN leases'[s] /\ j <= leases'[s][t]
    BY <1>2, <2>2, <2>3, <2>4, CoveredTicks
  <2> QED
    BY <2>5 DEF Covered, Leased
<1> QED
  BY <1>2, <1>6, <1>7, <1>8, <1>9, <1>10 DEF LockInv

-----------------------------------------------------------------------------
(* The invariant holds, and what follows from it.                          *)
LEMMA LockInvInit == Init => LockInv
<1> SUFFICES ASSUME Init PROVE LockInv
  OBVIOUS
<1>1. ActorInv
  <2>1. \A s \in Shards : Leased(s) = {} /\ Waiters(s) = {}
    BY DEF Init, LockInit, Leased, Waiters
  <2>2. /\ holder \in [Names -> Tokens \cup {Nobody}]
        /\ leases = [s \in Shards |-> leases[s]] /\ waiting = [s \in Shards |-> waiting[s]]
    BY DEF Init, LockInit
  <2>3. queues \in [Names -> Seq(Tokens)]
    BY DEF Init, LockInit
  <2> QED
    BY <2>1, <2>2, <2>3 DEF ActorInv, HoldersAgree
<1>2. CallerTypes
  <2>1. NoRound \in [shards : SUBSET Shards, unanswered : SUBSET Shards, refused : BOOLEAN, age : Nat]
    BY DEF NoRound
  <2>2. NoCall \in [at : Places, shard : 0..NumShards, time : Nat] /\ Never \in Nat
    BY LeaseTimes, LockManagerAssumption DEF NoCall, Places, Never
  <2> QED
    BY <2>1, <2>2 DEF Init, CallerTypes
<1>3. CallsAgree /\ DeadlinesCovered /\ GrantsCovered /\ RoundsCovered
  BY DEF Init, NoCall, NoRound, CallsAgree, DeadlinesCovered, GrantsCovered, RoundsCovered
<1> QED
  BY <1>1, <1>2, <1>3 DEF LockInv

LEMMA LockInvNext == LockInv /\ [Next]_vars => LockInv'
<1> SUFFICES ASSUME LockInv, [Next]_vars PROVE LockInv'
  OBVIOUS
<1>1. ASSUME NEW t \in Tokens, CallStep(t)
      PROVE  LockInv'
  <2>1. CASE Arrive(t)
    <3>1. call[t].shard \in Shards
      BY <2>1 DEF Arrive, LockInv, CallsAgree
    <3>2. ActorInv' /\ LeasesKeep({})
      BY <2>1, <3>1, AcquireKeeps DEF Arrive, LockInv
    <3> QED
      BY <2>1, <3>2, AnswerKeeps DEF Arrive
  <2>2. CASE Unpark(t)
    <3>1. call[t].shard \in Shards
      BY <2>2 DEF Unpark, LockInv, CallsAgree
    <3>2. ActorInv' /\ LeasesKeep({})
      BY <2>2, <3>1, EndWaitKeeps DEF Unpark, LockInv
    <3> QED
      BY <2>2, <3>2, AnswerKeeps DEF Unpark
  <2> QED
    BY <1>1, <2>1, <2>2, AskKeeps, TakeGrantKeeps, TakeDenialKeeps DEF CallStep
<1>2. ASSUME NEW t \in Tokens, Renewal(t) \/ Delivery(t) \/ GiveUp(t) \/ Exit(t) \/ Die(t)
      PROVE  LockInv'
  BY <1>2, RoundKeeps, RenewArrivesKeeps, DeliveryKeeps, DepartureKeeps DEF Renewal
<1>3. CASE Tick
  BY <1>3, TimeKeeps
<1>4. CASE UNCHANGED vars
  <2>1. UNCHANGED lockVars /\ UNCHANGED callerVars
    BY <1>4 DEF vars
  <2> QED
    BY <2>1, ActorsStay DEF LockInv, callerVars, lockVars, CallerTypes, CallsAgree, Covered, Leased,
         DeadlinesCovered, GrantsCovered, RoundsCovered, GoodFromSent
<1> QED
  BY <1>1, <1>2, <1>3, <1>4, ExpiryKeeps DEF Next

LEMMA LockInvAlways == Spec => []LockInv
BY LockInvInit, LockInvNext, PTL DEF Spec

(* A caller that passes check() is covered by its leases at all shards     *)
(* that granted, whatever its renewals, the actors' timers and the delays  *)
(* of calls (_take_grant and _renew_loop count from the time of sending).  *)
THEOREM DeadlinesAreCovered == Spec => []DeadlineIsCovered
<1>1. LockInv => DeadlineIsCovered
  BY DEF LockInv, DeadlinesCovered, Covered, DeadlineIsCovered
<1> QED
  BY <1>1, LockInvAlways, PTL

(* Two callers never pass check() for the same name at once.               *)
THEOREM LocksExclude == Spec => []MutualExclusion
<1>1. LockInv => MutualExclusion
  <2> SUFFICES ASSUME LockInv, NEW n \in Names, NEW t \in Tokens, NEW u \in Tokens,
                      Believes(t, n), Believes(u, n)
               PROVE  t = u
    BY DEF MutualExclusion
  <2>1. ASSUME NEW w \in Tokens, Believes(w, n)
        PROVE  holder[n] = w
    <3>1. /\ n \in Wants[w] /\ ShardOf[n] \in granted[w] /\ deadline[w] # 0
          /\ ShardOf[n] \in Shards
      BY <2>1, LockManagerAssumption DEF Believes, CheckFails
    <3>2. w \in Leased(ShardOf[n])
      BY <3>1 DEF LockInv, DeadlinesCovered, Covered
    <3> QED
      BY <3>1, <3>2 DEF LockInv, ActorInv, HoldersAgree, Part
  <2> QED
    BY <2>1
<1> QED
  BY <1>1, LockInvAlways, PTL

-----------------------------------------------------------------------------
(* A hand-off, name by name and token by token, with what it grants and    *)
(* who leaves.                                                             *)
HandedOff(s, freed, entries, G, Q) ==
  /\ \A r \in Shards \ {s} : /\ leases'[r] = leases[r] /\ waiting'[r] = waiting[r]
                             /\ expiries'[r] = expiries[r]
  /\ DOMAIN leases'[s] = (Leased(s) \ freed) \cup G
  /\ \A t \in G : leases'[s][t] = LeaseTime[t]
  /\ \A t \in (Leased(s) \ freed) \ G : leases'[s][t] = leases[s][t]
  /\ DOMAIN waiting'[s] = Waiters(s) \ Q
  /\ expiries' = [r \in Shards |-> expiries'[r]]
  /\ expiries'[s] = entries \cup Entries(G)
  /\ \A n \in Names :
       /\ ShardOf[n] # s => holder'[n] = holder[n] /\ queues'[n] = queues[n]
       /\ ShardOf[n] = s => queues'[n] = Remaining(queues[n], Q)
       /\ \A t \in G : ShardOf[n] = s /\ n \in Part(t, s) => holder'[n] = t
       /\ ShardOf[n] = s /\ (\A t \in G : n \notin Part(t, s)) =>
            holder'[n] = IF holder[n] \in freed THEN Nobody ELSE holder[n]

LEMMA HandOffIs ==
  ASSUME ActorInv, expiries = [r \in Shards |-> expiries[r]],
         NEW s \in Shards, NEW freed \in SUBSET Tokens, NEW left \in SUBSET Tokens,
         NEW entries, HandOff(s, freed, left, entries)
  PROVE  HandedOff(s, freed, entries, Granted(s, freed, left),
                   Gone(s, freed, left) \cup Granted(s, freed, left))
<1> DEFINE G == Granted(s, freed, left)
           Q == Gone(s, freed, left) \cup G
<1>1. /\ holder' = [n \in Names |->
                      IF ShardOf[n] # s THEN holder[n]
                      ELSE IF \E t \in G : n \in Part(t, s)
                           THEN CHOOSE t \in G : n \in Part(t, s)
                      ELSE IF holder[n] \in freed THEN Nobody ELSE holder[n]]
      /\ queues' = [n \in Names |-> IF ShardOf[n] = s THEN Remaining(queues[n], Q) ELSE queues[n]]
      /\ waiting' = [waiting EXCEPT ![s] = Without(@, Q)]
      /\ leases' = [leases EXCEPT ![s] = WithAll(Without(@, freed), G, LAMBDA t : LeaseTime[t])]
      /\ expiries' = [expiries EXCEPT ![s] = entries \cup Entries(G)]
  BY DEF HandOff
<1>2. \A t, u \in G : \A n \in Part(t, s) \cap Part(u, s) : t = u
  BY GrantedApart
<1> HIDE DEF G, Q
<1>3. leases = [r \in Shards |-> leases[r]] /\ waiting = [r \in Shards |-> waiting[r]]
  BY DEF ActorInv
<1>4. /\ \A r \in Shards \ {s} : leases'[r] = leases[r]
      /\ DOMAIN leases'[s] = (Leased(s) \ freed) \cup G
      /\ \A t \in G : leases'[s][t] = LeaseTime[t]
      /\ \A t \in (Leased(s) \ freed) \ G : leases'[s][t] = leases[s][t]
  <2>1. leases'[s] = WithAll(Without(leases[s], freed), G, LAMBDA t : LeaseTime[t])
    BY <1>1, <1>3
  <2>2. leases'[s] = [t \in (Leased(s) \ freed) \cup G |->
                        IF t \in G THEN LeaseTime[t] ELSE leases[s][t]]
    BY <2>1 DEF WithAll, Without, Leased
  <2> QED
    BY <1>1, <1>3, <2>2
<1>5. /\ \A r \in Shards \ {s} : waiting'[r] = waiting[r]
      /\ DOMAIN waiting'[s] = Waiters(s) \ Q
  BY <1>1, <1>3 DEF Without, Waiters
<1>6. /\ \A r \in Shards \ {s} : expiries'[r] = expiries[r]
      /\ expiries' = [r \in Shards |-> expiries'[r]]
      /\ expiries'[s] = entries \cup Entries(G)
  BY <1>1
<1>7. \A n \in Names :
        /\ ShardOf[n] # s => holder'[n] = holder[n] /\ queues'[n] = queues[n]
        /\ ShardOf[n] = s => queues'[n] = Remaining(queues[n], Q)
        /\ ShardOf[n] = s /\ (\A t \in G : n \notin Part(t, s)) =>
             holder'[n] = IF holder[n] \in freed THEN Nobody ELSE holder[n]
  BY <1>1
<1>8. ASSUME NEW n \in Names, NEW t \in G, ShardOf[n] = s, n \in Part(t, s)
      PROVE  holder'[n] = t
  <2>1. \A u \in G : n \in Part(u, s) => u = t
    BY <1>2, <1>8
  <2> QED
    BY <1>1, <1>8, <2>1
<1> QED
  BY <1>4, <1>5, <1>6, <1>7, <1>8 DEF HandedOff, G, Q

-----------------------------------------------------------------------------
(* The heap and the timer of an actor.                                     *)
Pairs == (0..MaxLease) \X Tokens

HeapInv ==
  /\ expiries \in [Shards -> SUBSET Pairs]
  /\ timer \in [Shards -> 0..Never]
  /\ \A s \in Shards :
       /\ \A t \in Leased(s) : <<leases[s][t], t>> \in expiries[s]
       /\ \A e \in expiries[s] : timer[s] <= e[1]

LEMMA EarliestIs ==
  ASSUME NEW S \in SUBSET Pairs
  PROVE  /\ Earliest(S) \in 0..Never
         /\ \A e \in S : Earliest(S) <= e[1]
         /\ Earliest(S) # Never => \E e \in S : Earliest(S) = e[1]
<1> DEFINE T == {Never} \cup {e[1] : e \in S}
<1>1. T \in SUBSET (0..Never) /\ Never \in T /\ Never \in Nat /\ \A e \in S : e[1] \in T
  BY LeaseTimes DEF Pairs, Never
<1>2. \A k \in T : k # Never => \E e \in S : k = e[1]
  OBVIOUS
<1>3. Earliest(S) = Min(T)
  BY DEF Earliest
<1> HIDE DEF T
<1>4. PICK k \in T : \A m \in T : k <= m
  <2>1. T \in SUBSET Nat /\ T # {}
    BY <1>1
  <2> QED
    BY <2>1, LeastNumber
<1>5. Min(T) \in T /\ \A m \in T : Min(T) <= m
  BY <1>4 DEF Min
<1> QED
  BY <1>1, <1>2, <1>3, <1>5

LEMMA EntriesAre ==
  ASSUME NEW G \in SUBSET Tokens
  PROVE  /\ Entries(G) \in SUBSET Pairs
         /\ \A t \in G : <<LeaseTime[t], t>> \in Entries(G)
         /\ \A e \in Entries(G) : \E t \in G : e[1] = LeaseTime[t]
BY LeaseTimes DEF Entries, Pairs

LEMMA ArmedIs ==
  ASSUME HeapInv, NEW s \in Shards, NEW G \in SUBSET Tokens
  PROVE  /\ Armed(s, G) \in 0..Never
         /\ Armed(s, G) <= timer[s]
         /\ \A e \in Entries(G) : Armed(s, G) <= e[1]
<1>1. timer[s] \in 0..Never /\ Never \in Nat
  BY LeaseTimes DEF HeapInv, Never
<1>2. /\ Entries(G) \in SUBSET Pairs
      /\ Earliest(Entries(G)) \in 0..Never
      /\ \A e \in Entries(G) : Earliest(Entries(G)) <= e[1]
  BY EntriesAre, EarliestIs
<1> DEFINE j == timer[s]
           k == Earliest(Entries(G))
<1>3. Armed(s, G) = Min({j, k})
  BY DEF Armed
<1>4. \A e \in Entries(G) : e[1] \in Nat
  BY <1>2 DEF Pairs
<1> HIDE DEF j, k
<1>5. j \in 0..Never /\ k \in 0..Never
  BY <1>1, <1>2 DEF j, k
<1>6. Min({j, k}) \in {j, k} /\ Min({j, k}) <= j /\ Min({j, k}) <= k
  <2>1. \E x \in {j, k} : \A y \in {j, k} : x <= y
    BY <1>1, <1>5
  <2> QED
    BY <2>1 DEF Min
<1>7. \A e \in Entries(G) : k <= e[1]
  BY <1>2 DEF k
<1>8. \A e \in Entries(G) : Min({j, k}) <= e[1]
  BY <1>1, <1>4, <1>5, <1>6, <1>7
<1> QED
  BY <1>3, <1>5, <1>6, <1>8 DEF j

(* A hand-off keeps the heap, when what is left of it covers the leases    *)
(* that go on and the timer is set early enough.                           *)
LEMMA HandOffTimes ==
  ASSUME ActorInv, HeapInv,
         NEW s \in Shards, NEW freed \in SUBSET Tokens, NEW left \in SUBSET Tokens,
         NEW entries \in SUBSET Pairs, HandOff(s, freed, left, entries),
         \A t \in Leased(s) \ freed : <<leases[s][t], t>> \in entries,
         NEW k \in 0..Never, timer' = [timer EXCEPT ![s] = k],
         \A e \in entries \cup Entries(Granted(s, freed, left)) : k <= e[1]
  PROVE  HeapInv'
<1> DEFINE G == Granted(s, freed, left)
<1>0. expiries = [r \in Shards |-> expiries[r]] /\ G \in SUBSET Tokens
  BY GrantedApart DEF HeapInv
<1>1. /\ \A r \in Shards \ {s} : leases'[r] = leases[r] /\ expiries'[r] = expiries[r]
      /\ DOMAIN leases'[s] = (Leased(s) \ freed) \cup G
      /\ \A t \in G : leases'[s][t] = LeaseTime[t]
      /\ \A t \in (Leased(s) \ freed) \ G : leases'[s][t] = leases[s][t]
      /\ expiries' = [r \in Shards |-> expiries'[r]]
      /\ expiries'[s] = entries \cup Entries(G)
  <2>1. HandedOff(s, freed, entries, G, Gone(s, freed, left) \cup G)
    BY <1>0, HandOffIs
  <2> HIDE DEF G
  <2> QED
    BY <2>1 DEF HandedOff
<1>2. \A e \in entries \cup Entries(G) : k <= e[1]
  OBVIOUS
<1> HIDE DEF G
<1>3. Entries(G) \in SUBSET Pairs /\ \A t \in G : <<LeaseTime[t], t>> \in Entries(G)
  BY <1>0, EntriesAre
<1>4. expiries' \in [Shards -> SUBSET Pairs]
  BY <1>1, <1>3 DEF HeapInv
<1>5. timer' \in [Shards -> 0..Never] /\ timer'[s] = k /\ \A r \in Shards \ {s} : timer'[r] = timer[r]
  BY DEF HeapInv
<1>6. ASSUME NEW r \in Shards
      PROVE  /\ \A t \in DOMAIN leases'[r] : <<leases'[r][t], t>> \in expiries'[r]
             /\ \A e \in expiries'[r] : timer'[r] <= e[1]
  <2>1. CASE r = s
    BY <1>1, <1>2, <1>3, <1>5, <2>1
  <2>2. CASE r # s
    BY <1>1, <1>5, <2>2 DEF HeapInv, Leased
  <2> QED
    BY <2>1, <2>2
<1> QED
  BY <1>4, <1>5, <1>6 DEF HeapInv, Leased

LEMMA AcquireTimes ==
  ASSUME ActorInv, HeapInv, NEW s \in Shards, NEW t \in Tokens, Acquire(s, t)
  PROVE  HeapInv'
<1>1. CASE UNCHANGED <<leases, expiries, timer>>
  BY <1>1 DEF HeapInv, Leased
<1>2. CASE GrantAtOnce(s, t)
  <2>1. /\ leases' = [leases EXCEPT ![s] = WithAll(@, {t}, LAMBDA u : LeaseTime[u])]
        /\ expiries' = [expiries EXCEPT ![s] = @ \cup Entries({t})]
        /\ timer' = [timer EXCEPT ![s] = Armed(s, {t})]
    BY <1>2 DEF GrantAtOnce
  <2>2. leases = [r \in Shards |-> leases[r]]
    BY DEF ActorInv
  <2>3. leases'[s] = [u \in Leased(s) \cup {t} |-> IF u = t THEN LeaseTime[t] ELSE leases[s][u]]
    <3>1. leases'[s] = WithAll(leases[s], {t}, LAMBDA u : LeaseTime[u])
      BY <2>1, <2>2
    <3> QED
      BY <3>1 DEF WithAll, Leased
  <2>4. /\ Entries({t}) \in SUBSET Pairs /\ <<LeaseTime[t], t>> \in Entries({t})
        /\ Armed(s, {t}) \in 0..Never /\ Armed(s, {t}) <= timer[s]
        /\ \A e \in Entries({t}) : Armed(s, {t}) <= e[1]
    <3>1. {t} \in SUBSET Tokens /\ t \in {t}
      OBVIOUS
    <3> QED
      BY <3>1, EntriesAre, ArmedIs
  <2> DEFINE k == Armed(s, {t})
             E == Entries({t})
  <2> HIDE DEF k, E
  <2>5. /\ expiries' \in [Shards -> SUBSET Pairs] /\ expiries'[s] = expiries[s] \cup E
        /\ \A r \in Shards \ {s} : expiries'[r] = expiries[r]
    BY <2>1, <2>4 DEF HeapInv, E
  <2>6. timer' \in [Shards -> 0..Never] /\ timer'[s] = k /\ \A r \in Shards \ {s} : timer'[r] = timer[r]
    BY <2>1, <2>4 DEF HeapInv, k
  <2>7. ASSUME NEW r \in Shards
        PROVE  /\ \A u \in DOMAIN leases'[r] : <<leases'[r][u], u>> \in expiries'[r]
               /\ \A e \in expiries'[r] : timer'[r] <= e[1]
    <3>1. CASE r = s
      <4>1. \A u \in DOMAIN leases'[s] : <<leases'[s][u], u>> \in expiries'[s]
        BY <2>3, <2>4, <2>5 DEF HeapInv, E
      <4>2. \A e \in expiries[s] : k <= e[1]
        <5> TAKE e \in expiries[s]
        <5>1. e[1] \in Nat /\ timer[s] \in Nat /\ k \in Nat /\ k <= timer[s] /\ timer[s] <= e[1]
          BY <2>4, LeaseTimes DEF HeapInv, Pairs, Never, k
        <5> QED
          BY <5>1
      <4> QED
        BY <2>4, <2>5, <2>6, <3>1, <4>1, <4>2 DEF E, k
    <3>2. CASE r # s
      <4>1. leases'[r] = leases[r]
        BY <2>1, <2>2, <3>2
      <4> QED
        BY <2>5, <2>6, <3>2, <4>1 DEF HeapInv, Leased
    <3> QED
      BY <3>1, <3>2
  <2> QED
    BY <2>5, <2>6, <2>7 DEF HeapInv, Leased
<1> QED
  BY <1>1, <1>2 DEF Acquire, AnswerAtOnce, Enqueue, WaitAgain, lockVars

LEMMA RenewTimes ==
  ASSUME ActorInv, HeapInv, NEW s \in Shards, NEW t \in Tokens, Renew(s, t)
  PROVE  HeapInv'
<1>1. /\ timer' = timer
      /\ leases' = [leases EXCEPT ![s] =
           [u \in DOMAIN @ |-> IF u = t /\ IsAlive(s, t) THEN LeaseTime[t] ELSE @[u]]]
      /\ expiries' = [expiries EXCEPT ![s] = IF IsAlive(s, t) THEN @ \cup Entries({t}) ELSE @]
  BY DEF Renew
<1>2. leases = [r \in Shards |-> leases[r]]
  BY DEF ActorInv
<1>3. leases'[s] = [u \in Leased(s) |-> IF u = t /\ IsAlive(s, t) THEN LeaseTime[t] ELSE leases[s][u]]
  BY <1>1, <1>2 DEF Leased
<1>4. /\ Entries({t}) \in SUBSET Pairs /\ <<LeaseTime[t], t>> \in Entries({t})
      /\ \A e \in Entries({t}) : e[1] = LeaseTime[t]
  <2>1. {t} \in SUBSET Tokens /\ t \in {t}
    OBVIOUS
  <2> QED
    BY <2>1, EntriesAre
<1>5. /\ expiries' \in [Shards -> SUBSET Pairs]
      /\ expiries'[s] = IF IsAlive(s, t) THEN expiries[s] \cup Entries({t}) ELSE expiries[s]
      /\ \A r \in Shards \ {s} : expiries'[r] = expiries[r]
  BY <1>1, <1>4 DEF HeapInv
<1>6. IsAlive(s, t) => timer[s] <= LeaseTime[t]
  <2> SUFFICES ASSUME IsAlive(s, t) PROVE timer[s] <= LeaseTime[t]
    OBVIOUS
  <2>1. t \in Leased(s)
    BY DEF IsAlive
  <2>2. /\ timer[s] \in Nat /\ timer[s] <= leases[s][t]
        /\ leases[s][t] \in Nat /\ leases[s][t] <= LeaseTime[t] /\ LeaseTime[t] \in Nat
    <3>1. <<leases[s][t], t>> \in expiries[s] /\ timer[s] \in 0..Never /\ Never \in Nat
      BY <2>1, LeaseTimes DEF HeapInv, Never
    <3>2. timer[s] <= leases[s][t]
      BY <3>1 DEF HeapInv
    <3> QED
      BY <2>1, <3>1, <3>2, LeasesAre, LeaseTimes
  <2> QED
    BY <2>2
<1>7. ASSUME NEW r \in Shards
      PROVE  /\ \A u \in DOMAIN leases'[r] : <<leases'[r][u], u>> \in expiries'[r]
             /\ \A e \in expiries'[r] : timer'[r] <= e[1]
  <2>1. CASE r = s
    <3>1. \A u \in DOMAIN leases'[s] : <<leases'[s][u], u>> \in expiries'[s]
      BY <1>3, <1>4, <1>5 DEF HeapInv
    <3>2. \A e \in expiries'[s] : timer[s] <= e[1]
      BY <1>4, <1>5, <1>6 DEF HeapInv
    <3> QED
      BY <1>1, <2>1, <3>1, <3>2
  <2>2. CASE r # s
    <3>1. leases'[r] = leases[r]
      BY <1>1, <1>2, <2>2
    <3> QED
      BY <1>1, <1>5, <2>2, <3>1 DEF HeapInv, Leased
  <2> QED
    BY <2>1, <2>2
<1> QED
  BY <1>1, <1>5, <1>7 DEF HeapInv, Leased

(* The timer after a hand-off that keeps the heap.                         *)
LEMMA HandOffArms ==
  ASSUME ActorInv, HeapInv,
         NEW s \in Shards, NEW freed \in SUBSET Tokens, NEW left \in SUBSET Tokens,
         HandOff(s, freed, left, expiries[s]),
         timer' = [timer EXCEPT ![s] = Armed(s, Granted(s, freed, left))]
  PROVE  HeapInv'
<1> DEFINE G == Granted(s, freed, left)
           k == Armed(s, G)
<1>1. G \in SUBSET Tokens
  BY GrantedApart
<1>2. k \in 0..Never /\ k <= timer[s] /\ \A e \in Entries(G) : k <= e[1]
  BY <1>1, ArmedIs
<1>3. timer' = [timer EXCEPT ![s] = k]
  OBVIOUS
<1>4. expiries[s] \in SUBSET Pairs /\ \A t \in Leased(s) \ freed : <<leases[s][t], t>> \in expiries[s]
  BY DEF HeapInv
<1>5. \A e \in expiries[s] : k <= e[1]
  <2> TAKE e \in expiries[s]
  <2> HIDE DEF k
  <2>1. e[1] \in Nat /\ timer[s] \in Nat /\ k \in Nat /\ k <= timer[s] /\ timer[s] <= e[1]
    BY <1>2, LeaseTimes DEF HeapInv, Pairs, Never
  <2> QED
    BY <2>1
<1>6. \A e \in expiries[s] \cup Entries(G) : k <= e[1]
  BY <1>2, <1>5
<1> HIDE DEF k
<1> QED
  BY <1>2, <1>3, <1>4, <1>6, HandOffTimes

LEMMA ReleaseTimes ==
  ASSUME ActorInv, HeapInv, NEW s \in Shards, NEW t \in Tokens, Release(s, t)
  PROVE  HeapInv'
<1>1. {} \in SUBSET Tokens /\ {t} \in SUBSET Tokens
  OBVIOUS
<1>2. CASE ReleaseLease(s, t)
  BY <1>1, <1>2, HandOffArms DEF ReleaseLease
<1>3. CASE Withdraw(s, t) /\ t \in Waiters(s)
  BY <1>1, <1>3, HandOffArms DEF Withdraw
<1>4. CASE Withdraw(s, t) /\ t \notin Waiters(s)
  BY <1>4 DEF Withdraw, HeapInv, Leased
<1> QED
  BY <1>2, <1>3, <1>4 DEF Release

LEMMA ExpireTimes ==
  ASSUME ActorInv, HeapInv, NEW s \in Shards, Expire(s)
  PROVE  HeapInv'
<1> DEFINE G == Granted(s, Over(s), {})
           k == Earliest(expiries'[s])
<1>1. /\ Over(s) \in SUBSET Tokens /\ {} \in SUBSET Tokens /\ Kept(s) \in SUBSET Pairs
      /\ HandOff(s, Over(s), {}, Kept(s))
  BY DEF Over, ActorInv, Kept, HeapInv, Expire
<1>2. timer' = [timer EXCEPT ![s] = k]
  BY DEF Expire
<1>3. G \in SUBSET Tokens /\ expiries = [r \in Shards |-> expiries[r]]
  BY <1>1, GrantedApart DEF HeapInv
<1>4. expiries'[s] = Kept(s) \cup Entries(G)
  <2>1. HandedOff(s, Over(s), Kept(s), G, Gone(s, Over(s), {}) \cup G)
    BY <1>1, <1>3, HandOffIs
  <2> QED
    BY <2>1 DEF HandedOff
<1>5. k \in 0..Never /\ \A e \in Kept(s) \cup Entries(G) : k <= e[1]
  <2>1. Kept(s) \cup Entries(G) \in SUBSET Pairs
    BY <1>1, <1>3, EntriesAre
  <2> QED
    BY <1>4, <2>1, EarliestIs
<1>6. \A t \in Leased(s) \ Over(s) : <<leases[s][t], t>> \in Kept(s)
  <2> TAKE t \in Leased(s) \ Over(s)
  <2>1. <<leases[s][t], t>> \in expiries[s] /\ leases[s][t] \in Nat
    BY LeasesAre DEF HeapInv
  <2>2. leases[s][t] # 0
    BY <2>1 DEF Over
  <2> QED
    BY <2>1, <2>2 DEF Kept
<1> HIDE DEF k
<1> QED
  BY <1>1, <1>2, <1>5, <1>6, HandOffTimes

LEMMA TickTimes ==
  ASSUME ActorInv, HeapInv, LockTick
  PROVE  HeapInv'
<1>1. /\ leases' = [s \in Shards |-> [t \in Leased(s) |-> Less(leases[s][t])]]
      /\ expiries' = [s \in Shards |-> {<<Less(e[1]), e[2]>> : e \in expiries[s]}]
      /\ timer' = [s \in Shards |-> IF timer[s] = Never THEN Never ELSE Less(timer[s])]
  BY DEF LockTick
<1>2. \A k \in 0..MaxLease : Less(k) \in 0..MaxLease
  BY LeaseTimes DEF Less
<1>3. expiries' \in [Shards -> SUBSET Pairs]
  BY <1>1, <1>2 DEF HeapInv, Pairs
<1>4. timer' \in [Shards -> 0..Never]
  BY <1>1, LeaseTimes DEF HeapInv, Less, Never
<1>5. ASSUME NEW s \in Shards
      PROVE  /\ \A t \in DOMAIN leases'[s] : <<leases'[s][t], t>> \in expiries'[s]
             /\ \A e \in expiries'[s] : timer'[s] <= e[1]
  <2>1. ASSUME NEW t \in DOMAIN leases'[s]
        PROVE  <<leases'[s][t], t>> \in expiries'[s]
    <3>1. t \in Leased(s) /\ leases'[s][t] = Less(leases[s][t])
      BY <1>1
    <3>2. <<leases[s][t], t>> \in expiries[s]
      BY <3>1 DEF HeapInv
    <3> QED
      BY <1>1, <3>1, <3>2
  <2>2. ASSUME NEW e \in expiries'[s]
        PROVE  timer'[s] <= e[1]
    <3>1. PICK d \in expiries[s] : e = <<Less(d[1]), d[2]>>
      BY <1>1
    <3>2. d[1] \in 0..MaxLease /\ timer[s] \in 0..Never /\ timer[s] <= d[1] /\ MaxLease \in Nat
      BY LeaseTimes DEF HeapInv, Pairs
    <3>3. timer'[s] = Less(timer[s])
      BY <1>1, <3>2, LeaseTimes DEF Never
    <3> QED
      BY <3>1, <3>2, <3>3 DEF Less, Never
  <2> QED
    BY <2>1, <2>2
<1> QED
  BY <1>3, <1>4, <1>5 DEF HeapInv, Leased

-----------------------------------------------------------------------------
(* The queues of an actor.                                                 *)
IsIn(t, q) == \E i \in 1..Len(q) : q[i] = t

Ascends(q, rank) == \A i, j \in 1..Len(q) : i < j => rank[q[i]] < rank[q[j]]

(* The tokens of a shard have arrived in some order, and its queues keep   *)
(* to it.                                                                  *)
IsOrder(s, rank, top) ==
  /\ rank \in [Tokens -> Nat]
  /\ \A t \in Tokens : rank[t] <= top
  /\ \A n \in Names : ShardOf[n] = s => Ascends(queues[n], rank)

QueueInv ==
  \A s \in Shards :
    /\ Waiters(s) \cap Leased(s) = {}
    /\ \A n \in Names : ShardOf[n] = s =>
         /\ \A t \in Tokens : IsIn(t, queues[n]) <=> t \in Waiters(s) /\ n \in Part(t, s)
         /\ holder[n] # Nobody => holder[n] \in Leased(s) /\ n \in Part(holder[n], s)
    /\ \E top \in Nat : \E rank : IsOrder(s, rank, top)
    /\ \A t \in Waiters(s) : \E n \in Part(t, s) : holder[n] # Nobody \/ queues[n][1] # t

LEMMA PartIs ==
  ASSUME NEW s \in Shards, NEW t \in Tokens
  PROVE  \A n \in Part(t, s) : n \in Names /\ ShardOf[n] = s /\ n \in Wants[t]
BY LockManagerAssumption DEF Part

(* What remains of a queue is in the same order, and its first token had   *)
(* only gone ones before it.                                               *)
Remains(r, q, gone) ==
  /\ r \in Seq(Tokens)
  /\ \A t \in Tokens : IsIn(t, r) <=> IsIn(t, q) /\ t \notin gone
  /\ r # <<>> => \E i \in 1..Len(q) : q[i] = r[1] /\ \A j \in 1..(i - 1) : q[j] \in gone
  /\ \A rank : Ascends(q, rank) => Ascends(r, rank)

LEMMA RemainingKeeps ==
  ASSUME NEW q \in Seq(Tokens), NEW gone
  PROVE  Remains(Remaining(q, gone), q, gone)
<1> DEFINE r == Remaining(q, gone)
<1>1. IsWhatRemains(r, q, gone, Len(q))
  BY RemainingIs
<1> HIDE DEF r
<1>2. PICK place \in [1..Len(r) -> 1..Len(q)] :
        /\ \A i \in 1..Len(r) : r[i] = q[place[i]] /\ q[place[i]] \notin gone
        /\ \A i, j \in 1..Len(r) : i < j => place[i] < place[j]
        /\ \A m \in 1..Len(q) : q[m] \notin gone => \E i \in 1..Len(r) : place[i] = m
  BY <1>1 DEF IsWhatRemains
<1>3. r \in Seq(Tokens) /\ Len(r) \in Nat /\ Len(q) \in Nat
  BY <1>1 DEF IsWhatRemains
<1>4. \A i \in 1..Len(r) : place[i] \in 1..Len(q)
  OBVIOUS
<1>5. ASSUME NEW t \in Tokens
      PROVE  IsIn(t, r) <=> IsIn(t, q) /\ t \notin gone
  <2>1. IsIn(t, r) => IsIn(t, q) /\ t \notin gone
    BY <1>2, <1>4 DEF IsIn
  <2>2. IsIn(t, q) /\ t \notin gone => IsIn(t, r)
    BY <1>2 DEF IsIn
  <2> QED
    BY <2>1, <2>2
<1>6. ASSUME r # <<>>
      PROVE  \E i \in 1..Len(q) : q[i] = r[1] /\ \A j \in 1..(i - 1) : q[j] \in gone
  <2>1. 1 \in 1..Len(r)
    BY <1>3, <1>6
  <2>2. place[1] \in 1..Len(q) /\ q[place[1]] = r[1]
    BY <1>2, <1>4, <2>1
  <2>3. ASSUME NEW j \in 1..(place[1] - 1), q[j] \notin gone
        PROVE  FALSE
    <3>1. j \in 1..Len(q) /\ j < place[1]
      BY <1>3, <2>2
    <3>2. PICK i \in 1..Len(r) : place[i] = j
      BY <1>2, <2>3, <3>1
    <3>3. CASE i = 1
      BY <2>2, <3>1, <3>2, <3>3
    <3>4. CASE i # 1
      <4>1. 1 < i
        BY <3>4
      <4>2. place[1] < j
        BY <1>2, <2>1, <3>2, <4>1
      <4> QED
        BY <2>2, <3>1, <4>2
    <3> QED
      BY <3>3, <3>4
  <2> QED
    BY <2>2, <2>3
<1>7. ASSUME NEW rank, Ascends(q, rank)
      PROVE  Ascends(r, rank)
  <2> SUFFICES ASSUME NEW i \in 1..Len(r), NEW j \in 1..Len(r), i < j
               PROVE  rank[r[i]] < rank[r[j]]
    BY DEF Ascends
  <2>1. /\ place[i] \in 1..Len(q) /\ place[j] \in 1..Len(q) /\ place[i] < place[j]
        /\ r[i] = q[place[i]] /\ r[j] = q[place[j]]
    BY <1>2, <1>4
  <2>2. rank[q[place[i]]] < rank[q[place[j]]]
    BY <1>7, <2>1 DEF Ascends
  <2> QED
    BY <2>1, <2>2
<1> QED
  BY <1>3, <1>5, <1>6, <1>7 DEF r, Remains

(* Nobody who waits after a hand-off could have been served.               *)
LEMMA HandOffServes ==
  ASSUME ActorInv, QueueInv, NEW s \in Shards,
         NEW freed \in SUBSET Tokens, NEW left, NEW entries,
         HandedOff(s, freed, entries, Granted(s, freed, left),
                   Gone(s, freed, left) \cup Granted(s, freed, left)),
         Granted(s, freed, left) \in SUBSET Tokens,
         NEW t \in DOMAIN waiting'[s]
  PROVE  \E n \in Part(t, s) : holder'[n] # Nobody \/ queues'[n][1] # t
<1> DEFINE G == Granted(s, freed, left)
           gone == Gone(s, freed, left)
<1> SUFFICES ASSUME \A n \in Part(t, s) : holder'[n] = Nobody /\ queues'[n][1] = t
             PROVE  FALSE
  OBVIOUS
<1>1. t \in Waiters(s) /\ t \notin gone /\ t \notin G /\ t \in Tokens
  BY DEF HandedOff, ActorInv
<1>2. ASSUME NEW n \in Part(t, s)
      PROVE  /\ IsFree(n, freed) /\ IsFirst(t, n, gone) /\ n \in Names /\ ShardOf[n] = s
             /\ queues[n] \in Seq(Tokens)
  <2>1. n \in Names /\ ShardOf[n] = s /\ queues[n] \in Seq(Tokens)
    BY <1>1, PartIs DEF ActorInv
  <2>2. \A g \in G : n \notin Part(g, s)
    BY <2>1, LeaseTimes DEF HandedOff
  <2>3. IsFree(n, freed)
    BY <2>1, <2>2 DEF HandedOff, IsFree
  <2>4. queues'[n] = Remaining(queues[n], gone \cup G)
    BY <2>1 DEF HandedOff
  <2>5. IsIn(t, queues[n]) /\ t \notin gone \cup G
    BY <1>1, <2>1 DEF QueueInv
  <2> DEFINE r == Remaining(queues[n], gone \cup G)
  <2>6. /\ r \in Seq(Tokens) /\ IsIn(t, r)
        /\ r # <<>> => \E i \in 1..Len(queues[n]) :
              queues[n][i] = r[1] /\ \A j \in 1..(i - 1) : queues[n][j] \in gone \cup G
    <3>1. Remains(r, queues[n], gone \cup G)
      BY <2>1, RemainingKeeps
    <3> HIDE DEF r
    <3> QED
      BY <1>1, <2>5, <3>1 DEF Remains
  <2>7. r[1] = t
    BY <2>4
  <2> HIDE DEF r
  <2>8. r # <<>>
    BY <2>6 DEF IsIn
  <2>9. PICK i \in 1..Len(queues[n]) :
          queues[n][i] = t /\ \A j \in 1..(i - 1) : queues[n][j] \in gone \cup G
    BY <2>6, <2>7, <2>8
  <2>10. ASSUME NEW j \in 1..(i - 1), queues[n][j] \notin gone
         PROVE  FALSE
    <3>1. j \in 1..Len(queues[n]) /\ queues[n][j] \in G
      BY <2>1, <2>9, <2>10
    <3>2. IsIn(queues[n][j], queues[n]) /\ queues[n][j] \in Tokens
      BY <2>1, <3>1 DEF IsIn
    <3>3. n \in Part(queues[n][j], s)
      BY <2>1, <3>2 DEF QueueInv
    <3> QED
      BY <2>2, <3>1, <3>3
  <2>11. IsFirst(t, n, gone)
    <3>1. i \in DOMAIN queues[n]
      BY <2>1, <2>9
    <3> QED
      BY <2>9, <2>10, <3>1 DEF IsFirst
  <2> QED
    BY <2>1, <2>3, <2>11
<1>3. Part(t, s) \cap Looked(s, freed, gone) = {}
  BY <1>1, <1>2 DEF Granted
<1>4. \A n \in Part(t, s) : \A u \in freed \cup gone : n \notin Part(u, s)
  BY <1>3 DEF Looked
<1> HIDE DEF G, gone
<1>5. ASSUME NEW n \in Part(t, s)
      PROVE  holder[n] = Nobody /\ queues[n][1] = t
  <2>1. holder[n] = Nobody
    <3>1. holder[n] # Nobody => n \in Part(holder[n], s)
      BY <1>2 DEF QueueInv
    <3> QED
      BY <1>2, <1>4, <3>1 DEF IsFree
  <2>2. PICK i \in DOMAIN queues[n] : queues[n][i] = t /\ \A j \in 1..(i - 1) : queues[n][j] \in gone
    BY <1>2 DEF IsFirst
  <2>3. i \in Nat \ {0} /\ i <= Len(queues[n]) /\ Len(queues[n]) \in Nat
    BY <1>2, <2>2
  <2>4. CASE i = 1
    BY <2>1, <2>2, <2>4
  <2>5. CASE i # 1
    <3>1. 1 \in 1..(i - 1) /\ 1 \in 1..Len(queues[n])
      BY <2>3, <2>5
    <3>2. queues[n][1] \in gone /\ queues[n][1] \in Tokens /\ IsIn(queues[n][1], queues[n])
      BY <1>2, <2>2, <3>1 DEF IsIn
    <3>3. n \in Part(queues[n][1], s)
      BY <1>2, <3>2 DEF QueueInv
    <3> QED
      BY <1>4, <3>2, <3>3
  <2> QED
    BY <2>4, <2>5
<1> QED
  BY <1>1, <1>5 DEF QueueInv

LEMMA HandOffQueues ==
  ASSUME ActorInv, HeapInv, QueueInv, NEW s \in Shards,
         NEW freed \in SUBSET Tokens, NEW left \in SUBSET Tokens, NEW entries,
         HandOff(s, freed, left, entries), \A t \in freed : t \in Leased(s)
  PROVE  QueueInv'
<1> DEFINE G == Granted(s, freed, left)
           Q == Gone(s, freed, left) \cup G
<1>1. /\ G \subseteq Tokens /\ HandedOff(s, freed, entries, G, Q)
      /\ \A t \in G : \A n \in Part(t, s) : holder[n] \in freed \cup {Nobody}
      /\ G \subseteq Waiters(s) /\ G \subseteq Q
  <2>1. G \subseteq Waiters(s)
    BY DEF Granted
  <2>2. expiries = [r \in Shards |-> expiries[r]]
    BY DEF HeapInv
  <2> QED
    BY <2>1, <2>2, GrantedApart, HandOffIs
<1>2. \A t \in DOMAIN waiting'[s] : \E n \in Part(t, s) : holder'[n] # Nobody \/ queues'[n][1] # t
  BY <1>1, HandOffServes
<1> HIDE DEF G, Q
<1>3. DOMAIN waiting'[s] \cap DOMAIN leases'[s] = {}
  BY <1>1 DEF HandedOff, QueueInv
<1>4. ASSUME NEW n \in Names, ShardOf[n] = s
      PROVE  /\ \A t \in Tokens : IsIn(t, queues'[n]) <=> t \in DOMAIN waiting'[s] /\ n \in Part(t, s)
             /\ holder'[n] # Nobody => holder'[n] \in DOMAIN leases'[s] /\ n \in Part(holder'[n], s)
             /\ \A rank : Ascends(queues[n], rank) => Ascends(queues'[n], rank)
  <2>1. queues[n] \in Seq(Tokens) /\ queues'[n] = Remaining(queues[n], Q)
    BY <1>1, <1>4 DEF ActorInv, HandedOff
  <2>2. /\ \A t \in Tokens : IsIn(t, queues'[n]) <=> IsIn(t, queues[n]) /\ t \notin Q
        /\ \A rank : Ascends(queues[n], rank) => Ascends(queues'[n], rank)
    BY <2>1, RemainingKeeps DEF Remains
  <2>3. \A t \in Tokens : IsIn(t, queues'[n]) <=> t \in DOMAIN waiting'[s] /\ n \in Part(t, s)
    BY <1>1, <1>4, <2>2 DEF HandedOff, QueueInv
  <2>4. holder'[n] # Nobody => holder'[n] \in DOMAIN leases'[s] /\ n \in Part(holder'[n], s)
    <3>1. CASE \E t \in G : n \in Part(t, s)
      BY <1>1, <1>4, <3>1 DEF HandedOff
    <3>2. CASE \A t \in G : n \notin Part(t, s)
      BY <1>1, <1>4, <3>2 DEF HandedOff, QueueInv
    <3> QED
      BY <3>1, <3>2
  <2> QED
    BY <2>2, <2>3, <2>4
<1>5. ASSUME NEW r \in Shards \ {s}
      PROVE  /\ DOMAIN waiting'[r] = Waiters(r) /\ DOMAIN leases'[r] = Leased(r)
             /\ \A n \in Names : ShardOf[n] = r => holder'[n] = holder[n] /\ queues'[n] = queues[n]
  BY <1>1 DEF HandedOff, Waiters, Leased
<1>6. ASSUME NEW r \in Shards
      PROVE  \E top \in Nat : \E rank : IsOrder(r, rank, top)'
  <2>1. PICK top \in Nat : \E rank : IsOrder(r, rank, top)
    BY DEF QueueInv
  <2>2. PICK rank : IsOrder(r, rank, top)
    BY <2>1
  <2>3. IsOrder(r, rank, top)'
    BY <1>4, <1>5, <2>2 DEF IsOrder
  <2> QED
    BY <2>3
<1>7. \A r \in Shards \ {s} : \A t \in DOMAIN waiting'[r] : \E n \in Part(t, r) :
        holder'[n] # Nobody \/ queues'[n][1] # t
  <2> TAKE r \in Shards \ {s}
  <2> TAKE t \in DOMAIN waiting'[r]
  <2>1. t \in Waiters(r) /\ t \in Tokens
    BY <1>5 DEF ActorInv
  <2>2. PICK n \in Part(t, r) : holder[n] # Nobody \/ queues[n][1] # t
    BY <2>1 DEF QueueInv
  <2>3. holder'[n] = holder[n] /\ queues'[n] = queues[n]
    BY <1>5, <2>1, PartIs
  <2> QED
    BY <2>2, <2>3
<1>8. \A r \in Shards \ {s} :
        /\ DOMAIN waiting'[r] \cap DOMAIN leases'[r] = {}
        /\ \A n \in Names : ShardOf[n] = r =>
             /\ \A t \in Tokens : IsIn(t, queues'[n]) <=> t \in DOMAIN waiting'[r] /\ n \in Part(t, r)
             /\ holder'[n] # Nobody => holder'[n] \in DOMAIN leases'[r] /\ n \in Part(holder'[n], r)
  BY <1>5 DEF QueueInv
<1> QED
  BY <1>2, <1>3, <1>4, <1>6, <1>7, <1>8 DEF QueueInv, Waiters, Leased, Part

LEMMA QueuesAre ==
  ASSUME ActorInv, QueueInv
  PROVE  /\ \A s \in Shards : \A t \in Waiters(s) : t \notin Leased(s) /\ t \in Tokens
         /\ \A n \in Names : /\ queues[n] \in Seq(Tokens) /\ Len(queues[n]) \in Nat
                            /\ \A i \in 1..Len(queues[n]) : queues[n][i] \in Tokens
         /\ \A n \in Names : \A t \in Tokens :
              IsIn(t, queues[n]) <=> t \in Waiters(ShardOf[n]) /\ n \in Part(t, ShardOf[n])
         /\ \A n \in Names : holder[n] # Nobody =>
              holder[n] \in Leased(ShardOf[n]) /\ n \in Part(holder[n], ShardOf[n])
<1>1. \A n \in Names : ShardOf[n] \in Shards
  BY LockManagerAssumption
<1>2. \A n \in Names : /\ queues[n] \in Seq(Tokens) /\ Len(queues[n]) \in Nat
                     /\ \A i \in 1..Len(queues[n]) : queues[n][i] \in Tokens
  <2>1. \A n \in Names : queues[n] \in Seq(Tokens)
    BY DEF ActorInv
  <2> QED
    BY <2>1
<1>3. \A s \in Shards : \A t \in Waiters(s) : t \notin Leased(s) /\ t \in Tokens
  BY DEF ActorInv, QueueInv
<1> QED
  BY <1>1, <1>2, <1>3 DEF QueueInv

(* Whatever leaves the holders, the queues, and who waits and who has a    *)
(* lease alone.                                                            *)
LEMMA QueuesStay ==
  ASSUME QueueInv, holder' = holder, queues' = queues,
         \A s \in Shards : DOMAIN leases'[s] = Leased(s) /\ DOMAIN waiting'[s] = Waiters(s)
  PROVE  QueueInv'
<1>1. ASSUME NEW s \in Shards
      PROVE  \E top \in Nat : \E rank : IsOrder(s, rank, top)'
  <2>1. PICK top \in Nat : \E rank : IsOrder(s, rank, top)
    BY DEF QueueInv
  <2>2. PICK rank : IsOrder(s, rank, top)
    BY <2>1
  <2>3. IsOrder(s, rank, top)'
    BY <2>2 DEF IsOrder
  <2> QED
    BY <2>3
<1> QED
  BY <1>1 DEF QueueInv, Waiters, Leased, Part

LEMMA GrantQueues ==
  ASSUME ActorInv, QueueInv, NEW s \in Shards, NEW t \in Tokens, GrantAtOnce(s, t)
  PROVE  QueueInv'
<1>1. /\ t \notin Leased(s) /\ t \notin Waiters(s)
      /\ \A n \in Part(t, s) : holder[n] = Nobody /\ queues[n] = <<>>
      /\ holder' = [n \in Names |-> IF n \in Part(t, s) THEN t ELSE holder[n]]
      /\ waiting' = waiting /\ queues' = queues
      /\ leases' = [leases EXCEPT ![s] = WithAll(@, {t}, LAMBDA u : LeaseTime[u])]
  BY DEF GrantAtOnce, IsKnown, IsUnclaimed
<1>2. /\ DOMAIN leases'[s] = Leased(s) \cup {t}
      /\ \A r \in Shards \ {s} : DOMAIN leases'[r] = Leased(r)
  <2>1. leases = [r \in Shards |-> leases[r]]
    BY DEF ActorInv
  <2>2. leases'[s] = WithAll(leases[s], {t}, LAMBDA u : LeaseTime[u])
    BY <1>1, <2>1
  <2> QED
    BY <1>1, <2>1, <2>2 DEF WithAll, Leased
<1>3. ASSUME NEW r \in Shards
      PROVE  /\ DOMAIN waiting'[r] \cap DOMAIN leases'[r] = {}
             /\ \E top \in Nat : \E rank : IsOrder(r, rank, top)'
  <2>1. PICK top \in Nat : \E rank : IsOrder(r, rank, top)
    BY DEF QueueInv
  <2>2. PICK rank : IsOrder(r, rank, top)
    BY <2>1
  <2>3. IsOrder(r, rank, top)'
    BY <1>1, <2>2 DEF IsOrder
  <2>4. DOMAIN waiting'[r] \cap DOMAIN leases'[r] = {}
    <3>1. DOMAIN waiting'[r] = Waiters(r) /\ \A u \in Waiters(r) : u \notin Leased(r)
      BY <1>1, QueuesAre DEF Waiters
    <3>2. DOMAIN leases'[r] \subseteq Leased(r) \cup (IF r = s THEN {t} ELSE {})
      BY <1>2
    <3> QED
      BY <1>1, <3>1, <3>2
  <2> QED
    BY <2>3, <2>4
<1>4. ASSUME NEW r \in Shards, NEW n \in Names, ShardOf[n] = r
      PROVE  /\ \A u \in Tokens : IsIn(u, queues'[n]) <=> u \in DOMAIN waiting'[r] /\ n \in Part(u, r)
             /\ holder'[n] # Nobody => holder'[n] \in DOMAIN leases'[r] /\ n \in Part(holder'[n], r)
  <2>1. \A u \in Tokens : IsIn(u, queues'[n]) <=> u \in DOMAIN waiting'[r] /\ n \in Part(u, r)
    BY <1>1, <1>4, QueuesAre DEF Waiters
  <2>2. CASE n \in Part(t, s)
    <3>1. r = s /\ holder'[n] = t
      BY <1>1, <1>4, <2>2, PartIs
    <3> QED
      BY <1>2, <2>1, <2>2, <3>1
  <2>3. CASE n \notin Part(t, s)
    <3>1. holder'[n] = holder[n]
      BY <1>1, <2>3
    <3>2. holder[n] # Nobody => holder[n] \in Leased(r) /\ n \in Part(holder[n], r)
      BY <1>4, QueuesAre
    <3> QED
      BY <1>2, <2>1, <3>1, <3>2
  <2> QED
    BY <2>2, <2>3
<1>5. ASSUME NEW r \in Shards, NEW u \in DOMAIN waiting'[r]
      PROVE  \E n \in Part(u, r) : holder'[n] # Nobody \/ queues'[n][1] # u
  <2>1. u \in Waiters(r) /\ u \in Tokens
    BY <1>1 DEF Waiters, ActorInv
  <2>2. PICK n \in Part(u, r) : holder[n] # Nobody \/ queues[n][1] # u
    BY <2>1 DEF QueueInv
  <2>3. n \in Names
    BY <2>1, PartIs
  <2> QED
    BY <1>1, <2>2, <2>3, LeaseTimes
<1> QED
  BY <1>3, <1>4, <1>5 DEF QueueInv, Waiters, Leased, Part

LEMMA EnqueueQueues ==
  ASSUME ActorInv, QueueInv, NEW s \in Shards, NEW t \in Tokens, Enqueue(s, t)
  PROVE  QueueInv'
<1>1. /\ t \notin Leased(s) /\ t \notin Waiters(s)
      /\ \E n \in Part(t, s) : holder[n] # Nobody \/ queues[n] # <<>>
      /\ holder' = holder /\ leases' = leases
      /\ queues' = [n \in Names |-> IF n \in Part(t, s) THEN Append(queues[n], t) ELSE queues[n]]
      /\ waiting' = [waiting EXCEPT ![s] = WithAll(@, {t}, LAMBDA u : 0)]
  BY DEF Enqueue, IsKnown, IsUnclaimed
<1>2. /\ DOMAIN waiting'[s] = Waiters(s) \cup {t}
      /\ \A r \in Shards \ {s} : DOMAIN waiting'[r] = Waiters(r)
  <2>1. waiting = [r \in Shards |-> waiting[r]]
    BY DEF ActorInv
  <2>2. waiting'[s] = WithAll(waiting[s], {t}, LAMBDA u : 0)
    BY <1>1, <2>1
  <2> QED
    BY <1>1, <2>1, <2>2 DEF WithAll, Waiters
<1>3. \A n \in Part(t, s) : n \in Names /\ ShardOf[n] = s
  BY PartIs
<1>4. ASSUME NEW n \in Part(t, s)
      PROVE  /\ queues[n] \in Seq(Tokens) /\ queues'[n] = Append(queues[n], t)
             /\ \A u \in Tokens : IsIn(u, queues'[n]) <=> IsIn(u, queues[n]) \/ u = t
             /\ ~IsIn(t, queues[n])
             /\ queues[n] # <<>> => queues'[n][1] = queues[n][1] /\ IsIn(queues[n][1], queues[n])
  <2>1. queues[n] \in Seq(Tokens) /\ queues'[n] = Append(queues[n], t) /\ Len(queues[n]) \in Nat
    BY <1>1, <1>3, QueuesAre
  <2> DEFINE q == queues[n]
  <2>2. /\ Len(Append(q, t)) = Len(q) + 1
        /\ \A i \in 1..Len(q) : Append(q, t)[i] = q[i]
        /\ Append(q, t)[Len(q) + 1] = t
    BY <2>1
  <2>3. \A i \in 1..(Len(q) + 1) : i \in 1..Len(q) \/ i = Len(q) + 1
    BY <2>1
  <2>4. \A i \in 1..Len(q) : i \in 1..(Len(q) + 1)
    BY <2>1
  <2>5. \A u \in Tokens : IsIn(u, Append(q, t)) <=> IsIn(u, q) \/ u = t
    BY <2>1, <2>2, <2>3, <2>4 DEF IsIn
  <2>6. q # <<>> => 1 \in 1..Len(q)
    BY <2>1
  <2>7. q # <<>> => Append(q, t)[1] = q[1] /\ IsIn(q[1], q)
    BY <2>2, <2>6 DEF IsIn
  <2>8. ~IsIn(t, q)
    BY <1>1, <1>3 DEF QueueInv
  <2> QED
    BY <2>1, <2>5, <2>7, <2>8
<1>5. \A n \in Names : n \notin Part(t, s) => queues'[n] = queues[n]
  BY <1>1
<1>6. ASSUME NEW r \in Shards
      PROVE  \E top \in Nat : \E rank : IsOrder(r, rank, top)'
  <2>1. PICK top \in Nat : \E rank : IsOrder(r, rank, top)
    BY DEF QueueInv
  <2>2. PICK rank : IsOrder(r, rank, top)
    BY <2>1
  <2>3. CASE r # s
    <3>1. \A n \in Names : ShardOf[n] = r => queues'[n] = queues[n]
      BY <1>3, <1>5, <2>3
    <3>2. IsOrder(r, rank, top)'
      BY <2>2, <3>1 DEF IsOrder
    <3> QED
      BY <3>2
  <2>4. CASE r = s
    <3> DEFINE rank2 == [rank EXCEPT ![t] = top + 1]
    <3>1. /\ rank \in [Tokens -> Nat] /\ \A u \in Tokens : rank[u] <= top
          /\ \A n \in Names : ShardOf[n] = s => Ascends(queues[n], rank)
      BY <2>2, <2>4 DEF IsOrder
    <3>2. /\ rank2 \in [Tokens -> Nat] /\ \A u \in Tokens : rank2[u] <= top + 1
          /\ rank2[t] = top + 1 /\ \A u \in Tokens \ {t} : rank2[u] = rank[u]
      BY <3>1
    <3> HIDE DEF rank2
    <3>3. ASSUME NEW n \in Names, ShardOf[n] = s
          PROVE  Ascends(queues'[n], rank2)
      <4>1. /\ queues[n] \in Seq(Tokens) /\ Len(queues[n]) \in Nat /\ ~IsIn(t, queues[n])
            /\ \A i \in 1..Len(queues[n]) : queues[n][i] \in Tokens
        BY <1>1, <3>3, QueuesAre
      <4>2. \A i \in 1..Len(queues[n]) : queues[n][i] \in Tokens \ {t}
        BY <4>1 DEF IsIn
      <4>3. \A i, j \in 1..Len(queues[n]) : i < j => rank2[queues[n][i]] < rank2[queues[n][j]]
        BY <3>1, <3>2, <3>3, <4>2 DEF Ascends
      <4>4. CASE n \notin Part(t, s)
        BY <1>5, <4>3, <4>4 DEF Ascends
      <4>5. CASE n \in Part(t, s)
        <5> DEFINE q == queues[n]
                   p == Append(q, t)
        <5>1. queues'[n] = p
          BY <1>4, <4>5
        <5>2. /\ Len(p) = Len(q) + 1
              /\ \A i \in 1..Len(q) : p[i] = q[i]
              /\ p[Len(q) + 1] = t
          BY <4>1
        <5> SUFFICES ASSUME NEW i \in 1..(Len(q) + 1), NEW j \in 1..(Len(q) + 1), i < j
                     PROVE  rank2[p[i]] < rank2[p[j]]
          BY <5>1, <5>2 DEF Ascends
        <5>3. i \in 1..Len(q) /\ (j \in 1..Len(q) \/ j = Len(q) + 1)
          BY <4>1
        <5>4. CASE j \in 1..Len(q)
          BY <4>3, <5>2, <5>3, <5>4
        <5>5. CASE j = Len(q) + 1
          <6>1. p[i] = q[i] /\ q[i] \in Tokens \ {t} /\ p[j] = t
            BY <4>2, <5>2, <5>3, <5>5
          <6>2. rank2[q[i]] \in Nat /\ rank2[q[i]] <= top /\ rank2[t] = top + 1
            BY <3>1, <3>2, <6>1
          <6> QED
            BY <6>1, <6>2
        <5> QED
          BY <5>3, <5>4, <5>5
      <4> QED
        BY <4>4, <4>5
    <3>4. IsOrder(s, rank2, top + 1)'
      BY <3>2, <3>3 DEF IsOrder
    <3> QED
      BY <2>4, <3>4
  <2> QED
    BY <2>3, <2>4
<1>7. ASSUME NEW r \in Shards
      PROVE  DOMAIN waiting'[r] \cap DOMAIN leases'[r] = {}
  BY <1>1, <1>2, QueuesAre DEF Leased
<1>8. ASSUME NEW r \in Shards, NEW n \in Names, ShardOf[n] = r
      PROVE  /\ \A u \in Tokens : IsIn(u, queues'[n]) <=> u \in DOMAIN waiting'[r] /\ n \in Part(u, r)
             /\ holder'[n] # Nobody => holder'[n] \in DOMAIN leases'[r] /\ n \in Part(holder'[n], r)
  <2>1. /\ \A u \in Tokens : IsIn(u, queues[n]) <=> u \in Waiters(r) /\ n \in Part(u, r)
        /\ holder[n] # Nobody => holder[n] \in Leased(r) /\ n \in Part(holder[n], r)
    BY <1>8 DEF QueueInv
  <2>2. holder'[n] # Nobody => holder'[n] \in DOMAIN leases'[r] /\ n \in Part(holder'[n], r)
    BY <1>1, <2>1 DEF Leased
  <2>3. CASE n \in Part(t, s)
    <3>1. r = s
      BY <1>3, <1>8, <2>3
    <3> QED
      BY <1>2, <1>4, <2>1, <2>2, <2>3, <3>1
  <2>4. CASE n \notin Part(t, s)
    <3>1. \A u \in Tokens : u \in DOMAIN waiting'[r] /\ n \in Part(u, r) <=>
                            u \in Waiters(r) /\ n \in Part(u, r)
      BY <1>2, <2>4
    <3>2. queues'[n] = queues[n]
      BY <1>5, <2>4
    <3> QED
      BY <2>1, <2>2, <3>1, <3>2
  <2> QED
    BY <2>3, <2>4
<1>9. ASSUME NEW r \in Shards, NEW u \in DOMAIN waiting'[r]
      PROVE  \E n \in Part(u, r) : holder'[n] # Nobody \/ queues'[n][1] # u
  <2>1. CASE r = s /\ u = t
    <3>1. PICK n \in Part(t, s) : holder[n] # Nobody \/ queues[n] # <<>>
      BY <1>1
    <3>2. queues[n] # <<>> => queues'[n][1] # t
      BY <1>4
    <3> QED
      BY <1>1, <2>1, <3>1, <3>2
  <2>2. CASE ~(r = s /\ u = t)
    <3>1. u \in Waiters(r) /\ u \in Tokens
      BY <1>2, <2>2 DEF ActorInv
    <3>2. PICK n \in Part(u, r) : holder[n] # Nobody \/ queues[n][1] # u
      BY <3>1 DEF QueueInv
    <3>3. n \in Names /\ ShardOf[n] = r /\ queues[n] \in Seq(Tokens)
      BY <3>1, PartIs DEF ActorInv
    <3>4. IsIn(u, queues[n])
      BY <3>1, <3>2, <3>3 DEF QueueInv
    <3>5. queues[n] # <<>>
      BY <3>4 DEF IsIn
    <3>6. queues'[n][1] = queues[n][1]
      BY <1>4, <1>5, <3>3, <3>5
    <3> QED
      BY <1>1, <3>2, <3>6
  <2> QED
    BY <2>1, <2>2
<1> QED
  BY <1>6, <1>7, <1>8, <1>9 DEF QueueInv, Waiters, Leased, Part

LEMMA AcquireQueues ==
  ASSUME ActorInv, QueueInv, NEW s \in Shards, NEW t \in Tokens, Acquire(s, t)
  PROVE  QueueInv'
<1>1. CASE AnswerAtOnce(s, t) \/ WaitAgain(s, t)
  <2>1. holder' = holder /\ queues' = queues /\ leases' = leases /\ waiting' = waiting
    BY <1>1 DEF AnswerAtOnce, WaitAgain, lockVars
  <2> QED
    BY <2>1, QueuesStay DEF Leased, Waiters
<1> QED
  BY <1>1, GrantQueues, EnqueueQueues DEF Acquire

LEMMA EndWaitQueues ==
  ASSUME ActorInv, QueueInv, NEW s \in Shards, NEW t \in Tokens, EndWait(s, t)
  PROVE  QueueInv'
<1>1. /\ holder' = holder /\ queues' = queues /\ leases' = leases
      /\ waiting' = [waiting EXCEPT ![s] = [u \in DOMAIN @ |-> IF u = t THEN 0 ELSE @[u]]]
  BY DEF EndWait
<1>2. waiting = [r \in Shards |-> waiting[r]]
  BY DEF ActorInv
<1>3. \A r \in Shards : DOMAIN waiting'[r] = DOMAIN waiting[r]
  BY <1>1, <1>2
<1> QED
  BY <1>1, <1>3, QueuesStay DEF Leased, Waiters

LEMMA RenewQueues ==
  ASSUME ActorInv, QueueInv, NEW s \in Shards, NEW t \in Tokens, Renew(s, t)
  PROVE  QueueInv'
<1>1. /\ holder' = holder /\ queues' = queues /\ waiting' = waiting
      /\ leases' = [leases EXCEPT ![s] =
           [u \in DOMAIN @ |-> IF u = t /\ IsAlive(s, t) THEN LeaseTime[t] ELSE @[u]]]
  BY DEF Renew
<1>2. leases = [r \in Shards |-> leases[r]]
  BY DEF ActorInv
<1>3. \A r \in Shards : DOMAIN leases'[r] = DOMAIN leases[r]
  BY <1>1, <1>2
<1> QED
  BY <1>1, <1>3, QueuesStay DEF Leased, Waiters

LEMMA ReleaseQueues ==
  ASSUME ActorInv, HeapInv, QueueInv, NEW s \in Shards, NEW t \in Tokens, Release(s, t)
  PROVE  QueueInv'
<1>1. {} \in SUBSET Tokens /\ {t} \in SUBSET Tokens
  OBVIOUS
<1>2. CASE ReleaseLease(s, t)
  BY <1>1, <1>2, HandOffQueues DEF ReleaseLease
<1>3. CASE Withdraw(s, t) /\ t \in Waiters(s)
  BY <1>1, <1>3, HandOffQueues DEF Withdraw
<1>4. CASE Withdraw(s, t) /\ t \notin Waiters(s)
  <2>1. holder' = holder /\ queues' = queues /\ leases' = leases /\ waiting' = waiting
    BY <1>4 DEF Withdraw
  <2> QED
    BY <2>1, QueuesStay DEF Leased, Waiters
<1> QED
  BY <1>2, <1>3, <1>4 DEF Release

LEMMA ExpireQueues ==
  ASSUME ActorInv, HeapInv, QueueInv, NEW s \in Shards, Expire(s)
  PROVE  QueueInv'
<1>1. /\ Over(s) \in SUBSET Tokens /\ {} \in SUBSET Tokens
      /\ HandOff(s, Over(s), {}, Kept(s)) /\ \A t \in Over(s) : t \in Leased(s)
  BY DEF Over, ActorInv, Expire
<1> QED
  BY <1>1, HandOffQueues

LEMMA TickQueues ==
  ASSUME ActorInv, QueueInv, LockTick
  PROVE  QueueInv'
<1>1. /\ holder' = holder /\ queues' = queues
      /\ \A s \in Shards : DOMAIN leases'[s] = Leased(s) /\ DOMAIN waiting'[s] = Waiters(s)
  BY DEF LockTick
<1> QED
  BY <1>1, QueuesStay

-----------------------------------------------------------------------------
(* The actors, whatever the callers do.                                    *)
ActorsInv ==
  /\ ActorInv
  /\ HeapInv
  /\ QueueInv
  /\ withdrawn \in [Shards -> SUBSET Tokens]

LEMMA ActorsInit == Init => ActorsInv
<1> SUFFICES ASSUME Init PROVE ActorsInv
  OBVIOUS
<1>1. ActorInv
  BY LockInvInit DEF LockInv
<1>2. /\ \A s \in Shards : Leased(s) = {} /\ Waiters(s) = {} /\ expiries[s] = {} /\ timer[s] = Never
      /\ \A n \in Names : holder[n] = Nobody /\ queues[n] = <<>>
      /\ expiries = [s \in Shards |-> {}] /\ timer = [s \in Shards |-> Never]
  BY DEF Init, LockInit, Leased, Waiters
<1>3. HeapInv
  BY <1>2, LeaseTimes DEF HeapInv, Never
<1>4. QueueInv
  <2>1. ASSUME NEW s \in Shards
        PROVE  \E top \in Nat : \E rank : IsOrder(s, rank, top)
    <3>1. IsOrder(s, [t \in Tokens |-> 0], 0)
      BY <1>2 DEF IsOrder, Ascends
    <3> QED
      BY <3>1
  <2>2. \A n \in Names : \A t \in Tokens : ~IsIn(t, queues[n])
    BY <1>2 DEF IsIn
  <2> QED
    BY <1>2, <2>1, <2>2 DEF QueueInv
<1>5. withdrawn \in [Shards -> SUBSET Tokens]
  BY DEF Init, LockInit
<1> QED
  BY <1>1, <1>3, <1>4, <1>5 DEF ActorsInv

(* What the steps of the system are for the actors.                        *)
ActorStep ==
  \/ \E s \in Shards, t \in Tokens : Acquire(s, t) \/ EndWait(s, t) \/ Renew(s, t) \/ Release(s, t)
  \/ \E s \in Shards : Expire(s)
  \/ LockTick
  \/ UNCHANGED lockVars

LEMMA StepsAreActorSteps ==
  ASSUME LockInv, [Next]_vars
  PROVE  ActorStep
<1>1. \A t \in Tokens : call[t].at \in {"sent", "parked"} => call[t].shard \in Shards
  BY DEF LockInv, CallsAgree
<1>2. ASSUME NEW t \in Tokens, CallStep(t)
      PROVE  ActorStep
  BY <1>1, <1>2 DEF CallStep, Ask, Arrive, Unpark, TakeGrant, TakeDenial, ActorStep, lockVars
<1>3. ASSUME NEW t \in Tokens, Renewal(t) \/ Delivery(t)
      PROVE  ActorStep
  <2>1. round[t].unanswered \subseteq Shards /\ late[t] \subseteq Shards /\ releases[t] \subseteq Shards
    BY DEF LockInv, CallerTypes
  <2> QED
    BY <1>3, <2>1 DEF Renewal, Delivery, StartRound, RenewArrives, CloseRound, ReleaseArrives,
                      LateRenewArrives, ActorStep
<1>4. ASSUME NEW t \in Tokens, GiveUp(t) \/ Exit(t) \/ Die(t)
      PROVE  ActorStep
  BY <1>4 DEF GiveUp, Exit, Die, ActorStep
<1>5. ASSUME NEW s \in Shards, ExpireShard(s)
      PROVE  ActorStep
  BY <1>5 DEF ExpireShard, ActorStep
<1>6. Tick => ActorStep
  BY DEF Tick, ActorStep
<1>7. UNCHANGED vars => ActorStep
  BY DEF vars, ActorStep
<1> QED
  BY <1>2, <1>3, <1>4, <1>5, <1>6, <1>7 DEF Next

LEMMA ActorsNext ==
  ASSUME ActorsInv, ActorInv', ActorStep
  PROVE  ActorsInv'
<1>0. ActorInv /\ HeapInv /\ QueueInv
  BY DEF ActorsInv
<1>1. ASSUME NEW s \in Shards, NEW t \in Tokens,
             Acquire(s, t) \/ EndWait(s, t) \/ Renew(s, t) \/ Release(s, t)
      PROVE  HeapInv' /\ QueueInv'
  <2>1. EndWait(s, t) => HeapInv'
    BY <1>0 DEF EndWait, HeapInv, Leased
  <2> QED
    BY <1>0, <1>1, <2>1, AcquireTimes, AcquireQueues, EndWaitQueues, RenewTimes, RenewQueues,
       ReleaseTimes, ReleaseQueues
<1>2. ASSUME NEW s \in Shards, Expire(s)
      PROVE  HeapInv' /\ QueueInv'
  BY <1>0, <1>2, ExpireTimes, ExpireQueues
<1>3. LockTick => HeapInv' /\ QueueInv'
  BY <1>0, TickTimes, TickQueues
<1>4. UNCHANGED lockVars => HeapInv' /\ QueueInv'
  <2> SUFFICES ASSUME UNCHANGED lockVars PROVE HeapInv' /\ QueueInv'
    OBVIOUS
  <2>1. UNCHANGED <<holder, leases, expiries, timer, queues, waiting>>
    BY DEF lockVars
  <2>2. HeapInv'
    BY <1>0, <2>1 DEF HeapInv, Leased
  <2>3. QueueInv'
    BY <1>0, <2>1, QueuesStay DEF Leased, Waiters
  <2> QED
    BY <2>2, <2>3
<1>5. withdrawn' \in [Shards -> SUBSET Tokens]
  <2>1. withdrawn \in [Shards -> SUBSET Tokens]
    BY DEF ActorsInv
  <2>2. \/ withdrawn' = withdrawn
        \/ \E s \in Shards, t \in Tokens : withdrawn' = [withdrawn EXCEPT ![s] = @ \cup {t}]
    BY DEF ActorStep, Acquire, AnswerAtOnce, GrantAtOnce, Enqueue, WaitAgain, EndWait, Renew, Release,
           ReleaseLease, Withdraw, Expire, LockTick, lockVars
  <2> QED
    BY <2>1, <2>2
<1> QED
  BY <1>1, <1>2, <1>3, <1>4, <1>5 DEF ActorStep, ActorsInv

LEMMA ActorsAlways == Spec => []ActorsInv
<1>1. LockInv /\ LockInv' /\ ActorsInv /\ [Next]_vars => ActorsInv'
  BY StepsAreActorSteps, ActorsNext DEF LockInv
<1> QED
  BY ActorsInit, LockInvAlways, <1>1, PTL DEF Spec

(* The tokens before a token, in terms of an order of arrival.             *)
LEMMA AheadIs ==
  ASSUME ActorInv, NEW s \in Shards, NEW rank, NEW top \in Nat, IsOrder(s, rank, top),
         NEW n \in Names, ShardOf[n] = s, NEW t \in Tokens, NEW u \in Tokens,
         IsIn(t, queues[n]), IsIn(u, queues[n])
  PROVE  t \in Ahead(u, n) <=> rank[t] < rank[u]
<1> DEFINE q == queues[n]
<1>1. /\ q \in Seq(Tokens) /\ Len(q) \in Nat /\ DOMAIN q = 1..Len(q)
      /\ rank[t] \in Nat /\ rank[u] \in Nat
      /\ \A i, j \in 1..Len(q) : i < j => rank[q[i]] < rank[q[j]]
  <2>1. q \in Seq(Tokens)
    BY DEF ActorInv
  <2> QED
    BY <2>1 DEF IsOrder, Ascends
<1> HIDE DEF q
<1>2. PICK k \in 1..Len(q) : q[k] = t
  BY DEF IsIn, q
<1>3. PICK m \in 1..Len(q) : q[m] = u
  BY DEF IsIn, q
<1>4. t \in Ahead(u, n) <=> \A i \in 1..Len(q) : q[i] = u => \E j \in 1..(i - 1) : q[j] = t
  <2>1. t \in ToSet(q)
    BY <1>1, <1>2 DEF ToSet
  <2> QED
    BY <1>1, <2>1 DEF Ahead, q
<1>5. ASSUME t \in Ahead(u, n)
      PROVE  rank[t] < rank[u]
  <2>1. PICK j \in 1..(m - 1) : q[j] = t
    BY <1>3, <1>4, <1>5
  <2>2. j \in 1..Len(q) /\ j < m
    BY <1>1, <1>3
  <2> QED
    BY <1>1, <1>3, <2>1, <2>2
<1>6. ASSUME rank[t] < rank[u], NEW i \in 1..Len(q), q[i] = u
      PROVE  \E j \in 1..(i - 1) : q[j] = t
  <2>1. ~(i < k) /\ i # k
    BY <1>1, <1>2, <1>6
  <2>2. k \in 1..(i - 1)
    BY <1>1, <1>2, <2>1
  <2> QED
    BY <1>2, <2>2
<1> QED
  BY <1>4, <1>5, <1>6

LEMMA QueuesDoAgree ==
  ASSUME ActorsInv
  PROVE  QueuesAgree /\ NoLostGrant
<1>0. ActorInv /\ QueueInv
  BY DEF ActorsInv
<1>1. ASSUME NEW s \in Shards
      PROVE  \E top \in Nat : \E rank : IsOrder(s, rank, top)
  BY <1>0 DEF QueueInv
<1>2. ASSUME NEW n \in Names, NEW t
      PROVE  t \in ToSet(queues[n]) <=> t \in Tokens /\ IsIn(t, queues[n])
  <2>1. queues[n] \in Seq(Tokens) /\ DOMAIN queues[n] = 1..Len(queues[n])
    BY <1>0, QueuesAre
  <2> QED
    BY <2>1 DEF ToSet, IsIn
<1>3. ASSUME NEW s \in Shards, NEW n \in Names, ShardOf[n] = s
      PROVE  /\ IsInjective(queues[n])
             /\ ToSet(queues[n]) = {t \in Waiters(s) : n \in Part(t, s)}
             /\ {holder[n]} \ {Nobody} = {t \in Leased(s) : n \in Part(t, s)}
  <2>1. PICK top \in Nat : \E rank : IsOrder(s, rank, top)
    BY <1>1
  <2>2. PICK rank : IsOrder(s, rank, top)
    BY <2>1
  <2>3. IsInjective(queues[n])
    <3>1. /\ DOMAIN queues[n] = 1..Len(queues[n]) /\ Len(queues[n]) \in Nat
          /\ \A i \in 1..Len(queues[n]) : queues[n][i] \in Tokens
      BY <1>0, QueuesAre
    <3>2. /\ \A t \in Tokens : rank[t] \in Nat
          /\ \A i, j \in 1..Len(queues[n]) : i < j => rank[queues[n][i]] < rank[queues[n][j]]
      BY <1>3, <2>2 DEF IsOrder, Ascends
    <3>3. ASSUME NEW i \in 1..Len(queues[n]), NEW j \in 1..Len(queues[n]), queues[n][i] = queues[n][j]
          PROVE  i = j
      <4>1. rank[queues[n][i]] \in Nat /\ ~(i < j) /\ ~(j < i)
        BY <3>1, <3>2, <3>3
      <4> QED
        BY <3>1, <4>1
    <3> QED
      BY <3>1, <3>3 DEF IsInjective
  <2>4. ToSet(queues[n]) = {t \in Waiters(s) : n \in Part(t, s)}
    BY <1>0, <1>2, <1>3, QueuesAre
  <2>5. {holder[n]} \ {Nobody} = {t \in Leased(s) : n \in Part(t, s)}
    <3>1. holder[n] # Nobody => holder[n] \in Leased(s) /\ n \in Part(holder[n], s)
      BY <1>0, <1>3, QueuesAre
    <3>2. \A t \in Leased(s) : n \in Part(t, s) => holder[n] = t /\ t # Nobody
      BY <1>0, LeasesAre, LeaseTimes DEF ActorInv, HoldersAgree
    <3> QED
      BY <3>1, <3>2
  <2> QED
    BY <2>3, <2>4, <2>5
<1>4. ASSUME NEW s \in Shards, NEW m \in Names, NEW n \in Names, ShardOf[m] = s, ShardOf[n] = s,
             NEW t \in ToSet(queues[m]) \cap ToSet(queues[n]),
             NEW u \in ToSet(queues[m]) \cap ToSet(queues[n])
      PROVE  t \in Ahead(u, m) <=> t \in Ahead(u, n)
  <2>1. PICK top \in Nat : \E rank : IsOrder(s, rank, top)
    BY <1>1
  <2>2. PICK rank : IsOrder(s, rank, top)
    BY <2>1
  <2>3. /\ t \in Tokens /\ u \in Tokens /\ IsIn(t, queues[m]) /\ IsIn(u, queues[m])
        /\ IsIn(t, queues[n]) /\ IsIn(u, queues[n])
    BY <1>2
  <2>4. t \in Ahead(u, m) <=> rank[t] < rank[u]
    BY <1>0, <1>4, <2>2, <2>3, AheadIs
  <2>5. t \in Ahead(u, n) <=> rank[t] < rank[u]
    BY <1>0, <1>4, <2>2, <2>3, AheadIs
  <2> QED
    BY <2>4, <2>5
<1>5. QueuesAgree
  <2>1. \A s \in Shards : Waiters(s) \cap Leased(s) = {}
    BY <1>0 DEF QueueInv
  <2> QED
    BY <1>3, <1>4, <2>1 DEF QueuesAgree
<1>6. NoLostGrant
  <2> SUFFICES ASSUME NEW s \in Shards, NEW t \in Waiters(s)
               PROVE  \E n \in Part(t, s) : holder[n] # Nobody \/ Head(queues[n]) # t
    BY DEF NoLostGrant
  <2>1. PICK n \in Part(t, s) : holder[n] # Nobody \/ queues[n][1] # t
    BY <1>0 DEF QueueInv
  <2>2. n \in Names /\ ShardOf[n] = s /\ t \in Tokens
    BY <1>0, QueuesAre, PartIs
  <2>3. queues[n] \in Seq(Tokens) /\ IsIn(t, queues[n])
    BY <1>0, <2>2, QueuesAre
  <2>4. Head(queues[n]) = queues[n][1]
    BY <2>3 DEF IsIn
  <2> QED
    BY <2>1, <2>4
<1> QED
  BY <1>5, <1>6

(* Nobody waits for nothing, whatever was freed, withdrawn, renewed or     *)
(* skipped, and in whatever order.                                         *)
THEOREM NobodyWaitsForNothing == Spec => []WaitersAreServed
<1>1. ActorsInv => WaitersAreServed
  BY QueuesDoAgree DEF WaitersAreServed
<1> QED
  BY ActorsAlways, <1>1, PTL

(* Every lease is in the heap, and the timer fires no later than the heap's*)
(* first entry.                                                            *)
THEOREM TimersCover == Spec => []TimerCovers
<1>1. ASSUME HeapInv
      PROVE  TimerCovers
  <2> SUFFICES ASSUME NEW s \in Shards
               PROVE  timer[s] <= Earliest(expiries[s])
    BY <1>1 DEF TimerCovers, HeapInv
  <2>1. expiries[s] \in SUBSET Pairs /\ timer[s] \in 0..Never /\ \A e \in expiries[s] : timer[s] <= e[1]
    BY <1>1 DEF HeapInv
  <2>2. /\ Earliest(expiries[s]) \in 0..Never
        /\ Earliest(expiries[s]) # Never => \E e \in expiries[s] : Earliest(expiries[s]) = e[1]
    BY <2>1, EarliestIs
  <2> QED
    BY <2>1, <2>2, LeaseTimes DEF Never
<1> QED
  BY ActorsAlways, <1>1, PTL DEF ActorsInv

-----------------------------------------------------------------------------
(* Who leaves the queues in a hand-off left of his own accord, or is taken *)
(* for dead.                                                               *)
Skipped(s, freed, gone) ==
  gone \cup {t \in Waiters(s) \ gone :
               /\ IsAbandoned(s, t)
               /\ \E n \in Looked(s, freed, gone) : IsFree(n, freed) /\ IsFirst(t, n, gone)}

SkippedOf(s, freed, left, f, k) == IF k = 0 THEN left ELSE Skipped(s, freed, f[k - 1])

LEMMA SkippedExists ==
  ASSUME NEW s, NEW freed, NEW left, NEW n \in Nat
  PROVE  \E f : f = [k \in 0..n |-> SkippedOf(s, freed, left, f, k)]
<1> DEFINE T == {m \in Nat : ~ \E f : f = [k \in 0..m |-> SkippedOf(s, freed, left, f, k)]}
<1> SUFFICES ASSUME T # {} PROVE FALSE
  OBVIOUS
<1>1. PICK m \in T : \A k \in T : m <= k
  BY LeastNumber
<1>2. m \in Nat /\ ~ \E f : f = [k \in 0..m |-> SkippedOf(s, freed, left, f, k)]
  BY <1>1
<1>3. CASE m = 0
  <2> DEFINE f == [k \in 0..0 |-> left]
  <2>1. f = [k \in 0..m |-> SkippedOf(s, freed, left, f, k)]
    BY <1>3 DEF SkippedOf
  <2> QED
    BY <1>2, <2>1
<1>4. CASE m # 0
  <2>1. m - 1 \in Nat /\ m - 1 \notin T
    BY <1>1, <1>2, <1>4
  <2>2. PICK f : f = [k \in 0..(m - 1) |-> SkippedOf(s, freed, left, f, k)]
    BY <2>1
  <2> DEFINE g == [k \in 0..m |-> IF k = m THEN SkippedOf(s, freed, left, f, m) ELSE f[k]]
  <2>3. ASSUME NEW k \in 0..m
        PROVE  g[k] = SkippedOf(s, freed, left, g, k)
    <3>1. k # 0 => k - 1 \in 0..(m - 1) /\ k - 1 \in 0..m /\ k - 1 # m
      BY <1>2
    <3>2. k # 0 => g[k - 1] = f[k - 1]
      BY <3>1
    <3>3. SkippedOf(s, freed, left, g, k) = SkippedOf(s, freed, left, f, k)
      BY <3>2 DEF SkippedOf
    <3>4. k # m => k \in 0..(m - 1)
      BY <1>2
    <3>5. k # m => f[k] = SkippedOf(s, freed, left, f, k)
      BY <2>2, <3>4
    <3> QED
      BY <3>3, <3>5
  <2>4. g = [k \in 0..m |-> SkippedOf(s, freed, left, g, k)]
    <3> HIDE DEF g
    <3>1. g = [k \in 0..m |-> g[k]]
      BY DEF g
    <3> QED
      BY <2>3, <3>1
  <2> QED
    BY <1>2, <2>4
<1> QED
  BY <1>3, <1>4

LEMMA GoneAre ==
  ASSUME NEW s, NEW freed, NEW left
  PROVE  Gone(s, freed, left) \subseteq left \cup {t \in Waiters(s) : IsAbandoned(s, t)}
<1> DEFINE N == Cardinality(Tokens)
           f == CHOOSE f : f = [k \in 0..N |-> SkippedOf(s, freed, left, f, k)]
           A == left \cup {t \in Waiters(s) : IsAbandoned(s, t)}
<1>0. N \in Nat
  BY LockManagerAssumption, FS_CardinalityType
<1>1. f = [k \in 0..N |-> SkippedOf(s, freed, left, f, k)]
  BY <1>0, SkippedExists
<1>2. Gone(s, freed, left) = f[N]
  BY DEF Gone, SkippedOf, Skipped
<1> HIDE DEF N, f
<1>3. \A k \in 0..N : f[k] = SkippedOf(s, freed, left, f, k)
  BY <1>1
<1> DEFINE T == {k \in 0..N : ~(f[k] \subseteq A)}
<1>4. T = {}
  <2> SUFFICES ASSUME T # {} PROVE FALSE
    OBVIOUS
  <2>0. T \in SUBSET Nat
    BY <1>0
  <2>1. PICK k \in T : \A m \in T : k <= m
    <3> HIDE DEF T
    <3> QED
      BY <2>0, LeastNumber
  <2>2. k \in 0..N /\ ~(f[k] \subseteq A)
    BY <2>1
  <2>3. CASE k = 0
    BY <1>3, <2>2, <2>3 DEF SkippedOf
  <2>4. CASE k # 0
    <3>1. k - 1 \in 0..N /\ k - 1 \notin T
      BY <1>0, <2>1, <2>2, <2>4
    <3>2. f[k - 1] \subseteq A
      BY <3>1
    <3>3. f[k] = Skipped(s, freed, f[k - 1])
      BY <1>3, <2>2, <2>4 DEF SkippedOf
    <3>4. Skipped(s, freed, f[k - 1]) \subseteq f[k - 1] \cup {t \in Waiters(s) : IsAbandoned(s, t)}
      BY DEF Skipped
    <3> QED
      BY <2>2, <3>2, <3>3, <3>4
  <2> QED
    BY <2>3, <2>4
<1>5. f[N] \subseteq A
  BY <1>0, <1>4
<1> QED
  BY <1>2, <1>5

(* No one barges, in one step of an actor.                                 *)
NobodyBarges ==
  \A s \in Shards, t \in Tokens :
    t \in DOMAIN leases'[s] /\ t \notin Leased(s) =>
      \A n \in Part(t, s) : \A u \in Ahead(t, n) :
        /\ u \notin DOMAIN waiting'[s]
        /\ IsAbandoned(s, u) \/ u \in withdrawn'[s]

LEMMA HandOffIsFair ==
  ASSUME ActorsInv, NEW r \in Shards,
         NEW freed \in SUBSET Tokens, NEW left \in SUBSET Tokens, NEW entries,
         HandOff(r, freed, left, entries), \A u \in left : u \in withdrawn'[r]
  PROVE  NobodyBarges
<1> DEFINE G == Granted(r, freed, left)
           gone == Gone(r, freed, left)
<1>1. ActorInv /\ HandedOff(r, freed, entries, G, gone \cup G) /\ G \subseteq Tokens
  <2>1. ActorInv /\ expiries = [s \in Shards |-> expiries[s]]
    BY DEF ActorsInv, HeapInv
  <2> QED
    BY <2>1, GrantedApart, HandOffIs
<1>2. gone \subseteq left \cup {t \in Waiters(r) : IsAbandoned(r, t)}
  BY GoneAre
<1>3. \A t \in G : \A n \in Part(t, r) : IsFirst(t, n, gone)
  BY DEF Granted
<1> HIDE DEF G, gone
<1> SUFFICES ASSUME NEW s \in Shards, NEW t \in Tokens, t \in DOMAIN leases'[s], t \notin Leased(s),
                    NEW n \in Part(t, s), NEW u \in Ahead(t, n)
             PROVE  u \notin DOMAIN waiting'[s] /\ (IsAbandoned(s, u) \/ u \in withdrawn'[s])
  BY DEF NobodyBarges
<1>4. s = r
  BY <1>1 DEF HandedOff, Leased
<1>5. t \in G
  BY <1>1, <1>4 DEF HandedOff
<1>6. n \in Names /\ queues[n] \in Seq(Tokens)
  BY <1>1, PartIs DEF ActorInv
<1>7. PICK i \in DOMAIN queues[n] : queues[n][i] = t /\ \A j \in 1..(i - 1) : queues[n][j] \in gone
  BY <1>3, <1>4, <1>5 DEF IsFirst
<1>8. u \in gone
  BY <1>7 DEF Ahead
<1> QED
  BY <1>1, <1>2, <1>4, <1>8 DEF HandedOff

LEMMA StepsAreFair ==
  ASSUME ActorsInv, ActorStep
  PROVE  NobodyBarges
<1>0. ActorInv
  BY DEF ActorsInv
<1>1. ASSUME NEW r \in Shards, NEW u \in Tokens, Acquire(r, u)
      PROVE  NobodyBarges
  <2>1. CASE UNCHANGED leases
    BY <2>1 DEF NobodyBarges, Leased
  <2>2. CASE GrantAtOnce(r, u)
    <3>1. \A s \in Shards : DOMAIN leases'[s] \subseteq Leased(s) \cup (IF s = r THEN {u} ELSE {})
      <4>1. leases = [s \in Shards |-> leases[s]]
        BY <1>0 DEF ActorInv
      <4>2. leases' = [leases EXCEPT ![r] = WithAll(@, {u}, LAMBDA v : LeaseTime[v])]
        BY <2>2 DEF GrantAtOnce
      <4>3. leases'[r] = WithAll(leases[r], {u}, LAMBDA v : LeaseTime[v])
        BY <4>1, <4>2
      <4>4. DOMAIN leases'[r] = Leased(r) \cup {u}
        BY <4>3 DEF WithAll, Leased
      <4> QED
        BY <4>1, <4>2, <4>4 DEF Leased
    <3>2. \A n \in Part(u, r) : queues[n] = <<>>
      BY <2>2 DEF GrantAtOnce, IsUnclaimed
    <3>3. \A n \in Part(u, r) : Ahead(u, n) = {}
      BY <3>2 DEF Ahead, ToSet
    <3> QED
      BY <3>1, <3>3 DEF NobodyBarges
  <2> QED
    BY <1>1, <2>1, <2>2 DEF Acquire, AnswerAtOnce, Enqueue, WaitAgain, lockVars
<1>2. ASSUME NEW r \in Shards, NEW u \in Tokens, EndWait(r, u)
      PROVE  NobodyBarges
  BY <1>2 DEF EndWait, NobodyBarges, Leased
<1>3. ASSUME NEW r \in Shards, NEW u \in Tokens, Renew(r, u)
      PROVE  NobodyBarges
  <2>1. leases = [s \in Shards |-> leases[s]]
    BY <1>0 DEF ActorInv
  <2>2. leases' = [leases EXCEPT ![r] =
           [v \in DOMAIN @ |-> IF v = u /\ IsAlive(r, u) THEN LeaseTime[u] ELSE @[v]]]
    BY <1>3 DEF Renew
  <2>3. \A s \in Shards : DOMAIN leases'[s] = DOMAIN leases[s]
    BY <2>1, <2>2
  <2> QED
    BY <2>3 DEF NobodyBarges, Leased
<1>4. ASSUME NEW r \in Shards, NEW u \in Tokens, Release(r, u)
      PROVE  NobodyBarges
  <2>1. {} \in SUBSET Tokens /\ {u} \in SUBSET Tokens
    OBVIOUS
  <2>2. CASE ReleaseLease(r, u)
    <3>1. HandOff(r, {u}, {}, expiries[r])
      BY <2>2 DEF ReleaseLease
    <3> QED
      BY <2>1, <3>1, HandOffIsFair
  <2>3. CASE Withdraw(r, u) /\ u \in Waiters(r)
    <3>1. HandOff(r, {}, {u}, expiries[r]) /\ withdrawn' = [withdrawn EXCEPT ![r] = @ \cup {u}]
      BY <2>3 DEF Withdraw
    <3>2. u \in withdrawn'[r]
      BY <3>1 DEF ActorsInv
    <3> QED
      BY <2>1, <3>1, <3>2, HandOffIsFair
  <2>4. CASE Withdraw(r, u) /\ u \notin Waiters(r)
    BY <2>4 DEF Withdraw, NobodyBarges, Leased
  <2> QED
    BY <1>4, <2>2, <2>3, <2>4 DEF Release
<1>5. ASSUME NEW r \in Shards, Expire(r)
      PROVE  NobodyBarges
  <2>1. /\ Over(r) \in SUBSET Tokens /\ {} \in SUBSET Tokens
        /\ HandOff(r, Over(r), {}, Kept(r))
    BY <1>0, <1>5 DEF Over, ActorInv, Expire
  <2> QED
    BY <2>1, HandOffIsFair
<1>6. LockTick => NobodyBarges
  BY DEF LockTick, NobodyBarges
<1>7. UNCHANGED lockVars => NobodyBarges
  BY DEF lockVars, NobodyBarges, Leased
<1> QED
  BY <1>1, <1>2, <1>3, <1>4, <1>5, <1>6, <1>7 DEF ActorStep

(* A name is granted past an earlier waiter only if that one is withdrawn, *)
(* or taken for dead, in the very step.                                    *)
THEOREM NobodyIsPassed == Spec => NoBarging
<1>1. ActorsInv /\ LockInv /\ [Next]_vars => [NobodyBarges]_lockVars
  BY StepsAreActorSteps, StepsAreFair
<1>2. [NobodyBarges]_lockVars =>
        [\A s \in Shards, t \in Tokens :
           t \in DOMAIN leases'[s] /\ t \notin Leased(s) =>
             \A n \in Part(t, s) : \A u \in Ahead(t, n) :
               /\ u \notin DOMAIN waiting'[s]
               /\ IsAbandoned(s, u) \/ u \in withdrawn'[s]]_lockVars
  BY DEF NobodyBarges
<1> QED
  BY ActorsAlways, LockInvAlways, <1>1, <1>2, PTL DEF Spec, NoBarging

-----------------------------------------------------------------------------
(* What a caller touches: a shard it waits or has a lease at.  It waits    *)
(* only at the last one it touches, asks no earlier one than it waits at,  *)
(* and, as long as it goes on asking, touches none after the next.         *)
Touches(t, r) == t \in Waiters(r) \/ t \in Leased(r)

IsActive(t) == phase[t] \in {"asking", "holding"}

IsOnTheWay(t) == call[t].at \in {"sent", "parked"}

WaitsAtTheLast(t) ==
  \A s, r \in Shards : t \in Waiters(s) /\ Touches(t, r) => r <= s

AsksInOrder(t) ==
  IsOnTheWay(t) =>
    \A r \in Shards : /\ Touches(t, r) => r <= call[t].shard
                      /\ t \in Waiters(r) => call[t].shard <= r

AsksTheNext(t) == IsActive(t) /\ call[t].at # "none" => call[t].shard \in NextShards(t)

TouchesNoLater(t) ==
  IsActive(t) => \A r \in Shards : Touches(t, r) => \A q \in ShardsOf(t) \ granted[t] : r <= q

WaitsForNoGrant(t) ==
  /\ \A r \in granted[t] : t \notin Waiters(r)
  /\ call[t].at = "granted" => t \notin Waiters(call[t].shard)

RingOf(t) ==
  /\ WaitsAtTheLast(t)
  /\ AsksInOrder(t)
  /\ AsksTheNext(t)
  /\ TouchesNoLater(t)
  /\ WaitsForNoGrant(t)

RingInv == \A t \in Tokens : RingOf(t)

(* An actor's step that lets t touch no shard of R that it did not.        *)
TouchesNoMore(t, R) ==
  \A r \in R : /\ t \in DOMAIN waiting'[r] => t \in Waiters(r)
               /\ t \in DOMAIN leases'[r] => Touches(t, r)

LEMMA HandOffTouches ==
  ASSUME ActorsInv, NEW s \in Shards,
         NEW freed \in SUBSET Tokens, NEW left \in SUBSET Tokens, NEW entries,
         HandOff(s, freed, left, entries)
  PROVE  \A u \in Tokens : TouchesNoMore(u, Shards)
<1> DEFINE G == Granted(s, freed, left)
           Q == Gone(s, freed, left) \cup G
<1>1. HandedOff(s, freed, entries, G, Q) /\ G \subseteq Waiters(s)
  <2>1. ActorInv /\ expiries = [r \in Shards |-> expiries[r]]
    BY DEF ActorsInv, HeapInv
  <2>2. G \subseteq Waiters(s)
    BY DEF Granted
  <2> QED
    BY <2>1, <2>2, HandOffIs
<1> HIDE DEF G, Q
<1> QED
  BY <1>1 DEF HandedOff, TouchesNoMore, Touches, Waiters, Leased

LEMMA AcquireTouches ==
  ASSUME ActorsInv, NEW s \in Shards, NEW t \in Tokens, Acquire(s, t)
  PROVE  /\ \A u \in Tokens \ {t} : TouchesNoMore(u, Shards)
         /\ TouchesNoMore(t, Shards \ {s})
<1>1. leases = [r \in Shards |-> leases[r]] /\ waiting = [r \in Shards |-> waiting[r]]
  BY DEF ActorsInv, ActorInv
<1>2. CASE AnswerAtOnce(s, t) \/ WaitAgain(s, t)
  <2>1. leases' = leases /\ waiting' = waiting
    BY <1>2 DEF AnswerAtOnce, WaitAgain, lockVars
  <2> QED
    BY <2>1 DEF TouchesNoMore, Touches, Waiters, Leased
<1>3. CASE GrantAtOnce(s, t)
  <2>1. waiting' = waiting /\ leases' = [leases EXCEPT ![s] = WithAll(@, {t}, LAMBDA v : LeaseTime[v])]
    BY <1>3 DEF GrantAtOnce
  <2>2. leases'[s] = WithAll(leases[s], {t}, LAMBDA v : LeaseTime[v])
    BY <1>1, <2>1
  <2>3. DOMAIN leases'[s] = Leased(s) \cup {t} /\ \A r \in Shards \ {s} : leases'[r] = leases[r]
    BY <1>1, <2>1, <2>2 DEF WithAll, Leased
  <2> QED
    BY <2>1, <2>3 DEF TouchesNoMore, Touches, Waiters, Leased
<1>4. CASE Enqueue(s, t)
  <2>1. leases' = leases /\ waiting' = [waiting EXCEPT ![s] = WithAll(@, {t}, LAMBDA v : 0)]
    BY <1>4 DEF Enqueue
  <2>2. waiting'[s] = WithAll(waiting[s], {t}, LAMBDA v : 0)
    BY <1>1, <2>1
  <2>3. DOMAIN waiting'[s] = Waiters(s) \cup {t} /\ \A r \in Shards \ {s} : waiting'[r] = waiting[r]
    BY <1>1, <2>1, <2>2 DEF WithAll, Waiters
  <2> QED
    BY <2>1, <2>3 DEF TouchesNoMore, Touches, Waiters, Leased
<1> QED
  BY <1>2, <1>3, <1>4 DEF Acquire

LEMMA OtherStepsTouch ==
  ASSUME ActorsInv,
         \/ \E s \in Shards, t \in Tokens : EndWait(s, t) \/ Renew(s, t) \/ Release(s, t)
         \/ \E s \in Shards : Expire(s)
         \/ LockTick
         \/ UNCHANGED lockVars
  PROVE  \A u \in Tokens : TouchesNoMore(u, Shards)
<1>0. ActorInv /\ leases = [r \in Shards |-> leases[r]] /\ waiting = [r \in Shards |-> waiting[r]]
  BY DEF ActorsInv, ActorInv
<1>1. ASSUME NEW s \in Shards, NEW t \in Tokens, EndWait(s, t)
      PROVE  \A u \in Tokens : TouchesNoMore(u, Shards)
  <2>1. /\ leases' = leases
        /\ waiting' = [waiting EXCEPT ![s] = [u \in DOMAIN @ |-> IF u = t THEN 0 ELSE @[u]]]
    BY <1>1 DEF EndWait
  <2>2. \A r \in Shards : DOMAIN waiting'[r] = DOMAIN waiting[r]
    BY <1>0, <2>1
  <2> QED
    BY <2>1, <2>2 DEF TouchesNoMore, Touches, Waiters, Leased
<1>2. ASSUME NEW s \in Shards, NEW t \in Tokens, Renew(s, t)
      PROVE  \A u \in Tokens : TouchesNoMore(u, Shards)
  <2>1. /\ waiting' = waiting
        /\ leases' = [leases EXCEPT ![s] =
             [v \in DOMAIN @ |-> IF v = t /\ IsAlive(s, t) THEN LeaseTime[t] ELSE @[v]]]
    BY <1>2 DEF Renew
  <2>2. \A r \in Shards : DOMAIN leases'[r] = DOMAIN leases[r]
    BY <1>0, <2>1
  <2> QED
    BY <2>1, <2>2 DEF TouchesNoMore, Touches, Waiters, Leased
<1>3. ASSUME NEW s \in Shards, NEW t \in Tokens, Release(s, t)
      PROVE  \A u \in Tokens : TouchesNoMore(u, Shards)
  <2>0. {} \in SUBSET Tokens /\ {t} \in SUBSET Tokens
    OBVIOUS
  <2>1. CASE ReleaseLease(s, t)
    BY <2>0, <2>1, HandOffTouches DEF ReleaseLease
  <2>2. CASE Withdraw(s, t) /\ t \in Waiters(s)
    BY <2>0, <2>2, HandOffTouches DEF Withdraw
  <2>3. CASE Withdraw(s, t) /\ t \notin Waiters(s)
    BY <2>3 DEF Withdraw, TouchesNoMore, Touches, Waiters, Leased
  <2> QED
    BY <1>3, <2>1, <2>2, <2>3 DEF Release
<1>4. ASSUME NEW s \in Shards, Expire(s)
      PROVE  \A u \in Tokens : TouchesNoMore(u, Shards)
  <2>1. /\ Over(s) \in SUBSET Tokens /\ {} \in SUBSET Tokens
        /\ HandOff(s, Over(s), {}, Kept(s))
    BY <1>0, <1>4 DEF Over, ActorInv, Expire
  <2> QED
    BY <2>1, HandOffTouches
<1>5. LockTick => \A u \in Tokens : TouchesNoMore(u, Shards)
  BY DEF LockTick, TouchesNoMore, Touches
<1>6. UNCHANGED lockVars => \A u \in Tokens : TouchesNoMore(u, Shards)
  BY DEF lockVars, TouchesNoMore, Touches, Waiters, Leased
<1> QED
  BY <1>1, <1>2, <1>3, <1>4, <1>5, <1>6

-----------------------------------------------------------------------------
(* Steps that leave a caller where it is.                                  *)
LEMMA RingStays ==
  ASSUME NEW t \in Tokens, RingOf(t), granted[t] \subseteq Shards,
         call[t].at # "none" => call[t].shard \in Shards,
         TouchesNoMore(t, Shards),
         phase'[t] = phase[t], granted'[t] = granted[t],
         call'[t].at = call[t].at, call'[t].shard = call[t].shard
  PROVE  RingOf(t)'
<1>1. \A r \in Shards : /\ Touches(t, r)' => Touches(t, r)
                        /\ t \in DOMAIN waiting'[r] => t \in Waiters(r)
  BY DEF TouchesNoMore, Touches, Waiters, Leased
<1>2. WaitsAtTheLast(t)'
  BY <1>1 DEF RingOf, WaitsAtTheLast, Waiters
<1>3. AsksInOrder(t)'
  BY <1>1 DEF RingOf, AsksInOrder, IsOnTheWay, Waiters
<1>4. AsksTheNext(t)'
  BY DEF RingOf, AsksTheNext, IsActive, NextShards
<1>5. TouchesNoLater(t)'
  BY <1>1 DEF RingOf, TouchesNoLater, IsActive
<1>6. WaitsForNoGrant(t)'
  BY <1>1 DEF RingOf, WaitsForNoGrant, Waiters
<1> QED
  BY <1>2, <1>3, <1>4, <1>5, <1>6 DEF RingOf

(* A caller that leaves or dies: only its call on the way counts any more. *)
LEMMA DepartedRing ==
  ASSUME NEW t \in Tokens, RingOf(t), UNCHANGED lockVars,
         phase'[t] \in {"left", "dead"}, granted'[t] = {},
         call'[t].at # "granted",
         call'[t].at \in {"sent", "parked"} => call'[t].at = call[t].at /\ call'[t].shard = call[t].shard
  PROVE  RingOf(t)'
<1>1. \A r \in Shards : /\ Touches(t, r)' <=> Touches(t, r)
                        /\ DOMAIN waiting'[r] = Waiters(r)
  BY DEF lockVars, Touches, Waiters, Leased
<1>2. WaitsAtTheLast(t)'
  BY <1>1 DEF RingOf, WaitsAtTheLast, Waiters
<1>3. AsksInOrder(t)'
  BY <1>1 DEF RingOf, AsksInOrder, IsOnTheWay, Waiters
<1>4. AsksTheNext(t)' /\ TouchesNoLater(t)' /\ WaitsForNoGrant(t)'
  BY DEF AsksTheNext, TouchesNoLater, WaitsForNoGrant, IsActive
<1> QED
  BY <1>2, <1>3, <1>4 DEF RingOf

LEMMA AskRing ==
  ASSUME LockInv, ActorsInv, NEW t \in Tokens, RingOf(t), Ask(t)
  PROVE  RingOf(t)'
<1>1. PICK s \in NextShards(t) :
        call' = [call EXCEPT ![t] = [at |-> "sent", shard |-> s, time |-> 0]]
  BY DEF Ask
<1>2. call'[t] = [at |-> "sent", shard |-> s, time |-> 0]
  BY <1>1 DEF LockInv, CallerTypes
<1>3. /\ phase[t] = "asking" /\ phase' = phase /\ granted' = granted /\ lockVars' = lockVars
  BY DEF Ask
<1>4. /\ s \in ShardsOf(t) \ granted[t] /\ \A r \in ShardsOf(t) \ granted[t] : s <= r
      /\ s \in Shards
  <2>1. s \in ShardsOf(t) \ granted[t] /\ \A r \in ShardsOf(t) \ granted[t] : s <= r
    BY DEF NextShards
  <2>2. \A n \in Wants[t] : ShardOf[n] \in Shards
    BY LockManagerAssumption
  <2> QED
    BY <2>1, <2>2 DEF ShardsOf
<1>5. \A r \in Shards : /\ Touches(t, r)' <=> Touches(t, r)
                        /\ DOMAIN waiting'[r] = Waiters(r)
  BY <1>3 DEF lockVars, Touches, Waiters, Leased
<1>6. \A r \in Shards : t \in Waiters(r) => r \in ShardsOf(t) \ granted[t]
  <2> TAKE r \in Shards
  <2> HAVE t \in Waiters(r)
  <2>1. PICK n \in Part(t, r) : TRUE
    BY DEF ActorsInv, QueueInv
  <2>2. r \in ShardsOf(t)
    BY <2>1 DEF Part, ShardsOf
  <2> QED
    BY <2>2 DEF RingOf, WaitsForNoGrant
<1>7. WaitsAtTheLast(t)'
  BY <1>5 DEF RingOf, WaitsAtTheLast, Waiters
<1>8. AsksInOrder(t)'
  <2>1. \A r \in Shards : Touches(t, r) => r <= s
    BY <1>3, <1>4 DEF RingOf, TouchesNoLater, IsActive
  <2> QED
    BY <1>2, <1>4, <1>5, <1>6, <2>1 DEF AsksInOrder, Waiters
<1>9. AsksTheNext(t)'
  BY <1>1, <1>2, <1>3 DEF AsksTheNext, NextShards
<1>10. TouchesNoLater(t)'
  BY <1>3, <1>5 DEF RingOf, TouchesNoLater, IsActive
<1>11. WaitsForNoGrant(t)'
  <2>1. granted[t] \subseteq Shards
    BY DEF LockInv, CallerTypes
  <2> QED
    BY <1>2, <1>3, <1>5, <2>1 DEF RingOf, WaitsForNoGrant, Waiters
<1> QED
  BY <1>7, <1>8, <1>9, <1>10, <1>11 DEF RingOf

(* A call that runs in the actor, up to its answer.                        *)
LEMMA AnswerRing ==
  ASSUME LockInv, ActorsInv, ActorInv', QueueInv', NEW t \in Tokens, RingOf(t), IsOnTheWay(t),
         TouchesNoMore(t, Shards \ {call[t].shard}),
         call' = [call EXCEPT ![t] = Answer(t)], UNCHANGED <<phase, granted>>
  PROVE  RingOf(t)'
<1> DEFINE c == call[t].shard
<1>1. /\ call'[t] = Answer(t) /\ c \in Shards /\ granted[t] \subseteq Shards
      /\ ~IsActive(t) => granted[t] = {}
      /\ call[t].at # "none"
  BY DEF LockInv, CallerTypes, CallsAgree, IsOnTheWay, IsActive
<1>2. /\ Answer(t).at # "none" => Answer(t).shard = c
      /\ Answer(t).at = "granted" => t \in DOMAIN leases'[c]
  <2>1. call[t] \in [at : Places, shard : 0..NumShards, time : Nat]
    BY DEF LockInv, CallerTypes
  <2>2. Answer(t).at # "none" => Answer(t).shard = c
    BY AnswerIsCovered DEF IsOnTheWay
  <2>3. Answer(t).at = "granted" => t \in DOMAIN leases'[c]
    BY <2>1 DEF Answer, NoCall
  <2> QED
    BY <2>2, <2>3
<1> HIDE DEF c
<1>3. \A r \in Shards : /\ Touches(t, r)' => Touches(t, r) \/ r = c
                        /\ t \in DOMAIN waiting'[r] => t \in Waiters(r) \/ r = c
  BY DEF TouchesNoMore, Touches, Waiters, Leased, c
<1>4. \A r \in Shards : /\ Touches(t, r) => r <= c
                        /\ t \in Waiters(r) => c <= r
  BY DEF RingOf, AsksInOrder, c
<1>5. \A r \in Shards : r \in Int
  BY LockManagerAssumption DEF Shards
<1>6. WaitsAtTheLast(t)'
  <2> SUFFICES ASSUME NEW s \in Shards, NEW r \in Shards, t \in DOMAIN waiting'[s], Touches(t, r)'
               PROVE  r <= s
    BY DEF WaitsAtTheLast, Waiters
  <2>1. r <= c
    BY <1>1, <1>3, <1>4, <1>5
  <2>2. c <= s
    BY <1>1, <1>3, <1>4, <1>5
  <2> QED
    BY <1>1, <1>5, <2>1, <2>2
<1>7. AsksInOrder(t)'
  BY <1>1, <1>2, <1>3, <1>4, <1>5 DEF AsksInOrder, IsOnTheWay, Waiters
<1>8. AsksTheNext(t)'
  BY <1>1, <1>2 DEF RingOf, AsksTheNext, IsActive, NextShards, c
<1>9. TouchesNoLater(t)'
  <2>1. IsActive(t) => c \in NextShards(t)
    BY <1>1 DEF RingOf, AsksTheNext, c
  <2>2. IsActive(t) => \A q \in ShardsOf(t) \ granted[t] : c <= q
    BY <2>1 DEF NextShards
  <2> QED
    BY <1>3, <2>2 DEF RingOf, TouchesNoLater, IsActive
<1>10. WaitsForNoGrant(t)'
  <2>1. ASSUME NEW r \in granted[t]
        PROVE  t \notin DOMAIN waiting'[r]
    <3>1. IsActive(t) /\ r # c
      <4>1. IsActive(t)
        BY <1>1
      <4>2. c \in NextShards(t)
        BY <1>1, <4>1 DEF RingOf, AsksTheNext, c
      <4> QED
        BY <4>1, <4>2 DEF NextShards
    <3>2. t \notin Waiters(r) /\ r \in Shards
      BY <1>1 DEF RingOf, WaitsForNoGrant
    <3> QED
      BY <1>3, <3>1, <3>2
  <2>2. Answer(t).at = "granted" => t \notin DOMAIN waiting'[c]
    BY <1>1, <1>2 DEF QueueInv, Waiters, Leased
  <2> QED
    BY <1>1, <1>2, <2>1, <2>2 DEF WaitsForNoGrant, Waiters
<1> QED
  BY <1>6, <1>7, <1>8, <1>9, <1>10 DEF RingOf

LEMMA TakeGrantRing ==
  ASSUME LockInv, ActorsInv, NEW t \in Tokens, RingOf(t), TakeGrant(t)
  PROVE  RingOf(t)'
<1> DEFINE got  == granted[t] \cup {call[t].shard}
           left == Min({deadline[t], call[t].time})
<1>1. /\ phase[t] = "asking" /\ call[t].at = "granted"
      /\ call' = [call EXCEPT ![t] = NoCall] /\ UNCHANGED lockVars
      /\ \/ Leave(t)
         \/ /\ phase' = [phase EXCEPT ![t] = IF got = ShardsOf(t) THEN "holding" ELSE "asking"]
            /\ granted' = [granted EXCEPT ![t] = got]
  BY DEF TakeGrant
<1> HIDE DEF left
<1>2. call'[t] = NoCall /\ granted[t] \subseteq Shards /\ call[t].shard \in Shards
  BY <1>1 DEF LockInv, CallerTypes, CallsAgree
<1>3. CASE Leave(t)
  <2>1. phase'[t] = "left" /\ granted'[t] = {}
    BY <1>3 DEF Leave, Departed, LockInv, CallerTypes
  <2> QED
    BY <1>1, <1>2, <2>1, DepartedRing DEF NoCall
<1>4. CASE /\ phase' = [phase EXCEPT ![t] = IF got = ShardsOf(t) THEN "holding" ELSE "asking"]
           /\ granted' = [granted EXCEPT ![t] = got]
  <2>1. granted'[t] = granted[t] \cup {call[t].shard}
    BY <1>4 DEF LockInv, CallerTypes
  <2> HIDE DEF got
  <2>2. \A r \in Shards : /\ Touches(t, r)' <=> Touches(t, r)
                          /\ DOMAIN waiting'[r] = Waiters(r)
    BY <1>1 DEF lockVars, Touches, Waiters, Leased
  <2>3. WaitsAtTheLast(t)'
    BY <2>2 DEF RingOf, WaitsAtTheLast, Waiters
  <2>4. AsksInOrder(t)' /\ AsksTheNext(t)'
    BY <1>2 DEF AsksInOrder, AsksTheNext, IsOnTheWay, NoCall
  <2>5. TouchesNoLater(t)'
    BY <1>1, <2>1, <2>2 DEF RingOf, TouchesNoLater, IsActive
  <2>6. WaitsForNoGrant(t)'
    BY <1>1, <1>2, <2>1, <2>2 DEF RingOf, WaitsForNoGrant, NoCall, Waiters
  <2> QED
    BY <2>3, <2>4, <2>5, <2>6 DEF RingOf
<1> QED
  BY <1>1, <1>3, <1>4

LEMMA RingStep ==
  ASSUME LockInv, ActorsInv, ActorInv', QueueInv', RingInv, [Next]_vars
  PROVE  RingInv'
<1>0. \A u \in Tokens :
        /\ RingOf(u) /\ granted[u] \subseteq Shards
        /\ call[u].at # "none" => call[u].shard \in Shards
        /\ phase[u] \in {"left", "dead"} => granted[u] = {}
        /\ call[u].at = "granted" => phase[u] = "asking"
  BY DEF LockInv, CallerTypes, CallsAgree, RingInv
<1>1. ASSUME NEW t \in Tokens,
             \A u \in Tokens \ {t} : TouchesNoMore(u, Shards),
             \A u \in Tokens \ {t} : phase'[u] = phase[u] /\ granted'[u] = granted[u] /\ call'[u] = call[u],
             RingOf(t)'
      PROVE  RingInv'
  <2>1. \A u \in Tokens \ {t} : RingOf(u)'
    BY <1>0, <1>1, RingStays
  <2> QED
    BY <1>1, <2>1 DEF RingInv
<1>2. ASSUME \A u \in Tokens : TouchesNoMore(u, Shards),
             \A u \in Tokens : /\ phase'[u] = phase[u] /\ granted'[u] = granted[u]
                               /\ call'[u].at = call[u].at /\ call'[u].shard = call[u].shard
      PROVE  RingInv'
  BY <1>0, <1>2, RingStays DEF RingInv
<1>3. UNCHANGED lockVars => \A u \in Tokens : TouchesNoMore(u, Shards)
  BY OtherStepsTouch
<1>4. ASSUME NEW t \in Tokens, NEW how \in {"left", "dead"}, Departed(t, how)
      PROVE  /\ phase'[t] = how /\ granted'[t] = {}
             /\ \A u \in Tokens \ {t} : phase'[u] = phase[u] /\ granted'[u] = granted[u]
  BY <1>4 DEF Departed, LockInv, CallerTypes
<1>5. ASSUME NEW t \in Tokens, Ask(t) \/ TakeGrant(t)
      PROVE  RingInv'
  <2>1. RingOf(t)'
    BY <1>0, <1>5, AskRing, TakeGrantRing
  <2>2. \A u \in Tokens \ {t} : phase'[u] = phase[u] /\ granted'[u] = granted[u] /\ call'[u] = call[u]
    BY <1>5 DEF Ask, TakeGrant, Leave, Departed, LockInv, CallerTypes
  <2>3. UNCHANGED lockVars
    BY <1>5 DEF Ask, TakeGrant
  <2> QED
    BY <1>1, <1>3, <2>1, <2>2, <2>3
<1>6. ASSUME NEW t \in Tokens, Arrive(t) \/ Unpark(t)
      PROVE  RingInv'
  <2>1. /\ IsOnTheWay(t) /\ call' = [call EXCEPT ![t] = Answer(t)]
        /\ UNCHANGED <<phase, granted>>
        /\ Acquire(call[t].shard, t) \/ EndWait(call[t].shard, t)
    BY <1>6 DEF Arrive, Unpark, IsOnTheWay
  <2>2. call[t].shard \in Shards
    BY <1>0, <2>1 DEF IsOnTheWay
  <2>3. /\ \A u \in Tokens \ {t} : TouchesNoMore(u, Shards)
        /\ TouchesNoMore(t, Shards \ {call[t].shard})
    <3>1. CASE Acquire(call[t].shard, t)
      BY <2>2, <3>1, AcquireTouches
    <3>2. CASE EndWait(call[t].shard, t)
      <4>1. \A u \in Tokens : TouchesNoMore(u, Shards)
        BY <2>2, <3>2, OtherStepsTouch
      <4> QED
        BY <4>1 DEF TouchesNoMore
    <3> QED
      BY <2>1, <3>1, <3>2
  <2>4. RingOf(t)'
    BY <1>0, <2>1, <2>3, AnswerRing
  <2>5. \A u \in Tokens \ {t} : call'[u] = call[u]
    BY <2>1 DEF LockInv, CallerTypes
  <2> QED
    BY <1>1, <2>1, <2>3, <2>4, <2>5
<1>7. ASSUME NEW t \in Tokens, TakeDenial(t) \/ GiveUp(t) \/ Exit(t) \/ Die(t)
      PROVE  RingInv'
  <2>1. UNCHANGED lockVars
    BY <1>7 DEF TakeDenial, GiveUp, Exit, Die
  <2>2. \A u \in Tokens \ {t} : call'[u] = call[u]
    BY <1>7 DEF TakeDenial, GiveUp, Exit, Die, LockInv, CallerTypes
  <2>3. /\ call'[t].at # "granted"
        /\ call'[t].at \in {"sent", "parked"} => call'[t].at = call[t].at /\ call'[t].shard = call[t].shard
    <3>1. call[t] \in [at : Places, shard : 0..NumShards, time : Nat]
      BY DEF LockInv, CallerTypes
    <3>2. CASE TakeDenial(t)
      <4>1. call'[t] = NoCall
        BY <3>2 DEF TakeDenial, LockInv, CallerTypes
      <4> QED
        BY <4>1 DEF NoCall
    <3>3. CASE GiveUp(t) \/ Die(t)
      <4>1. call'[t] = Abandoned(call[t])
        BY <3>3 DEF GiveUp, Die, LockInv, CallerTypes
      <4>2. CASE call[t].at \in {"sent", "parked"}
        <5>1. call'[t] = [call[t] EXCEPT !.time = 0]
          BY <4>1, <4>2 DEF Abandoned
        <5> QED
          BY <3>1, <4>2, <5>1
      <4>3. CASE call[t].at \notin {"sent", "parked"}
        <5>1. call'[t] = NoCall
          BY <4>1, <4>3 DEF Abandoned
        <5> QED
          BY <5>1 DEF NoCall
      <4> QED
        BY <4>2, <4>3
    <3>4. CASE Exit(t)
      BY <1>0, <3>4 DEF Exit
    <3> QED
      BY <1>7, <3>2, <3>3, <3>4
  <2>4. CASE \E how \in {"left", "dead"} : Departed(t, how)
    <3>1. PICK how \in {"left", "dead"} : Departed(t, how)
      BY <2>4
    <3>2. /\ phase'[t] \in {"left", "dead"} /\ granted'[t] = {}
          /\ \A u \in Tokens \ {t} : phase'[u] = phase[u] /\ granted'[u] = granted[u]
      BY <1>4, <3>1
    <3>3. RingOf(t)'
      BY <1>0, <2>1, <2>3, <3>2, DepartedRing
    <3> QED
      BY <1>1, <1>3, <2>1, <2>2, <3>2, <3>3
  <2>5. CASE TakeDenial(t) /\ UNCHANGED <<phase, granted>>
    <3>1. call'[t] = NoCall
      BY <2>5 DEF TakeDenial, LockInv, CallerTypes
    <3>2. \A r \in Shards : /\ Touches(t, r)' <=> Touches(t, r)
                            /\ DOMAIN waiting'[r] = Waiters(r)
      BY <2>1 DEF lockVars, Touches, Waiters, Leased
    <3>3. WaitsAtTheLast(t)'
      BY <1>0, <3>2 DEF RingOf, WaitsAtTheLast, Waiters
    <3>4. AsksInOrder(t)' /\ AsksTheNext(t)'
      BY <3>1 DEF AsksInOrder, AsksTheNext, IsOnTheWay, NoCall
    <3>5. TouchesNoLater(t)'
      BY <1>0, <2>5, <3>2 DEF RingOf, TouchesNoLater, IsActive
    <3>6. WaitsForNoGrant(t)'
      BY <1>0, <2>5, <3>1, <3>2 DEF RingOf, WaitsForNoGrant, NoCall, Waiters
    <3>7. RingOf(t)'
      BY <3>3, <3>4, <3>5, <3>6 DEF RingOf
    <3> QED
      BY <1>1, <1>3, <2>1, <2>2, <2>5, <3>7
  <2> QED
    BY <1>7, <2>4, <2>5 DEF TakeDenial, GiveUp, Exit, Die, Leave
<1>8. ASSUME NEW t \in Tokens, Renewal(t) \/ Delivery(t)
      PROVE  RingInv'
  <2>1. round[t].unanswered \subseteq Shards /\ late[t] \subseteq Shards /\ releases[t] \subseteq Shards
    BY DEF LockInv, CallerTypes
  <2>2. UNCHANGED <<phase, granted, call>>
    BY <1>8 DEF Renewal, Delivery, StartRound, RenewArrives, CloseRound, ReleaseArrives, LateRenewArrives
  <2>3. \/ \E s \in Shards : Renew(s, t) \/ Release(s, t)
        \/ UNCHANGED lockVars
    BY <1>8, <2>1 DEF Renewal, Delivery, StartRound, RenewArrives, CloseRound, ReleaseArrives,
                      LateRenewArrives
  <2>4. \A u \in Tokens : TouchesNoMore(u, Shards)
    BY <2>3, OtherStepsTouch
  <2> QED
    BY <1>2, <2>2, <2>4
<1>9. ASSUME NEW s \in Shards, ExpireShard(s)
      PROVE  RingInv'
  <2>1. Expire(s) /\ UNCHANGED <<phase, granted, call>>
    BY <1>9 DEF ExpireShard, callerVars
  <2> QED
    BY <1>2, <2>1, OtherStepsTouch
<1>10. ASSUME Tick
       PROVE  RingInv'
  <2>1. LockTick /\ UNCHANGED <<phase, granted>>
    BY <1>10 DEF Tick
  <2>2. ASSUME NEW u \in Tokens
        PROVE  call'[u].at = call[u].at /\ call'[u].shard = call[u].shard
    <3>1. call[u] \in [at : Places, shard : 0..NumShards, time : Nat]
      BY DEF LockInv, CallerTypes
    <3>2. \/ call'[u] = [call[u] EXCEPT !.time = Older(@)]
          \/ call'[u] = [call[u] EXCEPT !.time = Less(@)]
          \/ call'[u] = call[u]
      BY <1>10 DEF Tick
    <3> QED
      BY <3>1, <3>2
  <2> QED
    BY <1>2, <2>1, <2>2, OtherStepsTouch
<1>11. UNCHANGED vars => RingInv'
  <2> SUFFICES ASSUME UNCHANGED vars PROVE RingInv'
    OBVIOUS
  <2>1. UNCHANGED lockVars /\ UNCHANGED <<phase, granted, call>>
    BY DEF vars, callerVars
  <2> QED
    BY <1>2, <1>3, <2>1
<1> QED
  BY <1>5, <1>6, <1>7, <1>8, <1>9, <1>10, <1>11 DEF Next, CallStep

LEMMA RingInit == Init => RingInv
<1> SUFFICES ASSUME Init PROVE RingInv
  OBVIOUS
<1>1. \A s \in Shards : Leased(s) = {} /\ Waiters(s) = {}
  BY DEF Init, LockInit, Leased, Waiters
<1>2. \A t \in Tokens : call[t].at = "none" /\ granted[t] = {}
  BY DEF Init, NoCall
<1> QED
  BY <1>1, <1>2 DEF RingInv, RingOf, WaitsAtTheLast, AsksInOrder, AsksTheNext, TouchesNoLater,
                    WaitsForNoGrant, Touches, IsOnTheWay

LEMMA RingAlways == Spec => []RingInv
<1>1. LockInv /\ ActorsInv /\ ActorsInv' /\ RingInv /\ [Next]_vars => RingInv'
  BY RingStep DEF ActorsInv
<1> QED
  BY RingInit, LockInvAlways, ActorsAlways, <1>1, PTL DEF Spec

LEMMA NoRing ==
  ASSUME ActorsInv, RingInv
  PROVE  NoWaitRing
<1> SUFFICES ASSUME NEW S \in SUBSET Tokens, S # {},
                    \A t \in S : \E u \in S : <<t, u>> \in WaitsFor
             PROVE  FALSE
  BY DEF NoWaitRing
<1>0. ActorInv /\ QueueInv
  BY DEF ActorsInv
<1>1. ASSUME NEW t \in S
      PROVE  \E u \in S : \E n \in Wants[t] :
               /\ n \in Names /\ t \in Waiters(ShardOf[n]) /\ ShardOf[n] \in Shards
               /\ u = holder[n] \/ u \in Ahead(t, n)
  <2>1. PICK u \in S : <<t, u>> \in WaitsFor
    OBVIOUS
  <2>2. PICK n \in Wants[t] : t \in Waiters(ShardOf[n]) /\ (u = holder[n] \/ u \in Ahead(t, n))
    BY <2>1 DEF WaitsFor
  <2>3. n \in Names /\ ShardOf[n] \in Shards
    BY LockManagerAssumption
  <2> QED
    BY <2>2, <2>3
(* The last shard that one of them waits at.                               *)
<1>2. PICK s \in Shards :
        /\ \E t \in S : t \in Waiters(s)
        /\ \A r \in Shards : \A t \in S : t \in Waiters(r) => r <= s
  <2> DEFINE W == {r \in Shards : \E t \in S : t \in Waiters(r)}
             D == {NumShards - r : r \in W}
  <2>1. W # {}
    BY <1>1
  <2>2. NumShards \in Nat /\ W \subseteq 1..NumShards
    BY LockManagerAssumption DEF Shards
  <2> HIDE DEF W
  <2>3. D \in SUBSET Nat /\ D # {}
    <3>1. \A r \in W : NumShards - r \in Nat
      <4> TAKE r \in W
      <4>1. r \in 1..NumShards
        BY <2>2
      <4> QED
        BY <2>2, <4>1
    <3> QED
      BY <2>1, <3>1
  <2> HIDE DEF D
  <2>4. PICK d \in D : \A e \in D : d <= e
    BY <2>3, LeastNumber
  <2>5. PICK s \in W : d = NumShards - s
    BY <2>4 DEF D
  <2>6. \A r \in W : r <= s
    <3> TAKE r \in W
    <3>1. NumShards - r \in D
      BY DEF D
    <3>2. d <= NumShards - r /\ r \in 1..NumShards /\ s \in 1..NumShards
      BY <2>2, <2>4, <3>1
    <3> QED
      BY <2>2, <2>5, <3>2
  <2> QED
    BY <2>5, <2>6 DEF W
<1>3. PICK top \in Nat : \E rank : IsOrder(s, rank, top)
  BY <1>0 DEF QueueInv
<1>4. PICK rank : IsOrder(s, rank, top)
  BY <1>3
<1>5. rank \in [Tokens -> Nat]
  BY <1>4 DEF IsOrder
(* The first to arrive of those that wait there.                           *)
<1>6. PICK t \in S : /\ t \in Waiters(s)
                     /\ \A u \in S : u \in Waiters(s) => rank[t] <= rank[u]
  <2> DEFINE R == {rank[t] : t \in S \cap Waiters(s)}
  <2>1. R \in SUBSET Nat /\ R # {}
    BY <1>2, <1>5
  <2> HIDE DEF R
  <2>2. PICK k \in R : \A m \in R : k <= m
    BY <2>1, LeastNumber
  <2> QED
    BY <2>2 DEF R
<1>7. PICK u \in S, n \in Wants[t] :
        /\ n \in Names /\ t \in Waiters(ShardOf[n]) /\ ShardOf[n] \in Shards
        /\ u = holder[n] \/ u \in Ahead(t, n)
  BY <1>1
<1>8. \A r \in Shards : r \in Int
  BY LockManagerAssumption DEF Shards
<1>9. ShardOf[n] = s
  <2>1. WaitsAtTheLast(t)
    BY DEF RingInv, RingOf
  <2>2. s <= ShardOf[n] /\ ShardOf[n] <= s
    BY <1>6, <1>7, <2>1 DEF WaitsAtTheLast, Touches
  <2> QED
    BY <1>7, <1>8, <2>2
<1>10. CASE u = holder[n]
  <2>1. u \in Leased(s)
    BY <1>0, <1>7, <1>9, <1>10, QueuesAre, LeaseTimes
  <2>2. PICK r \in Shards : u \in Waiters(r)
    BY <1>1
  <2>3. s <= r
    BY <2>1, <2>2 DEF RingInv, RingOf, WaitsAtTheLast, Touches
  <2>4. r = s
    BY <1>2, <1>8, <2>2, <2>3
  <2> QED
    BY <1>0, <2>1, <2>2, <2>4, QueuesAre
<1>11. CASE u \in Ahead(t, n)
  <2>1. n \in Part(t, s)
    BY <1>9 DEF Part
  <2>2. IsIn(t, queues[n])
    BY <1>0, <1>6, <1>7, <1>9, <2>1, QueuesAre
  <2>3. IsIn(u, queues[n])
    <3>1. u \in ToSet(queues[n]) /\ DOMAIN queues[n] = 1..Len(queues[n])
      BY <1>0, <1>7, <1>11, QueuesAre DEF Ahead
    <3> QED
      BY <3>1 DEF ToSet, IsIn
  <2>4. u \in Waiters(s)
    BY <1>0, <1>7, <1>9, <2>3, QueuesAre
  <2>5. rank[u] < rank[t]
    BY <1>0, <1>4, <1>7, <1>9, <1>11, <2>2, <2>3, AheadIs
  <2> QED
    BY <1>5, <1>6, <2>4, <2>5
<1> QED
  BY <1>7, <1>10, <1>11

(* Callers never wait for each other in a ring: each waits at the last     *)
(* shard it touches, and in a shard only for who holds or came before.     *)
THEOREM NobodyWaitsInARing == Spec => []NoWaitRing
<1>1. ActorsInv /\ RingInv => NoWaitRing
  BY NoRing
<1> QED
  BY ActorsAlways, RingAlways, <1>1, PTL
=============================================================================
