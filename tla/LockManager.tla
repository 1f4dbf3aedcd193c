----------------------------- MODULE LockManager -----------------------------
(***************************************************************************)
(* TransferQueueLockManager (transfer_queue/lock_manager.py): the actors   *)
(* that hold leased locks on names.  A name belongs to one actor, a shard, *)
(* so what the code keeps per actor and name is kept here per name.  An    *)
(* actor runs on one event loop: between two awaits a handler is one step. *)
(*                                                                         *)
(* Time is counted in ticks, by counters that stop at zero: the time left  *)
(* of a lease, of an entry of the heap and of the timer, and the time since*)
(* a waiter was last seen.  What is due may be handled late.  The window of*)
(* an acquire may end at any time, which stands for an actor with no slot  *)
(* left too (it answers at once); the tombstones do not expire here, nor   *)
(* does the number of shards change.                                       *)
(***************************************************************************)
EXTENDS Integers, FiniteSets, FiniteSetsExt, Sequences, SequencesExt

CONSTANTS
  Names,            \* the <<partition_id, key>> pairs to lock
  Tokens,           \* one per kv_global_lock call
  NumShards,        \* TQ_KV_GLOBAL_LOCK_NUM_SHARDS
  ShardOf,          \* name -> the shard its hash picks
  Wants,            \* token -> the names it is to lock
  LeaseTime,        \* token -> its lease_s
  MaxLease,         \* the longest of them, at which clocks stop counting
  AbandonedAfter,   \* _ABANDONED_S
  Nobody            \* no token

Shards == 1..NumShards
Never  == MaxLease + 1

ASSUME LockManagerAssumption ==
  /\ IsFiniteSet(Tokens) /\ Tokens # {} /\ Nobody \notin Tokens
  /\ NumShards \in Nat \ {0}
  /\ ShardOf \in [Names -> Shards]
  /\ Wants \in [Tokens -> (SUBSET Names) \ {{}}]
  /\ MaxLease \in Nat
  /\ LeaseTime \in [Tokens -> 1..MaxLease]
  /\ AbandonedAfter \in Nat

VARIABLES
  holder,      \* name -> the token that holds it, or Nobody
  leases,      \* shard -> token -> the time left of its lease
  expiries,    \* shard -> the heap: the <<time left, token>> pairs
  timer,       \* shard -> the time until _expire runs, or Never
  queues,      \* name -> the waiting tokens in arrival order
  waiting,     \* shard -> token -> the time since its last call ended
  parked,      \* shard -> the tokens with an acquire call inside the actor
  withdrawn    \* shard -> the tokens whose acquire is to be turned away

lockVars == <<holder, leases, expiries, timer, queues, waiting, parked, withdrawn>>

(* What t asks of shard s, and the shards it asks.                         *)
Part(t, s)  == {n \in Wants[t] : ShardOf[n] = s}
ShardsOf(t) == {ShardOf[n] : n \in Wants[t]}

Leased(s)   == DOMAIN leases[s]
Waiters(s)  == DOMAIN waiting[s]

PartialFunctions(D, R) == UNION {[S -> R] : S \in SUBSET D}

LockTypeOK ==
  /\ holder \in [Names -> Tokens \cup {Nobody}]
  /\ leases \in [Shards -> PartialFunctions(Tokens, 0..MaxLease)]
  /\ expiries \in [Shards -> SUBSET ((0..MaxLease) \X Tokens)]
  /\ timer \in [Shards -> 0..Never]
  /\ queues \in [Names -> Seq(Tokens)]
  /\ waiting \in [Shards -> PartialFunctions(Tokens, 0..(AbandonedAfter + 1))]
  /\ parked \in [Shards -> SUBSET Tokens]
  /\ withdrawn \in [Shards -> SUBSET Tokens]

LockInit ==
  /\ holder = [n \in Names |-> Nobody]
  /\ leases = [s \in Shards |-> <<>>]
  /\ expiries = [s \in Shards |-> {}]
  /\ timer = [s \in Shards |-> Never]
  /\ queues = [n \in Names |-> <<>>]
  /\ waiting = [s \in Shards |-> <<>>]
  /\ parked = [s \in Shards |-> {}]
  /\ withdrawn = [s \in Shards |-> {}]

-----------------------------------------------------------------------------
(* Functions without, and with, an argument.                               *)
Without(f, S)  == [x \in DOMAIN f \ S |-> f[x]]
WithAll(f, S, e(_)) == [x \in DOMAIN f \cup S |-> IF x \in S THEN e(x) ELSE f[x]]

(* A waiter without a call in flight for too long is taken for dead.       *)
IsAbandoned(s, t) == t \notin parked[s] /\ waiting[s][t] > AbandonedAfter

(* A queue without the tokens that are gone.                               *)
Remaining(q, gone) ==
  LET kept[i \in 0..Len(q)] ==
        IF i = 0 THEN <<>>
        ELSE IF q[i] \in gone THEN kept[i - 1] ELSE Append(kept[i - 1], q[i])
  IN  kept[Len(q)]

(* t is the first token in the queue of n that is not gone.                *)
IsFirst(t, n, gone) ==
  \E i \in DOMAIN queues[n] :
    queues[n][i] = t /\ \A j \in 1..(i - 1) : queues[n][j] \in gone

-----------------------------------------------------------------------------
(* _hand_off, when the leases of the tokens `freed` end and the waiters    *)
(* `left` leave: of the names these had, each free one is offered to the   *)
(* head of its queue.  The result does not depend on the order in which    *)
(* the code takes the names.                                               *)
Looked(s, freed, gone) == UNION {Part(t, s) : t \in freed \cup gone}

IsFree(n, freed) == holder[n] \in freed \cup {Nobody}

(* Abandoned waiters that head such a queue leave all of theirs, which     *)
(* have new heads then.                                                    *)
Gone(s, freed, left) ==
  LET skipped[k \in 0..Cardinality(Tokens)] ==
        IF k = 0 THEN left
        ELSE LET gone == skipped[k - 1]
             IN  gone \cup {t \in Waiters(s) \ gone :
                              /\ IsAbandoned(s, t)
                              /\ \E n \in Looked(s, freed, gone) :
                                   IsFree(n, freed) /\ IsFirst(t, n, gone)}
  IN  skipped[Cardinality(Tokens)]

(* A mutant: a waiter is granted all its names once it heads their queues  *)
(* and one of them is free.                                                *)
GrantedWithoutAll(s, freed, left) ==
  LET gone == Gone(s, freed, left)
  IN  {t \in Waiters(s) \ gone :
         /\ \E n \in Part(t, s) \cap Looked(s, freed, gone) : IsFree(n, freed)
         /\ \A n \in Part(t, s) : IsFirst(t, n, gone)}

(* A waiter is granted its names when all are free and it heads all of     *)
(* their queues.                                                           *)
Granted(s, freed, left) ==
  LET gone == Gone(s, freed, left)
  IN  {t \in Waiters(s) \ gone :
         /\ Part(t, s) \cap Looked(s, freed, gone) # {}
         /\ \A n \in Part(t, s) : IsFree(n, freed) /\ IsFirst(t, n, gone)}

(* The entries that grants push.                                           *)
Entries(granted) == {<<LeaseTime[t], t>> : t \in granted}
Earliest(S)      == Min({Never} \cup {e[1] : e \in S})

(* A mutant: the timer is set only when none is.                           *)
ArmedWhenIdle(s, granted) == IF timer[s] = Never THEN Earliest(Entries(granted)) ELSE timer[s]

(* The timer, after these grants: no later than the end of their leases.   *)
Armed(s, granted) == Min({timer[s], Earliest(Entries(granted))})

(* The part of the state that a hand-off changes, the timer left aside;    *)
(* `entries` is what is left of the heap.                                  *)
HandOff(s, freed, left, entries) ==
  LET granted == Granted(s, freed, left)
      gone    == Gone(s, freed, left) \cup granted
  IN  /\ holder' = [n \in Names |->
                      IF ShardOf[n] # s THEN holder[n]
                      ELSE IF \E t \in granted : n \in Part(t, s)
                           THEN CHOOSE t \in granted : n \in Part(t, s)
                      ELSE IF holder[n] \in freed THEN Nobody ELSE holder[n]]
      /\ queues' = [n \in Names |->
                      IF ShardOf[n] = s THEN Remaining(queues[n], gone) ELSE queues[n]]
      /\ waiting' = [waiting EXCEPT ![s] = Without(@, gone)]
      /\ leases' = [leases EXCEPT ![s] =
                      WithAll(Without(@, freed), granted, LAMBDA t : LeaseTime[t])]
      /\ expiries' = [expiries EXCEPT ![s] = entries \cup Entries(granted)]

-----------------------------------------------------------------------------
(* acquire, from its call to its await or its return.                      *)
IsKnown(s, t) == t \in withdrawn[s] \cup Leased(s)

(* A mutant: a newcomer looks at the holders only.                         *)
IsUnclaimedByHolder(n) == holder[n] = Nobody

(* No one holds the name or waits for it.                                  *)
IsUnclaimed(n) == holder[n] = Nobody /\ queues[n] = <<>>

(* A withdrawn token is turned away, and a leased one has its answer.      *)
AnswerAtOnce(s, t) ==
  /\ IsKnown(s, t)
  /\ UNCHANGED lockVars

GrantAtOnce(s, t) ==
  /\ ~IsKnown(s, t) /\ t \notin Waiters(s)
  /\ \A n \in Part(t, s) : IsUnclaimed(n)
  /\ holder' = [n \in Names |-> IF n \in Part(t, s) THEN t ELSE holder[n]]
  /\ leases' = [leases EXCEPT ![s] = WithAll(@, {t}, LAMBDA u : LeaseTime[u])]
  /\ expiries' = [expiries EXCEPT ![s] = @ \cup Entries({t})]
  /\ timer' = [timer EXCEPT ![s] = Armed(s, {t})]
  /\ UNCHANGED <<queues, waiting, parked, withdrawn>>

Enqueue(s, t) ==
  /\ ~IsKnown(s, t) /\ t \notin Waiters(s)
  /\ \E n \in Part(t, s) : ~IsUnclaimed(n)
  /\ queues' = [n \in Names |-> IF n \in Part(t, s) THEN Append(queues[n], t) ELSE queues[n]]
  /\ waiting' = [waiting EXCEPT ![s] = WithAll(@, {t}, LAMBDA u : 0)]
  /\ parked' = [parked EXCEPT ![s] = @ \cup {t}]
  /\ UNCHANGED <<holder, leases, expiries, timer, withdrawn>>

(* A further call of a waiter keeps its place.                             *)
WaitAgain(s, t) ==
  /\ ~IsKnown(s, t) /\ t \in Waiters(s)
  /\ parked' = [parked EXCEPT ![s] = @ \cup {t}]
  /\ UNCHANGED <<holder, leases, expiries, timer, queues, waiting, withdrawn>>

Acquire(s, t) ==
  \/ AnswerAtOnce(s, t)
  \/ GrantAtOnce(s, t)
  \/ Enqueue(s, t)
  \/ WaitAgain(s, t)

(* acquire, after its await: the waiter is done or its window has ended.   *)
EndWait(s, t) ==
  /\ t \in parked[s]
  /\ parked' = [parked EXCEPT ![s] = @ \ {t}]
  /\ waiting' = [waiting EXCEPT ![s] =
                   [u \in DOMAIN @ |-> IF u = t THEN 0 ELSE @[u]]]
  /\ UNCHANGED <<holder, leases, expiries, timer, queues, withdrawn>>

(* renew_many, for one token.                                              *)
IsAlive(s, t) == t \in Leased(s) /\ leases[s][t] > 0

Renew(s, t) ==
  /\ leases' = [leases EXCEPT ![s] =
                  [u \in DOMAIN @ |-> IF u = t /\ IsAlive(s, t) THEN LeaseTime[t] ELSE @[u]]]
  /\ expiries' = [expiries EXCEPT ![s] =
                    IF IsAlive(s, t) THEN @ \cup Entries({t}) ELSE @]
  /\ UNCHANGED <<holder, timer, queues, waiting, parked, withdrawn>>

(* release: a lease is freed; a waiter leaves, and whoever has no lease    *)
(* here leaves a tombstone.                                                *)
ReleaseLease(s, t) ==
  /\ t \in Leased(s)
  /\ HandOff(s, {t}, {}, expiries[s])
  /\ timer' = [timer EXCEPT ![s] = Armed(s, Granted(s, {t}, {}))]
  /\ UNCHANGED <<parked, withdrawn>>

(* A mutant: who leaves does not hand the names it was first for on.       *)
WithdrawQuietly(s, t) ==
  /\ t \notin Leased(s)
  /\ queues' = [n \in Names |-> IF ShardOf[n] = s THEN Remove(queues[n], t) ELSE queues[n]]
  /\ waiting' = [waiting EXCEPT ![s] = Without(@, {t})]
  /\ withdrawn' = [withdrawn EXCEPT ![s] = @ \cup {t}]
  /\ UNCHANGED <<holder, leases, expiries, timer, parked>>

Withdraw(s, t) ==
  /\ t \notin Leased(s)
  /\ IF t \in Waiters(s)
     THEN /\ HandOff(s, {}, {t}, expiries[s])
          /\ timer' = [timer EXCEPT ![s] = Armed(s, Granted(s, {}, {t}))]
     ELSE UNCHANGED <<holder, leases, expiries, timer, queues, waiting>>
  /\ withdrawn' = [withdrawn EXCEPT ![s] = @ \cup {t}]
  /\ UNCHANGED parked

Release(s, t) == ReleaseLease(s, t) \/ Withdraw(s, t)

(* _expire: entries that are due are taken off the heap, and each ends the *)
(* lease it is the entry of.                                               *)
Kept(s) == {e \in expiries[s] : e[1] > 0}
Over(s) == {t \in Leased(s) : leases[s][t] = 0 /\ <<0, t>> \in expiries[s]}

(* A mutant: the timer is set again only by the next grant.                *)
ExpireOnce(s) ==
  /\ timer[s] = 0
  /\ HandOff(s, Over(s), {}, Kept(s))
  /\ timer' = [timer EXCEPT ![s] = Earliest(Entries(Granted(s, Over(s), {})))]
  /\ UNCHANGED <<parked, withdrawn>>

Expire(s) ==
  /\ timer[s] = 0
  /\ HandOff(s, Over(s), {}, Kept(s))
  /\ timer' = [timer EXCEPT ![s] = Earliest(expiries'[s])]
  /\ UNCHANGED <<parked, withdrawn>>

(* A mutant: what is over goes on below zero.                              *)
LessForEver(k) == k - 1

(* A tick of the clock of every actor.                                     *)
Less(k) == IF k > 0 THEN k - 1 ELSE 0

LockTick ==
  /\ leases' = [s \in Shards |-> [t \in Leased(s) |-> Less(leases[s][t])]]
  /\ expiries' = [s \in Shards |-> {<<Less(e[1]), e[2]>> : e \in expiries[s]}]
  /\ timer' = [s \in Shards |-> IF timer[s] = Never THEN Never ELSE Less(timer[s])]
  /\ waiting' = [s \in Shards |-> [t \in Waiters(s) |->
                   IF t \in parked[s] THEN waiting[s][t]
                   ELSE Min({waiting[s][t] + 1, AbandonedAfter + 1})]]
  /\ UNCHANGED <<holder, queues, parked, withdrawn>>

-----------------------------------------------------------------------------
(* The safety of an actor.                                                 *)

(* The tokens before t in the queue of n, all of them if t is not there.   *)
Ahead(t, n) ==
  LET q == queues[n]
  IN  {u \in ToSet(q) : \A i \in DOMAIN q : q[i] = t => \E j \in 1..(i - 1) : q[j] = u}

(* A token holds, in the shard, all it asked of it or nothing, and holds   *)
(* it under a lease; a token waits in all of its queues or in none, once   *)
(* in each; and all queues of a shard order their tokens alike, so that    *)
(* the oldest waiter heads all of its queues (_grant, _free, _leave_queues,*)
(* _hand_off, acquire).                                                    *)
QueuesAgree ==
  \A s \in Shards :
    /\ \A n \in Names : ShardOf[n] = s =>
          /\ IsInjective(queues[n])
          /\ ToSet(queues[n]) = {t \in Waiters(s) : n \in Part(t, s)}
          /\ {holder[n]} \ {Nobody} = {t \in Leased(s) : n \in Part(t, s)}
    /\ \A m, n \in Names : ShardOf[m] = s /\ ShardOf[n] = s =>
          \A t, u \in ToSet(queues[m]) \cap ToSet(queues[n]) :
             t \in Ahead(u, m) <=> t \in Ahead(u, n)
    /\ Waiters(s) \cap Leased(s) = {}

(* A lease always has its own entry in the heap, through renewals that     *)
(* leave stale entries behind, and the timer fires no later than the first *)
(* entry: a dead holder's names pass on though every waiter sleeps         *)
(* (_grant, renew_many, _expire).                                          *)
TimerCovers ==
  \A s \in Shards :
    /\ \A t \in Leased(s) : <<leases[s][t], t>> \in expiries[s]
    /\ timer[s] <= Earliest(expiries[s])

(* No wake-up is lost: a waiter that heads all of its queues while all of  *)
(* its names are free has been granted them, whoever freed them, left or   *)
(* was skipped, and in whatever order (_hand_off and its callers).         *)
NoLostGrant ==
  \A s \in Shards, t \in Tokens :
    t \in Waiters(s) =>
      \E n \in Part(t, s) : holder[n] # Nobody \/ Head(queues[n]) # t

(* Nobody waits for nothing: the queues agree, so somebody heads all of    *)
(* his, and whoever could be served has been.                              *)
WaitersAreServed == QueuesAgree /\ NoLostGrant

(* No one barges: a name is granted past an earlier waiter for it only     *)
(* when that one is withdrawn, or taken for dead, in the very step         *)
(* (acquire's test on the queues, _hand_off).                              *)
NoBarging ==
  [][\A s \in Shards, t \in Tokens :
       t \in DOMAIN leases'[s] /\ t \notin Leased(s) =>
         \A n \in Part(t, s) : \A u \in Ahead(t, n) :
           /\ u \notin DOMAIN waiting'[s]
           /\ IsAbandoned(s, u) \/ u \in withdrawn'[s]]_lockVars
=============================================================================
