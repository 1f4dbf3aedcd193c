----------------------------- MODULE GlobalLock -----------------------------
(***************************************************************************)
(* kv_global_lock (transfer_queue/kv_lock.py): callers that take locks of  *)
(* the shards, one after the other, renew them from a thread and release   *)
(* them, and the calls between the two.  A token stands for one call of    *)
(* kv_global_lock (or of async_kv_global_lock, which takes the same steps),*)
(* with the leases and the renewal rounds of that call.                    *)
(*                                                                         *)
(* Calls may be delayed at will and pass each other: an actor has many     *)
(* slots, so a release may run before the acquire it follows.  None is     *)
(* lost.  Callers and actors read clocks of the same rate.                 *)
(***************************************************************************)
EXTENDS LockManager

CONSTANTS
  Renewers,    \* bound: the tokens whose renewal thread ever gets to run
  Quitters     \* bound: the tokens whose caller may give up or die

ASSUME GlobalLockAssumption == Renewers \subseteq Tokens /\ Quitters \subseteq Tokens

VARIABLES
  phase,       \* token -> "asking", "holding", "left" or "dead"
  call,        \* token -> its acquire call: where it is, its shard, a time
  granted,     \* token -> _granted, the shards that granted it
  pending,     \* token -> _pending, the shards an acquire went to
  deadline,    \* token -> the time to _deadline, or Never
  lost,        \* token -> _lost
  round,       \* token -> the renewal round of its leases
  late,        \* token -> the shards that a renewal of an ended round is on the way to
  releases     \* token -> the shards a release is on the way to

callerVars == <<phase, call, granted, pending, deadline, lost, round, late, releases>>
vars       == <<lockVars, callerVars>>

Places   == {"none", "sent", "parked", "granted", "denied"}
NoCall   == [at |-> "none", shard |-> 0, time |-> 0]
NoRound  == [shards |-> {}, unanswered |-> {}, refused |-> FALSE, age |-> 0]

TypeOK ==
  /\ LockTypeOK
  /\ phase \in [Tokens -> {"asking", "holding", "left", "dead"}]
  /\ call \in [Tokens -> [at : Places, shard : 0..NumShards, time : 0..MaxLease]]
  /\ granted \in [Tokens -> SUBSET Shards]
  /\ pending \in [Tokens -> SUBSET Shards]
  /\ deadline \in [Tokens -> 0..Never]
  /\ lost \in [Tokens -> BOOLEAN]
  /\ round \in [Tokens -> [shards : SUBSET Shards, unanswered : SUBSET Shards,
                           refused : BOOLEAN, age : 0..MaxLease]]
  /\ late \in [Tokens -> SUBSET Shards]
  /\ releases \in [Tokens -> SUBSET Shards]

Init ==
  /\ LockInit
  /\ phase = [t \in Tokens |-> "asking"]
  /\ call = [t \in Tokens |-> NoCall]
  /\ granted = [t \in Tokens |-> {}]
  /\ pending = [t \in Tokens |-> {}]
  /\ deadline = [t \in Tokens |-> Never]
  /\ lost = [t \in Tokens |-> FALSE]
  /\ round = [t \in Tokens |-> NoRound]
  /\ late = [t \in Tokens |-> {}]
  /\ releases = [t \in Tokens |-> {}]

-----------------------------------------------------------------------------
(* The caller leaves the block, or dies.  Its acquire may still be on its  *)
(* way or inside the actor, and its renewals on theirs.                    *)
Departed(t, how) ==
  /\ phase' = [phase EXCEPT ![t] = how]
  /\ granted' = [granted EXCEPT ![t] = {}]
  /\ pending' = [pending EXCEPT ![t] = {}]
  /\ deadline' = [deadline EXCEPT ![t] = Never]
  /\ lost' = [lost EXCEPT ![t] = FALSE]
  /\ round' = [round EXCEPT ![t] = NoRound]
  /\ late' = [late EXCEPT ![t] = @ \cup round[t].unanswered]

Abandoned(c) == IF c.at \in {"sent", "parked"} THEN [c EXCEPT !.time = 0] ELSE NoCall

(* _release_lease: a release goes to every shard an acquire went to.       *)
Leave(t) ==
  /\ Departed(t, "left")
  /\ releases' = [releases EXCEPT ![t] = pending[t]]

(* GlobalLease.check.                                                      *)
CheckFails(isLost, left) == isLost \/ left = 0

(* A mutant: each caller visits the shards in an order of its own.         *)
AnyShards(t) == ShardsOf(t) \ granted[t]

(* The shard that t asks next: every caller visits them in ascending order.*)
NextShards(t) ==
  {s \in ShardsOf(t) \ granted[t] : \A r \in ShardsOf(t) \ granted[t] : s <= r}

(* _send_acquire.                                                          *)
Ask(t) ==
  /\ phase[t] = "asking" /\ call[t] = NoCall
  /\ \E s \in NextShards(t) :
       /\ call' = [call EXCEPT ![t] = [at |-> "sent", shard |-> s, time |-> 0]]
       /\ pending' = [pending EXCEPT ![t] = @ \cup {s}]
  /\ UNCHANGED <<lockVars, phase, granted, deadline, lost, round, late, releases>>

(* A mutant: the lease is taken to begin when its reply is read.           *)
GoodFromNow(left, age) == left

(* How long a grant with `left` to go is good for its caller, who counts   *)
(* from when it sent the call, `age` ago.                                  *)
GoodFromSent(left, age) == IF left > age THEN left - age ELSE 0

(* What the actor replies to the call of t, from its state after the step; *)
(* the reply to a caller that has departed is not read.                    *)
Answer(t) ==
  LET c == call[t]
      s == c.shard
  IN  IF t \in parked'[s] THEN [c EXCEPT !.at = "parked"]
      ELSE IF phase[t] # "asking" THEN NoCall
      ELSE IF t \in DOMAIN leases'[s]
           THEN [c EXCEPT !.at = "granted", !.time = GoodFromSent(leases'[s][t], c.time)]
      ELSE [c EXCEPT !.at = "denied", !.time = 0]

Arrive(t) ==
  /\ call[t].at = "sent"
  /\ Acquire(call[t].shard, t)
  /\ call' = [call EXCEPT ![t] = Answer(t)]
  /\ UNCHANGED <<phase, granted, pending, deadline, lost, round, late, releases>>

Unpark(t) ==
  /\ call[t].at = "parked"
  /\ EndWait(call[t].shard, t)
  /\ call' = [call EXCEPT ![t] = Answer(t)]
  /\ UNCHANGED <<phase, granted, pending, deadline, lost, round, late, releases>>

(* _take_grant, with the check that follows the last grant.                *)
TakeGrant(t) ==
  LET got  == granted[t] \cup {call[t].shard}
      left == Min({deadline[t], call[t].time})
  IN  /\ phase[t] = "asking" /\ call[t].at = "granted"
      /\ call' = [call EXCEPT ![t] = NoCall]
      /\ \/ /\ got = ShardsOf(t) /\ CheckFails(lost[t], left)
            /\ Leave(t)
         \/ /\ ~(got = ShardsOf(t) /\ CheckFails(lost[t], left))
            /\ phase' = [phase EXCEPT ![t] = IF got = ShardsOf(t) THEN "holding" ELSE "asking"]
            /\ granted' = [granted EXCEPT ![t] = got]
            /\ deadline' = [deadline EXCEPT ![t] = left]
            /\ UNCHANGED <<pending, lost, round, late, releases>>
      /\ UNCHANGED lockVars

(* A denial: the caller goes on unless the lease it has so far is lost.    *)
TakeDenial(t) ==
  /\ phase[t] = "asking" /\ call[t].at = "denied"
  /\ call' = [call EXCEPT ![t] = NoCall]
  /\ \/ /\ CheckFails(lost[t], deadline[t])
        /\ Leave(t)
     \/ /\ ~CheckFails(lost[t], deadline[t])
        /\ UNCHANGED <<phase, granted, pending, deadline, lost, round, late, releases>>
  /\ UNCHANGED lockVars

(* The caller gives up: its timeout is over, with its call unanswered or   *)
(* denied, or its task is cancelled.                                       *)
GiveUp(t) ==
  /\ t \in Quitters /\ phase[t] = "asking"
  /\ Leave(t)
  /\ call' = [call EXCEPT ![t] = Abandoned(@)]
  /\ UNCHANGED lockVars

(* The block ends.                                                         *)
Exit(t) ==
  /\ phase[t] = "holding"
  /\ Leave(t)
  /\ UNCHANGED <<lockVars, call>>

(* The process of the caller dies, its renewal thread with it.             *)
Die(t) ==
  /\ t \in Quitters /\ phase[t] \in {"asking", "holding"}
  /\ Departed(t, "dead")
  /\ call' = [call EXCEPT ![t] = Abandoned(@)]
  /\ UNCHANGED <<lockVars, releases>>

ReleaseArrives(t) ==
  /\ \E s \in releases[t] :
       /\ Release(s, t)
       /\ releases' = [releases EXCEPT ![t] = @ \ {s}]
  /\ UNCHANGED <<phase, call, granted, pending, deadline, lost, round, late>>

-----------------------------------------------------------------------------
(* _renew_loop: a round sends a renewal to each shard that has granted,    *)
(* at any pace of the thread.                                              *)
StartRound(t) ==
  /\ t \in Renewers /\ granted[t] # {} /\ round[t] = NoRound
  /\ round' = [round EXCEPT ![t] = [shards |-> granted[t], unanswered |-> granted[t],
                                    refused |-> FALSE, age |-> 0]]
  /\ UNCHANGED <<lockVars, phase, call, granted, pending, deadline, lost, late, releases>>

RenewArrives(t) ==
  /\ \E s \in round[t].unanswered :
       /\ Renew(s, t)
       /\ round' = [round EXCEPT ![t].unanswered = @ \ {s},
                                 ![t].refused = IF IsAlive(s, t) THEN @ ELSE TRUE]
  /\ UNCHANGED <<phase, call, granted, pending, deadline, lost, late, releases>>

LateRenewArrives(t) ==
  /\ \E s \in late[t] :
       /\ Renew(s, t)
       /\ late' = [late EXCEPT ![t] = @ \ {s}]
  /\ UNCHANGED <<phase, call, granted, pending, deadline, lost, round, releases>>

(* A mutant: a shard granted since the snapshot is forgotten.              *)
RenewedOfRound(t) == round[t].unanswered = {}

(* All shards that have granted have renewed.                              *)
RenewedAll(t) == round[t].unanswered = {} /\ granted[t] = round[t].shards

(* The round ends with the last reply or with its period.  One refusal     *)
(* loses the lease, and silence leaves the deadline alone.                 *)
CloseRound(t) ==
  LET r == round[t]
  IN  /\ r # NoRound
      /\ lost' = [lost EXCEPT ![t] = @ \/ r.refused]
      /\ deadline' = [deadline EXCEPT ![t] =
                       IF ~r.refused /\ RenewedAll(t) THEN GoodFromSent(LeaseTime[t], r.age) ELSE @]
      /\ late' = [late EXCEPT ![t] = @ \cup r.unanswered]
      /\ round' = [round EXCEPT ![t] = NoRound]
      /\ UNCHANGED <<lockVars, phase, call, granted, pending, releases>>

-----------------------------------------------------------------------------
ExpireShard(s) == Expire(s) /\ UNCHANGED callerVars

(* One tick of every clock.                                                *)
Older(k) == Min({k + 1, MaxLease})

Tick ==
  /\ LockTick
  /\ call' = [t \in Tokens |->
               LET c == call[t] IN
               CASE c.at \in {"sent", "parked"} /\ phase[t] = "asking" -> [c EXCEPT !.time = Older(@)]
                 [] c.at = "granted" -> [c EXCEPT !.time = Less(@)]
                 [] OTHER -> c]
  /\ deadline' = [t \in Tokens |-> IF deadline[t] = Never THEN Never ELSE Less(deadline[t])]
  /\ round' = [t \in Tokens |-> IF round[t] = NoRound THEN NoRound
                                ELSE [round[t] EXCEPT !.age = Older(@)]]
  /\ UNCHANGED <<phase, granted, pending, lost, late, releases>>

(* The acquire call goes round.                                            *)
CallStep(t) == Ask(t) \/ Arrive(t) \/ Unpark(t) \/ TakeGrant(t) \/ TakeDenial(t)

Renewal(t) == StartRound(t) \/ RenewArrives(t) \/ CloseRound(t)

(* What is still on its way for t, whether it is there or not.             *)
Delivery(t) == ReleaseArrives(t) \/ LateRenewArrives(t)

Next ==
  \/ \E t \in Tokens :
       CallStep(t) \/ Renewal(t) \/ Delivery(t) \/ GiveUp(t) \/ Exit(t) \/ Die(t)
  \/ \E s \in Shards : ExpireShard(s)
  \/ Tick

Spec == Init /\ [][Next]_vars

(* The clock advances and the timers of the actors fire; nothing else need *)
(* ever happen: a call may stay on its way or inside an actor, and a block *)
(* need not end.                                                           *)
Fairness ==
  /\ \A s \in Shards : WF_vars(ExpireShard(s))
  /\ WF_vars(Tick)

FairSpec == Spec /\ Fairness

-----------------------------------------------------------------------------
(* The caller would pass check() for this name: it was granted, its lease  *)
(* is not known lost and its deadline is ahead.                            *)
Believes(t, n) ==
  n \in Wants[t] /\ ShardOf[n] \in granted[t] /\ ~CheckFails(lost[t], deadline[t])

(* No two callers believe at once that they hold a name, whatever was      *)
(* delayed, renewed, expired or died (GlobalLease.check, _take_grant,      *)
(* _renew_loop, acquire, _expire).                                         *)
MutualExclusion ==
  \A n \in Names, t, u \in Tokens : Believes(t, n) /\ Believes(u, n) => t = u

(* A caller's deadline never outlives its lease at any shard that granted  *)
(* it: both _take_grant and _renew_loop count from the time of sending.    *)
DeadlineIsCovered ==
  \A t \in Tokens : deadline[t] # 0 =>
    \A s \in granted[t] : t \in Leased(s) /\ leases[s][t] >= deadline[t]

(* Callers never wait for each other in a ring: no token waits, through    *)
(* tokens that hold a name it wants or are before it in a queue, for       *)
(* itself (the ascending shards of kv_global_lock, and the one arrival     *)
(* order of the queues of an actor).                                       *)
WaitsFor == {p \in Tokens \X Tokens :
              \E n \in Wants[p[1]] :
                /\ p[1] \in Waiters(ShardOf[n])
                /\ p[2] = holder[n] \/ p[2] \in Ahead(p[1], n)}

NoWaitRing ==
  ~ \E S \in (SUBSET Tokens) \ {{}} : \A t \in S : \E u \in S : <<t, u>> \in WaitsFor

(* What a caller that left or died holds, or is granted after that, ends   *)
(* for good, though nobody releases it (_grant's timer, _expire, and the   *)
(* skipping of abandoned waiters by _hand_off).                            *)
DepartedHoldNothing ==
  \A t \in Tokens :
    (phase[t] \in {"left", "dead"}) ~> [](\A s \in Shards : t \notin Leased(s))

(* "Releasing by token also withdraws an acquire that is still waiting or  *)
(* in flight, so a caller that left is never left holding a grant"         *)
(* (kv_lock.py:352).  Not so for an acquire that runs after the release    *)
(* freed a lease: it is granted afresh, until DepartedHoldNothing.         *)
LeftHoldsNothing ==
  \A t \in Tokens : phase[t] = "left" =>
    \A s \in Shards : t \in Leased(s) => s \in releases[t]

(* A request waits behind every earlier one "except one with no call in    *)
(* flight for 10 s: that waiter is skipped as dead" (kv_lock.py:418): no   *)
(* one waits for ever behind a dead waiter for a name that is free.  Not   *)
(* so while the holder of another name that waiter wants renews: hand_off  *)
(* looks only at names that were freed (lock_manager.py:86).               *)
BehindTheDead(t) ==
  /\ phase[t] = "asking"
  /\ \E n \in Wants[t] :
       /\ t \in ToSet(queues[n]) /\ holder[n] = Nobody
       /\ \E u \in Ahead(t, n) :
            u = Head(queues[n]) /\ phase[u] = "dead" /\ IsAbandoned(ShardOf[n], u)

DeadWaitersAreSkipped == \A t \in Tokens : BehindTheDead(t) ~> ~BehindTheDead(t)
=============================================================================
