---------------------------- MODULE ClientProcess ----------------------------
(***************************************************************************)
(* The threads and tasks of one process: they take the local locks on      *)
(* their keys (LocalLock), make requests on leased sockets inside and      *)
(* outside of lock blocks (SocketPool), are cancelled, time out, and lose  *)
(* their event loop.  A thread waits for a lock on no loop, and its        *)
(* requests run on the loop of its client (_run_coroutine).                *)
(***************************************************************************)
EXTENDS Naturals, FiniteSets, Sequences, SequencesExt

CONSTANTS
  Callers,
  WaitsOn,    \* caller -> the loop, or the thread, that is woken with a lock
  OwnerOf,    \* caller -> the loop its requests run on
  Blocks,     \* caller -> lists of keys it may name
  Requests,   \* caller -> pools it uses
  Fragile,    \* loops that may be closed with tasks on them
  Nobody, Pools, MaxSize, Budget, Timed

VARIABLES table, granted, locker, socks, line, call, closed

Lock == INSTANCE LocalLock WITH LoopOf <- WaitsOn
Pool == INSTANCE SocketPool

lockVars == <<table, granted, locker>>
poolVars == <<socks, line, call>>
vars == <<lockVars, poolVars, closed>>

ASSUME PoolSizes == MaxSize \in Nat \ {0} /\ Budget \in Nat \ {0}
ASSUME TimedPools == Timed \subseteq Pools
ASSUME CallersAndPools == Nobody \notin Callers /\ \A c \in Callers : Requests[c] \subseteq Pools

Init == Lock!LockInit /\ Pool!PoolInit /\ closed = {}

Locks(A) == A /\ UNCHANGED <<poolVars, closed>>
Sends(A) == A /\ UNCHANGED <<lockVars, closed>>

(* The block of a caller, and where it may end.                            *)
Exits(c) == ~Pool!Calls(c) /\ Locks(Lock!Exit(c))

(* A request is made inside a block or outside of any.                     *)
Calls(c, p) == locker[c].pc \in {"in", "out"} /\ Sends(Pool!Call(c, p))

(* Threads are not cancelled.                                              *)
Task(c) == WaitsOn[c] = OwnerOf[c]

Close(l) ==
  /\ l \notin closed
  /\ closed' = closed \cup {l}
  /\ UNCHANGED <<lockVars, poolVars>>

(* A coroutine leaves its request first, then its lock block.              *)
Collect(c) == ~Pool!Calls(c) /\ Locks(Lock!Collect(c))

Next ==
  \/ \E c \in Callers :
       \/ \E named \in Blocks[c] : ~Pool!Calls(c) /\ Locks(Lock!Enter(c, named))
       \/ Locks(Lock!Take(c))
       \/ Locks(Lock!Woken(c))
       \/ Locks(Lock!Timeout(c))
       \/ Task(c) /\ Locks(Lock!CancelWait(c))
       \/ Exits(c)
       \/ Locks(Lock!Leave(c))
       \/ Collect(c)
       \/ \E p \in Requests[c] : Calls(c, p)
       \/ Sends(Pool!Lease(c))
       \/ Sends(Pool!Receive(c))
       \/ Sends(Pool!TimeOut(c))
       \/ Task(c) /\ Sends(Pool!CancelCall(c))
       \/ Sends(Pool!CollectCall(c))
  \/ \E s \in DOMAIN socks : Sends(Pool!Reply(s))
  \/ \E l \in Fragile : Close(l)

(* What a caller does once it can: its loop runs what is ready, its timers *)
(* fire, a peer answers that is not timed, and the coroutine that nothing *)
(* refers to is collected.                                                 *)
Goes(c) ==
  \/ Locks(Lock!Take(c)) \/ Locks(Lock!Woken(c)) \/ Locks(Lock!Leave(c)) \/ Collect(c)
  \/ Sends(Pool!Lease(c)) \/ Sends(Pool!Receive(c)) \/ Sends(Pool!TimeOut(c)) \/ Sends(Pool!CollectCall(c))
  \/ \E s \in Pool!Held(c) : socks[s].pool \notin Timed /\ Sends(Pool!Reply(s))

(* A block makes so many requests, and ends.                               *)
Fairness == \A c \in Callers : WF_vars(Goes(c)) /\ SF_vars(Exits(c))

Spec == Init /\ [][Next]_vars /\ Fairness

-----------------------------------------------------------------------------
(* A key of the local lock has one owner, whatever races its hand-over: a  *)
(* timeout, a cancellation, or the end of the waiter's loop.               *)
KeysAreOwnedOnce == Lock!KeysAreOwnedOnce

(* A reply goes to the caller whose request it answers.                    *)
RepliesAreOwn == Pool!RepliesAreOwn

(* No more than MaxSize sockets are open to a peer from one loop.          *)
SocketsStayBounded == Pool!SocketsStayBounded

(* A caller that comes for keys or for a permit is done in the end: what   *)
(* others hold is given back, by those as well that were cancelled, timed  *)
(* out or lost their loop.                                                 *)
EveryoneGetsThrough ==
  \A c \in Callers :
    /\ (locker[c].pc # "out") ~> (locker[c].pc = "out")
    /\ Pool!Calls(c) ~> ~Pool!Calls(c)
=============================================================================
