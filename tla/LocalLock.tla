----------------------------- MODULE LocalLock -----------------------------
(***************************************************************************)
(* kv_local_lock and async_kv_local_lock (transfer_queue/kv_lock.py): the  *)
(* locks on keys that the threads and tasks of one process take from each  *)
(* other.  A key is handed on to its first waiter when it is released, and *)
(* the waiter hears of it later; in between it may time out, be cancelled, *)
(* or lose its event loop.                                                 *)
(*                                                                         *)
(* A thread is a caller on a loop of its own, which never closes.          *)
(***************************************************************************)
EXTENDS Naturals, Sequences, FiniteSetsExt, SequencesExt

CONSTANTS
  Callers,
  LoopOf      \* caller -> its event loop

VARIABLES
  table,      \* held key -> those who wait for it, in order (_table)
  granted,    \* callers that were handed the key they wait for
  locker,     \* caller -> where it is in a lock block
  closed      \* event loops that are closed

Out == [pc |-> "out", todo |-> << >>, got |-> {}]

LockInit == table = << >> /\ granted = {} /\ locker = [c \in Callers |-> Out]

Runs(c)   == LoopOf[c] \notin closed
At(c, pc) == locker[c].pc = pc
Wanted(c) == Head(locker[c].todo)

-----------------------------------------------------------------------------
(* The queue from the first waiter whose loop can still be woken.          *)
Queue(k) ==
  LET live == {i \in DOMAIN table[k] : Runs(table[k][i])}
  IN  IF live = {} THEN << >> ELSE SubSeq(table[k], Min(live), Len(table[k]))

(* _release of some keys: each goes to its first waiter, or is free.       *)
Release(keys, others) ==
  LET left == {k \in keys : Queue(k) # << >>}
  IN  /\ table' = [k \in (DOMAIN table \ keys) \cup left |-> IF k \in keys THEN Tail(Queue(k)) ELSE table[k]]
      /\ granted' = others \cup {Head(Queue(k)) : k \in left}

(* A mutant: the keys are taken as they are named.                         *)
OrderAsNamed(named) == named

(* _lock_names: two blocks that name the same keys take them in one order. *)
Order(named) == SetToSortSeq(ToSet(named), <)

Enter(c, named) ==
  /\ Runs(c) /\ At(c, "out")
  /\ locker' = [locker EXCEPT ![c] = [pc |-> "taking", todo |-> Order(named), got |-> {}]]
  /\ UNCHANGED <<table, granted>>

Acquired(c) ==
  [pc |-> "taking", todo |-> Tail(locker[c].todo), got |-> locker[c].got \cup {Wanted(c)}]

(* _take_or_queue, until the keys are all taken.                           *)
Take(c) ==
  /\ Runs(c) /\ At(c, "taking")
  /\ IF locker[c].todo = << >>
     THEN locker' = [locker EXCEPT ![c].pc = "in"] /\ UNCHANGED table
     ELSE LET k == Wanted(c)
          IN  IF k \in DOMAIN table
              THEN /\ table' = [table EXCEPT ![k] = Append(@, c)]
                   /\ locker' = [locker EXCEPT ![c].pc = "waiting"]
              ELSE /\ table' = [x \in DOMAIN table \cup {k} |-> IF x = k THEN << >> ELSE table[x]]
                   /\ locker' = [locker EXCEPT ![c] = Acquired(c)]
  /\ UNCHANGED granted

Woken(c) ==
  /\ Runs(c) /\ c \in granted
  /\ granted' = granted \ {c}
  /\ locker' = [locker EXCEPT ![c] = Acquired(c)]
  /\ UNCHANGED table

(* _settle: one that does not own its key leaves the queue, if it is still *)
(* there, and all that it acquired.                                        *)
GiveUp(c) ==
  /\ table' = [k \in DOMAIN table |-> RemoveFirst(table[k], c)]
  /\ UNCHANGED granted

(* The time is up.  A key that was granted meanwhile is kept.              *)
Timeout(c) ==
  /\ Runs(c) /\ At(c, "waiting")
  /\ IF c \in granted
     THEN /\ granted' = granted \ {c}
          /\ locker' = [locker EXCEPT ![c] = Acquired(c)]
          /\ UNCHANGED table
     ELSE GiveUp(c) /\ locker' = [locker EXCEPT ![c].pc = "leaving"]

(* A mutant: whether the key was granted is not looked at.                 *)
CancelBlindly(c) == GiveUp(c) /\ locker' = [locker EXCEPT ![c].pc = "leaving"]

(* Cancelled while it waits: a key that was granted meanwhile is passed on.*)
Cancelled(c) ==
  /\ IF c \in granted THEN Release({Wanted(c)}, granted \ {c}) ELSE GiveUp(c)
  /\ locker' = [locker EXCEPT ![c].pc = "leaving"]

CancelWait(c) == Runs(c) /\ At(c, "waiting") /\ Cancelled(c)

(* The body ends, or raises.                                               *)
Exit(c) ==
  /\ Runs(c) /\ At(c, "in")
  /\ locker' = [locker EXCEPT ![c].pc = "leaving"]
  /\ UNCHANGED <<table, granted>>

(* _release_all *)
Leave(c) ==
  /\ Runs(c) /\ At(c, "leaving")
  /\ Release(locker[c].got, granted)
  /\ locker' = [locker EXCEPT ![c] = Out]

(* The coroutine of a task whose loop was closed is collected, and with it *)
(* raised out of its block; its place in a queue keeps it alive.           *)
Collect(c) ==
  /\ ~Runs(c) /\ ~At(c, "out")
  /\ \A k \in DOMAIN table : c \notin ToSet(table[k])
  /\ Release(locker[c].got \cup (IF c \in granted THEN {Wanted(c)} ELSE {}), granted \ {c})
  /\ locker' = [locker EXCEPT ![c] = Out]

-----------------------------------------------------------------------------
Owns(c, k) == k \in locker[c].got \/ (At(c, "waiting") /\ c \in granted /\ Wanted(c) = k)

(* A key in the table has one owner, who took it or was granted it, and a  *)
(* key that is owned is in the table: whatever races the hand-over.        *)
KeysAreOwnedOnce ==
  \A k \in DOMAIN table \cup UNION {locker[c].got : c \in Callers} :
    k \in DOMAIN table /\ \E c \in Callers : Owns(c, k) /\ \A d \in Callers \ {c} : ~Owns(d, k)
=============================================================================
