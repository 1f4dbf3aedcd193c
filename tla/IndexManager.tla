---------------------------- MODULE IndexManager ----------------------------
(***************************************************************************)
(* PartitionIndexManager (transfer_queue/controller.py): the controller's  *)
(* allocator of global indexes.  A global index names one sample over the  *)
(* whole system; storage units are addressed by it, so two samples that    *)
(* share one would overwrite each other.                                   *)
(***************************************************************************)
EXTENDS Naturals, FiniteSets, Sequences, SequencesExt

CONSTANTS
  Partitions,     \* partition ids clients may use
  MaxIndexes      \* bound: the counter never passes it

ASSUME IndexManagerAssumption == MaxIndexes \in Nat

VARIABLES
  partition_to_indexes,   \* partition -> the indexes it owns ({} when it has no entry)
  reusable_indexes,       \* released indexes, first in first out
  global_index_counter,   \* the next index never handed out
  allocated_indexes       \* the set the code keeps of "all active indexes"

imVars == <<partition_to_indexes, reusable_indexes, global_index_counter, allocated_indexes>>

Pooled == ToSet(reusable_indexes)
Owned  == UNION {partition_to_indexes[p] : p \in Partitions}

IMTypeOK ==
  /\ partition_to_indexes \in [Partitions -> SUBSET Nat]
  /\ reusable_indexes \in Seq(Nat)
  /\ global_index_counter \in Nat
  /\ allocated_indexes \in SUBSET Nat

IMInit ==
  /\ partition_to_indexes = [p \in Partitions |-> {}]
  /\ reusable_indexes = <<>>
  /\ global_index_counter = 0
  /\ allocated_indexes = {}

-----------------------------------------------------------------------------
(* How many of n indexes come from the pool, and the new ones that make up *)
(* the rest.                                                               *)
NoReuse(n) == 0   \* a mutant: the pool is never consulted

ReuseCount(n) == IF n < Len(reusable_indexes) THEN n ELSE Len(reusable_indexes)

(* A mutant: off by one.                                                   *)
NewIndexesFromLast(n) ==
  (global_index_counter - 1) .. (global_index_counter + n - ReuseCount(n) - 2)

NewIndexes(n) == global_index_counter .. (global_index_counter + n - ReuseCount(n) - 1)

(* What allocate_indexes(count = n) returns: the oldest of the pool, then  *)
(* a consecutive range of new indexes.                                     *)
Batch(n) == {reusable_indexes[k] : k \in 1..ReuseCount(n)} \cup NewIndexes(n)

(* A mutant: what is reused stays in the pool.                             *)
AllocateKeepingPool(p, n) ==
  /\ global_index_counter + n - ReuseCount(n) <= MaxIndexes
  /\ allocated_indexes' = allocated_indexes \cup NewIndexes(n)
  /\ global_index_counter' = global_index_counter + n - ReuseCount(n)
  /\ partition_to_indexes' = [partition_to_indexes EXCEPT ![p] = @ \cup Batch(n)]
  /\ UNCHANGED reusable_indexes

(* allocate_indexes.  Only the new indexes enter allocated_indexes.        *)
AllocateIndexes(p, n) ==
  /\ global_index_counter + n - ReuseCount(n) <= MaxIndexes
  /\ reusable_indexes' = SubSeq(reusable_indexes, ReuseCount(n) + 1, Len(reusable_indexes))
  /\ allocated_indexes' = allocated_indexes \cup NewIndexes(n)
  /\ global_index_counter' = global_index_counter + n - ReuseCount(n)
  /\ partition_to_indexes' = [partition_to_indexes EXCEPT ![p] = @ \cup Batch(n)]

(* What release_partition and release_indexes do with a set the partition  *)
(* owns; a Python set is listed in any order.                              *)
Release(p, S) ==
  /\ \E s \in SetToSeqs(S) : reusable_indexes' = reusable_indexes \o s
  /\ allocated_indexes' = allocated_indexes \ S
  /\ partition_to_indexes' = [partition_to_indexes EXCEPT ![p] = @ \ S]
  /\ UNCHANGED global_index_counter

ReleasePartition(p) == Release(p, partition_to_indexes[p])

(* release_indexes raises ValueError, before it changes anything, for a    *)
(* set the partition does not own; a partition that owns nothing has no    *)
(* entry, and the call returns.                                            *)
ReleaseIndexes(p, S) ==
  IF S \subseteq partition_to_indexes[p]
  THEN Release(p, S)
  ELSE UNCHANGED imVars

-----------------------------------------------------------------------------
(* No global index is owned by two partitions: every per-sample structure  *)
(* of the controller and of the storage units is keyed by the index alone. *)
OwnersDisjoint ==
  \A p, q \in Partitions :
    p # q => partition_to_indexes[p] \cap partition_to_indexes[q] = {}

(* The pool never offers an index twice, nor one that a partition still    *)
(* owns: whatever the order of releases and allocations, FIFO reuse hands  *)
(* an index to a single owner.                                             *)
PoolIsFree ==
  /\ IsInjective(reusable_indexes)
  /\ Pooled \cap Owned = {}

(* Every index ever handed out is owned or back in the pool: none leaks,   *)
(* and none is used before the counter reaches it.                         *)
IndexesConserved == Pooled \cup Owned = 0..(global_index_counter - 1)

(* allocated_indexes never holds a released index.                         *)
AllocatedAreOwned == allocated_indexes \subseteq Owned

(* The index manager's bookkeeping is a partition of the indexes used.     *)
IMInv ==
  /\ OwnersDisjoint
  /\ PoolIsFree
  /\ IndexesConserved
  /\ AllocatedAreOwned

(* "Track all active indexes" (controller.py:84): every index a partition  *)
(* owns is in allocated_indexes.  The code does not keep it so: an index   *)
(* that is reused is not entered again (lines 99-110).                     *)
AllocatedTracksActive == Owned \subseteq allocated_indexes
=============================================================================
