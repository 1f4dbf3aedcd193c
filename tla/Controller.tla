----------------------------- MODULE Controller -----------------------------
(***************************************************************************)
(* TransferQueueController (transfer_queue/controller.py): its request     *)
(* handlers.  One thread takes every request off the ZMQ socket and runs   *)
(* its handler to the end, so a handler is one atomic action over the      *)
(* index manager and the partitions' status.  A request that is answered   *)
(* without a change of state, or with an error before one, is no step.     *)
(***************************************************************************)
EXTENDS IndexManager, Partition

VARIABLE
  partitions   \* partition id -> DataPartitionStatus

controllerVars == <<imVars, partitions>>

Exists(p) == p \in DOMAIN partitions

ControllerTypeOK ==
  /\ IMTypeOK
  /\ \E D \in SUBSET Partitions : partitions \in [D -> PartitionStatus]

ControllerInit ==
  /\ IMInit
  /\ partitions = [p \in {} |-> NewPartition({})]

-----------------------------------------------------------------------------
(* partitions with p's status replaced, or added.                          *)
With(p, st) ==
  [q \in DOMAIN partitions \cup {p} |-> IF q = p THEN st ELSE partitions[q]]

(* A request for a partition there is not creates it, with PreAlloc        *)
(* indexes set aside.  A batch of n samples activates the lowest of those  *)
(* - the set A - before new indexes are allocated.                         *)
Reserve(p) == IF Exists(p) THEN 0 ELSE PreAlloc

Opened(p) == IF Exists(p) THEN partitions[p] ELSE NewPartition(Batch(PreAlloc))

Activations(p, n) == Lowest(Opened(p).pre_allocated, n)

ToAllocate(p, n, A) == Reserve(p) + (n - Cardinality(A))

NewBatch(p, n, A) == A \cup (Batch(ToAllocate(p, n, A)) \ Batch(Reserve(p)))

(* GET_META, mode "insert".  It does not grow the status tensors.  With    *)
(* n = 0 it only creates the partition.                                    *)
GetMetaInsert(p, n, A) ==
  /\ A \in Activations(p, n)
  /\ AllocateIndexes(p, ToAllocate(p, n, A))
  /\ partitions' = With(p, AddIndexes(Opened(p), NewBatch(p, n, A)))

(* KV_RETRIEVE_META (create) and KV_PREPARE_UPDATE: the keys that name no  *)
(* sample yet are given one each.                                          *)
KvCreate(p, keys, A) ==
  LET n == Cardinality(keys)
  IN  /\ keys \cap KnownKeys(Opened(p)) = {}
      /\ A \in Activations(p, n)
      /\ AllocateIndexes(p, ToAllocate(p, n, A))
      /\ \E index_of \in Bijection(keys, NewBatch(p, n, A)) :
           partitions' = With(p, AddKeys(Opened(p), index_of))

(* NOTIFY_DATA_UPDATE: only the partition's existence is checked.          *)
NotifyDataUpdate(p, S, fs, ready) ==
  /\ Exists(p)
  /\ partitions' = With(p, UpdateProductionStatus(partitions[p], S, fs, ready))
  /\ UNCHANGED imVars

(* GET_META, mode "fetch", with the sequential sampler: the first n of the *)
(* ready samples, the set B.                                               *)
GetMetaFetch(p, fs, t, n, B) ==
  /\ Exists(p)
  /\ LET found == ScanDataStatus(partitions[p], fs, t)
     IN  Cardinality(found) >= n /\ B \in Lowest(found, n)
  /\ partitions' = With(p, MarkConsumed(partitions[p], t, B))
  /\ UNCHANGED imVars

(* GET_CONSUMPTION *)
GetConsumption(p) ==
  /\ Exists(p)
  /\ partitions' = With(p, GetConsumptionStatus(partitions[p]))
  /\ UNCHANGED imVars

(* RESET_CONSUMPTION for one task or for all.                              *)
Reset(p, ts) ==
  /\ Exists(p)
  /\ partitions' = With(p, ResetConsumption(partitions[p], ts))
  /\ UNCHANGED imVars

(* SET_CUSTOM_META *)
SetMeta(p, S) ==
  /\ Exists(p)
  /\ partitions' = With(p, SetCustomMeta(partitions[p], S))
  /\ UNCHANGED imVars

(* KV_CLEAR_FIELDS *)
KvClearFields(p, keys, fs) ==
  /\ Exists(p)
  /\ LET S    == IndexesOf(partitions[p], keys)
         held == {f \in fs : partitions[p].field_metadata[f] # {}}
     IN  /\ S # {} /\ held # {}
         /\ partitions' = With(p, ClearFields(partitions[p], S, held))
  /\ UNCHANGED imVars

-----------------------------------------------------------------------------
(* MARK_CLEARING: the rows of the samples that are still in the partition  *)
(* are zeroed.  When one lies beyond the tensor the request fails.         *)
MarkClearing(p, S) ==
  /\ Exists(p)
  /\ LET existing == S \cap partitions[p].global_indexes
     IN  IF InRange(partitions[p], existing)
         THEN partitions' = With(p, ZeroRows(partitions[p], existing))
         ELSE \E st \in PartlyZeroed(partitions[p], existing) : partitions' = With(p, st)
  /\ UNCHANGED imVars

(* CLEAR_META: clear_data, then release_indexes, whatever clear_data did.  *)
ClearMeta(p, S) ==
  /\ Exists(p)
  /\ LET existing == S \cap partitions[p].global_indexes
     IN  /\ existing # {}
         /\ \E st \in ClearData(partitions[p], existing) : partitions' = With(p, st)
         /\ ReleaseIndexes(p, existing)

(* A mutant: the reserve of the partition is not released.                 *)
ClearPartitionSamples(p) ==
  /\ Exists(p)
  /\ Release(p, partitions[p].global_indexes)
  /\ partitions' = [q \in DOMAIN partitions \ {p} |-> partitions[q]]

(* CLEAR_PARTITION *)
ClearPartition(p) ==
  /\ Exists(p)
  /\ ReleasePartition(p)
  /\ partitions' = [q \in DOMAIN partitions \ {p} |-> partitions[q]]

-----------------------------------------------------------------------------
(* No request, in any order, makes a consumer be handed a cell that is not *)
(* a sample's: scan_data_status reads the tensors, not global_indexes.     *)
CellsAreMembers == \A p \in DOMAIN partitions : ReadyCellsAreSamples(partitions[p])

(* Clearing samples leaves no trace that the next owner would inherit      *)
(* (clear_data, clear_fields).                                             *)
CleanSlate == \A p \in DOMAIN partitions : NothingCarriedOver(partitions[p])

(* The key maps stay a bijection through creation, reuse of the rows and   *)
(* clearing (kv_retrieve_meta, clear_data).                                *)
KeysAreInjective == \A p \in DOMAIN partitions : KeysNameSamples(partitions[p])

(* An insert never takes a sample of the partition for a new one           *)
(* (activate_pre_allocated_indexes).                                       *)
ReservedAreInactive == \A p \in DOMAIN partitions : ReservedIsInactive(partitions[p])

(* "partition.global_indexes + partition.pre_allocated_global_indexes" is   *)
(* what the index manager records for a partition (controller.py:1137).    *)
OwnershipAgrees ==
  \A p \in Partitions :
    /\ Exists(p) => partition_to_indexes[p]
                     = partitions[p].global_indexes \cup partitions[p].pre_allocated
    /\ ~Exists(p) => partition_to_indexes[p] = {}

(* Taken together: what a partition holds beside its samples' cells is of  *)
(* its samples and of no earlier owner of their indexes, its keys name     *)
(* them one to one and its reserve has none of them.                       *)
SamplesAreSound ==
  CellsAreMembers /\ CleanSlate /\ KeysAreInjective /\ ReservedAreInactive

(* Every index has one owner, or is in the pool once, or was never given   *)
(* out, and its owner is the partition that counts it as its own.          *)
IndexesAreOwned == IMInv /\ OwnershipAgrees
=============================================================================
