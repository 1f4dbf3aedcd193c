------------------------------ MODULE Partition ------------------------------
(***************************************************************************)
(* DataPartitionStatus (transfer_queue/controller.py): what the controller *)
(* knows of one partition, and the methods that change it, as operators on *)
(* a record.  The status tensors are kept as the sets of their non-zero    *)
(* cells beside their number of rows; values, dtypes and shapes are left   *)
(* out, and of a field's metadata only which samples it covers is kept.    *)
(***************************************************************************)
EXTENDS Naturals, FiniteSets, FiniteSetsExt

CONSTANTS
  Fields,      \* data field names
  Tasks,       \* consumer task names
  Keys,        \* user-defined keys
  PreAlloc     \* TQ_PRE_ALLOC_SAMPLE_NUM

ASSUME PartitionAssumption ==
  /\ IsFiniteSet(Keys)
  /\ PreAlloc \in Nat \ {0}

PartitionStatus ==
  [rows                : SUBSET Nat,                \* the rows the status tensors have
   production_status   : SUBSET (Nat \X Fields),    \* the ready cells
   field_name_mapping  : SUBSET Fields,             \* the registered columns
   consumption_status  : [Tasks -> SUBSET Nat],     \* the consumed samples
   global_indexes      : SUBSET Nat,                \* added to the partition
   pre_allocated       : SUBSET Nat,                \* reserved, not yet added
   field_metadata      : [Fields -> SUBSET Nat],    \* FieldMeta.global_indexes
   keys_mapping        : SUBSET (Keys \X Nat),
   revert_keys_mapping : SUBSET (Nat \X Keys),
   custom_meta         : SUBSET Nat]                \* samples with user metadata

-----------------------------------------------------------------------------
InRange(st, S) == S \subseteq st.rows

(* A mutant: growing allocates new consumption tensors, and copies none.   *)
GrowForgetting(st, S) ==
  [st EXCEPT
     !.rows = @ \cup UNION {0..i : i \in S},
     !.consumption_status = [t \in Tasks |-> IF InRange(st, S) THEN @[t] ELSE {}]]

(* ensure_samples_capacity: every status tensor grows, with zeros, to the  *)
(* largest index of S.                                                     *)
EnsureSamplesCapacity(st, S) ==
  [st EXCEPT !.rows = @ \cup UNION {0..i : i \in S}]

(* register_pre_allocated_indexes                                          *)
RegisterPreAllocated(st, S) ==
  EnsureSamplesCapacity([st EXCEPT !.pre_allocated = @ \cup S], S)

(* create_partition: a fresh DataPartitionStatus with S pre-allocated.     *)
NewPartition(S) ==
  RegisterPreAllocated(
    [rows |-> 0..(PreAlloc - 1), production_status |-> {}, field_name_mapping |-> {},
     consumption_status |-> [t \in Tasks |-> {}], global_indexes |-> {},
     pre_allocated |-> {}, field_metadata |-> [f \in Fields |-> {}],
     keys_mapping |-> {}, revert_keys_mapping |-> {}, custom_meta |-> {}],
    S)

(* The n lowest indexes of S, or all of them: the one set there is.        *)
(* activate_pre_allocated_indexes(n) and the sequential sampler take it.   *)
Lowest(S, n) ==
  {A \in kSubset(IF n < Cardinality(S) THEN n ELSE Cardinality(S), S) :
     \A i \in A, j \in S \ A : i < j}

(* A mutant: an activated index stays pre-allocated.                       *)
AddKeepingReserve(st, S) == [st EXCEPT !.global_indexes = @ \cup S]

(* What get_metadata(mode = "insert") and kv_retrieve_meta do with the     *)
(* indexes S of a new batch, activated or allocated: they are the          *)
(* partition's now, and no longer pre-allocated.                           *)
AddIndexes(st, S) ==
  [st EXCEPT !.global_indexes = @ \cup S, !.pre_allocated = @ \ S]

(* kv_retrieve_meta(create = True): key k names index idx[k] from now on.  *)
AddKeys(st, idx) ==
  LET S   == {idx[k] : k \in DOMAIN idx}
      new == AddIndexes(st, S)
  IN  EnsureSamplesCapacity(
        [new EXCEPT
          !.keys_mapping = {e \in @ : e[1] \notin DOMAIN idx} \cup {<<k, idx[k]>> : k \in DOMAIN idx},
          !.revert_keys_mapping = {e \in @ : e[1] \notin S} \cup {<<idx[k], k>> : k \in DOMAIN idx}],
        S)

(* A mutant: every key is taken for a new one.                             *)
NoKnownKeys(st) == {}

KnownKeys(st) == {e[1] : e \in st.keys_mapping}

(* kv_retrieve_indexes *)
IndexesOf(st, ks) == {e[2] : e \in {x \in st.keys_mapping : x[1] \in ks}}

-----------------------------------------------------------------------------
(* update_production_status and _update_field_metadata.  Nothing here asks  *)
(* whether the samples belong to the partition.                            *)
UpdateProductionStatus(st, S, fs, ready) ==
  LET cells == S \X fs
      grown == EnsureSamplesCapacity(st, S)
  IN  [grown EXCEPT
        !.field_name_mapping = @ \cup fs,
        !.production_status = IF ready THEN @ \cup cells ELSE @ \ cells,
        !.field_metadata = [f \in Fields |-> IF f \in fs THEN @[f] \cup S ELSE @[f]],
        !.global_indexes = @ \cup S]

(* scan_data_status: the rows whose requested cells are all ready and that *)
(* the task has not consumed.                                              *)
ScanDataStatus(st, fs, t) ==
  IF fs \subseteq st.field_name_mapping
  THEN {i \in st.rows \ st.consumption_status[t] : {i} \X fs \subseteq st.production_status}
  ELSE {}

(* mark_consumed *)
MarkConsumed(st, t, S) ==
  [st EXCEPT !.consumption_status[t] = @ \cup S]

(* reset_consumption for the tasks ts *)
ResetConsumption(st, ts) ==
  [st EXCEPT !.consumption_status = [t \in Tasks |-> IF t \in ts THEN {} ELSE @[t]]]

(* get_consumption_status(mask = True) makes room for every index of the   *)
(* partition before it reads.                                              *)
GetConsumptionStatus(st) ==
  EnsureSamplesCapacity(st, st.global_indexes \cup st.pre_allocated)

-----------------------------------------------------------------------------
(* A mutant: the rows of cleared samples stay ready.                       *)
ZeroNothing(st, S) == st

(* production_status[S, :] = 0.  An index beyond the tensor raises           *)
(* IndexError, and any of the rows before it may have been written.        *)
ZeroRows(st, S) ==
  [st EXCEPT !.production_status = {c \in @ : c[1] \notin S}]

PartlyZeroed(st, S) ==
  {ZeroRows(st, Z) : Z \in SUBSET (S \cap st.rows)}

Remaining(st, S) == st.global_indexes \ S

(* A mutant: the consumption marks are kept.                               *)
ClearedKeepingConsumption(st, S) ==
  [ZeroRows(st, S) EXCEPT
     !.global_indexes = @ \ S,
     !.field_metadata = [f \in Fields |-> IF Remaining(st, S) = {} THEN {} ELSE @[f] \ S],
     !.keys_mapping = {e \in @ : \A r \in st.revert_keys_mapping : r[1] \in S => e[1] # r[2]},
     !.revert_keys_mapping = {r \in @ : r[1] \notin S},
     !.custom_meta = @ \ S]

(* clear_data when every index is in range.  field_metadata is emptied     *)
(* altogether when no sample is left.                                      *)
Cleared(st, S) ==
  [ZeroRows(st, S) EXCEPT
     !.consumption_status = [t \in Tasks |-> @[t] \ S],
     !.global_indexes = @ \ S,
     !.field_metadata = [f \in Fields |-> IF Remaining(st, S) = {} THEN {} ELSE @[f] \ S],
     !.keys_mapping = {e \in @ : \A r \in st.revert_keys_mapping : r[1] \in S => e[1] # r[2]},
     !.revert_keys_mapping = {r \in @ : r[1] \notin S},
     !.custom_meta = @ \ S]

(* The outcomes of clear_data, which logs an exception and goes on.        *)
ClearData(st, S) ==
  IF InRange(st, S) THEN {Cleared(st, S)} ELSE PartlyZeroed(st, S)

(* clear_fields: the cells go, the samples stay.                           *)
ClearFields(st, S, fs) ==
  [st EXCEPT
     !.production_status = @ \ (S \X fs),
     !.field_metadata = [f \in Fields |-> IF f \in fs THEN @[f] \ S ELSE @[f]]]

(* set_custom_meta *)
SetCustomMeta(st, S) == [st EXCEPT !.custom_meta = @ \cup S]

-----------------------------------------------------------------------------
(* What a consumer may be handed - a ready cell - is a sample of the        *)
(* partition, in a registered column, within the status tensor, and with   *)
(* a schema: generate_batch_meta describes every field it hands out.       *)
ReadyCellsAreSamples(st) ==
  \A c \in st.production_status :
    /\ c[1] \in st.rows
    /\ c[1] \in st.global_indexes
    /\ c[2] \in st.field_name_mapping
    /\ c[1] \in st.field_metadata[c[2]]

(* An index that is not a sample of the partition carries nothing over to  *)
(* the sample it may become next: no schema, consumption mark or tag.      *)
NothingCarriedOver(st) ==
  /\ \A f \in Fields : st.field_metadata[f] \subseteq st.global_indexes
  /\ \A t \in Tasks : st.consumption_status[t] \subseteq st.global_indexes
  /\ st.custom_meta \subseteq st.global_indexes

(* A key names one sample of the partition, a sample has at most one key,  *)
(* and the two maps are each other's inverse: no two keys share a row.     *)
KeysNameSamples(st) ==
  /\ st.revert_keys_mapping = {<<e[2], e[1]>> : e \in st.keys_mapping}
  /\ \A d, e \in st.keys_mapping : (d[1] = e[1]) <=> (d[2] = e[2])
  /\ \A e \in st.keys_mapping : e[2] \in st.global_indexes

(* The pre-allocated indexes are "not active in this partition"            *)
(* (controller.py:363), or an insert would hand a sample out again as new. *)
ReservedIsInactive(st) == st.global_indexes \cap st.pre_allocated = {}
=============================================================================
