----------------------------- MODULE HybridUnit ------------------------------
(***************************************************************************)
(* The data of one storage unit and its SSD tier                           *)
(* (storage/simple_storage.py: StorageUnitData, SSDFileStore,              *)
(* HybridStorageUnitData), with the requests of its single worker thread   *)
(* as actions.  A value whose encoded size reaches the threshold is kept   *)
(* as a file of its own.                                                   *)
(***************************************************************************)
EXTENDS Naturals, Sequences, FiniteSets, SequencesExt, TLC

CONSTANTS
  Fields, Indexes,
  Values,          \* values an application puts
  Large,           \* the ones whose encoding reaches ssd_offload.threshold_bytes
  Names,           \* paths of checkpoint manifests
  Size,            \* storage_unit_size
  MaxBatch,        \* bound: rows of one put
  MaxFaults,       \* bound: file operations that fail
  DumpOffloaded    \* whether rows with values on SSD are dumped

ASSUME UnitAssumption ==
  /\ IsFiniteSet(Fields)
  /\ Large \subseteq Values
  /\ {Size, MaxBatch, MaxFaults} \subseteq Nat /\ MaxBatch # 0
  /\ DumpOffloaded \in BOOLEAN

VARIABLES
  hybrid,          \* whether this process runs with SSD offload
  field_data,      \* what is kept for each cell: a value, or a reference to a file
  active_keys,
  files,           \* the content of every file of the unit's directory
  active_values,   \* _ssd_active_values
  lost,            \* files whose unlink failed
  saved,           \* the checkpoint at each path
  dump,            \* the records of the last DUMP_ROWS
  faults

hybridVars == <<hybrid, field_data, active_keys, files, active_values, lost, saved, dump, faults>>

-----------------------------------------------------------------------------
Cells == Fields \X Indexes

Memory(v) == [tier |-> "memory", value |-> v]
SSD(p) == [tier |-> "ssd", path |-> p]
IsRef(e) == e.tier = "ssd"

(* A file's name is a new uuid: the cell it is written for, and the least  *)
(* number that no file there has.                                          *)
Numbers(taken, c) == {k \in 0..(Cardinality(taken) + MaxBatch) : <<c[1], c[2], k>> \notin taken}
Least(S) == CHOOSE k \in S : \A l \in S : k <= l
NewPath(taken, c) == <<c[1], c[2], Least(Numbers(taken, c))>>

Cell(p) == <<p[1], p[2]>>
Refs(held) == {held[c].path : c \in {d \in DOMAIN held : IsRef(held[d])}}

(* _decode_sample, for a reference whose file is there.                    *)
Decode(e) == IF IsRef(e) THEN files[e.path] ELSE e.value

Without(f, S) == [x \in DOMAIN f \ S |-> f[x]]
Only(f, S) == [x \in DOMAIN f \cap S |-> f[x]]
Over(f, g) == [x \in DOMAIN f \cup DOMAIN g |-> IF x \in DOMAIN g THEN g[x] ELSE f[x]]

(* unlink: S holds the files that could not be deleted, which is logged.   *)
Unlink(disk, dropped, failures) ==
  \E S \in SUBSET (dropped \cap DOMAIN disk) :
    /\ faults' = faults + failures + Cardinality(S) /\ faults' <= MaxFaults
    /\ files' = Without(disk, dropped \ S)
    /\ lost' = lost \cup S

-----------------------------------------------------------------------------
(* put_data gives row k of the batch to the index rows[k]; where an index  *)
(* comes twice, its last row stays.                                        *)
LastRow(rows, i) == CHOOSE k \in DOMAIN rows : rows[k] = i /\ \A l \in DOMAIN rows : rows[l] = i => l <= k

NewKeys(rows) == SelectSeq(rows, LAMBDA i : i \notin active_keys)
Fits(rows) == Cardinality(active_keys) + Len(NewKeys(rows)) <= Size

(* The positions <<field, row>> that go to files, and the name of each.    *)
Offloaded(F, rows, v) ==
  IF hybrid THEN {p \in F \X DOMAIN rows : ~IsRef(v[p]) /\ v[p].value \in Large} ELSE {}

FileOf(big, rows, p) ==
  LET c       == <<p[1], rows[p[2]]>>
      earlier == {q \in big : q[1] = p[1] /\ rows[q[2]] = rows[p[2]] /\ q[2] < p[2]}
      nth     == CHOOSE k \in Numbers(DOMAIN files, c) :
                   Cardinality({l \in Numbers(DOMAIN files, c) : l < k}) = Cardinality(earlier)
  IN  <<c[1], c[2], nth>>

(* write_values, for every field of the batch.                             *)
Written(big, rows, v) ==
  [x \in {FileOf(big, rows, p) : p \in big} |->
     v[CHOOSE p \in big : FileOf(big, rows, p) = x].value]

(* _prepare_field_values: what field_data will hold for a position.        *)
Prepared(big, rows, v, p) == IF p \in big THEN SSD(FileOf(big, rows, p)) ELSE v[p]

(* A mutant: files of rows replaced within the batch are not discounted.   *)
PutDataCountingAll(F, rows, v) ==
  LET cells == F \X Range(rows)
      big   == Offloaded(F, rows, v)
      new   == Written(big, rows, v)
      held  == [c \in cells |-> Prepared(big, rows, v, <<c[1], LastRow(rows, c[2])>>)]
      old   == Refs(Only(field_data, cells))
  IN  /\ Fits(rows)
      /\ field_data' = Over(field_data, held)
      /\ active_keys' = active_keys \cup Range(rows)
      /\ active_values' = active_values + Cardinality(DOMAIN new) - Cardinality(old)
      /\ Unlink(Over(files, new), old \cup (DOMAIN new \ Refs(held)), 0)

(* put_data: every file of every field is written before a value is        *)
(* replaced; then the files of replaced values, and of rows that a later   *)
(* row of the batch replaced, are unlinked.                                *)
PutData(F, rows, v) ==
  LET cells    == F \X Range(rows)
      big      == Offloaded(F, rows, v)
      new      == Written(big, rows, v)
      held     == [c \in cells |-> Prepared(big, rows, v, <<c[1], LastRow(rows, c[2])>>)]
      old      == IF hybrid THEN Refs(Only(field_data, cells)) ELSE {}
      obsolete == old \cup (DOMAIN new \ Refs(held))
  IN  /\ Fits(rows)
      /\ field_data' = Over(field_data, held)
      /\ active_keys' = active_keys \cup Range(rows)
      /\ active_values' = active_values + Cardinality(DOMAIN new) - Cardinality(obsolete)
      /\ Unlink(Over(files, new), obsolete, 0)

(* A mutant: the files of the fields before the failed one stay.           *)
PutFailsLeaving(F, rows, v) ==
  LET new == Written(Offloaded(F, rows, v), rows, v)
  IN  /\ ~Fits(rows) /\ files' = Over(files, new)
      /\ UNCHANGED <<field_data, active_keys, active_values, lost, faults>>

(* A write fails (the disk), or put_data refuses the batch (the capacity): *)
(* the files written so far are unlinked, and no value has changed.        *)
PutFails(F, rows, v) ==
  LET new == Written(Offloaded(F, rows, v), rows, v)
  IN  /\ new # <<>>
      /\ Unlink(Over(files, new), DOMAIN new, IF Fits(rows) THEN 1 ELSE 0)
      /\ UNCHANGED <<field_data, active_keys, active_values>>

Batches == UNION {[1..n -> Indexes] : n \in 1..MaxBatch}

(* _handle_put; _handle_update ends with the same put_data.                *)
Put ==
  /\ \E F \in (SUBSET Fields) \ {{}}, rows \in Batches :
       \E v \in [F \X DOMAIN rows -> {Memory(x) : x \in Values}] :
         PutData(F, rows, v) \/ PutFails(F, rows, v)
  /\ UNCHANGED <<hybrid, saved, dump>>

(* _handle_clear: whole samples (no fields given), or some of their fields.*)
Clear ==
  /\ \E I \in (SUBSET Indexes) \ {{}}, F \in SUBSET Fields :
       LET named == (IF F = {} THEN Fields ELSE F) \X I
           gone  == IF hybrid THEN Refs(Only(field_data, named)) ELSE {}
       IN  /\ field_data' = Without(field_data, named)
           /\ active_keys' = IF F = {} THEN active_keys \ I ELSE active_keys
           /\ active_values' = active_values - Cardinality(gone)
           /\ Unlink(files, gone, 0)
  /\ UNCHANGED <<hybrid, saved, dump>>

-----------------------------------------------------------------------------
Images(n, blobs) == Over(saved, [m \in {n} |->
  [format    |-> hybrid,
   memory    |-> [c \in {d \in DOMAIN field_data : ~IsRef(field_data[d])} |-> field_data[c].value],
   ssd_index |-> [c \in blobs |-> files[field_data[c].path]],
   active    |-> active_keys]])

(* A mutant: the checkpoint has the values in memory only.                 *)
SaveMemoryOnly(n) ==
  /\ n \notin DOMAIN saved
  /\ saved' = Images(n, {})
  /\ UNCHANGED <<hybrid, field_data, active_keys, files, active_values, lost, dump, faults>>

(* The manifest of a checkpoint: the values in memory, the index of its    *)
(* blobs, and the active keys; the blobs are copies of the files.          *)
SaveCheckpoint(n) ==
  LET onDisk == {c \in DOMAIN field_data : IsRef(field_data[c])}
  IN  /\ n \notin DOMAIN saved
      /\ Refs(field_data) \subseteq DOMAIN files
      /\ saved' = Images(n, onDisk)
      /\ UNCHANGED <<hybrid, field_data, active_keys, files, active_values, lost, dump, faults>>

(* A copy or the manifest's write fails: the manifest and blobs go.        *)
SaveFails(n) ==
  /\ faults < MaxFaults /\ faults' = faults + 1
  /\ saved' = Without(saved, {n})
  /\ UNCHANGED <<hybrid, field_data, active_keys, files, active_values, lost, dump>>

(* _handle_save_checkpoint.                                                *)
Save(n) == SaveCheckpoint(n) \/ SaveFails(n)

(* Without SSD offload, only a checkpoint of such a unit can be loaded.    *)
Accepts(k) == hybrid \/ ~k.format

(* What a checkpoint's values become in this process: its blobs become     *)
(* files again, and without blobs the threshold decides anew.              *)
ToOffload(k) ==
  CASE ~hybrid -> {}
    [] hybrid /\ k.format -> DOMAIN k.ssd_index
    [] OTHER -> {c \in DOMAIN k.memory : k.memory[c] \in Large}

LoadCheckpoint(n) ==
  LET k    == saved[n]
      vals == Over(k.memory, k.ssd_index)
      big  == ToOffload(k)
      new  == [x \in {NewPath(DOMAIN files, c) : c \in big} |-> vals[Cell(x)]]
      old  == IF hybrid THEN Refs(field_data) ELSE {}
  IN  /\ n \in DOMAIN saved
      /\ Accepts(k)
      /\ field_data' = [c \in DOMAIN vals |->
                          IF c \in big THEN SSD(NewPath(DOMAIN files, c)) ELSE Memory(vals[c])]
      /\ active_keys' = k.active
      /\ active_values' = Cardinality(big)
      /\ Unlink(Over(files, new), old, 0)
      /\ UNCHANGED <<hybrid, saved, dump>>

(* A blob cannot be imported: those that were go again.                    *)
LoadFails(n) ==
  /\ n \in DOMAIN saved /\ Accepts(saved[n])
  /\ LET k   == saved[n]
         new == [x \in {NewPath(DOMAIN files, c) : c \in ToOffload(k)} |->
                   Over(k.memory, k.ssd_index)[Cell(x)]]
     IN  new # <<>> /\ Unlink(Over(files, new), DOMAIN new, 1)
  /\ UNCHANGED <<hybrid, field_data, active_keys, active_values, saved, dump>>

(* _handle_load_checkpoint.                                                *)
Load(n) == LoadCheckpoint(n) \/ LoadFails(n)

-----------------------------------------------------------------------------
(* _handle_dump_rows writes what field_data holds; _handle_load_rows puts  *)
(* the records' values at their current indexes.                           *)
DumpRows ==
  /\ \E I \in SUBSET active_keys :
       LET out == {c \in DOMAIN field_data : c[2] \in I}
       IN  /\ out # {}
           /\ DumpOffloaded \/ \A c \in out : ~IsRef(field_data[c])
           /\ dump' = [c \in out |-> field_data[c]]
  /\ UNCHANGED <<hybrid, field_data, active_keys, files, active_values, lost, saved, faults>>

(* The records of one signature go to put_data as one batch.  A value that *)
(* the dump holds as a reference is put like any value: pickled, it is     *)
(* smaller than the threshold.                                             *)
LoadRows ==
  /\ \E i \in {c[2] : c \in DOMAIN dump}, target \in Indexes :
       LET F == {c[1] : c \in {d \in DOMAIN dump : d[2] = i}}
       IN  PutData(F, <<target>>, [p \in F \X {1} |-> dump[<<p[1], i>>]])
  /\ UNCHANGED <<hybrid, saved, dump>>

(* The process ends (_shutdown_resources removes its directory; a killed   *)
(* process leaves it, and no other looks there) and the next one may run   *)
(* with or without SSD offload.                                            *)
Restart ==
  /\ hybrid' \in BOOLEAN
  /\ field_data' = <<>> /\ active_keys' = {} /\ files' = <<>> /\ active_values' = 0 /\ lost' = {}
  /\ UNCHANGED <<saved, dump, faults>>

-----------------------------------------------------------------------------
HybridInit ==
  /\ hybrid \in BOOLEAN
  /\ field_data = <<>> /\ active_keys = {} /\ files = <<>> /\ active_values = 0 /\ lost = {}
  /\ saved = <<>> /\ dump = <<>> /\ faults = 0

HybridNext ==
  \/ Put \/ Clear \/ DumpRows \/ LoadRows \/ Restart
  \/ \E n \in Names : Save(n) \/ Load(n)

HybridSpec == HybridInit /\ [][HybridNext]_hybridVars

-----------------------------------------------------------------------------
(* Whatever fails, the unit's directory holds the files its values refer   *)
(* to and those an unlink could not delete, and no other: no put, clear or *)
(* load leaks a file, or deletes one in use.                               *)
FilesAreReferenced == DOMAIN files = Refs(field_data) \cup lost /\ Refs(field_data) \cap lost = {}

(* ssd_active_values, which the metrics report, counts those values.       *)
CountsOffloaded == active_values = Cardinality({c \in DOMAIN field_data : IsRef(field_data[c])})

(* Files and the count of them follow the values through every failure.    *)
FilesAreAccountedFor == FilesAreReferenced /\ CountsOffloaded

(* The unit keeps its promises whichever tier a value is in.               *)
Image(k) == [rows |-> Over(k.memory, k.ssd_index), keys |-> k.active]
Promise == INSTANCE UnitStore
  WITH rows <- [c \in DOMAIN field_data |-> Decode(field_data[c])], keys <- active_keys,
       images <- [n \in DOMAIN saved |-> Image(saved[n])]
ImplementsUnitStore == Promise!Spec
=============================================================================
