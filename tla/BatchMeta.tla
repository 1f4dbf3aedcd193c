------------------------------ MODULE BatchMeta ------------------------------
(***************************************************************************)
(* The two batch descriptions that clients, controller and storage pass    *)
(* around (metadata.py): BatchMeta, columns of equal length that describe  *)
(* rows, and KVBatchMeta, keys with their tags.  Each operation is an      *)
(* operator on records; where the method may raise, a predicate of the     *)
(* same name with Accepts says when it does not.  Positions count from 1.  *)
(*                                                                         *)
(* A field's description is [dtype, shape, is_nested, is_non_tensor,       *)
(* per_sample_shapes]; an absent list of shapes is <<>>, which a list can  *)
(* only be in a batch of no rows, and an absent shape is NoShape.          *)
(***************************************************************************)
EXTENDS Integers, Sequences, FiniteSets, SequencesExt

CONSTANTS
  NoShape,      \* None for a shape
  NoFields      \* None for KVBatchMeta's fields

Ready == 1

(* s at the positions idx.                                                 *)
Pick(s, idx) == [i \in DOMAIN idx |-> s[idx[i]]]

(* A dictionary updated with another one.                                  *)
Overlay(f, g) ==
  [x \in DOMAIN f \cup DOMAIN g |-> IF x \in DOMAIN g THEN g[x] ELSE f[x]]

(* Values of one key of the batches' extra_info never disagree.            *)
ExtrasAgree(data) ==
  \A i, j \in DOMAIN data :
    \A x \in DOMAIN data[i].extra_info \cap DOMAIN data[j].extra_info :
      data[i].extra_info[x] = data[j].extra_info[x]

MergedExtras(data) ==
  [x \in UNION {DOMAIN data[i].extra_info : i \in DOMAIN data} |->
     LET has(i) == x \in DOMAIN data[i].extra_info
     IN  data[CHOOSE i \in DOMAIN data : has(i)].extra_info[x]]

-----------------------------------------------------------------------------
(* BatchMeta: the constructor, and what it holds of every batch it makes.  *)

Size(b) == Len(b.global_indexes)

AllReady(status) == Len(status) > 0 /\ \A i \in DOMAIN status : status[i] = Ready

ConstructorAccepts(b) ==
  /\ Len(b.partition_ids) = Size(b)
  /\ Len(b.production_status) = Size(b)
  /\ Len(b.custom_meta) = Size(b)
  /\ Len(b.custom_backend_meta) = Size(b)
  /\ \A f \in DOMAIN b.field_schema :
       Len(b.field_schema[f].per_sample_shapes) \in {0, Size(b)}

NewBatch(globals, parts, schema, status, extra, custom, backend) ==
  [global_indexes |-> globals, partition_ids |-> parts,
   field_schema |-> schema, production_status |-> status,
   extra_info |-> extra, custom_meta |-> custom,
   custom_backend_meta |-> backend,
   is_ready |-> AllReady(status)]

EmptyBatch(extra) == NewBatch(<<>>, <<>>, <<>>, <<>>, extra, <<>>, <<>>)

(* What every batch should stay: what the constructor makes of its columns. *)
IsBatch(b) ==
  /\ b = NewBatch(b.global_indexes, b.partition_ids, b.field_schema,
                  b.production_status, b.extra_info, b.custom_meta,
                  b.custom_backend_meta)
  /\ ConstructorAccepts(b)

(* Row i as a caller sees it (BatchMeta.samples, get_shapes, get_dtypes).  *)
ShapeAt(meta, i) ==
  IF meta.per_sample_shapes # <<>> THEN meta.per_sample_shapes[i]
  ELSE meta.shape

GetShapes(b, f) ==
  [i \in 1..Size(b) |-> ShapeAt(b.field_schema[f], i)]

FieldAt(meta, i) ==
  [dtype |-> meta.dtype, is_nested |-> meta.is_nested,
   is_non_tensor |-> meta.is_non_tensor, shape |-> ShapeAt(meta, i)]

Row(b, i) ==
  [global_index |-> b.global_indexes[i],
   partition_id |-> b.partition_ids[i],
   production_status |-> b.production_status[i],
   custom_meta |-> b.custom_meta[i],
   custom_backend_meta |-> b.custom_backend_meta[i],
   fields |-> [f \in DOMAIN b.field_schema |-> FieldAt(b.field_schema[f], i)]]

-----------------------------------------------------------------------------
(* Rows taken from a batch.                                                *)

PickedField(meta, idx) ==
  [dtype |-> meta.dtype, shape |-> meta.shape, is_nested |-> meta.is_nested,
   is_non_tensor |-> meta.is_non_tensor,
   per_sample_shapes |->
     IF meta.per_sample_shapes = <<>> THEN <<>>
     ELSE Pick(meta.per_sample_shapes, idx)]

PickedSchema(schema, idx) ==
  [f \in DOMAIN schema |-> PickedField(schema[f], idx)]

SelectAccepts(b, idx) == \A i \in DOMAIN idx : idx[i] \in 1..Size(b)

SelectSamples(b, idx) ==
  NewBatch(Pick(b.global_indexes, idx), Pick(b.partition_ids, idx),
           PickedSchema(b.field_schema, idx), Pick(b.production_status, idx),
           b.extra_info, Pick(b.custom_meta, idx),
           Pick(b.custom_backend_meta, idx))

(* An integer index of Python's, counted from 0, or from the end below 0.  *)
FromZero(n, item) == IF item < 0 THEN item + n + 1 ELSE item + 1

ItemAccepts(b, item) == FromZero(Size(b), item) \in 1..Size(b)
GetItem(b, item)     == SelectSamples(b, <<FromZero(Size(b), item)>>)

(* A reordered batch keeps its is_ready: the code does not recompute it.   *)
ReorderAccepts(b, idx) ==
  /\ Len(idx) = Size(b)
  /\ \A i, j \in DOMAIN idx : idx[i] = idx[j] => i = j
  /\ SelectAccepts(b, idx)

Reorder(b, idx) ==
  [global_indexes |-> Pick(b.global_indexes, idx),
   partition_ids |-> Pick(b.partition_ids, idx),
   field_schema |-> PickedSchema(b.field_schema, idx),
   production_status |-> Pick(b.production_status, idx),
   extra_info |-> b.extra_info,
   custom_meta |-> Pick(b.custom_meta, idx),
   custom_backend_meta |-> Pick(b.custom_backend_meta, idx),
   is_ready |-> b.is_ready]

(* Chunk i of c, of n rows: the first n % c chunks take one row more.      *)
ChunkSize(n, c, i)  == (n \div c) + (IF i <= n % c THEN 1 ELSE 0)
ChunkStart(n, c, i) ==
  (i - 1) * (n \div c) + (IF i - 1 <= n % c THEN i - 1 ELSE n % c)

ChunkRows(n, c, i) ==
  [k \in 1..ChunkSize(n, c, i) |-> ChunkStart(n, c, i) + k]

Chunk(b, c) == [i \in 1..c |-> SelectSamples(b, ChunkRows(Size(b), c, i))]

(* One chunk for each partition, in the order of their first rows.         *)
ChunkByPartition(b) ==
  LET rows      == [i \in 1..Size(b) |-> i]
      same(i, j) == b.partition_ids[i] = b.partition_ids[j]
      firsts    == SelectSeq(rows, LAMBDA i : \A j \in 1..(i - 1) : ~same(i, j))
  IN  [k \in DOMAIN firsts |->
         SelectSamples(b, SelectSeq(rows, LAMBDA i : same(i, firsts[k])))]

-----------------------------------------------------------------------------
(* Fields taken from a batch, and fields added to it.                      *)

(* names is what the caller asks for; backend metadata of a field goes     *)
(* with the field, and what is kept under no field's name (private) stays. *)
SelectFields(b, names, private) ==
  NewBatch(b.global_indexes, b.partition_ids,
           [f \in DOMAIN b.field_schema \cap names |-> b.field_schema[f]],
           b.production_status, b.extra_info, b.custom_meta,
           [i \in DOMAIN b.custom_backend_meta |->
              LET m == b.custom_backend_meta[i]
              IN  [f \in DOMAIN m \cap (names \cup private) |-> m[f]]])

(* The columns of a TensorDict of n rows: [kind, dtype, shapes], kind      *)
(* "nested", "dense" (equal shapes) or "list" (shapes are NoShape).        *)
ExtractAccepts(n, data) == \A f \in DOMAIN data : Len(data[f].shapes) = n

ExtractFieldSchema(n, data) ==
  IF n = 0 THEN <<>>
  ELSE [f \in DOMAIN data |->
          LET column == data[f]
              unsqueezed ==      \* a column of numbers becomes one of vectors
                IF column.kind = "dense" /\ column.shapes[1] = <<>>
                THEN <<1>> ELSE column.shapes[1]
          IN  [dtype |-> column.dtype, shape |-> unsqueezed,
               is_nested |-> column.kind = "nested",
               is_non_tensor |-> column.kind = "list",
               per_sample_shapes |->
                 IF column.kind = "nested" THEN column.shapes ELSE <<>>]]

ApplyFieldSchema(b, schema, set_all_ready) ==
  NewBatch(b.global_indexes, b.partition_ids, Overlay(b.field_schema, schema),
           IF set_all_ready THEN [i \in 1..Size(b) |-> Ready]
           ELSE b.production_status,
           b.extra_info, b.custom_meta, b.custom_backend_meta)

AddFieldsAccepts(b, n, data) == n = 0 \/ (n = Size(b) /\ ExtractAccepts(n, data))

AddFields(b, n, data) ==
  IF n = 0 THEN b ELSE ApplyFieldSchema(b, ExtractFieldSchema(n, data), TRUE)

(* What a partial update leaves (async_update with finalize off or on).    *)
AfterUpdate(b, schema, finalize) ==
  ApplyFieldSchema(
    IF finalize THEN b
    ELSE [b EXCEPT !.production_status = [i \in 1..Size(b) |-> 0]],
    schema, finalize)

UpdateCustomMetaAccepts(b, metas) == Len(metas) = Size(b)

UpdateCustomMeta(b, metas) ==
  [b EXCEPT !.custom_meta = [i \in DOMAIN @ |-> Overlay(@[i], metas[i])]]

(* async_set_custom_meta: for each partition, the tags of its rows.         *)
PartitionCustomMeta(b) ==
  LET chunks == Range(ChunkByPartition(b))
  IN  [p \in Range(b.partition_ids) |->
         LET c == CHOOSE c \in chunks : c.partition_ids[1] = p
         IN  [g \in Range(c.global_indexes) |->
                c.custom_meta[CHOOSE i \in 1..Size(c) : c.global_indexes[i] = g]]]

-----------------------------------------------------------------------------
(* Batches put together.                                                   *)

(* Fields of two batches of the same rows; a row is ready if both say so.  *)
UnionAccepts(b, other) ==
  \/ Size(b) = 0 \/ Size(other) = 0
  \/ /\ b.global_indexes = other.global_indexes
     /\ b.partition_ids = other.partition_ids

Union(b, other) ==
  IF Size(other) = 0 THEN b
  ELSE IF Size(b) = 0 THEN other
  ELSE LET merged(s, t) == [i \in 1..Size(b) |-> Overlay(s[i], t[i])]
       IN  NewBatch(b.global_indexes, b.partition_ids,
                    Overlay(b.field_schema, other.field_schema),
                    [i \in 1..Size(b) |->
                       IF b.production_status[i] = Ready
                       THEN other.production_status[i] ELSE 0],
                    Overlay(b.extra_info, other.extra_info),
                    merged(b.custom_meta, other.custom_meta),
                    merged(b.custom_backend_meta, other.custom_backend_meta))

(* Rows of several batches with the same fields, one batch after another.  *)
NonEmpty(data) == SelectSeq(data, LAMBDA b : Size(b) > 0)

ConcatAccepts(data) ==
  LET chunks == NonEmpty(data)
  IN  /\ \A i \in DOMAIN chunks :
           /\ DOMAIN chunks[i].field_schema = DOMAIN chunks[1].field_schema
           /\ \A f \in DOMAIN chunks[1].field_schema :
                chunks[i].field_schema[f].dtype = chunks[1].field_schema[f].dtype
      /\ ExtrasAgree(chunks)

(* The first chunk describes the field, unless some chunk has a shape for  *)
(* each row: then every row of the result has one.                         *)
ConcatField(chunks, f) ==
  LET meta(i) == chunks[i].field_schema[f]
      nested  == \E i \in DOMAIN chunks : meta(i).is_nested
      listed  == \E i \in DOMAIN chunks : meta(i).per_sample_shapes # <<>>
  IN  [dtype |-> meta(1).dtype,
       shape |-> IF nested THEN NoShape ELSE meta(1).shape,
       is_nested |-> nested,
       is_non_tensor |-> meta(1).is_non_tensor,
       per_sample_shapes |->
         IF nested \/ listed
         THEN FlattenSeq([i \in DOMAIN chunks |-> GetShapes(chunks[i], f)])
         ELSE <<>>]

Concat(data) ==
  LET chunks == NonEmpty(data)
      all(column(_)) == FlattenSeq([i \in DOMAIN chunks |-> column(chunks[i])])
  IN  IF chunks = <<>> THEN EmptyBatch(<<>>)
      ELSE NewBatch(all(LAMBDA b : b.global_indexes),
                    all(LAMBDA b : b.partition_ids),
                    [f \in DOMAIN chunks[1].field_schema |->
                       ConcatField(chunks, f)],
                    all(LAMBDA b : b.production_status),
                    MergedExtras(chunks),
                    all(LAMBDA b : b.custom_meta),
                    all(LAMBDA b : b.custom_backend_meta))

-----------------------------------------------------------------------------
(* KVBatchMeta: keys, each once, and their tags.                           *)

NewKVBatch(keys, tags, partition, fields, extra) ==
  [keys |-> keys, tags |-> tags, partition_id |-> partition,
   fields |-> fields, extra_info |-> extra]

KVAccepts(keys, tags) ==
  /\ Len(keys) = Len(tags)
  /\ \A i, j \in DOMAIN keys : keys[i] = keys[j] => i = j

KVPick(b, idx) ==
  NewKVBatch(Pick(b.keys, idx), Pick(b.tags, idx),
             b.partition_id, b.fields, b.extra_info)

SelectKeysAccepts(b, keys) ==
  /\ \A i, j \in DOMAIN keys : keys[i] = keys[j] => i = j
  /\ \A i \in DOMAIN keys : \E j \in DOMAIN b.keys : b.keys[j] = keys[i]

SelectKeys(b, keys) ==
  KVPick(b, [i \in DOMAIN keys |->
               CHOOSE j \in DOMAIN b.keys : b.keys[j] = keys[i]])

(* The indexes are Python's: those below 0 count from the end.             *)
KVReorderAccepts(b, indexes) ==
  /\ Len(indexes) = Len(b.keys)
  /\ \A i, j \in DOMAIN indexes : indexes[i] = indexes[j] => i = j
  /\ \A i \in DOMAIN indexes :
       FromZero(Len(b.keys), indexes[i]) \in DOMAIN b.keys

KVReorder(b, indexes) ==
  KVPick(b, [i \in DOMAIN indexes |-> FromZero(Len(b.keys), indexes[i])])

KVChunk(b, c) ==
  [i \in 1..c |-> KVPick(b, ChunkRows(Len(b.keys), c, i))]

KVConcat(data) ==
  LET chunks == SelectSeq(data, LAMBDA b : Len(b.keys) > 0)
      all(column(_)) == FlattenSeq([i \in DOMAIN chunks |-> column(chunks[i])])
  IN  IF chunks = <<>> THEN NewKVBatch(<<>>, <<>>, "", NoFields, <<>>)
      ELSE NewKVBatch(all(LAMBDA b : b.keys), all(LAMBDA b : b.tags),
                      chunks[1].partition_id, chunks[1].fields,
                      MergedExtras(chunks))

KVConcatAccepts(data) ==
  LET chunks == SelectSeq(data, LAMBDA b : Len(b.keys) > 0)
      named(b) == IF b.fields = NoFields THEN {} ELSE b.fields
  IN  /\ \A i \in DOMAIN chunks :
           /\ chunks[i].partition_id = chunks[1].partition_id
           /\ \/ chunks[i].fields = NoFields
              \/ chunks[i].fields = named(chunks[1])
      /\ ExtrasAgree(chunks)
      /\ KVAccepts(KVConcat(data).keys, KVConcat(data).tags)
=============================================================================
