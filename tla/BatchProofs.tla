----------------------------- MODULE BatchProofs -----------------------------
(***************************************************************************)
(* Theorems about batches, for any samples, fields, readers and sizes.     *)
(*                                                                         *)
(* First, what the operations on them do: rows that are selected,          *)
(* reordered or cut into chunks stay whole, and every result is a batch    *)
(* the constructor makes, with its is_ready in step with its rows'         *)
(* production status.  And the controller's record of a field keeps the    *)
(* shape of every row, for any rows, any shapes and any history.           *)
(*                                                                         *)
(* Then which samples are in them: what the samplers draw and deal         *)
(* (Samplers), prompts whole, no sample twice and the ranks' totals as     *)
(* close as the balanced sampler makes them; and that the readers of a     *)
(* group get the same batches, ready, although they fetch at different     *)
(* times (Streaming).  There the steps are seen through a view of what     *)
(* each reader was given, what is cached, and what is owed: a batch that   *)
(* a reader of its group has yet to fetch keeps its samples until then.    *)
(***************************************************************************)
EXTENDS Streaming, FieldMeta, FiniteSetTheorems, SequenceTheorems, NaturalsInduction,
        WellFoundedInduction, TLAPS

(* s is a sequence, of whatever values.                                    *)
IsSequence(s) == s \in Seq({s[i] : i \in DOMAIN s})

(* The columns of b are sequences.                                         *)
HasColumns(b) ==
  /\ IsSequence(b.global_indexes)
  /\ IsSequence(b.partition_ids)
  /\ IsSequence(b.production_status)
  /\ IsSequence(b.custom_meta)
  /\ IsSequence(b.custom_backend_meta)
  /\ \A f \in DOMAIN b.field_schema :
       IsSequence(b.field_schema[f].per_sample_shapes)

(* A function on 1..n is a sequence of length n.                           *)
LEMMA SequenceOfLength ==
  ASSUME NEW n \in Nat, NEW s, NEW S, s \in [1..n -> S]
  PROVE  s \in Seq(S) /\ Len(s) = n /\ DOMAIN s = 1..n
<1>1. s \in Seq(S)
  BY SeqDef
<1>2. Len(s) \in Nat /\ DOMAIN s = 1..Len(s) /\ DOMAIN s = 1..n
  BY <1>1, LenProperties
<1> QED
  BY <1>1, <1>2

(* The length and the domain of a sequence.                                *)
LEMMA SequenceLength ==
  ASSUME NEW s, IsSequence(s)
  PROVE  Len(s) \in Nat /\ DOMAIN s = 1..Len(s)
BY LenProperties DEF IsSequence

(* Any function on 1..n is a sequence of its own values.                   *)
LEMMA FunctionIsSequence ==
  ASSUME NEW n \in Nat, NEW s, s = [i \in 1..n |-> s[i]]
  PROVE  IsSequence(s) /\ Len(s) = n /\ DOMAIN s = 1..n
<1>1. DOMAIN s = 1..n
  OBVIOUS
<1>2. s \in [1..n -> {s[i] : i \in DOMAIN s}]
  BY <1>1
<1> QED
  BY <1>2, SequenceOfLength DEF IsSequence

(* Picking positions of a sequence.                                        *)
LEMMA PickedSequence ==
  ASSUME NEW s, IsSequence(s), NEW idx \in Seq(1..Len(s))
  PROVE  /\ IsSequence(Pick(s, idx))
         /\ Len(Pick(s, idx)) = Len(idx)
         /\ DOMAIN Pick(s, idx) = 1..Len(idx)
         /\ \A i \in 1..Len(idx) :
              idx[i] \in 1..Len(s) /\ Pick(s, idx)[i] = s[idx[i]]
<1>1. Len(idx) \in Nat /\ DOMAIN idx = 1..Len(idx)
  BY LenProperties
<1>2. \A i \in 1..Len(idx) : idx[i] \in 1..Len(s)
  BY ElementOfSeq
<1>3. Pick(s, idx) = [i \in 1..Len(idx) |-> s[idx[i]]]
  BY <1>1 DEF Pick
<1>4. Pick(s, idx) = [i \in 1..Len(idx) |-> Pick(s, idx)[i]]
  BY <1>3
<1>5. \A i \in 1..Len(idx) : Pick(s, idx)[i] = s[idx[i]]
  BY <1>3
<1> HIDE DEF Pick
<1>6. IsSequence(Pick(s, idx)) /\ Len(Pick(s, idx)) = Len(idx)
        /\ DOMAIN Pick(s, idx) = 1..Len(idx)
  BY <1>1, <1>4, FunctionIsSequence
<1> QED
  BY <1>2, <1>5, <1>6

(* A list of positions without repetition, as long as the list it picks    *)
(* from, names every position: reorder's three tests make a permutation.   *)
LEMMA InjectionCoversAll ==
  ASSUME NEW n \in Nat, NEW idx \in [1..n -> 1..n],
         \A i, j \in 1..n : idx[i] = idx[j] => i = j
  PROVE  \A k \in 1..n : \E i \in 1..n : idx[i] = k
<1>1. IsFiniteSet(1..n) /\ Cardinality(1..n) = Cardinality(1..n)
  BY FS_Interval
<1>2. idx \in Injection(1..n, 1..n)
  BY DEF Injection, IsInjective
<1>3. idx \in Surjection(1..n, 1..n)
  BY <1>1, <1>2, FS_Injection
<1> QED
  BY <1>3 DEF Surjection

(* A field's description for picked rows describes each of them as before. *)
LEMMA PickedFieldRows ==
  ASSUME NEW n \in Nat, NEW meta, IsSequence(meta.per_sample_shapes),
         Len(meta.per_sample_shapes) \in {0, n}, NEW idx \in Seq(1..n)
  PROVE  /\ IsSequence(PickedField(meta, idx).per_sample_shapes)
         /\ Len(PickedField(meta, idx).per_sample_shapes) \in {0, Len(idx)}
         /\ \A i \in 1..Len(idx) :
              FieldAt(PickedField(meta, idx), i) = FieldAt(meta, idx[i])
<1> DEFINE shapes == meta.per_sample_shapes
           picked == PickedField(meta, idx).per_sample_shapes
<1>1. Len(idx) \in Nat /\ DOMAIN idx = 1..Len(idx)
  BY LenProperties
<1>2. CASE shapes = <<>>
  <2>1. picked = <<>>
    BY <1>2 DEF PickedField
  <2>2. IsSequence(picked) /\ Len(picked) = 0
    BY <2>1, EmptySeq DEF IsSequence
  <2> QED
    BY <1>2, <2>1, <2>2 DEF FieldAt, ShapeAt, PickedField
<1>3. CASE shapes # <<>>
  <2>1. Len(shapes) = n /\ n # 0
    BY <1>3, EmptySeq DEF IsSequence
  <2>2. picked = Pick(shapes, idx)
    BY <1>3 DEF PickedField
  <2>3. /\ IsSequence(picked)
        /\ Len(picked) = Len(idx)
        /\ \A i \in 1..Len(idx) : picked[i] = shapes[idx[i]]
    BY <2>1, <2>2, PickedSequence
  <2>4. ASSUME NEW i \in 1..Len(idx)
        PROVE  FieldAt(PickedField(meta, idx), i) = FieldAt(meta, idx[i])
    <3>1. picked # <<>>
      BY <2>3, <1>1, EmptySeq
    <3> QED
      BY <1>3, <2>3, <3>1 DEF FieldAt, ShapeAt, PickedField
  <2> QED
    BY <2>3, <2>4
<1> QED
  BY <1>2, <1>3

(* The same for a whole schema.                                            *)
LEMMA PickedSchemaRows ==
  ASSUME NEW b, IsBatch(b), HasColumns(b), NEW idx \in Seq(1..Size(b))
  PROVE  LET schema == PickedSchema(b.field_schema, idx)
         IN  /\ DOMAIN schema = DOMAIN b.field_schema
             /\ \A f \in DOMAIN schema :
                  /\ IsSequence(schema[f].per_sample_shapes)
                  /\ Len(schema[f].per_sample_shapes) \in {0, Len(idx)}
                  /\ \A i \in 1..Len(idx) :
                       FieldAt(schema[f], i) = FieldAt(b.field_schema[f], idx[i])
<1> DEFINE schema == PickedSchema(b.field_schema, idx)
<1>1. Size(b) \in Nat
  BY SequenceLength DEF HasColumns, Size
<1>2. DOMAIN schema = DOMAIN b.field_schema
  BY DEF PickedSchema
<1>3. ASSUME NEW f \in DOMAIN b.field_schema
      PROVE  /\ schema[f] = PickedField(b.field_schema[f], idx)
             /\ IsSequence(b.field_schema[f].per_sample_shapes)
             /\ Len(b.field_schema[f].per_sample_shapes) \in {0, Size(b)}
  BY DEF PickedSchema, HasColumns, IsBatch, ConstructorAccepts
<1> HIDE DEF schema
<1>4. ASSUME NEW f \in DOMAIN schema
      PROVE  /\ IsSequence(schema[f].per_sample_shapes)
             /\ Len(schema[f].per_sample_shapes) \in {0, Len(idx)}
             /\ \A i \in 1..Len(idx) :
                  FieldAt(schema[f], i) = FieldAt(b.field_schema[f], idx[i])
  BY <1>1, <1>2, <1>3, PickedFieldRows
<1> QED
  BY <1>2, <1>4 DEF schema

(* The columns of a batch, each picked at the same positions.              *)
LEMMA PickedColumns ==
  ASSUME NEW b, IsBatch(b), HasColumns(b), NEW idx \in Seq(1..Size(b)),
         NEW s \in {b.global_indexes, b.partition_ids, b.production_status,
                    b.custom_meta, b.custom_backend_meta}
  PROVE  /\ IsSequence(Pick(s, idx))
         /\ Len(Pick(s, idx)) = Len(idx)
         /\ \A i \in 1..Len(idx) : Pick(s, idx)[i] = s[idx[i]]
<1>1. IsSequence(s) /\ Len(s) = Size(b)
  BY DEF HasColumns, IsBatch, ConstructorAccepts, Size
<1> QED
  BY <1>1, PickedSequence

(* select_samples: the selected rows, whole and in the order asked for,    *)
(* however often a row is named.                                           *)
THEOREM SelectionKeepsRows ==
  ASSUME NEW b, IsBatch(b), HasColumns(b), NEW idx \in Seq(1..Size(b))
  PROVE  LET r == SelectSamples(b, idx)
         IN  /\ IsBatch(r) /\ HasColumns(r)
             /\ Size(r) = Len(idx)
             /\ \A i \in 1..Size(r) : Row(r, i) = Row(b, idx[i])
<1> DEFINE r == SelectSamples(b, idx)
<1>1. /\ r.global_indexes = Pick(b.global_indexes, idx)
      /\ r.partition_ids = Pick(b.partition_ids, idx)
      /\ r.production_status = Pick(b.production_status, idx)
      /\ r.custom_meta = Pick(b.custom_meta, idx)
      /\ r.custom_backend_meta = Pick(b.custom_backend_meta, idx)
      /\ r.field_schema = PickedSchema(b.field_schema, idx)
      /\ r.extra_info = b.extra_info
  BY DEF SelectSamples, NewBatch
<1>2. r = NewBatch(r.global_indexes, r.partition_ids, r.field_schema,
                   r.production_status, r.extra_info, r.custom_meta,
                   r.custom_backend_meta)
  BY DEF SelectSamples, NewBatch
<1> HIDE DEF r
<1>3. HasColumns(r) /\ ConstructorAccepts(r) /\ Size(r) = Len(idx)
  BY <1>1, PickedColumns, PickedSchemaRows
  DEF HasColumns, ConstructorAccepts, Size
<1>4. ASSUME NEW i \in 1..Size(r)
      PROVE  Row(r, i) = Row(b, idx[i])
  <2>1. i \in 1..Len(idx)
    BY <1>3
  <2>2. /\ r.global_indexes[i] = b.global_indexes[idx[i]]
        /\ r.partition_ids[i] = b.partition_ids[idx[i]]
        /\ r.production_status[i] = b.production_status[idx[i]]
        /\ r.custom_meta[i] = b.custom_meta[idx[i]]
        /\ r.custom_backend_meta[i] = b.custom_backend_meta[idx[i]]
    BY <1>1, <2>1, PickedColumns
  <2>3. [f \in DOMAIN r.field_schema |-> FieldAt(r.field_schema[f], i)]
          = [f \in DOMAIN b.field_schema |-> FieldAt(b.field_schema[f], idx[i])]
    BY <1>1, <2>1, PickedSchemaRows
  <2> QED
    BY <2>2, <2>3 DEF Row
<1> QED
  BY <1>2, <1>3, <1>4 DEF r, IsBatch

(* reorder: under its three tests the rows are permuted, none lost, and    *)
(* is_ready, which the code does not recompute, is still right.            *)
THEOREM ReorderingPermutesRows ==
  ASSUME NEW b, IsBatch(b), HasColumns(b), NEW idx \in Seq(1..Size(b)),
         ReorderAccepts(b, idx)
  PROVE  LET r == Reorder(b, idx)
         IN  /\ IsBatch(r) /\ Size(r) = Size(b)
             /\ \A i \in 1..Size(b) : Row(r, i) = Row(b, idx[i])
             /\ \A k \in 1..Size(b) : \E i \in 1..Size(b) : Row(r, i) = Row(b, k)
<1> DEFINE r == Reorder(b, idx)
           s == SelectSamples(b, idx)
           n == Size(b)
<1>1. /\ IsBatch(s) /\ Size(s) = n
      /\ \A i \in 1..n : Row(s, i) = Row(b, idx[i])
  BY SelectionKeepsRows DEF ReorderAccepts
<1>2. n \in Nat /\ DOMAIN idx = 1..n /\ idx \in [1..n -> 1..n]
  BY SequenceLength, LenProperties DEF HasColumns, Size, ReorderAccepts
<1>3. \A k \in 1..n : \E i \in 1..n : idx[i] = k
  <2>1. \A i, j \in 1..n : idx[i] = idx[j] => i = j
    BY <1>2 DEF ReorderAccepts
  <2> QED
    BY <1>2, <2>1, InjectionCoversAll
<1>4. AllReady(Pick(b.production_status, idx)) = AllReady(b.production_status)
  <2> DEFINE status == b.production_status
             picked == Pick(b.production_status, idx)
  <2>1. Len(status) = n /\ DOMAIN status = 1..n
    BY <1>2, SequenceLength DEF IsBatch, ConstructorAccepts, HasColumns
  <2>2. /\ Len(picked) = n /\ DOMAIN picked = 1..n
        /\ \A i \in 1..n : idx[i] \in 1..n /\ picked[i] = status[idx[i]]
    BY <1>2, <2>1, PickedSequence DEF ReorderAccepts, HasColumns
  <2>3. (\A i \in 1..n : picked[i] = Ready) <=> (\A k \in 1..n : status[k] = Ready)
    BY <1>3, <2>2
  <2> QED
    BY <2>1, <2>2, <2>3 DEF AllReady
<1>5. b.is_ready = AllReady(b.production_status)
  BY DEF IsBatch, NewBatch
<1>6. r = s
  BY <1>4, <1>5 DEF Reorder, SelectSamples, NewBatch
<1> QED
  BY <1>1, <1>3, <1>6

-----------------------------------------------------------------------------
(* n rows in c chunks: the quotient and the remainder.                      *)
LEMMA Division ==
  ASSUME NEW n \in Nat, NEW c \in Nat \ {0}
  PROVE  /\ n \div c \in Nat
         /\ n % c \in 0..(c - 1)
         /\ n = c * (n \div c) + (n % c)
OBVIOUS

(* chunk's starts: the first chunk begins with the first row, each where   *)
(* the one before it ends, the last ends with the last row, and no chunk   *)
(* is more than one row longer than another.                               *)
THEOREM ChunksAreConsecutive ==
  ASSUME NEW n \in Nat, NEW c \in Nat \ {0}
  PROVE  /\ ChunkStart(n, c, 1) = 0
         /\ \A i \in 1..c :
              /\ ChunkSize(n, c, i) \in Nat
              /\ ChunkStart(n, c, i) \in Nat
              /\ ChunkStart(n, c, i + 1) = ChunkStart(n, c, i) + ChunkSize(n, c, i)
              /\ ChunkStart(n, c, i + 1) <= n
         /\ ChunkStart(n, c, c + 1) = n
         /\ \A i, j \in 1..c : ChunkSize(n, c, i) <= ChunkSize(n, c, j) + 1
<1> DEFINE q == n \div c
           r == n % c
           before(i) == IF i - 1 <= r THEN i - 1 ELSE r
<1>1. q \in Nat /\ r \in 0..(c - 1) /\ n = c * q + r
  BY Division
<1>2. \A i \in Int : /\ ChunkStart(n, c, i) = (i - 1) * q + before(i)
                     /\ ChunkSize(n, c, i) = q + (IF i <= r THEN 1 ELSE 0)
  BY DEF ChunkStart, ChunkSize
<1> HIDE DEF q, r
<1>3. ASSUME NEW i \in 1..c
      PROVE  /\ (i - 1) * q \in Nat
             /\ i * q = (i - 1) * q + q
             /\ i * q <= c * q
  <2>1. i - 1 \in Nat /\ c - i \in Nat
    OBVIOUS
  <2>2. (i - 1) * q \in Nat /\ (c - i) * q \in Nat
    BY <1>1, <2>1
  <2>3. i * q = (i - 1) * q + q /\ c * q = i * q + (c - i) * q
    BY <1>1
  <2>4. i * q \in Int /\ c * q \in Int
    BY <1>1
  <2> QED
    BY <2>2, <2>3, <2>4
<1>4. ASSUME NEW i \in 1..c
      PROVE  /\ ChunkSize(n, c, i) \in Nat
             /\ ChunkStart(n, c, i) \in Nat
             /\ ChunkStart(n, c, i + 1) = ChunkStart(n, c, i) + ChunkSize(n, c, i)
             /\ ChunkStart(n, c, i + 1) <= n
  <2>1. /\ ChunkStart(n, c, i) = (i - 1) * q + before(i)
        /\ ChunkStart(n, c, i + 1) = i * q + before(i + 1)
        /\ ChunkSize(n, c, i) = q + (IF i <= r THEN 1 ELSE 0)
    <3>1. i \in Int /\ i + 1 \in Int /\ (i + 1) - 1 = i
      OBVIOUS
    <3> QED
      BY <1>2, <3>1
  <2>2. /\ before(i) \in Nat
        /\ before(i + 1) = before(i) + (IF i <= r THEN 1 ELSE 0)
        /\ before(i + 1) <= r
    BY <1>1
  <2> DEFINE low == (i - 1) * q
             high == i * q
             all == c * q
             b1 == before(i)
             b2 == before(i + 1)
             s1 == ChunkStart(n, c, i)
             s2 == ChunkStart(n, c, i + 1)
             size == ChunkSize(n, c, i)
             one == IF i <= r THEN 1 ELSE 0
  <2>3. /\ low \in Nat /\ high = low + q /\ high <= all /\ all \in Int
        /\ s1 = low + b1 /\ s2 = high + b2 /\ size = q + one
        /\ b1 \in Nat /\ b2 = b1 + one /\ b2 <= r /\ one \in 0..1
        /\ q \in Nat /\ r \in Nat /\ n = all + r
    BY <1>1, <1>3, <2>1, <2>2
  <2> HIDE DEF low, high, all, b1, b2, s1, s2, size, one
  <2>4. size \in Nat /\ s1 \in Nat /\ s2 = s1 + size /\ s2 <= n
    BY <2>3
  <2> QED
    BY <2>4 DEF s1, s2, size
<1>5. ChunkStart(n, c, 1) = 0
  <2>1. ChunkStart(n, c, 1) = (1 - 1) * q + before(1)
    BY <1>2
  <2> QED
    BY <2>1, <1>1
<1>6. ChunkStart(n, c, c + 1) = n
  <2>1. ChunkStart(n, c, c + 1) = c * q + before(c + 1)
    <3>1. c + 1 \in Int /\ (c + 1) - 1 = c
      OBVIOUS
    <3> QED
      BY <1>2, <3>1
  <2>2. before(c + 1) = r
    BY <1>1
  <2> QED
    BY <1>1, <2>1, <2>2
<1>7. ASSUME NEW i \in 1..c, NEW j \in 1..c
      PROVE  ChunkSize(n, c, i) <= ChunkSize(n, c, j) + 1
  BY <1>1, <1>2
<1> QED
  BY <1>4, <1>5, <1>6, <1>7

(* chunk: every chunk is a batch of its stretch of rows, whole and in      *)
(* order.                                                                  *)
THEOREM ChunksKeepRows ==
  ASSUME NEW b, IsBatch(b), HasColumns(b), NEW c \in Nat \ {0}, NEW i \in 1..c
  PROVE  LET r     == Chunk(b, c)[i]
             start == ChunkStart(Size(b), c, i)
         IN  /\ IsBatch(r) /\ HasColumns(r)
             /\ Size(r) = ChunkSize(Size(b), c, i)
             /\ \A k \in 1..Size(r) : Row(r, k) = Row(b, start + k)
<1> DEFINE n     == Size(b)
           idx   == ChunkRows(n, c, i)
           start == ChunkStart(n, c, i)
           size  == ChunkSize(n, c, i)
<1>1. n \in Nat
  BY SequenceLength DEF HasColumns, Size
<1>2. /\ start \in Nat /\ size \in Nat
      /\ start + size <= n
  BY <1>1, ChunksAreConsecutive
<1>3. Chunk(b, c)[i] = SelectSamples(b, idx)
  BY DEF Chunk
<1>4. idx = [k \in 1..size |-> start + k]
  BY DEF ChunkRows
<1> HIDE DEF start, size, idx, n
<1>5. idx \in [1..size -> 1..n]
  BY <1>1, <1>2, <1>4
<1>6. idx \in Seq(1..n) /\ Len(idx) = size
  BY <1>2, <1>5, SequenceOfLength
<1>7. \A k \in 1..size : idx[k] = start + k
  BY <1>4
<1> QED
  BY <1>3, <1>6, <1>7, SelectionKeepsRows DEF n, start, size

-----------------------------------------------------------------------------
(* add_fields on a batch that is not empty: all rows are ready, a nested   *)
(* column's shapes are those of its rows, and the fields that the data     *)
(* does not name stay as they were.                                        *)
THEOREM AddedFieldsAreDescribed ==
  ASSUME NEW b, IsBatch(b), HasColumns(b), Size(b) # 0,
         NEW data, \A f \in DOMAIN data : IsSequence(data[f].shapes),
         AddFieldsAccepts(b, Size(b), data)
  PROVE  LET r == AddFields(b, Size(b), data)
         IN  /\ IsBatch(r) /\ r.is_ready
             /\ \A f \in DOMAIN data : data[f].kind = "nested" =>
                  \A i \in 1..Size(r) : GetShapes(r, f)[i] = data[f].shapes[i]
             /\ \A f \in DOMAIN b.field_schema \ DOMAIN data :
                  r.field_schema[f] = b.field_schema[f]
<1> DEFINE n == Size(b)
           schema == ExtractFieldSchema(n, data)
           r == AddFields(b, n, data)
           status == [i \in 1..n |-> Ready]
<1>1. n \in Nat /\ n # 0
  BY SequenceLength DEF HasColumns, Size
<1>2. r = NewBatch(b.global_indexes, b.partition_ids, Overlay(b.field_schema, schema),
                   status, b.extra_info, b.custom_meta, b.custom_backend_meta)
  BY DEF AddFields, ApplyFieldSchema
<1>3. Len(status) = n /\ DOMAIN status = 1..n
  <2>1. status \in [1..n -> {Ready}]
    OBVIOUS
  <2> HIDE DEF status
  <2> QED
    BY <1>1, <2>1, SequenceOfLength
<1>4. AllReady(status)
  BY <1>1, <1>3 DEF AllReady
<1> HIDE DEF n
<1>5. /\ DOMAIN schema = DOMAIN data
      /\ \A f \in DOMAIN data :
           schema[f].per_sample_shapes =
             IF data[f].kind = "nested" THEN data[f].shapes ELSE <<>>
  BY <1>1 DEF ExtractFieldSchema
<1>6. \A f \in DOMAIN data : Len(data[f].shapes) = n
  BY <1>1 DEF AddFieldsAccepts, ExtractAccepts, n
<1>7. Len(<<>>) = 0
  BY EmptySeq
<1> HIDE DEF schema, status
<1>8. /\ r.global_indexes = b.global_indexes
      /\ r.partition_ids = b.partition_ids
      /\ r.field_schema = Overlay(b.field_schema, schema)
      /\ r.production_status = status
      /\ r.extra_info = b.extra_info
      /\ r.custom_meta = b.custom_meta
      /\ r.custom_backend_meta = b.custom_backend_meta
      /\ r.is_ready = AllReady(status)
  BY <1>2 DEF NewBatch
<1> HIDE DEF r
<1>9. /\ DOMAIN r.field_schema = DOMAIN b.field_schema \cup DOMAIN data
      /\ \A f \in DOMAIN data : r.field_schema[f] = schema[f]
      /\ \A f \in DOMAIN b.field_schema \ DOMAIN data :
           r.field_schema[f] = b.field_schema[f]
  BY <1>5, <1>8 DEF Overlay
<1>10. Size(r) = n
  BY <1>8 DEF Size, n
<1>11. IsBatch(r)
  <2>1. ConstructorAccepts(r)
    <3>1. /\ Len(b.partition_ids) = n
          /\ Len(b.custom_meta) = n
          /\ Len(b.custom_backend_meta) = n
          /\ \A f \in DOMAIN b.field_schema :
               Len(b.field_schema[f].per_sample_shapes) \in {0, n}
      BY DEF IsBatch, ConstructorAccepts, n
    <3>2. \A f \in DOMAIN r.field_schema :
            Len(r.field_schema[f].per_sample_shapes) \in {0, n}
      BY <1>5, <1>6, <1>7, <1>9, <3>1
    <3> QED
      BY <1>3, <1>8, <1>10, <3>1, <3>2 DEF ConstructorAccepts
  <2> QED
    BY <1>2, <1>8, <2>1 DEF IsBatch
<1>12. ASSUME NEW f \in DOMAIN data, data[f].kind = "nested"
       PROVE  \A i \in 1..Size(r) : GetShapes(r, f)[i] = data[f].shapes[i]
  <2>1. r.field_schema[f].per_sample_shapes = data[f].shapes
    BY <1>5, <1>9, <1>12
  <2>2. data[f].shapes # <<>>
    BY <1>1, <1>6, <1>7
  <2> QED
    BY <2>1, <2>2 DEF GetShapes, ShapeAt
<1> QED
  BY <1>4, <1>8, <1>9, <1>11, <1>12 DEF r, n

(* union of two batches of the same rows: a batch again, ready exactly if   *)
(* both are.                                                               *)
THEOREM UnionIsReadyWhereBothAre ==
  ASSUME NEW b, NEW other, IsBatch(b), IsBatch(other),
         HasColumns(b), HasColumns(other),
         Size(b) # 0, Size(other) # 0, UnionAccepts(b, other)
  PROVE  LET r == Union(b, other)
         IN  IsBatch(r) /\ (r.is_ready <=> b.is_ready /\ other.is_ready)
<1> DEFINE n == Size(b)
           r == Union(b, other)
           status == [i \in 1..n |-> IF b.production_status[i] = Ready
                                     THEN other.production_status[i] ELSE 0]
           tags == [i \in 1..n |-> Overlay(b.custom_meta[i], other.custom_meta[i])]
           kept == [i \in 1..n |-> Overlay(b.custom_backend_meta[i],
                                           other.custom_backend_meta[i])]
           schema == Overlay(b.field_schema, other.field_schema)
<1>1. n \in Nat /\ n # 0 /\ Size(other) = n
  BY SequenceLength DEF HasColumns, Size, UnionAccepts
<1>2. r = NewBatch(b.global_indexes, b.partition_ids, schema, status,
                   Overlay(b.extra_info, other.extra_info), tags, kept)
  BY DEF Union
<1>3. /\ Len(status) = n /\ DOMAIN status = 1..n
      /\ Len(tags) = n /\ Len(kept) = n
  <2>1. /\ status = [i \in 1..n |-> status[i]]
        /\ tags = [i \in 1..n |-> tags[i]]
        /\ kept = [i \in 1..n |-> kept[i]]
    OBVIOUS
  <2> HIDE DEF status, tags, kept
  <2> QED
    BY <1>1, <2>1, FunctionIsSequence
<1>4. /\ DOMAIN b.production_status = 1..n
      /\ DOMAIN other.production_status = 1..n
      /\ Len(b.production_status) = n
      /\ Len(other.production_status) = n
  BY <1>1, SequenceLength DEF HasColumns, IsBatch, ConstructorAccepts
<1>5. AllReady(status) <=>
        AllReady(b.production_status) /\ AllReady(other.production_status)
  <2>1. \A i \in 1..n : status[i] = Ready <=>
          b.production_status[i] = Ready /\ other.production_status[i] = Ready
    BY DEF Ready
  <2> QED
    BY <1>1, <1>3, <1>4, <2>1 DEF AllReady
<1>6. /\ b.is_ready = AllReady(b.production_status)
      /\ other.is_ready = AllReady(other.production_status)
  BY DEF IsBatch, NewBatch
<1>7. \A f \in DOMAIN schema : Len(schema[f].per_sample_shapes) \in {0, n}
  BY <1>1 DEF Overlay, IsBatch, ConstructorAccepts
<1>8. /\ r.global_indexes = b.global_indexes
      /\ r.partition_ids = b.partition_ids
      /\ r.field_schema = schema
      /\ r.production_status = status
      /\ r.extra_info = Overlay(b.extra_info, other.extra_info)
      /\ r.custom_meta = tags
      /\ r.custom_backend_meta = kept
      /\ r.is_ready = AllReady(status)
  BY <1>2 DEF NewBatch
<1>9. Len(b.partition_ids) = n /\ Size(r) = n
  BY <1>8 DEF IsBatch, ConstructorAccepts, Size
<1> HIDE DEF r, status, tags, kept, schema
<1>10. ConstructorAccepts(r)
  BY <1>3, <1>7, <1>8, <1>9 DEF ConstructorAccepts
<1>11. IsBatch(r)
  BY <1>2, <1>8, <1>10 DEF IsBatch
<1> QED
  BY <1>5, <1>6, <1>8, <1>11 DEF r

-----------------------------------------------------------------------------
(* select_keys: the keys asked for, each with the tags it had.             *)
THEOREM SelectedKeysKeepTags ==
  ASSUME NEW b, IsSequence(b.keys), IsSequence(b.tags),
         KVAccepts(b.keys, b.tags),
         NEW keys, IsSequence(keys), SelectKeysAccepts(b, keys)
  PROVE  LET r == SelectKeys(b, keys)
         IN  /\ r.keys = keys /\ KVAccepts(r.keys, r.tags)
             /\ \A i \in DOMAIN keys, j \in DOMAIN b.keys :
                  b.keys[j] = keys[i] => r.tags[i] = b.tags[j]
<1> DEFINE idx == [i \in DOMAIN keys |->
                     CHOOSE j \in DOMAIN b.keys : b.keys[j] = keys[i]]
           r == SelectKeys(b, keys)
           n == Len(b.keys)
<1>1. /\ Len(keys) \in Nat /\ DOMAIN keys = 1..Len(keys)
      /\ n \in Nat /\ DOMAIN b.keys = 1..n
      /\ Len(b.tags) = n
  BY SequenceLength DEF KVAccepts
<1>2. \A i \in DOMAIN keys : idx[i] \in DOMAIN b.keys /\ b.keys[idx[i]] = keys[i]
  BY DEF SelectKeysAccepts
<1>3. idx \in [1..Len(keys) -> 1..n]
  BY <1>1, <1>2
<1>4. r.keys = Pick(b.keys, idx) /\ r.tags = Pick(b.tags, idx)
  BY DEF SelectKeys, KVPick, NewKVBatch
<1> HIDE DEF idx, r
<1>5. idx \in Seq(1..n) /\ Len(idx) = Len(keys)
  BY <1>1, <1>3, SequenceOfLength
<1>6. /\ IsSequence(r.keys) /\ Len(r.keys) = Len(keys)
      /\ Len(r.tags) = Len(keys)
      /\ \A i \in 1..Len(keys) :
           r.keys[i] = keys[i] /\ r.tags[i] = b.tags[idx[i]]
  BY <1>1, <1>2, <1>4, <1>5, PickedSequence
<1>7. r.keys = keys
  <2>1. r.keys = [i \in 1..Len(keys) |-> r.keys[i]]
    BY <1>1, <1>3, <1>4 DEF Pick
  <2>2. keys = [i \in 1..Len(keys) |-> keys[i]]
    BY <1>1, LenProperties DEF IsSequence
  <2> QED
    BY <1>6, <2>1, <2>2
<1>8. KVAccepts(r.keys, r.tags)
  BY <1>6, <1>7 DEF KVAccepts, SelectKeysAccepts
<1>9. ASSUME NEW i \in DOMAIN keys, NEW j \in DOMAIN b.keys, b.keys[j] = keys[i]
      PROVE  r.tags[i] = b.tags[j]
  <2>1. idx[i] = j
    BY <1>2, <1>9 DEF KVAccepts
  <2> QED
    BY <1>1, <1>6, <2>1
<1> QED
  BY <1>7, <1>8, <1>9 DEF r

(* KVBatchMeta.reorder by positions counted from 0: the keys are permuted  *)
(* and each keeps its tags.  Indexes below 0 are excluded here because the *)
(* code's tests do not exclude them and the theorem fails for them.        *)
THEOREM ReorderedKeysKeepTags ==
  ASSUME NEW b, IsSequence(b.keys), IsSequence(b.tags),
         KVAccepts(b.keys, b.tags),
         NEW indexes \in Seq(Nat), KVReorderAccepts(b, indexes)
  PROVE  LET r == KVReorder(b, indexes)
         IN  /\ KVAccepts(r.keys, r.tags)
             /\ \A j \in DOMAIN b.keys :
                  \E i \in DOMAIN r.keys :
                    r.keys[i] = b.keys[j] /\ r.tags[i] = b.tags[j]
<1> DEFINE n == Len(b.keys)
           idx == [i \in DOMAIN indexes |-> FromZero(n, indexes[i])]
           r == KVReorder(b, indexes)
<1>1. /\ n \in Nat /\ DOMAIN b.keys = 1..n /\ Len(b.tags) = n
      /\ DOMAIN indexes = 1..n
  BY SequenceLength, LenProperties DEF KVAccepts, KVReorderAccepts
<1>2. \A i \in 1..n : indexes[i] \in Nat /\ idx[i] = indexes[i] + 1 /\ idx[i] \in 1..n
  <2> SUFFICES ASSUME NEW i \in 1..n
               PROVE  indexes[i] \in Nat /\ idx[i] = indexes[i] + 1 /\ idx[i] \in 1..n
    OBVIOUS
  <2>1. i \in 1..Len(indexes)
    BY <1>1, LenProperties
  <2>2. indexes[i] \in Nat
    BY <2>1, ElementOfSeq
  <2>3. idx[i] = FromZero(n, indexes[i])
    BY <1>1
  <2>4. FromZero(n, indexes[i]) \in 1..n
    BY <1>1 DEF KVReorderAccepts
  <2>5. FromZero(n, indexes[i]) = indexes[i] + 1
    BY <1>1, <2>2 DEF FromZero
  <2> HIDE DEF idx
  <2> QED
    BY <2>2, <2>3, <2>4, <2>5
<1>3. idx \in [1..n -> 1..n]
  BY <1>1, <1>2
<1>4. ASSUME NEW i \in 1..n, NEW j \in 1..n, idx[i] = idx[j]
      PROVE  i = j
  <2> HIDE DEF idx
  <2>1. indexes[i] \in Nat /\ idx[i] = indexes[i] + 1
    BY <1>2
  <2>2. indexes[j] \in Nat /\ idx[j] = indexes[j] + 1
    BY <1>2
  <2>3. indexes[i] + 1 = indexes[j] + 1
    BY <1>4, <2>1, <2>2
  <2>4. indexes[i] = indexes[j]
    BY <2>1, <2>2, <2>3
  <2> QED
    BY <1>1, <2>4 DEF KVReorderAccepts
<1>5. r.keys = Pick(b.keys, idx) /\ r.tags = Pick(b.tags, idx)
  BY DEF KVReorder, KVPick, NewKVBatch
<1> HIDE DEF idx, r
<1>6. idx \in Seq(1..n) /\ Len(idx) = n
  BY <1>1, <1>3, SequenceOfLength
<1>7. /\ Len(r.keys) = n /\ Len(r.tags) = n /\ DOMAIN r.keys = 1..n
      /\ \A i \in 1..n : r.keys[i] = b.keys[idx[i]] /\ r.tags[i] = b.tags[idx[i]]
  <2>1. /\ Len(Pick(b.keys, idx)) = n /\ DOMAIN Pick(b.keys, idx) = 1..n
        /\ \A i \in 1..n : Pick(b.keys, idx)[i] = b.keys[idx[i]]
    BY <1>6, PickedSequence
  <2>2. idx \in Seq(1..Len(b.tags))
    BY <1>1, <1>6
  <2>3. /\ Len(Pick(b.tags, idx)) = n
        /\ \A i \in 1..n : Pick(b.tags, idx)[i] = b.tags[idx[i]]
    BY <1>6, <2>2, PickedSequence
  <2> QED
    BY <1>5, <2>1, <2>3
<1>8. \A k \in 1..n : \E i \in 1..n : idx[i] = k
  BY <1>1, <1>3, <1>4, InjectionCoversAll
<1>9. KVAccepts(r.keys, r.tags)
  <2>1. ASSUME NEW i \in 1..n, NEW j \in 1..n, r.keys[i] = r.keys[j]
        PROVE  i = j
    <3>1. idx[i] \in DOMAIN b.keys /\ idx[j] \in DOMAIN b.keys
      BY <1>1, <1>3
    <3>2. b.keys[idx[i]] = b.keys[idx[j]]
      BY <1>7, <2>1
    <3>3. idx[i] = idx[j]
      BY <3>1, <3>2 DEF KVAccepts
    <3> QED
      BY <1>4, <3>3
  <2> QED
    BY <1>7, <2>1 DEF KVAccepts
<1>10. ASSUME NEW j \in DOMAIN b.keys
       PROVE  \E i \in DOMAIN r.keys :
                r.keys[i] = b.keys[j] /\ r.tags[i] = b.tags[j]
  <2>1. PICK i \in 1..n : idx[i] = j
    BY <1>1, <1>8
  <2> QED
    BY <1>7, <2>1
<1> QED
  BY <1>9, <1>10 DEF r

-----------------------------------------------------------------------------
(* The shapes of fields: what holds of the empty record of a field is kept *)
(* by each write that is noted and each removal, and what a batch is told  *)
(* when it is fetched follows from it.                                     *)

(* f is a function.                                                        *)
IsMap(f) == f = [x \in DOMAIN f |-> f[x]]

(* What is laid over nothing is unchanged.                                 *)
LEMMA OverlayOfNothing ==
  ASSUME NEW f, NEW g, DOMAIN f = {}, IsMap(g)
  PROVE  Overlay(f, g) = g
BY DEF Overlay, IsMap

(* Spread out, a record's shapes are those of its rows.                    *)
LEMMA SpreadTells ==
  ASSUME NEW m, NEW told, IsMap(told), Describes(m, told)
  PROVE  SpreadOut(m) = told
<1>1. CASE m.is_nested
  BY <1>1 DEF SpreadOut, Describes
<1>2. CASE ~m.is_nested
  <2> DEFINE all == [g \in m.global_indexes |-> m.shape]
  <2>1. SpreadOut(m) = Overlay(m.per_sample_shapes, all)
    BY <1>2 DEF SpreadOut
  <2>2. DOMAIN m.per_sample_shapes = {} /\ \A g \in DOMAIN told : told[g] = m.shape
    BY <1>2 DEF Describes
  <2>3. IsMap(all)
    BY DEF IsMap
  <2>4. Overlay(m.per_sample_shapes, all) = all
    BY <2>2, <2>3, OverlayOfNothing
  <2>5. all = told
    BY <2>2 DEF Describes, IsMap
  <2> QED
    BY <2>1, <2>4, <2>5
<1> QED
  BY <1>1, <1>2

(* Without a row there is nothing to describe.                             *)
LEMMA NoFieldDescribesNothing ==
  ASSUME NEW told, DOMAIN told = {}
  PROVE  Describes(NoField, told)
BY DEF Describes, NoField, NewField

(* What a write tells is a function of its rows.                           *)
LEMMA ToldOfRows ==
  ASSUME NEW m, NEW meta, NEW rows, Fitting(m, meta, rows), IsMap(meta.per_sample_shapes)
  PROVE  IsMap(Told(meta, rows)) /\ DOMAIN Told(meta, rows) = rows
BY DEF Fitting, Told, IsMap

-----------------------------------------------------------------------------
(* The first write of a field is described as it is.                       *)
LEMMA FirstWrite ==
  ASSUME NEW m, NEW meta, NEW rows, NEW told, m.global_indexes = {}, Describes(m, told),
         Fitting(m, meta, rows), IsMap(meta.per_sample_shapes)
  PROVE  Describes(Noted(m, meta, rows), Overlay(told, Told(meta, rows)))
<1>1. Overlay(told, Told(meta, rows)) = Told(meta, rows) /\ DOMAIN Told(meta, rows) = rows
  BY ToldOfRows, OverlayOfNothing DEF Describes
<1> DEFINE n == Noted(m, meta, rows)
<1>2. /\ n.global_indexes = rows
      /\ n.is_nested = meta.is_nested /\ n.is_non_tensor = meta.is_non_tensor
      /\ n.shape = meta.shape /\ n.per_sample_shapes = meta.per_sample_shapes
  BY DEF Noted, NewField
<1>3. Describes(n, Told(meta, rows))
  BY <1>1, <1>2 DEF Describes, Fitting, Told
<1> QED
  BY <1>1, <1>3

(* A record made nested has the shapes of before, but for the new ones.    *)
LEMMA NestedTells ==
  ASSUME NEW m, NEW told, NEW new, NEW rows, NEW n,
         IsMap(told), Describes(m, told), ~m.is_non_tensor,
         DOMAIN new = rows, \A g \in rows : new[g] # NoShape,
         n.global_indexes = m.global_indexes \cup rows,
         n.is_nested = Nested(m, new).is_nested,
         n.is_non_tensor = Nested(m, new).is_non_tensor,
         n.per_sample_shapes = Nested(m, new).per_sample_shapes
  PROVE  Describes(n, Overlay(told, new))
<1>1. SpreadOut(m) = told
  BY SpreadTells
<1>2. n.is_nested = TRUE /\ n.is_non_tensor = m.is_non_tensor
      /\ n.per_sample_shapes = Overlay(told, new)
  BY <1>1 DEF Nested, NewField
<1>3. m.global_indexes = DOMAIN told /\ \A g \in DOMAIN told : told[g] # NoShape
  BY DEF Describes
<1>4. /\ DOMAIN Overlay(told, new) = DOMAIN told \cup rows
      /\ \A g \in rows : Overlay(told, new)[g] = new[g]
      /\ \A g \in DOMAIN told \ rows : Overlay(told, new)[g] = told[g]
  BY DEF Overlay
<1>5. \A g \in DOMAIN Overlay(told, new) : Overlay(told, new)[g] # NoShape
  BY <1>3, <1>4
<1> QED
  BY <1>2, <1>3, <1>4, <1>5 DEF Describes

(* Every write that is noted leaves each row the shape it was told last    *)
(* (FieldMeta.update and _update_field_metadata).                          *)
THEOREM WritesAreDescribed ==
  ASSUME NEW m, NEW meta, NEW rows, NEW told, IsMap(told), Describes(m, told),
         Fitting(m, meta, rows), NoteAccepts(m, meta), IsMap(meta.per_sample_shapes)
  PROVE  Describes(Noted(m, meta, rows), Overlay(told, Told(meta, rows)))
<1> DEFINE n   == Noted(m, meta, rows)
           r   == Reshaped(m, meta, rows)
           new == Told(meta, rows)
<1>1. CASE m.global_indexes = {}
  BY <1>1, FirstWrite
<1>2. CASE m.global_indexes # {}
  <2>1. /\ n.global_indexes = m.global_indexes \cup rows
        /\ n.shape = r.shape /\ n.is_nested = r.is_nested
        /\ n.is_non_tensor = r.is_non_tensor
        /\ n.per_sample_shapes = r.per_sample_shapes
    BY <1>2 DEF Noted, NewField
  <2>2. DOMAIN new = rows /\ meta.is_non_tensor = m.is_non_tensor
        /\ \A g \in rows : m.is_non_tensor <=> new[g] = NoShape
    BY <1>2, ToldOfRows DEF Fitting
  <2>3. CASE r = Nested(m, new) /\ ~m.is_non_tensor
    BY <2>1, <2>2, <2>3, NestedTells
  <2>4. CASE r = m /\ ~m.is_nested /\ \A g \in rows : new[g] = m.shape
    <3> HIDE DEF n, r, new
    <3>1. /\ DOMAIN Overlay(told, new) = DOMAIN told \cup rows
          /\ \A g \in rows : Overlay(told, new)[g] = new[g]
          /\ \A g \in DOMAIN told \ rows : Overlay(told, new)[g] = told[g]
      BY <2>2 DEF Overlay
    <3>2. /\ m.global_indexes = DOMAIN told /\ DOMAIN m.per_sample_shapes = {}
          /\ \A g \in DOMAIN told : told[g] = m.shape
          /\ \A g \in DOMAIN told : m.is_non_tensor <=> m.shape = NoShape
      BY <2>4, Zenon DEF Describes
    <3>3. \A g \in rows : m.is_non_tensor <=> m.shape = NoShape
      BY <2>2, <2>4, Zenon
    <3>4. \A g \in DOMAIN Overlay(told, new) : Overlay(told, new)[g] = m.shape
      BY <2>4, <3>1, <3>2
    <3>5. \A g \in DOMAIN Overlay(told, new) :
            m.is_non_tensor <=> Overlay(told, new)[g] = NoShape
      BY <3>1, <3>2, <3>3, <3>4
    <3> SUFFICES Describes(n, Overlay(told, new))
      BY DEF n, new
    <3> QED
      BY <2>1, <2>4, <3>1, <3>2, <3>4, <3>5 DEF Describes
  <2>5. CASE meta.is_nested
    <3>1. ~m.is_non_tensor
      BY <2>2, <2>5, Zenon DEF Fitting
    <3>2. r = Nested(m, new)
      BY <2>5, Zenon DEF Reshaped, Told
    <3> QED
      BY <2>3, <3>1, <3>2, Zenon
  <2>6. CASE ~meta.is_nested /\ meta.is_non_tensor
    <3>1. r = m /\ new = [g \in rows |-> meta.shape]
      BY <2>6 DEF Reshaped, Told
    <3>2. PICK h \in DOMAIN told : TRUE
      BY <1>2 DEF Describes
    <3>3. ~m.is_nested /\ m.shape = NoShape
      BY <2>2, <2>6, <3>2 DEF Describes
    <3>4. \A g \in rows : new[g] = NoShape
      BY <2>2, <2>6, Zenon
    <3> QED
      BY <2>4, <3>1, <3>3, <3>4, Zenon
  <2>7. CASE ~meta.is_nested /\ ~meta.is_non_tensor
    <3>1. new = [g \in rows |-> meta.shape]
      BY <2>7 DEF Told
    <3>2. CASE m.is_nested \/ m.shape # meta.shape
      BY <2>2, <2>3, <2>7, <3>1, <3>2 DEF Reshaped
    <3>3. CASE ~m.is_nested /\ m.shape = meta.shape
      BY <2>4, <2>7, <3>1, <3>3 DEF Reshaped
    <3> QED
      BY <3>2, <3>3
  <2> QED
    BY <2>5, <2>6, <2>7, Zenon
<1> QED
  BY <1>1, <1>2, Zenon

-----------------------------------------------------------------------------
(* Every removal leaves the other rows their shapes, one for all of them   *)
(* or one for each (FieldMeta.remove_samples).                             *)
THEOREM RemovalsAreDescribed ==
  ASSUME NEW m, NEW rows, NEW told, IsMap(told), Describes(m, told)
  PROVE  Describes(Without(m, rows), [g \in DOMAIN told \ rows |-> told[g]])
<1> DEFINE rest   == [g \in DOMAIN told \ rows |-> told[g]]
           left   == m.global_indexes \ rows
           shapes == [g \in DOMAIN m.per_sample_shapes \ rows |-> m.per_sample_shapes[g]]
           kinds  == {shapes[g] : g \in DOMAIN shapes}
           n      == Without(m, rows)
<1>1. left = DOMAIN rest
  BY DEF Describes
<1>2. \A g \in DOMAIN rest : m.is_non_tensor <=> rest[g] = NoShape
  BY DEF Describes
<1>3. CASE left = {}
  BY <1>1, <1>3, NoFieldDescribesNothing DEF Without
<1>4. CASE left # {} /\ m.is_nested /\ \E s \in kinds : kinds = {s}
  <2>1. shapes = rest /\ ~m.is_non_tensor
    BY <1>4 DEF Describes
  <2>2. PICK s : s = CHOOSE t \in kinds : TRUE
    OBVIOUS
  <2>3. kinds = {s}
    BY <1>4, <2>2
  <2>4. \A g \in DOMAIN rest : rest[g] = s
    BY <2>1, <2>3
  <2>5. n = NewField(left, m.dtype, s, FALSE, m.is_non_tensor, <<>>)
    BY <1>4, <2>2 DEF Without
  <2>6. /\ n.global_indexes = left /\ n.shape = s /\ n.is_nested = FALSE
        /\ n.is_non_tensor = m.is_non_tensor /\ DOMAIN n.per_sample_shapes = {}
    BY <2>5 DEF NewField
  <2> QED
    BY <1>1, <1>2, <2>4, <2>6 DEF Describes
<1>5. CASE left # {} /\ ~(m.is_nested /\ \E s \in kinds : kinds = {s})
  <2>1. n = NewField(left, m.dtype, m.shape, m.is_nested, m.is_non_tensor, shapes)
    BY <1>5 DEF Without
  <2>2. /\ n.global_indexes = left /\ n.shape = m.shape /\ n.is_nested = m.is_nested
        /\ n.is_non_tensor = m.is_non_tensor /\ n.per_sample_shapes = shapes
    BY <2>1 DEF NewField
  <2>3. CASE m.is_nested
    <3>1. shapes = rest /\ ~m.is_non_tensor
      BY <2>3 DEF Describes
    <3> QED
      BY <1>1, <1>2, <2>2, <2>3, <3>1 DEF Describes
  <2>4. CASE ~m.is_nested
    <3>1. DOMAIN shapes = {} /\ \A g \in DOMAIN rest : rest[g] = m.shape
      BY <2>4 DEF Describes
    <3> QED
      BY <1>1, <1>2, <2>2, <2>4, <3>1 DEF Describes
  <2> QED
    BY <2>3, <2>4
<1> QED
  BY <1>3, <1>4, <1>5

(* A batch that is fetched gives each of its rows that hold the field the  *)
(* row's own shape, in the batch's order (generate_batch_meta and          *)
(* FieldMeta.to_batch_schema).                                             *)
THEOREM FetchedShapesAreTold ==
  ASSUME NEW m, NEW told, Describes(m, told), NEW globals, NEW i \in DOMAIN globals,
         globals[i] \in DOMAIN told
  PROVE  ShapeAt(ToBatchSchema(m, globals), i) = told[globals[i]]
<1> DEFINE b    == ToBatchSchema(m, globals)
           list == [j \in DOMAIN globals |->
                      IF globals[j] \in DOMAIN m.per_sample_shapes
                      THEN m.per_sample_shapes[globals[j]] ELSE NoShape]
<1>1. b.shape = m.shape
  BY DEF ToBatchSchema
<1>2. CASE m.is_nested
  <2>1. m.per_sample_shapes = told
    BY <1>2 DEF Describes
  <2>2. b.per_sample_shapes = list
    BY <1>2, <2>1 DEF ToBatchSchema
  <2>3. list # <<>>
    OBVIOUS
  <2> QED
    BY <2>1, <2>2, <2>3 DEF ShapeAt
<1>3. CASE ~m.is_nested
  <2>1. b.per_sample_shapes = <<>>
    BY <1>3 DEF ToBatchSchema
  <2> QED
    BY <1>1, <1>3, <2>1 DEF ShapeAt, Describes
<1> QED
  BY <1>2, <1>3

-----------------------------------------------------------------------------
(* The list of shapes of a batch becomes a dictionary that tells the row   *)
(* at each place the shape at that place (notify_data_update).             *)
THEOREM NormalizedTellsRows ==
  ASSUME NEW globals, NEW list, NEW n \in Nat, DOMAIN globals = 1..n,
         \A i, j \in DOMAIN globals : globals[i] = globals[j] => i = j
  PROVE  /\ IsMap(ByRow(globals, list)) /\ DOMAIN ByRow(globals, list) = Range(globals)
         /\ \A i \in DOMAIN globals : ByRow(globals, list)[globals[i]] = list[i]
<1>1. IsMap(ByRow(globals, list)) /\ DOMAIN ByRow(globals, list) = Range(globals)
  BY DEF ByRow, IsMap
<1>2. ASSUME NEW i \in DOMAIN globals
      PROVE  ByRow(globals, list)[globals[i]] = list[i]
  <2> DEFINE P(k) == globals[k] = globals[i]
                     /\ \A j \in DOMAIN globals : globals[j] = globals[i] => j <= k
  <2>1. globals[i] \in Range(globals)
    BY DEF Range
  <2>2. P(i)
    OBVIOUS
  <2>3. \A k \in DOMAIN globals : P(k) => k = i
    OBVIOUS
  <2>4. (CHOOSE k \in DOMAIN globals : P(k)) = i
    BY <2>2, <2>3
  <2> QED
    BY <2>1, <2>4 DEF ByRow
<1> QED
  BY <1>1, <1>2

(* After a partial update, whichever units hold the rows, the field's      *)
(* description tells each row the shape that its unit found                *)
(* (_build_update_field_schema).                                           *)
THEOREM UpdatesTellRows ==
  ASSUME NEW globals, NEW n \in Nat, DOMAIN globals = 1..n,
         \A i, j \in DOMAIN globals : globals[i] = globals[j] => i = j,
         NEW described, \A k \in DOMAIN described : ~described[k].is_non_tensor,
         \A k, l \in DOMAIN described :
           \A g \in DOMAIN described[k].shapes \cap DOMAIN described[l].shapes : k = l,
         \A g \in Range(globals) : \E k \in DOMAIN described : g \in DOMAIN described[k].shapes,
         NEW i \in DOMAIN globals, NEW k \in DOMAIN described,
         globals[i] \in DOMAIN described[k].shapes
  PROVE  Told(Normalized(globals, UpdateSchema(globals, described)), Range(globals))[globals[i]]
           = described[k].shapes[globals[i]]
<1> DEFINE holder(g) == CHOOSE l \in DOMAIN described : g \in DOMAIN described[l].shapes
           shapes  == [g \in Range(globals) |-> described[holder(g)].shapes[g]]
           ordered == [j \in DOMAIN globals |-> shapes[globals[j]]]
           nested  == \E a, b \in DOMAIN ordered : ordered[a] # ordered[b]
           meta    == UpdateSchema(globals, described)
<1>1. \A j \in DOMAIN globals : globals[j] \in Range(globals)
  BY DEF Range
<1>2. holder(globals[i]) = k
  OBVIOUS
<1>3. ordered[i] = described[k].shapes[globals[i]]
  BY <1>1, <1>2
<1> HIDE DEF holder
<1>4. /\ meta.is_nested = nested
      /\ meta.shape = IF nested THEN NoShape ELSE ordered[1]
      /\ meta.per_sample_shapes = IF nested THEN ordered ELSE <<>>
  BY DEF UpdateSchema, holder
<1>5. CASE nested
  <2>1. ordered # <<>>
    OBVIOUS
  <2>2. Normalized(globals, meta) = [meta EXCEPT !.per_sample_shapes = ByRow(globals, ordered)]
    BY <1>4, <1>5, <2>1 DEF Normalized
  <2>3. /\ Normalized(globals, meta).is_nested
        /\ Normalized(globals, meta).per_sample_shapes = ByRow(globals, ordered)
    BY <1>4, <1>5, <2>2 DEF UpdateSchema
  <2>4. ByRow(globals, ordered)[globals[i]] = ordered[i]
    <3> HIDE DEF ordered
    <3> QED
      BY NormalizedTellsRows
  <2> QED
    BY <1>3, <2>3, <2>4 DEF Told
<1>6. CASE ~nested
  <2>1. Normalized(globals, meta) = meta
    BY <1>4, <1>6 DEF Normalized
  <2>2. 1 \in DOMAIN globals /\ ordered[i] = ordered[1]
    BY <1>6
  <2> QED
    <3>1. Told(meta, Range(globals)) = [g \in Range(globals) |-> ordered[1]]
      BY <1>4, <1>6 DEF Told
    <3> HIDE DEF ordered
    <3> QED
      BY <1>1, <1>3, <2>1, <2>2, <3>1
<1> QED
  BY <1>5, <1>6

-----------------------------------------------------------------------------
(* Recursive functions and sets in order.                                 *)

LEMMA LeastIn ==
  ASSUME NEW T \in SUBSET Nat, T # {}
  PROVE  \E n \in T : \A m \in T : n <= m
<1> DEFINE R == {ss \in Nat \X Nat : ss[1] < ss[2]}
<1>1. IsWellFoundedOn(R, Nat)
  BY NatLessThanWellFounded DEF OpToRel
<1>2. \A y, x \in Nat : y < x => <<y, x>> \in R
  OBVIOUS
<1> HIDE DEF R
<1>3. PICK x \in T : \A y \in T : ~ (<<y, x>> \in R)
  BY <1>1, WFMin
<1>4. \A y \in T : x <= y
  <2> TAKE y \in T
  <2>1. y \in Nat /\ x \in Nat /\ ~(y < x)
    BY <1>2, <1>3
  <2> QED
    BY <2>1
<1> QED
  BY <1>4

-----------------------------------------------------------------------------
(* A set in an order: each element has as many before it as its place      *)
(* says, no two as many, and so every place is taken.                      *)
IsOrder(R, S) ==
  /\ \A x \in S : <<x, x>> \notin R
  /\ \A x, y, z \in S : <<x, y>> \in R /\ <<y, z>> \in R => <<x, z>> \in R
  /\ \A x, y \in S : x # y => <<x, y>> \in R \/ <<y, x>> \in R

Preceding(S, R, x) == {y \in S : <<y, x>> \in R}

IsInOrder(f, S, R) ==
  /\ Cardinality(S) \in Nat
  /\ f \in [1..Cardinality(S) -> S]
  /\ \A x \in S : \E k \in 1..Cardinality(S) : f[k] = x
  /\ \A j, k \in 1..Cardinality(S) : j < k => <<f[j], f[k]>> \in R /\ f[j] # f[k]

LEMMA InOrderFacts ==
  ASSUME NEW S, IsFiniteSet(S), NEW R, IsOrder(R, S)
  PROVE  IsInOrder(InOrder(S, R), S, R)
<1> DEFINE n == Cardinality(S)
           rank == [x \in S |-> Cardinality(Preceding(S, R, x))]
<1>1. n \in Nat
  BY FS_CardinalityType
<1>2. ASSUME NEW x \in S
      PROVE  /\ IsFiniteSet(Preceding(S, R, x)) /\ Cardinality(Preceding(S, R, x)) \in Nat
             /\ Cardinality(Preceding(S, R, x)) < n
  <2>1. Preceding(S, R, x) \in SUBSET S /\ x \notin Preceding(S, R, x)
    BY DEF Preceding, IsOrder
  <2>2. IsFiniteSet(Preceding(S, R, x)) /\ Cardinality(Preceding(S, R, x)) <= n
    BY <2>1, FS_Subset
  <2>3. Cardinality(Preceding(S, R, x)) \in Nat
    BY <2>2, FS_CardinalityType
  <2>4. Cardinality(Preceding(S, R, x)) # n
    BY <2>1, FS_Subset
  <2> QED
    BY <1>1, <2>2, <2>3, <2>4
<1>3. ASSUME NEW x \in S, NEW y \in S, <<x, y>> \in R
      PROVE  Cardinality(Preceding(S, R, x)) < Cardinality(Preceding(S, R, y))
  <2>1. Preceding(S, R, x) \in SUBSET Preceding(S, R, y)
    BY <1>3 DEF Preceding, IsOrder
  <2>2. x \in Preceding(S, R, y) /\ x \notin Preceding(S, R, x)
    BY <1>3 DEF Preceding, IsOrder
  <2>3. IsFiniteSet(Preceding(S, R, y))
    BY <1>2
  <2>4. Cardinality(Preceding(S, R, x)) <= Cardinality(Preceding(S, R, y))
    BY <2>1, <2>3, FS_Subset
  <2>5. Cardinality(Preceding(S, R, x)) # Cardinality(Preceding(S, R, y))
    BY <2>1, <2>2, <2>3, FS_Subset
  <2> QED
    BY <1>2, <2>4, <2>5
<1>4. rank \in [S -> 0..(n - 1)]
  BY <1>1, <1>2
<1>5. \A x, y \in S : rank[x] = rank[y] => x = y
  <2> TAKE x, y \in S
  <2> SUFFICES ASSUME x # y PROVE rank[x] # rank[y]
    OBVIOUS
  <2>1. <<x, y>> \in R \/ <<y, x>> \in R
    BY DEF IsOrder
  <2> QED
    BY <1>2, <1>3, <2>1
<1>6. rank \in Surjection(S, 0..(n - 1))
  <2>1. IsFiniteSet(0..(n - 1)) /\ Cardinality(0..(n - 1)) = n
    BY <1>1, FS_Interval
  <2>2. rank \in Injection(S, 0..(n - 1))
    BY <1>4, <1>5 DEF Injection, IsInjective
  <2> QED
    BY <2>1, <2>2, FS_Injection
<1>7. \A m \in 0..(n - 1) : \E x \in S : rank[x] = m
  BY <1>6 DEF Surjection
<1>8. ASSUME NEW k \in 1..n
      PROVE  InOrder(S, R)[k] \in S /\ rank[InOrder(S, R)[k]] = k - 1
  <2>1. InOrder(S, R)[k] = CHOOSE x \in S : Cardinality({y \in S : <<y, x>> \in R}) = k - 1
    BY DEF InOrder
  <2>2. \E x \in S : Cardinality({y \in S : <<y, x>> \in R}) = k - 1
    <3>1. k - 1 \in 0..(n - 1)
      BY <1>1
    <3> QED
      BY <1>7, <3>1 DEF Preceding
  <2>3. PICK z : z = InOrder(S, R)[k]
    OBVIOUS
  <2>4. z \in S /\ Cardinality({y \in S : <<y, z>> \in R}) = k - 1
    BY <2>1, <2>2, <2>3
  <2> QED
    BY <2>3, <2>4 DEF Preceding
<1>9. InOrder(S, R) \in [1..n -> S]
  BY <1>8 DEF InOrder
<1>10. ASSUME NEW x \in S
       PROVE  \E k \in 1..n : InOrder(S, R)[k] = x
  <2>1. rank[x] \in 0..(n - 1)
    BY <1>4
  <2>2. PICK k \in 1..n : k - 1 = rank[x]
    <3>1. rank[x] + 1 \in 1..n /\ (rank[x] + 1) - 1 = rank[x]
      BY <1>1, <2>1
    <3> QED
      BY <3>1
  <2>3. InOrder(S, R)[k] \in S /\ rank[InOrder(S, R)[k]] = rank[x]
    BY <1>8, <2>2
  <2> QED
    BY <1>5, <2>3
<1>11. ASSUME NEW j \in 1..n, NEW k \in 1..n, j < k
       PROVE  <<InOrder(S, R)[j], InOrder(S, R)[k]>> \in R /\ InOrder(S, R)[j] # InOrder(S, R)[k]
  <2>1. PICK x, y : x = InOrder(S, R)[j] /\ y = InOrder(S, R)[k]
    OBVIOUS
  <2>2. x \in S /\ y \in S /\ rank[x] = j - 1 /\ rank[y] = k - 1
    BY <1>8, <2>1
  <2>3. rank[x] < rank[y]
    BY <1>1, <1>11, <2>2
  <2>4. x # y
    BY <1>1, <1>11, <2>2
  <2>5. <<y, x>> \notin R
    BY <1>2, <1>3, <2>2, <2>3
  <2> QED
    BY <2>1, <2>2, <2>4, <2>5 DEF IsOrder
<1> QED
  BY <1>1, <1>9, <1>10, <1>11 DEF IsInOrder

LEMMA AscendingFacts ==
  ASSUME NEW S \in SUBSET Nat, IsFiniteSet(S)
  PROVE  /\ Cardinality(S) \in Nat /\ Ascending(S) \in Seq(S) /\ Len(Ascending(S)) = Cardinality(S)
         /\ DOMAIN Ascending(S) = 1..Cardinality(S)
         /\ \A x \in S : \E k \in 1..Cardinality(S) : Ascending(S)[k] = x
         /\ \A j, k \in 1..Cardinality(S) : j < k => Ascending(S)[j] < Ascending(S)[k]
<1> DEFINE R == {p \in S \X S : p[1] < p[2]}
<1>1. \A x, y \in S : <<x, y>> \in R <=> x < y
  OBVIOUS
<1>2. IsOrder(R, S)
  <2>1. \A x \in S : <<x, x>> \notin R
    BY <1>1
  <2>2. \A x, y, z \in S : <<x, y>> \in R /\ <<y, z>> \in R => <<x, z>> \in R
    BY <1>1
  <2>3. \A x, y \in S : x # y => <<x, y>> \in R \/ <<y, x>> \in R
    BY <1>1
  <2> HIDE DEF R
  <2> QED
    BY <2>1, <2>2, <2>3 DEF IsOrder
<1>3. PICK f : f = Ascending(S)
  OBVIOUS
<1>4. IsInOrder(f, S, R)
  BY <1>2, <1>3, InOrderFacts DEF Ascending
<1> HIDE DEF R
<1>5. f \in Seq(S) /\ Len(f) = Cardinality(S) /\ DOMAIN f = 1..Cardinality(S) /\ Cardinality(S) \in Nat
  BY <1>4 DEF IsInOrder
<1>6. \A j, k \in 1..Cardinality(S) : j < k => f[j] < f[k]
  BY <1>1, <1>4 DEF IsInOrder
<1>7. \A x \in S : \E k \in 1..Cardinality(S) : f[k] = x
  BY <1>4 DEF IsInOrder
<1> QED
  BY <1>3, <1>5, <1>6, <1>7

-----------------------------------------------------------------------------
(* Recursion over numbers, up from 0 and down from n.                      *)
FollowsUp(f, n, V, base, step, m) ==
  f \in [0..n -> V] /\ f[0] = base /\ \A i \in 1..m : f[i] = step[<<i, f[i - 1]>>]

FollowsDown(f, n, V, step, m) ==
  f \in [1..n -> V] /\ \A i \in 1..n : n - m < i => f[i] = step[<<i, f>>]

LEMMA RecursionUp ==
  ASSUME NEW V, NEW n \in Nat, NEW base \in V, NEW step \in [(1..n) \X V -> V]
  PROVE  \E f : FollowsUp(f, n, V, base, step, n)
<1> DEFINE Good(f, m) == FollowsUp(f, n, V, base, step, m)
           T == {m \in 0..n : ~ \E f : Good(f, m)}
<1>1. T = {}
  <2> SUFFICES ASSUME T # {} PROVE FALSE
    OBVIOUS
  <2>0. T \in SUBSET Nat
    OBVIOUS
  <2>9. \A k : k \in T <=> k \in 0..n /\ ~ \E f : Good(f, k)
    OBVIOUS
  <2> HIDE DEF T
  <2>1. PICK m \in T : \A k \in T : m <= k
    BY <2>0, LeastIn
  <2>2. m \in 0..n /\ ~ \E f : Good(f, m)
    BY <2>9
  <2>3. CASE m = 0
    <3>1. Good([i \in 0..n |-> base], 0)
      BY DEF FollowsUp
    <3> QED
      BY <2>2, <2>3, <3>1
  <2>4. CASE m # 0
    <3>1. m - 1 \in 0..n /\ m - 1 \notin T
      BY <2>1, <2>2, <2>4
    <3>2. PICK f : Good(f, m - 1)
      BY <2>9, <3>1
    <3> DEFINE v == step[<<m, f[m - 1]>>]
               g == [f EXCEPT ![m] = v]
    <3>3. <<m, f[m - 1]>> \in (1..n) \X V /\ v \in V
      BY <2>2, <2>4, <3>1, <3>2 DEF FollowsUp
    <3>4. g \in [0..n -> V] /\ \A i \in 0..n : g[i] = IF i = m THEN v ELSE f[i]
      BY <2>2, <3>2, <3>3 DEF FollowsUp
    <3>5. g[0] = base
      BY <2>2, <2>4, <3>2, <3>4 DEF FollowsUp
    <3>6. \A i \in 1..m : g[i] = step[<<i, g[i - 1]>>]
      <4> TAKE i \in 1..m
      <4>1. i \in 0..n /\ i - 1 \in 0..n /\ i - 1 # m
        BY <2>2
      <4>2. g[i - 1] = f[i - 1]
        BY <3>4, <4>1
      <4>3. CASE i = m
        BY <3>4, <4>1, <4>2, <4>3
      <4>4. CASE i # m
        <5>1. i \in 1..(m - 1)
          BY <2>2, <4>4
        <5> QED
          BY <3>2, <3>4, <4>1, <4>2, <4>4, <5>1 DEF FollowsUp
      <4> QED
        BY <4>3, <4>4
    <3> QED
      BY <2>2, <3>4, <3>5, <3>6 DEF FollowsUp
  <2> QED
    BY <2>3, <2>4
<1>2. PICK f : Good(f, n)
  <2>1. n \in 0..n
    OBVIOUS
  <2>2. n \notin T
    BY <1>1, Zenon
  <2> QED
    BY <2>1, <2>2
<1> QED
  BY <1>2, Zenon

LEMMA RecursionDown ==
  ASSUME NEW V, NEW n \in Nat, NEW base \in V, NEW step \in [(1..n) \X [1..n -> V] -> V],
         \A i \in 1..n : \A f, g \in [1..n -> V] :
            (\A j \in 1..n : i < j => f[j] = g[j]) => step[<<i, f>>] = step[<<i, g>>]
  PROVE  \E f : FollowsDown(f, n, V, step, n)
<1> DEFINE Good(f, m) == FollowsDown(f, n, V, step, m)
           T == {m \in 0..n : ~ \E f : Good(f, m)}
<1>1. T = {}
  <2> SUFFICES ASSUME T # {} PROVE FALSE
    OBVIOUS
  <2>0. T \in SUBSET Nat
    OBVIOUS
  <2>9. \A k : k \in T <=> k \in 0..n /\ ~ \E f : Good(f, k)
    OBVIOUS
  <2> HIDE DEF T
  <2>1. PICK m \in T : \A k \in T : m <= k
    BY <2>0, LeastIn
  <2>2. m \in 0..n /\ ~ \E f : Good(f, m)
    BY <2>9
  <2>3. CASE m = 0
    <3>1. Good([i \in 1..n |-> base], 0)
      BY DEF FollowsDown
    <3> QED
      BY <2>2, <2>3, <3>1
  <2>4. CASE m # 0
    <3>1. m - 1 \in 0..n /\ m - 1 \notin T
      BY <2>1, <2>2, <2>4
    <3>2. PICK f : Good(f, m - 1)
      BY <2>9, <3>1
    <3>0. PICK d \in 1..n : d = n - m + 1
      BY <2>2, <2>4
    <3> DEFINE v == step[<<d, f>>]
               g == [f EXCEPT ![d] = v]
    <3>3. v \in V
      BY <3>2 DEF FollowsDown
    <3>4. g \in [1..n -> V] /\ \A i \in 1..n : g[i] = IF i = d THEN v ELSE f[i]
      BY <3>2, <3>3 DEF FollowsDown
    <3>6. \A i \in 1..n : n - m < i => g[i] = step[<<i, g>>]
      <4> TAKE i \in 1..n
      <4> HAVE n - m < i
      <4>1. d <= i
        BY <2>2, <3>0
      <4>2. \A j \in 1..n : i < j => f[j] = g[j]
        BY <3>4, <4>1
      <4>3. step[<<i, f>>] = step[<<i, g>>]
        BY <3>2, <3>4, <4>2 DEF FollowsDown
      <4>4. i # d => f[i] = step[<<i, f>>]
        BY <2>2, <3>0, <3>2, <4>1 DEF FollowsDown
      <4> QED
        BY <3>4, <4>3, <4>4
    <3> QED
      BY <2>2, <3>4, <3>6 DEF FollowsDown
  <2> QED
    BY <2>3, <2>4
<1>2. PICK f : Good(f, n)
  <2>1. n \in 0..n
    OBVIOUS
  <2>2. n \notin T
    BY <1>1, Zenon
  <2> QED
    BY <2>1, <2>2
<1> QED
  BY <1>2, Zenon

-----------------------------------------------------------------------------
(* Rows of blocks.                                                        *)

LEMMA TimesMonotone ==
  ASSUME NEW a \in Int, NEW b \in Int, a <= b, NEW g \in Nat
  PROVE  /\ a * g \in Int /\ b * g \in Int /\ a * g <= b * g
<1>1. PICK d \in Nat : b = a + d
  <2>1. b - a \in Nat /\ b = a + (b - a)
    OBVIOUS
  <2> QED
    BY <2>1
<1>2. b * g = a * g + d * g
  BY <1>1
<1>3. d * g \in Nat /\ a * g \in Int
  OBVIOUS
<1> QED
  BY <1>2, <1>3

(* A place in a row of blocks of g.                                        *)
LEMMA BlockPlaces ==
  ASSUME NEW g \in Nat, NEW i \in Nat
  PROVE  /\ i * g \in Nat /\ (i + 1) * g = i * g + g
         /\ \A n \in 1..i, m \in 1..g : (n - 1) * g + m \in 1..(i * g)
<1>1. i * g \in Nat /\ (i + 1) * g = i * g + g
  OBVIOUS
<1>2. ASSUME NEW n \in 1..i, NEW m \in 1..g
      PROVE  (n - 1) * g + m \in 1..(i * g)
  <2>1. (n - 1) * g <= (i - 1) * g /\ (n - 1) * g \in Nat
    <3>1. n - 1 \in Nat /\ n - 1 <= i - 1
      OBVIOUS
    <3> QED
      BY <3>1, TimesMonotone
  <2>2. (i - 1) * g = i * g - g
    OBVIOUS
  <2> QED
    BY <1>1, <2>1, <2>2
<1> QED
  BY <1>1, <1>2

(* g of each, one after the other.                                         *)
IsFlat(s, q, g, i, T) ==
  /\ s \in Seq(T) /\ Len(s) = i * g
  /\ \A n \in 1..i, m \in 1..g : s[(n - 1) * g + m] = q[n][m]
  /\ \A p \in 1..(i * g) : \E n \in 1..i, m \in 1..g : p = (n - 1) * g + m

FlatOf(q, f, i) == IF i = 1 THEN q[i] ELSE f[i - 1] \o q[i]

LEMMA FlattenStep ==
  ASSUME NEW T, NEW g \in Nat, NEW i \in Nat, NEW q, NEW s, IsFlat(s, q, g, i, T),
         q[i + 1] \in Seq(T), Len(q[i + 1]) = g
  PROVE  IsFlat(s \o q[i + 1], q, g, i + 1, T)
<1> DEFINE t == s \o q[i + 1]
<1>1. s \in Seq(T) /\ Len(s) = i * g /\ i * g \in Nat /\ (i + 1) * g = i * g + g
  BY BlockPlaces DEF IsFlat
<1>2. t \in Seq(T) /\ Len(t) = (i + 1) * g
      /\ \A p \in 1..(i * g + g) : t[p] = IF p <= i * g THEN s[p] ELSE q[i + 1][p - i * g]
  <2>1. PICK e, w : e = q[i + 1] /\ w = i * g
    OBVIOUS
  <2>2. e \in Seq(T) /\ Len(e) = g /\ w \in Nat /\ Len(s) = w /\ (i + 1) * g = w + g
    BY <1>1, <2>1
  <2>3. s \o e \in Seq(T)
    BY <1>1, <2>2, ConcatProperties
  <2>6. s \in Seq(T)
    BY <1>1
  <2>4. Len(s \o e) = w + g
    <3>1. Len(s \o e) = Len(s) + Len(e)
      BY <2>2, <2>6
    <3> QED
      BY <2>2, <3>1
  <2>5. \A p \in 1..(w + g) : (s \o e)[p] = IF p <= w THEN s[p] ELSE e[p - w]
    <3>1. \A p \in 1..(Len(s) + Len(e)) : (s \o e)[p] = IF p <= Len(s) THEN s[p] ELSE e[p - Len(s)]
      BY <2>2, <2>6, ConcatProperties
    <3> QED
      BY <2>2, <3>1
  <2> QED
    BY <2>1, <2>2, <2>3, <2>4, <2>5
<1> HIDE DEF t
<1>3. ASSUME NEW n \in 1..(i + 1), NEW m \in 1..g
      PROVE  t[(n - 1) * g + m] = q[n][m]
  <2>1. CASE n = i + 1
    <3>1. (n - 1) * g = i * g
      BY <2>1
    <3> QED
      BY <1>1, <1>2, <2>1, <3>1
  <2>2. CASE n # i + 1
    <3>1. n \in 1..i
      BY <2>2
    <3>2. PICK p : p = (n - 1) * g + m
      OBVIOUS
    <3>3. p \in 1..(i * g) /\ s[p] = q[n][m]
      BY <3>1, <3>2, BlockPlaces DEF IsFlat
    <3> QED
      BY <1>1, <1>2, <3>2, <3>3
  <2> QED
    BY <2>1, <2>2
<1>4. ASSUME NEW p \in 1..((i + 1) * g)
      PROVE  \E n \in 1..(i + 1), m \in 1..g : p = (n - 1) * g + m
  <2>1. CASE p <= i * g
    <3>1. p \in 1..(i * g)
      BY <1>1, <2>1
    <3>2. PICK n \in 1..i, m \in 1..g : p = (n - 1) * g + m
      BY <3>1 DEF IsFlat
    <3> QED
      BY <3>2
  <2>2. CASE ~(p <= i * g)
    <3>1. p - i * g \in 1..g /\ i + 1 \in 1..(i + 1) /\ p = ((i + 1) - 1) * g + (p - i * g)
      BY <1>1, <2>2
    <3> QED
      BY <3>1
  <2> QED
    BY <2>1, <2>2
<1>5. IsFlat(t, q, g, i + 1, T)
  BY <1>2, <1>3, <1>4 DEF IsFlat
<1> QED
  BY <1>5 DEF t

LEMMA FlattenFacts ==
  ASSUME NEW T, NEW g \in Nat, NEW q \in Seq(Seq(T)), \A n \in 1..Len(q) : Len(q[n]) = g
  PROVE  IsFlat(FlattenSeq(q), q, g, Len(q), T)
<1>1. Len(q) \in Nat
  OBVIOUS
<1>2. CASE Len(q) = 0
  <2>1. q = << >> /\ Len(q) * g = 0 /\ 0 * g = 0
    BY <1>2
  <2>2. FlattenSeq(q) = << >>
    BY <1>2, <2>1 DEF FlattenSeq
  <2>3. FlattenSeq(q) \in Seq(T) /\ Len(FlattenSeq(q)) = 0
    BY <2>2
  <2> QED
    BY <1>2, <2>1, <2>3 DEF IsFlat
<1>3. CASE Len(q) # 0
  <2> DEFINE F == CHOOSE f : f = [i \in 1..Len(q) |-> FlatOf(q, f, i)]
  <2>1. FlattenSeq(q) = F[Len(q)]
    BY <1>3 DEF FlattenSeq, FlatOf
  <2>2. \E f : f = [i \in 1..Len(q) |-> FlatOf(q, f, i)]
    <3> DEFINE step == [p \in (1..Len(q)) \X Seq(T) |-> p[2] \o q[p[1]]]
    <3>1. ASSUME NEW i \in 1..Len(q), NEW s \in Seq(T)
          PROVE  s \o q[i] \in Seq(T)
      BY ConcatProperties
    <3>2. step \in [(1..Len(q)) \X Seq(T) -> Seq(T)]
      BY <3>1
    <3>3. \A i \in 1..Len(q), s \in Seq(T) : step[<<i, s>>] = s \o q[i]
      OBVIOUS
    <3> HIDE DEF step
    <3>7. PICK V : V = Seq(T)
      OBVIOUS
    <3>8. << >> \in V /\ step \in [(1..Len(q)) \X V -> V] /\ \A i \in 1..Len(q) : q[i] \in V
      BY <3>2, <3>7
    <3>10. PICK n \in Nat : n = Len(q)
      BY <1>1
    <3>11. PICK base \in V : base = << >>
      BY <3>8
    <3>12. step \in [(1..n) \X V -> V]
      BY <3>8, <3>10
    <3>13. PICK f : FollowsUp(f, n, V, base, step, n)
      BY <3>12, RecursionUp, Zenon
    <3>9. f \in [0..Len(q) -> V] /\ f[0] = << >> /\ \A i \in 1..Len(q) : f[i] = step[<<i, f[i - 1]>>]
      BY <3>10, <3>11, <3>13 DEF FollowsUp
    <3>4. \A i \in 1..Len(q) : f[i] = f[i - 1] \o q[i] /\ f[i - 1] \in Seq(T) /\ q[i] \in Seq(T)
      <4> TAKE i \in 1..Len(q)
      <4>1. i - 1 \in 0..Len(q)
        OBVIOUS
      <4>2. f[i - 1] \in V
        BY <3>9, <4>1
      <4> QED
        BY <3>3, <3>7, <3>8, <3>9, <4>2
    <3> DEFINE h == [i \in 1..Len(q) |-> f[i]]
    <3>5. ASSUME NEW i \in 1..Len(q)
          PROVE  h[i] = FlatOf(q, h, i)
      <4>1. f[i] = f[i - 1] \o q[i] /\ f[i - 1] \in Seq(T) /\ q[i] \in Seq(T)
        BY <3>4
      <4>2. i = 1 => f[i] = q[i]
        <5>1. << >> \o q[i] = q[i]
          BY <4>1, ConcatEmptySeq
        <5>2. i = 1 => f[i - 1] = << >>
          BY <3>9
        <5> QED
          BY <4>1, <5>1, <5>2, Zenon
      <4>3. i # 1 => h[i - 1] = f[i - 1]
        OBVIOUS
      <4> QED
        BY <4>1, <4>2, <4>3 DEF FlatOf
    <3>6. h = [i \in 1..Len(q) |-> FlatOf(q, h, i)]
      <4>1. h = [i \in 1..Len(q) |-> h[i]]
        OBVIOUS
      <4> HIDE DEF h
      <4> QED
        BY <3>5, <4>1
    <3> QED
      BY <3>6
  <2>3. F = [i \in 1..Len(q) |-> FlatOf(q, F, i)]
    <3> QED
      BY <2>2, Zenon
  <2> HIDE DEF F
  <2> DEFINE U == {i \in 1..Len(q) : ~ IsFlat(F[i], q, g, i, T)}
  <2>4. U = {}
    <3> SUFFICES ASSUME U # {} PROVE FALSE
      OBVIOUS
    <3>1. U \in SUBSET Nat /\ \A i : i \in U <=> i \in 1..Len(q) /\ ~ IsFlat(F[i], q, g, i, T)
      OBVIOUS
    <3> HIDE DEF U
    <3>2. PICK i \in U : \A j \in U : i <= j
      BY <3>1, LeastIn
    <3>3. i \in 1..Len(q) /\ ~ IsFlat(F[i], q, g, i, T)
      BY <3>1
    <3>4. CASE i = 1
      <4>1. F[i] = q[i] /\ q[i] \in Seq(T) /\ Len(q[i]) = g /\ 1 * g = g
        BY <2>3, <3>3, <3>4 DEF FlatOf
      <4>2. \A m \in 1..g : (1 - 1) * g + m = m
        OBVIOUS
      <4>3. IsFlat(q[1], q, g, 1, T)
        BY <3>4, <4>1, <4>2 DEF IsFlat
      <4> QED
        BY <3>3, <3>4, <4>1, <4>3
    <3>5. CASE i # 1
      <4>1. i - 1 \in 1..Len(q) /\ i - 1 \in Nat /\ (i - 1) + 1 = i
        BY <3>3, <3>5
      <4>2. i - 1 \notin U
        BY <3>1, <3>2, <4>1
      <4>3. IsFlat(F[i - 1], q, g, i - 1, T)
        BY <3>1, <4>1, <4>2
      <4>4. F[i] = F[i - 1] \o q[i]
        BY <2>3, <3>3, <3>5 DEF FlatOf
      <4>5. q[i] \in Seq(T) /\ Len(q[i]) = g
        BY <3>3
      <4>6. IsFlat(F[i - 1] \o q[i], q, g, i, T)
        BY <4>1, <4>3, <4>5, FlattenStep
      <4> QED
        BY <3>3, <4>4, <4>6
    <3> QED
      BY <3>4, <3>5
  <2>5. Len(q) \in 1..Len(q)
    BY <1>1, <1>3
  <2> QED
    BY <2>1, <2>4, <2>5
<1> QED
  BY <1>2, <1>3

-----------------------------------------------------------------------------
(* The states of the largest differencing method: bins of items.          *)

LEMMA ImageOf ==
  ASSUME NEW k \in Nat, NEW f, DOMAIN f = 1..k, \A i, j \in 1..k : f[i] = f[j] => i = j
  PROVE  IsFiniteSet(Range(f)) /\ Cardinality(Range(f)) = k
<1> DEFINE g == [i \in 1..k |-> f[i]]
<1>1. IsFiniteSet(1..k) /\ Cardinality(1..k) = k
  BY FS_Interval
<1>2. g \in Bijection(1..k, Range(f))
  <2>1. g \in [1..k -> Range(f)]
    BY DEF Range
  <2>2. \A t \in Range(f) : \E i \in 1..k : g[i] = t
    BY DEF Range
  <2>3. \A i, j \in 1..k : g[i] = g[j] => i = j
    OBVIOUS
  <2> HIDE DEF g
  <2> QED
    BY <2>1, <2>2, <2>3 DEF Bijection, Injection, Surjection, IsInjective
<1>3. ExistsBijection(1..k, Range(f))
  BY <1>2 DEF ExistsBijection
<1> QED
  BY <1>1, <1>3, FS_Bijection

LEMMA FiniteRange ==
  ASSUME NEW k \in Nat, NEW f, DOMAIN f = 1..k
  PROVE  IsFiniteSet(Range(f))
<1> DEFINE g == [i \in 1..k |-> f[i]]
<1>1. IsFiniteSet(1..k)
  BY FS_Interval
<1>2. g \in Surjection(1..k, Range(f))
  BY DEF Range, Surjection
<1> HIDE DEF g
<1> QED
  BY <1>1, <1>2, FS_Surjection

-----------------------------------------------------------------------------
(* Bins of places in P, and states of k bins that share no place.          *)
IsBin(b, P) ==
  /\ b = [items |-> b.items, sum |-> b.sum]
  /\ b.items \in Seq(P) /\ Len(b.items) \in Nat \ {0} /\ b.sum \in Nat

Apart(a, b) == Range(a.items) \cap Range(b.items) = {}

AreBins(B, P) ==
  /\ \A b \in B : IsBin(b, P)
  /\ \A a, b \in B : a # b => Apart(a, b)

HeavierOf(B) == {p \in B \X B : Heavier(p[1], p[2])}

ItemsIn(B) == UNION {Range(b.items) : b \in B}

IsState(s, k, P) ==
  /\ DOMAIN s = 1..k /\ s \in Seq(Range(s)) /\ Len(s) = k
  /\ \A i \in 1..k : IsBin(s[i], P)
  /\ \A i, j \in 1..k : i < j => s[i] # s[j] /\ Heavier(s[i], s[j])
  /\ \A i, j \in 1..k : i # j => Apart(s[i], s[j])

ItemsOf(s) == ItemsIn(Range(s))

LEMMA FirstOfBin ==
  ASSUME NEW P \in SUBSET Nat, NEW b, IsBin(b, P)
  PROVE  b.items[1] \in Range(b.items) /\ b.items[1] \in Nat /\ b.items # << >> /\ Range(b.items) \subseteq P
         /\ b.sum \in Nat /\ Len(b.items) \in Nat
BY DEF IsBin, Range

(* Which of two bins is heavier, as numbers.                               *)
Outweighs(x, y, l, m, i, j) ==
  IF x # y THEN x > y ELSE IF l # m THEN l > m ELSE i > j

LEMMA HeavierIs ==
  ASSUME NEW P \in SUBSET Nat, NEW a, NEW b, IsBin(a, P), IsBin(b, P)
  PROVE  Heavier(a, b) <=> Outweighs(a.sum, b.sum, Len(a.items), Len(b.items), a.items[1], b.items[1])
BY FirstOfBin DEF Heavier, Outweighs

LEMMA HeavierIsAnOrder ==
  ASSUME NEW P \in SUBSET Nat, NEW B, AreBins(B, P)
  PROVE  IsOrder(HeavierOf(B), B)
<1>1. \A a, b \in B : <<a, b>> \in HeavierOf(B) <=> Heavier(a, b)
  BY DEF HeavierOf
<1>2. \A b \in B : b.sum \in Nat /\ Len(b.items) \in Nat /\ b.items[1] \in Nat
  BY FirstOfBin DEF AreBins
<1>3. \A a, b \in B : Heavier(a, b) <=> Outweighs(a.sum, b.sum, Len(a.items), Len(b.items), a.items[1], b.items[1])
  BY HeavierIs DEF AreBins
<1>4. \A b \in B : ~Heavier(b, b)
  BY <1>2, <1>3 DEF Outweighs
<1>5. ASSUME NEW a \in B, NEW b \in B, NEW c \in B, Heavier(a, b), Heavier(b, c)
      PROVE  Heavier(a, c)
  <2>1. PICK x, y, z : x = a.sum /\ y = b.sum /\ z = c.sum
    OBVIOUS
  <2>2. PICK l, m, n : l = Len(a.items) /\ m = Len(b.items) /\ n = Len(c.items)
    OBVIOUS
  <2>3. PICK i, j, k : i = a.items[1] /\ j = b.items[1] /\ k = c.items[1]
    OBVIOUS
  <2>4. {x, y, z, l, m, n, i, j, k} \subseteq Nat
    BY <1>2, <2>1, <2>2, <2>3
  <2>5. Outweighs(x, y, l, m, i, j) /\ Outweighs(y, z, m, n, j, k)
    BY <1>3, <1>5, <2>1, <2>2, <2>3
  <2>6. Outweighs(x, z, l, n, i, k)
    BY <2>4, <2>5 DEF Outweighs
  <2> QED
    BY <1>3, <2>1, <2>2, <2>3, <2>6
<1>6. ASSUME NEW a \in B, NEW b \in B, a # b
      PROVE  Heavier(a, b) \/ Heavier(b, a)
  <2>1. a.items[1] # b.items[1]
    <3>1. Range(a.items) \cap Range(b.items) = {}
      BY <1>6 DEF AreBins, Apart
    <3>2. a.items[1] \in Range(a.items) /\ b.items[1] \in Range(b.items)
      BY FirstOfBin DEF AreBins
    <3> QED
      BY <3>1, <3>2
  <2> QED
    BY <1>2, <1>3, <2>1 DEF Outweighs
<1> QED
  BY <1>1, <1>4, <1>5, <1>6 DEF IsOrder

LEMMA StateIs ==
  ASSUME NEW P \in SUBSET Nat, NEW B, AreBins(B, P), IsFiniteSet(B), NEW k, Cardinality(B) = k
  PROVE  IsState(State(B), k, P) /\ Range(State(B)) = B
<1>1. PICK s : s = State(B)
  OBVIOUS
<1>2. IsInOrder(s, B, HeavierOf(B))
  BY <1>1, HeavierIsAnOrder, InOrderFacts DEF State, HeavierOf
<1>3. k \in Nat /\ s \in [1..k -> B]
  BY <1>2 DEF IsInOrder
<1>4. Range(s) = B
  BY <1>2, <1>3 DEF IsInOrder, Range
<1>5. s \in Seq(Range(s)) /\ Len(s) = k
  BY <1>3, <1>4
<1>6. \A i, j \in 1..k : i < j => s[i] # s[j] /\ Heavier(s[i], s[j])
  BY <1>2 DEF IsInOrder, HeavierOf
<1>7. \A i \in 1..k : IsBin(s[i], P)
  BY <1>3 DEF AreBins
<1>8. \A i, j \in 1..k : i # j => Apart(s[i], s[j])
  <2> TAKE i, j \in 1..k
  <2> HAVE i # j
  <2>1. i \in Int /\ j \in Int /\ (i < j \/ j < i)
    BY <1>3
  <2>2. s[i] # s[j]
    BY <1>6, <2>1
  <2> QED
    BY <1>3, <2>2 DEF AreBins
<1> QED
  BY <1>1, <1>3, <1>4, <1>5, <1>6, <1>7, <1>8 DEF IsState

LEMMA RangeOfConcat ==
  ASSUME NEW P, NEW s \in Seq(P), NEW t \in Seq(P)
  PROVE  /\ s \o t \in Seq(P) /\ Len(s \o t) = Len(s) + Len(t)
         /\ Range(s \o t) = Range(s) \cup Range(t)
<1>1. s \o t \in Seq(P) /\ Len(s \o t) = Len(s) + Len(t)
  OBVIOUS
<1>2. Len(s) \in Nat /\ Len(t) \in Nat
  OBVIOUS
<1>3. DOMAIN (s \o t) = 1..(Len(s) + Len(t)) /\ DOMAIN s = 1..Len(s) /\ DOMAIN t = 1..Len(t)
  BY <1>1
<1>4. \A i \in 1..(Len(s) + Len(t)) : (s \o t)[i] = IF i <= Len(s) THEN s[i] ELSE t[i - Len(s)]
  OBVIOUS
<1>5. \A x \in Range(s \o t) : x \in Range(s) \cup Range(t)
  <2> TAKE x \in Range(s \o t)
  <2>1. PICK i \in 1..(Len(s) + Len(t)) : x = (s \o t)[i]
    BY <1>3 DEF Range
  <2>2. CASE i <= Len(s)
    <3>1. i \in DOMAIN s /\ x = s[i]
      BY <1>2, <1>3, <1>4, <2>1, <2>2
    <3> QED
      BY <3>1 DEF Range
  <2>3. CASE ~(i <= Len(s))
    <3>1. i - Len(s) \in DOMAIN t /\ x = t[i - Len(s)]
      BY <1>2, <1>3, <1>4, <2>1, <2>3
    <3> QED
      BY <3>1 DEF Range
  <2> QED
    BY <2>2, <2>3
<1>6. \A x \in Range(s) : x \in Range(s \o t)
  <2> TAKE x \in Range(s)
  <2>1. PICK i \in 1..Len(s) : x = s[i]
    BY <1>3 DEF Range
  <2>2. i \in DOMAIN (s \o t) /\ (s \o t)[i] = x
    BY <1>2, <1>3, <1>4, <2>1
  <2> QED
    BY <2>2 DEF Range
<1>7. \A x \in Range(t) : x \in Range(s \o t)
  <2> TAKE x \in Range(t)
  <2>1. PICK i \in 1..Len(t) : x = t[i]
    BY <1>3 DEF Range
  <2>2. PICK j : j = i + Len(s)
    OBVIOUS
  <2>3. j \in 1..(Len(s) + Len(t)) /\ ~(j <= Len(s)) /\ j - Len(s) = i
    BY <1>2, <2>1, <2>2
  <2>4. j \in DOMAIN (s \o t) /\ (s \o t)[j] = x
    BY <1>3, <1>4, <2>1, <2>3
  <2> QED
    BY <2>4 DEF Range
<1> QED
  BY <1>1, <1>5, <1>6, <1>7

(* m is a bin with the items of two.                                       *)
AreMerged(m, a, b, P) == IsBin(m, P) /\ Range(m.items) = Range(a.items) \cup Range(b.items)

LEMMA MergedIs ==
  ASSUME NEW P, NEW a, NEW b, IsBin(a, P), IsBin(b, P)
  PROVE  AreMerged(Merged(a, b), a, b, P)
<1>1. Merged(a, b).items = a.items \o b.items /\ Merged(a, b).sum = a.sum + b.sum
      /\ Merged(a, b) = [items |-> Merged(a, b).items, sum |-> Merged(a, b).sum]
  BY DEF Merged
<1>2. a.items \in Seq(P) /\ b.items \in Seq(P) /\ Len(a.items) \in Nat \ {0} /\ Len(b.items) \in Nat \ {0}
      /\ a.sum \in Nat /\ b.sum \in Nat
  BY DEF IsBin
<1>3. /\ a.items \o b.items \in Seq(P) /\ Len(a.items \o b.items) = Len(a.items) + Len(b.items)
      /\ Range(a.items \o b.items) = Range(a.items) \cup Range(b.items)
  BY <1>2, RangeOfConcat
<1>4. IsBin(Merged(a, b), P)
  BY <1>1, <1>2, <1>3 DEF IsBin
<1> QED
  BY <1>1, <1>3, <1>4 DEF AreMerged

(* A place is in one bin of a state.                                       *)
LEMMA ItemsOfBins ==
  ASSUME NEW k \in Nat, NEW P, NEW s, IsState(s, k, P)
  PROVE  /\ \A x : x \in ItemsOf(s) <=> \E i \in 1..k : x \in Range(s[i].items)
         /\ ItemsOf(s) \subseteq P
<1>1. Range(s) = {s[i] : i \in 1..k}
  BY DEF IsState, Range
<1>2. \A i \in 1..k : Range(s[i].items) \subseteq P
  BY DEF IsState, IsBin, Range
<1> QED
  BY <1>1, <1>2 DEF ItemsOf, ItemsIn

(* The bins of u are put together crosswise.                               *)
ArePaired(u, s, t, k) == \A i \in 1..k : \E j \in 1..k : u[i] = Merged(s[j], t[k + 1 - j])

LEMMA MergeIs ==
  ASSUME NEW k \in Nat, NEW P \in SUBSET Nat, NEW s, NEW t, IsState(s, k, P), IsState(t, k, P),
         ItemsOf(s) \cap ItemsOf(t) = {}
  PROVE  /\ IsState(Merge(s, t), k, P) /\ ItemsOf(Merge(s, t)) = ItemsOf(s) \cup ItemsOf(t)
         /\ ArePaired(Merge(s, t), s, t, k)
<1>1. PICK f : f = [i \in 1..k |-> Merged(s[i], t[k + 1 - i])]
  OBVIOUS
<1>2. DOMAIN f = 1..k /\ \A i \in 1..k : f[i] = Merged(s[i], t[k + 1 - i]) /\ k + 1 - i \in 1..k
  BY <1>1
<1>3. DOMAIN s = 1..k /\ Len(s) = k
  BY DEF IsState
<1>4. \A i \in 1..k : IsBin(s[i], P) /\ IsBin(t[k + 1 - i], P)
  BY <1>2 DEF IsState
<1>5. ASSUME NEW i \in 1..k
      PROVE  /\ IsBin(f[i], P)
             /\ Range(f[i].items) = Range(s[i].items) \cup Range(t[k + 1 - i].items)
  <2>1. PICK a, b : a = s[i] /\ b = t[k + 1 - i]
    OBVIOUS
  <2>2. IsBin(a, P) /\ IsBin(b, P) /\ f[i] = Merged(a, b)
    BY <1>2, <1>4, <2>1
  <2>3. AreMerged(Merged(a, b), a, b, P)
    BY <2>2, MergedIs
  <2> QED
    BY <2>1, <2>2, <2>3 DEF AreMerged
<1>6. \A i, j \in 1..k : i # j => Apart(f[i], f[j])
  <2> TAKE i, j \in 1..k
  <2> HAVE i # j
  <2>1. i \in Int /\ j \in Int /\ k + 1 - i \in 1..k /\ k + 1 - j \in 1..k /\ k + 1 - i # k + 1 - j
    OBVIOUS
  <2>2. Range(s[i].items) \cap Range(s[j].items) = {}
        /\ Range(t[k + 1 - i].items) \cap Range(t[k + 1 - j].items) = {}
    BY <2>1 DEF IsState, Apart
  <2>3. Range(s[i].items) \subseteq ItemsOf(s) /\ Range(s[j].items) \subseteq ItemsOf(s)
        /\ Range(t[k + 1 - i].items) \subseteq ItemsOf(t) /\ Range(t[k + 1 - j].items) \subseteq ItemsOf(t)
    BY <2>1, ItemsOfBins
  <2> QED
    BY <1>5, <2>2, <2>3 DEF Apart
<1>7. \A i, j \in 1..k : f[i] = f[j] => i = j
  <2> TAKE i, j \in 1..k
  <2> SUFFICES ASSUME i # j PROVE f[i] # f[j]
    OBVIOUS
  <2>1. Range(f[i].items) \cap Range(f[j].items) = {}
    BY <1>6 DEF Apart
  <2>2. f[i].items[1] \in Range(f[i].items)
    BY <1>5, FirstOfBin
  <2> QED
    BY <2>1, <2>2
<1>8. Range(f) = {Merged(s[i], t[Len(s) + 1 - i]) : i \in DOMAIN s}
  BY <1>2, <1>3 DEF Range
<1>9. IsFiniteSet(Range(f)) /\ Cardinality(Range(f)) = k
  BY <1>2, <1>7, ImageOf
<1>10. AreBins(Range(f), P)
  BY <1>2, <1>5, <1>6 DEF AreBins, Range
<1>11. Merge(s, t) = State(Range(f))
  BY <1>8 DEF Merge
<1>12. IsState(Merge(s, t), k, P) /\ Range(Merge(s, t)) = Range(f)
  BY <1>9, <1>10, <1>11, StateIs
<1>13. \A x : x \in ItemsIn(Range(f)) <=> \E i \in 1..k : x \in Range(f[i].items)
  BY <1>2 DEF ItemsIn, Range
<1>14. \A x : x \in ItemsIn(Range(f)) <=> x \in ItemsOf(s) \cup ItemsOf(t)
  <2> TAKE x
  <2>1. ASSUME NEW i \in 1..k, x \in Range(t[i].items)
        PROVE  \E j \in 1..k : x \in Range(f[j].items)
    <3>1. k + 1 - i \in 1..k /\ k + 1 - (k + 1 - i) = i
      OBVIOUS
    <3> QED
      BY <1>5, <2>1, <3>1
  <2>2. ASSUME NEW i \in 1..k, x \in Range(s[i].items)
        PROVE  \E j \in 1..k : x \in Range(f[j].items)
    BY <1>5, <2>2
  <2>3. ASSUME NEW i \in 1..k, x \in Range(f[i].items)
        PROVE  x \in ItemsOf(s) \cup ItemsOf(t)
    <3>1. x \in Range(s[i].items) \/ x \in Range(t[k + 1 - i].items)
      BY <1>5, <2>3
    <3> QED
      BY <1>2, <3>1, ItemsOfBins
  <2> QED
    BY <1>13, <2>1, <2>2, <2>3, ItemsOfBins
<1>15. ASSUME NEW i \in 1..k PROVE \E j \in 1..k : Merge(s, t)[i] = Merged(s[j], t[k + 1 - j])
  <2>1. Merge(s, t)[i] \in Range(f)
    BY <1>12 DEF IsState, Range
  <2> QED
    BY <1>2, <2>1 DEF Range
<1> QED
  BY <1>12, <1>14, <1>15 DEF ItemsOf, ArePaired

-----------------------------------------------------------------------------
(* States that share no place.                                             *)
ArePiles(S, k, P) ==
  /\ IsFiniteSet(S)
  /\ \A s \in S : IsState(s, k, P)
  /\ \A s, t \in S : s # t => ItemsOf(s) \cap ItemsOf(t) = {}

AllItems(S) == UNION {ItemsOf(s) : s \in S}

BeforeIn(S) == {p \in S \X S : Before(p[1], p[2])}

LEMMA BeforeIsAnOrder ==
  ASSUME NEW k \in Nat \ {0}, NEW P \in SUBSET Nat, NEW S, ArePiles(S, k, P)
  PROVE  IsOrder(BeforeIn(S), S)
<1> DEFINE F == {s[1] : s \in S}
<1>1. \A s \in S : IsBin(s[1], P) /\ Spread(s) \in Int
  <2> TAKE s \in S
  <2>1. Len(s) = k /\ 1 \in 1..k /\ k \in 1..k /\ IsState(s, k, P)
    BY DEF ArePiles, IsState
  <2>2. IsBin(s[1], P) /\ IsBin(s[k], P)
    BY <2>1 DEF IsState
  <2> QED
    BY <2>1, <2>2 DEF Spread, IsBin
<1>2. \A s, t \in S : s # t => Apart(s[1], t[1]) /\ s[1] # t[1]
  <2> TAKE s, t \in S
  <2> HAVE s # t
  <2>1. ItemsOf(s) \cap ItemsOf(t) = {} /\ 1 \in 1..k
    BY DEF ArePiles
  <2>2. Range(s[1].items) \subseteq ItemsOf(s) /\ Range(t[1].items) \subseteq ItemsOf(t)
    BY <2>1, ItemsOfBins DEF ArePiles
  <2>3. s[1].items[1] \in Range(s[1].items)
    BY <1>1, FirstOfBin
  <2> QED
    BY <2>1, <2>2, <2>3 DEF Apart
<1>3. AreBins(F, P)
  BY <1>1, <1>2 DEF AreBins
<1>4. IsOrder(HeavierOf(F), F)
  BY <1>3, HeavierIsAnOrder
<1>5. \A s \in S : s[1] \in F
  OBVIOUS
<1>6. \A a, b \in F : <<a, b>> \in HeavierOf(F) <=> Heavier(a, b)
  BY DEF HeavierOf
<1>7. \A s, t \in S : <<s, t>> \in BeforeIn(S) <=> Before(s, t)
  BY DEF BeforeIn
<1> HIDE DEF F
<1>8. \A s \in S : ~Before(s, s)
  <2> TAKE s \in S
  <2>1. ~Heavier(s[1], s[1])
    BY <1>4, <1>5, <1>6 DEF IsOrder
  <2> QED
    BY <1>1, <2>1 DEF Before
<1>9. \A s, t, u \in S : Before(s, t) /\ Before(t, u) => Before(s, u)
  <2> TAKE s, t, u \in S
  <2> HAVE Before(s, t) /\ Before(t, u)
  <2>1. Heavier(s[1], t[1]) /\ Heavier(t[1], u[1]) => Heavier(s[1], u[1])
    BY <1>4, <1>5, <1>6 DEF IsOrder
  <2> QED
    BY <1>1, <2>1 DEF Before
<1>10. \A s, t \in S : s # t => Before(s, t) \/ Before(t, s)
  <2> TAKE s, t \in S
  <2> HAVE s # t
  <2>1. Heavier(s[1], t[1]) \/ Heavier(t[1], s[1])
    BY <1>2, <1>4, <1>5, <1>6 DEF IsOrder
  <2> QED
    BY <1>1, <2>1 DEF Before
<1> QED
  BY <1>7, <1>8, <1>9, <1>10 DEF IsOrder

LEMMA PopIs ==
  ASSUME NEW k \in Nat \ {0}, NEW P \in SUBSET Nat, NEW S, ArePiles(S, k, P), S # {}
  PROVE  PopOf(S) \in S /\ \A t \in S \ {PopOf(S)} : Before(PopOf(S), t)
<1>1. PICK f : f = InOrder(S, BeforeIn(S))
  OBVIOUS
<1>2. IsInOrder(f, S, BeforeIn(S))
  BY <1>1, BeforeIsAnOrder, InOrderFacts DEF ArePiles
<1>3. PICK n \in Nat : n = Cardinality(S)
  BY <1>2 DEF IsInOrder
<1>4. n # 0
  BY <1>3, FS_EmptySet DEF ArePiles
<1>5. 1 \in 1..n /\ f[1] \in S
  BY <1>2, <1>3, <1>4 DEF IsInOrder
<1>6. ASSUME NEW t \in S \ {f[1]}
      PROVE  Before(f[1], t)
  <2>1. PICK j \in 1..n : t = f[j]
    BY <1>2, <1>3 DEF IsInOrder
  <2>2. 1 < j
    BY <1>3, <2>1
  <2> QED
    BY <1>2, <1>3, <1>5, <2>1, <2>2 DEF IsInOrder, BeforeIn
<1>7. \E s \in S : \A t \in S \ {s} : Before(s, t)
  BY <1>5, <1>6
<1> QED
  BY <1>7 DEF PopOf

-----------------------------------------------------------------------------
(* A state's merges leave its items.                                      *)

LEMMA StateHasItems ==
  ASSUME NEW k \in Nat \ {0}, NEW P \in SUBSET Nat, NEW s, IsState(s, k, P)
  PROVE  ItemsOf(s) # {}
<1>1. 1 \in 1..k /\ IsBin(s[1], P)
  BY DEF IsState
<1>2. s[1].items[1] \in Range(s[1].items)
  BY <1>1, FirstOfBin
<1> QED
  BY <1>1, <1>2, ItemsOfBins

MergesTwo(S, T, k, P) ==
  /\ ArePiles(T, k, P) /\ Cardinality(T) = Cardinality(S) - 1 /\ AllItems(T) = AllItems(S)
  /\ \E s, t \in S : s # t /\ T \subseteq S \cup {Merge(s, t)}

LEMMA MergeTwoIs ==
  ASSUME NEW k \in Nat \ {0}, NEW P \in SUBSET Nat, NEW S, ArePiles(S, k, P), Cardinality(S) >= 2
  PROVE  MergesTwo(S, MergeTwo(S), k, P)
<1>1. IsFiniteSet(S) /\ Cardinality(S) \in Nat /\ S # {}
  BY FS_CardinalityType, FS_EmptySet DEF ArePiles
<1>2. PICK s : s = PopOf(S)
  OBVIOUS
<1>3. s \in S
  BY <1>1, <1>2, PopIs
<1>4. IsFiniteSet(S \ {s}) /\ Cardinality(S \ {s}) = Cardinality(S) - 1
  BY <1>1, <1>3, FS_RemoveElement
<1>5. PICK n \in Nat : n = Cardinality(S) /\ n >= 2
  BY <1>1
<1>6. S \ {s} # {}
  BY <1>4, <1>5, FS_EmptySet
<1>7. ArePiles(S \ {s}, k, P)
  BY <1>4 DEF ArePiles
<1>8. PICK t : t = PopOf(S \ {s})
  OBVIOUS
<1>9. t \in S \ {s}
  BY <1>6, <1>7, <1>8, PopIs
<1>10. PICK rest : rest = S \ {s, t}
  OBVIOUS
<1>11. rest = (S \ {s}) \ {t}
  BY <1>10
<1>12. IsFiniteSet(rest) /\ Cardinality(rest) = n - 2
  <2>1. IsFiniteSet(rest) /\ Cardinality(rest) = Cardinality(S \ {s}) - 1
    BY <1>4, <1>9, <1>11, FS_RemoveElement
  <2> QED
    BY <1>4, <1>5, <2>1
<1>13. PICK m : m = Merge(s, t)
  OBVIOUS
<1>14. IsState(m, k, P) /\ ItemsOf(m) = ItemsOf(s) \cup ItemsOf(t)
  <2>1. IsState(s, k, P) /\ IsState(t, k, P) /\ ItemsOf(s) \cap ItemsOf(t) = {}
    BY <1>3, <1>9 DEF ArePiles
  <2> QED
    BY <1>13, <2>1, MergeIs
<1>15. \A u \in rest : ItemsOf(u) \cap ItemsOf(m) = {} /\ u # m
  <2> TAKE u \in rest
  <2>1. ItemsOf(u) \cap ItemsOf(s) = {} /\ ItemsOf(u) \cap ItemsOf(t) = {}
    BY <1>3, <1>9, <1>10 DEF ArePiles
  <2>2. ItemsOf(s) # {}
    BY <1>3, StateHasItems DEF ArePiles
  <2> QED
    BY <1>14, <2>1, <2>2
<1>16. MergeTwo(S) = rest \cup {m}
  BY <1>2, <1>8, <1>10, <1>13 DEF MergeTwo
<1>17. IsFiniteSet(rest \cup {m}) /\ Cardinality(rest \cup {m}) = n - 1
  <2>1. m \notin rest
    BY <1>15
  <2>2. IsFiniteSet(rest \cup {m}) /\ Cardinality(rest \cup {m}) = Cardinality(rest) + 1
    BY <1>12, <2>1, FS_AddElement
  <2> QED
    BY <1>5, <1>12, <2>2
<1>18. ArePiles(rest \cup {m}, k, P)
  <2>1. \A u \in rest : IsState(u, k, P) /\ u \in S
    BY <1>10 DEF ArePiles
  <2>2. \A u, v \in rest : u # v => ItemsOf(u) \cap ItemsOf(v) = {}
    BY <2>1 DEF ArePiles
  <2> QED
    BY <1>14, <1>15, <1>17, <2>1, <2>2 DEF ArePiles
<1>19. AllItems(rest \cup {m}) = AllItems(S)
  <2>1. AllItems(rest \cup {m}) = AllItems(rest) \cup ItemsOf(m)
    BY DEF AllItems
  <2>2. S = rest \cup {s, t}
    BY <1>3, <1>9, <1>10
  <2>3. AllItems(S) = AllItems(rest) \cup ItemsOf(s) \cup ItemsOf(t)
    BY <2>2 DEF AllItems
  <2> QED
    BY <1>14, <2>1, <2>3
<1>20. s \in S /\ t \in S /\ s # t /\ rest \cup {m} \subseteq S \cup {Merge(s, t)}
  BY <1>3, <1>9, <1>10, <1>13
<1> QED
  BY <1>5, <1>16, <1>17, <1>18, <1>19, <1>20 DEF MergesTwo

Left(S, f, n) == IF n = 0 THEN S ELSE MergeTwo(f[n - 1])

(* Enough of a set for all that can be left.                               *)
MergeIf(X, k, P) == IF ArePiles(X, k, P) /\ Cardinality(X) >= 2 THEN MergeTwo(X) ELSE {}

(* What is left after each merger, down to the one that is given.          *)
Reduces(S, F, c, k, P) ==
  /\ F[0] = S /\ \A n \in 1..c : MergesTwo(F[n - 1], F[n], k, P)
  /\ \A n \in 0..c : ArePiles(F[n], k, P) /\ AllItems(F[n]) = AllItems(S)
  /\ F[c] = {Reduce(S)}

LEMMA ReduceRuns ==
  ASSUME NEW k \in Nat \ {0}, NEW P \in SUBSET Nat, NEW S, ArePiles(S, k, P), S # {}
  PROVE  \E c \in Nat : \E F : Reduces(S, F, c, k, P)
<1>1. IsFiniteSet(S) /\ Cardinality(S) \in Nat /\ Cardinality(S) # 0
  BY FS_CardinalityType, FS_EmptySet DEF ArePiles
<1>2. PICK c \in Nat : c + 1 = Cardinality(S) /\ c = Cardinality(S) - 1
  <2>1. Cardinality(S) - 1 \in Nat /\ (Cardinality(S) - 1) + 1 = Cardinality(S)
    BY <1>1
  <2> QED
    BY <2>1
<1>3. \E f : f = [n \in 0..c |-> Left(S, f, n)]
  <2>1. PICK W : \A s : IsState(s, k, P) => s \in W
    <3> DEFINE W == [1..k -> [items : Seq(P), sum : Nat]]
    <3>1. ASSUME NEW s, IsState(s, k, P) PROVE s \in W
      <4>1. DOMAIN s = 1..k /\ s \in Seq(Range(s)) /\ Len(s) = k /\ \A i \in 1..k : IsBin(s[i], P)
        BY <3>1 DEF IsState
      <4>2. \A i \in 1..k : s[i] \in [items : Seq(P), sum : Nat]
        BY <4>1 DEF IsBin
      <4>3. s = [i \in 1..k |-> s[i]]
        BY <4>1
      <4> QED
        BY <4>2, <4>3
    <3> QED
      BY <3>1
  <2>2. PICK V : V = SUBSET W
    OBVIOUS
  <2>3. \A X : ArePiles(X, k, P) => X \in V
    BY <2>1, <2>2 DEF ArePiles
  <2>4. PICK step : step = [p \in (1..c) \X V |-> MergeIf(p[2], k, P)]
    OBVIOUS
  <2>5. \A i \in 1..c, X \in V : step[<<i, X>>] = MergeIf(X, k, P)
    BY <2>4
  <2>6. \A X \in V : MergeIf(X, k, P) \in V
    BY <2>2, <2>3, MergeTwoIs DEF MergeIf, MergesTwo
  <2>7. step \in [(1..c) \X V -> V]
    BY <2>4, <2>6
  <2>8. S \in V
    BY <2>3
  <2>9. PICK f : FollowsUp(f, c, V, S, step, c)
    BY <2>7, <2>8, RecursionUp, Zenon
  <2>10. f \in [0..c -> V] /\ f[0] = S /\ \A i \in 1..c : f[i] = MergeIf(f[i - 1], k, P)
    <3>1. f \in [0..c -> V] /\ f[0] = S /\ \A i \in 1..c : f[i] = step[<<i, f[i - 1]>>]
      BY <2>9 DEF FollowsUp
    <3>2. \A i \in 1..c : i - 1 \in 0..c
      OBVIOUS
    <3> QED
      BY <2>5, <3>1, <3>2
  <2> DEFINE Fine(n) == ArePiles(f[n], k, P) /\ Cardinality(f[n]) = c + 1 - n /\ AllItems(f[n]) = AllItems(S)
             U == {n \in 0..c : ~Fine(n)}
  <2>11. U = {}
    <3> SUFFICES ASSUME U # {} PROVE FALSE
      OBVIOUS
    <3>1. U \in SUBSET Nat /\ \A n : n \in U <=> n \in 0..c /\ ~Fine(n)
      OBVIOUS
    <3> HIDE DEF U
    <3>2. PICK n \in U : \A j \in U : n <= j
      BY <3>1, LeastIn
    <3>3. n \in 0..c /\ ~Fine(n)
      BY <3>1
    <3>4. n # 0
      BY <1>2, <2>10, <3>3
    <3>5. n \in 1..c /\ n - 1 \in 0..c /\ n - 1 \notin U
      BY <3>2, <3>3, <3>4
    <3>6. Fine(n - 1)
      BY <3>1, <3>5
    <3>7. Cardinality(f[n - 1]) >= 2
      BY <3>5, <3>6
    <3>8. f[n] = MergeTwo(f[n - 1])
      BY <2>10, <3>5, <3>6, <3>7 DEF MergeIf
    <3>9. MergesTwo(f[n - 1], f[n], k, P)
      BY <3>6, <3>7, <3>8, MergeTwoIs
    <3>10. Fine(n)
      BY <3>5, <3>6, <3>9 DEF MergesTwo
    <3> QED
      BY <3>3, <3>10
  <2>12. \A n \in 0..c : Fine(n)
    BY <2>11
  <2>13. \A n \in 0..c : f[n] = Left(S, f, n)
    <3> TAKE n \in 0..c
    <3>1. CASE n = 0
      BY <2>10, <3>1 DEF Left
    <3>2. CASE n # 0
      <4>1. n \in 1..c /\ n - 1 \in 0..c
        BY <3>2
      <4>2. Fine(n - 1)
        BY <2>12, <4>1
      <4>3. Cardinality(f[n - 1]) >= 2
        BY <4>1, <4>2
      <4> QED
        BY <2>10, <3>2, <4>1, <4>2, <4>3 DEF MergeIf, Left
    <3> QED
      BY <3>1, <3>2
  <2>14. DOMAIN f = 0..c /\ f = [n \in 0..c |-> f[n]]
    BY <2>10
  <2>15. f = [n \in 0..c |-> Left(S, f, n)]
    <3>1. [n \in 0..c |-> f[n]] = [n \in 0..c |-> Left(S, f, n)]
      BY <2>13
    <3> QED
      BY <2>14, <3>1
  <2> QED
    BY <2>15
<1> DEFINE F == CHOOSE g : g = [n \in 0..c |-> Left(S, g, n)]
<1>4. F = [n \in 0..c |-> Left(S, F, n)]
  BY <1>3, Zenon
<1>5. Reduce(S) = CHOOSE s \in F[c] : TRUE
  BY <1>2 DEF Reduce, Left
<1> HIDE DEF F
<1>6. F[0] = S /\ \A n \in 1..c : F[n] = MergeTwo(F[n - 1])
  BY <1>4 DEF Left
<1> DEFINE Fine(n) == ArePiles(F[n], k, P) /\ Cardinality(F[n]) = c + 1 - n /\ AllItems(F[n]) = AllItems(S)
           U == {n \in 0..c : ~Fine(n)}
<1>7. U = {}
  <2> SUFFICES ASSUME U # {} PROVE FALSE
    OBVIOUS
  <2>1. U \in SUBSET Nat /\ \A n : n \in U <=> n \in 0..c /\ ~Fine(n)
    OBVIOUS
  <2> HIDE DEF U
  <2>2. PICK n \in U : \A j \in U : n <= j
    BY <2>1, LeastIn
  <2>3. n \in 0..c /\ ~Fine(n)
    BY <2>1
  <2>4. n # 0
    BY <1>2, <1>6, <2>3
  <2>5. n \in 1..c /\ n - 1 \in 0..c /\ n - 1 \notin U
    BY <2>2, <2>3, <2>4
  <2>6. Fine(n - 1)
    BY <2>1, <2>5
  <2>7. Cardinality(F[n - 1]) >= 2
    BY <2>5, <2>6
  <2>8. MergesTwo(F[n - 1], F[n], k, P)
    BY <1>6, <2>5, <2>6, <2>7, MergeTwoIs
  <2>9. Fine(n)
    BY <2>5, <2>6, <2>8 DEF MergesTwo
  <2> QED
    BY <2>3, <2>9
<1>8. \A n \in 0..c : Fine(n)
  BY <1>7
<1>9. ASSUME NEW n \in 1..c PROVE MergesTwo(F[n - 1], F[n], k, P)
  <2>1. n - 1 \in 0..c /\ n \in 0..c
    OBVIOUS
  <2>2. Cardinality(F[n - 1]) >= 2
    BY <1>8, <2>1
  <2> QED
    BY <1>6, <1>8, <2>1, <2>2, MergeTwoIs
<1>10. c \in 0..c /\ c + 1 - c = 1
  OBVIOUS
<1>11. PICK s : F[c] = {s}
  BY <1>8, <1>10, FS_Singleton DEF ArePiles
<1>12. F[c] = {Reduce(S)}
  BY <1>5, <1>11
<1>13. Reduces(S, F, c, k, P)
  BY <1>6, <1>8, <1>9, <1>12 DEF Reduces
<1> QED
  BY <1>13

LEMMA ReduceIs ==
  ASSUME NEW k \in Nat \ {0}, NEW P \in SUBSET Nat, NEW S, ArePiles(S, k, P), S # {}
  PROVE  IsState(Reduce(S), k, P) /\ ItemsOf(Reduce(S)) = AllItems(S)
<1>1. PICK c \in Nat : \E F : Reduces(S, F, c, k, P)
  BY ReduceRuns
<1>2. PICK F : Reduces(S, F, c, k, P)
  BY <1>1
<1>3. PICK X : X = F[c]
  OBVIOUS
<1>4. ArePiles(X, k, P) /\ X = {Reduce(S)} /\ AllItems(X) = AllItems(S)
  BY <1>2, <1>3 DEF Reduces
<1> QED
  BY <1>4 DEF ArePiles, AllItems

LEMMA Quotient ==
  ASSUME NEW m \in Nat, NEW k \in Nat \ {0}
  PROVE  /\ m \div k \in Nat /\ (m \div k) * k \in Nat /\ (m \div k) * k <= m
         /\ m < (m \div k) * k + k
         /\ m % k = m - (m \div k) * k
BY SMT

LEMMA QuotientOf ==
  ASSUME NEW q \in Nat, NEW k \in Nat \ {0}
  PROVE  q * k \in Nat /\ (q * k) \div k = q
BY SMT

LEMMA QuotientAtLeast ==
  ASSUME NEW m \in Nat, NEW k \in Nat \ {0}, k <= m
  PROVE  m \div k \in Nat \ {0}
<1>1. PICK q \in Nat : q = m \div k
  BY Quotient
<1>2. m < q * k + k
  BY <1>1, Quotient
<1>3. q # 0
  <2> SUFFICES ASSUME q = 0 PROVE FALSE
    OBVIOUS
  <2>1. q * k = 0
    OBVIOUS
  <2> QED
    BY <1>2, <2>1
<1> QED
  BY <1>1, <1>3

(* Rows of k places of 1..m.                                               *)
LEMMA RowPlaces ==
  ASSUME NEW m \in Nat, NEW k \in Nat \ {0}, NEW q \in Nat, q * k <= m
  PROVE  /\ \A r \in 0..(q - 1), j \in 1..k : r * k + j \in 1..m
         /\ \A r, t \in 0..(q - 1), i, j \in 1..k : r # t => r * k + i # t * k + j
<1>1. ASSUME NEW r \in 0..(q - 1)
      PROVE  r * k \in Nat /\ (r + 1) * k = r * k + k /\ r * k + k <= m
  <2>1. r \in Nat /\ r + 1 \in Nat /\ r + 1 <= q
    OBVIOUS
  <2>2. (r + 1) * k <= q * k /\ q * k \in Int
    BY <2>1, TimesMonotone
  <2>3. r * k \in Nat /\ (r + 1) * k = r * k + k
    BY <2>1
  <2> QED
    BY <2>2, <2>3
<1>2. ASSUME NEW r \in 0..(q - 1), NEW t \in 0..(q - 1), r < t
      PROVE  r * k + k <= t * k
  <2>1. r + 1 \in Int /\ t \in Int /\ r + 1 <= t
    BY <1>2
  <2>2. (r + 1) * k <= t * k
    BY <2>1, TimesMonotone
  <2> QED
    BY <1>1, <2>2
<1>3. ASSUME NEW r \in 0..(q - 1), NEW t \in 0..(q - 1), NEW i \in 1..k, NEW j \in 1..k, r < t
      PROVE  r * k + i < t * k + j
  <2>1. r * k \in Nat /\ t * k \in Nat /\ r * k + k <= t * k
    BY <1>1, <1>2, <1>3
  <2> QED
    BY <2>1
<1>4. ASSUME NEW r \in 0..(q - 1), NEW j \in 1..k
      PROVE  r * k + j \in 1..m
  <2>1. r * k \in Nat /\ r * k + k <= m
    BY <1>1
  <2> QED
    BY <2>1
<1>5. ASSUME NEW r \in 0..(q - 1), NEW t \in 0..(q - 1), NEW i \in 1..k, NEW j \in 1..k, r # t
      PROVE  r * k + i # t * k + j
  <2>1. r * k \in Nat /\ t * k \in Nat
    BY <1>1
  <2>2. CASE r < t
    BY <1>3, <2>1, <2>2
  <2>3. CASE t < r
    BY <1>3, <2>1, <2>3
  <2> QED
    BY <1>5, <2>2, <2>3
<1> QED
  BY <1>4, <1>5

SumUpTo(s, f, n) == IF n = 0 THEN 0 ELSE f[n - 1] + s[n]

(* Sums, by their prefixes.                                                *)
AreSums(f, s, n) == f[0] = 0 /\ (\A i \in 0..n : f[i] \in Nat) /\ \A i \in 1..n : f[i] = f[i - 1] + s[i]

LEMMA SumsAgree ==
  ASSUME NEW n \in Nat, NEW s, \A i \in 1..n : s[i] \in Nat, NEW f, NEW h, AreSums(f, s, n), AreSums(h, s, n)
  PROVE  f[n] = h[n]
<1> DEFINE U == {i \in 0..n : f[i] # h[i]}
<1>1. U = {}
  <2> SUFFICES ASSUME U # {} PROVE FALSE
    OBVIOUS
  <2>1. U \in SUBSET Nat /\ \A i : i \in U <=> i \in 0..n /\ f[i] # h[i]
    OBVIOUS
  <2> HIDE DEF U
  <2>2. PICK i \in U : \A j \in U : i <= j
    BY <2>1, LeastIn
  <2>3. i \in 0..n /\ f[i] # h[i] /\ i # 0
    BY <2>1 DEF AreSums
  <2>4. i \in 1..n /\ i - 1 \in 0..n /\ i - 1 \notin U
    BY <2>2, <2>3
  <2>5. f[i - 1] = h[i - 1]
    BY <2>1, <2>4
  <2> QED
    BY <2>3, <2>4, <2>5 DEF AreSums
<1>2. n \in 0..n
  OBVIOUS
<1> QED
  BY <1>1, <1>2

LEMMA SumHasPrefixes ==
  ASSUME NEW s \in Seq(Nat)
  PROVE  \E f : AreSums(f, s, Len(s)) /\ SumOver(s) = f[Len(s)]
<1>1. PICK n \in Nat : n = Len(s) /\ \A i \in 1..n : s[i] \in Nat
  <2>1. Len(s) \in Nat /\ \A i \in 1..Len(s) : s[i] \in Nat
    OBVIOUS
  <2> QED
    BY <2>1
<1>2. PICK step : step = [p \in (1..n) \X Nat |-> p[2] + s[p[1]]]
  OBVIOUS
<1>3. step \in [(1..n) \X Nat -> Nat] /\ 0 \in Nat
  BY <1>1, <1>2
<1>4. PICK V : V = Nat
  OBVIOUS
<1>5. PICK base : base = 0
  OBVIOUS
<1>6. step \in [(1..n) \X V -> V] /\ base \in V
  BY <1>3, <1>4, <1>5
<1>7. PICK f : FollowsUp(f, n, V, base, step, n)
  BY <1>6, RecursionUp, Zenon
<1>8. f \in [0..n -> Nat] /\ f[0] = 0 /\ \A i \in 1..n : f[i] = f[i - 1] + s[i]
  <2>1. f \in [0..n -> Nat] /\ f[0] = 0 /\ \A i \in 1..n : f[i] = step[<<i, f[i - 1]>>]
    BY <1>4, <1>5, <1>7 DEF FollowsUp
  <2>2. \A i \in 1..n : i - 1 \in 0..n
    OBVIOUS
  <2> QED
    BY <1>2, <2>1, <2>2
<1>9. f = [i \in 0..n |-> SumUpTo(s, f, i)]
  <2>1. f = [i \in 0..n |-> f[i]]
    BY <1>8
  <2>2. \A i \in 0..n : f[i] = SumUpTo(s, f, i)
    <3> TAKE i \in 0..n
    <3>1. i = 0 \/ i \in 1..n
      OBVIOUS
    <3> QED
      BY <1>8, <3>1 DEF SumUpTo
  <2>3. [i \in 0..n |-> f[i]] = [i \in 0..n |-> SumUpTo(s, f, i)]
    BY <2>2
  <2> QED
    BY <2>1, <2>3
<1> DEFINE F == CHOOSE g : g = [i \in 0..n |-> SumUpTo(s, g, i)]
<1>10. F = [i \in 0..n |-> SumUpTo(s, F, i)]
  BY <1>9, Zenon
<1>11. SumOver(s) = F[n]
  BY <1>1 DEF SumOver, SumUpTo
<1> HIDE DEF F
<1>12. F[0] = 0 /\ \A i \in 1..n : F[i] = F[i - 1] + s[i]
  BY <1>10 DEF SumUpTo
<1> DEFINE U == {i \in 0..n : F[i] \notin Nat}
<1>13. U = {}
  <2> SUFFICES ASSUME U # {} PROVE FALSE
    OBVIOUS
  <2>1. U \in SUBSET Nat /\ \A i : i \in U <=> i \in 0..n /\ F[i] \notin Nat
    OBVIOUS
  <2> HIDE DEF U
  <2>2. PICK i \in U : \A j \in U : i <= j
    BY <2>1, LeastIn
  <2>3. i \in 0..n /\ F[i] \notin Nat /\ i # 0
    BY <1>12, <2>1
  <2>4. i \in 1..n /\ i - 1 \in 0..n /\ i - 1 \notin U
    BY <2>2, <2>3
  <2>5. F[i - 1] \in Nat
    BY <2>1, <2>4
  <2> QED
    BY <1>1, <1>12, <2>3, <2>4, <2>5
<1>14. AreSums(F, s, n)
  BY <1>12, <1>13 DEF AreSums
<1> QED
  BY <1>1, <1>11, <1>14

LEMMA SumIs ==
  ASSUME NEW s \in Seq(Nat)
  PROVE  SumOver(s) \in Nat
<1>1. PICK f : AreSums(f, s, Len(s)) /\ SumOver(s) = f[Len(s)]
  BY SumHasPrefixes
<1>2. Len(s) \in 0..Len(s)
  OBVIOUS
<1> QED
  BY <1>1, <1>2 DEF AreSums

(* Whatever has the prefixes' sums has the sum.                            *)
LEMMA SumFrom ==
  ASSUME NEW n \in Nat, NEW s \in Seq(Nat), Len(s) = n, NEW f, AreSums(f, s, n)
  PROVE  SumOver(s) = f[n]
<1>1. PICK h : AreSums(h, s, n) /\ SumOver(s) = h[n]
  BY SumHasPrefixes
<1>2. \A i \in 1..n : s[i] \in Nat
  OBVIOUS
<1> QED
  BY <1>1, <1>2, SumsAgree

AreAdded(u, s, t, n) == \A i \in 1..n : u[i] = s[i] + t[i]

LEMMA SumsAdd ==
  ASSUME NEW n \in Nat, NEW s \in Seq(Nat), NEW t \in Seq(Nat), NEW u \in Seq(Nat),
         Len(s) = n, Len(t) = n, Len(u) = n, AreAdded(u, s, t, n)
  PROVE  SumOver(u) = SumOver(s) + SumOver(t)
<1>1. PICK f : AreSums(f, s, n) /\ SumOver(s) = f[n]
  BY SumHasPrefixes
<1>2. PICK h : AreSums(h, t, n) /\ SumOver(t) = h[n]
  BY SumHasPrefixes
<1>3. PICK e : e = [i \in 0..n |-> f[i] + h[i]]
  OBVIOUS
<1>4. \A i \in 0..n : e[i] = f[i] + h[i] /\ f[i] \in Nat /\ h[i] \in Nat
  BY <1>1, <1>2, <1>3 DEF AreSums
<1>5. \A i \in 1..n : i \in 0..n /\ i - 1 \in 0..n /\ s[i] \in Nat /\ t[i] \in Nat
  OBVIOUS
<1>6. ASSUME NEW i \in 1..n PROVE e[i] = e[i - 1] + u[i]
  <2>1. f[i] = f[i - 1] + s[i] /\ h[i] = h[i - 1] + t[i]
    BY <1>1, <1>2 DEF AreSums
  <2>2. u[i] = s[i] + t[i]
    BY DEF AreAdded
  <2>3. PICK a, b, c, d : a = f[i - 1] /\ b = h[i - 1] /\ c = s[i] /\ d = t[i]
    OBVIOUS
  <2>4. {a, b, c, d} \subseteq Nat
    BY <1>4, <1>5, <2>3
  <2>5. e[i] = (a + c) + (b + d) /\ e[i - 1] = a + b
    BY <1>4, <1>5, <2>1, <2>3
  <2>6. (a + c) + (b + d) = (a + b) + (c + d)
    BY <2>4
  <2> QED
    BY <2>2, <2>3, <2>5, <2>6
<1>7. 0 \in 0..n /\ n \in 0..n
  OBVIOUS
<1>8. AreSums(e, u, n)
  <2>1. e[0] = 0
    BY <1>1, <1>2, <1>4, <1>7 DEF AreSums
  <2>2. ASSUME NEW i \in 0..n PROVE e[i] \in Nat
    <3>1. PICK a, b : a = f[i] /\ b = h[i]
      OBVIOUS
    <3>2. a \in Nat /\ b \in Nat /\ e[i] = a + b
      BY <1>4, <3>1
    <3> QED
      BY <3>2
  <2> QED
    BY <1>6, <2>1, <2>2 DEF AreSums
<1> QED
  BY <1>1, <1>2, <1>4, <1>7, <1>8, SumFrom

LEMMA SumOfOne ==
  ASSUME NEW n \in Nat, NEW s \in Seq(Nat), Len(s) = n, NEW p \in 1..n, \A i \in 1..n : i # p => s[i] = 0
  PROVE  SumOver(s) = s[p]
<1>1. PICK f : f = [i \in 0..n |-> IF i < p THEN 0 ELSE s[p]]
  OBVIOUS
<1>2. s[p] \in Nat /\ p \in Nat \ {0} /\ p <= n
  OBVIOUS
<1>3. ASSUME NEW i \in 1..n PROVE f[i] = f[i - 1] + s[i]
  <2>1. i \in 0..n /\ i - 1 \in 0..n
    OBVIOUS
  <2>2. CASE i = p
    BY <1>1, <1>2, <2>1, <2>2
  <2>3. CASE i # p
    BY <1>1, <1>2, <2>1, <2>3
  <2> QED
    BY <2>2, <2>3
<1>4. AreSums(f, s, n)
  BY <1>1, <1>2, <1>3 DEF AreSums
<1> QED
  BY <1>1, <1>2, <1>4, SumFrom

(* The sum of g in a row is the difference of two sums.                    *)
LEMMA SumOfPart ==
  ASSUME NEW n \in Nat, NEW b, \A i \in 1..n : b[i] \in Nat, NEW f, AreSums(f, b, n),
         NEW w \in Nat, NEW g \in Nat, w + g <= n
  PROVE  SumOver([m \in 1..g |-> b[w + m]]) = f[w + g] - f[w] /\ f[w + g] \in Nat /\ f[w] \in Nat
<1>16. PICK e : e = [m \in 1..g |-> b[w + m]]
  OBVIOUS
<1>1. \A m \in 1..g : w + m \in 1..n
  OBVIOUS
<1>2. \A m \in 1..g : e[m] = b[w + m] /\ e[m] \in Nat
  BY <1>1, <1>16
<1>3. e \in Seq(Nat) /\ Len(e) = g
  BY <1>2, <1>16
<1>4. \A m \in 0..g : w + m \in 0..n
  OBVIOUS
<1>5. \A m \in 0..g : f[w + m] \in Nat
  BY <1>4 DEF AreSums
<1>6. \A m \in 1..g : f[w + m] = f[w + (m - 1)] + e[m]
  <2> TAKE m \in 1..g
  <2>1. PICK i : i = w + m
    OBVIOUS
  <2>2. i \in 1..n /\ i - 1 = w + (m - 1)
    BY <1>1, <2>1
  <2>3. f[i] = f[i - 1] + b[i]
    BY <2>2 DEF AreSums
  <2> QED
    BY <1>2, <2>1, <2>2, <2>3
<1>7. w + 0 = w /\ 0 \in 0..g /\ g \in 0..g
  OBVIOUS
<1>8. PICK z \in Nat : z = f[w]
  BY <1>5, <1>7
<1>9. \A m \in 0..g : f[w + m] >= z
  <2> DEFINE U == {m \in 0..g : ~(f[w + m] >= z)}
  <2>1. U = {}
    <3> SUFFICES ASSUME U # {} PROVE FALSE
      OBVIOUS
    <3>1. U \in SUBSET Nat /\ \A m : m \in U <=> m \in 0..g /\ ~(f[w + m] >= z)
      OBVIOUS
    <3> HIDE DEF U
    <3>2. PICK m \in U : \A j \in U : m <= j
      BY <3>1, LeastIn
    <3>3. m \in 0..g /\ ~(f[w + m] >= z)
      BY <3>1
    <3>4. m # 0
      BY <1>7, <1>8, <3>3
    <3>5. m \in 1..g /\ m - 1 \in 0..g /\ m - 1 \notin U
      BY <3>2, <3>3, <3>4
    <3>6. PICK x, y, v : x = f[w + (m - 1)] /\ y = e[m] /\ v = f[w + m]
      OBVIOUS
    <3>7. x \in Nat /\ y \in Nat /\ v = x + y /\ x >= z
      BY <1>2, <1>5, <1>6, <3>1, <3>5, <3>6
    <3>8. v >= z
      BY <1>8, <3>7
    <3> QED
      BY <3>3, <3>6, <3>8
  <2> QED
    BY <2>1
<1>10. PICK d : d = [m \in 0..g |-> f[w + m] - z]
  OBVIOUS
<1>11. ASSUME NEW m \in 1..g PROVE d[m] = d[m - 1] + e[m]
  <2>1. PICK x, y, v : x = f[w + (m - 1)] /\ y = e[m] /\ v = f[w + m]
    OBVIOUS
  <2>2. m \in 0..g /\ m - 1 \in 0..g
    OBVIOUS
  <2>3. d[m] = v - z /\ d[m - 1] = x - z
    BY <1>10, <2>1, <2>2
  <2>4. x \in Nat /\ y \in Nat /\ v = x + y
    BY <1>2, <1>5, <1>6, <2>1, <2>2
  <2>5. v - z = (x - z) + y
    BY <1>8, <2>4
  <2> QED
    BY <2>1, <2>3, <2>5
<1>12. ASSUME NEW m \in 0..g PROVE d[m] \in Nat
  <2>1. PICK v \in Nat : v = f[w + m]
    BY <1>5
  <2>2. v >= z /\ d[m] = v - z
    BY <1>9, <1>10, <2>1
  <2> QED
    BY <1>8, <2>2
<1>13. d[0] = 0 /\ d[g] = f[w + g] - z
  BY <1>7, <1>8, <1>10
<1>14. AreSums(d, e, g)
  BY <1>11, <1>12, <1>13 DEF AreSums
<1>15. SumOver(e) = d[g]
  BY <1>3, <1>14, SumFrom
<1> QED
  BY <1>5, <1>7, <1>8, <1>13, <1>15, <1>16

(* A sum in blocks of g.                                                   *)
AreBlockSums(sums, b, l, g) == \A y \in 1..l : sums[y] = SumOver([m \in 1..g |-> b[(y - 1) * g + m]])

LEMMA SumInBlocks ==
  ASSUME NEW l \in Nat, NEW g \in Nat, NEW n \in Nat, n = l * g, NEW b \in Seq(Nat), Len(b) = n,
         NEW sums \in Seq(Nat), Len(sums) = l,
         AreBlockSums(sums, b, l, g)
  PROVE  SumOver(b) = SumOver(sums)
<1>1. n = l * g
  OBVIOUS
<1>2. PICK f : AreSums(f, b, n) /\ SumOver(b) = f[n]
  BY <1>1, SumHasPrefixes
<1>3. PICK h : h = [y \in 0..l |-> f[y * g]]
  OBVIOUS
<1>4. \A y \in 0..l : y * g \in 0..n
  <2> TAKE y \in 0..l
  <2>1. y * g <= l * g /\ y * g \in Nat
    BY TimesMonotone
  <2> QED
    BY <1>1, <2>1
<1>5. ASSUME NEW y \in 1..l PROVE h[y] = h[y - 1] + sums[y]
  <2>1. PICK w \in Nat : w = (y - 1) * g /\ y * g = w + g
    OBVIOUS
  <2>2. y - 1 \in 0..l /\ y \in 0..l
    OBVIOUS
  <2>3. w + g <= n
    BY <1>4, <2>1, <2>2
  <2>5. \A i \in 1..n : b[i] \in Nat
    BY <1>1
  <2>10. AreSums(f, b, n)
    BY <1>2
  <2>6. SumOver([m \in 1..g |-> b[w + m]]) = f[w + g] - f[w] /\ f[w + g] \in Nat /\ f[w] \in Nat
    BY <2>3, <2>5, <2>10, SumOfPart
  <2>8. sums[y] = SumOver([m \in 1..g |-> b[w + m]])
    BY <2>1 DEF AreBlockSums
  <2>9. h[y] = f[w + g] /\ h[y - 1] = f[w]
    BY <1>3, <2>1, <2>2
  <2> QED
    BY <2>6, <2>8, <2>9
<1>6. \A y \in 0..l : h[y] \in Nat
  BY <1>2, <1>3, <1>4 DEF AreSums
<1>7. h[0] = 0 /\ h[l] = f[n]
  <2>1. 0 * g = 0 /\ 0 \in 0..l /\ l \in 0..l
    OBVIOUS
  <2> QED
    BY <1>1, <1>2, <1>3, <2>1 DEF AreSums
<1>8. AreSums(h, sums, l)
  BY <1>5, <1>6, <1>7 DEF AreSums
<1> QED
  BY <1>2, <1>7, <1>8, SumFrom

-----------------------------------------------------------------------------
(* The sum of the weights of the places in I.                              *)
Masked(w, m, I) == [i \in 1..m |-> IF i \in I THEN w[i] ELSE 0]
Weight(w, m, I) == SumOver(Masked(w, m, I))

LEMMA MaskedIs ==
  ASSUME NEW m \in Nat, NEW w \in [1..m -> Nat], NEW I
  PROVE  /\ Masked(w, m, I) \in Seq(Nat) /\ Len(Masked(w, m, I)) = m
         /\ \A i \in 1..m : Masked(w, m, I)[i] = IF i \in I THEN w[i] ELSE 0
<1>1. \A i \in 1..m : w[i] \in Nat
  OBVIOUS
<1>2. \A i \in 1..m : (IF i \in I THEN w[i] ELSE 0) \in Nat
  BY <1>1
<1> QED
  BY <1>2 DEF Masked

LEMMA WeightAdds ==
  ASSUME NEW m \in Nat, NEW w \in [1..m -> Nat], NEW I, NEW J, I \cap J = {}
  PROVE  /\ Weight(w, m, I) \in Nat /\ Weight(w, m, J) \in Nat
         /\ Weight(w, m, I \cup J) = Weight(w, m, I) + Weight(w, m, J)
<1>8. PICK K : K = I \cup J
  OBVIOUS
<1>1. PICK s, t, u : s = Masked(w, m, I) /\ t = Masked(w, m, J) /\ u = Masked(w, m, K)
  OBVIOUS
<1>2. s \in Seq(Nat) /\ Len(s) = m /\ \A i \in 1..m : s[i] = IF i \in I THEN w[i] ELSE 0
  BY <1>1, MaskedIs
<1>3. t \in Seq(Nat) /\ Len(t) = m /\ \A i \in 1..m : t[i] = IF i \in J THEN w[i] ELSE 0
  BY <1>1, MaskedIs
<1>4. u \in Seq(Nat) /\ Len(u) = m /\ \A i \in 1..m : u[i] = IF i \in K THEN w[i] ELSE 0
  BY <1>1, MaskedIs
<1>5. ASSUME NEW i \in 1..m PROVE u[i] = s[i] + t[i]
  <2>1. PICK x \in Nat : x = w[i]
    OBVIOUS
  <2>2. ~(i \in I /\ i \in J)
    OBVIOUS
  <2>3. x + 0 = x /\ 0 + x = x /\ 0 + 0 = 0
    OBVIOUS
  <2> QED
    BY <1>2, <1>3, <1>4, <1>8, <2>1, <2>2, <2>3
<1>6. SumOver(u) = SumOver(s) + SumOver(t)
  <2>1. AreAdded(u, s, t, m)
    BY <1>5 DEF AreAdded
  <2>2. s \in Seq(Nat) /\ t \in Seq(Nat) /\ u \in Seq(Nat) /\ Len(s) = m /\ Len(t) = m /\ Len(u) = m
    BY <1>2, <1>3, <1>4
  <2> QED
    BY <2>1, <2>2, SumsAdd
<1>7. SumOver(s) \in Nat /\ SumOver(t) \in Nat
  BY <1>2, <1>3, SumIs
<1> QED
  BY <1>1, <1>6, <1>7, <1>8 DEF Weight

LEMMA WeightOfOne ==
  ASSUME NEW m \in Nat, NEW w \in [1..m -> Nat], NEW p \in 1..m
  PROVE  Weight(w, m, {p}) = w[p]
<1>1. PICK s : s = Masked(w, m, {p})
  OBVIOUS
<1>2. s \in Seq(Nat) /\ Len(s) = m /\ \A i \in 1..m : s[i] = IF i \in {p} THEN w[i] ELSE 0
  BY <1>1, MaskedIs
<1>3. (\A i \in 1..m : i # p => s[i] = 0) /\ s[p] = w[p]
  BY <1>2
<1>4. SumOver(s) = s[p]
  BY <1>2, <1>3, SumOfOne
<1> QED
  BY <1>1, <1>3, <1>4 DEF Weight

LEMMA WeightOfNone ==
  ASSUME NEW m \in Nat, NEW w \in [1..m -> Nat]
  PROVE  Weight(w, m, {}) = 0
<1>1. PICK I : I = {}
  OBVIOUS
<1>2. I \cup I = I /\ I \cap I = {}
  BY <1>1
<1>4. PICK x : x = Weight(w, m, I)
  OBVIOUS
<1>3. x \in Nat /\ x = x + x
  <2>1. /\ Weight(w, m, I) \in Nat
        /\ Weight(w, m, I \cup I) = Weight(w, m, I) + Weight(w, m, I)
    BY <1>2, WeightAdds
  <2> QED
    BY <1>2, <1>4, <2>1
<1> QED
  BY <1>1, <1>3, <1>4

(* A list of different places has their weight.                            *)
Placed(w, a, l) == [y \in 1..l |-> w[a[y]]]
ArePlaces(a, l, m) ==
  DOMAIN a = 1..l /\ (\A y \in 1..l : a[y] \in 1..m) /\ \A x, y \in 1..l : x # y => a[x] # a[y]

LEMMA WeightOfList ==
  ASSUME NEW m \in Nat, NEW w \in [1..m -> Nat], NEW l \in Nat, NEW a, ArePlaces(a, l, m)
  PROVE  SumOver(Placed(w, a, l)) = Weight(w, m, Range(a))
<1>14. PICK e : e = Placed(w, a, l)
  OBVIOUS
<1>1. e = [y \in 1..l |-> w[a[y]]]
  BY <1>14 DEF Placed
<1>15. DOMAIN a = 1..l /\ (\A y \in 1..l : a[y] \in 1..m) /\ \A x, y \in 1..l : x # y => a[x] # a[y]
  BY DEF ArePlaces
<1>2. \A y \in 1..l : e[y] = w[a[y]] /\ e[y] \in Nat
  BY <1>1, <1>15
<1>3. e \in Seq(Nat) /\ Len(e) = l
  BY <1>1, <1>2
<1>4. PICK R : R = [y \in 0..l |-> {a[x] : x \in 1..y}]
  OBVIOUS
<1>5. PICK f : f = [y \in 0..l |-> Weight(w, m, R[y])]
  OBVIOUS
<1>6. R[0] = {} /\ R[l] = Range(a)
  <2>1. 0 \in 0..l /\ l \in 0..l /\ \A x : x \notin 1..0
    OBVIOUS
  <2>2. R[0] = {}
    BY <1>4, <2>1
  <2>3. R[l] = {a[x] : x \in 1..l}
    BY <1>4, <2>1
  <2> QED
    BY <1>15, <2>2, <2>3 DEF Range
<1>7. ASSUME NEW y \in 1..l PROVE R[y] = R[y - 1] \cup {a[y]} /\ R[y - 1] \cap {a[y]} = {}
  <2>1. y \in 0..l /\ y - 1 \in 0..l
    OBVIOUS
  <2>2. R[y] = {a[x] : x \in 1..y} /\ R[y - 1] = {a[x] : x \in 1..(y - 1)}
    BY <1>4, <2>1
  <2>3. \A x : x \in 1..y <=> x \in 1..(y - 1) \/ x = y
    OBVIOUS
  <2>4. \A x \in 1..(y - 1) : x \in 1..l /\ x # y
    OBVIOUS
  <2>5. \A x \in 1..(y - 1) : a[x] # a[y]
    BY <1>15, <2>4
  <2>6. R[y] = R[y - 1] \cup {a[y]}
    BY <2>2, <2>3
  <2>7. a[y] \notin R[y - 1]
    BY <2>2, <2>5
  <2> QED
    BY <2>6, <2>7
<1>8. ASSUME NEW y \in 1..l PROVE f[y] = f[y - 1] + e[y]
  <2>1. y \in 0..l /\ y - 1 \in 0..l
    OBVIOUS
  <2>2. f[y] = Weight(w, m, R[y - 1] \cup {a[y]}) /\ f[y - 1] = Weight(w, m, R[y - 1])
    BY <1>5, <1>7, <2>1
  <2>3. Weight(w, m, R[y - 1] \cup {a[y]}) = Weight(w, m, R[y - 1]) + Weight(w, m, {a[y]})
    <3>1. PICK I, J : I = R[y - 1] /\ J = {a[y]}
      OBVIOUS
    <3>2. I \cap J = {}
      BY <1>7, <3>1
    <3>3. Weight(w, m, I \cup J) = Weight(w, m, I) + Weight(w, m, J)
      BY <3>2, WeightAdds
    <3> QED
      BY <3>1, <3>3
  <2>4. Weight(w, m, {a[y]}) = e[y]
    BY <1>2, <1>15, WeightOfOne
  <2> QED
    BY <2>2, <2>3, <2>4
<1>9. \A I : Weight(w, m, I) \in Nat
  <2> TAKE I
  <2>1. I \cap {} = {}
    OBVIOUS
  <2> QED
    BY <2>1, WeightAdds
<1>10. 0 \in 0..l /\ l \in 0..l
  OBVIOUS
<1>11. f[0] = 0 /\ f[l] = Weight(w, m, Range(a)) /\ \A y \in 0..l : f[y] \in Nat
  BY <1>5, <1>6, <1>9, <1>10, WeightOfNone
<1>12. AreSums(f, e, l)
  BY <1>8, <1>11 DEF AreSums
<1>13. SumOver(e) = f[l]
  BY <1>3, <1>12, SumFrom
<1> QED
  BY <1>11, <1>13, <1>14

-----------------------------------------------------------------------------
(* The rounds of the Karmarkar-Karp partition.                            *)

ByLength(lengths) ==
  {p \in (DOMAIN lengths) \X (DOMAIN lengths) :
     \/ lengths[p[1]] < lengths[p[2]]
     \/ lengths[p[1]] = lengths[p[2]] /\ p[1] < p[2]}

LEMMA ByLengthIsAnOrder ==
  ASSUME NEW m \in Nat, NEW lengths \in [1..m -> Nat]
  PROVE  IsOrder(ByLength(lengths), 1..m)
<1>1. \A i, j \in 1..m : <<i, j>> \in ByLength(lengths)
                         <=> lengths[i] < lengths[j] \/ (lengths[i] = lengths[j] /\ i < j)
  BY DEF ByLength
<1>2. \A i \in 1..m : lengths[i] \in Nat /\ i \in Nat
  OBVIOUS
<1>3. \A i \in 1..m : <<i, i>> \notin ByLength(lengths)
  BY <1>1, <1>2
<1>4. \A i, j, l \in 1..m : <<i, j>> \in ByLength(lengths) /\ <<j, l>> \in ByLength(lengths)
                            => <<i, l>> \in ByLength(lengths)
  <2> TAKE i, j, l \in 1..m
  <2> HAVE <<i, j>> \in ByLength(lengths) /\ <<j, l>> \in ByLength(lengths)
  <2>1. PICK x, y, z : x = lengths[i] /\ y = lengths[j] /\ z = lengths[l]
    OBVIOUS
  <2>2. {x, y, z, i, j, l} \subseteq Nat
    BY <1>2, <2>1
  <2>3. (x < y \/ (x = y /\ i < j)) /\ (y < z \/ (y = z /\ j < l))
    BY <1>1, <2>1
  <2>4. x < z \/ (x = z /\ i < l)
    BY <2>2, <2>3
  <2> QED
    BY <1>1, <2>1, <2>4
<1>5. \A i, j \in 1..m : i # j => <<i, j>> \in ByLength(lengths) \/ <<j, i>> \in ByLength(lengths)
  BY <1>1, <1>2
<1> QED
  BY <1>3, <1>4, <1>5 DEF IsOrder

RowOf(order, lengths, k, r) == {Bin(order[r * k + j], lengths) : j \in 1..k}

LEMMA ItemsInRange ==
  ASSUME NEW k, NEW f, DOMAIN f = 1..k
  PROVE  \A x : x \in ItemsIn(Range(f)) <=> \E j \in 1..k : x \in Range(f[j].items)
BY DEF ItemsIn, Range

(* Bins of one place each.                                                 *)
AreSingle(S, k, lengths, m) == \A s \in S : \A i \in 1..k : \E p \in 1..m : s[i] = Bin(p, lengths)

LEMMA RoundsAre ==
  ASSUME NEW m \in Nat, NEW lengths \in [1..m -> Nat], NEW k \in Nat \ {0}, k <= m
  PROVE  /\ ArePiles(Rounds(lengths, k), k, 1..m) /\ Rounds(lengths, k) # {}
         /\ AreSingle(Rounds(lengths, k), k, lengths, m)
         /\ (m \div k) * k = m => AllItems(Rounds(lengths, k)) = 1..m
<1>1. DOMAIN lengths = 1..m /\ Len(lengths) = m
  OBVIOUS
<1>2. PICK order : order = InOrder(1..m, ByLength(lengths))
  OBVIOUS
<1>3. IsInOrder(order, 1..m, ByLength(lengths)) /\ Cardinality(1..m) = m
  <2>1. IsFiniteSet(1..m) /\ Cardinality(1..m) = m
    BY FS_Interval
  <2>2. IsInOrder(InOrder(1..m, ByLength(lengths)), 1..m, ByLength(lengths))
    BY <2>1, ByLengthIsAnOrder, InOrderFacts
  <2> QED
    BY <1>2, <2>1, <2>2
<1>4. order \in [1..m -> 1..m] /\ \A i, j \in 1..m : i # j => order[i] # order[j]
  <2>1. order \in [1..m -> 1..m] /\ \A i, j \in 1..m : i < j => order[i] # order[j]
    BY <1>3 DEF IsInOrder
  <2>2. ASSUME NEW i \in 1..m, NEW j \in 1..m, i # j PROVE order[i] # order[j]
    <3>1. i < j \/ j < i
      BY <2>2
    <3> QED
      BY <2>1, <3>1
  <2> QED
    BY <2>1, <2>2
<1>5. PICK q \in Nat \ {0} : q = m \div k
  BY QuotientAtLeast
<1>6. q * k <= m
  BY <1>5, Quotient
<1>7. Rounds(lengths, k) = {State(RowOf(order, lengths, k, r)) : r \in 0..(q - 1)}
  BY <1>1, <1>2, <1>5 DEF Rounds, ByLength, RowOf
<1>8. \A r \in 0..(q - 1), j \in 1..k : r * k + j \in 1..m
  BY <1>6, RowPlaces
<1>9. \A r, t \in 0..(q - 1), i, j \in 1..k : r # t => r * k + i # t * k + j
  BY <1>6, RowPlaces
<1>10. \A p \in 1..m : IsBin(Bin(p, lengths), 1..m) /\ Range(Bin(p, lengths).items) = {p}
  <2> TAKE p \in 1..m
  <2>1. Bin(p, lengths).items = <<p>> /\ Bin(p, lengths).sum = lengths[p]
        /\ Bin(p, lengths) = [items |-> Bin(p, lengths).items, sum |-> Bin(p, lengths).sum]
    BY DEF Bin
  <2>2. <<p>> \in Seq(1..m) /\ Len(<<p>>) = 1 /\ Range(<<p>>) = {p} /\ lengths[p] \in Nat
    BY DEF Range
  <2> QED
    BY <2>1, <2>2 DEF IsBin
<1>11. ASSUME NEW r \in 0..(q - 1)
       PROVE  /\ IsState(State(RowOf(order, lengths, k, r)), k, 1..m)
              /\ ItemsOf(State(RowOf(order, lengths, k, r))) = {order[r * k + j] : j \in 1..k}
              /\ Range(State(RowOf(order, lengths, k, r))) = RowOf(order, lengths, k, r)
  <2>1. PICK f : f = [j \in 1..k |-> Bin(order[r * k + j], lengths)]
    OBVIOUS
  <2>2. DOMAIN f = 1..k /\ \A j \in 1..k : f[j] = Bin(order[r * k + j], lengths)
    BY <2>1
  <2>3. Range(f) = RowOf(order, lengths, k, r)
    BY <2>2 DEF Range, RowOf
  <2>4. \A j \in 1..k : IsBin(f[j], 1..m) /\ Range(f[j].items) = {order[r * k + j]}
    <3> TAKE j \in 1..k
    <3>1. PICK p : p = order[r * k + j]
      OBVIOUS
    <3>2. p \in 1..m /\ f[j] = Bin(p, lengths)
      BY <1>4, <1>8, <2>2, <3>1
    <3> QED
      BY <1>10, <3>1, <3>2
  <2>5. \A i, j \in 1..k : i # j => order[r * k + i] # order[r * k + j]
    <3> TAKE i, j \in 1..k
    <3> HAVE i # j
    <3>1. r * k \in Nat
      OBVIOUS
    <3>2. r * k + i # r * k + j
      BY <3>1
    <3>3. r * k + i \in 1..m /\ r * k + j \in 1..m
      BY <1>8
    <3> QED
      BY <1>4, <3>2, <3>3
  <2>6. \A i, j \in 1..k : i # j => Apart(f[i], f[j])
    BY <2>4, <2>5 DEF Apart
  <2>7. \A i, j \in 1..k : f[i] = f[j] => i = j
    BY <2>4, <2>5
  <2>8. AreBins(Range(f), 1..m)
    BY <2>2, <2>4, <2>6 DEF AreBins, Range
  <2>9. IsFiniteSet(Range(f)) /\ Cardinality(Range(f)) = k
    BY <2>2, <2>7, ImageOf
  <2>10. 1..m \in SUBSET Nat
    OBVIOUS
  <2>11. IsState(State(Range(f)), k, 1..m) /\ Range(State(Range(f))) = Range(f)
    BY <2>8, <2>9, <2>10, StateIs
  <2>12. ItemsIn(Range(f)) = {order[r * k + j] : j \in 1..k}
    <3>1. \A x : x \in ItemsIn(Range(f)) <=> \E j \in 1..k : x \in Range(f[j].items)
      BY <2>2, ItemsInRange
    <3>2. PICK e : e = [j \in 1..k |-> order[r * k + j]]
      OBVIOUS
    <3>3. \A j \in 1..k : Range(f[j].items) = {e[j]}
      BY <2>4, <3>2
    <3>4. \A x : x \in ItemsIn(Range(f)) <=> \E j \in 1..k : x = e[j]
      <4>1. \A j \in 1..k : \A x : x \in Range(f[j].items) <=> x = e[j]
        BY <3>3
      <4> QED
        BY <3>1, <4>1
    <3>5. ItemsIn(Range(f)) = {e[j] : j \in 1..k}
      BY <3>4, Zenon
    <3>6. {e[j] : j \in 1..k} = {order[r * k + j] : j \in 1..k}
      BY <3>2
    <3> QED
      BY <3>5, <3>6
  <2> QED
    BY <2>3, <2>11, <2>12 DEF ItemsOf
<1>18. PICK g : g = [n \in 1..q |-> State(RowOf(order, lengths, k, n - 1))]
  OBVIOUS
<1>12. DOMAIN g = 1..q /\ \A n \in 1..q : g[n] = State(RowOf(order, lengths, k, n - 1))
  BY <1>18
<1>13. Range(g) = Rounds(lengths, k)
  <2>1. \A n \in 1..q : n - 1 \in 0..(q - 1)
    OBVIOUS
  <2>2. \A r \in 0..(q - 1) : r + 1 \in 1..q /\ (r + 1) - 1 = r
    OBVIOUS
  <2>3. \A r \in 0..(q - 1) : g[r + 1] = State(RowOf(order, lengths, k, r))
    BY <1>12, <2>2
  <2>4. \A x : x \in Range(g) <=> \E n \in 1..q : x = g[n]
    BY <1>12 DEF Range
  <2>5. \A x : x \in Rounds(lengths, k) <=> \E r \in 0..(q - 1) : x = State(RowOf(order, lengths, k, r))
    BY <1>7
  <2>6. \A x \in Range(g) : x \in Rounds(lengths, k)
    BY <1>12, <2>1, <2>4, <2>5
  <2>7. \A x \in Rounds(lengths, k) : x \in Range(g)
    BY <2>2, <2>3, <2>4, <2>5
  <2> QED
    BY <2>6, <2>7
<1>14. IsFiniteSet(Rounds(lengths, k))
  BY <1>5, <1>12, <1>13, FiniteRange
<1>15. Rounds(lengths, k) # {}
  <2>1. 0 \in 0..(q - 1)
    BY <1>5
  <2> QED
    BY <1>7, <2>1
<1>16. \A s \in Rounds(lengths, k) : IsState(s, k, 1..m)
  BY <1>7, <1>11
<1>17. \A s, t \in Rounds(lengths, k) : s # t => ItemsOf(s) \cap ItemsOf(t) = {}
  <2> TAKE s, t \in Rounds(lengths, k)
  <2> HAVE s # t
  <2>1. PICK r \in 0..(q - 1) : s = State(RowOf(order, lengths, k, r))
    BY <1>7
  <2>2. PICK u \in 0..(q - 1) : t = State(RowOf(order, lengths, k, u))
    BY <1>7
  <2>3. r # u
    BY <2>1, <2>2
  <2>4. ASSUME NEW i \in 1..k, NEW j \in 1..k PROVE order[r * k + i] # order[u * k + j]
    <3>1. PICK a, b : a = r * k + i /\ b = u * k + j
      OBVIOUS
    <3>2. a \in 1..m /\ b \in 1..m /\ a # b
      BY <1>8, <1>9, <2>3, <3>1
    <3> QED
      BY <1>4, <3>1, <3>2
  <2>5. ItemsOf(s) = {order[r * k + i] : i \in 1..k} /\ ItemsOf(t) = {order[u * k + j] : j \in 1..k}
    BY <1>11, <2>1, <2>2
  <2> QED
    BY <2>4, <2>5
<1>19. ASSUME NEW s \in Rounds(lengths, k), NEW i \in 1..k PROVE \E p \in 1..m : s[i] = Bin(p, lengths)
  <2>1. PICK r \in 0..(q - 1) : s = State(RowOf(order, lengths, k, r))
    BY <1>7
  <2>2. s[i] \in RowOf(order, lengths, k, r)
    BY <1>11, <1>16, <2>1 DEF IsState, Range
  <2>3. PICK j \in 1..k : s[i] = Bin(order[r * k + j], lengths)
    BY <2>2 DEF RowOf
  <2>4. order[r * k + j] \in 1..m
    BY <1>4, <1>8
  <2> QED
    BY <2>3, <2>4
<1>20. ASSUME q * k = m PROVE AllItems(Rounds(lengths, k)) = 1..m
  <2>1. ASSUME NEW p \in 1..m PROVE p \in AllItems(Rounds(lengths, k))
    <3>1. PICK i \in 1..m : order[i] = p
      BY <1>3 DEF IsInOrder
    <3>9. PICK b \in Nat : b = i - 1
      OBVIOUS
    <3>2. PICK r \in Nat : r = b \div k
      BY Quotient
    <3>3. r * k \in Nat /\ r * k <= i - 1 /\ i - 1 < r * k + k
      BY <3>2, <3>9, Quotient
    <3>4. r < q
      <4> SUFFICES ASSUME q <= r PROVE FALSE
        OBVIOUS
      <4>1. q * k <= r * k
        BY <1>5, TimesMonotone
      <4> QED
        BY <1>20, <3>3, <4>1
    <3>5. PICK w \in Nat : w = r * k
      BY <3>3
    <3>6. i - w \in 1..k /\ i = w + (i - w)
      BY <3>3, <3>5
    <3>7. r \in 0..(q - 1)
      BY <1>5, <3>4
    <3>8. p \in ItemsOf(State(RowOf(order, lengths, k, r)))
      BY <1>11, <3>1, <3>5, <3>6, <3>7
    <3> QED
      BY <1>7, <3>7, <3>8 DEF AllItems
  <2>2. AllItems(Rounds(lengths, k)) \subseteq 1..m
    BY <1>16, ItemsOfBins DEF AllItems
  <2> QED
    BY <2>1, <2>2
<1> QED
  BY <1>5, <1>14, <1>15, <1>16, <1>17, <1>19, <1>20 DEF ArePiles, AreSingle

(* Lists of places: ascending, and no place in two.                        *)
ArePartitions(parts, k, m) ==
  /\ DOMAIN parts = 1..k
  /\ \A j \in 1..k : parts[j] \in Seq(1..m)
  /\ \A j \in 1..k : \A x, y \in 1..Len(parts[j]) : x < y => parts[j][x] < parts[j][y]
  /\ \A i, j \in 1..k : i # j => Range(parts[i]) \cap Range(parts[j]) = {}

(* The items of each bin, once.                                            *)
AreLists(parts, s, k) ==
  \A j \in 1..k : Range(parts[j]) = Range(s[j].items) /\ Len(parts[j]) = Cardinality(Range(s[j].items))

LEMMA PartitionsAre ==
  ASSUME NEW m \in Nat, NEW lengths \in [1..m -> Nat], NEW k \in Nat \ {0}, k <= m
  PROVE  /\ ArePartitions(BalancedPartitions(lengths, k), k, m)
         /\ AreLists(BalancedPartitions(lengths, k), Reduce(Rounds(lengths, k)), k)
<1>1. PICK S : S = Rounds(lengths, k)
  OBVIOUS
<1>2. 1..m \in SUBSET Nat /\ ArePiles(S, k, 1..m) /\ S # {}
  BY <1>1, RoundsAre
<1>3. PICK s : s = Reduce(S)
  OBVIOUS
<1>4. IsState(s, k, 1..m)
  BY <1>2, <1>3, ReduceIs
<1>5. PICK parts : parts = BalancedPartitions(lengths, k)
  OBVIOUS
<1>6. DOMAIN parts = 1..k /\ \A j \in 1..k : parts[j] = Ascending(Range(s[j].items))
  BY <1>1, <1>3, <1>5 DEF BalancedPartitions
<1>7. ASSUME NEW j \in 1..k
      PROVE  /\ parts[j] \in Seq(1..m) /\ Range(parts[j]) = Range(s[j].items)
             /\ Len(parts[j]) = Cardinality(Range(s[j].items))
             /\ \A x, y \in 1..Len(parts[j]) : x < y => parts[j][x] < parts[j][y]
  <2>1. PICK I : I = Range(s[j].items)
    OBVIOUS
  <2>2. s[j].items \in Seq(1..m)
    BY <1>4 DEF IsState, IsBin
  <2>3. I \subseteq 1..m /\ IsFiniteSet(I)
    <3>1. Len(s[j].items) \in Nat /\ DOMAIN s[j].items = 1..Len(s[j].items)
      BY <2>2
    <3>2. IsFiniteSet(I)
      BY <2>1, <3>1, FiniteRange
    <3>3. PICK w : w = s[j].items
      OBVIOUS
    <3>4. w \in Seq(1..m) /\ I = {w[x] : x \in DOMAIN w}
      BY <2>1, <2>2, <3>3 DEF Range
    <3>5. ASSUME NEW x \in DOMAIN w
          PROVE  w[x] \in 1..m
      BY <3>4, <3>5
    <3>6. I \subseteq 1..m
      BY <3>4, <3>5
    <3> QED
      BY <3>2, <3>6
  <2>4. I \in SUBSET Nat
    BY <2>3
  <2>5. PICK a : a = Ascending(I)
    OBVIOUS
  <2>6. /\ Cardinality(I) \in Nat /\ a \in Seq(I) /\ Len(a) = Cardinality(I) /\ DOMAIN a = 1..Cardinality(I)
        /\ \A x \in I : \E c \in 1..Cardinality(I) : a[c] = x
        /\ \A x, y \in 1..Cardinality(I) : x < y => a[x] < a[y]
    BY <2>3, <2>4, <2>5, AscendingFacts
  <2>7. a \in Seq(1..m)
    <3>1. PICK c \in Nat : c = Cardinality(I)
      BY <2>6
    <3>2. PICK T : T = 1..m
      OBVIOUS
    <3>3. a = [x \in 1..c |-> a[x]] /\ \A x \in 1..c : a[x] \in T
      BY <2>3, <2>6, <3>1, <3>2
    <3>4. a \in Seq(T)
      BY <3>1, <3>3
    <3> QED
      BY <3>2, <3>4
  <2>8. Range(a) = I
    BY <2>6 DEF Range
  <2>9. parts[j] = a
    BY <1>6, <2>1, <2>5
  <2> QED
    BY <2>1, <2>6, <2>7, <2>8, <2>9
<1>8. \A i, j \in 1..k : i # j => Range(parts[i]) \cap Range(parts[j]) = {}
  BY <1>4, <1>7 DEF IsState, Apart
<1> QED
  BY <1>1, <1>3, <1>5, <1>6, <1>7, <1>8 DEF ArePartitions, AreLists

-----------------------------------------------------------------------------
(* A state's bins have their items' weight, as many items each, and sums   *)
(* that are at most M apart.                                               *)
IsEven(s, k, w, m, M) ==
  /\ \A i \in 1..k : s[i].sum = Weight(w, m, Range(s[i].items))
  /\ \A i, j \in 1..k : Cardinality(Range(s[i].items)) = Cardinality(Range(s[j].items))
  /\ \A i, j \in 1..k : s[i].sum - s[j].sum <= M

LEMMA SumsFall ==
  ASSUME NEW k \in Nat, NEW P \in SUBSET Nat, NEW s, IsState(s, k, P)
  PROVE  /\ \A i \in 1..k : s[i].sum \in Nat
         /\ \A i, j \in 1..k : i <= j => s[j].sum <= s[i].sum
<1>1. \A i \in 1..k : s[i].sum \in Nat
  BY DEF IsState, IsBin
<1>2. ASSUME NEW i \in 1..k, NEW j \in 1..k, i <= j PROVE s[j].sum <= s[i].sum
  <2>1. CASE i = j
    BY <1>1, <2>1
  <2>2. CASE i # j
    <3>1. i < j
      BY <1>2, <2>2
    <3>2. Heavier(s[i], s[j])
      BY <3>1 DEF IsState
    <3> QED
      BY <1>1, <3>2 DEF Heavier
  <2> QED
    BY <2>1, <2>2
<1> QED
  BY <1>1, <1>2

LEMMA RangeIsFinite ==
  ASSUME NEW P, NEW b, IsBin(b, P)
  PROVE  IsFiniteSet(Range(b.items)) /\ Cardinality(Range(b.items)) \in Nat
<1>1. PICK n \in Nat : DOMAIN b.items = 1..n
  <2>1. Len(b.items) \in Nat /\ DOMAIN b.items = 1..Len(b.items)
    BY DEF IsBin
  <2> QED
    BY <2>1
<1>2. IsFiniteSet(Range(b.items))
  BY <1>1, FiniteRange
<1> QED
  BY <1>2, FS_CardinalityType

(* Two bins put together.                                                  *)
IsSumOf(u, a, b, w, m) ==
  /\ u.sum = a.sum + b.sum
  /\ u.sum = Weight(w, m, Range(u.items))
  /\ Cardinality(Range(u.items)) = Cardinality(Range(a.items)) + Cardinality(Range(b.items))

LEMMA MergedWeighs ==
  ASSUME NEW m \in Nat, NEW w \in [1..m -> Nat], NEW P, NEW a, NEW b, IsBin(a, P), IsBin(b, P), Apart(a, b),
         a.sum = Weight(w, m, Range(a.items)), b.sum = Weight(w, m, Range(b.items))
  PROVE  IsSumOf(Merged(a, b), a, b, w, m)
<1>1. PICK u : u = Merged(a, b)
  OBVIOUS
<1>9. AreMerged(u, a, b, P)
  BY <1>1, MergedIs
<1>2. Range(u.items) = Range(a.items) \cup Range(b.items)
  BY <1>9 DEF AreMerged
<1>3. u.sum = a.sum + b.sum
  BY <1>1 DEF Merged
<1>4. PICK I, J : I = Range(a.items) /\ J = Range(b.items)
  OBVIOUS
<1>5. I \cap J = {}
  BY <1>4 DEF Apart
<1>6. IsFiniteSet(I) /\ IsFiniteSet(J) /\ Cardinality(I) \in Nat /\ Cardinality(J) \in Nat
  BY <1>4, RangeIsFinite
<1>7. Cardinality(I \cup J) = Cardinality(I) + Cardinality(J)
  <2>1. Cardinality(I \cup J) = Cardinality(I) + Cardinality(J) - Cardinality(I \cap J)
    BY <1>6, FS_Union
  <2>2. Cardinality(I \cap J) = 0
    BY <1>5, FS_EmptySet
  <2> QED
    BY <1>6, <2>1, <2>2
<1>8. Weight(w, m, I \cup J) = Weight(w, m, I) + Weight(w, m, J)
  BY <1>5, WeightAdds
<1> QED
  BY <1>1, <1>2, <1>3, <1>4, <1>7, <1>8 DEF IsSumOf

LEMMA MergeIsEven ==
  ASSUME NEW k \in Nat, NEW m \in Nat, NEW w \in [1..m -> Nat], NEW M \in Int, NEW s, NEW t,
         IsState(s, k, 1..m), IsState(t, k, 1..m), ItemsOf(s) \cap ItemsOf(t) = {},
         IsEven(s, k, w, m, M), IsEven(t, k, w, m, M)
  PROVE  IsEven(Merge(s, t), k, w, m, M)
<1>1. PICK u : u = Merge(s, t)
  OBVIOUS
<1>2. 1..m \in SUBSET Nat
  OBVIOUS
<1>3. ArePaired(u, s, t, k)
  BY <1>1, <1>2, MergeIs
<1>4. ASSUME NEW i \in 1..k, NEW j \in 1..k, u[i] = Merged(s[j], t[k + 1 - j])
      PROVE  k + 1 - j \in 1..k /\ IsSumOf(u[i], s[j], t[k + 1 - j], w, m)
  <2>1. PICK l \in 1..k : l = k + 1 - j
    OBVIOUS
  <2>2. IsBin(s[j], 1..m) /\ IsBin(t[l], 1..m)
    BY DEF IsState
  <2>3. Range(s[j].items) \subseteq ItemsOf(s) /\ Range(t[l].items) \subseteq ItemsOf(t)
    BY ItemsOfBins
  <2>4. Apart(s[j], t[l])
    BY <2>3 DEF Apart
  <2>5. s[j].sum = Weight(w, m, Range(s[j].items)) /\ t[l].sum = Weight(w, m, Range(t[l].items))
    BY DEF IsEven
  <2>6. IsSumOf(Merged(s[j], t[l]), s[j], t[l], w, m)
    BY <2>2, <2>4, <2>5, MergedWeighs
  <2> QED
    BY <1>4, <2>1, <2>6
<1>5. (\A i \in 1..k : s[i].sum \in Nat /\ t[i].sum \in Nat)
      /\ \A i, j \in 1..k : i <= j => s[j].sum <= s[i].sum /\ t[j].sum <= t[i].sum
  BY <1>2, SumsFall
<1>6. ASSUME NEW i \in 1..k, NEW j \in 1..k
      PROVE  /\ Cardinality(Range(u[i].items)) = Cardinality(Range(u[j].items))
             /\ u[i].sum - u[j].sum <= M
  <2>1. PICK a \in 1..k : u[i] = Merged(s[a], t[k + 1 - a])
    BY <1>3 DEF ArePaired
  <2>2. PICK b \in 1..k : u[j] = Merged(s[b], t[k + 1 - b])
    BY <1>3 DEF ArePaired
  <2>3. PICK c, d : c = k + 1 - a /\ d = k + 1 - b
    OBVIOUS
  <2>4. c \in 1..k /\ d \in 1..k /\ (a <= b => d <= c) /\ (b <= a => c <= d)
    BY <2>3
  <2>5. IsSumOf(u[i], s[a], t[c], w, m) /\ IsSumOf(u[j], s[b], t[d], w, m)
    BY <1>4, <2>1, <2>2, <2>3
  <2>6. Cardinality(Range(s[a].items)) = Cardinality(Range(s[b].items))
        /\ Cardinality(Range(t[c].items)) = Cardinality(Range(t[d].items))
    BY <2>4 DEF IsEven
  <2>7. PICK x, y, z, v : x = s[a].sum /\ y = s[b].sum /\ z = t[c].sum /\ v = t[d].sum
    OBVIOUS
  <2>8. x \in Nat /\ y \in Nat /\ z \in Nat /\ v \in Nat /\ x - y <= M /\ z - v <= M
    BY <1>5, <2>4, <2>7 DEF IsEven
  <2>9. (a <= b => z <= v) /\ (b <= a => x <= y)
    BY <1>5, <2>4, <2>7
  <2>10. (x + z) - (y + v) <= M
    <3>1. a <= b \/ b <= a
      OBVIOUS
    <3>2. CASE z <= v
      BY <2>8, <3>2
    <3>3. CASE x <= y
      BY <2>8, <3>3
    <3> QED
      BY <2>9, <3>1, <3>2, <3>3
  <2>11. u[i].sum = x + z /\ u[j].sum = y + v
    BY <2>5, <2>7 DEF IsSumOf
  <2> QED
    BY <2>5, <2>6, <2>10, <2>11 DEF IsSumOf
<1>7. ASSUME NEW i \in 1..k PROVE u[i].sum = Weight(w, m, Range(u[i].items))
  <2>1. PICK a \in 1..k : u[i] = Merged(s[a], t[k + 1 - a])
    BY <1>3 DEF ArePaired
  <2> QED
    BY <1>4, <2>1 DEF IsSumOf
<1> QED
  BY <1>1, <1>6, <1>7 DEF IsEven

AreEven(S, k, w, m, M) == \A s \in S : IsEven(s, k, w, m, M)

LEMMA ReduceIsEven ==
  ASSUME NEW k \in Nat \ {0}, NEW m \in Nat, NEW w \in [1..m -> Nat], NEW M \in Int,
         NEW S, ArePiles(S, k, 1..m), S # {}, AreEven(S, k, w, m, M)
  PROVE  IsEven(Reduce(S), k, w, m, M)
<1>1. 1..m \in SUBSET Nat
  OBVIOUS
<1>2. PICK c \in Nat : \E F : Reduces(S, F, c, k, 1..m)
  BY <1>1, ReduceRuns
<1>3. PICK F : Reduces(S, F, c, k, 1..m)
  BY <1>2
<1> DEFINE U == {n \in 0..c : ~AreEven(F[n], k, w, m, M)}
<1>4. U = {}
  <2> SUFFICES ASSUME U # {} PROVE FALSE
    OBVIOUS
  <2>1. U \in SUBSET Nat /\ \A n : n \in U <=> n \in 0..c /\ ~AreEven(F[n], k, w, m, M)
    OBVIOUS
  <2> HIDE DEF U
  <2>2. PICK n \in U : \A j \in U : n <= j
    BY <2>1, LeastIn
  <2>3. n \in 0..c /\ n # 0
    BY <1>3, <2>1 DEF Reduces
  <2>4. n \in 1..c /\ n - 1 \in 0..c /\ n - 1 \notin U
    BY <2>2, <2>3
  <2>5. PICK X, Y : X = F[n - 1] /\ Y = F[n]
    OBVIOUS
  <2>6. AreEven(X, k, w, m, M)
    BY <2>1, <2>4, <2>5
  <2>7. MergesTwo(X, Y, k, 1..m) /\ ArePiles(X, k, 1..m)
    BY <1>3, <2>4, <2>5 DEF Reduces
  <2>8. PICK s \in X, t \in X : s # t /\ Y \subseteq X \cup {Merge(s, t)}
    BY <2>7 DEF MergesTwo
  <2>9. IsState(s, k, 1..m) /\ IsState(t, k, 1..m) /\ ItemsOf(s) \cap ItemsOf(t) = {}
    BY <2>7, <2>8 DEF ArePiles
  <2>10. IsEven(s, k, w, m, M) /\ IsEven(t, k, w, m, M)
    BY <2>6 DEF AreEven
  <2>11. IsEven(Merge(s, t), k, w, m, M)
    BY <2>9, <2>10, MergeIsEven
  <2>12. AreEven(Y, k, w, m, M)
    BY <2>6, <2>8, <2>11 DEF AreEven
  <2> QED
    BY <2>1, <2>5, <2>12
<1>5. c \in 0..c
  OBVIOUS
<1>6. AreEven(F[c], k, w, m, M) /\ F[c] = {Reduce(S)}
  BY <1>3, <1>4, <1>5 DEF Reduces
<1> QED
  BY <1>6 DEF AreEven

(* The states to begin with are no further apart than the first popped.    *)
LEMMA RoundsAreEven ==
  ASSUME NEW m \in Nat, NEW w \in [1..m -> Nat], NEW k \in Nat \ {0}, k <= m
  PROVE  \E s \in Rounds(w, k) : Spread(s) \in Int /\ AreEven(Rounds(w, k), k, w, m, Spread(s))
<1>1. PICK S : S = Rounds(w, k)
  OBVIOUS
<1>2. /\ 1..m \in SUBSET Nat /\ ArePiles(S, k, 1..m) /\ S # {}
      /\ AreSingle(S, k, w, m)
  BY <1>1, RoundsAre
<1>3. PICK s : s = PopOf(S)
  OBVIOUS
<1>4. s \in S /\ \A t \in S \ {s} : Before(s, t)
  BY <1>2, <1>3, PopIs
<1>5. 1 \in 1..k /\ k \in 1..k
  OBVIOUS
<1>6. ASSUME NEW t \in S
      PROVE  /\ Spread(t) \in Int /\ Spread(t) = t[1].sum - t[k].sum
             /\ \A i, j \in 1..k : t[i].sum - t[j].sum <= Spread(t)
  <2>1. IsState(t, k, 1..m) /\ Len(t) = k
    BY <1>2 DEF ArePiles, IsState
  <2>2. Spread(t) = t[1].sum - t[k].sum
    BY <2>1 DEF Spread
  <2>3. (\A i \in 1..k : t[i].sum \in Nat) /\ \A i, j \in 1..k : i <= j => t[j].sum <= t[i].sum
    BY <1>2, <2>1, SumsFall
  <2>4. ASSUME NEW i \in 1..k, NEW j \in 1..k PROVE t[i].sum - t[j].sum <= t[1].sum - t[k].sum
    <3>1. PICK a, b, c, d : a = t[i].sum /\ b = t[j].sum /\ c = t[1].sum /\ d = t[k].sum
      OBVIOUS
    <3>2. a \in Nat /\ b \in Nat /\ c \in Nat /\ d \in Nat
      BY <1>5, <2>3, <3>1
    <3>3. 1 <= i /\ j <= k
      OBVIOUS
    <3>4. a <= c /\ d <= b
      BY <1>5, <2>3, <3>1, <3>3
    <3>5. a - b <= c - d
      BY <3>2, <3>4
    <3> QED
      BY <3>1, <3>5
  <2> QED
    BY <1>5, <2>2, <2>3, <2>4
<1>7. \A t \in S : Spread(t) <= Spread(s)
  <2> TAKE t \in S
  <2>1. Spread(t) \in Int /\ Spread(s) \in Int
    BY <1>4, <1>6
  <2>2. CASE t = s
    BY <2>1, <2>2
  <2>3. CASE t # s
    <3>1. Before(s, t)
      BY <1>4, <2>3
    <3> QED
      BY <2>1, <3>1 DEF Before
  <2> QED
    BY <2>2, <2>3
<1>8. ASSUME NEW p \in 1..m PROVE /\ Bin(p, w).sum = Weight(w, m, Range(Bin(p, w).items))
                                  /\ Cardinality(Range(Bin(p, w).items)) = 1
  <2>1. Bin(p, w).sum = w[p] /\ Bin(p, w).items = <<p>>
    BY DEF Bin
  <2>2. Range(<<p>>) = {p} /\ Cardinality({p}) = 1
    <3>1. Range(<<p>>) = {p}
      BY DEF Range
    <3>2. Cardinality({p}) = 1
      BY FS_Singleton
    <3> QED
      BY <3>1, <3>2
  <2> QED
    BY <2>1, <2>2, WeightOfOne
<1>9. ASSUME NEW t \in S PROVE IsEven(t, k, w, m, Spread(s))
  <2>1. \A i \in 1..k : t[i].sum = Weight(w, m, Range(t[i].items)) /\ Cardinality(Range(t[i].items)) = 1
    BY <1>2, <1>8 DEF AreSingle
  <2>2. ASSUME NEW i \in 1..k, NEW j \in 1..k PROVE t[i].sum - t[j].sum <= Spread(s)
    <3>1. t[i].sum - t[j].sum <= Spread(t) /\ Spread(t) <= Spread(s) /\ Spread(t) \in Int /\ Spread(s) \in Int
      BY <1>4, <1>6, <1>7
    <3>2. IsState(t, k, 1..m)
      BY <1>2 DEF ArePiles
    <3>3. t[i].sum \in Nat /\ t[j].sum \in Nat
      BY <1>2, <3>2, SumsFall
    <3> QED
      BY <3>1, <3>3
  <2> QED
    BY <2>1, <2>2 DEF IsEven
<1> QED
  BY <1>1, <1>4, <1>6, <1>9 DEF AreEven

(* The lists of places have as many each, every place is in one, and their *)
(* weights are no further apart than the items of one round.               *)
DividesFairly(parts, m, w, k) ==
  /\ \A i, j \in 1..k : Len(parts[i]) = Len(parts[j])
  /\ \A p \in 1..m : \E j \in 1..k : p \in Range(parts[j])
  /\ \E s \in Rounds(w, k) : \A i, j \in 1..k :
       Weight(w, m, Range(parts[i])) - Weight(w, m, Range(parts[j])) <= Spread(s)

LEMMA PartitionsAreFair ==
  ASSUME NEW m \in Nat, NEW w \in [1..m -> Nat], NEW k \in Nat \ {0}, k <= m, (m \div k) * k = m
  PROVE  DividesFairly(BalancedPartitions(w, k), m, w, k)
<1>1. PICK S : S = Rounds(w, k)
  OBVIOUS
<1>2. 1..m \in SUBSET Nat /\ ArePiles(S, k, 1..m) /\ S # {} /\ AllItems(S) = 1..m
  BY <1>1, RoundsAre
<1>3. PICK u : u = Reduce(S)
  OBVIOUS
<1>4. IsState(u, k, 1..m) /\ ItemsOf(u) = 1..m
  BY <1>2, <1>3, ReduceIs
<1>5. PICK s \in S : Spread(s) \in Int /\ AreEven(S, k, w, m, Spread(s))
  BY <1>1, RoundsAreEven
<1>6. IsEven(u, k, w, m, Spread(s))
  BY <1>2, <1>3, <1>5, ReduceIsEven
<1>7. PICK parts : parts = BalancedPartitions(w, k)
  OBVIOUS
<1>8. \A j \in 1..k : Range(parts[j]) = Range(u[j].items) /\ Len(parts[j]) = Cardinality(Range(u[j].items))
  BY <1>1, <1>3, <1>7, PartitionsAre DEF AreLists
<1>9. \A i, j \in 1..k : Len(parts[i]) = Len(parts[j])
  BY <1>6, <1>8 DEF IsEven
<1>10. ASSUME NEW p \in 1..m PROVE \E j \in 1..k : p \in Range(parts[j])
  <2>1. \E j \in 1..k : p \in Range(u[j].items)
    BY <1>4, ItemsOfBins
  <2> QED
    BY <1>8, <2>1
<1>11. \A i, j \in 1..k : Weight(w, m, Range(parts[i])) - Weight(w, m, Range(parts[j])) <= Spread(s)
  BY <1>6, <1>8 DEF IsEven
<1> QED
  BY <1>1, <1>7, <1>9, <1>10, <1>11 DEF DividesFairly

-----------------------------------------------------------------------------
(* Consecutive prompts among the ready samples.                           *)

(* A place with which a row of g places begins.                            *)
IsRow(i, g) == \E c \in Nat : i = c * g + 1

(* Each row has g consecutive numbers.                                     *)
HasRows(sorted, g) ==
  \A c \in Nat : (c + 1) * g <= Len(sorted) =>
    \A m \in 1..g : sorted[c * g + m] = sorted[c * g + 1] + m - 1

(* q has the g elements from each place of `at`, which are from i on.      *)
BlocksAt(q, at, sorted, i, g, T) ==
  /\ q \in Seq(Seq(T))
  /\ \A x \in 1..Len(q) :
       /\ at[x] \in Nat /\ i <= at[x] /\ at[x] + g - 1 <= Len(sorted)
       /\ Len(q[x]) = g /\ \A m \in 1..g : q[x][m] = sorted[at[x] + m - 1]
  /\ \A x, y \in 1..Len(q) : x < y => at[x] + g <= at[y]
  /\ IsRow(i, g) /\ HasRows(sorted, g) => \A x \in 1..Len(q) : IsRow(at[x], g)

Consecutive(sorted, g, i) == \A j \in i..(i + g - 2) : sorted[j + 1] - sorted[j] = 1

From(f, sorted, g, i) ==
  IF i + g - 1 > Len(sorted) THEN <<>>
  ELSE IF Consecutive(sorted, g, i) THEN <<SubSeq(sorted, i, i + g - 1)>> \o f[i + g]
  ELSE f[i + 1]

LEMMA NextRow ==
  ASSUME NEW g \in Nat \ {0}, NEW i \in Nat \ {0}, IsRow(i, g)
  PROVE  IsRow(i + g, g)
<1>1. PICK c \in Nat : i = c * g + 1
  BY DEF IsRow
<1>2. c + 1 \in Nat /\ i + g = (c + 1) * g + 1
  BY <1>1
<1> QED
  BY <1>2 DEF IsRow

LEMMA RowIsConsecutive ==
  ASSUME NEW T \in SUBSET Nat, NEW sorted \in Seq(T), NEW g \in Nat \ {0}, NEW i \in Nat \ {0},
         IsRow(i, g), HasRows(sorted, g), i + g - 1 <= Len(sorted)
  PROVE  Consecutive(sorted, g, i)
<1>1. PICK c \in Nat : i = c * g + 1
  BY DEF IsRow
<1>2. PICK w \in Nat : w = c * g /\ (c + 1) * g = w + g
  OBVIOUS
<1>3. Len(sorted) \in Nat /\ w + g <= Len(sorted) /\ i = w + 1
  BY <1>1, <1>2
<1>4. \A m \in 1..g : sorted[w + m] = sorted[w + 1] + m - 1
  BY <1>2, <1>3 DEF HasRows
<1>5. sorted[w + 1] \in Nat
  <2>1. w + 1 \in 1..Len(sorted)
    BY <1>3
  <2>2. sorted[w + 1] \in T
    BY <2>1
  <2> QED
    BY <2>2
<1>6. ASSUME NEW j \in i..(i + g - 2)
      PROVE  sorted[j + 1] - sorted[j] = 1
  <2>1. PICK m \in 1..g : j = w + m /\ m + 1 \in 1..g
    <3>1. j - w \in 1..g /\ j = w + (j - w) /\ (j - w) + 1 \in 1..g
      BY <1>3
    <3> QED
      BY <3>1
  <2>2. sorted[j] = sorted[w + 1] + m - 1
    BY <1>4, <2>1
  <2>3. j + 1 = w + (m + 1)
    BY <2>1
  <2>4. sorted[j + 1] = sorted[w + 1] + (m + 1) - 1
    BY <1>4, <2>1, <2>3
  <2> QED
    BY <1>5, <2>1, <2>2, <2>4
<1> QED
  BY <1>6 DEF Consecutive

LEMMA OneMoreBlock ==
  ASSUME NEW T, NEW sorted \in Seq(T), NEW g \in Nat \ {0}, NEW i \in Nat \ {0}, i + g - 1 <= Len(sorted),
         NEW q, NEW at, BlocksAt(q, at, sorted, i + g, g, T)
  PROVE  \E new : BlocksAt(<<SubSeq(sorted, i, i + g - 1)>> \o q, new, sorted, i, g, T)
<1>1. PICK b : b = SubSeq(sorted, i, i + g - 1)
  OBVIOUS
<1>2. b \in Seq(T) /\ Len(b) = g /\ \A m \in 1..g : b[m] = sorted[i + m - 1]
  <2>1. Len(sorted) \in Nat
    OBVIOUS
  <2>2. PICK j : j = i + g - 1
    OBVIOUS
  <2>3. j \in Nat /\ i \in 1..(Len(sorted) + 1) /\ j \in (i - 1)..Len(sorted) /\ j - i + 1 = g
    BY <2>1, <2>2
  <2>4. SubSeq(sorted, i, j) = [m \in 1..(j - i + 1) |-> sorted[i + m - 1]]
    BY <2>3
  <2>5. b = [m \in 1..g |-> sorted[i + m - 1]]
    BY <1>1, <2>2, <2>3, <2>4
  <2>6. \A m \in 1..g : i + m - 1 \in 1..Len(sorted)
    BY <2>2, <2>3
  <2> QED
    BY <2>5, <2>6
<1>3. q \in Seq(Seq(T)) /\ Len(q) \in Nat
  BY DEF BlocksAt
<1>4. PICK n \in Nat : n = Len(q)
  BY <1>3
<1>5. PICK r : r = <<b>> \o q
  OBVIOUS
<1>6. r \in Seq(Seq(T)) /\ Len(r) = n + 1 /\ r[1] = b /\ \A x \in 2..(n + 1) : r[x] = q[x - 1]
  <2>1. PICK V : V = Seq(T)
    OBVIOUS
  <2>2. b \in V /\ q \in Seq(V)
    BY <1>2, <1>3, <2>1
  <2>3. <<b>> \in Seq(V) /\ Len(<<b>>) = 1 /\ <<b>>[1] = b
    BY <2>2
  <2>4. r \in Seq(V) /\ Len(r) = 1 + n
    BY <1>4, <1>5, <2>2, <2>3
  <2>5. r[1] = b
    BY <1>4, <1>5, <2>2, <2>3
  <2>6. \A x \in 2..(n + 1) : r[x] = q[x - 1]
    BY <1>4, <1>5, <2>2, <2>3
  <2> QED
    BY <1>4, <2>1, <2>4, <2>5, <2>6
<1>7. PICK new : new = [x \in 1..(n + 1) |-> IF x = 1 THEN i ELSE at[x - 1]]
  OBVIOUS
<1>8. new[1] = i /\ \A x \in 2..(n + 1) : new[x] = at[x - 1]
  BY <1>7
<1>9. \A x \in 1..n : /\ at[x] \in Nat /\ i + g <= at[x] /\ at[x] + g - 1 <= Len(sorted)
                      /\ Len(q[x]) = g /\ \A m \in 1..g : q[x][m] = sorted[at[x] + m - 1]
  BY <1>4 DEF BlocksAt
<1>10. ASSUME NEW x \in 1..(n + 1)
       PROVE  /\ new[x] \in Nat /\ i <= new[x] /\ new[x] + g - 1 <= Len(sorted)
              /\ Len(r[x]) = g /\ \A m \in 1..g : r[x][m] = sorted[new[x] + m - 1]
  <2>1. CASE x = 1
    <3>1. r[x] = b /\ new[x] = i
      BY <1>6, <1>8, <2>1
    <3>2. Len(b) = g /\ (\A m \in 1..g : b[m] = sorted[i + m - 1]) /\ i \in Nat /\ i + g - 1 <= Len(sorted)
      BY <1>2
    <3> QED
      BY <3>1, <3>2
  <2>2. CASE x # 1
    <3>1. x \in 2..(n + 1) /\ x - 1 \in 1..n
      BY <1>4, <2>2
    <3>2. new[x] = at[x - 1] /\ r[x] = q[x - 1]
      BY <1>6, <1>8, <3>1
    <3>3. /\ at[x - 1] \in Nat /\ i + g <= at[x - 1] /\ at[x - 1] + g - 1 <= Len(sorted)
          /\ Len(q[x - 1]) = g /\ \A m \in 1..g : q[x - 1][m] = sorted[at[x - 1] + m - 1]
      BY <1>9, <3>1
    <3> QED
      BY <3>2, <3>3
  <2> QED
    BY <2>1, <2>2
<1>11. ASSUME NEW x \in 1..(n + 1), NEW y \in 1..(n + 1), x < y
       PROVE  new[x] + g <= new[y]
  <2>1. y \in 2..(n + 1) /\ y - 1 \in 1..n
    BY <1>4, <1>11
  <2>2. CASE x = 1
    BY <1>8, <1>9, <2>1, <2>2
  <2>3. CASE x # 1
    <3>1. x \in 2..(n + 1) /\ x - 1 \in 1..n /\ x - 1 < y - 1
      BY <1>4, <1>11, <2>3
    <3>2. at[x - 1] + g <= at[y - 1]
      BY <1>4, <2>1, <3>1 DEF BlocksAt
    <3> QED
      BY <1>8, <2>1, <3>1, <3>2
  <2> QED
    BY <2>2, <2>3
<1>12. ASSUME IsRow(i, g), HasRows(sorted, g), NEW x \in 1..(n + 1)
       PROVE  IsRow(new[x], g)
  <2>1. CASE x = 1
    BY <1>8, <1>12, <2>1
  <2>2. CASE x # 1
    <3>1. x \in 2..(n + 1) /\ x - 1 \in 1..n
      BY <1>4, <2>2
    <3>2. IsRow(i + g, g)
      BY <1>12, NextRow
    <3>3. IsRow(at[x - 1], g)
      BY <1>4, <1>12, <3>1, <3>2 DEF BlocksAt
    <3> QED
      BY <1>8, <3>1, <3>3
  <2> QED
    BY <2>1, <2>2
<1>13. BlocksAt(r, new, sorted, i, g, T)
  BY <1>6, <1>10, <1>11, <1>12 DEF BlocksAt
<1> QED
  BY <1>1, <1>5, <1>13

LEMMA FewerBlocks ==
  ASSUME NEW T, NEW sorted \in Seq(T), NEW g \in Nat \ {0}, NEW i \in Nat \ {0}, i + g - 1 <= Len(sorted),
         T \in SUBSET Nat, ~Consecutive(sorted, g, i), NEW q, NEW at, BlocksAt(q, at, sorted, i + 1, g, T)
  PROVE  BlocksAt(q, at, sorted, i, g, T)
<1>1. ~(IsRow(i, g) /\ HasRows(sorted, g))
  BY RowIsConsecutive
<1>2. \A x \in 1..Len(q) : at[x] \in Nat /\ i + 1 <= at[x]
  BY DEF BlocksAt
<1>3. \A x \in 1..Len(q) : i <= at[x]
  BY <1>2
<1> QED
  BY <1>1, <1>3 DEF BlocksAt

HaveBlocks(q, sorted, i, g, T) == \E at : BlocksAt(q, at, sorted, i, g, T)

LEMMA NoBlocks ==
  ASSUME NEW T, NEW sorted \in Seq(T), NEW g \in Nat \ {0}, NEW i
  PROVE  HaveBlocks(<< >>, sorted, i, g, T)
<1>1. BlocksAt(<< >>, << >>, sorted, i, g, T)
  BY DEF BlocksAt
<1> QED
  BY <1>1 DEF HaveBlocks

LEMMA GroupsHaveBlocks ==
  ASSUME NEW T \in SUBSET Nat, NEW sorted \in Seq(T), NEW g \in Nat \ {0}
  PROVE  HaveBlocks(CompleteGroups(sorted, g), sorted, 1, g, T)
<1>1. PICK n \in Nat : n = Len(sorted)
  OBVIOUS
<1>2. PICK M \in Nat \ {0} : M = n + g
  OBVIOUS
<1>3. \E f : f = [i \in 1..M |-> From(f, sorted, g, i)]
  <2>1. PICK V : V = Seq(Seq(T))
    OBVIOUS
  <2>2. PICK D : D = [1..M -> V]
    OBVIOUS
  <2>3. PICK step : step = [p \in (1..M) \X D |-> From(p[2], sorted, g, p[1])]
    OBVIOUS
  <2>4. \A i \in 1..M, f \in D : step[<<i, f>>] = From(f, sorted, g, i)
    BY <2>3
  <2>5. ASSUME NEW i \in 1..M, NEW f \in D, ~(i + g - 1 > n)
        PROVE  i + g \in 1..M /\ i + 1 \in 1..M /\ SubSeq(sorted, i, i + g - 1) \in Seq(T)
    <3>1. i + g \in 1..M /\ i + 1 \in 1..M
      BY <1>2, <2>5
    <3>2. PICK j : j = i + g - 1
      OBVIOUS
    <3>3. i \in 1..(n + 1) /\ j \in (i - 1)..n
      BY <1>2, <2>5, <3>2
    <3>4. SubSeq(sorted, i, j) \in Seq(T)
      BY <1>1, <3>3
    <3> QED
      BY <3>1, <3>2, <3>4
  <2>6. \A i \in 1..M, f \in D : From(f, sorted, g, i) \in V
    <3> TAKE i \in 1..M, f \in D
    <3>1. CASE i + g - 1 > n
      BY <1>1, <2>1, <3>1 DEF From
    <3>2. CASE ~(i + g - 1 > n)
      <4>1. i + g \in 1..M /\ i + 1 \in 1..M /\ SubSeq(sorted, i, i + g - 1) \in Seq(T)
        BY <2>5, <3>2
      <4>2. f[i + g] \in V /\ f[i + 1] \in V
        BY <2>2, <4>1
      <4>3. PICK W : W = Seq(T)
        OBVIOUS
      <4>4. PICK b : b = SubSeq(sorted, i, i + g - 1)
        OBVIOUS
      <4>5. b \in W /\ f[i + g] \in Seq(W)
        BY <2>1, <4>1, <4>2, <4>3, <4>4
      <4>6. <<b>> \o f[i + g] \in Seq(W)
        BY <4>5
      <4> QED
        BY <1>1, <2>1, <3>2, <4>2, <4>3, <4>4, <4>6 DEF From
    <3> QED
      BY <3>1, <3>2
  <2>7. step \in [(1..M) \X [1..M -> V] -> V]
    BY <2>2, <2>3, <2>6
  <2>8. \A i \in 1..M : \A f, h \in [1..M -> V] :
          (\A j \in 1..M : i < j => f[j] = h[j]) => step[<<i, f>>] = step[<<i, h>>]
    <3> TAKE i \in 1..M
    <3> TAKE f, h \in [1..M -> V]
    <3> HAVE \A j \in 1..M : i < j => f[j] = h[j]
    <3>1. From(f, sorted, g, i) = From(h, sorted, g, i)
      <4>1. CASE i + g - 1 > n
        BY <1>1, <4>1 DEF From
      <4>2. CASE ~(i + g - 1 > n)
        <5>1. i + g \in 1..M /\ i + 1 \in 1..M /\ i < i + g /\ i < i + 1
          BY <1>2, <4>2
        <5>2. f[i + g] = h[i + g] /\ f[i + 1] = h[i + 1]
          BY <5>1
        <5> QED
          BY <1>1, <4>2, <5>2 DEF From
      <4> QED
        BY <4>1, <4>2
    <3> QED
      BY <2>2, <2>4, <3>1
  <2>9. << >> \in V
    <3>1. PICK W : W = Seq(T)
      OBVIOUS
    <3>2. << >> \in Seq(W)
      OBVIOUS
    <3> QED
      BY <2>1, <3>1, <3>2
  <2>10. PICK base \in V : base = << >>
    BY <2>9
  <2>11. \E f : FollowsDown(f, M, V, step, M)
    BY <2>7, <2>8, RecursionDown
  <2>12. PICK f : FollowsDown(f, M, V, step, M)
    BY <2>11
  <2>13. f \in D /\ \A i \in 1..M : f[i] = step[<<i, f>>]
    <3>1. \A i \in 1..M : M - M < i
      OBVIOUS
    <3> QED
      BY <2>2, <2>12, <3>1 DEF FollowsDown
  <2>14. f = [i \in 1..M |-> f[i]]
    BY <2>2, <2>13
  <2>15. [i \in 1..M |-> f[i]] = [i \in 1..M |-> From(f, sorted, g, i)]
    BY <2>4, <2>13
  <2> QED
    BY <2>14, <2>15
<1> DEFINE F == CHOOSE h : h = [i \in 1..M |-> From(h, sorted, g, i)]
<1>4. F = [i \in 1..M |-> From(F, sorted, g, i)]
  BY <1>3, Zenon
<1>5. CompleteGroups(sorted, g) = F[1]
  BY <1>1, <1>2 DEF CompleteGroups, From, Consecutive
<1> HIDE DEF F
<1> DEFINE U == {d \in 0..(M - 1) : ~HaveBlocks(F[M - d], sorted, M - d, g, T)}
<1>6. U = {}
  <2> SUFFICES ASSUME U # {} PROVE FALSE
    OBVIOUS
  <2>1. U \in SUBSET Nat /\ \A d : d \in U <=> d \in 0..(M - 1) /\ ~HaveBlocks(F[M - d], sorted, M - d, g, T)
    OBVIOUS
  <2> HIDE DEF U
  <2>2. PICK d \in U : \A e \in U : d <= e
    BY <2>1, LeastIn
  <2>3. PICK i \in 1..M : i = M - d
    BY <1>2, <2>1
  <2>4. ~HaveBlocks(F[i], sorted, i, g, T)
    BY <2>1, <2>3
  <2>5. ASSUME NEW j \in 1..M, i < j
        PROVE  HaveBlocks(F[j], sorted, j, g, T)
    <3>1. PICK e : e = M - j
      OBVIOUS
    <3>2. e \in 0..(M - 1) /\ e < d /\ M - e = j
      BY <2>1, <2>3, <2>5, <3>1
    <3>3. e \notin U
      BY <2>1, <2>2, <3>2
    <3> QED
      BY <2>1, <3>2, <3>3
  <2>6. F[i] = From(F, sorted, g, i)
    BY <1>4
  <2>7. CASE i + g - 1 > n
    <3>1. F[i] = << >>
      BY <1>1, <2>6, <2>7 DEF From
    <3> QED
      BY <2>4, <3>1, NoBlocks
  <2>8. CASE ~(i + g - 1 > n)
    <3>1. i + g \in 1..M /\ i + 1 \in 1..M /\ i < i + g /\ i < i + 1 /\ i \in Nat \ {0} /\ i + g - 1 <= n
      BY <1>2, <2>8
    <3>2. CASE Consecutive(sorted, g, i)
      <4>1. F[i] = <<SubSeq(sorted, i, i + g - 1)>> \o F[i + g]
        BY <1>1, <2>6, <2>8, <3>2 DEF From
      <4>2. PICK at : BlocksAt(F[i + g], at, sorted, i + g, g, T)
        BY <2>5, <3>1 DEF HaveBlocks
      <4>3. i + g - 1 <= Len(sorted)
        BY <1>1, <3>1
      <4>4. \E new : BlocksAt(<<SubSeq(sorted, i, i + g - 1)>> \o F[i + g], new, sorted, i, g, T)
        BY <3>1, <4>2, <4>3, OneMoreBlock
      <4> QED
        BY <2>4, <4>1, <4>4 DEF HaveBlocks
    <3>3. CASE ~Consecutive(sorted, g, i)
      <4>1. F[i] = F[i + 1]
        BY <1>1, <2>6, <2>8, <3>3 DEF From
      <4>2. PICK at : BlocksAt(F[i + 1], at, sorted, i + 1, g, T)
        BY <2>5, <3>1 DEF HaveBlocks
      <4>3. i + g - 1 <= Len(sorted)
        BY <1>1, <3>1
      <4>4. BlocksAt(F[i + 1], at, sorted, i, g, T)
        BY <3>1, <3>3, <4>2, <4>3, FewerBlocks
      <4> QED
        BY <2>4, <4>1, <4>4 DEF HaveBlocks
    <3> QED
      BY <3>2, <3>3
  <2> QED
    BY <2>7, <2>8
<1>7. M - 1 \in 0..(M - 1) /\ M - (M - 1) = 1
  OBVIOUS
<1>8. M - 1 \notin U
  BY <1>6, Zenon
<1>9. HaveBlocks(F[1], sorted, 1, g, T)
  BY <1>7, <1>8
<1> QED
  BY <1>5, <1>9

-----------------------------------------------------------------------------
(* Whole prompts are found.                                               *)

LEMMA RisingBy ==
  ASSUME NEW lo \in Int, NEW hi \in Int, NEW f, \A i \in lo..hi : f[i] \in Int,
         \A i, j \in lo..hi : i < j => f[i] < f[j]
  PROVE  \A a \in lo..hi : \A b \in a..hi : f[b] - f[a] >= b - a
<1> TAKE a \in lo..hi
<1> DEFINE U == {d \in Nat : a + d \in a..hi /\ ~(f[a + d] - f[a] >= d)}
<1>1. U = {}
  <2> SUFFICES ASSUME U # {} PROVE FALSE
    OBVIOUS
  <2>1. U \in SUBSET Nat /\ \A d : d \in U <=> d \in Nat /\ a + d \in a..hi /\ ~(f[a + d] - f[a] >= d)
    OBVIOUS
  <2> HIDE DEF U
  <2>2. PICK d \in U : \A e \in U : d <= e
    BY <2>1, LeastIn
  <2>3. d \in Nat /\ a + d \in a..hi /\ ~(f[a + d] - f[a] >= d)
    BY <2>1
  <2>4. d # 0
    <3> SUFFICES ASSUME d = 0 PROVE FALSE
      OBVIOUS
    <3>1. a + d = a /\ f[a] - f[a] = 0
      BY <2>3
    <3> QED
      BY <2>3, <3>1
  <2>5. PICK e \in Nat : d = e + 1
    <3>1. d - 1 \in Nat /\ d = (d - 1) + 1
      BY <2>3, <2>4
    <3> QED
      BY <3>1
  <2>6. e \notin U /\ a + e \in a..hi
    <3>1. ~(d <= e)
      BY <2>5
    <3> QED
      BY <2>2, <2>3, <2>5, <3>1
  <2>7. f[a + e] - f[a] >= e
    BY <2>1, <2>6
  <2>8. f[a + e] < f[a + d] /\ f[a + e] \in Int /\ f[a + d] \in Int /\ f[a] \in Int
    <3>1. a + e \in lo..hi /\ a + d \in lo..hi /\ a + e < a + d
      BY <2>3, <2>5, <2>6
    <3> QED
      BY <3>1
  <2> QED
    BY <2>3, <2>5, <2>7, <2>8
<1> TAKE b \in a..hi
<1>2. b - a \in Nat /\ a + (b - a) = b
  OBVIOUS
<1>3. b - a \notin U
  BY <1>1, Zenon
<1> HIDE DEF U
<1>4. f[a + (b - a)] - f[a] >= b - a
  BY <1>2, <1>3 DEF U
<1> QED
  BY <1>2, <1>4

LEMMA QuotientInRow ==
  ASSUME NEW g \in Nat \ {0}, NEW q \in Nat, NEW m \in 0..(g - 1)
  PROVE  q * g \in Nat /\ (q * g + m) \div g = q
<1>1. PICK y \in Nat : y = q * g + m
  OBVIOUS
<1>2. PICK t \in Nat : t = y \div g /\ t * g \in Nat /\ t * g <= y /\ y < t * g + g
  BY Quotient
<1>3. q * g \in Nat
  OBVIOUS
<1>4. CASE t < q
  <2>1. t + 1 \in Int /\ t + 1 <= q
    BY <1>4
  <2>2. (t + 1) * g <= q * g
    BY <2>1, TimesMonotone
  <2>3. (t + 1) * g = t * g + g
    OBVIOUS
  <2> QED
    BY <1>1, <1>2, <1>3, <2>2, <2>3
<1>5. CASE q < t
  <2>1. q + 1 \in Int /\ q + 1 <= t
    BY <1>5
  <2>2. (q + 1) * g <= t * g
    BY <2>1, TimesMonotone
  <2>3. (q + 1) * g = q * g + g
    OBVIOUS
  <2> QED
    BY <1>1, <1>2, <1>3, <2>2, <2>3
<1> QED
  BY <1>1, <1>2, <1>3, <1>4, <1>5

(* The g numbers that share a quotient are in S together.                  *)
IsWhole(S, g) == \A x \in S : \A y \in Nat : y \div g = x \div g => y \in S

RowIs(sorted, g, c) ==
  /\ sorted[c * g + 1] \in Nat
  /\ sorted[c * g + 1] = (sorted[c * g + 1] \div g) * g
  /\ \A m \in 1..g : sorted[c * g + m] = sorted[c * g + 1] + m - 1

LEMMA NextRowIs ==
  ASSUME NEW S \in SUBSET Nat, NEW g \in Nat \ {0}, IsWhole(S, g), NEW n \in Nat, NEW f \in [1..n -> S],
         \A x \in S : \E k \in 1..n : f[k] = x,
         \A j, k \in 1..n : j < k => f[j] < f[k],
         NEW c \in Nat, (c + 1) * g <= n, \A d \in 0..(c - 1) : RowIs(f, g, d)
  PROVE  RowIs(f, g, c)
<1>1. PICK w \in Nat : w = c * g /\ (c + 1) * g = w + g
  OBVIOUS
<1>2. w + 1 \in 1..n /\ w + g <= n
  BY <1>1
<1>3. PICK x \in S : x = f[w + 1]
  BY <1>2
<1>4. PICK q \in Nat : q = x \div g /\ q * g \in Nat /\ q * g <= x /\ x < q * g + g
  <2>1. x \in Nat
    OBVIOUS
  <2> QED
    BY <2>1, Quotient
<1>5. PICK z \in Nat : z = q * g
  BY <1>4
<1>6. \A m \in 0..(g - 1) : z + m \in S /\ (z + m) \div g = q
  <2> TAKE m \in 0..(g - 1)
  <2>1. (z + m) \div g = q
    BY <1>5, QuotientInRow
  <2>2. z + m \in Nat
    OBVIOUS
  <2> QED
    BY <1>4, <2>1, <2>2 DEF IsWhole
<1>7. ASSUME NEW p \in 1..w, f[p] \div g = q
      PROVE  FALSE
  <2>1. PICK d \in 1..c, m \in 1..g : p = (d - 1) * g + m
    <3>1. PICK d \in Nat : d = (p - 1) \div g /\ d * g \in Nat /\ d * g <= p - 1 /\ p - 1 < d * g + g
      <4>1. p - 1 \in Nat
        OBVIOUS
      <4> QED
        BY <4>1, Quotient
    <3>2. d < c
      <4> SUFFICES ASSUME c <= d PROVE FALSE
        OBVIOUS
      <4>1. c * g <= d * g
        BY TimesMonotone
      <4> QED
        BY <1>1, <3>1, <4>1
    <3>3. d + 1 \in 1..c /\ (d + 1) - 1 = d /\ p - d * g \in 1..g /\ p = d * g + (p - d * g)
      BY <3>1, <3>2
    <3> QED
      BY <3>3
  <2>2. d - 1 \in 0..(c - 1) /\ d - 1 \in Nat
    OBVIOUS
  <2>3. PICK v \in Nat : v = (d - 1) * g
    BY <2>2
  <2>4. v + g <= w
    <3>1. d * g <= c * g
      BY TimesMonotone
    <3>2. d * g = v + g
      BY <2>3
    <3> QED
      BY <1>1, <3>1, <3>2
  <2>5. f[v + 1] \in Nat /\ f[v + 1] = (f[v + 1] \div g) * g /\ \A l \in 1..g : f[v + l] = f[v + 1] + l - 1
    BY <2>2, <2>3 DEF RowIs
  <2>6. PICK u, t : u = f[v + 1] /\ t = u \div g
    OBVIOUS
  <2>7. u \in Nat /\ t \in Nat /\ u = t * g
    BY <2>5, <2>6, Quotient
  <2>8. f[p] = u + (m - 1) /\ m - 1 \in 0..(g - 1)
    <3>1. p = v + m
      BY <2>1, <2>3
    <3>2. f[p] = u + m - 1
      BY <2>5, <2>6, <3>1
    <3> QED
      BY <2>7, <3>2
  <2>9. f[p] \div g = t
    BY <2>7, <2>8, QuotientInRow
  <2>10. t = q /\ u = z
    BY <1>5, <1>7, <2>7, <2>9
  <2>11. PICK l \in 1..g : x = u + l - 1
    <3>1. x - u + 1 \in 1..g /\ x = u + (x - u + 1) - 1
      BY <1>4, <1>5, <2>7, <2>10
    <3> QED
      BY <3>1
  <2>12. f[v + l] = x
    BY <2>5, <2>6, <2>11
  <2>13. v + l \in 1..n /\ v + l < w + 1
    BY <1>2, <2>4
  <2>14. f[v + l] < f[w + 1]
    BY <1>2, <2>13
  <2>15. x \in Nat
    OBVIOUS
  <2> QED
    BY <1>3, <2>12, <2>14, <2>15
<1>8. PICK pl : pl = [m \in 0..(g - 1) |-> CHOOSE k \in 1..n : f[k] = z + m]
  OBVIOUS
<1>9. \A m \in 0..(g - 1) : pl[m] \in (w + 1)..n /\ f[pl[m]] = z + m
  <2> TAKE m \in 0..(g - 1)
  <2>1. pl[m] \in 1..n /\ f[pl[m]] = z + m
    BY <1>6, <1>8
  <2>2. pl[m] \notin 1..w
    BY <1>6, <1>7, <2>1
  <2> QED
    BY <2>1, <2>2
<1>10. 0 \in 0..(g - 1)
  OBVIOUS
<1>11. z = x
  <2>1. pl[0] \in (w + 1)..n /\ f[pl[0]] = z
    BY <1>9, <1>10
  <2>2. pl[0] # w + 1 => f[w + 1] < f[pl[0]]
    BY <1>2, <2>1
  <2>3. x \in Nat
    OBVIOUS
  <2>4. PICK p, y : p = pl[0] /\ y = w + 1
    OBVIOUS
  <2>5. p \in Int /\ y \in Int /\ f[p] = z /\ f[y] = x /\ (p # y => x < z)
    BY <1>2, <1>3, <2>1, <2>2, <2>4
  <2>6. z <= x /\ z \in Nat
    BY <1>4, <1>5, <2>3
  <2> QED
    BY <2>3, <2>5, <2>6
<1>12. \A k \in 1..n : f[k] \in Nat
  OBVIOUS
<1>13. \A k \in 1..n : \A l \in k..n : f[l] - f[k] >= l - k
  <2>1. \A k \in 1..n : f[k] \in Int
    BY <1>12
  <2>2. 1 \in Int /\ n \in Int
    OBVIOUS
  <2>3. \A i, j \in 1..n : i < j => f[i] < f[j]
    OBVIOUS
  <2> QED
    BY <2>1, <2>2, <2>3, RisingBy
<1>14. \A m \in 0..(g - 1) : pl[m] - pl[0] >= m /\ pl[0] = w + 1
  <2>1. \A m \in 0..(g - 1) : pl[m] \in Int
    BY <1>9
  <2>2. \A i, j \in 0..(g - 1) : i < j => pl[i] < pl[j]
    <3> TAKE i, j \in 0..(g - 1)
    <3> HAVE i < j
    <3>1. f[pl[i]] < f[pl[j]] /\ pl[i] \in 1..n /\ pl[j] \in 1..n
      BY <1>9
    <3>2. PICK p, o : p = pl[i] /\ o = pl[j]
      OBVIOUS
    <3>3. p \in 1..n /\ o \in 1..n /\ f[p] < f[o] /\ f[p] \in Nat /\ f[o] \in Nat
      BY <1>12, <3>1, <3>2
    <3>4. o < p => f[o] < f[p]
      BY <3>3
    <3>5. p < o
      BY <3>3, <3>4
    <3> QED
      BY <3>2, <3>5
  <2>3. \A a \in 0..(g - 1) : \A b \in a..(g - 1) : pl[b] - pl[a] >= b - a
    <3>1. 0 \in Int /\ g - 1 \in Int
      OBVIOUS
    <3> QED
      BY <2>1, <2>2, <3>1, RisingBy
  <2>4. \A m \in 0..(g - 1) : pl[m] - pl[0] >= m
    BY <1>10, <2>3
  <2>5. pl[0] = w + 1
    <3>1. pl[0] \in (w + 1)..n /\ f[pl[0]] = f[w + 1]
      BY <1>3, <1>9, <1>10, <1>11
    <3>2. pl[0] # w + 1 => f[w + 1] < f[pl[0]]
      BY <1>2, <3>1
    <3> QED
      BY <1>2, <1>12, <3>1, <3>2
  <2> QED
    BY <2>4, <2>5
<1>15. \A m \in 1..g : f[w + m] = x + m - 1
  <2> TAKE m \in 1..g
  <2>1. m - 1 \in 0..(g - 1) /\ w + m \in 1..n /\ w + m = (w + 1) + (m - 1) /\ w + m \in (w + 1)..n
    BY <1>2
  <2>2. f[w + m] - f[w + 1] >= (w + m) - (w + 1)
    BY <1>2, <1>13, <2>1
  <2>3. pl[m - 1] \in (w + 1)..n /\ f[pl[m - 1]] = x + (m - 1) /\ pl[m - 1] >= w + m
    BY <1>9, <1>11, <1>14, <2>1
  <2>4. f[pl[m - 1]] - f[w + m] >= pl[m - 1] - (w + m)
    BY <1>13, <2>1, <2>3
  <2>5. f[w + m] \in Nat /\ f[w + 1] = x /\ x \in Nat
    BY <1>3, <1>12, <2>1
  <2>6. PICK y, p, o : y = f[w + m] /\ p = pl[m - 1] /\ o = f[pl[m - 1]]
    OBVIOUS
  <2>7. y - x >= m - 1 /\ o - y >= p - (w + m) /\ p >= w + m /\ o = x + (m - 1) /\ p \in Int /\ y \in Nat
    BY <1>2, <2>2, <2>3, <2>4, <2>5, <2>6
  <2>8. y = x + m - 1
    BY <1>2, <2>5, <2>7
  <2> QED
    BY <2>6, <2>8
<1> QED
  BY <1>1, <1>3, <1>4, <1>5, <1>11, <1>15 DEF RowIs

LEMMA AscendingRows ==
  ASSUME NEW S \in SUBSET Nat, IsFiniteSet(S), NEW g \in Nat \ {0}, IsWhole(S, g),
         NEW c \in Nat, (c + 1) * g <= Len(Ascending(S))
  PROVE  RowIs(Ascending(S), g, c)
<1>1. PICK f : f = Ascending(S)
  OBVIOUS
<1>2. PICK n : n = Cardinality(S)
  OBVIOUS
<1>3. n \in Nat /\ f \in Seq(S) /\ Len(f) = n /\ DOMAIN f = 1..n
      /\ (\A x \in S : \E k \in 1..n : f[k] = x) /\ (\A j, k \in 1..n : j < k => f[j] < f[k])
  BY <1>1, <1>2, AscendingFacts
<1>4. f \in [1..n -> S]
  BY <1>3
<1> DEFINE U == {d \in Nat : (d + 1) * g <= n /\ ~RowIs(f, g, d)}
<1>5. U = {}
  <2> SUFFICES ASSUME U # {} PROVE FALSE
    OBVIOUS
  <2>1. U \in SUBSET Nat /\ \A d : d \in U <=> d \in Nat /\ (d + 1) * g <= n /\ ~RowIs(f, g, d)
    OBVIOUS
  <2> HIDE DEF U
  <2>2. PICK d \in U : \A e \in U : d <= e
    BY <2>1, LeastIn
  <2>3. d \in Nat /\ (d + 1) * g <= n /\ ~RowIs(f, g, d)
    BY <2>1
  <2>4. \A e \in 0..(d - 1) : RowIs(f, g, e)
    <3> TAKE e \in 0..(d - 1)
    <3>1. e \in Nat /\ e + 1 \in Int /\ d + 1 \in Int /\ e + 1 <= d + 1 /\ ~(d <= e)
      BY <2>3
    <3>2. (e + 1) * g <= (d + 1) * g /\ (e + 1) * g \in Int /\ (d + 1) * g \in Int
      BY <3>1, TimesMonotone
    <3>3. (e + 1) * g <= n
      BY <1>3, <2>3, <3>2
    <3> QED
      BY <2>1, <2>2, <3>1, <3>3
  <2>5. RowIs(f, g, d)
    BY <1>3, <1>4, <2>3, <2>4, NextRowIs
  <2> QED
    BY <2>3, <2>5
<1> QED
  BY <1>1, <1>3, <1>5

IsDrawn(b, S) == b \in Seq(S) /\ \A i, j \in 1..Len(b) : b[i] = b[j] => i = j

(* Of k groups of g, each has all the numbers that share a quotient.       *)
WholeGroups(b, g, k) ==
  \A x \in 1..k, m \in 1..g, y \in Nat :
    y \div g = b[(x - 1) * g + m] \div g => \E l \in 1..g : y = b[(x - 1) * g + l]

(* And these in order, as the groups are.                                  *)
HasPrompts(b, g, k) ==
  /\ \A x \in 1..k : \E t \in Nat : \A m \in 1..g : b[(x - 1) * g + m] = t * g + (m - 1)
  /\ \A x, y \in 1..k : x < y => b[(x - 1) * g + 1] < b[(y - 1) * g + 1]

LEMMA GroupBatchIs ==
  ASSUME NEW S \in SUBSET Nat, IsFiniteSet(S), NEW g \in Nat \ {0}, NEW k \in Nat,
         GroupBatch(Ascending(S), k * g, g) # << >>
  PROVE  /\ IsDrawn(GroupBatch(Ascending(S), k * g, g), S)
         /\ Len(GroupBatch(Ascending(S), k * g, g)) = k * g
         /\ IsWhole(S, g) => /\ WholeGroups(GroupBatch(Ascending(S), k * g, g), g, k)
                             /\ HasPrompts(GroupBatch(Ascending(S), k * g, g), g, k)
<1>1. PICK f : f = Ascending(S)
  OBVIOUS
<1>2. PICK n : n = Cardinality(S)
  OBVIOUS
<1>3. n \in Nat /\ f \in Seq(S) /\ Len(f) = n /\ DOMAIN f = 1..n
      /\ (\A j, i \in 1..n : j < i => f[j] < f[i])
  BY <1>1, <1>2, AscendingFacts
<1>4. PICK groups : groups = CompleteGroups(f, g)
  OBVIOUS
<1>5. PICK at : BlocksAt(groups, at, f, 1, g, S)
  BY <1>3, <1>4, GroupsHaveBlocks DEF HaveBlocks
<1>6. PICK b : b = GroupBatch(Ascending(S), k * g, g)
  OBVIOUS
<1>7. (k * g) \div g = k /\ k * g \in Nat
  BY QuotientOf
<1>8. b = FlattenSeq(SubSeq(groups, 1, k)) /\ ~(Len(groups) < k)
  BY <1>1, <1>4, <1>6, <1>7 DEF GroupBatch
<1>9. groups \in Seq(Seq(S)) /\ Len(groups) \in Nat /\ k <= Len(groups)
  BY <1>5, <1>8 DEF BlocksAt
<1>10. PICK q : q = SubSeq(groups, 1, k)
  OBVIOUS
<1>11. q \in Seq(Seq(S)) /\ Len(q) = k /\ \A x \in 1..k : q[x] = groups[x]
  <2>1. PICK V : V = Seq(S)
    OBVIOUS
  <2>2. groups \in Seq(V)
    BY <1>9, <2>1
  <2>3. q \in Seq(V) /\ Len(q) = k
    BY <1>9, <1>10, <2>2
  <2>4. \A x \in 1..k : q[x] = groups[x]
    BY <1>9, <1>10, <2>2
  <2> QED
    BY <2>1, <2>3, <2>4
<1>12. \A x \in 1..k : /\ at[x] \in Nat /\ 1 <= at[x] /\ at[x] + g - 1 <= n
                       /\ Len(q[x]) = g /\ \A m \in 1..g : q[x][m] = f[at[x] + m - 1]
  <2>1. \A x \in 1..Len(groups) :
           /\ at[x] \in Nat /\ 1 <= at[x] /\ at[x] + g - 1 <= Len(f)
           /\ Len(groups[x]) = g /\ \A m \in 1..g : groups[x][m] = f[at[x] + m - 1]
    BY <1>5 DEF BlocksAt
  <2>2. \A x \in 1..k : x \in 1..Len(groups)
    BY <1>9
  <2>3. ASSUME NEW x \in 1..k
        PROVE  /\ at[x] \in Nat /\ 1 <= at[x] /\ at[x] + g - 1 <= n
               /\ Len(q[x]) = g /\ \A m \in 1..g : q[x][m] = f[at[x] + m - 1]
    <3>1. q[x] = groups[x] /\ x \in 1..Len(groups)
      BY <1>11, <2>2
    <3>2. Len(q[x]) = g /\ at[x] \in Nat /\ 1 <= at[x] /\ at[x] + g - 1 <= Len(f)
      BY <2>1, <3>1
    <3>3. \A m \in 1..g : q[x][m] = f[at[x] + m - 1]
      BY <2>1, <3>1
    <3> QED
      BY <1>3, <3>2, <3>3
  <2> QED
    BY <2>3
<1>13. \A x, y \in 1..k : x < y => at[x] + g <= at[y]
  <2>1. \A x, y \in 1..Len(groups) : x < y => at[x] + g <= at[y]
    BY <1>5 DEF BlocksAt
  <2>2. \A x \in 1..k : x \in 1..Len(groups)
    BY <1>9
  <2> QED
    BY <2>1, <2>2
<1>14. IsFlat(b, q, g, k, S)
  <2>1. \A x \in 1..Len(q) : Len(q[x]) = g
    BY <1>11, <1>12
  <2>2. IsFlat(FlattenSeq(q), q, g, Len(q), S)
    BY <1>11, <2>1, FlattenFacts
  <2> QED
    BY <1>8, <1>10, <1>11, <2>2
<1>15. b \in Seq(S) /\ Len(b) = k * g
       /\ (\A x \in 1..k, m \in 1..g : b[(x - 1) * g + m] = f[at[x] + m - 1])
       /\ \A p \in 1..(k * g) : \E x \in 1..k, m \in 1..g : p = (x - 1) * g + m
  BY <1>12, <1>14 DEF IsFlat
<1>16. \A x \in 1..k, m \in 1..g : at[x] + m - 1 \in 1..n
  BY <1>3, <1>12
<1>17. \A x, y \in 1..k, m, l \in 1..g : at[x] + m - 1 = at[y] + l - 1 => x = y /\ m = l
  <2> TAKE x, y \in 1..k, m, l \in 1..g
  <2> HAVE at[x] + m - 1 = at[y] + l - 1
  <2>1. at[x] \in Nat /\ at[y] \in Nat
    BY <1>12
  <2>2. ~(x < y) /\ ~(y < x)
    BY <1>13, <2>1
  <2> QED
    BY <2>1, <2>2
<1>18. \A i, j \in 1..n : f[i] = f[j] => i = j
  <2> TAKE i, j \in 1..n
  <2>1. f[i] \in Nat /\ f[j] \in Nat
    <3>1. f[i] \in S /\ f[j] \in S
      BY <1>3
    <3> QED
      BY <3>1
  <2>2. (i < j => f[i] < f[j]) /\ (j < i => f[j] < f[i])
    BY <1>3
  <2> QED
    BY <2>1, <2>2
<1>19. \A i, j \in 1..Len(b) : b[i] = b[j] => i = j
  <2> TAKE i, j \in 1..Len(b)
  <2> HAVE b[i] = b[j]
  <2>1. PICK x \in 1..k, m \in 1..g : i = (x - 1) * g + m
    BY <1>15
  <2>2. PICK y \in 1..k, l \in 1..g : j = (y - 1) * g + l
    BY <1>15
  <2>3. b[i] = f[at[x] + m - 1] /\ b[j] = f[at[y] + l - 1]
    BY <1>15, <2>1, <2>2
  <2>4. at[x] + m - 1 = at[y] + l - 1
    BY <1>16, <1>18, <2>3
  <2>5. x = y /\ m = l
    BY <1>17, <2>4
  <2> QED
    BY <2>1, <2>2, <2>5
<1>20. ASSUME IsWhole(S, g) PROVE WholeGroups(b, g, k) /\ HasPrompts(b, g, k)
  <2>1. ASSUME NEW c \in Nat, (c + 1) * g <= n
        PROVE  RowIs(f, g, c)
    BY <1>1, <1>3, <1>20, <2>1, AscendingRows
  <2>2. HasRows(f, g)
    BY <1>3, <2>1 DEF HasRows, RowIs
  <2>3. IsRow(1, g)
    <3>1. 0 \in Nat /\ 1 = 0 * g + 1
      OBVIOUS
    <3> QED
      BY <3>1 DEF IsRow
  <2>4. \A x \in 1..k : IsRow(at[x], g)
    BY <1>5, <1>9, <2>2, <2>3 DEF BlocksAt
  <2>6. ASSUME NEW x \in 1..k
        PROVE  \E t \in Nat : \A l \in 1..g : b[(x - 1) * g + l] = t * g + (l - 1)
    <3>1. PICK c \in Nat : at[x] = c * g + 1
      BY <2>4 DEF IsRow
    <3>2. PICK w \in Nat : w = c * g /\ (c + 1) * g = w + g
      OBVIOUS
    <3>3. (c + 1) * g <= n
      BY <1>3, <1>12, <3>1, <3>2
    <3>4. f[w + 1] \in Nat /\ f[w + 1] = (f[w + 1] \div g) * g /\ \A l \in 1..g : f[w + l] = f[w + 1] + l - 1
      BY <2>1, <3>2, <3>3 DEF RowIs
    <3>5. PICK z, t : z = f[w + 1] /\ t = z \div g
      OBVIOUS
    <3>6. z \in Nat /\ t \in Nat /\ z = t * g
      BY <3>4, <3>5, Quotient
    <3>7. \A l \in 1..g : b[(x - 1) * g + l] = z + (l - 1)
      <4> TAKE l \in 1..g
      <4>1. at[x] + l - 1 = w + l
        BY <3>1, <3>2
      <4>2. b[(x - 1) * g + l] = f[w + l]
        BY <1>15, <4>1
      <4>3. f[w + l] = z + l - 1
        BY <3>4, <3>5
      <4> QED
        BY <3>6, <4>2, <4>3
    <3> QED
      BY <3>6, <3>7
  <2>5. ASSUME NEW x \in 1..k, NEW m \in 1..g, NEW y \in Nat, y \div g = b[(x - 1) * g + m] \div g
        PROVE  \E l \in 1..g : y = b[(x - 1) * g + l]
    <3>1. PICK t \in Nat : \A l \in 1..g : b[(x - 1) * g + l] = t * g + (l - 1)
      BY <2>6
    <3>6. PICK z \in Nat : z = t * g
      OBVIOUS
    <3>7. \A l \in 1..g : b[(x - 1) * g + l] = z + (l - 1)
      BY <3>1, <3>6
    <3>8. m - 1 \in 0..(g - 1)
      OBVIOUS
    <3>9. (z + (m - 1)) \div g = t
      BY <3>6, <3>8, QuotientInRow
    <3>10. y \div g = t
      BY <2>5, <3>7, <3>9
    <3>11. t * g <= y /\ y < t * g + g
      BY <3>10, Quotient
    <3>12. y - z + 1 \in 1..g /\ y = z + ((y - z + 1) - 1)
      BY <3>6, <3>11
    <3> QED
      BY <3>7, <3>12
  <2>7. ASSUME NEW x \in 1..k, NEW y \in 1..k, x < y PROVE b[(x - 1) * g + 1] < b[(y - 1) * g + 1]
    <3>1. 1 \in 1..g
      OBVIOUS
    <3>2. at[x] \in Nat /\ at[y] \in Nat /\ at[x] + g <= at[y]
      BY <1>12, <1>13, <2>7
    <3>3. at[x] + 1 - 1 = at[x] /\ at[y] + 1 - 1 = at[y] /\ at[x] < at[y]
      BY <3>2
    <3>4. at[x] \in 1..n /\ at[y] \in 1..n
      BY <1>16, <3>1, <3>3
    <3>5. b[(x - 1) * g + 1] = f[at[x]] /\ b[(y - 1) * g + 1] = f[at[y]]
      BY <1>15, <3>1, <3>3
    <3> QED
      BY <1>3, <3>3, <3>4, <3>5
  <2>8. WholeGroups(b, g, k)
    BY <2>5 DEF WholeGroups
  <2>9. HasPrompts(b, g, k)
    BY <2>6, <2>7 DEF HasPrompts
  <2> QED
    BY <2>8, <2>9
<1> QED
  BY <1>6, <1>15, <1>19, <1>20 DEF IsDrawn

-----------------------------------------------------------------------------
(* What the samplers draw and deal.                                       *)

LEMMA FirstAreDrawn ==
  ASSUME NEW S \in SUBSET Nat, IsFiniteSet(S), NEW n \in Nat
  PROVE  IsDrawn(FirstReady(Ascending(S), n), S) /\ IsDrawn(FirstBatch(Ascending(S), n), S)
<1>1. PICK f : f = Ascending(S)
  OBVIOUS
<1>2. PICK c : c = Cardinality(S)
  OBVIOUS
<1>3. c \in Nat /\ f \in Seq(S) /\ Len(f) = c /\ (\A i, j \in 1..c : i < j => f[i] < f[j])
  BY <1>1, <1>2, AscendingFacts
<1>4. PICK l \in 0..c : l = IF c < n THEN c ELSE n
  BY <1>3
<1>5. PICK b : b = SubSeq(f, 1, l)
  OBVIOUS
<1>6. b \in Seq(S) /\ Len(b) = l /\ \A i \in 1..l : b[i] = f[i]
  BY <1>3, <1>4, <1>5
<1>7. \A i, j \in 1..l : b[i] = b[j] => i = j
  <2> TAKE i, j \in 1..l
  <2>1. i \in 1..c /\ j \in 1..c
    BY <1>3, <1>4
  <2>2. f[i] \in S /\ f[j] \in S
    BY <1>3, <2>1
  <2>3. (i < j => f[i] < f[j]) /\ (j < i => f[j] < f[i]) /\ f[i] \in Nat /\ f[j] \in Nat
    BY <1>3, <2>1, <2>2
  <2> QED
    BY <1>6, <2>1, <2>3
<1>8. IsDrawn(b, S)
  BY <1>6, <1>7 DEF IsDrawn
<1>9. FirstReady(Ascending(S), n) = b
  BY <1>1, <1>3, <1>4, <1>5 DEF FirstReady
<1>10. IsDrawn(<< >>, S)
  BY DEF IsDrawn
<1> QED
  BY <1>8, <1>9, <1>10 DEF FirstBatch

(* What the ranks are given of a batch: no sample twice, groups whole.     *)
Deals(A, X, k, g) ==
  /\ DOMAIN A = 0..(k - 1)
  /\ \A r \in 0..(k - 1) : A[r] \in Seq(X)
  /\ \A r, t \in 0..(k - 1) : r # t => Range(A[r]) \cap Range(A[t]) = {}

DealsWhole(A, k, g) ==
  \A r \in 0..(k - 1) : \A x \in Range(A[r]), y \in Nat : y \div g = x \div g => y \in Range(A[r])

(* A rank's part of a batch: the groups at the places p.                   *)
HasGroups(a, p, batch, g, X) ==
  /\ a \in Seq(X)
  /\ \A v \in Range(a) : \E x \in Range(p), m \in 1..g : v = batch[(x - 1) * g + m]
  /\ \A x \in Range(p), m \in 1..g : batch[(x - 1) * g + m] \in Range(a)
  /\ Len(a) = Len(p) * g
  /\ \A y \in 1..Len(p), m \in 1..g : a[(y - 1) * g + m] = batch[(p[y] - 1) * g + m]

(* The parts are a fair division of the groups' total lengths.             *)
SumsIn(batch, g, n, length) == [x \in 1..n |-> SumOver([i \in 1..g |-> length[batch[(x - 1) * g + i]]])]

IsDealt(A, batch, g, k, n, length, X) ==
  \E sums, parts :
     /\ sums = SumsIn(batch, g, n, length) /\ sums \in [1..n -> Nat]
     /\ parts = BalancedPartitions(sums, k) /\ ArePartitions(parts, k, n)
     /\ \A r \in 0..(k - 1) : HasGroups(A[r], parts[r + 1], batch, g, X)

LEMMA AssignmentIs ==
  ASSUME NEW X, NEW batch, IsDrawn(batch, X), NEW g \in Nat \ {0}, NEW k \in Nat \ {0}, NEW n \in Nat, k <= n,
         Len(batch) = n * g, NEW length, \A x \in X : length[x] \in Nat
  PROVE  /\ Deals(Assignment(batch, g, k, length), X, k, g)
         /\ WholeGroups(batch, g, n) => DealsWhole(Assignment(batch, g, k, length), k, g)
         /\ IsDealt(Assignment(batch, g, k, length), batch, g, k, n, length, X)
<1>1. (n * g) \div g = n /\ n * g \in Nat
  BY QuotientOf
<1>2. batch \in Seq(X) /\ DOMAIN batch = 1..(n * g)
  BY DEF IsDrawn
<1> DEFINE groups == [x \in 1..(Len(batch) \div g) |-> SubSeq(batch, (x - 1) * g + 1, x * g)]
<1> DEFINE sums == [x \in DOMAIN groups |-> SumOver([i \in 1..g |-> length[groups[x][i]]])]
<1> DEFINE parts == BalancedPartitions(sums, k)
<1> DEFINE A == Assignment(batch, g, k, length)
<1>11. A = [r \in 0..(k - 1) |-> FlattenSeq([y \in DOMAIN parts[r + 1] |-> groups[parts[r + 1][y]]])]
  BY DEF Assignment
<1>3. groups = [x \in 1..n |-> SubSeq(batch, (x - 1) * g + 1, x * g)]
  BY <1>1
<1>19. DOMAIN groups = 1..n
  BY <1>3
<1>6. sums = [x \in 1..n |-> SumOver([i \in 1..g |-> length[groups[x][i]]])]
  <2> HIDE DEF groups
  <2> QED
    BY <1>19
<1>8. parts = BalancedPartitions(sums, k)
  OBVIOUS
<1>10. A = Assignment(batch, g, k, length)
  OBVIOUS
<1> HIDE DEF groups, sums, parts, A
<1>4. \A x \in 1..n, m \in 1..g : (x - 1) * g + m \in 1..(n * g)
  BY BlockPlaces
<1>5. \A x \in 1..n : /\ groups[x] \in Seq(X) /\ Len(groups[x]) = g
                      /\ \A m \in 1..g : groups[x][m] = batch[(x - 1) * g + m]
  <2> TAKE x \in 1..n
  <2>1. PICK w \in Nat : w = (x - 1) * g
    OBVIOUS
  <2>2. x * g = w + g
    BY <2>1
  <2>3. 1 \in 1..g /\ g \in 1..g
    OBVIOUS
  <2>4. w + 1 \in 1..(n * g) /\ w + g \in 1..(n * g)
    BY <1>4, <2>1, <2>3
  <2>5. PICK l \in Nat : l = n * g
    BY <1>1
  <2>6. groups[x] = SubSeq(batch, w + 1, w + g)
    BY <1>3, <2>1, <2>2
  <2>7. Len(batch) = l /\ w + 1 \in 1..l /\ w + g \in 1..l
    BY <2>4, <2>5
  <2>8. PICK s : s = SubSeq(batch, w + 1, w + g)
    OBVIOUS
  <2>9. s \in Seq(X) /\ Len(s) = g
    BY <1>2, <2>7, <2>8
  <2>10. ASSUME NEW m \in 1..g PROVE s[m] = batch[w + m]
    <3>1. PICK a, b : a = w + 1 /\ b = w + g
      OBVIOUS
    <3>2. a \in 1..Len(batch) /\ b \in 1..Len(batch) /\ m \in 1..(b - a + 1) /\ a + m - 1 = w + m
      BY <2>7, <3>1
    <3>3. s = SubSeq(batch, a, b) /\ batch \in Seq(X)
      BY <1>2, <2>8, <3>1
    <3>4. s[m] = batch[a + m - 1]
      BY <3>2, <3>3
    <3> QED
      BY <3>2, <3>4
  <2> QED
    BY <2>1, <2>6, <2>8, <2>9, <2>10
<1>7. sums \in [1..n -> Nat]
  <2>1. ASSUME NEW x \in 1..n
        PROVE  SumOver([i \in 1..g |-> length[groups[x][i]]]) \in Nat
    <3>1. \A i \in 1..g : groups[x][i] \in X
      BY <1>5
    <3>2. [i \in 1..g |-> length[groups[x][i]]] \in Seq(Nat)
      BY <3>1
    <3> QED
      BY <3>2, SumIs
  <2> QED
    BY <1>6, <2>1
<1>9. ArePartitions(parts, k, n)
  BY <1>7, <1>8, PartitionsAre
<1>12. ASSUME NEW r \in 0..(k - 1)
       PROVE  HasGroups(A[r], parts[r + 1], batch, g, X)
  <2>1. PICK j \in 1..k : j = r + 1
    OBVIOUS
  <2>2. PICK p : p = parts[j]
    OBVIOUS
  <2>3. p \in Seq(1..n)
    BY <1>9, <2>2 DEF ArePartitions
  <2>4. PICK l \in Nat : l = Len(p) /\ DOMAIN p = 1..l
    BY <2>3
  <2>5. PICK q : q = [y \in 1..l |-> groups[p[y]]]
    OBVIOUS
  <2>6. A[r] = FlattenSeq(q)
    BY <1>11, <2>1, <2>2, <2>4, <2>5
  <2>7. \A y \in 1..l : p[y] \in 1..n
    BY <2>3, <2>4
  <2>8. \A y \in 1..l : /\ q[y] \in Seq(X) /\ Len(q[y]) = g
                        /\ \A m \in 1..g : q[y][m] = batch[(p[y] - 1) * g + m]
    BY <1>5, <2>5, <2>7
  <2>9. q \in Seq(Seq(X)) /\ Len(q) = l
    <3>1. PICK V : V = Seq(X)
      OBVIOUS
    <3>2. \A y \in 1..l : q[y] \in V
      BY <2>8, <3>1
    <3>3. q \in Seq(V) /\ Len(q) = l
      BY <2>5, <3>2
    <3> QED
      BY <3>1, <3>3
  <2>10. IsFlat(A[r], q, g, l, X)
    <3>1. \A y \in 1..Len(q) : Len(q[y]) = g
      BY <2>8, <2>9
    <3>2. IsFlat(FlattenSeq(q), q, g, Len(q), X)
      BY <2>9, <3>1, FlattenFacts
    <3> QED
      BY <2>6, <2>9, <3>2
  <2>11. PICK a : a = A[r]
    OBVIOUS
  <2>12. /\ a \in Seq(X) /\ Len(a) = l * g
         /\ \A y \in 1..l, m \in 1..g : a[(y - 1) * g + m] = q[y][m]
         /\ \A i \in 1..(l * g) : \E y \in 1..l, m \in 1..g : i = (y - 1) * g + m
    BY <2>10, <2>11 DEF IsFlat
  <2>13. DOMAIN a = 1..(l * g)
    BY <2>12
  <2>14. ASSUME NEW v \in Range(a)
         PROVE  \E x \in Range(p), m \in 1..g : v = batch[(x - 1) * g + m]
    <3>1. PICK i \in 1..(l * g) : v = a[i]
      BY <2>13 DEF Range
    <3>2. PICK y \in 1..l, m \in 1..g : i = (y - 1) * g + m
      BY <2>12
    <3>3. v = batch[(p[y] - 1) * g + m]
      BY <2>8, <2>12, <3>1, <3>2
    <3>4. p[y] \in Range(p)
      BY <2>4 DEF Range
    <3> QED
      BY <3>3, <3>4
  <2>15. ASSUME NEW x \in Range(p), NEW m \in 1..g
         PROVE  batch[(x - 1) * g + m] \in Range(a)
    <3>1. PICK y \in 1..l : x = p[y]
      BY <2>4 DEF Range
    <3>2. PICK i : i = (y - 1) * g + m
      OBVIOUS
    <3>3. i \in 1..(l * g)
      BY <3>2, BlockPlaces
    <3>4. a[i] = batch[(x - 1) * g + m]
      BY <2>8, <2>12, <3>1, <3>2
    <3> QED
      BY <2>13, <3>3, <3>4 DEF Range
  <2>17. \A y \in 1..l, m \in 1..g : a[(y - 1) * g + m] = batch[(p[y] - 1) * g + m]
    <3> TAKE y \in 1..l, m \in 1..g
    <3>1. a[(y - 1) * g + m] = q[y][m]
      BY <2>12
    <3>2. q[y][m] = batch[(p[y] - 1) * g + m]
      BY <2>8
    <3> QED
      BY <3>1, <3>2
  <2>16. HasGroups(a, p, batch, g, X)
    BY <2>4, <2>12, <2>14, <2>15, <2>17 DEF HasGroups
  <2> QED
    BY <2>1, <2>2, <2>11, <2>16
<1>13. \A r \in 0..(k - 1) : r + 1 \in 1..k /\ Range(parts[r + 1]) \subseteq 1..n
  <2> TAKE r \in 0..(k - 1)
  <2>1. r + 1 \in 1..k
    OBVIOUS
  <2>2. parts[r + 1] \in Seq(1..n)
    BY <1>9, <2>1 DEF ArePartitions
  <2> QED
    BY <2>1, <2>2 DEF Range
<1>14. ASSUME NEW x \in 1..n, NEW y \in 1..n, x # y, NEW m \in 1..g, NEW l \in 1..g
       PROVE  batch[(x - 1) * g + m] # batch[(y - 1) * g + l]
  <2>1. PICK s, t : s = x - 1 /\ t = y - 1
    OBVIOUS
  <2>2. s \in 0..(n - 1) /\ t \in 0..(n - 1) /\ s # t
    BY <1>14, <2>1
  <2>3. n * g <= n * g
    BY <1>1
  <2>4. s * g + m # t * g + l
    BY <1>1, <2>2, <2>3, RowPlaces
  <2>5. (x - 1) * g + m # (y - 1) * g + l
    BY <2>1, <2>4
  <2>6. PICK i, j : i = (x - 1) * g + m /\ j = (y - 1) * g + l
    OBVIOUS
  <2>7. i \in 1..Len(batch) /\ j \in 1..Len(batch) /\ i # j
    BY <1>4, <2>5, <2>6
  <2> QED
    BY <2>6, <2>7 DEF IsDrawn
<1>15. \A r, t \in 0..(k - 1) : r # t => Range(A[r]) \cap Range(A[t]) = {}
  <2> TAKE r, t \in 0..(k - 1)
  <2> HAVE r # t
  <2> SUFFICES ASSUME NEW v \in Range(A[r]), v \in Range(A[t]) PROVE FALSE
    OBVIOUS
  <2>1. PICK x \in Range(parts[r + 1]), m \in 1..g : v = batch[(x - 1) * g + m]
    <3>1. HasGroups(A[r], parts[r + 1], batch, g, X)
      BY <1>12
    <3> QED
      BY <3>1 DEF HasGroups
  <2>2. PICK y \in Range(parts[t + 1]), l \in 1..g : v = batch[(y - 1) * g + l]
    <3>1. HasGroups(A[t], parts[t + 1], batch, g, X)
      BY <1>12
    <3> QED
      BY <3>1 DEF HasGroups
  <2>3. PICK i, j : i = r + 1 /\ j = t + 1
    OBVIOUS
  <2>4. i \in 1..k /\ j \in 1..k /\ i # j
    BY <2>3
  <2>5. Range(parts[i]) \cap Range(parts[j]) = {}
    BY <1>9, <2>4 DEF ArePartitions
  <2>6. x # y
    BY <2>1, <2>2, <2>3, <2>5
  <2>7. x \in 1..n /\ y \in 1..n
    BY <1>13
  <2> QED
    BY <1>14, <2>1, <2>2, <2>6, <2>7
<1>16. ASSUME WholeGroups(batch, g, n) PROVE DealsWhole(A, k, g)
  <2>1. ASSUME NEW r \in 0..(k - 1), NEW v \in Range(A[r]), NEW y \in Nat, y \div g = v \div g
        PROVE  y \in Range(A[r])
    <3>5. HasGroups(A[r], parts[r + 1], batch, g, X)
      BY <1>12
    <3>1. PICK x \in Range(parts[r + 1]), m \in 1..g : v = batch[(x - 1) * g + m]
      BY <3>5 DEF HasGroups
    <3>2. x \in 1..n
      BY <1>13
    <3>3. y \div g = batch[(x - 1) * g + m] \div g
      BY <2>1, <3>1
    <3>4. PICK l \in 1..g : y = batch[(x - 1) * g + l]
      BY <1>16, <3>2, <3>3 DEF WholeGroups
    <3> QED
      BY <3>4, <3>5 DEF HasGroups
  <2> QED
    BY <2>1 DEF DealsWhole
<1>17. DOMAIN A = 0..(k - 1)
  BY <1>11
<1>18. Deals(A, X, k, g)
  BY <1>12, <1>15, <1>17 DEF Deals, HasGroups
<1>20. sums = SumsIn(batch, g, n, length)
  <2>1. ASSUME NEW x \in 1..n
        PROVE  [i \in 1..g |-> length[groups[x][i]]] = [i \in 1..g |-> length[batch[(x - 1) * g + i]]]
    BY <1>5
  <2> QED
    BY <1>6, <2>1 DEF SumsIn
<1>21. IsDealt(A, batch, g, k, n, length, X)
  BY <1>7, <1>8, <1>9, <1>12, <1>20 DEF IsDealt
<1> QED
  BY <1>10, <1>16, <1>18, <1>21

-----------------------------------------------------------------------------
(* Numbers that ascend are their set in order.                             *)
Rises(a, n) == DOMAIN a = 1..n /\ (\A i \in 1..n : a[i] \in Nat) /\ \A i, j \in 1..n : i < j => a[i] < a[j]

LEMMA RisesNoSooner ==
  ASSUME NEW n \in Nat, NEW a, NEW h, Rises(a, n), Rises(h, n), Range(a) = Range(h),
         NEW i \in 1..n, \A j \in 1..n : j < i => a[j] = h[j]
  PROVE  ~(a[i] < h[i])
<1> SUFFICES ASSUME a[i] < h[i] PROVE FALSE
  OBVIOUS
<1>1. a[i] \in Range(h)
  BY DEF Rises, Range
<1>2. PICK j \in 1..n : a[i] = h[j]
  BY <1>1 DEF Rises, Range
<1>3. a[i] \in Nat /\ h[i] \in Nat /\ a[j] \in Nat
  BY DEF Rises
<1>4. CASE j < i
  <2>1. a[j] = h[j] /\ a[j] < a[i]
    BY <1>4 DEF Rises
  <2> QED
    BY <1>2, <1>3, <2>1
<1>5. CASE j = i
  BY <1>2, <1>3, <1>5
<1>6. CASE i < j
  <2>1. h[i] < h[j]
    BY <1>6 DEF Rises
  <2> QED
    BY <1>2, <1>3, <2>1
<1>7. j < i \/ j = i \/ i < j
  OBVIOUS
<1> QED
  BY <1>4, <1>5, <1>6, <1>7

LEMMA AscendingOf ==
  ASSUME NEW n \in Nat, NEW h, Rises(h, n)
  PROVE  DOMAIN Ascending(Range(h)) = 1..n /\ \A i \in 1..n : Ascending(Range(h))[i] = h[i]
<1>1. PICK S : S = Range(h)
  OBVIOUS
<1>2. \A i, j \in 1..n : h[i] = h[j] => i = j
  <2> TAKE i, j \in 1..n
  <2>1. h[i] \in Nat /\ h[j] \in Nat /\ (i < j => h[i] < h[j]) /\ (j < i => h[j] < h[i])
    BY DEF Rises
  <2> QED
    BY <2>1
<1>3. IsFiniteSet(S) /\ Cardinality(S) = n /\ S \in SUBSET Nat
  <2>1. DOMAIN h = 1..n
    BY DEF Rises
  <2>2. S \in SUBSET Nat
    BY <1>1 DEF Rises, Range
  <2> QED
    BY <1>1, <1>2, <2>1, <2>2, ImageOf
<1>4. PICK a : a = Ascending(S)
  OBVIOUS
<1>5. a \in Seq(S) /\ DOMAIN a = 1..n /\ (\A x \in S : \E i \in 1..n : a[i] = x)
      /\ \A i, j \in 1..n : i < j => a[i] < a[j]
  BY <1>3, <1>4, AscendingFacts
<1>6. Range(a) = S /\ \A i \in 1..n : a[i] \in Nat
  BY <1>3, <1>5 DEF Range
<1>7. Rises(a, n) /\ Range(a) = Range(h)
  BY <1>1, <1>5, <1>6 DEF Rises
<1> DEFINE U == {i \in 1..n : a[i] # h[i]}
<1>8. U = {}
  <2> SUFFICES ASSUME U # {} PROVE FALSE
    OBVIOUS
  <2>1. U \in SUBSET Nat /\ \A i : i \in U <=> i \in 1..n /\ a[i] # h[i]
    OBVIOUS
  <2> HIDE DEF U
  <2>2. PICK i \in U : \A j \in U : i <= j
    BY <2>1, LeastIn
  <2>3. i \in 1..n /\ a[i] # h[i]
    BY <2>1
  <2>4. \A j \in 1..n : j < i => a[j] = h[j]
    <3> TAKE j \in 1..n
    <3> HAVE j < i
    <3>1. j \notin U
      BY <2>2, <2>3
    <3> QED
      BY <2>1, <3>1
  <2>5. ~(a[i] < h[i])
    BY <1>7, <2>3, <2>4, RisesNoSooner
  <2>6. ~(h[i] < a[i])
    BY <1>7, <2>3, <2>4, RisesNoSooner
  <2>7. a[i] \in Nat /\ h[i] \in Nat
    BY <1>7, <2>3 DEF Rises
  <2> QED
    BY <2>3, <2>5, <2>6, <2>7
<1> QED
  BY <1>1, <1>4, <1>5, <1>8

-----------------------------------------------------------------------------
(* What is fair of parts A of a batch in groups of g, as it is of a        *)
(* balanced batch.                                                         *)
Total(A, x, length) == SumOver([j \in DOMAIN A[x] |-> length[A[x][j]]])
Firsts(A, g, k) == {i \in UNION {Range(A[x]) : x \in 0..(k - 1)} : i % g = 0}
SumsOf(A, g, k, length) ==
  [n \in DOMAIN Ascending(Firsts(A, g, k)) |->
     LET first == Ascending(Firsts(A, g, k))[n]
     IN  SumOver([j \in 1..g |-> length[first + j - 1]])]

IsFair(A, g, k, length) ==
  \A d, e \in 0..(k - 1) :
    /\ Len(A[d]) = Len(A[e])
    /\ \E s \in Rounds(SumsOf(A, g, k, length), k) : Total(A, d, length) - Total(A, e, length) <= Spread(s)

AreLengths(length, X) == \A x \in X : length[x] \in Nat
Climbs(p) == \A x, y \in 1..Len(p) : x < y => p[x] < p[y]

(* A part's total length is what its places weigh.                         *)
LEMMA TotalIs ==
  ASSUME NEW X, NEW batch, NEW g \in Nat \ {0}, NEW n \in Nat, NEW length, AreLengths(length, X),
         NEW sums \in [1..n -> Nat], sums = SumsIn(batch, g, n, length),
         NEW p \in Seq(1..n), Climbs(p),
         NEW A, NEW r, HasGroups(A[r], p, batch, g, X)
  PROVE  Total(A, r, length) = Weight(sums, n, Range(p))
<1>12. PICK l \in Nat : l = Len(p)
  OBVIOUS
<1>13. PICK a : a = A[r]
  OBVIOUS
<1>1. a = A[r] /\ l = Len(p) /\ DOMAIN p = 1..l /\ \A y \in 1..l : p[y] \in 1..n
  BY <1>12, <1>13
<1>2. a \in Seq(X) /\ Len(a) = l * g /\ \A y \in 1..l, m \in 1..g : a[(y - 1) * g + m] = batch[(p[y] - 1) * g + m]
  BY <1>1 DEF HasGroups
<1>3. PICK b : b = [j \in DOMAIN a |-> length[a[j]]]
  OBVIOUS
<1>4. b \in Seq(Nat) /\ Len(b) = l * g /\ \A j \in 1..(l * g) : b[j] = length[a[j]]
  <2>1. PICK c \in Nat : c = l * g
    OBVIOUS
  <2>2. DOMAIN a = 1..c /\ \A j \in 1..c : a[j] \in X
    BY <1>2, <2>1
  <2>5. \A j \in 1..c : length[a[j]] \in Nat
    BY <2>2 DEF AreLengths
  <2>3. b = [j \in 1..c |-> length[a[j]]] /\ \A j \in 1..c : length[a[j]] \in Nat
    BY <1>3, <2>2, <2>5
  <2>4. b \in Seq(Nat) /\ Len(b) = c
    <3>1. b \in [1..c -> Nat]
      BY <2>3
    <3> QED
      BY <3>1, SequenceOfLength
  <2> QED
    BY <2>1, <2>3, <2>4
<1>5. PICK t : t = [y \in 1..l |-> sums[p[y]]]
  OBVIOUS
<1>6. t \in Seq(Nat) /\ Len(t) = l
  BY <1>1, <1>5
<1>7. ASSUME NEW y \in 1..l PROVE t[y] = SumOver([m \in 1..g |-> b[(y - 1) * g + m]])
  <2>1. PICK x \in 1..n : x = p[y]
    BY <1>1
  <2>2. t[y] = SumOver([m \in 1..g |-> length[batch[(x - 1) * g + m]]])
    BY <1>5, <2>1 DEF SumsIn
  <2>3. ASSUME NEW m \in 1..g PROVE b[(y - 1) * g + m] = length[batch[(x - 1) * g + m]]
    <3>1. PICK i : i = (y - 1) * g + m
      OBVIOUS
    <3>2. i \in 1..(l * g)
      BY <3>1, BlockPlaces
    <3>3. b[i] = length[a[i]]
      BY <1>4, <3>2
    <3>4. a[i] = batch[(x - 1) * g + m]
      BY <1>2, <2>1, <3>1
    <3> QED
      BY <3>1, <3>3, <3>4
  <2>4. [m \in 1..g |-> b[(y - 1) * g + m]] = [m \in 1..g |-> length[batch[(x - 1) * g + m]]]
    BY <2>3
  <2> QED
    BY <2>2, <2>4
<1>8. SumOver(b) = SumOver(t)
  <2>1. AreBlockSums(t, b, l, g)
    BY <1>7 DEF AreBlockSums
  <2>2. PICK c \in Nat : c = l * g
    OBVIOUS
  <2>3. b \in Seq(Nat) /\ Len(b) = c /\ t \in Seq(Nat) /\ Len(t) = l
    BY <1>4, <1>6, <2>2
  <2> QED
    BY <2>1, <2>2, <2>3, SumInBlocks
<1>9. \A x, y \in 1..l : x # y => p[x] # p[y]
  <2> TAKE x, y \in 1..l
  <2>1. (x < y => p[x] < p[y]) /\ (y < x => p[y] < p[x])
    BY <1>1 DEF Climbs
  <2>2. PICK c, d : c = p[x] /\ d = p[y]
    OBVIOUS
  <2>3. c \in 1..n /\ d \in 1..n
    BY <1>1, <2>2
  <2> QED
    BY <2>1, <2>2, <2>3
<1>10. SumOver(t) = Weight(sums, n, Range(p))
  <2>1. ArePlaces(p, l, n)
    BY <1>1, <1>9 DEF ArePlaces
  <2>2. t = Placed(sums, p, l)
    BY <1>5 DEF Placed
  <2>3. SumOver(Placed(sums, p, l)) = Weight(sums, n, Range(p))
    BY <2>1, WeightOfList
  <2> QED
    BY <2>2, <2>3
<1>11. Total(A, r, length) = SumOver(b)
  BY <1>1, <1>3 DEF Total
<1> QED
  BY <1>8, <1>10, <1>11

(* The groups are found again in the parts.                                *)
AllParted(A, parts, batch, g, k, n, X) ==
  /\ \A r \in 0..(k - 1) : HasGroups(A[r], parts[r + 1], batch, g, X) /\ Range(parts[r + 1]) \subseteq 1..n
  /\ \A x \in 1..n : \E j \in 1..k : x \in Range(parts[j])

LEMMA FirstsAre ==
  ASSUME NEW X, NEW batch, NEW g \in Nat \ {0}, NEW n \in Nat, NEW k \in Nat, NEW A, NEW parts,
         AllParted(A, parts, batch, g, k, n, X), HasPrompts(batch, g, n),
         NEW h, h = [x \in 1..n |-> batch[(x - 1) * g + 1]]
  PROVE  Rises(h, n) /\ Firsts(A, g, k) = Range(h)
<1>1. 1 \in 1..g
  OBVIOUS
<1>2. ASSUME NEW x \in 1..n, NEW m \in 1..g
      PROVE  LET v == batch[(x - 1) * g + m] IN v \in Nat /\ (v % g = 0 <=> m = 1)
  <2>1. PICK t \in Nat : \A l \in 1..g : batch[(x - 1) * g + l] = t * g + (l - 1)
    BY DEF HasPrompts
  <2>2. PICK z \in Nat : z = t * g
    OBVIOUS
  <2>3. PICK v : v = batch[(x - 1) * g + m]
    OBVIOUS
  <2>4. m - 1 \in 0..(g - 1) /\ v = z + (m - 1) /\ v \in Nat
    BY <2>1, <2>2, <2>3
  <2>5. v \div g = t
    BY <2>2, <2>4, QuotientInRow
  <2>6. v % g = v - z
    <3>1. v % g = v - (v \div g) * g
      BY <2>4, Quotient
    <3> QED
      BY <2>2, <2>5, <3>1
  <2>7. v % g = 0 <=> m = 1
    BY <2>4, <2>6
  <2> QED
    BY <2>3, <2>4, <2>7
<1>3. Rises(h, n)
  <2>1. DOMAIN h = 1..n /\ \A x \in 1..n : h[x] = batch[(x - 1) * g + 1]
    OBVIOUS
  <2>2. \A x \in 1..n : h[x] \in Nat
    BY <1>1, <1>2, <2>1
  <2>3. \A x, y \in 1..n : x < y => h[x] < h[y]
    BY <2>1 DEF HasPrompts
  <2> QED
    BY <2>1, <2>2, <2>3 DEF Rises
<1>4. ASSUME NEW v \in Firsts(A, g, k) PROVE v \in Range(h)
  <2>1. PICK r \in 0..(k - 1) : v \in Range(A[r]) /\ v % g = 0
    BY DEF Firsts
  <2>2. HasGroups(A[r], parts[r + 1], batch, g, X) /\ Range(parts[r + 1]) \subseteq 1..n
    BY DEF AllParted
  <2>3. PICK x \in 1..n, m \in 1..g : v = batch[(x - 1) * g + m]
    <3>1. PICK x \in Range(parts[r + 1]), m \in 1..g : v = batch[(x - 1) * g + m]
      BY <2>1, <2>2 DEF HasGroups
    <3> QED
      BY <2>2, <3>1
  <2>4. m = 1
    BY <1>2, <2>1, <2>3
  <2> QED
    BY <2>3, <2>4 DEF Range
<1>5. ASSUME NEW v \in Range(h) PROVE v \in Firsts(A, g, k)
  <2>1. PICK x \in 1..n : v = batch[(x - 1) * g + 1]
    BY DEF Range
  <2>2. PICK j \in 1..k : x \in Range(parts[j])
    BY DEF AllParted
  <2>3. PICK r : r = j - 1
    OBVIOUS
  <2>4. r \in 0..(k - 1) /\ j = r + 1
    BY <2>3
  <2>5. HasGroups(A[r], parts[j], batch, g, X)
    BY <2>4 DEF AllParted
  <2>6. v \in Range(A[r])
    BY <1>1, <2>1, <2>2, <2>5 DEF HasGroups
  <2>7. v % g = 0
    BY <1>1, <1>2, <2>1
  <2> QED
    BY <2>4, <2>6, <2>7 DEF Firsts
<1> QED
  BY <1>3, <1>4, <1>5

LEMMA SumsAreFound ==
  ASSUME NEW X, NEW batch, NEW g \in Nat \ {0}, NEW n \in Nat, NEW k \in Nat, NEW A, NEW parts, NEW length,
         AllParted(A, parts, batch, g, k, n, X), HasPrompts(batch, g, n)
  PROVE  SumsOf(A, g, k, length) = SumsIn(batch, g, n, length)
<1>1. PICK h : h = [x \in 1..n |-> batch[(x - 1) * g + 1]]
  OBVIOUS
<1>2. Rises(h, n) /\ Firsts(A, g, k) = Range(h)
  BY <1>1, FirstsAre
<1>3. PICK a : a = Ascending(Firsts(A, g, k))
  OBVIOUS
<1>4. DOMAIN a = 1..n /\ \A x \in 1..n : a[x] = h[x]
  BY <1>2, <1>3, AscendingOf
<1>5. SumsOf(A, g, k, length) = [x \in 1..n |-> SumOver([j \in 1..g |-> length[a[x] + j - 1]])]
  BY <1>3, <1>4 DEF SumsOf
<1>6. ASSUME NEW x \in 1..n
      PROVE  [j \in 1..g |-> length[a[x] + j - 1]] = [j \in 1..g |-> length[batch[(x - 1) * g + j]]]
  <2>1. PICK t \in Nat : \A l \in 1..g : batch[(x - 1) * g + l] = t * g + (l - 1)
    BY <1>2 DEF HasPrompts
  <2>2. PICK z \in Nat : z = t * g
    OBVIOUS
  <2>3. 1 \in 1..g /\ a[x] = batch[(x - 1) * g + 1]
    BY <1>1, <1>4
  <2>4. a[x] = z
    BY <2>1, <2>2, <2>3
  <2>5. \A j \in 1..g : a[x] + j - 1 = batch[(x - 1) * g + j]
    <3> TAKE j \in 1..g
    <3>1. batch[(x - 1) * g + j] = z + (j - 1)
      BY <2>1, <2>2
    <3> QED
      BY <2>4, <3>1
  <2> QED
    BY <2>5
<1>7. \A x \in 1..n : SumOver([j \in 1..g |-> length[a[x] + j - 1]])
                        = SumOver([j \in 1..g |-> length[batch[(x - 1) * g + j]]])
  BY <1>6
<1> QED
  BY <1>5, <1>7 DEF SumsIn

LEMMA AssignmentIsFair ==
  ASSUME NEW X, NEW batch, NEW g \in Nat \ {0}, NEW k \in Nat \ {0}, NEW n \in Nat, k <= n, (n \div k) * k = n,
         NEW length, AreLengths(length, X), NEW A,
         IsDealt(A, batch, g, k, n, length, X), HasPrompts(batch, g, n)
  PROVE  IsFair(A, g, k, length)
<1>1. PICK sums, parts :
        /\ sums = SumsIn(batch, g, n, length) /\ sums \in [1..n -> Nat]
        /\ parts = BalancedPartitions(sums, k) /\ ArePartitions(parts, k, n)
        /\ \A r \in 0..(k - 1) : HasGroups(A[r], parts[r + 1], batch, g, X)
  BY DEF IsDealt
<1>2. DividesFairly(parts, n, sums, k)
  <2>1. sums \in [1..n -> Nat]
    BY <1>1
  <2>2. DividesFairly(BalancedPartitions(sums, k), n, sums, k)
    BY <2>1, PartitionsAreFair
  <2> QED
    BY <1>1, <2>2
<1>3. \A r \in 0..(k - 1) : r + 1 \in 1..k
  OBVIOUS
<1>4. \A j \in 1..k : /\ parts[j] \in Seq(1..n) /\ Range(parts[j]) \subseteq 1..n /\ Len(parts[j]) \in Nat
                      /\ \A x, y \in 1..Len(parts[j]) : x < y => parts[j][x] < parts[j][y]
  <2> TAKE j \in 1..k
  <2>1. PICK p : p = parts[j]
    OBVIOUS
  <2>2. p \in Seq(1..n) /\ \A x, y \in 1..Len(p) : x < y => p[x] < p[y]
    BY <1>1, <2>1 DEF ArePartitions
  <2>3. Range(p) \subseteq 1..n /\ Len(p) \in Nat
    BY <2>2 DEF Range
  <2> QED
    BY <2>1, <2>2, <2>3
<1>5. AllParted(A, parts, batch, g, k, n, X)
  BY <1>1, <1>2, <1>3, <1>4 DEF AllParted, DividesFairly
<1>6. SumsOf(A, g, k, length) = sums
  <2>1. SumsOf(A, g, k, length) = SumsIn(batch, g, n, length)
    BY <1>5, SumsAreFound
  <2> QED
    BY <1>1, <2>1
<1>7. ASSUME NEW r \in 0..(k - 1)
      PROVE  /\ Total(A, r, length) = Weight(sums, n, Range(parts[r + 1]))
             /\ Len(A[r]) = Len(parts[r + 1]) * g
  <2>1. PICK p : p = parts[r + 1]
    OBVIOUS
  <2>2. p \in Seq(1..n) /\ Climbs(p) /\ HasGroups(A[r], p, batch, g, X)
    BY <1>1, <1>3, <1>4, <2>1 DEF Climbs
  <2>3. sums \in [1..n -> Nat] /\ sums = SumsIn(batch, g, n, length)
    BY <1>1
  <2>4. Total(A, r, length) = Weight(sums, n, Range(p))
    BY <2>2, <2>3, TotalIs
  <2> QED
    BY <2>1, <2>2, <2>4 DEF HasGroups
<1>8. PICK s \in Rounds(sums, k) : \A i, j \in 1..k :
        Weight(sums, n, Range(parts[i])) - Weight(sums, n, Range(parts[j])) <= Spread(s)
  BY <1>2 DEF DividesFairly
<1>9. ASSUME NEW d \in 0..(k - 1), NEW e \in 0..(k - 1)
      PROVE  Len(A[d]) = Len(A[e]) /\ Total(A, d, length) - Total(A, e, length) <= Spread(s)
  <2>1. Len(parts[d + 1]) = Len(parts[e + 1])
    BY <1>2, <1>3 DEF DividesFairly
  <2> QED
    BY <1>3, <1>7, <1>8, <2>1
<1> QED
  BY <1>6, <1>9 DEF IsFair

-----------------------------------------------------------------------------
(* The samplers' tables.                                                   *)
LEMMA TableIs ==
  ASSUME NEW f PROVE Table(f) = f
<1>1. \E g \in {f} : g = f
  OBVIOUS
<1>2. (CHOOSE g \in {f} : g = f) = f
  BY <1>1
<1> QED
  BY <1>2 DEF Table

LEMMA SettingsAre ==
  ASSUME NEW s \in Samplings
  PROVE  /\ s[1] \in {"sequential", "rank_aware", "grpo", "seqlen"}
         /\ s[2] \in Nat \ {0} /\ s[3] \in Nat \ {0} /\ N \in Nat \ {0} /\ DpSize \in Nat \ {0}
         /\ \E k \in Nat \ {0} : s[3] = k * s[2]
         /\ \E k \in Nat \ {0} : N = k * s[2]
<1>1. N \in Nat \ {0} /\ DpSize \in Nat \ {0}
  BY StreamingAssumption
<1>2. s[1] \in {"sequential", "rank_aware", "grpo", "seqlen"} /\ s[2] \in 1..N /\ s[3] \in 1..N
      /\ s[3] % s[2] = 0 /\ N % s[2] = 0
  BY StreamingAssumption
<1>3. PICK g, b : g = s[2] /\ b = s[3]
  OBVIOUS
<1>4. g \in Nat \ {0} /\ b \in Nat \ {0} /\ b % g = 0 /\ N % g = 0
  BY <1>1, <1>2, <1>3
<1>5. ASSUME NEW m \in Nat \ {0}, m % g = 0 PROVE \E k \in Nat \ {0} : m = k * g
  <2>1. PICK k \in Nat : k = m \div g
    BY <1>4, Quotient
  <2>2. k * g \in Nat /\ m % g = m - k * g
    BY <1>4, <2>1, Quotient
  <2>3. m = k * g
    BY <1>5, <2>2
  <2>4. k # 0
    <3> SUFFICES ASSUME k = 0 PROVE FALSE
      OBVIOUS
    <3>1. 0 * g = 0
      BY <1>4
    <3> QED
      BY <2>3, <3>1
  <2> QED
    BY <2>3, <2>4
<1> QED
  BY <1>1, <1>2, <1>3, <1>4, <1>5

LEMMA IndexesAre ==
  ASSUME NEW S \in SUBSET Index
  PROVE  S \in SUBSET Nat /\ IsFiniteSet(S)
<1>1. N \in Nat
  BY StreamingAssumption
<1>2. IsFiniteSet(0..(N - 1))
  BY <1>1, FS_Interval
<1>3. 0..(N - 1) \subseteq Nat
  BY <1>1
<1>4. PICK I : I = 0..(N - 1)
  OBVIOUS
<1>5. S \subseteq I /\ I \subseteq Nat /\ IsFiniteSet(I)
  BY <1>2, <1>3, <1>4 DEF Index
<1> QED
  BY <1>5, FS_Subset

LEMMA TablesAre ==
  ASSUME NEW s \in Samplings, NEW S \in SUBSET Index
  PROVE  /\ Drawn[s][S] =
              CASE s[1] = "sequential" -> FirstReady(Ascending(S), s[3])
                [] s[1] = "rank_aware" -> FirstBatch(Ascending(S), s[3])
                [] s[1] = "grpo"       -> GroupBatch(Ascending(S), s[3], s[2])
                [] s[1] = "seqlen"     -> GroupBatch(Ascending(S), s[3] * DpSize, s[2])
         /\ s[1] = "seqlen" /\ Drawn[s][S] # << >>
              => Dealt[s][S] = Assignment(Drawn[s][S], s[2], DpSize, Length)
<1> DEFINE row(t) == [T \in SUBSET Index |->
     CASE t[1] = "sequential" -> FirstReady(Ascending(T), t[3])
       [] t[1] = "rank_aware" -> FirstBatch(Ascending(T), t[3])
       [] t[1] = "grpo"       -> GroupBatch(Ascending(T), t[3], t[2])
       [] t[1] = "seqlen"     -> GroupBatch(Ascending(T), t[3] * DpSize, t[2])]
<1> DEFINE deal(t) == [T \in {V \in SUBSET Index : Drawn[t][V] # << >>} |->
                        Assignment(Drawn[t][T], t[2], DpSize, Length)]
<1>1. Drawn = Table([t \in Samplings |-> Table(row(t))])
  BY DEF Drawn
<1>2. Dealt = Table([t \in {u \in Samplings : u[1] = "seqlen"} |-> Table(deal(t))])
  BY DEF Dealt
<1>3. row(s)[S] =
        CASE s[1] = "sequential" -> FirstReady(Ascending(S), s[3])
          [] s[1] = "rank_aware" -> FirstBatch(Ascending(S), s[3])
          [] s[1] = "grpo"       -> GroupBatch(Ascending(S), s[3], s[2])
          [] s[1] = "seqlen"     -> GroupBatch(Ascending(S), s[3] * DpSize, s[2])
  OBVIOUS
<1>4. Drawn[s][S] # << >> => deal(s)[S] = Assignment(Drawn[s][S], s[2], DpSize, Length)
  OBVIOUS
<1> HIDE DEF row, deal
<1>5. Drawn = [t \in Samplings |-> Table(row(t))]
  BY <1>1, TableIs, Zenon
<1>6. Dealt = [t \in {u \in Samplings : u[1] = "seqlen"} |-> Table(deal(t))]
  BY <1>2, TableIs, Zenon
<1>7. Drawn[s] = row(s)
  BY <1>5, TableIs
<1>8. s[1] = "seqlen" => Dealt[s] = deal(s)
  BY <1>6, TableIs
<1> QED
  BY <1>3, <1>4, <1>7, <1>8, Zenon

(* A batch that is drawn whole has all the samples of each prompt.         *)
LEMMA WholeBatch ==
  ASSUME NEW X \in SUBSET Nat, NEW g \in Nat \ {0}, NEW k \in Nat, NEW b, IsDrawn(b, X), Len(b) = k * g, WholeGroups(b, g, k)
  PROVE  IsWhole(Range(b), g)
<1>1. k * g \in Nat /\ b \in Seq(X) /\ DOMAIN b = 1..(k * g)
  BY DEF IsDrawn
<1>2. ASSUME NEW p \in 1..(k * g), NEW y \in Nat, y \div g = b[p] \div g PROVE y \in Range(b)
  <2>1. PICK x \in 1..k, m \in 1..g : p = (x - 1) * g + m
    <3>1. PICK n \in Nat, m \in 1..g : n < k /\ p = n * g + m
      <4>1. p - 1 \in Nat /\ p - 1 < k * g
        BY <1>1
      <4>2. PICK n \in Nat : n = (p - 1) \div g
        BY <4>1, Quotient
      <4>3. n * g \in Nat /\ n * g <= p - 1 /\ p - 1 < n * g + g
        BY <4>1, <4>2, Quotient
      <4>4. n < k
        <5> SUFFICES ASSUME k <= n PROVE FALSE
          OBVIOUS
        <5>1. k * g <= n * g
          BY TimesMonotone
        <5> QED
          BY <1>1, <4>1, <4>3, <5>1
      <4>5. PICK w \in Nat : w = n * g
        BY <4>3
      <4>6. p - w \in 1..g /\ p = w + (p - w)
        BY <4>1, <4>3, <4>5
      <4> QED
        BY <4>4, <4>5, <4>6
    <3>2. n + 1 \in 1..k /\ (n + 1) - 1 = n
      BY <3>1
    <3> QED
      BY <3>1, <3>2
  <2>2. PICK l \in 1..g : y = b[(x - 1) * g + l]
    BY <1>2, <2>1 DEF WholeGroups
  <2>3. (x - 1) * g + l \in 1..(k * g)
    BY BlockPlaces
  <2> QED
    BY <1>1, <2>2, <2>3 DEF Range
<1> QED
  BY <1>1, <1>2 DEF IsWhole, Range

LEMMA DrawnIs ==
  ASSUME NEW s \in Samplings, NEW S \in SUBSET Index
  PROVE  /\ IsDrawn(Drawn[s][S], S)
         /\ s[1] = "grpo" /\ IsWhole(S, s[2]) => IsWhole(Range(Drawn[s][S]), s[2])
         /\ s[1] = "seqlen" /\ Drawn[s][S] # << >> =>
              /\ Deals(Dealt[s][S], S, DpSize, s[2])
              /\ IsWhole(S, s[2]) => /\ DealsWhole(Dealt[s][S], DpSize, s[2])
                                     /\ IsFair(Dealt[s][S], s[2], DpSize, Length)
<1>1. S \in SUBSET Nat /\ IsFiniteSet(S)
  BY IndexesAre
<1>2. PICK g, n : g = s[2] /\ n = s[3]
  OBVIOUS
<1>3. g \in Nat \ {0} /\ n \in Nat \ {0} /\ DpSize \in Nat \ {0} /\ s[1] \in {"sequential", "rank_aware", "grpo", "seqlen"}
  BY <1>2, SettingsAre
<1>4. PICK k \in Nat \ {0} : n = k * g
  BY <1>2, SettingsAre
<1>5. PICK d : d = Drawn[s][S]
  OBVIOUS
<1>6. d = CASE s[1] = "sequential" -> FirstReady(Ascending(S), s[3])
            [] s[1] = "rank_aware" -> FirstBatch(Ascending(S), s[3])
            [] s[1] = "grpo"       -> GroupBatch(Ascending(S), s[3], s[2])
            [] s[1] = "seqlen"     -> GroupBatch(Ascending(S), s[3] * DpSize, s[2])
  BY <1>5, TablesAre, Zenon
<1>7. IsDrawn(<< >>, S) /\ IsWhole(Range(<< >>), g)
  BY DEF IsDrawn, IsWhole, Range
<1>8. CASE s[1] = "sequential"
  <2>1. d = FirstReady(Ascending(S), n)
    BY <1>2, <1>6, <1>8
  <2>2. IsDrawn(d, S)
    BY <1>1, <1>3, <2>1, FirstAreDrawn
  <2> QED
    BY <1>5, <1>8, <2>2
<1>9. CASE s[1] = "rank_aware"
  <2>1. d = FirstBatch(Ascending(S), n)
    BY <1>2, <1>6, <1>9
  <2>2. IsDrawn(d, S)
    BY <1>1, <1>3, <2>1, FirstAreDrawn
  <2> QED
    BY <1>5, <1>9, <2>2
<1>10. CASE s[1] = "grpo"
  <2>1. d = GroupBatch(Ascending(S), k * g, g)
    BY <1>2, <1>4, <1>6, <1>10
  <2>2. CASE d = << >>
    BY <1>2, <1>5, <1>7, <1>10, <2>2
  <2>3. CASE d # << >>
    <3>1. IsDrawn(d, S) /\ Len(d) = k * g /\ (IsWhole(S, g) => WholeGroups(d, g, k))
      BY <1>1, <1>3, <2>1, <2>3, GroupBatchIs
    <3>2. IsWhole(S, g) => IsWhole(Range(d), g)
      BY <1>1, <1>3, <3>1, WholeBatch
    <3> QED
      BY <1>2, <1>5, <1>10, <3>1, <3>2
  <2> QED
    BY <2>2, <2>3
<1>11. CASE s[1] = "seqlen"
  <2>1. PICK m \in Nat : m = k * DpSize
    BY <1>3
  <2>2. m * g = n * DpSize /\ DpSize <= m
    <3>1. (k * DpSize) * g = (k * g) * DpSize
      BY <1>3, <1>4
    <3>2. 1 * DpSize <= k * DpSize
      BY <1>3, <1>4, TimesMonotone
    <3> QED
      BY <1>3, <1>4, <2>1, <3>1, <3>2
  <2>3. d = GroupBatch(Ascending(S), m * g, g)
    BY <1>2, <1>6, <1>11, <2>2
  <2>4. CASE d = << >>
    BY <1>2, <1>5, <1>7, <1>11, <2>4
  <2>5. CASE d # << >>
    <3>1. IsDrawn(d, S) /\ Len(d) = m * g /\ (IsWhole(S, g) => WholeGroups(d, g, m) /\ HasPrompts(d, g, m))
      BY <1>1, <1>3, <2>3, <2>5, GroupBatchIs
    <3>2. PICK a : a = Dealt[s][S]
      OBVIOUS
    <3>3. a = Assignment(d, g, DpSize, Length)
      BY <1>2, <1>5, <1>11, <2>5, <3>2, TablesAre
    <3>4. \A x \in S : Length[x] \in Nat
      BY StreamingAssumption
    <3>5. /\ Deals(a, S, DpSize, g) /\ (WholeGroups(d, g, m) => DealsWhole(a, DpSize, g))
          /\ IsDealt(a, d, g, DpSize, m, Length, S)
      BY <1>3, <2>2, <3>1, <3>3, <3>4, AssignmentIs
    <3>6. ASSUME IsWhole(S, g) PROVE IsFair(a, g, DpSize, Length)
      <4>1. (m \div DpSize) * DpSize = m /\ AreLengths(Length, S) /\ HasPrompts(d, g, m)
        BY <1>3, <2>1, <3>1, <3>4, <3>6, QuotientOf DEF AreLengths
      <4> QED
        BY <1>3, <2>2, <3>5, <4>1, AssignmentIsFair
    <3> QED
      BY <1>2, <1>5, <1>11, <3>1, <3>2, <3>5, <3>6
  <2> QED
    BY <2>4, <2>5
<1> QED
  BY <1>3, <1>8, <1>9, <1>10, <1>11

-----------------------------------------------------------------------------
(* A view of the readers and the controller: the groups' dp, the readers   *)
(* in the partition's present life, what each was given, and the           *)
(* controller's sampler and samples.                                       *)

Samples == Index \X Nat
Ranks   == 0..(DpSize - 1)

ViewOf(v) ==
  /\ v.dp \in [Readers -> Ranks] /\ v.current \subseteq Readers
  /\ v.given \in [Readers -> Seq(Seq(Samples))]
  /\ v.ready \in SUBSET Index /\ v.consumed \in SUBSET Index /\ v.life \in [Index -> Nat]
  /\ \A K \in DOMAIN v.states : K \in Ranks \X Nat /\ v.states[K] \in Seq(Index)
  /\ v.kind = "sequential" => \A r, s \in Readers : v.dp[r] = v.dp[s] => r = s

(* A cached batch that a reader of its group has yet to fetch.             *)
IsOwed(v, K) ==
  \E r \in Readers : v.dp[r] = K[1] /\ (r \notin v.current \/ Len(v.given[r]) <= K[2])

Named(v, b) == [j \in DOMAIN b |-> <<b[j], v.life[b[j]]>>]
KeyIn(v, r, b) == <<v.dp[r], b - 1>>
SameRows(x, b) == Len(x) = Len(b) /\ \A j \in 1..Len(b) : x[j][1] = b[j]

(* What readers were given is what is cached.                              *)
GivenAreCached(v) ==
  v.kind # "sequential" =>
    \A r \in v.current : \A b \in 1..Len(v.given[r]) :
      KeyIn(v, r, b) \in DOMAIN v.states /\ SameRows(v.given[r][b], v.states[KeyIn(v, r, b)])

BatchesAreWhole(v) ==
  v.kind \in {"grpo", "seqlen"} =>
    /\ IsWhole(v.ready, v.size) /\ IsWhole(v.consumed, v.size)
    /\ \A K \in DOMAIN v.states : IsWhole(Range(v.states[K]), v.size)

(* The samples of an owed batch are those its first reader was given.      *)
OwedAreKept(v) ==
  /\ v.kind # "sequential" =>
       \A r \in v.current : \A b \in 1..Len(v.given[r]) :
         IsOwed(v, KeyIn(v, r, b)) => v.given[r][b] = Named(v, v.states[KeyIn(v, r, b)])
  /\ \A r, s \in v.current : \A b \in 1..Len(v.given[r]) :
       v.dp[r] = v.dp[s] /\ b \in 1..Len(v.given[s]) => v.given[r][b] = v.given[s][b]
  /\ \A K \in DOMAIN v.states : IsOwed(v, K) => Range(v.states[K]) \subseteq v.ready

(* A sample that was given is consumed, or has gone.                       *)
GivenAreTaken(v) ==
  \A r \in v.current : \A b \in 1..Len(v.given[r]) : \A x \in Range(v.given[r][b]) :
    x[2] <= v.life[x[1]] /\ (x[2] = v.life[x[1]] => x[1] \in v.consumed)

GivenOnce(v) ==
  \A r, s \in v.current : \A b \in 1..Len(v.given[r]), c \in 1..Len(v.given[s]) :
    KeyIn(v, r, b) # KeyIn(v, s, c) => Range(v.given[r][b]) \cap Range(v.given[s][c]) = {}

OwedAreApart(v) ==
  /\ \A K \in DOMAIN v.states : IsOwed(v, K) =>
       \A s \in v.current : \A c \in 1..Len(v.given[s]) :
         KeyIn(v, s, c) # K => Range(Named(v, v.states[K])) \cap Range(v.given[s][c]) = {}
  /\ \A K, L \in DOMAIN v.states :
       IsOwed(v, K) /\ IsOwed(v, L) /\ K # L => Range(v.states[K]) \cap Range(v.states[L]) = {}
  /\ v.kind # "seqlen" =>
       \A K \in DOMAIN v.states : IsOwed(v, K) => Range(v.states[K]) \subseteq v.consumed

-----------------------------------------------------------------------------
(* The steps, as they show.                                                *)

SameSampler(v, w) == w.kind = v.kind /\ w.size = v.size /\ w.dp = v.dp

Fetched(v, w, r, batch) ==
  /\ SameSampler(v, w) /\ w.current = v.current /\ w.life = v.life /\ w.ready = v.ready
  /\ r \in v.current /\ w.given = [v.given EXCEPT ![r] = Append(@, Named(v, batch))]
  /\ w.consumed = v.consumed \cup Range(batch)

NextKey(v, r) == <<v.dp[r], Len(v.given[r])>>

FetchedCached(v, w, r, batch) ==
  /\ Fetched(v, w, r, batch) /\ w.states = v.states
  /\ v.kind # "sequential"
  /\ NextKey(v, r) \in DOMAIN v.states /\ batch = v.states[NextKey(v, r)]

(* The parts of a batch that is drawn, by their keys.                      *)
FetchedFresh(v, w, r, batch, parts) ==
  LET unread == v.ready \ v.consumed
  IN  /\ Fetched(v, w, r, batch) /\ w.states = With(v.states, parts)
      /\ batch \in Seq(unread)
      /\ v.kind # "sequential" =>
           NextKey(v, r) \in DOMAIN parts /\ parts[NextKey(v, r)] = batch
      /\ v.kind = "sequential" => DOMAIN parts = {}
      /\ v.kind # "seqlen" => DOMAIN parts \subseteq {NextKey(v, r)}
      /\ v.kind = "seqlen" => DOMAIN parts = Ranks \X {Len(v.given[r])}
      /\ \A K \in DOMAIN parts :
           K \in Ranks \X Nat /\ K \notin DOMAIN v.states /\ parts[K] \in Seq(unread)
      /\ \A K, L \in DOMAIN parts : K # L => Range(parts[K]) \cap Range(parts[L]) = {}
      /\ v.kind \in {"grpo", "seqlen"} /\ IsWhole(unread, v.size) =>
           \A K \in DOMAIN parts : IsWhole(Range(parts[K]), v.size)

Joined(v, w, r) ==
  /\ SameSampler(v, w) /\ w.life = v.life /\ w.ready = v.ready /\ w.consumed = v.consumed
  /\ w.states = v.states
  /\ r \in Readers \ v.current /\ w.current = v.current \cup {r}
  /\ w.given = [v.given EXCEPT ![r] = << >>]

Produced(v, w, new) ==
  /\ SameSampler(v, w) /\ w.life = v.life /\ w.consumed = v.consumed
  /\ w.states = v.states /\ w.current = v.current /\ w.given = v.given
  /\ new \in SUBSET Index /\ w.ready = v.ready \cup new

Cleared(v, w, gone) ==
  /\ SameSampler(v, w) /\ w.states = v.states /\ w.current = v.current /\ w.given = v.given
  /\ gone \in SUBSET v.consumed /\ w.ready = v.ready \ gone /\ w.consumed = v.consumed \ gone
  /\ w.life = [i \in Index |-> IF i \in gone THEN v.life[i] + 1 ELSE v.life[i]]

Restarted(v, w) ==
  /\ SameSampler(v, w) /\ w.given = v.given /\ w.current = {}
  /\ w.states = << >> /\ w.ready = {} /\ w.consumed = {} /\ w.life \in [Index -> Nat]

Same(v, w) ==
  /\ SameSampler(v, w) /\ w.states = v.states /\ w.current = v.current /\ w.given = v.given
  /\ w.ready = v.ready /\ w.consumed = v.consumed /\ w.life = v.life

-----------------------------------------------------------------------------
LEMMA NamedIs ==
  ASSUME NEW v, NEW I \in SUBSET Index, NEW b \in Seq(I), v.life \in [Index -> Nat]
  PROVE  /\ Named(v, b) \in Seq(I \X Nat) /\ SameRows(Named(v, b), b)
         /\ \A x \in Range(Named(v, b)) : x[1] \in I /\ x[1] \in Range(b) /\ x[2] = v.life[x[1]]
<1>1. PICK l \in Nat : l = Len(b) /\ DOMAIN b = 1..l
  OBVIOUS
<1>2. PICK x : x = Named(v, b)
  OBVIOUS
<1>3. x = [j \in 1..l |-> <<b[j], v.life[b[j]]>>]
  BY <1>1, <1>2 DEF Named
<1>9. \A j \in 1..l : b[j] \in I
  BY <1>1
<1>10. \A i \in I : i \in Index /\ v.life[i] \in Nat
  OBVIOUS
<1>4. \A j \in 1..l : b[j] \in I /\ b[j] \in Index /\ v.life[b[j]] \in Nat
  BY <1>9, <1>10
<1>5. \A j \in 1..l : x[j] \in I \X Nat /\ x[j][1] = b[j] /\ x[j][2] = v.life[b[j]]
  BY <1>3, <1>4
<1>6. x \in Seq(I \X Nat) /\ Len(x) = l /\ DOMAIN x = 1..l
  <2>1. PICK T : T = I \X Nat
    OBVIOUS
  <2>2. \A j \in 1..l : x[j] \in T
    BY <1>5, <2>1
  <2>3. x \in Seq(T) /\ Len(x) = l /\ DOMAIN x = 1..l
    BY <1>3, <2>2
  <2> QED
    BY <2>1, <2>3
<1>7. SameRows(x, b)
  BY <1>1, <1>5, <1>6 DEF SameRows
<1>8. ASSUME NEW y \in Range(x) PROVE y[1] \in I /\ y[1] \in Range(b) /\ y[2] = v.life[y[1]]
  <2>1. PICK j \in 1..l : y = x[j]
    BY <1>6 DEF Range
  <2> QED
    BY <1>1, <1>4, <1>5, <2>1 DEF Range
<1> QED
  BY <1>2, <1>6, <1>7, <1>8

(* A fetch: what was given before still is, and one batch more.            *)
GivesOneMore(v, w, r, batch) ==
  /\ \A s \in Readers : \A b \in 1..Len(v.given[s]) :
       b \in 1..Len(w.given[s]) /\ w.given[s][b] = v.given[s][b]
  /\ \A s \in Readers : \A b \in 1..Len(w.given[s]) :
       b \in 1..Len(v.given[s]) \/ (s = r /\ KeyIn(v, r, b) = NextKey(v, r) /\ w.given[r][b] = Named(v, batch)
                                     /\ b \notin 1..Len(v.given[r]))
  /\ \A K \in Ranks \X Nat : IsOwed(w, K) => IsOwed(v, K)
  /\ IsOwed(v, NextKey(v, r)) /\ NextKey(v, r) \in Ranks \X Nat
  /\ r \in Readers /\ w.given \in [Readers -> Seq(Seq(Samples))]
  /\ \A s \in Readers : \A b : KeyIn(w, s, b) = KeyIn(v, s, b)

LEMMA FetchGives ==
  ASSUME NEW v, ViewOf(v), NEW w, NEW r, NEW batch \in Seq(Index), Fetched(v, w, r, batch)
  PROVE  GivesOneMore(v, w, r, batch)
<1>1. PICK x : x = Named(v, batch)
  OBVIOUS
<1>2. x \in Seq(Samples)
  BY <1>1, NamedIs DEF ViewOf, Samples
<1>3. PICK T : T = Seq(Samples)
  OBVIOUS
<1>4. v.given \in [Readers -> Seq(T)] /\ x \in T /\ r \in Readers /\ w.dp = v.dp /\ w.current = v.current
      /\ w.given = [v.given EXCEPT ![r] = Append(v.given[r], x)]
  BY <1>1, <1>2, <1>3 DEF ViewOf, Fetched, SameSampler
<1>5. PICK q : q = v.given[r]
  OBVIOUS
<1>6. PICK n \in Nat : n = Len(q) /\ q \in Seq(T)
  BY <1>4, <1>5
<1>7. PICK p : p = Append(q, x)
  OBVIOUS
<1>8. p \in Seq(T) /\ Len(p) = n + 1 /\ (\A b \in 1..n : p[b] = q[b]) /\ p[n + 1] = x
  BY <1>4, <1>6, <1>7
<1>9. w.given[r] = p /\ (\A s \in Readers : s # r => w.given[s] = v.given[s]) /\ w.given \in [Readers -> Seq(T)]
  BY <1>4, <1>5, <1>7, <1>8
<1>10. ASSUME NEW s \in Readers, NEW b \in 1..Len(v.given[s])
       PROVE  b \in 1..Len(w.given[s]) /\ w.given[s][b] = v.given[s][b]
  <2>1. CASE s # r
    BY <1>9, <1>10, <2>1
  <2>2. CASE s = r
    <3>1. b \in 1..n
      BY <1>5, <1>6, <1>10, <2>2
    <3>2. b \in 1..Len(p) /\ p[b] = q[b]
      BY <1>8, <3>1
    <3> QED
      BY <1>5, <1>9, <2>2, <3>2
  <2> QED
    BY <2>1, <2>2
<1>11. ASSUME NEW s \in Readers, NEW b \in 1..Len(w.given[s]), b \notin 1..Len(v.given[s])
       PROVE  s = r /\ KeyIn(v, r, b) = NextKey(v, r) /\ w.given[r][b] = x
  <2>1. s = r
    BY <1>9, <1>11
  <2>2. b = n + 1
    BY <1>5, <1>6, <1>8, <1>9, <1>11, <2>1
  <2>3. b - 1 = n
    BY <2>2
  <2> QED
    BY <1>5, <1>6, <1>8, <1>9, <2>1, <2>2, <2>3 DEF KeyIn, NextKey
<1>12. ASSUME NEW K \in Ranks \X Nat, IsOwed(w, K) PROVE IsOwed(v, K)
  <2>1. PICK s \in Readers : w.dp[s] = K[1] /\ (s \notin w.current \/ Len(w.given[s]) <= K[2])
    BY <1>12 DEF IsOwed
  <2>2. Len(v.given[s]) <= Len(w.given[s]) /\ Len(v.given[s]) \in Nat /\ Len(w.given[s]) \in Nat
    <3>1. CASE s = r
      BY <1>5, <1>6, <1>8, <1>9, <3>1
    <3>2. CASE s # r
      <4>1. Len(v.given[s]) \in Nat /\ w.given[s] = v.given[s]
        BY <1>4, <1>9, <3>2
      <4> QED
        BY <4>1
    <3> QED
      BY <3>1, <3>2
  <2>3. K[2] \in Nat
    OBVIOUS
  <2>4. s \notin v.current \/ Len(v.given[s]) <= K[2]
    BY <1>4, <2>1, <2>2, <2>3
  <2> QED
    BY <1>4, <2>1, <2>4 DEF IsOwed
<1>13. IsOwed(v, NextKey(v, r)) /\ NextKey(v, r) \in Ranks \X Nat
  <2>1. Len(v.given[r]) \in Nat /\ Len(v.given[r]) <= Len(v.given[r]) /\ v.dp[r] \in Ranks
    BY <1>4, <1>5, <1>6 DEF ViewOf
  <2> QED
    BY <1>4, <2>1 DEF IsOwed, NextKey
<1> QED
  BY <1>1, <1>3, <1>4, <1>9, <1>10, <1>11, <1>12, <1>13 DEF GivesOneMore, KeyIn

LEMMA CachedTypes ==
  ASSUME NEW v, ViewOf(v), NEW w, NEW r, NEW batch, FetchedCached(v, w, r, batch), GivenAreCached(v)
  PROVE  /\ batch \in Seq(Index) /\ GivesOneMore(v, w, r, batch)
         /\ ViewOf(w) /\ GivenAreCached(w)
<1>1. PICK K : K = NextKey(v, r)
  OBVIOUS
<1>2. K \in DOMAIN v.states /\ batch = v.states[K] /\ Fetched(v, w, r, batch) /\ w.states = v.states /\ v.kind # "sequential"
  BY <1>1 DEF FetchedCached
<1>3. batch \in Seq(Index)
  BY <1>2 DEF ViewOf
<1>4. GivesOneMore(v, w, r, batch)
  BY <1>2, <1>3, FetchGives
<1>5. Range(batch) \subseteq Index
  BY <1>3 DEF Range
<1>6. w.kind = v.kind /\ w.dp = v.dp /\ w.current = v.current /\ w.life = v.life /\ w.ready = v.ready
      /\ w.consumed = v.consumed \cup Range(batch)
  BY <1>2 DEF Fetched, SameSampler
<1>7. ViewOf(w)
  BY <1>2, <1>4, <1>5, <1>6 DEF ViewOf, GivesOneMore
<1>8. SameRows(Named(v, batch), batch)
  BY <1>3, NamedIs DEF ViewOf
<1>9. ASSUME NEW s \in w.current, NEW b \in 1..Len(w.given[s])
      PROVE  KeyIn(w, s, b) \in DOMAIN w.states /\ SameRows(w.given[s][b], w.states[KeyIn(w, s, b)])
  <2>1. s \in Readers /\ KeyIn(w, s, b) = KeyIn(v, s, b) /\ s \in v.current
    BY <1>6, <1>7 DEF ViewOf, KeyIn
  <2>2. CASE b \in 1..Len(v.given[s])
    <3>1. w.given[s][b] = v.given[s][b]
      BY <1>4, <2>1, <2>2 DEF GivesOneMore
    <3> QED
      BY <1>2, <2>1, <2>2, <3>1 DEF GivenAreCached
  <2>3. CASE b \notin 1..Len(v.given[s])
    <3>1. s = r /\ KeyIn(v, r, b) = K /\ w.given[r][b] = Named(v, batch)
      BY <1>1, <1>4, <2>1, <2>3 DEF GivesOneMore
    <3> QED
      BY <1>2, <1>8, <2>1, <3>1
  <2> QED
    BY <2>2, <2>3
<1> QED
  BY <1>3, <1>4, <1>7, <1>9 DEF GivenAreCached

LEMMA FreshTypes ==
  ASSUME NEW v, ViewOf(v), NEW w, NEW r, NEW batch, NEW parts, FetchedFresh(v, w, r, batch, parts), GivenAreCached(v)
  PROVE  /\ batch \in Seq(Index) /\ GivesOneMore(v, w, r, batch)
         /\ ViewOf(w) /\ GivenAreCached(w)
         /\ DOMAIN w.states = DOMAIN v.states \cup DOMAIN parts
         /\ \A K \in DOMAIN v.states : w.states[K] = v.states[K]
         /\ \A K \in DOMAIN parts : w.states[K] = parts[K]
<1>1. PICK K : K = NextKey(v, r)
  OBVIOUS
<1>2. PICK unread : unread = v.ready \ v.consumed
  OBVIOUS
<1>3. /\ Fetched(v, w, r, batch) /\ w.states = With(v.states, parts) /\ batch \in Seq(unread)
      /\ (v.kind # "sequential" => K \in DOMAIN parts /\ parts[K] = batch)
      /\ \A L \in DOMAIN parts : L \in Ranks \X Nat /\ L \notin DOMAIN v.states /\ parts[L] \in Seq(unread)
  BY <1>1, <1>2 DEF FetchedFresh
<1>4. unread \in SUBSET Index
  BY <1>2 DEF ViewOf
<1>5. \A q \in Seq(unread) : q \in Seq(Index)
  BY <1>4
<1>6. batch \in Seq(Index)
  BY <1>3, <1>5
<1>7. GivesOneMore(v, w, r, batch)
  BY <1>3, <1>6, FetchGives
<1>8. /\ DOMAIN w.states = DOMAIN v.states \cup DOMAIN parts
      /\ \A L \in DOMAIN v.states : w.states[L] = v.states[L]
      /\ \A L \in DOMAIN parts : w.states[L] = parts[L]
  BY <1>3 DEF With
<1>9. w.kind = v.kind /\ w.dp = v.dp /\ w.current = v.current /\ w.life = v.life /\ w.ready = v.ready
      /\ w.consumed = v.consumed \cup Range(batch)
  BY <1>3 DEF Fetched, SameSampler
<1>10. Range(batch) \subseteq Index
  BY <1>6 DEF Range
<1>11. \A L \in DOMAIN w.states : L \in Ranks \X Nat /\ w.states[L] \in Seq(Index)
  <2>1. \A L \in DOMAIN v.states : L \in Ranks \X Nat /\ v.states[L] \in Seq(Index)
    BY DEF ViewOf
  <2>2. \A L \in DOMAIN parts : L \in Ranks \X Nat /\ parts[L] \in Seq(Index)
    BY <1>3, <1>5
  <2> QED
    BY <1>8, <2>1, <2>2
<1>12. ViewOf(w)
  BY <1>7, <1>9, <1>10, <1>11 DEF ViewOf, GivesOneMore
<1>13. SameRows(Named(v, batch), batch)
  BY <1>6, NamedIs DEF ViewOf
<1>14. ASSUME NEW s \in w.current, NEW b \in 1..Len(w.given[s]), v.kind # "sequential"
       PROVE  KeyIn(w, s, b) \in DOMAIN w.states /\ SameRows(w.given[s][b], w.states[KeyIn(w, s, b)])
  <2>1. s \in Readers /\ KeyIn(w, s, b) = KeyIn(v, s, b) /\ s \in v.current
    BY <1>9, <1>12 DEF ViewOf, KeyIn
  <2>2. CASE b \in 1..Len(v.given[s])
    <3>1. w.given[s][b] = v.given[s][b]
      BY <1>7, <2>1, <2>2 DEF GivesOneMore
    <3>2. KeyIn(v, s, b) \in DOMAIN v.states /\ SameRows(v.given[s][b], v.states[KeyIn(v, s, b)])
      BY <1>14, <2>1, <2>2 DEF GivenAreCached
    <3> QED
      BY <1>8, <2>1, <3>1, <3>2
  <2>3. CASE b \notin 1..Len(v.given[s])
    <3>1. s = r /\ KeyIn(v, r, b) = K /\ w.given[r][b] = Named(v, batch)
      BY <1>1, <1>7, <2>1, <2>3 DEF GivesOneMore
    <3> QED
      BY <1>3, <1>8, <1>13, <1>14, <2>1, <3>1
  <2> QED
    BY <2>2, <2>3
<1> QED
  BY <1>6, <1>7, <1>8, <1>9, <1>12, <1>14 DEF GivenAreCached

-----------------------------------------------------------------------------
(* Whole prompts.                                                          *)

LEMMA WholeSets ==
  ASSUME NEW g, NEW S \in SUBSET Nat, NEW T \in SUBSET Nat, IsWhole(S, g), IsWhole(T, g)
  PROVE  IsWhole(S \cup T, g) /\ IsWhole(S \ T, g)
BY DEF IsWhole

LEMMA FetchKeepsWhole ==
  ASSUME NEW v, ViewOf(v), NEW w, NEW r, NEW batch, GivenAreCached(v), BatchesAreWhole(v),
         FetchedCached(v, w, r, batch) \/ \E parts : FetchedFresh(v, w, r, batch, parts)
  PROVE  BatchesAreWhole(w)
<1> SUFFICES ASSUME v.kind \in {"grpo", "seqlen"}
             PROVE  /\ IsWhole(w.ready, w.size) /\ IsWhole(w.consumed, w.size)
                    /\ \A K \in DOMAIN w.states : IsWhole(Range(w.states[K]), w.size)
  BY DEF BatchesAreWhole, FetchedCached, FetchedFresh, Fetched, SameSampler
<1>1. PICK g : g = v.size
  OBVIOUS
<1>2. IsWhole(v.ready, g) /\ IsWhole(v.consumed, g) /\ \A K \in DOMAIN v.states : IsWhole(Range(v.states[K]), g)
  BY <1>1 DEF BatchesAreWhole
<1>3. \A S \in SUBSET Index : S \in SUBSET Nat
  BY IndexesAre
<1>4. v.ready \in SUBSET Nat /\ v.consumed \in SUBSET Nat
  BY <1>3 DEF ViewOf
<1>5. CASE FetchedCached(v, w, r, batch)
  <2>1. batch \in Seq(Index)
    BY <1>5, CachedTypes
  <2>2. w.size = g /\ w.ready = v.ready /\ w.states = v.states /\ w.consumed = v.consumed \cup Range(batch)
    BY <1>1, <1>5 DEF FetchedCached, Fetched, SameSampler
  <2>3. IsWhole(Range(batch), g)
    BY <1>2, <1>5 DEF FetchedCached
  <2>4. Range(batch) \in SUBSET Index
    BY <2>1 DEF Range
  <2>5. IsWhole(w.consumed, g)
    BY <1>2, <1>3, <1>4, <2>2, <2>3, <2>4, WholeSets
  <2> QED
    BY <1>2, <2>2, <2>5
<1>6. ASSUME NEW parts, FetchedFresh(v, w, r, batch, parts)
      PROVE  /\ IsWhole(w.ready, w.size) /\ IsWhole(w.consumed, w.size)
             /\ \A K \in DOMAIN w.states : IsWhole(Range(w.states[K]), w.size)
  <2>1. /\ batch \in Seq(Index) /\ DOMAIN w.states = DOMAIN v.states \cup DOMAIN parts
        /\ \A K \in DOMAIN v.states : w.states[K] = v.states[K]
        /\ \A K \in DOMAIN parts : w.states[K] = parts[K]
    BY <1>6, FreshTypes
  <2>2. w.size = g /\ w.ready = v.ready /\ w.consumed = v.consumed \cup Range(batch)
    BY <1>1, <1>6 DEF FetchedFresh, Fetched, SameSampler
  <2>3. IsWhole(v.ready \ v.consumed, g)
    BY <1>2, <1>4, WholeSets
  <2>4. \A K \in DOMAIN parts : IsWhole(Range(parts[K]), g)
    BY <1>1, <1>6, <2>3 DEF FetchedFresh
  <2>5. NextKey(v, r) \in DOMAIN parts /\ parts[NextKey(v, r)] = batch
    BY <1>6 DEF FetchedFresh
  <2>6. Range(batch) \in SUBSET Index
    BY <2>1 DEF Range
  <2>7. IsWhole(w.consumed, g)
    BY <1>2, <1>3, <1>4, <2>2, <2>4, <2>5, <2>6, WholeSets
  <2> QED
    BY <1>2, <2>1, <2>2, <2>4, <2>7
<1> QED
  BY <1>5, <1>6

-----------------------------------------------------------------------------
(* Fetches keep what is owed.                                              *)

LEMMA FetchKeepsOwed ==
  ASSUME NEW v, ViewOf(v), NEW w, NEW r, NEW batch, GivenAreCached(v), OwedAreKept(v),
         FetchedCached(v, w, r, batch) \/ \E parts : FetchedFresh(v, w, r, batch, parts)
  PROVE  OwedAreKept(w) /\ Range(batch) \subseteq v.ready
<1>1. /\ batch \in Seq(Index) /\ GivesOneMore(v, w, r, batch) /\ ViewOf(w) /\ GivenAreCached(w)
      /\ Fetched(v, w, r, batch) /\ \A K \in DOMAIN v.states : K \in DOMAIN w.states /\ w.states[K] = v.states[K]
  <2>1. CASE FetchedCached(v, w, r, batch)
    BY <2>1, CachedTypes DEF FetchedCached
  <2>2. CASE \E parts : FetchedFresh(v, w, r, batch, parts)
    <3>1. PICK parts : FetchedFresh(v, w, r, batch, parts)
      BY <2>2
    <3>2. /\ batch \in Seq(Index) /\ GivesOneMore(v, w, r, batch) /\ ViewOf(w) /\ GivenAreCached(w)
          /\ DOMAIN w.states = DOMAIN v.states \cup DOMAIN parts
          /\ \A K \in DOMAIN v.states : w.states[K] = v.states[K]
      BY <3>1, FreshTypes
    <3>3. Fetched(v, w, r, batch)
      BY <3>1 DEF FetchedFresh
    <3> QED
      BY <3>2, <3>3
  <2> QED
    BY <2>1, <2>2
<1>2. w.kind = v.kind /\ w.dp = v.dp /\ w.current = v.current /\ w.life = v.life /\ w.ready = v.ready
  BY <1>1 DEF Fetched, SameSampler
<1>3. \A q : Named(w, q) = Named(v, q)
  BY <1>2 DEF Named
<1>4. v.kind # "sequential" => NextKey(v, r) \in DOMAIN w.states /\ w.states[NextKey(v, r)] = batch
  <2>1. CASE FetchedCached(v, w, r, batch)
    BY <2>1 DEF FetchedCached
  <2>2. CASE \E parts : FetchedFresh(v, w, r, batch, parts)
    <3>1. PICK parts : FetchedFresh(v, w, r, batch, parts)
      BY <2>2
    <3>2. v.kind # "sequential" => NextKey(v, r) \in DOMAIN parts /\ parts[NextKey(v, r)] = batch
      BY <3>1 DEF FetchedFresh
    <3> QED
      BY <3>1, <3>2, FreshTypes
  <2> QED
    BY <2>1, <2>2
<1>5. \A K \in DOMAIN v.states : K \in Ranks \X Nat
  BY DEF ViewOf
<1>6. \A s \in v.current : s \in Readers
  BY DEF ViewOf
<1>7. ASSUME v.kind # "sequential", NEW s \in w.current, NEW b \in 1..Len(w.given[s]), IsOwed(w, KeyIn(w, s, b))
      PROVE  w.given[s][b] = Named(w, w.states[KeyIn(w, s, b)])
  <2>1. s \in Readers /\ s \in v.current /\ KeyIn(w, s, b) = KeyIn(v, s, b)
    BY <1>2, <1>6 DEF KeyIn
  <2>2. CASE b \in 1..Len(v.given[s])
    <3>1. KeyIn(v, s, b) \in DOMAIN v.states
      BY <1>7, <2>1, <2>2 DEF GivenAreCached
    <3>2. IsOwed(v, KeyIn(v, s, b))
      BY <1>1, <1>5, <1>7, <2>1, <3>1 DEF GivesOneMore
    <3>3. v.given[s][b] = Named(v, v.states[KeyIn(v, s, b)])
      BY <1>7, <2>1, <2>2, <3>2 DEF OwedAreKept
    <3>4. w.given[s][b] = v.given[s][b]
      BY <1>1, <2>1, <2>2 DEF GivesOneMore
    <3> QED
      BY <1>1, <1>3, <2>1, <3>1, <3>3, <3>4
  <2>3. CASE b \notin 1..Len(v.given[s])
    <3>1. s = r /\ KeyIn(v, r, b) = NextKey(v, r) /\ w.given[r][b] = Named(v, batch)
      BY <1>1, <2>1, <2>3 DEF GivesOneMore
    <3> QED
      BY <1>3, <1>4, <1>7, <2>1, <3>1
  <2> QED
    BY <2>2, <2>3
(* The new batch is what a peer was given in its place.                    *)
<1>8. ASSUME NEW s \in v.current, NEW b \in 1..Len(v.given[s]), v.dp[s] = v.dp[r], KeyIn(v, r, b) = NextKey(v, r),
             v.kind # "sequential"
      PROVE  v.given[s][b] = Named(v, batch)
  <2>1. KeyIn(v, s, b) = NextKey(v, r)
    BY <1>8 DEF KeyIn
  <2>2. NextKey(v, r) \in DOMAIN v.states
    BY <1>8, <2>1 DEF GivenAreCached
  <2>3. v.states[NextKey(v, r)] = batch
    BY <1>1, <1>4, <1>8, <2>2
  <2>4. IsOwed(v, NextKey(v, r))
    BY <1>1 DEF GivesOneMore
  <2> QED
    BY <1>8, <2>1, <2>3, <2>4 DEF OwedAreKept
<1>9. ASSUME NEW s \in w.current, NEW t \in w.current, NEW b \in 1..Len(w.given[s]), w.dp[s] = w.dp[t], b \in 1..Len(w.given[t])
      PROVE  w.given[s][b] = w.given[t][b]
  <2>1. s \in Readers /\ s \in v.current /\ t \in Readers /\ t \in v.current /\ v.dp[s] = v.dp[t]
    BY <1>2, <1>6, <1>9
  <2>2. CASE s = t
    BY <2>2
  <2>3. CASE s # t
    <3>1. v.kind # "sequential"
      BY <2>1, <2>3 DEF ViewOf
    <3>2. CASE b \in 1..Len(v.given[s]) /\ b \in 1..Len(v.given[t])
      <4>1. v.given[s][b] = v.given[t][b]
        BY <2>1, <3>2 DEF OwedAreKept
      <4> QED
        BY <1>1, <2>1, <3>2, <4>1 DEF GivesOneMore
    <3>3. CASE b \notin 1..Len(v.given[s])
      <4>1. s = r /\ KeyIn(v, r, b) = NextKey(v, r) /\ w.given[r][b] = Named(v, batch)
        BY <1>1, <2>1, <3>3 DEF GivesOneMore
      <4>2. b \in 1..Len(v.given[t])
        BY <1>1, <1>9, <2>1, <2>3, <4>1 DEF GivesOneMore
      <4>3. v.given[t][b] = Named(v, batch) /\ w.given[t][b] = v.given[t][b]
        BY <1>1, <1>8, <2>1, <3>1, <4>1, <4>2 DEF GivesOneMore
      <4> QED
        BY <4>1, <4>3
    <3>4. CASE b \notin 1..Len(v.given[t])
      <4>1. t = r /\ KeyIn(v, r, b) = NextKey(v, r) /\ w.given[r][b] = Named(v, batch)
        BY <1>1, <1>9, <2>1, <3>4 DEF GivesOneMore
      <4>2. b \in 1..Len(v.given[s])
        BY <1>1, <1>9, <2>1, <2>3, <4>1 DEF GivesOneMore
      <4>3. v.given[s][b] = Named(v, batch) /\ w.given[s][b] = v.given[s][b]
        BY <1>1, <1>8, <2>1, <3>1, <4>1, <4>2 DEF GivesOneMore
      <4> QED
        BY <4>1, <4>3
    <3> QED
      BY <3>2, <3>3, <3>4
  <2> QED
    BY <2>2, <2>3
<1>10. ASSUME NEW K \in DOMAIN w.states, IsOwed(w, K) PROVE Range(w.states[K]) \subseteq w.ready
  <2>1. CASE K \in DOMAIN v.states
    <3>1. IsOwed(v, K)
      BY <1>1, <1>5, <1>10, <2>1 DEF GivesOneMore
    <3>2. Range(v.states[K]) \subseteq v.ready
      BY <2>1, <3>1 DEF OwedAreKept
    <3> QED
      BY <1>1, <1>2, <2>1, <3>2
  <2>2. CASE K \notin DOMAIN v.states
    <3>1. PICK parts : FetchedFresh(v, w, r, batch, parts)
      BY <1>10, <2>2 DEF FetchedCached
    <3>2. K \in DOMAIN parts /\ w.states[K] = parts[K]
      BY <1>10, <2>2, <3>1, FreshTypes
    <3>3. w.states[K] \in Seq(v.ready \ v.consumed)
      BY <3>1, <3>2 DEF FetchedFresh
    <3> QED
      BY <1>2, <3>3 DEF Range
  <2> QED
    BY <2>1, <2>2
<1>11. Range(batch) \subseteq v.ready
  <2>1. CASE FetchedCached(v, w, r, batch)
    <3>1. NextKey(v, r) \in DOMAIN v.states /\ batch = v.states[NextKey(v, r)]
      BY <2>1 DEF FetchedCached
    <3>2. IsOwed(v, NextKey(v, r))
      BY <1>1 DEF GivesOneMore
    <3> QED
      BY <3>1, <3>2 DEF OwedAreKept
  <2>2. CASE \E parts : FetchedFresh(v, w, r, batch, parts)
    <3>1. batch \in Seq(v.ready \ v.consumed)
      BY <2>2 DEF FetchedFresh
    <3> QED
      BY <3>1 DEF Range
  <2> QED
    BY <2>1, <2>2
<1> QED
  BY <1>2, <1>7, <1>9, <1>10, <1>11 DEF OwedAreKept

(* No sample twice: what was given is taken, once, and what is owed is     *)
(* apart from it.                                                          *)
AreOnce(v) == GivenAreTaken(v) /\ GivenOnce(v) /\ OwedAreApart(v)

(* Samples that are ready and not consumed were given to nobody.           *)
LEMMA UnreadAreNew ==
  ASSUME NEW v, ViewOf(v), GivenAreTaken(v), NEW batch \in Seq(v.ready \ v.consumed),
         NEW s \in v.current, NEW b \in 1..Len(v.given[s])
  PROVE  Range(Named(v, batch)) \cap Range(v.given[s][b]) = {}
<1>1. v.ready \ v.consumed \in SUBSET Index /\ v.life \in [Index -> Nat]
  BY DEF ViewOf
<1>2. \A x \in Range(Named(v, batch)) : x[1] \in v.ready \ v.consumed /\ x[2] = v.life[x[1]]
  <2>1. PICK I : I = v.ready \ v.consumed
    OBVIOUS
  <2>2. I \in SUBSET Index /\ batch \in Seq(I) /\ v.life \in [Index -> Nat]
    BY <1>1, <2>1
  <2>3. \A x \in Range(Named(v, batch)) : x[1] \in I /\ x[2] = v.life[x[1]]
    BY <2>2, NamedIs
  <2> QED
    BY <2>1, <2>3
<1>3. \A x \in Range(v.given[s][b]) : x[2] = v.life[x[1]] => x[1] \in v.consumed
  BY DEF GivenAreTaken
<1> QED
  BY <1>2, <1>3

LEMMA NamedApart ==
  ASSUME NEW v, ViewOf(v), NEW a \in Seq(Index), NEW b \in Seq(Index), Range(a) \cap Range(b) = {}
  PROVE  Range(Named(v, a)) \cap Range(Named(v, b)) = {}
<1>1. v.life \in [Index -> Nat]
  BY DEF ViewOf
<1>2. \A x \in Range(Named(v, a)) : x[1] \in Range(a)
  BY <1>1, NamedIs
<1>3. \A x \in Range(Named(v, b)) : x[1] \in Range(b)
  BY <1>1, NamedIs
<1> QED
  BY <1>2, <1>3

LEMMA FetchTakes ==
  ASSUME NEW v, ViewOf(v), NEW w, NEW r, NEW batch \in Seq(Index), Fetched(v, w, r, batch), GivenAreTaken(v)
  PROVE  GivenAreTaken(w)
<1>1. GivesOneMore(v, w, r, batch)
  BY FetchGives
<1>2. w.dp = v.dp /\ w.current = v.current /\ w.life = v.life /\ w.consumed = v.consumed \cup Range(batch)
  BY DEF Fetched, SameSampler
<1>3. \A s \in v.current : s \in Readers
  BY DEF ViewOf
<1>4. \A x \in Range(Named(v, batch)) : x[1] \in Index /\ x[1] \in Range(batch) /\ x[2] = v.life[x[1]] /\ x[2] \in Nat
  <2>1. v.life \in [Index -> Nat]
    BY DEF ViewOf
  <2>2. \A x \in Range(Named(v, batch)) : x[1] \in Index /\ x[1] \in Range(batch) /\ x[2] = v.life[x[1]]
    BY <2>1, NamedIs
  <2> QED
    BY <2>1, <2>2
<1>5. ASSUME NEW s \in w.current, NEW b \in 1..Len(w.given[s]), NEW x \in Range(w.given[s][b])
      PROVE  x[2] <= w.life[x[1]] /\ (x[2] = w.life[x[1]] => x[1] \in w.consumed)
  <2>1. s \in Readers /\ s \in v.current
    BY <1>2, <1>3
  <2>2. CASE b \in 1..Len(v.given[s])
    <3>1. w.given[s][b] = v.given[s][b]
      BY <1>1, <2>1, <2>2 DEF GivesOneMore
    <3>2. x[2] <= v.life[x[1]] /\ (x[2] = v.life[x[1]] => x[1] \in v.consumed)
      BY <1>5, <2>1, <2>2, <3>1 DEF GivenAreTaken
    <3> QED
      BY <1>2, <3>2
  <2>3. CASE b \notin 1..Len(v.given[s])
    <3>1. w.given[s][b] = Named(v, batch)
      BY <1>1, <2>1, <2>3 DEF GivesOneMore
    <3>2. x[1] \in Range(batch) /\ x[2] = v.life[x[1]] /\ x[2] \in Nat
      BY <1>4, <1>5, <3>1
    <3> QED
      BY <1>2, <3>2
  <2> QED
    BY <2>2, <2>3
<1> QED
  BY <1>5 DEF GivenAreTaken

(* A batch that is apart from all that was given elsewhere.                *)
LEMMA FetchGivesOnce ==
  ASSUME NEW v, ViewOf(v), NEW w, NEW r, NEW batch \in Seq(Index), Fetched(v, w, r, batch), GivenOnce(v),
         \A s \in v.current : \A b \in 1..Len(v.given[s]) :
           KeyIn(v, s, b) # NextKey(v, r) => Range(Named(v, batch)) \cap Range(v.given[s][b]) = {}
  PROVE  GivenOnce(w)
<1>1. GivesOneMore(v, w, r, batch)
  BY FetchGives
<1>2. w.dp = v.dp /\ w.current = v.current
  BY DEF Fetched, SameSampler
<1>3. \A s \in v.current : s \in Readers
  BY DEF ViewOf
<1>4. ASSUME NEW s \in w.current, NEW t \in w.current, NEW b \in 1..Len(w.given[s]), NEW c \in 1..Len(w.given[t]),
             KeyIn(w, s, b) # KeyIn(w, t, c)
      PROVE  Range(w.given[s][b]) \cap Range(w.given[t][c]) = {}
  <2>1. s \in Readers /\ s \in v.current /\ t \in Readers /\ t \in v.current
        /\ KeyIn(v, s, b) # KeyIn(v, t, c)
    BY <1>1, <1>2, <1>3, <1>4 DEF GivesOneMore
  <2>2. /\ b \in 1..Len(v.given[s]) => w.given[s][b] = v.given[s][b]
        /\ c \in 1..Len(v.given[t]) => w.given[t][c] = v.given[t][c]
    BY <1>1, <2>1 DEF GivesOneMore
  <2>3. /\ b \notin 1..Len(v.given[s]) => KeyIn(v, s, b) = NextKey(v, r) /\ w.given[s][b] = Named(v, batch)
        /\ c \notin 1..Len(v.given[t]) => KeyIn(v, t, c) = NextKey(v, r) /\ w.given[t][c] = Named(v, batch)
    <3>1. ASSUME NEW q \in Readers, NEW p \in 1..Len(w.given[q]), p \notin 1..Len(v.given[q])
          PROVE  KeyIn(v, q, p) = NextKey(v, r) /\ w.given[q][p] = Named(v, batch)
      <4>1. q = r /\ KeyIn(v, r, p) = NextKey(v, r) /\ w.given[r][p] = Named(v, batch)
        BY <1>1, <3>1 DEF GivesOneMore
      <4> QED
        BY <4>1
    <3> QED
      BY <1>4, <2>1, <3>1
  <2>4. CASE b \in 1..Len(v.given[s]) /\ c \in 1..Len(v.given[t])
    BY <2>1, <2>2, <2>4 DEF GivenOnce
  <2>5. CASE b \in 1..Len(v.given[s]) /\ c \notin 1..Len(v.given[t])
    BY <2>1, <2>2, <2>3, <2>5
  <2>6. CASE b \notin 1..Len(v.given[s]) /\ c \in 1..Len(v.given[t])
    BY <2>1, <2>2, <2>3, <2>6
  <2>7. CASE b \notin 1..Len(v.given[s]) /\ c \notin 1..Len(v.given[t])
    BY <2>1, <2>3, <2>7
  <2> QED
    BY <2>4, <2>5, <2>6, <2>7
<1> QED
  BY <1>4 DEF GivenOnce

LEMMA CachedOnce ==
  ASSUME NEW v, ViewOf(v), NEW w, NEW r, NEW batch, FetchedCached(v, w, r, batch), GivenAreCached(v), AreOnce(v)
  PROVE  AreOnce(w)
<1>1. batch \in Seq(Index) /\ GivesOneMore(v, w, r, batch) /\ ViewOf(w) /\ Fetched(v, w, r, batch)
  BY CachedTypes DEF FetchedCached
<1>2. PICK K : K = NextKey(v, r)
  OBVIOUS
<1>3. K \in DOMAIN v.states /\ batch = v.states[K] /\ w.states = v.states
  BY <1>2 DEF FetchedCached
<1>4. w.kind = v.kind /\ w.dp = v.dp /\ w.current = v.current /\ w.life = v.life /\ w.consumed = v.consumed \cup Range(batch)
  BY <1>1 DEF Fetched, SameSampler
<1>5. IsOwed(v, K) /\ \A L \in DOMAIN v.states : IsOwed(w, L) => IsOwed(v, L)
  BY <1>1, <1>2 DEF GivesOneMore, ViewOf
<1>6. \A q : Named(w, q) = Named(v, q)
  BY <1>4 DEF Named
<1>7. \A s \in v.current : s \in Readers
  BY DEF ViewOf
<1>8. GivenAreTaken(w)
  BY <1>1, FetchTakes DEF AreOnce
<1>9. \A s \in v.current : \A b \in 1..Len(v.given[s]) :
        KeyIn(v, s, b) # K => Range(Named(v, batch)) \cap Range(v.given[s][b]) = {}
  BY <1>3, <1>5 DEF AreOnce, OwedAreApart
<1>10. GivenOnce(w)
  BY <1>1, <1>2, <1>9, FetchGivesOnce DEF AreOnce
<1>11. ASSUME NEW L \in DOMAIN w.states, IsOwed(w, L), NEW s \in w.current, NEW c \in 1..Len(w.given[s]), KeyIn(w, s, c) # L
       PROVE  Range(Named(w, w.states[L])) \cap Range(w.given[s][c]) = {}
  <2>1. s \in Readers /\ s \in v.current /\ KeyIn(v, s, c) # L /\ L \in DOMAIN v.states /\ IsOwed(v, L)
    BY <1>1, <1>3, <1>4, <1>5, <1>7, <1>11 DEF GivesOneMore
  <2>2. CASE c \in 1..Len(v.given[s])
    <3>1. w.given[s][c] = v.given[s][c]
      BY <1>1, <2>1, <2>2 DEF GivesOneMore
    <3>2. Range(Named(v, v.states[L])) \cap Range(v.given[s][c]) = {}
      BY <2>1, <2>2 DEF AreOnce, OwedAreApart
    <3> QED
      BY <1>3, <1>6, <3>1, <3>2
  <2>3. CASE c \notin 1..Len(v.given[s])
    <3>1. K # L /\ w.given[s][c] = Named(v, v.states[K])
      BY <1>1, <1>2, <1>3, <2>1, <2>3 DEF GivesOneMore
    <3>2. Range(v.states[L]) \cap Range(v.states[K]) = {}
      BY <1>3, <1>5, <2>1, <3>1 DEF AreOnce, OwedAreApart
    <3>3. v.states[L] \in Seq(Index) /\ v.states[K] \in Seq(Index)
      BY <1>3, <2>1 DEF ViewOf
    <3>4. Range(Named(v, v.states[L])) \cap Range(Named(v, v.states[K])) = {}
      BY <3>2, <3>3, NamedApart
    <3> QED
      BY <1>3, <1>6, <3>1, <3>4
  <2> QED
    BY <2>2, <2>3
<1>12. \A L, M \in DOMAIN w.states :
         IsOwed(w, L) /\ IsOwed(w, M) /\ L # M => Range(w.states[L]) \cap Range(w.states[M]) = {}
  BY <1>3, <1>5 DEF AreOnce, OwedAreApart
<1>13. w.kind # "seqlen" => \A L \in DOMAIN w.states : IsOwed(w, L) => Range(w.states[L]) \subseteq w.consumed
  BY <1>3, <1>4, <1>5 DEF AreOnce, OwedAreApart
<1>14. OwedAreApart(w)
  BY <1>11, <1>12, <1>13 DEF OwedAreApart
<1> QED
  BY <1>8, <1>10, <1>14 DEF AreOnce

LEMMA FreshOnce ==
  ASSUME NEW v, ViewOf(v), NEW w, NEW r, NEW batch, NEW parts, FetchedFresh(v, w, r, batch, parts),
         GivenAreCached(v), AreOnce(v), v.kind = "seqlen" => \A K \in DOMAIN v.states : ~IsOwed(v, K)
  PROVE  AreOnce(w)
<1>1. /\ batch \in Seq(Index) /\ GivesOneMore(v, w, r, batch) /\ ViewOf(w)
      /\ DOMAIN w.states = DOMAIN v.states \cup DOMAIN parts
      /\ \A K \in DOMAIN v.states : w.states[K] = v.states[K]
      /\ \A K \in DOMAIN parts : w.states[K] = parts[K]
  BY FreshTypes
<1>2. PICK K : K = NextKey(v, r)
  OBVIOUS
<1>3. PICK unread : unread = v.ready \ v.consumed
  OBVIOUS
<1>4. /\ Fetched(v, w, r, batch) /\ batch \in Seq(unread)
      /\ (v.kind # "sequential" => K \in DOMAIN parts /\ parts[K] = batch)
      /\ (v.kind = "sequential" => DOMAIN parts = {})
      /\ (v.kind # "seqlen" => DOMAIN parts \subseteq {K})
      /\ (\A L \in DOMAIN parts : L \in Ranks \X Nat /\ L \notin DOMAIN v.states /\ parts[L] \in Seq(unread))
      /\ \A L, M \in DOMAIN parts : L # M => Range(parts[L]) \cap Range(parts[M]) = {}
  BY <1>2, <1>3 DEF FetchedFresh
<1>5. w.kind = v.kind /\ w.dp = v.dp /\ w.current = v.current /\ w.life = v.life /\ w.consumed = v.consumed \cup Range(batch)
  BY <1>4 DEF Fetched, SameSampler
<1>6. \A L \in DOMAIN v.states : IsOwed(w, L) => IsOwed(v, L)
  BY <1>1 DEF GivesOneMore, ViewOf
<1>7. \A q : Named(w, q) = Named(v, q)
  BY <1>5 DEF Named
<1>8. \A s \in v.current : s \in Readers
  BY DEF ViewOf
<1>9. GivenAreTaken(w)
  BY <1>1, <1>4, FetchTakes DEF AreOnce
<1>10. ASSUME NEW q \in Seq(unread), NEW s \in v.current, NEW b \in 1..Len(v.given[s])
       PROVE  Range(Named(v, q)) \cap Range(v.given[s][b]) = {}
  BY <1>3, UnreadAreNew DEF AreOnce
<1>11. \A s \in v.current : \A b \in 1..Len(v.given[s]) : Range(Named(v, batch)) \cap Range(v.given[s][b]) = {}
  BY <1>4, <1>10
<1>12. GivenOnce(w)
  BY <1>1, <1>4, <1>11, FetchGivesOnce DEF AreOnce
(* What is owed is not drawn again.                                        *)
<1>13. ASSUME NEW L \in DOMAIN v.states, IsOwed(v, L), NEW q \in Seq(unread)
       PROVE  Range(v.states[L]) \cap Range(q) = {}
  <2>1. v.kind # "seqlen"
    BY <1>13
  <2>2. Range(v.states[L]) \subseteq v.consumed
    BY <1>13, <2>1 DEF AreOnce, OwedAreApart
  <2>3. Range(q) \subseteq unread
    BY DEF Range
  <2> QED
    BY <1>3, <2>2, <2>3
<1>14. unread \subseteq Index
  BY <1>3 DEF ViewOf
<1>15. \A q \in Seq(unread) : q \in Seq(Index)
  BY <1>14
<1>16. ASSUME NEW L \in DOMAIN w.states, IsOwed(w, L), NEW s \in w.current, NEW c \in 1..Len(w.given[s]), KeyIn(w, s, c) # L
       PROVE  Range(Named(w, w.states[L])) \cap Range(w.given[s][c]) = {}
  <2>1. s \in Readers /\ s \in v.current /\ KeyIn(v, s, c) # L
    BY <1>1, <1>5, <1>8, <1>16 DEF GivesOneMore
  <2>2. c \in 1..Len(v.given[s]) => w.given[s][c] = v.given[s][c]
    BY <1>1, <2>1 DEF GivesOneMore
  <2>3. c \notin 1..Len(v.given[s]) => K # L /\ w.given[s][c] = Named(v, batch)
    BY <1>1, <1>2, <2>1 DEF GivesOneMore
  <2>4. CASE L \in DOMAIN v.states
    <3>1. w.states[L] = v.states[L] /\ IsOwed(v, L) /\ v.states[L] \in Seq(Index)
      BY <1>1, <1>6, <1>16, <2>4 DEF ViewOf
    <3>2. CASE c \in 1..Len(v.given[s])
      <4>1. Range(Named(v, v.states[L])) \cap Range(v.given[s][c]) = {}
        BY <2>1, <2>4, <3>1, <3>2 DEF AreOnce, OwedAreApart
      <4> QED
        BY <1>7, <2>2, <3>1, <3>2, <4>1
    <3>3. CASE c \notin 1..Len(v.given[s])
      <4>1. Range(v.states[L]) \cap Range(batch) = {}
        BY <1>4, <1>13, <2>4, <3>1
      <4>2. Range(Named(v, v.states[L])) \cap Range(Named(v, batch)) = {}
        BY <1>1, <3>1, <4>1, NamedApart
      <4> QED
        BY <1>7, <2>3, <3>1, <3>3, <4>2
    <3> QED
      BY <3>2, <3>3
  <2>5. CASE L \in DOMAIN parts
    <3>1. w.states[L] = parts[L] /\ parts[L] \in Seq(unread)
      BY <1>1, <1>4, <2>5
    <3>2. CASE c \in 1..Len(v.given[s])
      BY <1>7, <1>10, <2>1, <2>2, <3>1, <3>2
    <3>3. CASE c \notin 1..Len(v.given[s])
      <4>1. v.kind # "sequential"
        <5> SUFFICES ASSUME v.kind = "sequential" PROVE FALSE
          OBVIOUS
        <5>1. v.kind # "seqlen"
          OBVIOUS
        <5>2. L = K
          BY <1>4, <2>5, <5>1
        <5> QED
          BY <2>3, <3>3, <5>2
      <4>2. parts[K] = batch /\ K \in DOMAIN parts /\ K # L
        BY <1>4, <2>3, <3>3, <4>1
      <4>3. Range(parts[L]) \cap Range(batch) = {}
        BY <1>4, <2>5, <4>2
      <4>4. Range(Named(v, parts[L])) \cap Range(Named(v, batch)) = {}
        BY <1>1, <1>15, <3>1, <4>3, NamedApart
      <4> QED
        BY <1>7, <2>3, <3>1, <3>3, <4>4
    <3> QED
      BY <3>2, <3>3
  <2> QED
    BY <1>1, <2>4, <2>5
<1>17. ASSUME NEW L \in DOMAIN w.states, NEW M \in DOMAIN w.states, IsOwed(w, L), IsOwed(w, M), L # M
       PROVE  Range(w.states[L]) \cap Range(w.states[M]) = {}
  <2>1. \A J \in DOMAIN v.states : w.states[J] = v.states[J] /\ (IsOwed(w, J) => IsOwed(v, J))
    BY <1>1, <1>6
  <2>2. \A J \in DOMAIN parts : w.states[J] = parts[J] /\ parts[J] \in Seq(unread)
    BY <1>1, <1>4
  <2>3. CASE L \in DOMAIN v.states /\ M \in DOMAIN v.states
    BY <1>17, <2>1, <2>3 DEF AreOnce, OwedAreApart
  <2>4. CASE L \in DOMAIN v.states /\ M \in DOMAIN parts
    BY <1>13, <1>17, <2>1, <2>2, <2>4
  <2>5. CASE L \in DOMAIN parts /\ M \in DOMAIN v.states
    <3>1. Range(v.states[M]) \cap Range(parts[L]) = {}
      BY <1>13, <1>17, <2>1, <2>2, <2>5
    <3> QED
      BY <2>1, <2>2, <2>5, <3>1
  <2>6. CASE L \in DOMAIN parts /\ M \in DOMAIN parts
    BY <1>4, <1>17, <2>2, <2>6
  <2> QED
    BY <1>1, <2>3, <2>4, <2>5, <2>6
<1>18. ASSUME w.kind # "seqlen", NEW L \in DOMAIN w.states, IsOwed(w, L)
       PROVE  Range(w.states[L]) \subseteq w.consumed
  <2>1. CASE L \in DOMAIN v.states
    <3>1. Range(v.states[L]) \subseteq v.consumed
      BY <1>5, <1>6, <1>18, <2>1 DEF AreOnce, OwedAreApart
    <3> QED
      BY <1>1, <1>5, <2>1, <3>1
  <2>2. CASE L \in DOMAIN parts
    <3>1. L = K /\ w.states[L] = parts[L]
      BY <1>1, <1>4, <1>5, <1>18, <2>2
    <3>2. parts[K] = batch
      <4>1. CASE v.kind # "sequential"
        BY <1>4, <4>1
      <4>2. CASE v.kind = "sequential"
        BY <1>4, <2>2, <4>2
      <4> QED
        BY <4>1, <4>2
    <3> QED
      BY <1>5, <3>1, <3>2
  <2> QED
    BY <1>1, <2>1, <2>2
<1>19. OwedAreApart(w)
  BY <1>16, <1>17, <1>18 DEF OwedAreApart
<1> QED
  BY <1>9, <1>12, <1>19 DEF AreOnce

(* The other steps.                                                        *)

LEMMA SameGivenOnce ==
  ASSUME NEW v, NEW w, w.given = v.given, w.current = v.current, w.dp = v.dp, GivenOnce(v)
  PROVE  GivenOnce(w)
<1>1. ASSUME NEW s \in w.current, NEW t \in w.current, NEW b \in 1..Len(w.given[s]), NEW c \in 1..Len(w.given[t]),
             KeyIn(w, s, b) # KeyIn(w, t, c)
      PROVE  Range(w.given[s][b]) \cap Range(w.given[t][c]) = {}
  <2>1. KeyIn(v, s, b) # KeyIn(v, t, c)
    BY <1>1 DEF KeyIn
  <2>2. s \in v.current /\ t \in v.current /\ b \in 1..Len(v.given[s]) /\ c \in 1..Len(v.given[t])
    BY <1>1
  <2>3. Range(v.given[s][b]) \cap Range(v.given[t][c]) = {}
    BY <2>1, <2>2 DEF GivenOnce
  <2> QED
    BY <2>3
<1> QED
  BY <1>1 DEF GivenOnce

LEMMA SameOwedApart ==
  ASSUME NEW v, NEW w, w.given = v.given, w.current = v.current, w.dp = v.dp, w.states = v.states,
         w.kind = v.kind, w.consumed = v.consumed, w.life = v.life, OwedAreApart(v)
  PROVE  OwedAreApart(w)
<1>1. \A r, b : KeyIn(w, r, b) = KeyIn(v, r, b)
  BY DEF KeyIn
<1>2. \A K : IsOwed(w, K) <=> IsOwed(v, K)
  BY DEF IsOwed
<1>3. \A b : Named(w, b) = Named(v, b)
  BY DEF Named
<1>4. ASSUME NEW K \in DOMAIN w.states, IsOwed(w, K), NEW s \in w.current, NEW c \in 1..Len(w.given[s]), KeyIn(w, s, c) # K
      PROVE  Range(Named(w, w.states[K])) \cap Range(w.given[s][c]) = {}
  <2>1. K \in DOMAIN v.states /\ IsOwed(v, K) /\ s \in v.current /\ c \in 1..Len(v.given[s]) /\ KeyIn(v, s, c) # K
    BY <1>1, <1>2, <1>4
  <2>2. Range(Named(v, v.states[K])) \cap Range(v.given[s][c]) = {}
    BY <2>1 DEF OwedAreApart
  <2> QED
    BY <1>3, <2>2
<1>5. ASSUME NEW K \in DOMAIN w.states, NEW L \in DOMAIN w.states, IsOwed(w, K), IsOwed(w, L), K # L
      PROVE  Range(w.states[K]) \cap Range(w.states[L]) = {}
  BY <1>2, <1>5 DEF OwedAreApart
<1>6. w.kind # "seqlen" => \A K \in DOMAIN w.states : IsOwed(w, K) => Range(w.states[K]) \subseteq w.consumed
  BY <1>2 DEF OwedAreApart
<1> QED
  BY <1>4, <1>5, <1>6 DEF OwedAreApart

LEMMA SameKeeps ==
  ASSUME NEW v, NEW w, Same(v, w)
  PROVE  /\ ViewOf(v) => ViewOf(w)
         /\ GivenAreCached(v) => GivenAreCached(w)
         /\ BatchesAreWhole(v) => BatchesAreWhole(w)
         /\ OwedAreKept(v) => OwedAreKept(w)
         /\ AreOnce(v) => AreOnce(w)
<1>1. /\ w.kind = v.kind /\ w.size = v.size /\ w.dp = v.dp /\ w.states = v.states /\ w.current = v.current
      /\ w.given = v.given /\ w.ready = v.ready /\ w.consumed = v.consumed /\ w.life = v.life
  BY DEF Same, SameSampler
<1>2. ViewOf(v) => ViewOf(w)
  BY <1>1 DEF ViewOf
<1>3. \A r, b : KeyIn(w, r, b) = KeyIn(v, r, b)
  BY <1>1 DEF KeyIn
<1>4. \A K : IsOwed(w, K) <=> IsOwed(v, K)
  BY <1>1 DEF IsOwed
<1>5. \A b : Named(w, b) = Named(v, b)
  BY <1>1 DEF Named
<1>6. GivenAreCached(v) => GivenAreCached(w)
  BY <1>1, <1>3 DEF GivenAreCached
<1>7. BatchesAreWhole(v) => BatchesAreWhole(w)
  BY <1>1 DEF BatchesAreWhole
<1>8. OwedAreKept(v) => OwedAreKept(w)
  BY <1>1, <1>3, <1>4, <1>5 DEF OwedAreKept
<1>9. GivenAreTaken(v) => GivenAreTaken(w)
  BY <1>1 DEF GivenAreTaken
<1>10. GivenOnce(v) => GivenOnce(w)
  BY <1>1, SameGivenOnce
<1>11. OwedAreApart(v) => OwedAreApart(w)
  BY <1>1, SameOwedApart
<1> QED
  BY <1>2, <1>6, <1>7, <1>8, <1>9, <1>10, <1>11 DEF AreOnce

LEMMA ProducedKeeps ==
  ASSUME NEW v, ViewOf(v), NEW w, NEW new, Produced(v, w, new)
  PROVE  /\ ViewOf(w)
         /\ GivenAreCached(v) => GivenAreCached(w)
         /\ BatchesAreWhole(v) /\ IsWhole(new, v.size) => BatchesAreWhole(w)
         /\ OwedAreKept(v) => OwedAreKept(w)
         /\ AreOnce(v) => AreOnce(w)
<1>1. /\ w.kind = v.kind /\ w.size = v.size /\ w.dp = v.dp /\ w.states = v.states /\ w.current = v.current
      /\ w.given = v.given /\ w.ready = v.ready \cup new /\ w.consumed = v.consumed /\ w.life = v.life
      /\ new \in SUBSET Index
  BY DEF Produced, SameSampler
<1>2. ViewOf(w)
  BY <1>1 DEF ViewOf
<1>3. \A r, b : KeyIn(w, r, b) = KeyIn(v, r, b)
  BY <1>1 DEF KeyIn
<1>4. \A K : IsOwed(w, K) <=> IsOwed(v, K)
  BY <1>1 DEF IsOwed
<1>5. \A b : Named(w, b) = Named(v, b)
  BY <1>1 DEF Named
<1>6. GivenAreCached(v) => GivenAreCached(w)
  BY <1>1, <1>3 DEF GivenAreCached
<1>7. BatchesAreWhole(v) /\ IsWhole(new, v.size) => BatchesAreWhole(w)
  BY <1>1 DEF BatchesAreWhole, IsWhole
<1>8. OwedAreKept(v) => OwedAreKept(w)
  BY <1>1, <1>3, <1>4, <1>5 DEF OwedAreKept
<1>9. GivenAreTaken(v) => GivenAreTaken(w)
  BY <1>1 DEF GivenAreTaken
<1>10. GivenOnce(v) => GivenOnce(w)
  BY <1>1, SameGivenOnce
<1>11. OwedAreApart(v) => OwedAreApart(w)
  BY <1>1, SameOwedApart
<1> QED
  BY <1>2, <1>6, <1>7, <1>8, <1>9, <1>10, <1>11 DEF AreOnce

LEMMA RestartedKeeps ==
  ASSUME NEW v, ViewOf(v), NEW w, Restarted(v, w)
  PROVE  ViewOf(w) /\ GivenAreCached(w) /\ BatchesAreWhole(w) /\ OwedAreKept(w) /\ AreOnce(w)
<1>1. /\ w.kind = v.kind /\ w.size = v.size /\ w.dp = v.dp /\ w.states = << >> /\ w.current = {}
      /\ w.given = v.given /\ w.ready = {} /\ w.consumed = {} /\ w.life \in [Index -> Nat]
      /\ DOMAIN w.states = {}
  BY DEF Restarted, SameSampler
<1>2. ViewOf(w)
  BY <1>1 DEF ViewOf
<1>3. BatchesAreWhole(w)
  BY <1>1 DEF BatchesAreWhole, IsWhole
<1> QED
  BY <1>1, <1>2, <1>3 DEF GivenAreCached, OwedAreKept, AreOnce, GivenAreTaken, GivenOnce, OwedAreApart

LEMMA JoinedKeeps ==
  ASSUME NEW v, ViewOf(v), NEW w, NEW r, Joined(v, w, r)
  PROVE  /\ ViewOf(w)
         /\ GivenAreCached(v) => GivenAreCached(w)
         /\ BatchesAreWhole(v) => BatchesAreWhole(w)
         /\ OwedAreKept(v) => OwedAreKept(w)
         /\ AreOnce(v) => AreOnce(w)
<1>1. /\ w.kind = v.kind /\ w.size = v.size /\ w.dp = v.dp /\ w.states = v.states /\ w.current = v.current \cup {r}
      /\ w.given = [v.given EXCEPT ![r] = << >>] /\ w.ready = v.ready /\ w.consumed = v.consumed /\ w.life = v.life
      /\ r \in Readers /\ r \notin v.current
  BY DEF Joined, SameSampler
<1>2. PICK T : T = Seq(Seq(Samples))
  OBVIOUS
<1>3. << >> \in T
  BY <1>2
<1>4. w.given \in [Readers -> T] /\ v.given \in [Readers -> T]
  BY <1>1, <1>2, <1>3 DEF ViewOf
<1>5. ViewOf(w)
  BY <1>1, <1>2, <1>4 DEF ViewOf
<1>6. w.given[r] = << >> /\ \A s \in Readers : s # r => w.given[s] = v.given[s]
  BY <1>1, <1>4
<1>7. \A s, b : KeyIn(w, s, b) = KeyIn(v, s, b)
  BY <1>1 DEF KeyIn
<1>8. \A K \in DOMAIN v.states : K[2] \in Nat
  BY DEF ViewOf
<1>9. ASSUME NEW K, IsOwed(w, K) PROVE IsOwed(v, K)
  <2>1. PICK s \in Readers : w.dp[s] = K[1] /\ (s \notin w.current \/ Len(w.given[s]) <= K[2])
    BY <1>9 DEF IsOwed
  <2>2. CASE s = r
    BY <1>1, <2>1, <2>2 DEF IsOwed
  <2>3. CASE s # r
    BY <1>1, <1>6, <2>1, <2>3 DEF IsOwed
  <2> QED
    BY <2>2, <2>3
<1>10. \A b : Named(w, b) = Named(v, b)
  BY <1>1 DEF Named
<1>11. ASSUME NEW s \in w.current, NEW b \in 1..Len(w.given[s])
       PROVE  s \in v.current /\ b \in 1..Len(v.given[s]) /\ w.given[s][b] = v.given[s][b] /\ w.given[s] = v.given[s]
  <2>1. s # r
    <3> SUFFICES ASSUME s = r PROVE FALSE
      OBVIOUS
    <3>1. Len(w.given[s]) = 0
      BY <1>6
    <3> QED
      BY <1>11, <3>1
  <2>2. s \in v.current /\ s \in Readers
    BY <1>1, <1>11, <2>1 DEF ViewOf
  <2> QED
    BY <1>6, <1>11, <2>1, <2>2
<1>12. GivenAreCached(v) => GivenAreCached(w)
  BY <1>1, <1>7, <1>11 DEF GivenAreCached
<1>13. BatchesAreWhole(v) => BatchesAreWhole(w)
  BY <1>1 DEF BatchesAreWhole
<1>14. ASSUME OwedAreKept(v) PROVE OwedAreKept(w)
  <2>1. ASSUME w.kind # "sequential", NEW s \in w.current, NEW b \in 1..Len(w.given[s]), IsOwed(w, KeyIn(w, s, b))
        PROVE  w.given[s][b] = Named(w, w.states[KeyIn(w, s, b)])
    BY <1>1, <1>7, <1>9, <1>10, <1>11, <1>14, <2>1 DEF OwedAreKept
  <2>2. ASSUME NEW s \in w.current, NEW t \in w.current, NEW b \in 1..Len(w.given[s]), w.dp[s] = w.dp[t], b \in 1..Len(w.given[t])
        PROVE  w.given[s][b] = w.given[t][b]
    BY <1>1, <1>11, <1>14, <2>2 DEF OwedAreKept
  <2>3. \A K \in DOMAIN w.states : IsOwed(w, K) => Range(w.states[K]) \subseteq w.ready
    BY <1>1, <1>9, <1>14 DEF OwedAreKept
  <2> QED
    BY <2>1, <2>2, <2>3 DEF OwedAreKept
<1>15. ASSUME AreOnce(v) PROVE AreOnce(w)
  <2>1. GivenAreTaken(w)
    BY <1>1, <1>11, <1>15 DEF AreOnce, GivenAreTaken
  <2>2. GivenOnce(w)
    <3>1. ASSUME NEW s \in w.current, NEW t \in w.current, NEW b \in 1..Len(w.given[s]), NEW c \in 1..Len(w.given[t]),
                 KeyIn(w, s, b) # KeyIn(w, t, c)
          PROVE  Range(w.given[s][b]) \cap Range(w.given[t][c]) = {}
      <4>1. s \in v.current /\ b \in 1..Len(v.given[s]) /\ w.given[s][b] = v.given[s][b]
        BY <1>11, <3>1
      <4>2. t \in v.current /\ c \in 1..Len(v.given[t]) /\ w.given[t][c] = v.given[t][c]
        BY <1>11, <3>1
      <4>3. KeyIn(v, s, b) # KeyIn(v, t, c)
        BY <1>7, <3>1
      <4>4. Range(v.given[s][b]) \cap Range(v.given[t][c]) = {}
        BY <1>15, <4>1, <4>2, <4>3 DEF AreOnce, GivenOnce
      <4> QED
        BY <4>1, <4>2, <4>4
    <3> QED
      BY <3>1 DEF GivenOnce
  <2>4. ASSUME NEW K \in DOMAIN w.states, IsOwed(w, K), NEW s \in w.current, NEW c \in 1..Len(w.given[s]), KeyIn(w, s, c) # K
        PROVE  Range(Named(w, w.states[K])) \cap Range(w.given[s][c]) = {}
    <3>1. K \in DOMAIN v.states /\ IsOwed(v, K) /\ KeyIn(v, s, c) # K
      BY <1>1, <1>7, <1>9, <2>4
    <3>2. s \in v.current /\ c \in 1..Len(v.given[s]) /\ w.given[s][c] = v.given[s][c]
      BY <1>11, <2>4
    <3>3. Range(Named(v, v.states[K])) \cap Range(v.given[s][c]) = {}
      BY <1>15, <3>1, <3>2 DEF AreOnce, OwedAreApart
    <3> QED
      BY <1>1, <1>10, <3>2, <3>3
  <2>5. \A K, L \in DOMAIN w.states :
          IsOwed(w, K) /\ IsOwed(w, L) /\ K # L => Range(w.states[K]) \cap Range(w.states[L]) = {}
    BY <1>1, <1>9, <1>15 DEF AreOnce, OwedAreApart
  <2>6. w.kind # "seqlen" => \A K \in DOMAIN w.states : IsOwed(w, K) => Range(w.states[K]) \subseteq w.consumed
    BY <1>1, <1>9, <1>15 DEF AreOnce, OwedAreApart
  <2>3. OwedAreApart(w)
    BY <2>4, <2>5, <2>6 DEF OwedAreApart
  <2> QED
    BY <2>1, <2>2, <2>3 DEF AreOnce
<1> QED
  BY <1>5, <1>12, <1>13, <1>14, <1>15

LEMMA ClearedKeeps ==
  ASSUME NEW v, ViewOf(v), NEW w, NEW gone, Cleared(v, w, gone)
  PROVE  /\ ViewOf(w)
         /\ GivenAreCached(v) => GivenAreCached(w)
         /\ BatchesAreWhole(v) /\ IsWhole(gone, v.size) => BatchesAreWhole(w)
<1>1. /\ w.kind = v.kind /\ w.size = v.size /\ w.dp = v.dp /\ w.states = v.states /\ w.current = v.current
      /\ w.given = v.given /\ w.ready = v.ready \ gone /\ w.consumed = v.consumed \ gone
      /\ w.life = [i \in Index |-> IF i \in gone THEN v.life[i] + 1 ELSE v.life[i]]
      /\ gone \in SUBSET v.consumed
  BY DEF Cleared, SameSampler
<1>2. w.life \in [Index -> Nat]
  BY <1>1 DEF ViewOf
<1>3. ViewOf(w)
  BY <1>1, <1>2 DEF ViewOf
<1>4. \A r, b : KeyIn(w, r, b) = KeyIn(v, r, b)
  BY <1>1 DEF KeyIn
<1>5. GivenAreCached(v) => GivenAreCached(w)
  BY <1>1, <1>4 DEF GivenAreCached
<1>6. ASSUME BatchesAreWhole(v), IsWhole(gone, v.size) PROVE BatchesAreWhole(w)
  <2>1. \A S \in SUBSET Index : S \in SUBSET Nat
    BY IndexesAre
  <2>2. v.ready \in SUBSET Nat /\ v.consumed \in SUBSET Nat /\ gone \in SUBSET Nat
    BY <1>1, <2>1 DEF ViewOf
  <2>3. v.kind \in {"grpo", "seqlen"} => IsWhole(v.ready \ gone, v.size) /\ IsWhole(v.consumed \ gone, v.size)
    BY <1>6, <2>2, WholeSets DEF BatchesAreWhole
  <2> QED
    BY <1>1, <1>6, <2>3 DEF BatchesAreWhole
<1> QED
  BY <1>3, <1>5, <1>6

(* Samples that are cleared when nobody is owed a batch of them.           *)
LEMMA DoneWithKeeps ==
  ASSUME NEW v, ViewOf(v), NEW w, NEW gone, Cleared(v, w, gone),
         \A K \in DOMAIN v.states : IsOwed(v, K) => Range(v.states[K]) \cap gone = {}
  PROVE  /\ GivenAreCached(v) /\ OwedAreKept(v) => OwedAreKept(w)
         /\ AreOnce(v) => AreOnce(w)
<1>1. /\ w.kind = v.kind /\ w.size = v.size /\ w.dp = v.dp /\ w.states = v.states /\ w.current = v.current
      /\ w.given = v.given /\ w.ready = v.ready \ gone /\ w.consumed = v.consumed \ gone
      /\ w.life = [i \in Index |-> IF i \in gone THEN v.life[i] + 1 ELSE v.life[i]]
      /\ gone \in SUBSET v.consumed
  BY DEF Cleared, SameSampler
<1>2. v.life \in [Index -> Nat] /\ \A s \in v.current : s \in Readers
  BY DEF ViewOf
<1>3. \A i \in Index : i \notin gone => w.life[i] = v.life[i]
  BY <1>1
<1>4. \A r, b : KeyIn(w, r, b) = KeyIn(v, r, b)
  BY <1>1 DEF KeyIn
<1>5. \A K : IsOwed(w, K) <=> IsOwed(v, K)
  BY <1>1 DEF IsOwed
<1>6. ASSUME NEW K \in DOMAIN v.states, IsOwed(v, K)
      PROVE  Named(w, v.states[K]) = Named(v, v.states[K])
  <2>1. PICK q : q = v.states[K]
    OBVIOUS
  <2>2. q \in Seq(Index) /\ Range(q) \cap gone = {}
    BY <1>6, <2>1 DEF ViewOf
  <2>3. \A j \in DOMAIN q : q[j] \in Index /\ q[j] \in Range(q)
    BY <2>2 DEF Range
  <2>4. \A j \in DOMAIN q : w.life[q[j]] = v.life[q[j]]
    BY <1>3, <2>2, <2>3
  <2>5. [j \in DOMAIN q |-> <<q[j], w.life[q[j]]>>] = [j \in DOMAIN q |-> <<q[j], v.life[q[j]]>>]
    BY <2>4
  <2> QED
    BY <2>1, <2>5 DEF Named
<1>7. ASSUME GivenAreCached(v), OwedAreKept(v) PROVE OwedAreKept(w)
  <2>1. ASSUME w.kind # "sequential", NEW s \in w.current, NEW b \in 1..Len(w.given[s]), IsOwed(w, KeyIn(w, s, b))
        PROVE  w.given[s][b] = Named(w, w.states[KeyIn(w, s, b)])
    <3>1. KeyIn(v, s, b) \in DOMAIN v.states /\ IsOwed(v, KeyIn(v, s, b))
      BY <1>1, <1>4, <1>5, <1>7, <2>1 DEF GivenAreCached
    <3>2. v.given[s][b] = Named(v, v.states[KeyIn(v, s, b)])
      BY <1>1, <1>7, <2>1, <3>1 DEF OwedAreKept
    <3> QED
      BY <1>1, <1>4, <1>6, <3>1, <3>2
  <2>2. \A s, t \in w.current : \A b \in 1..Len(w.given[s]) :
          w.dp[s] = w.dp[t] /\ b \in 1..Len(w.given[t]) => w.given[s][b] = w.given[t][b]
    BY <1>1, <1>7 DEF OwedAreKept
  <2>3. \A K \in DOMAIN w.states : IsOwed(w, K) => Range(w.states[K]) \subseteq w.ready
    BY <1>1, <1>5, <1>7 DEF OwedAreKept
  <2> QED
    BY <2>1, <2>2, <2>3 DEF OwedAreKept
<1>8. ASSUME AreOnce(v) PROVE AreOnce(w)
  <2>1. GivenAreTaken(w)
    <3>1. ASSUME NEW s \in w.current, NEW b \in 1..Len(w.given[s]), NEW x \in Range(w.given[s][b])
          PROVE  x[2] <= w.life[x[1]] /\ (x[2] = w.life[x[1]] => x[1] \in w.consumed)
      <4>1. x[2] <= v.life[x[1]] /\ (x[2] = v.life[x[1]] => x[1] \in v.consumed)
        BY <1>1, <1>8, <3>1 DEF AreOnce, GivenAreTaken
      <4>2. x \in Samples
        <5>1. PICK T : T = Seq(Samples)
          OBVIOUS
        <5>2. v.given[s] \in Seq(T)
          BY <1>1, <1>2, <5>1 DEF ViewOf
        <5>3. w.given[s][b] \in T
          BY <1>1, <3>1, <5>2
        <5>4. w.given[s][b] \in Seq(Samples)
          BY <5>1, <5>3
        <5> QED
          BY <3>1, <5>4 DEF Range
      <4>3. x[1] \in Index /\ x[2] \in Nat
        BY <4>2 DEF Samples
      <4>4. v.life[x[1]] \in Nat
        BY <1>2, <4>3
      <4>5. w.life[x[1]] = IF x[1] \in gone THEN v.life[x[1]] + 1 ELSE v.life[x[1]]
        BY <1>1, <4>3
      <4> QED
        BY <1>1, <4>1, <4>3, <4>4, <4>5
    <3> QED
      BY <3>1 DEF GivenAreTaken
  <2>2. GivenOnce(w)
    BY <1>1, <1>8, SameGivenOnce DEF AreOnce
  <2>3. ASSUME NEW K \in DOMAIN w.states, IsOwed(w, K), NEW s \in w.current, NEW c \in 1..Len(w.given[s]), KeyIn(w, s, c) # K
        PROVE  Range(Named(w, w.states[K])) \cap Range(w.given[s][c]) = {}
    <3>1. K \in DOMAIN v.states /\ IsOwed(v, K) /\ KeyIn(v, s, c) # K
      BY <1>1, <1>4, <1>5, <2>3
    <3>2. Range(Named(v, v.states[K])) \cap Range(v.given[s][c]) = {}
      BY <1>1, <1>8, <2>3, <3>1 DEF AreOnce, OwedAreApart
    <3> QED
      BY <1>1, <1>6, <3>1, <3>2
  <2>4. \A K, L \in DOMAIN w.states :
          IsOwed(w, K) /\ IsOwed(w, L) /\ K # L => Range(w.states[K]) \cap Range(w.states[L]) = {}
    BY <1>1, <1>5, <1>8 DEF AreOnce, OwedAreApart
  <2>5. w.kind # "seqlen" => \A K \in DOMAIN w.states : IsOwed(w, K) => Range(w.states[K]) \subseteq w.consumed
    BY <1>1, <1>5, <1>8 DEF AreOnce, OwedAreApart
  <2>6. OwedAreApart(w)
    BY <2>3, <2>4, <2>5 DEF OwedAreApart
  <2> QED
    BY <2>1, <2>2, <2>6 DEF AreOnce
<1> QED
  BY <1>7, <1>8

-----------------------------------------------------------------------------
(* The state's view.                                                       *)

Given(r) ==
  IF reader[r].phase = "data" THEN Append(reader[r].buffer, reader[r].meta) ELSE reader[r].buffer

View ==
  [dp |-> [r \in Readers |-> reader[r].dp], current |-> Current,
   given |-> [r \in Readers |-> Given(r)], kind |-> kind, size |-> group_size,
   states |-> states, ready |-> ready, consumed |-> consumed, life |-> life]

HasFields(x) ==
  x = [dp |-> x.dp, finite |-> x.finite, phase |-> x.phase, meta |-> x.meta,
       buffer |-> x.buffer, batch_index |-> x.batch_index, epoch |-> x.epoch]

IsReader(x) ==
  /\ HasFields(x)
  /\ x.meta \in Seq(Samples) /\ x.buffer \in Seq(Seq(Samples)) /\ x.epoch \in Nat
  /\ x.phase # "data" => x.meta = << >>

(* Of a balanced batch every rank has its part.                            *)
BalancedAreCached ==
  kind = "seqlen" =>
    /\ DOMAIN balanced \subseteq Nat
    /\ DOMAIN states = Ranks \X DOMAIN balanced
    /\ \A K \in DOMAIN states : balanced[K[2]][K[1]] = states[K]

Control ==
  /\ sampling \in Samplings /\ epoch \in Nat
  /\ reader = [r \in Readers |-> reader[r]]
  /\ \A r \in Readers : IsReader(reader[r])
  /\ \A r \in Readers : reader[r].phase = "data" => reader[r].epoch = epoch
  /\ \A r \in Readers : waiting = r => reader[r].phase = "check"
  /\ states = [K \in DOMAIN states |-> states[K]]
  /\ BalancedAreCached

LEMMA ViewHas ==
  /\ View.kind = kind /\ View.size = group_size /\ View.states = states /\ View.ready = ready
  /\ View.consumed = consumed /\ View.life = life /\ View.current = Current
  /\ View.dp = [r \in Readers |-> reader[r].dp] /\ View.given = [r \in Readers |-> Given(r)]
BY DEF View

LEMMA ViewHasNext ==
  /\ View'.kind = kind' /\ View'.size = group_size' /\ View'.states = states' /\ View'.ready = ready'
  /\ View'.consumed = consumed' /\ View'.life = life' /\ View'.current = Current'
  /\ View'.dp = [r \in Readers |-> reader'[r].dp] /\ View'.given = [r \in Readers |-> Given(r)']
BY DEF View

(* A step of readers that neither gives nor turns to another life.         *)
LEMMA QuietStep ==
  ASSUME UNCHANGED <<settings, controllerVars>>,
         \A s \in Readers : /\ reader'[s].dp = reader[s].dp /\ reader'[s].epoch = reader[s].epoch
                            /\ Given(s)' = Given(s)
  PROVE  Same(View, View')
<1>1. sampling' = sampling /\ ready' = ready /\ consumed' = consumed /\ life' = life /\ epoch' = epoch /\ states' = states
  BY DEF settings, controllerVars
<1>2. kind' = kind /\ group_size' = group_size
  BY <1>1 DEF kind, group_size
<1>3. Current' = Current
  BY <1>1 DEF Current
<1>4. [r \in Readers |-> reader'[r].dp] = [r \in Readers |-> reader[r].dp]
  OBVIOUS
<1>5. [r \in Readers |-> Given(r)'] = [r \in Readers |-> Given(r)]
  OBVIOUS
<1>6. PICK v : v = View
  OBVIOUS
<1>7. PICK w : w = View'
  OBVIOUS
<1>8. /\ v.kind = kind /\ v.size = group_size /\ v.states = states /\ v.ready = ready
      /\ v.consumed = consumed /\ v.life = life /\ v.current = Current
      /\ v.dp = [r \in Readers |-> reader[r].dp] /\ v.given = [r \in Readers |-> Given(r)]
  BY <1>6, ViewHas, Zenon
<1>9. /\ w.kind = kind' /\ w.size = group_size' /\ w.states = states' /\ w.ready = ready'
      /\ w.consumed = consumed' /\ w.life = life' /\ w.current = Current'
      /\ w.dp = [r \in Readers |-> reader'[r].dp] /\ w.given = [r \in Readers |-> Given(r)']
  BY <1>7, ViewHasNext, Zenon
<1>10. Same(v, w)
  BY <1>1, <1>2, <1>3, <1>4, <1>5, <1>8, <1>9, Zenon DEF Same, SameSampler
<1> QED
  BY <1>6, <1>7, <1>10, Zenon

LEMMA QuietControl ==
  ASSUME Control, UNCHANGED <<settings, controllerVars>>, NEW r \in Readers, NEW x,
         reader' = [reader EXCEPT ![r] = x],
         IsReader(x), x.dp = reader[r].dp, x.epoch = reader[r].epoch, x.phase = "data" => x.epoch = epoch,
         \A s \in Readers : waiting' = s => reader'[s].phase = "check"
  PROVE  Control'
<1>1. sampling' = sampling /\ epoch' = epoch /\ states' = states /\ balanced' = balanced
  BY DEF settings, controllerVars
<1>2. BalancedAreCached'
  BY <1>1 DEF Control, BalancedAreCached, kind
<1>3. \A s \in Readers : reader'[s] = IF s = r THEN x ELSE reader[s]
  BY DEF Control
<1>4. reader' = [s \in Readers |-> reader'[s]]
  BY DEF Control
<1>5. \A s \in Readers : IsReader(reader'[s]) /\ (reader'[s].phase = "data" => reader'[s].epoch = epoch')
  BY <1>1, <1>3 DEF Control
<1> QED
  BY <1>1, <1>2, <1>4, <1>5 DEF Control

LEMMA FieldsAre ==
  ASSUME NEW x, HasFields(x), NEW p, NEW m, NEW b, NEW i
  PROVE  /\ [x EXCEPT !.phase = p, !.batch_index = i] =
              [dp |-> x.dp, finite |-> x.finite, phase |-> p, meta |-> x.meta,
               buffer |-> x.buffer, batch_index |-> i, epoch |-> x.epoch]
         /\ [x EXCEPT !.phase = p, !.meta = m] =
              [dp |-> x.dp, finite |-> x.finite, phase |-> p, meta |-> m,
               buffer |-> x.buffer, batch_index |-> x.batch_index, epoch |-> x.epoch]
         /\ [x EXCEPT !.phase = p, !.meta = m, !.buffer = b] =
              [dp |-> x.dp, finite |-> x.finite, phase |-> p, meta |-> m,
               buffer |-> b, batch_index |-> x.batch_index, epoch |-> x.epoch]
<1>1. PICK d : d = x.dp
  OBVIOUS
<1>2. PICK f : f = x.finite
  OBVIOUS
<1>3. PICK q : q = x.phase
  OBVIOUS
<1>4. PICK n : n = x.meta
  OBVIOUS
<1>5. PICK c : c = x.buffer
  OBVIOUS
<1>6. PICK j : j = x.batch_index
  OBVIOUS
<1>7. PICK a : a = x.epoch
  OBVIOUS
<1>8. x = [dp |-> d, finite |-> f, phase |-> q, meta |-> n, buffer |-> c, batch_index |-> j, epoch |-> a]
  BY <1>1, <1>2, <1>3, <1>4, <1>5, <1>6, <1>7, Zenon DEF HasFields
<1> HIDE <1>1, <1>2, <1>3, <1>4, <1>5, <1>6, <1>7
<1>13. PICK y : y = [x EXCEPT !.phase = p]
  OBVIOUS
<1>14. y = [dp |-> d, finite |-> f, phase |-> p, meta |-> n, buffer |-> c, batch_index |-> j, epoch |-> a]
  BY <1>8, <1>13
<1>15. PICK z : z = [y EXCEPT !.meta = m]
  OBVIOUS
<1>16. z = [dp |-> d, finite |-> f, phase |-> p, meta |-> m, buffer |-> c, batch_index |-> j, epoch |-> a]
  BY <1>14, <1>15
<1>9. [x EXCEPT !.phase = p, !.batch_index = i] =
        [dp |-> d, finite |-> f, phase |-> p, meta |-> n, buffer |-> c, batch_index |-> i, epoch |-> a]
  <2>1. [x EXCEPT !.phase = p, !.batch_index = i] = [[x EXCEPT !.phase = p] EXCEPT !.batch_index = i]
    OBVIOUS
  <2>2. [y EXCEPT !.batch_index = i] =
          [dp |-> d, finite |-> f, phase |-> p, meta |-> n, buffer |-> c, batch_index |-> i, epoch |-> a]
    BY <1>14
  <2> QED
    BY <1>13, <2>1, <2>2
<1>10. [x EXCEPT !.phase = p, !.meta = m] =
        [dp |-> d, finite |-> f, phase |-> p, meta |-> m, buffer |-> c, batch_index |-> j, epoch |-> a]
  <2>1. [x EXCEPT !.phase = p, !.meta = m] = [[x EXCEPT !.phase = p] EXCEPT !.meta = m]
    OBVIOUS
  <2> QED
    BY <1>13, <1>15, <1>16, <2>1
<1>11. [x EXCEPT !.phase = p, !.meta = m, !.buffer = b] =
        [dp |-> d, finite |-> f, phase |-> p, meta |-> m, buffer |-> b, batch_index |-> j, epoch |-> a]
  <2>1. [x EXCEPT !.phase = p, !.meta = m, !.buffer = b] = [[[x EXCEPT !.phase = p] EXCEPT !.meta = m] EXCEPT !.buffer = b]
    OBVIOUS
  <2>2. [z EXCEPT !.buffer = b] =
          [dp |-> d, finite |-> f, phase |-> p, meta |-> m, buffer |-> b, batch_index |-> j, epoch |-> a]
    BY <1>16
  <2> QED
    BY <1>13, <1>15, <2>1, <2>2
<1> QED
  BY <1>1, <1>2, <1>3, <1>4, <1>5, <1>6, <1>7, <1>9, <1>10, <1>11, Zenon

(* A reader that turns to another life of the partition.                   *)
Turned(x, z, p, b, i, e) == z = [x EXCEPT !.phase = p, !.buffer = b, !.batch_index = i, !.epoch = e]

LEMMA TurnedIs ==
  ASSUME NEW x, HasFields(x), NEW p, NEW b, NEW i, NEW e, NEW z, Turned(x, z, p, b, i, e)
  PROVE  /\ z.dp = x.dp /\ z.phase = p /\ z.meta = x.meta /\ z.buffer = b /\ z.epoch = e
         /\ HasFields(z)
<1>1. PICK d, f, m : d = x.dp /\ f = x.finite /\ m = x.meta
  OBVIOUS
<1>2. PICK q, c, j, a : q = x.phase /\ c = x.buffer /\ j = x.batch_index /\ a = x.epoch
  OBVIOUS
<1>3. x = [dp |-> d, finite |-> f, phase |-> q, meta |-> m, buffer |-> c, batch_index |-> j, epoch |-> a]
  BY <1>1, <1>2, Zenon DEF HasFields
<1>4. PICK y : y = [x EXCEPT !.phase = p]
  OBVIOUS
<1>5. PICK u : u = [y EXCEPT !.buffer = b]
  OBVIOUS
<1>6. PICK w : w = [u EXCEPT !.batch_index = i]
  OBVIOUS
<1>7. z = [w EXCEPT !.epoch = e]
  BY <1>4, <1>5, <1>6 DEF Turned
<1> HIDE <1>1, <1>2
<1>8. y = [dp |-> d, finite |-> f, phase |-> p, meta |-> m, buffer |-> c, batch_index |-> j, epoch |-> a]
  BY <1>3, <1>4
<1>9. u = [dp |-> d, finite |-> f, phase |-> p, meta |-> m, buffer |-> b, batch_index |-> j, epoch |-> a]
  BY <1>5, <1>8
<1>10. w = [dp |-> d, finite |-> f, phase |-> p, meta |-> m, buffer |-> b, batch_index |-> i, epoch |-> a]
  BY <1>6, <1>9
<1>11. z = [dp |-> d, finite |-> f, phase |-> p, meta |-> m, buffer |-> b, batch_index |-> i, epoch |-> e]
  BY <1>7, <1>10
<1> QED
  BY <1>1, <1>11 DEF HasFields

LEMMA QuietSteps ==
  ASSUME Control, NEW r \in Readers, Stop(r) \/ Yield(r) \/ GetData(r) \/ Reset(r) \/ WaitEnds(r)
  PROVE  Control' /\ Same(View, View')
<1>1. IsReader(reader[r]) /\ reader = [s \in Readers |-> reader[s]]
  BY DEF Control
<1>2. SUFFICES
        \E x : /\ UNCHANGED <<settings, controllerVars>> /\ reader' = [reader EXCEPT ![r] = x]
               /\ IsReader(x) /\ x.dp = reader[r].dp /\ x.epoch = reader[r].epoch
               /\ (x.phase = "data" => x.epoch = epoch)
               /\ (IF x.phase = "data" THEN Append(x.buffer, x.meta) ELSE x.buffer) = Given(r)
               /\ \A s \in Readers : waiting' = s => reader'[s].phase = "check"
  <2>1. PICK x : /\ UNCHANGED <<settings, controllerVars>> /\ reader' = [reader EXCEPT ![r] = x]
                 /\ IsReader(x) /\ x.dp = reader[r].dp /\ x.epoch = reader[r].epoch
                 /\ (x.phase = "data" => x.epoch = epoch)
                 /\ (IF x.phase = "data" THEN Append(x.buffer, x.meta) ELSE x.buffer) = Given(r)
                 /\ \A s \in Readers : waiting' = s => reader'[s].phase = "check"
    BY <1>2
  <2>2. Control'
    BY <2>1, QuietControl
  <2>3. \A s \in Readers : reader'[s] = IF s = r THEN x ELSE reader[s]
    BY <1>1, <2>1
  <2>4. \A s \in Readers : /\ reader'[s].dp = reader[s].dp /\ reader'[s].epoch = reader[s].epoch
                           /\ Given(s)' = Given(s)
    BY <2>1, <2>3 DEF Given
  <2> QED
    BY <2>1, <2>2, <2>4, QuietStep
<1>3. CASE Stop(r)
  <2> DEFINE x == [reader[r] EXCEPT !.phase = "stopped"]
  <2>1. UNCHANGED <<settings, controllerVars>> /\ reader' = [reader EXCEPT ![r] = x] /\ waiting' = waiting
        /\ waiting = Nobody /\ reader[r].phase = "check"
    BY <1>3 DEF Stop, Idle
  <2>2. /\ IsReader(x) /\ x.dp = reader[r].dp /\ x.epoch = reader[r].epoch /\ x.phase = "stopped"
        /\ x.buffer = reader[r].buffer
    BY <1>1, <2>1 DEF IsReader, HasFields
  <2>3. \A s \in Readers : waiting' # s
    BY <2>1, StreamingAssumption
  <2> HIDE DEF x
  <2> QED
    BY <2>1, <2>2, <2>3 DEF Given
<1>4. CASE Yield(r)
  <2> DEFINE x == [reader[r] EXCEPT !.batch_index = reader[r].batch_index + 1]
  <2>1. UNCHANGED <<settings, controllerVars>> /\ reader' = [reader EXCEPT ![r] = x] /\ waiting' = waiting
        /\ reader[r].phase = "check"
    BY <1>4 DEF Yield, Idle
  <2>2. /\ IsReader(x) /\ x.dp = reader[r].dp /\ x.epoch = reader[r].epoch /\ x.phase = "check"
        /\ x.buffer = reader[r].buffer
    BY <1>1, <2>1 DEF IsReader, HasFields
  <2>3. \A s \in Readers : reader'[s].phase = reader[s].phase
    BY <1>1, <2>1, <2>2
  <2> HIDE DEF x
  <2>4. \A s \in Readers : waiting' = s => reader'[s].phase = "check"
    BY <2>1, <2>3 DEF Control
  <2> QED
    BY <2>1, <2>2, <2>4 DEF Given
<1>5. CASE GetData(r)
  <2> DEFINE x == [reader[r] EXCEPT !.phase = "check", !.meta = << >>, !.buffer = Append(reader[r].buffer, reader[r].meta)]
  <2>1. UNCHANGED <<settings, controllerVars>> /\ reader' = [reader EXCEPT ![r] = x] /\ waiting' = waiting
        /\ reader[r].phase = "data"
    BY <1>1, <1>5 DEF GetData
  <2>2. PICK T : T = Seq(Samples)
    OBVIOUS
  <2>3. reader[r].buffer \in Seq(T) /\ reader[r].meta \in T
    BY <1>1, <2>2 DEF IsReader
  <2>4. Append(reader[r].buffer, reader[r].meta) \in Seq(T)
    BY <2>3
  <2>5. << >> \in Seq(Samples)
    OBVIOUS
  <2>6. /\ x.dp = reader[r].dp /\ x.epoch = reader[r].epoch /\ x.phase = "check" /\ x.meta = << >>
        /\ x.buffer = Append(reader[r].buffer, reader[r].meta)
        /\ HasFields(x)
    <3>1. PICK y : y = reader[r]
      OBVIOUS
    <3>2. PICK b : b = Append(reader[r].buffer, reader[r].meta)
      OBVIOUS
    <3>3. HasFields(y)
      BY <1>1, <3>1 DEF IsReader
    <3>4. x = [y EXCEPT !.phase = "check", !.meta = << >>, !.buffer = b]
      BY <3>1, <3>2
    <3> HIDE DEF x
    <3>5. x = [dp |-> y.dp, finite |-> y.finite, phase |-> "check", meta |-> << >>,
               buffer |-> b, batch_index |-> y.batch_index, epoch |-> y.epoch]
      BY <3>3, <3>4, FieldsAre
    <3> QED
      BY <3>1, <3>2, <3>5 DEF HasFields
  <2> HIDE DEF x
  <2>7. IsReader(x)
    BY <1>1, <2>2, <2>4, <2>5, <2>6 DEF IsReader
  <2>8. \A s \in Readers : reader'[s] = IF s = r THEN x ELSE reader[s]
    BY <1>1, <2>1
  <2>9. \A s \in Readers : waiting' = s => reader'[s].phase = "check"
    BY <2>1, <2>6, <2>8 DEF Control
  <2> QED
    BY <2>1, <2>6, <2>7, <2>9 DEF Given
<1>6. CASE Reset(r)
  <2> DEFINE x == [reader[r] EXCEPT !.phase = "check", !.batch_index = 0]
  <2>1. UNCHANGED <<settings, controllerVars>> /\ reader' = [reader EXCEPT ![r] = x] /\ waiting' = waiting
        /\ reader[r].phase = "stopped"
    BY <1>1, <1>6 DEF Reset
  <2>2. /\ IsReader(x) /\ x.dp = reader[r].dp /\ x.epoch = reader[r].epoch /\ x.phase = "check"
        /\ x.buffer = reader[r].buffer
    <3> DEFINE y == reader[r]
    <3>1. HasFields(y)
      BY <1>1 DEF IsReader
    <3>2. x = [dp |-> y.dp, finite |-> y.finite, phase |-> "check", meta |-> y.meta,
               buffer |-> y.buffer, batch_index |-> 0, epoch |-> y.epoch]
      BY <3>1, FieldsAre
    <3> HIDE DEF x
    <3> QED
      BY <1>1, <2>1, <3>2 DEF IsReader, HasFields
  <2> HIDE DEF x
  <2>3. \A s \in Readers : reader'[s] = IF s = r THEN x ELSE reader[s]
    BY <1>1, <2>1
  <2>4. \A s \in Readers : waiting' = s => reader'[s].phase = "check"
    BY <2>1, <2>2, <2>3 DEF Control
  <2> QED
    BY <2>1, <2>2, <2>4 DEF Given
<1>7. CASE WaitEnds(r)
  <2> DEFINE x == [reader[r] EXCEPT !.phase = "failed"]
  <2>1. UNCHANGED <<settings, controllerVars>> /\ reader' = [reader EXCEPT ![r] = x] /\ waiting' = Nobody
        /\ waiting = r
    BY <1>1, <1>7 DEF WaitEnds
  <2>2. reader[r].phase = "check"
    BY <2>1 DEF Control
  <2>3. /\ IsReader(x) /\ x.dp = reader[r].dp /\ x.epoch = reader[r].epoch /\ x.phase = "failed"
        /\ x.buffer = reader[r].buffer
    BY <1>1, <2>2 DEF IsReader, HasFields
  <2> HIDE DEF x
  <2>4. \A s \in Readers : waiting' # s
    BY <2>1, StreamingAssumption
  <2> QED
    BY <2>1, <2>2, <2>3, <2>4 DEF Given
<1> QED
  BY <1>3, <1>4, <1>5, <1>6, <1>7

(* What a sampler answers: a cached batch, ...                             *)
AnswersCached(r, s) ==
  /\ kind # "sequential" /\ Key(r) \in DOMAIN states /\ s.batch = states[Key(r)]
  /\ s.states = states /\ s.balanced = balanced

(* ... or one that is drawn.                                               *)
AnswersFresh(r, s, parts) ==
  /\ s.states = With(states, parts) /\ s.batch \in Seq(Unread)
  /\ kind # "sequential" => Key(r) \in DOMAIN parts /\ parts[Key(r)] = s.batch
  /\ kind = "sequential" => DOMAIN parts = {}
  /\ kind # "seqlen" => DOMAIN parts \subseteq {Key(r)}
  /\ \A K \in DOMAIN parts : K \in Ranks \X Nat /\ K \notin DOMAIN states /\ parts[K] \in Seq(Unread)
  /\ \A K, L \in DOMAIN parts : K # L => Range(parts[K]) \cap Range(parts[L]) = {}
  /\ kind \in {"grpo", "seqlen"} /\ IsWhole(Unread, group_size) =>
       \A K \in DOMAIN parts : IsWhole(Range(parts[K]), group_size)
  /\ kind = "seqlen" =>
       \E d \in [Ranks -> Seq(Unread)] :
         /\ s.balanced = With(balanced, [k \in {Len(reader[r].buffer)} |-> d])
         /\ parts = [k \in Ranks \X {Len(reader[r].buffer)} |-> d[k[1]]]
         /\ Len(reader[r].buffer) \notin DOMAIN balanced
         /\ IsWhole(Unread, group_size) => IsFair(d, group_size, DpSize, Length)
  /\ kind # "seqlen" => s.balanced = balanced

LEMMA WithNothing ==
  ASSUME NEW f, f = [x \in DOMAIN f |-> f[x]]
  PROVE  With(f, << >>) = f
<1>1. DOMAIN << >> = {}
  OBVIOUS
<1>2. With(f, << >>) = [x \in DOMAIN f |-> f[x]]
  BY <1>1 DEF With
<1> QED
  BY <1>2

LEMMA SampleIs ==
  ASSUME Control, ViewOf(View), NEW r \in Readers, NEW s, s = Sample(r), s.batch # << >>,
         Len(reader[r].buffer) \in Nat, reader[r].dp \in Ranks
  PROVE  AnswersCached(r, s) \/ \E parts : AnswersFresh(r, s, parts)
<1>1. PICK U : U = Unread
  OBVIOUS
<1>2. U \in SUBSET Index
  BY <1>1, ViewHas DEF ViewOf, Unread
<1>3. sampling \in Samplings
  BY DEF Control
<1>4. PICK b : b = Drawn[sampling][U]
  OBVIOUS
<1>5. IsDrawn(b, U) /\ (sampling[1] = "grpo" /\ IsWhole(U, sampling[2]) => IsWhole(Range(b), sampling[2]))
      /\ (sampling[1] = "seqlen" /\ b # << >> =>
            Deals(Dealt[sampling][U], U, DpSize, sampling[2])
            /\ (IsWhole(U, sampling[2]) => DealsWhole(Dealt[sampling][U], DpSize, sampling[2])
                                           /\ IsFair(Dealt[sampling][U], sampling[2], DpSize, Length)))
  BY <1>2, <1>3, <1>4, DrawnIs
<1>6. b \in Seq(U)
  BY <1>5 DEF IsDrawn
<1>7. PICK f : f = SampleFresh
  OBVIOUS
<1>8. f = [batch |-> b, balanced |-> balanced, states |-> states]
  BY <1>1, <1>4, <1>7, Zenon DEF SampleFresh
<1>9. f.batch = b /\ f.balanced = balanced /\ f.states = states
  BY <1>8
<1>10. kind = sampling[1] /\ group_size = sampling[2] /\ kind \in {"sequential", "rank_aware", "grpo", "seqlen"}
  BY <1>3, SettingsAre DEF kind, group_size
<1>11. PICK k : k = Key(r)
  OBVIOUS
<1>12. PICK n \in Nat : n = Len(reader[r].buffer)
  OBVIOUS
<1>13. k = <<reader[r].dp, n>> /\ k \in Ranks \X Nat /\ k[1] = reader[r].dp /\ k[2] = n
  BY <1>11, <1>12 DEF Key
<1>14. CASE kind = "sequential"
  <2>1. s = f
    BY <1>7, <1>14 DEF Sample
  <2>2. s.states = With(states, << >>)
    BY <1>9, <2>1, WithNothing DEF Control
  <2>3. DOMAIN << >> = {}
    OBVIOUS
  <2>4. AnswersFresh(r, s, << >>)
    BY <1>1, <1>6, <1>9, <1>14, <2>1, <2>2, <2>3 DEF AnswersFresh
  <2> QED
    BY <2>4
<1>15. CASE kind \in {"rank_aware", "grpo"}
  <2>1. s = SampleCached(r)
    BY <1>15 DEF Sample
  <2>2. CASE k \in DOMAIN states
    <3>1. s = [f EXCEPT !.batch = states[k]]
      BY <1>7, <1>11, <2>1, <2>2 DEF SampleCached
    <3>2. s.batch = states[k] /\ s.states = states /\ s.balanced = balanced
      BY <1>8, <3>1
    <3> QED
      BY <1>11, <1>15, <2>2, <3>2 DEF AnswersCached
  <2>3. CASE k \notin DOMAIN states
    <3>1. b # << >>
      <4> SUFFICES ASSUME b = << >> PROVE FALSE
        OBVIOUS
      <4>1. s = f
        BY <1>7, <1>9, <1>11, <2>1, <2>3 DEF SampleCached
      <4> QED
        BY <1>9, <4>1
    <3>2. PICK parts : parts = [x \in {k} |-> b]
      OBVIOUS
    <3>3. s = [f EXCEPT !.states = With(states, parts)]
      BY <1>7, <1>9, <1>11, <2>1, <2>3, <3>1, <3>2 DEF SampleCached
    <3>4. PICK q : q = With(states, parts)
      OBVIOUS
    <3>5. s.batch = b /\ s.states = q /\ s.balanced = balanced
      BY <1>8, <3>3, <3>4
    <3>6. DOMAIN parts = {k} /\ parts[k] = b
      BY <3>2
    <3>7. kind \in {"grpo", "seqlen"} /\ IsWhole(U, group_size) => IsWhole(Range(b), group_size)
      BY <1>5, <1>10, <1>15
    <3>8. AnswersFresh(r, s, parts)
      BY <1>1, <1>6, <1>11, <1>13, <1>15, <2>3, <3>4, <3>5, <3>6, <3>7 DEF AnswersFresh
    <3> QED
      BY <3>8
  <2> QED
    BY <2>2, <2>3
<1>16. CASE kind = "seqlen"
  <2>1. s = SampleBalanced(r)
    BY <1>16 DEF Sample
  <2>2. DOMAIN states = Ranks \X DOMAIN balanced /\ \A K \in DOMAIN states : balanced[K[2]][K[1]] = states[K]
    BY <1>16 DEF Control, BalancedAreCached
  <2>3. CASE n \in DOMAIN balanced
    <3>1. s = [f EXCEPT !.batch = balanced[n][k[1]]]
      BY <1>7, <1>11, <1>13, <2>1, <2>3 DEF SampleBalanced
    <3>2. s.batch = balanced[n][k[1]] /\ s.states = states /\ s.balanced = balanced
      BY <1>8, <3>1
    <3>3. k \in DOMAIN states /\ balanced[n][k[1]] = states[k]
      BY <1>13, <2>2, <2>3
    <3> QED
      BY <1>11, <1>16, <3>2, <3>3 DEF AnswersCached
  <2>4. CASE n \notin DOMAIN balanced
    <3>1. b # << >>
      <4> SUFFICES ASSUME b = << >> PROVE FALSE
        OBVIOUS
      <4>1. s = f
        BY <1>7, <1>9, <1>11, <1>13, <2>1, <2>4 DEF SampleBalanced
      <4> QED
        BY <1>9, <4>1
    <3>2. PICK d : d = Dealt[sampling][U]
      OBVIOUS
    <3>3. /\ Deals(d, U, DpSize, group_size)
          /\ IsWhole(U, group_size) => DealsWhole(d, DpSize, group_size) /\ IsFair(d, group_size, DpSize, Length)
      BY <1>5, <1>10, <1>16, <3>1, <3>2
    <3>4. /\ DOMAIN d = Ranks /\ (\A x \in Ranks : d[x] \in Seq(U))
          /\ \A x, y \in Ranks : x # y => Range(d[x]) \cap Range(d[y]) = {}
      BY <3>3 DEF Deals, Ranks
    <3>5. PICK parts : parts = [x \in Ranks \X {n} |-> d[x[1]]]
      OBVIOUS
    <3>6. s = [batch |-> d[k[1]], balanced |-> With(balanced, [x \in {n} |-> d]), states |-> With(states, parts)]
      <4> DEFINE e == Dealt[sampling][Unread]
      <4>1. e = d
        BY <1>1, <3>2
      <4>2. s = [batch |-> e[Key(r)[1]], balanced |-> With(balanced, [x \in {Key(r)[2]} |-> e]),
                 states |-> With(states, [x \in (0..(DpSize - 1)) \X {Key(r)[2]} |-> e[x[1]]])]
        BY <1>7, <1>9, <1>11, <1>13, <2>1, <2>4, <3>1 DEF SampleBalanced
      <4> HIDE DEF e
      <4>3. Key(r)[1] = k[1] /\ Key(r)[2] = n
        BY <1>11, <1>13
      <4> QED
        BY <3>5, <4>1, <4>2, <4>3, Zenon DEF Ranks
    <3>7. PICK q : q = With(states, parts)
      OBVIOUS
    <3>8. PICK g : g = With(balanced, [x \in {n} |-> d])
      OBVIOUS
    <3>9. s.batch = d[k[1]] /\ s.states = q /\ s.balanced = g
      BY <3>6, <3>7, <3>8
    <3>10. DOMAIN parts = Ranks \X {n} /\ \A x \in Ranks : parts[<<x, n>>] = d[x]
      BY <3>5
    <3>11. \A K \in DOMAIN parts : \E x \in Ranks : K = <<x, n>> /\ parts[K] = d[x]
      BY <3>10
    <3>12. k \in DOMAIN parts /\ parts[k] = d[k[1]]
      BY <1>13, <3>10
    <3>13. \A K \in DOMAIN parts : K \in Ranks \X Nat /\ K \notin DOMAIN states /\ parts[K] \in Seq(U)
      BY <2>2, <2>4, <3>4, <3>11
    <3>14. \A K, L \in DOMAIN parts : K # L => Range(parts[K]) \cap Range(parts[L]) = {}
      <4> TAKE K, L \in DOMAIN parts
      <4> HAVE K # L
      <4>1. PICK x \in Ranks : K = <<x, n>> /\ parts[K] = d[x]
        BY <3>11
      <4>2. PICK y \in Ranks : L = <<y, n>> /\ parts[L] = d[y]
        BY <3>11
      <4>3. x # y
        BY <4>1, <4>2
      <4> QED
        BY <3>4, <4>1, <4>2, <4>3
    <3>15. IsWhole(U, group_size) => \A K \in DOMAIN parts : IsWhole(Range(parts[K]), group_size)
      <4> HAVE IsWhole(U, group_size)
      <4> TAKE K \in DOMAIN parts
      <4>1. PICK x \in Ranks : parts[K] = d[x]
        BY <3>11
      <4>2. IsWhole(Range(d[x]), group_size)
        BY <3>3 DEF DealsWhole, IsWhole, Ranks
      <4> QED
        BY <4>1, <4>2
    <3>16. d \in [Ranks -> Seq(U)]
      <4>1. d = [x \in Ranks |-> d[x]]
        <5>1. d = Assignment(b, sampling[2], DpSize, Length)
          BY <1>2, <1>3, <1>4, <1>10, <1>16, <3>1, <3>2, TablesAre
        <5> QED
          BY <3>4, <5>1 DEF Assignment
      <4> QED
        BY <3>4, <4>1
    <3>17. AnswersFresh(r, s, parts)
      <4>1. kind # "sequential" => Key(r) \in DOMAIN parts /\ parts[Key(r)] = s.batch
        BY <1>11, <3>9, <3>12
      <4>2. s.batch \in Seq(Unread)
        BY <1>1, <3>9, <3>12, <3>13
      <4>3. \E e \in [Ranks -> Seq(Unread)] :
              /\ s.balanced = With(balanced, [x \in {Len(reader[r].buffer)} |-> e])
              /\ parts = [x \in Ranks \X {Len(reader[r].buffer)} |-> e[x[1]]]
              /\ Len(reader[r].buffer) \notin DOMAIN balanced
              /\ IsWhole(Unread, group_size) => IsFair(e, group_size, DpSize, Length)
        BY <1>1, <1>12, <2>4, <3>3, <3>5, <3>8, <3>9, <3>16
      <4> QED
        BY <1>1, <1>16, <3>7, <3>9, <3>13, <3>14, <3>15, <4>1, <4>2, <4>3 DEF AnswersFresh
    <3> QED
      BY <3>17
  <2> QED
    BY <2>3, <2>4
<1> QED
  BY <1>10, <1>14, <1>15, <1>16

LEMMA SameGiven ==
  ASSUME NEW r, reader'[r] = reader[r]
  PROVE  Given(r)' = Given(r)
<1>1. reader'[r].phase = reader[r].phase /\ reader'[r].buffer = reader[r].buffer /\ reader'[r].meta = reader[r].meta
  OBVIOUS
<1>2. Given(r)' = IF reader'[r].phase = "data" THEN Append(reader'[r].buffer, reader'[r].meta) ELSE reader'[r].buffer
  BY DEF Given
<1> QED
  BY <1>1, <1>2 DEF Given

LEMMA ReadersHave ==
  ASSUME Control, ViewOf(View), NEW r \in Readers
  PROVE  /\ reader[r].dp \in Ranks /\ Len(reader[r].buffer) \in Nat /\ reader[r].buffer \in Seq(Seq(Samples))
         /\ IsReader(reader[r]) /\ HasFields(reader[r])
         /\ reader[r].phase # "data" => Given(r) = reader[r].buffer
         /\ r \in Current <=> reader[r].epoch = epoch
<1>1. View.dp \in [Readers -> Ranks] /\ View.dp[r] = reader[r].dp
  BY ViewHas DEF ViewOf
<1>2. IsReader(reader[r])
  BY DEF Control
<1>3. reader[r].buffer \in Seq(Seq(Samples))
  BY <1>2 DEF IsReader
<1>4. Len(reader[r].buffer) \in Nat
  BY <1>3
<1> QED
  BY <1>1, <1>2, <1>3, <1>4 DEF IsReader, Given, Current

LEMMA FetchSteps ==
  ASSUME Control, ViewOf(View), NEW r \in Readers, Fetch(r)
  PROVE  \/ /\ Control' /\ Same(View, View')
            /\ \A s \in Readers : reader'[s] = reader[s] \/ reader'[s].phase # "data"
         \/ \E s : /\ s = Sample(r) /\ s.batch # << >> /\ InStep(r)
                   /\ reader' = [reader EXCEPT ![r].phase = "data", ![r].meta = Identity(s.batch)]
                   /\ consumed' = consumed \cup Range(s.batch)
                   /\ states' = s.states /\ balanced' = s.balanced
                   /\ UNCHANGED <<settings, ready, life, epoch, waiting>>
                   /\ reader[r].phase = "check" /\ reader[r].epoch = epoch /\ waiting = Nobody
<1>1. /\ reader[r].phase = "check" /\ reader[r].epoch = epoch /\ waiting = Nobody /\ InStep(r)
      /\ UNCHANGED <<settings, ready, life, epoch>>
  BY DEF Fetch, Idle
<1>2. IsReader(reader[r]) /\ HasFields(reader[r]) /\ reader = [s \in Readers |-> reader[s]]
  BY ReadersHave DEF Control
<1>3. ASSUME UNCHANGED <<consumed, states, balanced>>, waiting' \in {Nobody, r}, reader' = reader
      PROVE  /\ Control' /\ Same(View, View')
             /\ \A s \in Readers : reader'[s] = reader[s] \/ reader'[s].phase # "data"
  <2>1. UNCHANGED <<settings, controllerVars>>
    BY <1>1, <1>3 DEF controllerVars
  <2>2. reader' = [reader EXCEPT ![r] = reader[r]]
    BY <1>2, <1>3
  <2>3. \A s \in Readers : waiting' = s => reader'[s].phase = "check"
    BY <1>1, <1>3, StreamingAssumption
  <2>4. PICK x : x = reader[r]
    OBVIOUS
  <2>5. Control'
    BY <1>1, <1>2, <2>1, <2>2, <2>3, <2>4, QuietControl
  <2>6. \A s \in Readers : /\ reader'[s].dp = reader[s].dp /\ reader'[s].epoch = reader[s].epoch
                           /\ Given(s)' = Given(s)
    BY <1>3 DEF Given
  <2> QED
    BY <1>3, <2>1, <2>5, <2>6, QuietStep
<1>4. ASSUME UNCHANGED <<consumed, states, balanced>>, waiting' = waiting, reader' = [reader EXCEPT ![r].phase = "failed"]
      PROVE  /\ Control' /\ Same(View, View')
             /\ \A s \in Readers : reader'[s] = reader[s] \/ reader'[s].phase # "data"
  <2>1. UNCHANGED <<settings, controllerVars>>
    BY <1>1, <1>4 DEF controllerVars
  <2>2. PICK x : x = [reader[r] EXCEPT !.phase = "failed"]
    OBVIOUS
  <2>3. reader' = [reader EXCEPT ![r] = x]
    BY <1>4, <2>2
  <2>4. /\ IsReader(x) /\ x.dp = reader[r].dp /\ x.epoch = reader[r].epoch /\ x.phase = "failed"
        /\ x.buffer = reader[r].buffer
    BY <1>1, <1>2, <2>2 DEF IsReader, HasFields
  <2>5. \A s \in Readers : waiting' # s
    BY <1>1, <1>4, StreamingAssumption
  <2>6. Control'
    BY <2>1, <2>3, <2>4, <2>5, QuietControl
  <2>7. \A s \in Readers : reader'[s] = IF s = r THEN x ELSE reader[s]
    BY <1>2, <2>3
  <2>8. \A s \in Readers : /\ reader'[s].dp = reader[s].dp /\ reader'[s].epoch = reader[s].epoch
                           /\ Given(s)' = Given(s)
    BY <1>1, <2>4, <2>7 DEF Given
  <2> QED
    BY <2>1, <2>4, <2>6, <2>7, <2>8, QuietStep
<1>5. CASE ~(Cardinality(Unread) >= batch_size \/ (polling_mode /\ HasCached(r)))
  <2>1. UNCHANGED <<reader, consumed, states, balanced>> /\ waiting' = IF polling_mode THEN Nobody ELSE r
    BY <1>5 DEF Fetch
  <2> QED
    BY <1>3, <2>1
<1>6. CASE Cardinality(Unread) >= batch_size \/ (polling_mode /\ HasCached(r))
  <2>1. Answer(r) /\ UNCHANGED waiting
    BY <1>6 DEF Fetch
  <2>2. PICK s : s = Sample(r)
    OBVIOUS
  <2>3. CASE s.batch # << >>
    <3>1. /\ reader' = [reader EXCEPT ![r].phase = "data", ![r].meta = Identity(s.batch)]
          /\ consumed' = consumed \cup Range(s.batch)
          /\ states' = s.states /\ balanced' = s.balanced
      BY <2>1, <2>2, <2>3 DEF Answer
    <3> QED
      BY <1>1, <2>1, <2>2, <2>3, <3>1
  <2>4. CASE s.batch = << >>
    <3>1. /\ reader' = IF polling_mode THEN reader ELSE [reader EXCEPT ![r].phase = "failed"]
          /\ UNCHANGED <<consumed, states, balanced>>
      BY <2>1, <2>2, <2>4 DEF Answer
    <3> QED
      BY <1>1, <1>3, <1>4, <2>1, <3>1
  <2> QED
    BY <2>3, <2>4
<1> QED
  BY <1>5, <1>6

(* The fetch of a batch.                                                   *)
LEMMA AnswerSteps ==
  ASSUME Control, ViewOf(View), NEW r \in Readers, NEW s, s = Sample(r), s.batch # << >>,
         reader' = [reader EXCEPT ![r].phase = "data", ![r].meta = Identity(s.batch)],
         consumed' = consumed \cup Range(s.batch), states' = s.states, balanced' = s.balanced,
         UNCHANGED <<settings, ready, life, epoch, waiting>>,
         reader[r].phase = "check", reader[r].epoch = epoch, waiting = Nobody
  PROVE  /\ Control' /\ s.batch \in Seq(Index)
         /\ FetchedCached(View, View', r, s.batch) \/ \E parts : FetchedFresh(View, View', r, s.batch, parts)
         /\ FetchedCached(View, View', r, s.batch) => balanced' = balanced
         /\ kind = "seqlen" => DOMAIN balanced' \subseteq DOMAIN balanced \cup {Len(reader[r].buffer)}
         /\ reader'[r].meta = Named(View, s.batch) /\ reader'[r].buffer = reader[r].buffer
         /\ \A t \in Readers : t # r => reader'[t] = reader[t]
<1>1. reader[r].dp \in Ranks /\ Len(reader[r].buffer) \in Nat /\ IsReader(reader[r]) /\ HasFields(reader[r])
      /\ Given(r) = reader[r].buffer /\ r \in Current
  BY ReadersHave
<1>2. PICK v : v = View
  OBVIOUS
<1>3. PICK w : w = View'
  OBVIOUS
<1>4. /\ v.kind = kind /\ v.size = group_size /\ v.states = states /\ v.ready = ready
      /\ v.consumed = consumed /\ v.life = life /\ v.current = Current
      /\ v.dp = [t \in Readers |-> reader[t].dp] /\ v.given = [t \in Readers |-> Given(t)]
  BY <1>2, ViewHas, Zenon
<1>5. /\ w.kind = kind' /\ w.size = group_size' /\ w.states = states' /\ w.ready = ready'
      /\ w.consumed = consumed' /\ w.life = life' /\ w.current = Current'
      /\ w.dp = [t \in Readers |-> reader'[t].dp] /\ w.given = [t \in Readers |-> Given(t)']
  BY <1>3, ViewHasNext, Zenon
<1>6. AnswersCached(r, s) \/ \E parts : AnswersFresh(r, s, parts)
  BY <1>1, SampleIs
<1>7. v.life \in [Index -> Nat] /\ v.ready \in SUBSET Index
  BY <1>2, Zenon DEF ViewOf
<1>8. s.batch \in Seq(Index)
  <2>1. CASE AnswersCached(r, s)
    BY <1>2, <1>4, <2>1 DEF AnswersCached, ViewOf
  <2>2. CASE \E parts : AnswersFresh(r, s, parts)
    <3>1. s.batch \in Seq(Unread)
      BY <2>2 DEF AnswersFresh
    <3>2. Unread \subseteq Index
      BY <1>4, <1>7 DEF Unread
    <3> QED
      BY <3>1, <3>2
  <2> QED
    BY <1>6, <2>1, <2>2
<1>9. Identity(s.batch) = Named(v, s.batch)
  BY <1>4 DEF Identity, Named
<1>10. PICK m : m = Named(v, s.batch)
  OBVIOUS
<1>11. m \in Seq(Samples)
  BY <1>7, <1>8, <1>10, NamedIs DEF Samples
<1>12. PICK x : x = [reader[r] EXCEPT !.phase = "data", !.meta = m]
  OBVIOUS
<1>13. reader' = [reader EXCEPT ![r] = x] /\ reader = [t \in Readers |-> reader[t]]
  BY <1>9, <1>10, <1>12 DEF Control
<1>14. x = [dp |-> reader[r].dp, finite |-> reader[r].finite, phase |-> "data", meta |-> m,
            buffer |-> reader[r].buffer, batch_index |-> reader[r].batch_index, epoch |-> reader[r].epoch]
  <2>1. PICK y, p : y = reader[r] /\ p = "data"
    OBVIOUS
  <2>2. HasFields(y) /\ x = [y EXCEPT !.phase = p, !.meta = m]
    BY <1>1, <1>12, <2>1
  <2>3. x = [dp |-> y.dp, finite |-> y.finite, phase |-> p, meta |-> m,
             buffer |-> y.buffer, batch_index |-> y.batch_index, epoch |-> y.epoch]
    BY <2>2, FieldsAre
  <2> QED
    BY <2>1, <2>3
<1>15. x.dp = reader[r].dp /\ x.phase = "data" /\ x.meta = m /\ x.buffer = reader[r].buffer /\ x.epoch = reader[r].epoch
       /\ HasFields(x)
  BY <1>14 DEF HasFields
<1>16. IsReader(x)
  BY <1>1, <1>11, <1>15 DEF IsReader
<1>17. \A t \in Readers : reader'[t] = IF t = r THEN x ELSE reader[t]
  BY <1>13
<1>18. \A t \in Readers : reader'[t].dp = reader[t].dp /\ reader'[t].epoch = reader[t].epoch
  BY <1>15, <1>17
<1>19. Given(r)' = Append(reader[r].buffer, m) /\ \A t \in Readers : t # r => Given(t)' = Given(t)
  <2>1. PICK b : b = reader[r].buffer
    OBVIOUS
  <2>2. reader'[r].phase = "data" /\ reader'[r].buffer = b /\ reader'[r].meta = m
    BY <1>15, <1>17, <2>1
  <2>3. Given(r)' = Append(b, m)
    BY <2>2, Zenon DEF Given
  <2>4. \A t \in Readers : t # r => reader'[t] = reader[t]
    BY <1>17
  <2>5. ASSUME NEW t \in Readers, t # r PROVE Given(t)' = Given(t)
    <3>1. reader'[t] = reader[t]
      BY <2>4, <2>5
    <3> QED
      BY <3>1, SameGiven
  <2> QED
    BY <2>1, <2>3, <2>5
<1>20. kind' = kind /\ group_size' = group_size
  BY DEF settings, kind, group_size
<1>21. Current' = Current
  BY <1>18 DEF Current
<1>22. w.given = [v.given EXCEPT ![r] = Append(v.given[r], m)]
  <2>1. v.given[r] = reader[r].buffer
    BY <1>1, <1>4
  <2>2. \A t \in Readers : w.given[t] = IF t = r THEN Append(reader[r].buffer, m) ELSE v.given[t]
    BY <1>4, <1>5, <1>19
  <2>3. PICK a : a = Append(reader[r].buffer, m)
    OBVIOUS
  <2>4. w.given = [t \in Readers |-> w.given[t]] /\ v.given = [t \in Readers |-> v.given[t]]
    BY <1>4, <1>5
  <2>5. \A t \in Readers : w.given[t] = IF t = r THEN a ELSE v.given[t]
    BY <2>2, <2>3
  <2>6. w.given = [v.given EXCEPT ![r] = a]
    BY <2>4, <2>5
  <2>7. a = Append(v.given[r], m)
    BY <2>1, <2>3
  <2> QED
    BY <2>6, <2>7
<1>23. w.dp = v.dp
  <2>1. [t \in Readers |-> reader'[t].dp] = [t \in Readers |-> reader[t].dp]
    BY <1>18
  <2> QED
    BY <1>4, <1>5, <2>1
<1>24. Fetched(v, w, r, s.batch)
  BY <1>1, <1>4, <1>5, <1>10, <1>20, <1>21, <1>22, <1>23 DEF Fetched, SameSampler
<1>25. NextKey(v, r) = Key(r) /\ v.ready \ v.consumed = Unread
  BY <1>1, <1>4 DEF NextKey, Key, Unread
<1>26. ASSUME AnswersCached(r, s) PROVE FetchedCached(v, w, r, s.batch) /\ balanced' = balanced /\ states' = states
  BY <1>4, <1>5, <1>24, <1>25, <1>26 DEF AnswersCached, FetchedCached
<1>27. ASSUME NEW parts, AnswersFresh(r, s, parts) PROVE FetchedFresh(v, w, r, s.batch, parts)
  <2>1. kind = "seqlen" => DOMAIN parts = Ranks \X {Len(reader[r].buffer)}
    BY <1>27 DEF AnswersFresh
  <2>2. v.given[r] = reader[r].buffer
    BY <1>1, <1>4
  <2> QED
    BY <1>4, <1>5, <1>24, <1>25, <1>27, <2>1, <2>2 DEF AnswersFresh, FetchedFresh
<1>28. states' = [K \in DOMAIN states' |-> states'[K]]
  <2>1. CASE AnswersCached(r, s)
    BY <1>26, <2>1 DEF Control
  <2>2. CASE \E parts : AnswersFresh(r, s, parts)
    BY <2>2 DEF AnswersFresh, With
  <2> QED
    BY <1>6, <2>1, <2>2
<1>29. BalancedAreCached' /\ (kind = "seqlen" => DOMAIN balanced' \subseteq DOMAIN balanced \cup {Len(reader[r].buffer)})
  <2>1. SUFFICES ASSUME kind = "seqlen"
                 PROVE  /\ DOMAIN balanced' \subseteq Nat /\ DOMAIN states' = Ranks \X DOMAIN balanced'
                        /\ \A K \in DOMAIN states' : balanced'[K[2]][K[1]] = states'[K]
                        /\ DOMAIN balanced' \subseteq DOMAIN balanced \cup {Len(reader[r].buffer)}
    BY <1>20 DEF BalancedAreCached
  <2>2. /\ DOMAIN balanced \subseteq Nat /\ DOMAIN states = Ranks \X DOMAIN balanced
        /\ \A K \in DOMAIN states : balanced[K[2]][K[1]] = states[K]
    BY <2>1 DEF Control, BalancedAreCached
  <2>3. CASE AnswersCached(r, s)
    BY <1>26, <2>2, <2>3
  <2>4. CASE \E parts : AnswersFresh(r, s, parts)
    <3>1. PICK parts : AnswersFresh(r, s, parts)
      BY <2>4
    <3>2. PICK n \in Nat : n = Len(reader[r].buffer)
      BY <1>1
    <3>3. PICK d \in [Ranks -> Seq(Unread)] :
            /\ s.balanced = With(balanced, [k \in {n} |-> d]) /\ parts = [k \in Ranks \X {n} |-> d[k[1]]]
            /\ n \notin DOMAIN balanced
      BY <2>1, <3>1, <3>2 DEF AnswersFresh
    <3>4. /\ DOMAIN balanced' = DOMAIN balanced \cup {n} /\ balanced'[n] = d
          /\ \A b \in DOMAIN balanced : balanced'[b] = balanced[b]
      BY <3>3 DEF With
    <3>5. states' = With(states, parts)
      BY <3>1 DEF AnswersFresh
    <3>6. DOMAIN parts = Ranks \X {n} /\ \A a \in Ranks : parts[<<a, n>>] = d[a]
      BY <3>3
    <3>7. /\ DOMAIN states' = DOMAIN states \cup DOMAIN parts
          /\ \A K \in DOMAIN parts : states'[K] = parts[K]
          /\ \A K \in DOMAIN states : K \notin DOMAIN parts => states'[K] = states[K]
      BY <3>5 DEF With
    <3>8. DOMAIN states' = Ranks \X DOMAIN balanced'
      BY <2>2, <3>4, <3>6, <3>7
    <3>9. ASSUME NEW K \in DOMAIN states' PROVE balanced'[K[2]][K[1]] = states'[K]
      <4>1. CASE K \in DOMAIN parts
        <5>1. PICK a \in Ranks : K = <<a, n>>
          BY <3>6, <4>1
        <5> QED
          BY <3>4, <3>6, <3>7, <4>1, <5>1
      <4>2. CASE K \notin DOMAIN parts
        <5>1. K \in DOMAIN states /\ states'[K] = states[K] /\ K[2] \in DOMAIN balanced
          BY <2>2, <3>7, <3>9, <4>2
        <5> QED
          BY <2>2, <3>4, <5>1
      <4> QED
        BY <4>1, <4>2
    <3> QED
      BY <2>2, <3>2, <3>4, <3>8, <3>9
  <2> QED
    BY <1>6, <2>3, <2>4
<1>30. Control'
  <2>1. sampling' \in Samplings /\ epoch' \in Nat
    BY DEF Control, settings
  <2>2. reader' = [t \in Readers |-> reader'[t]]
    BY <1>13
  <2>3. \A t \in Readers : IsReader(reader'[t]) /\ (reader'[t].phase = "data" => reader'[t].epoch = epoch')
    BY <1>15, <1>16, <1>17 DEF Control
  <2>4. \A t \in Readers : waiting' # t
    BY StreamingAssumption
  <2> QED
    BY <1>28, <1>29, <2>1, <2>2, <2>3, <2>4 DEF Control
<1>31. FetchedCached(v, w, r, s.batch) \/ \E parts : FetchedFresh(v, w, r, s.batch, parts)
  BY <1>6, <1>26, <1>27
<1>32. FetchedCached(v, w, r, s.batch) => balanced' = balanced
  <2> SUFFICES ASSUME FetchedCached(v, w, r, s.batch) PROVE balanced' = balanced
    OBVIOUS
  <2>1. Key(r) \in DOMAIN states /\ kind # "sequential"
    BY <1>4, <1>25 DEF FetchedCached
  <2>2. AnswersCached(r, s)
    BY <1>6, <2>1 DEF AnswersFresh
  <2> QED
    BY <1>26, <2>2
<1>33. reader'[r].meta = Named(v, s.batch) /\ reader'[r].buffer = reader[r].buffer
       /\ \A t \in Readers : t # r => reader'[t] = reader[t]
  BY <1>10, <1>15, <1>17
<1> QED
  BY <1>2, <1>3, <1>8, <1>29, <1>30, <1>31, <1>32, <1>33, Zenon

(* No reader begins to get a batch.                                        *)
NoNewData == \A s \in Readers : reader'[s] = reader[s] \/ reader'[s].phase # "data"

LEMMA QuietStepsGiveNothing ==
  ASSUME Control, NEW r \in Readers, Stop(r) \/ Yield(r) \/ GetData(r) \/ Reset(r) \/ WaitEnds(r) \/ Step(r)
  PROVE  NoNewData
<1>1. reader = [s \in Readers |-> reader[s]] /\ HasFields(reader[r])
  BY DEF Control, IsReader
<1>2. SUFFICES \E x : reader' = [reader EXCEPT ![r] = x] /\ x.phase # "data"
  BY <1>1 DEF NoNewData
<1>3. PICK y : y = reader[r]
  OBVIOUS
<1>4. HasFields(y)
  BY <1>1, <1>3
<1>5. CASE Stop(r)
  <2> DEFINE x == [reader[r] EXCEPT !.phase = "stopped"]
  <2>1. reader' = [reader EXCEPT ![r] = x]
    BY <1>5 DEF Stop
  <2>2. x.phase = "stopped"
    BY <1>1 DEF HasFields
  <2> QED
    BY <2>1, <2>2
<1>6. CASE Yield(r)
  <2> DEFINE x == [reader[r] EXCEPT !.batch_index = reader[r].batch_index + 1]
  <2>1. reader' = [reader EXCEPT ![r] = x] /\ reader[r].phase = "check"
    BY <1>6 DEF Yield, Idle
  <2>2. x.phase = reader[r].phase
    BY <1>1 DEF HasFields
  <2> QED
    BY <2>1, <2>2
<1>7. CASE GetData(r)
  <2>1. PICK b : b = Append(reader[r].buffer, reader[r].meta)
    OBVIOUS
  <2>2. PICK x : x = [y EXCEPT !.phase = "check", !.meta = << >>, !.buffer = b]
    OBVIOUS
  <2>3. reader' = [reader EXCEPT ![r] = x]
    BY <1>1, <1>3, <1>7, <2>1, <2>2 DEF GetData
  <2>4. x.phase = "check"
    BY <1>4, <2>2, FieldsAre
  <2> QED
    BY <2>3, <2>4
<1>8. CASE Reset(r)
  <2>1. PICK x : x = [y EXCEPT !.phase = "check", !.batch_index = 0]
    OBVIOUS
  <2>2. reader' = [reader EXCEPT ![r] = x]
    BY <1>1, <1>3, <1>8, <2>1 DEF Reset
  <2>3. x.phase = "check"
    BY <1>4, <2>1, FieldsAre
  <2> QED
    BY <2>2, <2>3
<1>9. CASE WaitEnds(r)
  <2> DEFINE x == [reader[r] EXCEPT !.phase = "failed"]
  <2>1. reader' = [reader EXCEPT ![r] = x]
    BY <1>9 DEF WaitEnds
  <2>2. x.phase = "failed"
    BY <1>1 DEF HasFields
  <2> QED
    BY <2>1, <2>2
<1>10. CASE Step(r)
  <2>1. PICK x : x = [y EXCEPT !.phase = "check", !.buffer = << >>, !.batch_index = 0, !.epoch = epoch]
    OBVIOUS
  <2>2. reader' = [reader EXCEPT ![r] = x]
    BY <1>1, <1>3, <1>10, <2>1 DEF Step
  <2>3. x.phase = "check"
    <3>1. PICK e, b, j, p : e = epoch /\ b = << >> /\ j = 0 /\ p = "check"
      OBVIOUS
    <3>2. Turned(y, x, p, b, j, e)
      BY <2>1, <3>1 DEF Turned
    <3> QED
      BY <1>4, <3>1, <3>2, TurnedIs
  <2> QED
    BY <2>2, <2>3
<1> QED
  BY <1>5, <1>6, <1>7, <1>8, <1>9, <1>10

(* The readers are the same after a step of the producers or of clearing.  *)
LEMMA SameReaders ==
  ASSUME Control, reader' = reader, UNCHANGED <<settings, waiting>>
  PROVE  /\ NoNewData /\ kind' = kind /\ group_size' = group_size
         /\ View'.dp = View.dp /\ View'.given = View.given
         /\ epoch' \in Nat /\ (\A r \in Readers : reader[r].phase = "data" => reader[r].epoch = epoch')
            /\ states' = [K \in DOMAIN states' |-> states'[K]] /\ BalancedAreCached' => Control'
<1>1. sampling' = sampling /\ waiting' = waiting
  BY DEF settings
<1>2. kind' = kind /\ group_size' = group_size
  BY <1>1 DEF kind, group_size
<1>3. \A r \in Readers : Given(r)' = Given(r)
  BY SameGiven
<1>4. View'.dp = View.dp
  <2>1. [r \in Readers |-> reader'[r].dp] = [r \in Readers |-> reader[r].dp]
    OBVIOUS
  <2> QED
    BY <2>1, ViewHas, ViewHasNext, Zenon
<1>5. View'.given = View.given
  <2>1. [r \in Readers |-> Given(r)'] = [r \in Readers |-> Given(r)]
    BY <1>3
  <2> QED
    BY <2>1, ViewHas, ViewHasNext, Zenon
<1>6. NoNewData
  BY DEF NoNewData
<1>7. ASSUME epoch' \in Nat, \A r \in Readers : reader[r].phase = "data" => reader[r].epoch = epoch',
             states' = [K \in DOMAIN states' |-> states'[K]], BalancedAreCached'
      PROVE  Control'
  BY <1>1, <1>7 DEF Control
<1> QED
  BY <1>2, <1>4, <1>5, <1>6, <1>7

LEMMA StepJoins ==
  ASSUME Control, ViewOf(View), NEW r \in Readers, Step(r)
  PROVE  Control' /\ Joined(View, View', r)
<1>1. IsReader(reader[r]) /\ HasFields(reader[r]) /\ reader = [s \in Readers |-> reader[s]]
      /\ reader[r].phase \in {"check", "stopped"} /\ reader[r].epoch < epoch /\ reader[r].epoch \in Nat /\ epoch \in Nat
      /\ waiting' = waiting /\ UNCHANGED <<settings, controllerVars>>
  BY DEF Control, IsReader, Step
<1>2. sampling' = sampling /\ ready' = ready /\ consumed' = consumed /\ life' = life /\ epoch' = epoch
      /\ states' = states /\ balanced' = balanced
  BY <1>1 DEF settings, controllerVars
<1>3. PICK y : y = reader[r]
  OBVIOUS
<1>4. PICK x : x = [y EXCEPT !.phase = "check", !.buffer = << >>, !.batch_index = 0, !.epoch = epoch]
  OBVIOUS
<1>5. reader' = [reader EXCEPT ![r] = x]
  BY <1>1, <1>3, <1>4 DEF Step
<1>6. HasFields(y) /\ Turned(y, x, "check", << >>, 0, epoch)
  BY <1>1, <1>3, <1>4 DEF Turned
<1>7. y.meta = << >>
  BY <1>1, <1>3 DEF IsReader
<1>8. x.dp = y.dp /\ x.phase = "check" /\ x.meta = << >> /\ x.buffer = << >> /\ x.epoch = epoch /\ HasFields(x)
  <2>1. PICK e, b, j, p : e = epoch /\ b = << >> /\ j = 0 /\ p = "check"
    OBVIOUS
  <2>2. Turned(y, x, p, b, j, e)
    BY <1>6, <2>1
  <2>3. x.dp = y.dp /\ x.phase = p /\ x.meta = y.meta /\ x.buffer = b /\ x.epoch = e /\ HasFields(x)
    BY <1>6, <2>2, TurnedIs
  <2> QED
    BY <1>7, <2>1, <2>3
<1>9. IsReader(x)
  <2>1. << >> \in Seq(Samples)
    OBVIOUS
  <2>2. << >> \in Seq(Seq(Samples))
    OBVIOUS
  <2> QED
    BY <1>1, <1>8, <2>1, <2>2 DEF IsReader
<1>10. \A s \in Readers : reader'[s] = IF s = r THEN x ELSE reader[s]
  BY <1>1, <1>5
<1>11. Control'
  <2>1. BalancedAreCached'
    BY <1>2 DEF Control, BalancedAreCached, kind
  <2>2. reader' = [s \in Readers |-> reader'[s]]
    BY <1>1, <1>5
  <2>3. \A s \in Readers : IsReader(reader'[s]) /\ (reader'[s].phase = "data" => reader'[s].epoch = epoch')
    BY <1>2, <1>8, <1>9, <1>10 DEF Control
  <2>4. \A s \in Readers : waiting' = s => reader'[s].phase = "check"
    BY <1>1, <1>8, <1>10 DEF Control
  <2> QED
    BY <1>2, <2>1, <2>2, <2>3, <2>4 DEF Control
<1>12. PICK v : v = View
  OBVIOUS
<1>13. PICK w : w = View'
  OBVIOUS
<1>14. /\ v.kind = kind /\ v.size = group_size /\ v.states = states /\ v.ready = ready
       /\ v.consumed = consumed /\ v.life = life /\ v.current = Current
       /\ v.dp = [s \in Readers |-> reader[s].dp] /\ v.given = [s \in Readers |-> Given(s)]
  BY <1>12, ViewHas, Zenon
<1>15. /\ w.kind = kind' /\ w.size = group_size' /\ w.states = states' /\ w.ready = ready'
       /\ w.consumed = consumed' /\ w.life = life' /\ w.current = Current'
       /\ w.dp = [s \in Readers |-> reader'[s].dp] /\ w.given = [s \in Readers |-> Given(s)']
  BY <1>13, ViewHasNext, Zenon
<1>16. kind' = kind /\ group_size' = group_size
  BY <1>2 DEF kind, group_size
<1>17. w.dp = v.dp
  BY <1>3, <1>8, <1>10, <1>14, <1>15
<1>18. r \notin Current /\ Current' = Current \cup {r}
  BY <1>1, <1>2, <1>8, <1>10 DEF Current
<1>19. Given(r)' = << >>
  <2>1. reader'[r].phase = "check" /\ reader'[r].buffer = << >>
    BY <1>8, <1>10
  <2> QED
    BY <2>1 DEF Given
<1>20. ASSUME NEW s \in Readers, s # r PROVE Given(s)' = Given(s)
  <2>1. reader'[s] = reader[s]
    BY <1>10, <1>20
  <2> QED
    BY <2>1, SameGiven
<1>21. w.given = [v.given EXCEPT ![r] = << >>]
  <2>1. \A s \in Readers : w.given[s] = IF s = r THEN << >> ELSE v.given[s]
    BY <1>14, <1>15, <1>19, <1>20
  <2>2. w.given = [s \in Readers |-> w.given[s]] /\ v.given = [s \in Readers |-> v.given[s]]
    BY <1>14, <1>15
  <2> QED
    BY <2>1, <2>2
<1>22. Joined(v, w, r)
  BY <1>2, <1>14, <1>15, <1>16, <1>17, <1>18, <1>21 DEF Joined, SameSampler
<1> QED
  BY <1>11, <1>12, <1>13, <1>22, Zenon

(* The samples of a prompt.                                                *)
LEMMA PromptIsWhole ==
  ASSUME sampling \in Samplings, NEW i \in Index
  PROVE  Prompt(i) \in SUBSET Index /\ i \in Prompt(i) /\ IsWhole(Prompt(i), group_size)
<1>1. PICK g : g = group_size
  OBVIOUS
<1>2. g \in Nat \ {0} /\ N \in Nat \ {0}
  BY <1>1, SettingsAre DEF group_size
<1>3. PICK k \in Nat \ {0} : N = k * g
  BY <1>1, SettingsAre DEF group_size
<1>4. ASSUME NEW y \in Nat, NEW x \in Nat, x < N, y \div g = x \div g PROVE y < N
  <2>1. PICK q \in Nat : q = x \div g
    BY <1>2, Quotient
  <2>2. q * g \in Nat /\ q * g <= x
    BY <1>2, <2>1, Quotient
  <2>3. q < k
    <3> SUFFICES ASSUME k <= q PROVE FALSE
      OBVIOUS
    <3>1. k * g <= q * g
      BY <1>2, TimesMonotone
    <3> QED
      BY <1>2, <1>3, <1>4, <2>2, <3>1
  <2>4. y < q * g + g
    BY <1>2, <1>4, <2>1, Quotient
  <2>5. (q + 1) * g <= k * g
    BY <1>2, <2>3, TimesMonotone
  <2>6. (q + 1) * g = q * g + g
    BY <1>2
  <2> QED
    BY <1>2, <1>3, <1>4, <2>2, <2>4, <2>5, <2>6
<1>5. \A y : y \in Index <=> y \in Nat /\ y < N
  BY <1>2 DEF Index
<1>6. Prompt(i) = {j \in Index : j \div g = i \div g}
  BY <1>1 DEF Prompt
<1>7. ASSUME NEW x \in Prompt(i), NEW y \in Nat, y \div g = x \div g PROVE y \in Prompt(i)
  <2>1. x \in Nat /\ x < N /\ x \div g = i \div g
    BY <1>5, <1>6
  <2>2. y < N
    BY <1>4, <1>7, <2>1
  <2> QED
    BY <1>5, <1>6, <1>7, <2>1, <2>2
<1>8. IsWhole(Prompt(i), g)
  BY <1>7 DEF IsWhole
<1> QED
  BY <1>1, <1>6, <1>8

LEMMA ProduceSteps ==
  ASSUME Control, ViewOf(View), Produce
  PROVE  /\ Control' /\ NoNewData /\ ready \subseteq ready'
         /\ \E new : Produced(View, View', new) /\ (WholePrompts => IsWhole(new, group_size))
<1>1. sampling \in Samplings /\ epoch \in Nat
  BY DEF Control
<1>2. PICK i \in Index \ ready : ready' = ready \cup (IF WholePrompts THEN Prompt(i) ELSE {i})
  BY DEF Produce
<1>3. UNCHANGED <<settings, consumed, life, epoch, states, balanced, waiting, reader>>
  BY DEF Produce
<1>4. /\ NoNewData /\ kind' = kind /\ group_size' = group_size
      /\ View'.dp = View.dp /\ View'.given = View.given
  BY <1>3, SameReaders
<1>5. Control'
  <2>1. BalancedAreCached' /\ epoch' \in Nat /\ states' = [K \in DOMAIN states' |-> states'[K]]
        /\ \A r \in Readers : reader[r].phase = "data" => reader[r].epoch = epoch'
    BY <1>3, <1>4 DEF Control, BalancedAreCached
  <2> QED
    BY <1>3, <2>1, SameReaders
<1>6. PICK new : new = (IF WholePrompts THEN Prompt(i) ELSE {i})
  OBVIOUS
<1>7. new \in SUBSET Index /\ (WholePrompts => IsWhole(new, group_size)) /\ ready' = ready \cup new
  <2>1. Prompt(i) \in SUBSET Index /\ IsWhole(Prompt(i), group_size)
    BY <1>1, PromptIsWhole
  <2> QED
    BY <1>2, <1>6, <2>1
<1>8. PICK v : v = View
  OBVIOUS
<1>9. PICK w : w = View'
  OBVIOUS
<1>10. /\ v.kind = kind /\ v.size = group_size /\ v.states = states /\ v.ready = ready
       /\ v.consumed = consumed /\ v.life = life /\ v.current = Current
  BY <1>8, ViewHas, Zenon
<1>11. /\ w.kind = kind' /\ w.size = group_size' /\ w.states = states' /\ w.ready = ready'
       /\ w.consumed = consumed' /\ w.life = life' /\ w.current = Current'
  BY <1>9, ViewHasNext, Zenon
<1>12. w.dp = v.dp /\ w.given = v.given
  BY <1>4, <1>8, <1>9, Zenon
<1>13. Current' = Current
  BY <1>3 DEF Current
<1>14. Produced(v, w, new)
  BY <1>3, <1>4, <1>7, <1>10, <1>11, <1>12, <1>13 DEF Produced, SameSampler
<1>15. Produced(View, View', new)
  BY <1>8, <1>9, <1>14, Zenon
<1> QED
  BY <1>4, <1>5, <1>7, <1>15

LEMMA ClearPartitionSteps ==
  ASSUME Control, ViewOf(View), ClearPartition
  PROVE  /\ Control' /\ NoNewData /\ Restarted(View, View')
         /\ \A r \in Readers : reader[r].phase # "data"
<1>1. /\ \A r \in Readers : reader[r].phase # "data" /\ reader[r].epoch = epoch
      /\ ready' = {} /\ consumed' = {} /\ epoch' = epoch + 1 /\ life' = [i \in Index |-> life[i] + 1]
      /\ states' = << >> /\ balanced' = << >>
      /\ UNCHANGED <<settings, waiting, reader>>
  BY DEF ClearPartition, ClearCache
<1>2. epoch \in Nat
  BY DEF Control
<1>3. /\ NoNewData /\ kind' = kind /\ group_size' = group_size
      /\ View'.dp = View.dp /\ View'.given = View.given
  BY <1>1, SameReaders
<1>4. Control'
  <2>1. DOMAIN states' = {} /\ DOMAIN balanced' = {}
    BY <1>1
  <2>2. Ranks \X {} = {}
    OBVIOUS
  <2>3. BalancedAreCached'
    BY <2>1, <2>2 DEF BalancedAreCached
  <2>4. epoch' \in Nat /\ states' = [K \in DOMAIN states' |-> states'[K]]
    BY <1>1, <1>2
  <2> QED
    BY <1>1, <2>3, <2>4, SameReaders
<1>5. PICK v : v = View
  OBVIOUS
<1>6. PICK w : w = View'
  OBVIOUS
<1>7. v.kind = kind /\ v.size = group_size /\ v.life = life
  BY <1>5, ViewHas, Zenon
<1>8. /\ w.kind = kind' /\ w.size = group_size' /\ w.states = states' /\ w.ready = ready'
      /\ w.consumed = consumed' /\ w.life = life' /\ w.current = Current'
  BY <1>6, ViewHasNext, Zenon
<1>9. w.dp = v.dp /\ w.given = v.given
  BY <1>3, <1>5, <1>6, Zenon
<1>10. Current' = {}
  <2>1. \A r \in Readers : reader'[r].epoch # epoch'
    BY <1>1, <1>2
  <2> QED
    BY <2>1 DEF Current
<1>11. w.life \in [Index -> Nat]
  <2>1. life \in [Index -> Nat]
    BY <1>5, <1>7, Zenon DEF ViewOf
  <2> QED
    BY <1>1, <1>8, <2>1
<1>12. Restarted(v, w)
  BY <1>1, <1>3, <1>7, <1>8, <1>9, <1>10, <1>11 DEF Restarted, SameSampler
<1>13. Restarted(View, View')
  BY <1>5, <1>6, <1>12, Zenon
<1> QED
  BY <1>1, <1>3, <1>4, <1>13

(* A batch that is owed has no sample that all are done with.              *)
LEMMA OwedAreNotDone ==
  ASSUME Control, ViewOf(View), NEW K \in DOMAIN states, IsOwed(View, K), NEW i, DoneWith(i)
  PROVE  i \notin Range(states[K])
<1>1. SUFFICES ASSUME i \in Range(states[K]) PROVE FALSE
  OBVIOUS
<1>2. PICK v : v = View
  OBVIOUS
<1>3. /\ v.states = states /\ v.current = Current
      /\ v.dp = [t \in Readers |-> reader[t].dp] /\ v.given = [t \in Readers |-> Given(t)]
  BY <1>2, ViewHas, Zenon
<1>4. PICK r \in Readers : v.dp[r] = K[1] /\ (r \notin v.current \/ Len(v.given[r]) <= K[2])
  BY <1>2 DEF IsOwed
<1>5. reader[r].dp = K[1]
  BY <1>3, <1>4
<1>6. reader[r].epoch = epoch /\ Len(reader[r].buffer) > K[2]
  BY <1>1, <1>5 DEF DoneWith
<1>7. r \in v.current
  BY <1>3, <1>6, ReadersHave
<1>8. K[2] \in Nat
  BY <1>2, <1>3 DEF ViewOf
<1>9. Len(reader[r].buffer) \in Nat /\ Len(Given(r)) \in Nat /\ Len(reader[r].buffer) <= Len(Given(r))
  <2>1. PICK T : T = Seq(Samples)
    OBVIOUS
  <2>2. reader[r].buffer \in Seq(T) /\ reader[r].meta \in T
    BY <2>1, ReadersHave DEF IsReader
  <2>3. Len(reader[r].buffer) \in Nat /\ Len(Append(reader[r].buffer, reader[r].meta)) = Len(reader[r].buffer) + 1
    BY <2>2
  <2> QED
    BY <2>3 DEF Given
<1> QED
  BY <1>3, <1>4, <1>6, <1>7, <1>8, <1>9

LEMMA ClearSamplesSteps ==
  ASSUME Control, ViewOf(View), ClearSamples
  PROVE  /\ Control' /\ NoNewData
         /\ \E gone : /\ Cleared(View, View', gone) /\ (WholePrompts => IsWhole(gone, group_size))
                      /\ ready' = ready \ gone
                      /\ ~EagerClears =>
                           /\ \A K \in DOMAIN states : IsOwed(View, K) => Range(states[K]) \cap gone = {}
                           /\ \A r \in Readers : \A j \in DOMAIN reader[r].meta : reader[r].meta[j][1] \notin gone
<1>1. sampling \in Samplings /\ epoch \in Nat
  BY DEF Control
<1>2. PICK i \in consumed :
        LET gone == IF WholePrompts THEN Prompt(i) ELSE {i}
        IN  /\ \A j \in gone : j \in consumed /\ (EagerClears \/ DoneWith(j))
            /\ life' = [j \in Index |-> IF j \in gone THEN life[j] + 1 ELSE life[j]]
            /\ ready' = ready \ gone /\ consumed' = consumed \ gone
  BY DEF ClearSamples
<1>3. UNCHANGED <<settings, epoch, states, balanced, waiting, reader>>
  BY DEF ClearSamples
<1>4. PICK gone : gone = (IF WholePrompts THEN Prompt(i) ELSE {i})
  OBVIOUS
<1>5. /\ \A j \in gone : j \in consumed /\ (EagerClears \/ DoneWith(j))
      /\ life' = [j \in Index |-> IF j \in gone THEN life[j] + 1 ELSE life[j]]
      /\ ready' = ready \ gone /\ consumed' = consumed \ gone
  BY <1>2, <1>4
<1>6. /\ NoNewData /\ kind' = kind /\ group_size' = group_size
      /\ View'.dp = View.dp /\ View'.given = View.given
  BY <1>3, SameReaders
<1>7. Control'
  <2>1. BalancedAreCached' /\ epoch' \in Nat /\ states' = [K \in DOMAIN states' |-> states'[K]]
        /\ \A r \in Readers : reader[r].phase = "data" => reader[r].epoch = epoch'
    BY <1>3, <1>6 DEF Control, BalancedAreCached
  <2> QED
    BY <1>3, <2>1, SameReaders
<1>8. PICK v : v = View
  OBVIOUS
<1>9. PICK w : w = View'
  OBVIOUS
<1>10. /\ v.kind = kind /\ v.size = group_size /\ v.states = states /\ v.ready = ready
       /\ v.consumed = consumed /\ v.life = life /\ v.current = Current
  BY <1>8, ViewHas, Zenon
<1>11. /\ w.kind = kind' /\ w.size = group_size' /\ w.states = states' /\ w.ready = ready'
       /\ w.consumed = consumed' /\ w.life = life' /\ w.current = Current'
  BY <1>9, ViewHasNext, Zenon
<1>12. w.dp = v.dp /\ w.given = v.given
  BY <1>6, <1>8, <1>9, Zenon
<1>13. Current' = Current
  BY <1>3 DEF Current
<1>14. gone \in SUBSET consumed
  BY <1>5
<1>15. Cleared(v, w, gone)
  BY <1>3, <1>5, <1>6, <1>10, <1>11, <1>12, <1>13, <1>14 DEF Cleared, SameSampler
<1>16. Cleared(View, View', gone)
  BY <1>8, <1>9, <1>15, Zenon
<1>17. WholePrompts => IsWhole(gone, group_size)
  <2>1. consumed \in SUBSET Index
    BY <1>8, <1>10, Zenon DEF ViewOf
  <2> QED
    BY <1>1, <1>4, <2>1, PromptIsWhole
<1>18. ASSUME ~EagerClears
       PROVE  /\ \A K \in DOMAIN states : IsOwed(View, K) => Range(states[K]) \cap gone = {}
              /\ \A r \in Readers : \A j \in DOMAIN reader[r].meta : reader[r].meta[j][1] \notin gone
  <2>1. \A j \in gone : DoneWith(j)
    BY <1>5, <1>18
  <2>2. \A K \in DOMAIN states : IsOwed(View, K) => Range(states[K]) \cap gone = {}
    BY <2>1, OwedAreNotDone
  <2>3. \A r \in Readers : \A j \in DOMAIN reader[r].meta : reader[r].meta[j][1] \notin gone
    BY <2>1 DEF DoneWith
  <2> QED
    BY <2>2, <2>3
<1> QED
  BY <1>5, <1>6, <1>7, <1>16, <1>17, <1>18

LEMMA StutterSteps ==
  ASSUME Control, UNCHANGED vars
  PROVE  Control' /\ Same(View, View') /\ NoNewData
<1>1. UNCHANGED <<settings, controllerVars>> /\ reader' = reader /\ waiting' = waiting
  BY DEF vars, controllerVars
<1>2. sampling' = sampling /\ epoch' = epoch /\ states' = states /\ balanced' = balanced
  BY <1>1 DEF settings, controllerVars
<1>3. \A s \in Readers : /\ reader'[s].dp = reader[s].dp /\ reader'[s].epoch = reader[s].epoch
                         /\ Given(s)' = Given(s)
  BY <1>1, SameGiven
<1>4. Same(View, View')
  BY <1>1, <1>3, QuietStep
<1>5. Control'
  <2>1. BalancedAreCached'
    BY <1>2 DEF Control, BalancedAreCached, kind
  <2> QED
    BY <1>1, <1>2, <2>1 DEF Control
<1> QED
  BY <1>1, <1>4, <1>5 DEF NoNewData

-----------------------------------------------------------------------------
(* What the steps show of the view.                                        *)

Gives(r, batch) ==
  /\ FetchedCached(View, View', r, batch) \/ \E parts : FetchedFresh(View, View', r, batch, parts)
  /\ batch \in Seq(Index) /\ InStep(r) /\ reader[r].phase # "data" /\ reader[r].epoch = epoch
  /\ reader'[r].meta = Named(View, batch) /\ ready' = ready
  /\ \A t \in Readers : t # r => reader'[t] = reader[t]

Quiet    == Same(View, View') /\ NoNewData
Joins    == (\E r \in Readers : Joined(View, View', r)) /\ NoNewData
Produces == NoNewData /\ \E new : Produced(View, View', new) /\ (WholePrompts => IsWhole(new, group_size))
Restarts == Restarted(View, View') /\ NoNewData /\ \A r \in Readers : reader[r].phase # "data"
Clears   ==
  /\ NoNewData
  /\ \E gone : /\ Cleared(View, View', gone) /\ (WholePrompts => IsWhole(gone, group_size))
               /\ ready' = ready \ gone
               /\ ~EagerClears =>
                    /\ \A K \in DOMAIN states : IsOwed(View, K) => Range(states[K]) \cap gone = {}
                    /\ \A r \in Readers : \A j \in DOMAIN reader[r].meta : reader[r].meta[j][1] \notin gone

LEMMA StepsAre ==
  ASSUME Control, ViewOf(View), [Next]_vars
  PROVE  /\ Control'
         /\ Quiet \/ Joins \/ Produces \/ Restarts \/ Clears \/ \E r \in Readers : \E batch : Gives(r, batch)
<1>1. ASSUME NEW r \in Readers, Stop(r) \/ Yield(r) \/ GetData(r) \/ Reset(r) \/ WaitEnds(r)
      PROVE  Control' /\ Quiet
  BY <1>1, QuietSteps, QuietStepsGiveNothing DEF Quiet
<1>2. ASSUME NEW r \in Readers, Step(r)
      PROVE  Control' /\ Joins
  BY <1>2, StepJoins, QuietStepsGiveNothing DEF Joins
<1>3. ASSUME NEW r \in Readers, Fetch(r)
      PROVE  Control' /\ (Quiet \/ \E batch : Gives(r, batch))
  <2>1. CASE Control' /\ Same(View, View') /\ \A s \in Readers : reader'[s] = reader[s] \/ reader'[s].phase # "data"
    BY <2>1 DEF Quiet, NoNewData
  <2>2. CASE \E s : /\ s = Sample(r) /\ s.batch # << >> /\ InStep(r)
                   /\ reader' = [reader EXCEPT ![r].phase = "data", ![r].meta = Identity(s.batch)]
                   /\ consumed' = consumed \cup Range(s.batch)
                   /\ states' = s.states /\ balanced' = s.balanced
                   /\ UNCHANGED <<settings, ready, life, epoch, waiting>>
                   /\ reader[r].phase = "check" /\ reader[r].epoch = epoch /\ waiting = Nobody
    <3>1. PICK s : /\ s = Sample(r) /\ s.batch # << >> /\ InStep(r)
                   /\ reader' = [reader EXCEPT ![r].phase = "data", ![r].meta = Identity(s.batch)]
                   /\ consumed' = consumed \cup Range(s.batch)
                   /\ states' = s.states /\ balanced' = s.balanced
                   /\ UNCHANGED <<settings, ready, life, epoch, waiting>>
                   /\ reader[r].phase = "check" /\ reader[r].epoch = epoch /\ waiting = Nobody
      BY <2>2
    <3>2. /\ Control' /\ s.batch \in Seq(Index)
          /\ FetchedCached(View, View', r, s.batch) \/ \E parts : FetchedFresh(View, View', r, s.batch, parts)
          /\ reader'[r].meta = Named(View, s.batch)
          /\ \A t \in Readers : t # r => reader'[t] = reader[t]
      BY <3>1, AnswerSteps
    <3>3. Gives(r, s.batch)
      BY <3>1, <3>2 DEF Gives
    <3> QED
      BY <3>2, <3>3
  <2> QED
    BY <1>3, <2>1, <2>2, FetchSteps
<1>4. Produce => Control' /\ Produces
  BY ProduceSteps DEF Produces
<1>5. ClearPartition => Control' /\ Restarts
  BY ClearPartitionSteps DEF Restarts
<1>6. ClearSamples => Control' /\ Clears
  BY ClearSamplesSteps DEF Clears
<1>7. UNCHANGED vars => Control' /\ Quiet
  BY StutterSteps DEF Quiet
<1> QED
  BY <1>1, <1>2, <1>3, <1>4, <1>5, <1>6, <1>7 DEF Next, ReaderStep

LEMMA PrimedViews ==
  /\ ViewOf(View)' <=> ViewOf(View')
  /\ GivenAreCached(View)' <=> GivenAreCached(View')
  /\ BatchesAreWhole(View)' <=> BatchesAreWhole(View')
  /\ OwedAreKept(View)' <=> OwedAreKept(View')
  /\ AreOnce(View)' <=> AreOnce(View')
<1>1. ViewOf(View)' <=> ViewOf(View')
  BY Zenon DEF ViewOf
<1>2. GivenAreCached(View)' <=> GivenAreCached(View')
  BY Zenon DEF GivenAreCached, KeyIn, SameRows
<1>3. BatchesAreWhole(View)' <=> BatchesAreWhole(View')
  BY Zenon DEF BatchesAreWhole, IsWhole
<1>4. OwedAreKept(View)' <=> OwedAreKept(View')
  BY Zenon DEF OwedAreKept, IsOwed, KeyIn, Named
<1>5. AreOnce(View)' <=> AreOnce(View')
  BY Zenon DEF AreOnce, GivenAreTaken, GivenOnce, OwedAreApart, IsOwed, KeyIn, Named
<1> QED
  BY <1>1, <1>2, <1>3, <1>4, <1>5, Zenon

-----------------------------------------------------------------------------
(* What the properties follow from.                                        *)

BaseInv  == Control /\ ViewOf(View) /\ GivenAreCached(View)
WholeInv == BaseInv /\ BatchesAreWhole(View)
OwedInv  == BaseInv /\ OwedAreKept(View) /\ GivenIsReady

(* The readers fetch a balanced batch one after the other.                 *)
InStepView(v) ==
  v.kind = "seqlen" =>
    \A K \in DOMAIN v.states : \A r \in Readers : r \in v.current /\ K[2] <= Len(v.given[r])

OnceInv == BaseInv /\ AreOnce(View) /\ InStepView(View)

ReadersInStep == Lockstep \/ \A s \in Samplings : s[1] # "seqlen"

LEMMA FirstView ==
  ASSUME Init
  PROVE  BaseInv /\ BatchesAreWhole(View) /\ OwedAreKept(View) /\ GivenIsReady /\ AreOnce(View) /\ InStepView(View)
<1>1. /\ sampling \in Samplings /\ ready = {} /\ consumed = {} /\ life = [i \in Index |-> 0] /\ epoch = 0
      /\ states = << >> /\ balanced = << >> /\ waiting = Nobody
  BY DEF Init
<1>2. PICK f \in Groupings(kind), finite \in [Readers -> BOOLEAN] :
        reader = [r \in Readers |->
            [dp |-> f[r], finite |-> finite[r], phase |-> "check", meta |-> << >>,
             buffer |-> << >>, batch_index |-> 0, epoch |-> 0]]
  BY DEF Init
<1>3. f \in [Readers -> Ranks] /\ (kind = "sequential" => IsInjective(f))
  BY DEF Groupings, Ranks
<1>4. \A r \in Readers : /\ HasFields(reader[r]) /\ reader[r].dp = f[r] /\ reader[r].phase = "check"
                         /\ reader[r].meta = << >> /\ reader[r].buffer = << >> /\ reader[r].epoch = 0
  BY <1>2 DEF HasFields
<1>5. << >> \in Seq(Samples) /\ << >> \in Seq(Seq(Samples)) /\ Len(<< >>) = 0 /\ DOMAIN << >> = {}
  OBVIOUS
<1>6. ASSUME NEW r \in Readers PROVE IsReader(reader[r])
  <2>1. PICK x : x = reader[r]
    OBVIOUS
  <2>2. /\ HasFields(x) /\ x.phase = "check" /\ x.meta = << >> /\ x.buffer = << >> /\ x.epoch = 0
    BY <1>4, <2>1
  <2>3. x.meta \in Seq(Samples)
    BY <1>5, <2>2
  <2>4. x.buffer \in Seq(Seq(Samples))
    BY <1>5, <2>2
  <2>5. IsReader(x)
    BY <2>2, <2>3, <2>4 DEF IsReader
  <2> QED
    BY <2>1, <2>5
<1>7. Control
  <2>1. BalancedAreCached
    <3>1. Ranks \X {} = {}
      OBVIOUS
    <3> QED
      BY <1>1, <1>5, <3>1 DEF BalancedAreCached
  <2>2. \A r \in Readers : waiting # r
    BY <1>1, StreamingAssumption
  <2>3. reader = [r \in Readers |-> reader[r]]
    BY <1>2
  <2>4. states = [K \in DOMAIN states |-> states[K]]
    BY <1>1
  <2> QED
    BY <1>1, <1>4, <1>6, <2>1, <2>2, <2>3, <2>4 DEF Control
<1>8. PICK v : v = View
  OBVIOUS
<1>9. /\ v.kind = kind /\ v.states = states /\ v.ready = ready
      /\ v.consumed = consumed /\ v.life = life /\ v.current = Current
      /\ v.dp = [r \in Readers |-> reader[r].dp] /\ v.given = [r \in Readers |-> Given(r)]
  BY <1>8, ViewHas, Zenon
<1>10. \A r \in Readers : v.dp[r] = f[r] /\ v.given[r] = << >>
  BY <1>4, <1>9 DEF Given
<1>11. DOMAIN v.states = {} /\ Current \subseteq Readers
  BY <1>1, <1>5, <1>9 DEF Current
<1>12. ViewOf(v)
  <2>1. v.dp \in [Readers -> Ranks]
    BY <1>3, <1>9, <1>10
  <2>2. v.given \in [Readers -> Seq(Seq(Samples))]
    BY <1>5, <1>9, <1>10
  <2>3. v.life \in [Index -> Nat]
    BY <1>1, <1>9
  <2>4. v.kind = "sequential" => \A r, s \in Readers : v.dp[r] = v.dp[s] => r = s
    BY <1>3, <1>9, <1>10 DEF IsInjective
  <2> QED
    BY <1>1, <1>9, <1>11, <2>1, <2>2, <2>3, <2>4 DEF ViewOf
<1>13. \A r \in v.current : r \in Readers /\ 1..Len(v.given[r]) = {}
  <2>1. 1..0 = {}
    OBVIOUS
  <2> QED
    BY <1>5, <1>9, <1>10, <1>11, <2>1
<1>14. GivenAreCached(v)
  BY <1>13 DEF GivenAreCached
<1>15. BatchesAreWhole(v)
  BY <1>1, <1>9, <1>11 DEF BatchesAreWhole, IsWhole
<1>16. OwedAreKept(v)
  BY <1>11, <1>13 DEF OwedAreKept
<1>17. AreOnce(v)
  BY <1>11, <1>13 DEF AreOnce, GivenAreTaken, GivenOnce, OwedAreApart
<1>18. InStepView(v)
  BY <1>11 DEF InStepView
<1>19. GivenIsReady
  BY <1>4, <1>5 DEF GivenIsReady
<1> QED
  BY <1>7, <1>8, <1>12, <1>14, <1>15, <1>16, <1>17, <1>18, <1>19, Zenon DEF BaseInv

LEMMA BaseStep ==
  ASSUME BaseInv, [Next]_vars
  PROVE  BaseInv'
<1>1. Control /\ ViewOf(View) /\ GivenAreCached(View)
  BY DEF BaseInv
<1>2. Control'
  BY <1>1, StepsAre
<1>3. PICK v : v = View
  OBVIOUS
<1>4. PICK w : w = View'
  OBVIOUS
<1>5. ViewOf(v) /\ GivenAreCached(v)
  BY <1>1, <1>3, Zenon
<1>6. ViewOf(w) /\ GivenAreCached(w)
  <2>1. CASE Quiet
    <3>1. Same(v, w)
      BY <1>3, <1>4, <2>1, Zenon DEF Quiet
    <3> QED
      BY <1>5, <3>1, SameKeeps
  <2>2. CASE Joins
    <3>1. PICK r \in Readers : Joined(v, w, r)
      BY <1>3, <1>4, <2>2, Zenon DEF Joins
    <3> QED
      BY <1>5, <3>1, JoinedKeeps
  <2>3. CASE Produces
    <3>1. PICK new : Produced(v, w, new)
      BY <1>3, <1>4, <2>3, Zenon DEF Produces
    <3> QED
      BY <1>5, <3>1, ProducedKeeps
  <2>4. CASE Restarts
    <3>1. Restarted(v, w)
      BY <1>3, <1>4, <2>4, Zenon DEF Restarts
    <3> QED
      BY <1>5, <3>1, RestartedKeeps
  <2>5. CASE Clears
    <3>1. PICK gone : Cleared(v, w, gone)
      BY <1>3, <1>4, <2>5, Zenon DEF Clears
    <3> QED
      BY <1>5, <3>1, ClearedKeeps
  <2>6. CASE \E r \in Readers : \E batch : Gives(r, batch)
    <3>1. PICK r, batch : r \in Readers /\ (FetchedCached(v, w, r, batch) \/ \E parts : FetchedFresh(v, w, r, batch, parts))
      BY <1>3, <1>4, <2>6, Zenon DEF Gives
    <3> QED
      BY <1>5, <3>1, CachedTypes, FreshTypes
  <2> QED
    BY <1>1, <2>1, <2>2, <2>3, <2>4, <2>5, <2>6, StepsAre
<1>7. ViewOf(View') /\ GivenAreCached(View')
  BY <1>4, <1>6, Zenon
<1> QED
  BY <1>2, <1>7, PrimedViews, Zenon DEF BaseInv

LEMMA WholeStep ==
  ASSUME WholePrompts, WholeInv, [Next]_vars
  PROVE  WholeInv'
<1>1. Control /\ ViewOf(View) /\ GivenAreCached(View) /\ BatchesAreWhole(View)
  BY DEF BaseInv, WholeInv
<1>2. BaseInv'
  BY BaseStep DEF WholeInv
<1>3. PICK v : v = View
  OBVIOUS
<1>4. PICK w : w = View'
  OBVIOUS
<1>5. ViewOf(v) /\ GivenAreCached(v) /\ BatchesAreWhole(v)
  BY <1>1, <1>3, Zenon
<1>6. v.size = group_size
  BY <1>3, ViewHas, Zenon
<1>7. BatchesAreWhole(w)
  <2>1. CASE Quiet
    <3>1. Same(v, w)
      BY <1>3, <1>4, <2>1, Zenon DEF Quiet
    <3> QED
      BY <1>5, <3>1, SameKeeps
  <2>2. CASE Joins
    <3>1. PICK r \in Readers : Joined(v, w, r)
      BY <1>3, <1>4, <2>2, Zenon DEF Joins
    <3> QED
      BY <1>5, <3>1, JoinedKeeps
  <2>3. CASE Produces
    <3>1. PICK new : Produced(v, w, new) /\ IsWhole(new, v.size)
      BY <1>3, <1>4, <1>6, <2>3, Zenon DEF Produces
    <3> QED
      BY <1>5, <3>1, ProducedKeeps
  <2>4. CASE Restarts
    <3>1. Restarted(v, w)
      BY <1>3, <1>4, <2>4, Zenon DEF Restarts
    <3> QED
      BY <1>5, <3>1, RestartedKeeps
  <2>5. CASE Clears
    <3>1. PICK gone : Cleared(v, w, gone) /\ IsWhole(gone, v.size)
      BY <1>3, <1>4, <1>6, <2>5, Zenon DEF Clears
    <3> QED
      BY <1>5, <3>1, ClearedKeeps
  <2>6. CASE \E r \in Readers : \E batch : Gives(r, batch)
    <3>1. PICK r, batch : r \in Readers /\ (FetchedCached(v, w, r, batch) \/ \E parts : FetchedFresh(v, w, r, batch, parts))
      BY <1>3, <1>4, <2>6, Zenon DEF Gives
    <3> QED
      BY <1>5, <3>1, FetchKeepsWhole
  <2> QED
    BY <1>1, <2>1, <2>2, <2>3, <2>4, <2>5, <2>6, StepsAre
<1>8. BatchesAreWhole(View')
  BY <1>4, <1>7, Zenon
<1> QED
  BY <1>2, <1>8, PrimedViews, Zenon DEF WholeInv

(* What is to be got stays ready, if a step neither gives nor takes it.    *)
LEMMA ReadyStays ==
  ASSUME Control', GivenIsReady, NoNewData,
         \A r \in Readers : \A j \in DOMAIN reader[r].meta :
           reader[r].phase = "data" /\ reader[r].meta[j][1] \in ready => reader[r].meta[j][1] \in ready'
  PROVE  GivenIsReady'
<1>1. ASSUME NEW r \in Readers, NEW j \in DOMAIN reader'[r].meta PROVE reader'[r].meta[j][1] \in ready'
  <2>1. CASE reader'[r].phase # "data"
    <3>1. reader'[r].meta = << >>
      BY <2>1 DEF Control, IsReader
    <3>2. DOMAIN << >> = {}
      OBVIOUS
    <3> QED
      BY <1>1, <3>1, <3>2
  <2>2. CASE reader'[r].phase = "data"
    <3>1. reader'[r] = reader[r]
      BY <2>2 DEF NoNewData
    <3>2. reader[r].meta[j][1] \in ready
      BY <1>1, <3>1 DEF GivenIsReady
    <3> QED
      BY <1>1, <2>2, <3>1, <3>2
  <2> QED
    BY <2>1, <2>2
<1> QED
  BY <1>1 DEF GivenIsReady

LEMMA OwedStep ==
  ASSUME EagerClears = FALSE, OwedInv, [Next]_vars
  PROVE  OwedInv'
<1>1. Control /\ ViewOf(View) /\ GivenAreCached(View) /\ OwedAreKept(View) /\ GivenIsReady
  BY DEF BaseInv, OwedInv
<1>2. BaseInv' /\ Control'
  BY BaseStep DEF OwedInv, BaseInv
<1>3. PICK v : v = View
  OBVIOUS
<1>4. PICK w : w = View'
  OBVIOUS
<1>5. ViewOf(v) /\ GivenAreCached(v) /\ OwedAreKept(v)
  BY <1>1, <1>3, Zenon
<1>6. v.states = states /\ v.ready = ready /\ v.life = life
  BY <1>3, ViewHas, Zenon
<1>7. w.ready = ready'
  BY <1>4, ViewHasNext, Zenon
<1>8. OwedAreKept(w) /\ GivenIsReady'
  <2>1. CASE Quiet
    <3>1. Same(v, w) /\ NoNewData
      BY <1>3, <1>4, <2>1, Zenon DEF Quiet
    <3>2. ready' = ready
      BY <1>6, <1>7, <3>1 DEF Same
    <3> QED
      BY <1>1, <1>2, <1>5, <3>1, <3>2, SameKeeps, ReadyStays
  <2>2. CASE Joins
    <3>1. PICK r \in Readers : Joined(v, w, r) /\ NoNewData
      BY <1>3, <1>4, <2>2, Zenon DEF Joins
    <3>2. ready' = ready
      BY <1>6, <1>7, <3>1 DEF Joined
    <3> QED
      BY <1>1, <1>2, <1>5, <3>1, <3>2, JoinedKeeps, ReadyStays
  <2>3. CASE Produces
    <3>1. PICK new : Produced(v, w, new) /\ NoNewData
      BY <1>3, <1>4, <2>3, Zenon DEF Produces
    <3>2. ready \subseteq ready'
      BY <1>6, <1>7, <3>1 DEF Produced
    <3> QED
      BY <1>1, <1>2, <1>5, <3>1, <3>2, ProducedKeeps, ReadyStays
  <2>4. CASE Restarts
    <3>1. Restarted(v, w) /\ NoNewData /\ \A r \in Readers : reader[r].phase # "data"
      BY <1>3, <1>4, <2>4, Zenon DEF Restarts
    <3> QED
      BY <1>1, <1>2, <1>5, <3>1, RestartedKeeps, ReadyStays
  <2>5. CASE Clears
    <3>1. PICK gone : /\ Cleared(View, View', gone) /\ NoNewData /\ ready' = ready \ gone
                      /\ \A K \in DOMAIN states : IsOwed(View, K) => Range(states[K]) \cap gone = {}
                      /\ \A r \in Readers : \A j \in DOMAIN reader[r].meta : reader[r].meta[j][1] \notin gone
      BY <2>5 DEF Clears
    <3>2. Cleared(v, w, gone)
      BY <1>3, <1>4, <3>1, Zenon
    <3>3. \A K \in DOMAIN v.states : IsOwed(v, K) => Range(v.states[K]) \cap gone = {}
      BY <1>3, <1>6, <3>1, Zenon
    <3>4. GivenIsReady'
      BY <1>1, <1>2, <3>1, ReadyStays
    <3> QED
      BY <1>5, <3>2, <3>3, <3>4, DoneWithKeeps
  <2>6. CASE \E r \in Readers : \E batch : Gives(r, batch)
    <3>1. PICK r, batch : r \in Readers /\ Gives(r, batch)
      BY <2>6
    <3>2. FetchedCached(v, w, r, batch) \/ \E parts : FetchedFresh(v, w, r, batch, parts)
      BY <1>3, <1>4, <3>1, Zenon DEF Gives
    <3>3. OwedAreKept(w) /\ Range(batch) \subseteq ready
      BY <1>5, <1>6, <3>2, FetchKeepsOwed
    <3>4. batch \in Seq(Index) /\ reader'[r].meta = Named(v, batch) /\ ready' = ready
          /\ \A t \in Readers : t # r => reader'[t] = reader[t]
      BY <1>3, <3>1, Zenon DEF Gives
    <3>5. ASSUME NEW t \in Readers, NEW j \in DOMAIN reader'[t].meta PROVE reader'[t].meta[j][1] \in ready'
      <4>1. CASE t # r
        <5>1. reader'[t] = reader[t]
          BY <3>4, <4>1
        <5> QED
          BY <1>1, <3>4, <3>5, <5>1 DEF GivenIsReady
      <4>2. CASE t = r
        <5>1. v.life \in [Index -> Nat]
          BY <1>5 DEF ViewOf
        <5>2. PICK m : m = Named(v, batch)
          OBVIOUS
        <5>3. \A x \in Range(m) : x[1] \in Range(batch)
          BY <3>4, <5>1, <5>2, NamedIs
        <5>4. m[j] \in Range(m)
          BY <3>4, <3>5, <4>2, <5>2 DEF Range
        <5> QED
          BY <3>3, <3>4, <4>2, <5>2, <5>3, <5>4
      <4> QED
        BY <4>1, <4>2
    <3>6. GivenIsReady'
      BY <3>5 DEF GivenIsReady
    <3> QED
      BY <3>3, <3>6
  <2> QED
    BY <1>1, <2>1, <2>2, <2>3, <2>4, <2>5, <2>6, StepsAre
<1>9. OwedAreKept(View')
  BY <1>4, <1>8, Zenon
<1> QED
  BY <1>2, <1>8, <1>9, PrimedViews, Zenon DEF OwedInv

(* A fetch of a balanced batch, by a reader that no other is behind.       *)
LEMMA FetchInStep ==
  ASSUME NEW v, ViewOf(v), NEW w, NEW r, NEW batch, GivenAreCached(v), InStepView(v),
         FetchedCached(v, w, r, batch) \/ \E parts : FetchedFresh(v, w, r, batch, parts),
         v.kind = "seqlen" => \A s \in Readers : s \in v.current /\ Len(v.given[r]) <= Len(v.given[s])
  PROVE  InStepView(w)
<1>1. GivesOneMore(v, w, r, batch) /\ ViewOf(w) /\ Fetched(v, w, r, batch)
  BY CachedTypes, FreshTypes DEF FetchedCached, FetchedFresh
<1>2. w.kind = v.kind /\ w.current = v.current
  BY <1>1 DEF Fetched, SameSampler
<1>3. ASSUME NEW s \in Readers
      PROVE  Len(v.given[s]) \in Nat /\ Len(w.given[s]) \in Nat /\ Len(v.given[s]) <= Len(w.given[s])
  <2>1. PICK T : T = Seq(Samples)
    OBVIOUS
  <2>2. v.given[s] \in Seq(T) /\ w.given[s] \in Seq(T)
    BY <1>1, <2>1 DEF ViewOf
  <2>3. PICK m \in Nat : m = Len(v.given[s])
    BY <2>2
  <2>4. PICK n \in Nat : n = Len(w.given[s])
    BY <2>2
  <2>5. \A b \in 1..m : b \in 1..n
    BY <1>1, <2>3, <2>4 DEF GivesOneMore
  <2>6. m <= n
    <3>1. CASE m = 0
      BY <3>1
    <3>2. CASE m # 0
      <4>1. m \in 1..m
        BY <3>2
      <4> QED
        BY <2>5, <4>1
    <3> QED
      BY <3>1, <3>2
  <2> QED
    BY <2>3, <2>4, <2>6
<1>4. SUFFICES ASSUME v.kind = "seqlen", NEW K \in DOMAIN w.states, NEW s \in Readers
               PROVE  s \in w.current /\ K[2] <= Len(w.given[s])
  BY <1>2 DEF InStepView
<1>5. s \in w.current /\ Len(v.given[r]) <= Len(v.given[s])
  BY <1>2, <1>4
<1>6. r \in Readers
  BY <1>1 DEF GivesOneMore
<1>7. K[2] \in Nat
  BY <1>1, <1>4 DEF ViewOf
<1>8. K[2] <= Len(v.given[s])
  <2>1. CASE K \in DOMAIN v.states
    BY <1>4, <2>1 DEF InStepView
  <2>2. CASE K \notin DOMAIN v.states
    <3>1. PICK parts : FetchedFresh(v, w, r, batch, parts)
      BY <1>4, <2>2 DEF FetchedCached
    <3>2. K \in DOMAIN parts
      BY <1>4, <2>2, <3>1, FreshTypes
    <3>3. K \in Ranks \X {Len(v.given[r])}
      BY <1>4, <3>1, <3>2 DEF FetchedFresh
    <3> QED
      BY <1>5, <3>3
  <2> QED
    BY <2>1, <2>2
<1> QED
  BY <1>3, <1>5, <1>7, <1>8

(* Then no batch of an earlier fetch is still owed when one is drawn.      *)
LEMMA DrawnInStep ==
  ASSUME NEW v, ViewOf(v), NEW w, NEW r, NEW batch, NEW parts, FetchedFresh(v, w, r, batch, parts), InStepView(v),
         v.kind = "seqlen", \A s \in Readers : s \in v.current /\ Len(v.given[r]) <= Len(v.given[s]),
         NEW K \in DOMAIN v.states
  PROVE  ~IsOwed(v, K)
<1>1. PICK T : T = Seq(Samples)
  OBVIOUS
<1>2. v.given \in [Readers -> Seq(T)] /\ r \in Readers
  BY <1>1 DEF ViewOf, FetchedFresh, Fetched
<1>3. PICK n \in Nat : n = Len(v.given[r])
  BY <1>2
<1>4. K \in Ranks \X Nat /\ K[2] <= n
  BY <1>2, <1>3 DEF ViewOf, InStepView
<1>5. DOMAIN parts = Ranks \X {n} /\ \A L \in DOMAIN parts : L \notin DOMAIN v.states
  BY <1>3 DEF FetchedFresh
<1>6. K[2] # n
  <2> SUFFICES ASSUME K[2] = n PROVE FALSE
    OBVIOUS
  <2>1. K \in DOMAIN parts
    BY <1>4, <1>5
  <2> QED
    BY <1>5, <2>1
<1>7. K[2] \in Nat /\ K[2] < n
  BY <1>4, <1>6
<1>8. \A s \in Readers : Len(v.given[s]) \in Nat /\ n <= Len(v.given[s]) /\ s \in v.current
  BY <1>2, <1>3
<1> QED
  BY <1>7, <1>8 DEF IsOwed

LEMMA OnceStep ==
  ASSUME EagerClears = FALSE, ReadersInStep, OnceInv, [Next]_vars
  PROVE  OnceInv'
<1>1. Control /\ ViewOf(View) /\ GivenAreCached(View) /\ AreOnce(View) /\ InStepView(View)
  BY DEF BaseInv, OnceInv
<1>2. BaseInv'
  BY BaseStep DEF OnceInv
<1>3. PICK v : v = View
  OBVIOUS
<1>4. PICK w : w = View'
  OBVIOUS
<1>5. ViewOf(v) /\ GivenAreCached(v) /\ AreOnce(v) /\ InStepView(v)
  BY <1>1, <1>3, Zenon
<1>6. v.states = states /\ v.kind = kind /\ v.given = [s \in Readers |-> Given(s)] /\ v.current = Current
  BY <1>3, ViewHas, Zenon
<1>7. AreOnce(w) /\ InStepView(w)
  <2>1. CASE Quiet
    <3>1. Same(v, w)
      BY <1>3, <1>4, <2>1, Zenon DEF Quiet
    <3>2. InStepView(w)
      BY <1>5, <3>1 DEF InStepView, Same, SameSampler
    <3> QED
      BY <1>5, <3>1, <3>2, SameKeeps
  <2>2. CASE Joins
    <3>1. PICK r \in Readers : Joined(v, w, r)
      BY <1>3, <1>4, <2>2, Zenon DEF Joins
    <3>2. w.kind = v.kind /\ w.states = v.states /\ r \notin v.current
      BY <3>1 DEF Joined, SameSampler
    <3>3. InStepView(w)
      BY <1>5, <3>2 DEF InStepView
    <3> QED
      BY <1>5, <3>1, <3>3, JoinedKeeps
  <2>3. CASE Produces
    <3>1. PICK new : Produced(v, w, new)
      BY <1>3, <1>4, <2>3, Zenon DEF Produces
    <3>2. InStepView(w)
      BY <1>5, <3>1 DEF InStepView, Produced, SameSampler
    <3> QED
      BY <1>5, <3>1, <3>2, ProducedKeeps
  <2>4. CASE Restarts
    <3>1. Restarted(v, w)
      BY <1>3, <1>4, <2>4, Zenon DEF Restarts
    <3>2. InStepView(w)
      BY <3>1 DEF InStepView, Restarted
    <3> QED
      BY <1>5, <3>1, <3>2, RestartedKeeps
  <2>5. CASE Clears
    <3>1. PICK gone : /\ Cleared(View, View', gone)
                      /\ \A K \in DOMAIN states : IsOwed(View, K) => Range(states[K]) \cap gone = {}
      BY <2>5 DEF Clears
    <3>2. Cleared(v, w, gone)
      BY <1>3, <1>4, <3>1, Zenon
    <3>3. \A K \in DOMAIN v.states : IsOwed(v, K) => Range(v.states[K]) \cap gone = {}
      BY <1>3, <1>6, <3>1, Zenon
    <3>4. InStepView(w)
      BY <1>5, <3>2 DEF InStepView, Cleared, SameSampler
    <3> QED
      BY <1>5, <3>2, <3>3, <3>4, DoneWithKeeps
  <2>6. CASE \E r \in Readers : \E batch : Gives(r, batch)
    <3>1. PICK r, batch : r \in Readers /\ Gives(r, batch)
      BY <2>6
    <3>2. FetchedCached(v, w, r, batch) \/ \E parts : FetchedFresh(v, w, r, batch, parts)
      BY <1>3, <1>4, <3>1, Zenon DEF Gives
    <3>3. ASSUME v.kind = "seqlen", NEW s \in Readers
          PROVE  s \in v.current /\ Len(v.given[r]) <= Len(v.given[s])
      <4>1. Lockstep /\ kind = "seqlen"
        BY <1>1, <1>6, <3>3 DEF ReadersInStep, Control, kind
      <4>2. reader[s].epoch = epoch /\ Len(reader[s].buffer) >= Len(reader[r].buffer)
        BY <3>1, <4>1 DEF Gives, InStep
      <4>3. reader[r].phase # "data"
        BY <3>1 DEF Gives
      <4>4. Given(r) = reader[r].buffer
        BY <4>3 DEF Given
      <4>5. PICK T : T = Seq(Samples)
        OBVIOUS
      <4>6. reader[s].buffer \in Seq(T) /\ reader[s].meta \in T /\ Len(reader[r].buffer) \in Nat
        BY <1>1, <4>5, ReadersHave DEF IsReader
      <4>7. Len(reader[s].buffer) \in Nat /\ Len(Append(reader[s].buffer, reader[s].meta)) = Len(reader[s].buffer) + 1
        BY <4>6
      <4>8. Len(reader[r].buffer) <= Len(Given(s))
        BY <4>2, <4>6, <4>7 DEF Given
      <4>9. s \in Current
        BY <4>2 DEF Current
      <4>10. v.given[r] = Given(r) /\ v.given[s] = Given(s) /\ s \in v.current
        BY <1>6, <3>1, <4>9
      <4> QED
        BY <4>4, <4>8, <4>10
    <3>4. InStepView(w)
      BY <1>5, <3>2, <3>3, FetchInStep
    <3>5. AreOnce(w)
      <4>1. CASE FetchedCached(v, w, r, batch)
        BY <1>5, <4>1, CachedOnce
      <4>2. CASE \E parts : FetchedFresh(v, w, r, batch, parts)
        <5>1. PICK parts : FetchedFresh(v, w, r, batch, parts)
          BY <4>2
        <5>2. v.kind = "seqlen" => \A K \in DOMAIN v.states : ~IsOwed(v, K)
          BY <1>5, <3>3, <5>1, DrawnInStep
        <5> QED
          BY <1>5, <5>1, <5>2, FreshOnce
      <4> QED
        BY <3>2, <4>1, <4>2
    <3> QED
      BY <3>4, <3>5
  <2> QED
    BY <1>1, <2>1, <2>2, <2>3, <2>4, <2>5, <2>6, StepsAre
<1>8. AreOnce(View') /\ InStepView(View')
  BY <1>4, <1>7, Zenon
<1>9. InStepView(View)' <=> InStepView(View')
  BY Zenon DEF InStepView
<1> QED
  BY <1>2, <1>8, <1>9, PrimedViews, Zenon DEF OnceInv

(* The batches of a reader's buffer are of those it was given.             *)
LEMMA BufferedAreGiven ==
  ASSUME Control, ViewOf(View), NEW r \in Current, NEW b \in DOMAIN reader[r].buffer
  PROVE  /\ r \in Readers /\ r \in View.current /\ b \in Nat \ {0} /\ b \in 1..Len(View.given[r])
         /\ View.given[r][b] = reader[r].buffer[b] /\ View.dp[r] = reader[r].dp
<1>1. r \in Readers
  BY DEF Current
<1>2. PICK T : T = Seq(Samples)
  OBVIOUS
<1>3. PICK q, m : q = reader[r].buffer /\ m = reader[r].meta
  OBVIOUS
<1>4. q \in Seq(T) /\ m \in T
  BY <1>1, <1>2, <1>3, ReadersHave DEF IsReader
<1>5. b \in 1..Len(q) /\ Len(q) \in Nat
  BY <1>3, <1>4
<1>6. Given(r) = q \/ Given(r) = Append(q, m)
  BY <1>3 DEF Given
<1>7. Len(Append(q, m)) = Len(q) + 1 /\ Append(q, m)[b] = q[b]
  BY <1>4, <1>5
<1>8. b \in 1..Len(Given(r)) /\ Given(r)[b] = q[b]
  BY <1>5, <1>6, <1>7
<1>9. /\ View.current = Current /\ View.dp = [s \in Readers |-> reader[s].dp]
      /\ View.given = [s \in Readers |-> Given(s)]
  BY ViewHas, Zenon
<1>10. View.dp[r] = reader[r].dp /\ View.given[r] = Given(r)
  BY <1>1, <1>9
<1> QED
  BY <1>1, <1>3, <1>5, <1>8, <1>9, <1>10

LEMMA SameGroupFollows ==
  ASSUME BaseInv, OwedAreKept(View)
  PROVE  SameGroupSameData
<1>1. Control /\ ViewOf(View)
  BY DEF BaseInv
<1>2. ASSUME NEW r \in Current, NEW s \in Peers(r), NEW b \in DOMAIN reader[r].buffer \cap DOMAIN reader[s].buffer
      PROVE  reader[r].buffer[b] = reader[s].buffer[b]
  <2>1. s \in Current /\ reader[s].dp = reader[r].dp
    BY <1>2 DEF Peers
  <2>2. PICK v : v = View
    OBVIOUS
  <2>3. /\ r \in v.current /\ b \in 1..Len(v.given[r])
        /\ v.given[r][b] = reader[r].buffer[b] /\ v.dp[r] = reader[r].dp
    BY <1>1, <1>2, <2>2, BufferedAreGiven
  <2>4. /\ s \in v.current /\ b \in 1..Len(v.given[s])
        /\ v.given[s][b] = reader[s].buffer[b] /\ v.dp[s] = reader[s].dp
    BY <1>1, <1>2, <2>1, <2>2, BufferedAreGiven
  <2>5. OwedAreKept(v)
    BY <2>2, Zenon
  <2>6. v.given[r][b] = v.given[s][b]
    BY <2>1, <2>3, <2>4, <2>5 DEF OwedAreKept
  <2> QED
    BY <2>3, <2>4, <2>6
<1> QED
  BY <1>2 DEF SameGroupSameData

LEMMA NoSampleFollows ==
  ASSUME BaseInv, AreOnce(View)
  PROVE  NoSampleTwice
<1>1. Control /\ ViewOf(View)
  BY DEF BaseInv
<1>2. ASSUME NEW r \in Current, NEW s \in Current, NEW b \in DOMAIN reader[r].buffer, NEW c \in DOMAIN reader[s].buffer,
             b # c \/ reader[r].dp # reader[s].dp
      PROVE  Range(reader[r].buffer[b]) \cap Range(reader[s].buffer[c]) = {}
  <2>1. PICK v : v = View
    OBVIOUS
  <2>2. /\ r \in v.current /\ b \in 1..Len(v.given[r]) /\ b \in Nat
        /\ v.given[r][b] = reader[r].buffer[b] /\ v.dp[r] = reader[r].dp
    BY <1>1, <1>2, <2>1, BufferedAreGiven
  <2>3. /\ s \in v.current /\ c \in 1..Len(v.given[s]) /\ c \in Nat
        /\ v.given[s][c] = reader[s].buffer[c] /\ v.dp[s] = reader[s].dp
    BY <1>1, <1>2, <2>1, BufferedAreGiven
  <2>4. KeyIn(v, r, b) # KeyIn(v, s, c)
    BY <1>2, <2>2, <2>3 DEF KeyIn
  <2>5. GivenOnce(v)
    BY <2>1, Zenon DEF AreOnce
  <2>6. Range(v.given[r][b]) \cap Range(v.given[s][c]) = {}
    BY <2>2, <2>3, <2>4, <2>5 DEF GivenOnce
  <2> QED
    BY <2>2, <2>3, <2>6
<1> QED
  BY <1>2 DEF NoSampleTwice

LEMMA GroupsFollow ==
  ASSUME BaseInv, BatchesAreWhole(View)
  PROVE  GroupsStayTogether
<1>1. Control /\ ViewOf(View) /\ GivenAreCached(View)
  BY DEF BaseInv
<1>2. SUFFICES ASSUME kind \in {"grpo", "seqlen"}, NEW r \in Current, NEW b \in DOMAIN reader[r].buffer
               PROVE  \A i \in {x[1] : x \in Range(reader[r].buffer[b])} :
                        Prompt(i) \subseteq {x[1] : x \in Range(reader[r].buffer[b])}
  BY DEF GroupsStayTogether
<1>3. PICK v : v = View
  OBVIOUS
<1>4. /\ r \in v.current /\ b \in 1..Len(v.given[r]) /\ b \in Nat
      /\ v.given[r][b] = reader[r].buffer[b] /\ v.dp[r] = reader[r].dp
  BY <1>1, <1>2, <1>3, BufferedAreGiven
<1>5. ViewOf(v) /\ GivenAreCached(v) /\ BatchesAreWhole(v)
  BY <1>1, <1>3, Zenon
<1>6. v.kind = kind /\ v.size = group_size
  BY <1>3, ViewHas, Zenon
<1>7. PICK K : K = KeyIn(v, r, b)
  OBVIOUS
<1>8. PICK x, y : x = v.given[r][b] /\ y = v.states[K]
  OBVIOUS
<1>9. K \in DOMAIN v.states /\ SameRows(x, y)
  BY <1>2, <1>4, <1>5, <1>6, <1>7, <1>8 DEF GivenAreCached
<1>10. y \in Seq(Index) /\ IsWhole(Range(y), group_size)
  BY <1>2, <1>5, <1>6, <1>8, <1>9 DEF ViewOf, BatchesAreWhole
<1>11. x \in Seq(Samples)
  <2>1. PICK T : T = Seq(Samples)
    OBVIOUS
  <2>2. v.given \in [Readers -> Seq(T)] /\ v.current \subseteq Readers
    BY <1>5, <2>1 DEF ViewOf
  <2>3. v.given[r] \in Seq(T)
    BY <1>4, <2>2
  <2> QED
    BY <1>4, <1>8, <2>1, <2>3
<1>12. DOMAIN x = DOMAIN y /\ \A j \in DOMAIN y : x[j][1] = y[j]
  <2>1. Len(x) = Len(y) /\ \A j \in 1..Len(y) : x[j][1] = y[j]
    BY <1>9 DEF SameRows
  <2> QED
    BY <1>10, <1>11, <2>1
<1>13. {z[1] : z \in Range(x)} = Range(y)
  BY <1>12 DEF Range
<1>14. ASSUME NEW i \in Range(y) PROVE Prompt(i) \subseteq Range(y)
  <2>1. \A j \in Index : j \in Nat
    BY StreamingAssumption DEF Index
  <2> QED
    BY <1>10, <1>14, <2>1 DEF Prompt, IsWhole
<1> QED
  BY <1>4, <1>8, <1>13, <1>14

-----------------------------------------------------------------------------
(* The balanced batches that are kept.                                     *)

BalancedAreFair == \A b \in DOMAIN balanced : IsFair(balanced[b], group_size, DpSize, Length)

FairInv == WholeInv /\ BalancedAreFair

(* What is left to draw from is of whole prompts.                          *)
LEMMA UnreadIsWhole ==
  ASSUME WholeInv, kind \in {"grpo", "seqlen"}
  PROVE  IsWhole(Unread, group_size)
<1>1. PICK v : v = View
  OBVIOUS
<1>2. ViewOf(v) /\ BatchesAreWhole(v)
  BY <1>1, Zenon DEF WholeInv, BaseInv
<1>3. v.kind = kind /\ v.size = group_size /\ v.ready = ready /\ v.consumed = consumed
  BY <1>1, ViewHas, Zenon
<1>4. ready \in SUBSET Nat /\ consumed \in SUBSET Nat
  BY <1>2, <1>3, IndexesAre DEF ViewOf
<1>5. IsWhole(ready, group_size) /\ IsWhole(consumed, group_size)
  BY <1>2, <1>3 DEF BatchesAreWhole
<1> QED
  BY <1>4, <1>5, WholeSets DEF Unread

(* A fetch leaves them alone or adds one that is fair.                     *)
LEMMA FetchBalances ==
  ASSUME WholeInv, NEW r \in Readers, Fetch(r)
  PROVE  \/ balanced' = balanced
         \/ \E n, d : /\ balanced' = With(balanced, [k \in {n} |-> d])
                       /\ IsFair(d, group_size, DpSize, Length)
<1>1. Control /\ ViewOf(View)
  BY DEF WholeInv, BaseInv
<1>2. reader[r].dp \in Ranks /\ Len(reader[r].buffer) \in Nat
  BY <1>1, ReadersHave
<1>3. CASE Cardinality(Unread) >= batch_size \/ (polling_mode /\ HasCached(r))
  <2>1. Answer(r)
    BY <1>3 DEF Fetch
  <2>2. PICK s : s = Sample(r)
    OBVIOUS
  <2>3. CASE s.batch = << >>
    BY <2>1, <2>2, <2>3 DEF Answer
  <2>4. CASE s.batch # << >>
    <3>1. balanced' = s.balanced
      BY <2>1, <2>2, <2>4 DEF Answer
    <3>2. AnswersCached(r, s) \/ \E parts : AnswersFresh(r, s, parts)
      BY <1>1, <1>2, <2>2, <2>4, SampleIs
    <3>3. CASE AnswersCached(r, s)
      BY <3>1, <3>3 DEF AnswersCached
    <3>4. CASE \E parts : AnswersFresh(r, s, parts)
      <4>1. CASE kind # "seqlen"
        BY <3>1, <3>4, <4>1 DEF AnswersFresh
      <4>2. CASE kind = "seqlen"
        <5>1. IsWhole(Unread, group_size)
          BY <4>2, UnreadIsWhole
        <5>2. PICK d : /\ s.balanced = With(balanced, [k \in {Len(reader[r].buffer)} |-> d])
                       /\ IsWhole(Unread, group_size) => IsFair(d, group_size, DpSize, Length)
          BY <3>4, <4>2 DEF AnswersFresh
        <5> QED
          BY <3>1, <5>1, <5>2
      <4> QED
        BY <4>1, <4>2
    <3> QED
      BY <3>2, <3>3, <3>4
  <2> QED
    BY <2>3, <2>4
<1>4. CASE ~(Cardinality(Unread) >= batch_size \/ (polling_mode /\ HasCached(r)))
  BY <1>4 DEF Fetch
<1> QED
  BY <1>3, <1>4

(* What no fetch does leaves them alone or forgets them.                   *)
LEMMA StepBalances ==
  ASSUME WholeInv, [Next]_vars
  PROVE  /\ sampling' = sampling
         /\ \/ balanced' = balanced
            \/ balanced' = << >>
            \/ \E n, d : /\ balanced' = With(balanced, [k \in {n} |-> d])
                          /\ IsFair(d, group_size, DpSize, Length)
<1>1. ASSUME NEW r \in Readers, Fetch(r) PROVE sampling' = sampling
  BY <1>1 DEF Fetch, settings
<1>2. ASSUME NEW r \in Readers, Stop(r) \/ Yield(r) \/ GetData(r) \/ Step(r) \/ WaitEnds(r) \/ Reset(r)
      PROVE  sampling' = sampling /\ balanced' = balanced
  BY <1>2 DEF Stop, Yield, GetData, Step, WaitEnds, Reset, settings, controllerVars
<1>3. Produce => sampling' = sampling /\ balanced' = balanced
  BY DEF Produce, settings
<1>4. ClearPartition => sampling' = sampling /\ balanced' = << >>
  BY DEF ClearPartition, ClearCache, settings
<1>5. ClearSamples => sampling' = sampling /\ balanced' = balanced
  BY DEF ClearSamples, settings
<1>6. UNCHANGED vars => sampling' = sampling /\ balanced' = balanced
  BY DEF vars, settings, controllerVars
<1> QED
  BY <1>1, <1>2, <1>3, <1>4, <1>5, <1>6, FetchBalances DEF Next, ReaderStep

LEMMA FairStep ==
  ASSUME WholePrompts, FairInv, [Next]_vars
  PROVE  FairInv'
<1>1. WholeInv /\ BalancedAreFair
  BY DEF FairInv
<1>2. WholeInv'
  BY <1>1, WholeStep
<1>3. group_size' = group_size
  BY <1>1, StepBalances DEF group_size
<1>4. ASSUME NEW b \in DOMAIN balanced'
      PROVE  IsFair(balanced'[b], group_size, DpSize, Length)
  <2>1. CASE balanced' = balanced
    BY <1>1, <1>4, <2>1 DEF BalancedAreFair
  <2>2. CASE balanced' = << >>
    BY <1>4, <2>2
  <2>3. CASE \E n, d : /\ balanced' = With(balanced, [k \in {n} |-> d])
                       /\ IsFair(d, group_size, DpSize, Length)
    <3>1. PICK n, d : /\ balanced' = With(balanced, [k \in {n} |-> d])
                      /\ IsFair(d, group_size, DpSize, Length)
      BY <2>3
    <3>2. \/ b \in DOMAIN balanced /\ balanced'[b] = balanced[b]
          \/ balanced'[b] = d
      BY <1>4, <3>1 DEF With
    <3> QED
      BY <1>1, <3>1, <3>2 DEF BalancedAreFair
  <2> QED
    BY <1>1, <2>1, <2>2, <2>3, StepBalances
<1>5. BalancedAreFair'
  BY <1>3, <1>4 DEF BalancedAreFair
<1> QED
  BY <1>2, <1>5 DEF FairInv

LEMMA FairFollows ==
  ASSUME BalancedAreFair
  PROVE  BatchesAreFair
<1> SUFFICES ASSUME NEW b \in DOMAIN balanced, NEW d \in 0..(DpSize - 1), NEW e \in 0..(DpSize - 1)
             PROVE  /\ Len(balanced[b][d]) = Len(balanced[b][e])
                    /\ \E s \in Rounds(SumsOf(balanced[b], group_size, DpSize, Length), DpSize) :
                         Total(balanced[b], d, Length) - Total(balanced[b], e, Length) <= Spread(s)
  BY DEF BatchesAreFair, SumsOf, Firsts, Total
<1>1. IsFair(balanced[b], group_size, DpSize, Length)
  BY DEF BalancedAreFair
<1> QED
  BY <1>1 DEF IsFair

-----------------------------------------------------------------------------
(* Always: the readers and the sampler's cache are well formed, and what   *)
(* a reader was given is what the cache has for its group                  *)
(* (sampler/rank_aware_sampler.py, grpo_group_n_sampler.py,                *)
(* seqlen_balanced_sampler.py: _states).                                   *)
THEOREM CachedAlways == Spec => []BaseInv
<1>1. Init => BaseInv
  BY FirstView
<1>2. BaseInv /\ [Next]_vars => BaseInv'
  BY BaseStep
<1> QED
  BY <1>1, <1>2, PTL DEF Spec

(* If the samples of a prompt become ready and are cleared together, every *)
(* batch of the GRPO and of the balanced sampler has all of each of its    *)
(* prompts: what consecutive runs of the samplers find, what the greedy    *)
(* and the Karmarkar-Karp rounds make of it, and what stays in the cache.  *)
THEOREM TogetherAlways ==
  ASSUME WholePrompts
  PROVE  Spec => []GroupsStayTogether
<1>1. Init => WholeInv
  BY FirstView DEF WholeInv
<1>2. WholeInv /\ [Next]_vars => WholeInv'
  BY WholeStep
<1>3. WholeInv => GroupsStayTogether
  BY GroupsFollow DEF WholeInv
<1> QED
  BY <1>1, <1>2, <1>3, PTL DEF Spec

(* If samples are cleared only when all who share their batch have it, the *)
(* readers of a group have the same samples in each of their batches.      *)
THEOREM SameDataAlways ==
  ASSUME EagerClears = FALSE
  PROVE  Spec => []SameGroupSameData
<1>1. Init => OwedInv
  BY FirstView DEF OwedInv
<1>2. OwedInv /\ [Next]_vars => OwedInv'
  BY OwedStep
<1>3. OwedInv => SameGroupSameData
  BY SameGroupFollows DEF OwedInv
<1> QED
  BY <1>1, <1>2, <1>3, PTL DEF Spec

(* If samples are cleared only when all who share their batch have it,     *)
(* what a reader fetches is ready, whether the samplers draw it afresh or  *)
(* have it cached for the reader's group.                                  *)
THEOREM ReadyAlways ==
  ASSUME EagerClears = FALSE
  PROVE  Spec => []GivenIsReady
<1>1. Init => OwedInv
  BY FirstView DEF OwedInv
<1>2. OwedInv /\ [Next]_vars => OwedInv'
  BY OwedStep
<1>3. OwedInv => GivenIsReady
  BY DEF OwedInv
<1> QED
  BY <1>1, <1>2, <1>3, PTL DEF Spec

(* If samples are cleared only when all who share their batch have it, and *)
(* the readers of a balanced batch all fetch it before any fetches the     *)
(* next, no sample is in two batches.                                      *)
THEOREM OnceAlways ==
  ASSUME EagerClears = FALSE, ReadersInStep
  PROVE  Spec => []NoSampleTwice
<1>1. Init => OnceInv
  BY FirstView DEF OnceInv
<1>2. OnceInv /\ [Next]_vars => OnceInv'
  BY OnceStep
<1>3. OnceInv => NoSampleTwice
  BY NoSampleFollows DEF OnceInv
<1> QED
  BY <1>1, <1>2, <1>3, PTL DEF Spec

(* If the samples of a prompt become ready and are cleared together, every *)
(* batch the balanced sampler keeps gives its ranks as many samples each,  *)
(* and no rank's total length is above another's by more than the prompts  *)
(* of one of the Karmarkar-Karp rounds differ in length.                   *)
THEOREM FairAlways ==
  ASSUME WholePrompts
  PROVE  Spec => []BatchesAreFair
<1>1. Init => FairInv
  <2>1. ASSUME Init PROVE BalancedAreFair
    <3>1. DOMAIN balanced = {}
      BY <2>1 DEF Init
    <3> QED
      BY <3>1 DEF BalancedAreFair
  <2> QED
    BY <2>1, FirstView DEF FairInv, WholeInv
<1>2. FairInv /\ [Next]_vars => FairInv'
  BY FairStep
<1>3. FairInv => BatchesAreFair
  BY FairFollows DEF FairInv
<1> QED
  BY <1>1, <1>2, <1>3, PTL DEF Spec
=============================================================================
