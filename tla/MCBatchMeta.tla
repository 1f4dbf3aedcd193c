----------------------------- MODULE MCBatchMeta -----------------------------
(***************************************************************************)
(* BatchMeta's operators against what they mean for rows, for every batch  *)
(* of at most three rows of two partitions and one or two fields.          *)
(***************************************************************************)
EXTENDS BatchMeta

Rows(b) == [i \in 1..Size(b) |-> Row(b, i)]

(* Shapes of rows: two, so that a field can have equal or different ones.   *)
Short == <<1>>
Long  == <<2>>

ColumnsOf(n) ==
  [kind : {"nested"}, dtype : {"f"}, shapes : [1..n -> {Short, Long}]]
    \cup {[kind |-> "dense", dtype |-> "f", shapes |-> [i \in 1..n |-> s]] :
            s \in {<<>>, Short, Long}}
    \cup {[kind |-> "list", dtype |-> "f", shapes |-> [i \in 1..n |-> NoShape]]}

(* Batches as put makes them: rows first + 1, ..., first + n, each with    *)
(* its own tags, field x and perhaps y.                                    *)
Made(first, n, parts, ready, columns) ==
  LET bare == NewBatch([i \in 1..n |-> first + i], parts, <<>>,
                       [i \in 1..n |-> 0], <<>>, [i \in 1..n |-> <<>>],
                       [i \in 1..n |->
                          [f \in DOMAIN columns \cup {"_"} |-> first + i]])
      told == UpdateCustomMeta(bare, [i \in 1..n |-> [tag |-> first + i]])
      full == AddFields(told, n, columns)
  IN  IF ready \/ n = 0 THEN full
      ELSE ApplyFieldSchema([full EXCEPT !.production_status[1] = 0], <<>>, FALSE)

OneField(n) == {[x |-> c] : c \in ColumnsOf(n)}
TwoFields(n) ==
  {[x |-> [kind |-> "nested", dtype |-> "f",
           shapes |-> [i \in 1..n |-> IF i = 1 THEN Short ELSE Long]],
    y |-> c] : c \in ColumnsOf(n)}

SmallBatches ==
  UNION {{Made(10, n, parts, ready, columns) :
            parts \in [1..n -> {"p", "q"}], ready \in BOOLEAN,
            columns \in OneField(n) \cup TwoFields(n)} : n \in 0..3}

RowLists(n, m) == UNION {[1..k -> 1..n] : k \in 0..m}

(* What put records of a column is what it holds, row by row, but for the   *)
(* added dimension of a column of numbers.                                 *)
ASSUME ExtractionKeepsShapes ==
  \A n \in 1..3 : \A column \in ColumnsOf(n) :
    LET b == Made(0, n, [i \in 1..n |-> "p"], TRUE, [x |-> column])
    IN  \A i \in 1..n : GetShapes(b, "x")[i] =
          IF column.shapes[i] = <<>> THEN <<1>> ELSE column.shapes[i]

(* Selected rows are the rows selected, whatever the order and repetition. *)
ASSUME SelectionKeepsRows ==
  \A b \in SmallBatches : \A idx \in RowLists(Size(b), Size(b)) :
    LET r == SelectSamples(b, idx)
    IN  IsBatch(r) /\ Rows(r) = [i \in DOMAIN idx |-> Row(b, idx[i])]

(* Reordering permutes the rows and leaves the batch as ready as it was.    *)
ASSUME ReorderingPermutesRows ==
  \A b \in SmallBatches : \A idx \in RowLists(Size(b), Size(b)) :
    ReorderAccepts(b, idx) =>
      LET r == Reorder(b, idx)
      IN  IsBatch(r) /\ Rows(r) = [i \in DOMAIN idx |-> Row(b, idx[i])]

(* Chunks put together again are the batch, and differ by one row at most. *)
ASSUME ChunksAreTheBatch ==
  \A b \in SmallBatches : \A c \in 1..4 :
    LET chunks == Chunk(b, c)
        again  == Concat(chunks)
    IN  /\ \A i, j \in 1..c : Size(chunks[i]) <= Size(chunks[j]) + 1
        /\ ConcatAccepts(chunks)
        /\ IsBatch(again)
        /\ Size(b) > 0 => Rows(again) = Rows(b) /\ again.is_ready = b.is_ready

(* Chunks by partition hold every row once, in the rows' order; the tags    *)
(* sent to the controller are those of the rows.                           *)
ASSUME PartitionsAreSeparated ==
  \A b \in SmallBatches :
    LET chunks == ChunkByPartition(b)
        tags   == PartitionCustomMeta(b)
    IN  /\ Size(Concat(chunks)) = Size(b)
        /\ \A i \in 1..Size(b) :
             tags[b.partition_ids[i]][b.global_indexes[i]] = b.custom_meta[i]
        /\ \A k \in DOMAIN chunks :
             /\ Cardinality(Range(chunks[k].partition_ids)) = 1
             /\ \A i, j \in 1..Size(chunks[k]) : i < j =>
                  chunks[k].global_indexes[i] < chunks[k].global_indexes[j]
             /\ Range(Rows(chunks[k])) \subseteq Range(Rows(b))

(* Concatenated rows are the batches' rows in turn when a field that is     *)
(* dense in all of them has the same shape in all.                         *)
Pieces ==
  UNION {{Made(first, n, [i \in 1..n |-> "p"], TRUE, columns) :
            columns \in OneField(n)} : first \in {0, 10}, n \in 0..2}

ShapesAgree(data) ==
  \A i, j \in DOMAIN data : Size(data[i]) > 0 /\ Size(data[j]) > 0 =>
    LET m == data[i].field_schema.x
        o == data[j].field_schema.x
    IN  (m.is_nested \/ o.is_nested) \/ m.shape = o.shape

Bare(row) == [row EXCEPT !.fields = [x |-> row.fields.x.shape]]

ASSUME ConcatenationKeepsRows ==
  \A one, other \in Pieces :
    ConcatAccepts(<<one, other>>) /\ ShapesAgree(<<one, other>>) =>
      LET r == Concat(<<one, other>>)
      IN  /\ IsBatch(r)
          /\ \A f \in DOMAIN r.field_schema :
               r.field_schema[f].is_nested =
                 \E b \in Range(NonEmpty(<<one, other>>)) : b.field_schema[f].is_nested
          /\ \A i \in 1..Size(r) :
               Bare(Row(r, i)) =
                 IF i <= Size(one) THEN Bare(Row(one, i))
                 ELSE Bare(Row(other, i - Size(one)))

(* Without that condition the later rows get the first batch's shape.       *)
ASSUME FirstShapeWins ==
  \E one, other \in Pieces :
    /\ ConcatAccepts(<<one, other>>)
    /\ GetShapes(Concat(<<one, other>>), "x") #
         GetShapes(one, "x") \o GetShapes(other, "x")

(* A union has the fields of both, ready only where both are.               *)
ASSUME UnionHasBoth ==
  \A b \in {x \in SmallBatches : Size(x) = 2}, ready \in BOOLEAN, column \in ColumnsOf(2) :
    LET other == Made(10, 2, b.partition_ids, ready, [z |-> column])
        r == Union(b, other)
    IN  /\ UnionAccepts(b, other) /\ IsBatch(r)
        /\ r.is_ready = (b.is_ready /\ other.is_ready)
        /\ SelectFields(r, DOMAIN b.field_schema, {"_"}).field_schema = b.field_schema
        /\ SelectFields(r, {"z"}, {"_"}).field_schema = other.field_schema

-----------------------------------------------------------------------------
Keys == {"k", "l", "m"}

KVBatches ==
  UNION {{NewKVBatch(keys, [i \in 1..n |-> [of |-> keys[i]]], "p", {"x"}, [e |-> 1]) :
            keys \in {s \in [1..n -> Keys] : IsInjective(s)}} : n \in 0..3}

(* The tags go with their keys.                                             *)
TagsFollow(b) ==
  KVAccepts(b.keys, b.tags) /\ \A i \in DOMAIN b.keys : b.tags[i].of = b.keys[i]

(* Selection, reordering by positions and chunking keep keys and tags       *)
(* together; chunks put together again are the batch.                       *)
ASSUME TagsStayWithKeys ==
  \A b \in KVBatches :
    /\ \A keys \in UNION {[1..n -> Keys] : n \in 0..2} :
         SelectKeysAccepts(b, keys) =>
           SelectKeys(b, keys).keys = keys /\ TagsFollow(SelectKeys(b, keys))
    /\ \A c \in 1..4 :
         /\ \A i \in 1..c : TagsFollow(KVChunk(b, c)[i])
         /\ KVConcatAccepts(KVChunk(b, c))
         /\ Len(b.keys) > 0 => KVConcat(KVChunk(b, c)) = b
    /\ \A indexes \in [DOMAIN b.keys -> 0..2] :
         KVReorderAccepts(b, indexes) =>
           /\ TagsFollow(KVReorder(b, indexes))
           /\ Range(KVReorder(b, indexes).keys) = Range(b.keys)

(* Indexes below 0 pass the test for duplicates and may name a key twice.   *)
ASSUME NegativeIndexesLoseKeys ==
  \E b \in KVBatches : \E indexes \in [DOMAIN b.keys -> -3..2] :
    /\ KVReorderAccepts(b, indexes)
    /\ Range(KVReorder(b, indexes).keys) # Range(b.keys)
=============================================================================
