------------------------------ MODULE FieldMeta ------------------------------
(***************************************************************************)
(* What the controller keeps of one field of a partition (controller.py,   *)
(* FieldMeta): one shape for all the rows that hold the field, or one for  *)
(* each when they differ, adjusted as rows are written, written again and  *)
(* removed.  Readers of the key-value backends allocate what they read     *)
(* into by it.  The operations are operators on records; the controller    *)
(* serves one request at a time.                                           *)
(*                                                                         *)
(* per_sample_shapes is a function of the rows' global indexes here, and   *)
(* a list in a batch; a record that describes no row is dropped.           *)
(***************************************************************************)
EXTENDS BatchMeta

CONSTANT NoDtype      \* None for a dtype

NewField(rows, dtype, shape, nested, list, shapes) ==
  [global_indexes |-> rows, dtype |-> dtype, shape |-> shape, is_nested |-> nested,
   is_non_tensor |-> list, per_sample_shapes |-> shapes]

NoField == NewField({}, NoDtype, NoShape, FALSE, FALSE, <<>>)

(* notify_data_update: the list of a batch, as a dictionary of its rows.   *)
ByRow(globals, list) ==
  [g \in Range(globals) |->
     list[CHOOSE i \in DOMAIN globals :
            globals[i] = g /\ \A j \in DOMAIN globals : globals[j] = g => j <= i]]

Normalized(globals, meta) ==
  IF meta.per_sample_shapes = <<>> THEN meta
  ELSE [meta EXCEPT !.per_sample_shapes = ByRow(globals, @)]

-----------------------------------------------------------------------------
(* A write is noted.  A different dtype is refused before, and a nested    *)
(* column for a field that has no shape to spread raises.                  *)
NoteAccepts(m, meta) ==
  m.global_indexes # {} =>
    /\ NoDtype \in {m.dtype, meta.dtype} \/ m.dtype = meta.dtype
    /\ ~(meta.is_nested /\ ~m.is_nested /\ m.shape = NoShape)

(* The shapes of the rows, when one shape stood for all.                   *)
SpreadOut(m) ==
  IF m.is_nested THEN m.per_sample_shapes
  ELSE Overlay(m.per_sample_shapes, [g \in m.global_indexes |-> m.shape])

(* From one shape to one for each row, of which new ones.                  *)
Nested(m, new) ==
  NewField(m.global_indexes, m.dtype, IF m.is_nested THEN m.shape ELSE NoShape, TRUE,
           m.is_non_tensor, Overlay(SpreadOut(m), new))

Reshaped(m, meta, rows) ==
  IF meta.is_nested THEN Nested(m, meta.per_sample_shapes)
  ELSE IF ~meta.is_non_tensor
          /\ (m.is_nested \/ (~m.is_non_tensor /\ m.shape # meta.shape))
  THEN Nested(m, [g \in rows |-> meta.shape])
  ELSE m

Noted(m, meta, rows) ==
  IF m.global_indexes = {}
  THEN NewField(rows, meta.dtype, meta.shape, meta.is_nested, meta.is_non_tensor,
                meta.per_sample_shapes)
  ELSE LET r == Reshaped(m, meta, rows)
       IN  NewField(m.global_indexes \cup rows, IF m.dtype = NoDtype THEN meta.dtype ELSE m.dtype,
                    r.shape, r.is_nested, r.is_non_tensor, r.per_sample_shapes)

-----------------------------------------------------------------------------
(* Rows are released, or lose the field; the shapes that are left may be   *)
(* one again.                                                              *)
Without(m, rows) ==
  LET left   == m.global_indexes \ rows
      shapes == [g \in DOMAIN m.per_sample_shapes \ rows |-> m.per_sample_shapes[g]]
      kinds  == {shapes[g] : g \in DOMAIN shapes}
  IN  IF left = {} THEN NoField
      ELSE IF m.is_nested /\ \E s \in kinds : kinds = {s}
      THEN NewField(left, m.dtype, CHOOSE s \in kinds : TRUE, FALSE, m.is_non_tensor, <<>>)
      ELSE NewField(left, m.dtype, m.shape, m.is_nested, m.is_non_tensor, shapes)

(* The field of a batch that is fetched.                                   *)
ToBatchSchema(m, globals) ==
  [dtype |-> m.dtype, shape |-> m.shape, is_nested |-> m.is_nested,
   is_non_tensor |-> m.is_non_tensor,
   per_sample_shapes |->
     IF m.is_nested /\ DOMAIN m.per_sample_shapes # {}
     THEN [i \in DOMAIN globals |->
             IF globals[i] \in DOMAIN m.per_sample_shapes
             THEN m.per_sample_shapes[globals[i]] ELSE NoShape]
     ELSE <<>>]

-----------------------------------------------------------------------------
(* After a partial update each unit describes the rows it holds: their     *)
(* shapes by row and their dtype, or that some is no tensor.               *)
UpdateSchema(globals, described) ==
  LET shapes  == [g \in Range(globals) |->
                    LET k == CHOOSE k \in DOMAIN described : g \in DOMAIN described[k].shapes
                    IN  described[k].shapes[g]]
      ordered == [i \in DOMAIN globals |-> shapes[globals[i]]]
      nested  == \E i, j \in DOMAIN ordered : ordered[i] # ordered[j]
  IN  IF \E k \in DOMAIN described : described[k].is_non_tensor
      THEN [dtype |-> NoDtype, shape |-> NoShape, is_nested |-> FALSE, is_non_tensor |-> TRUE,
            per_sample_shapes |-> <<>>]
      ELSE [dtype |-> described[Len(described)].dtype,
            shape |-> IF nested THEN NoShape ELSE ordered[1],
            is_nested |-> nested, is_non_tensor |-> FALSE,
            per_sample_shapes |-> IF nested THEN ordered ELSE <<>>]

-----------------------------------------------------------------------------
(* What m should say: the shape that each row was told last, and of rows   *)
(* that are no tensors nothing.                                            *)
Describes(m, told) ==
  /\ m.global_indexes = DOMAIN told
  /\ \A g \in DOMAIN told : m.is_non_tensor <=> told[g] = NoShape
  /\ IF m.is_nested
     THEN ~m.is_non_tensor /\ m.per_sample_shapes = told
     ELSE DOMAIN m.per_sample_shapes = {} /\ \A g \in DOMAIN told : told[g] = m.shape

(* What a write tells of its rows.                                         *)
Told(meta, rows) ==
  IF meta.is_nested THEN meta.per_sample_shapes ELSE [g \in rows |-> meta.shape]

(* A description that tells every row's shape, of a field of m's kind.     *)
Fitting(m, meta, rows) ==
  /\ m.global_indexes # {} => meta.is_non_tensor = m.is_non_tensor
  /\ \A g \in rows : meta.is_non_tensor <=> Told(meta, rows)[g] = NoShape
  /\ IF meta.is_nested
     THEN ~meta.is_non_tensor /\ DOMAIN meta.per_sample_shapes = rows
     ELSE DOMAIN meta.per_sample_shapes = {}
=============================================================================
