----------------------------- MODULE MCFieldMeta -----------------------------
(***************************************************************************)
(* FieldMeta's operators over every history of three writes and removals   *)
(* of three rows, with two shapes, and over two units' answers.            *)
(***************************************************************************)
EXTENDS FieldMeta

FieldRows  == 1..3
RowShapes  == {<<1>>, <<2>>}
SomeRows   == SUBSET FieldRows \ {{}}

(* Rows in order, and the columns that a put of them may bring: the        *)
(* description put makes of them.                                          *)
InRowOrder(rows) == SetToSortSeq(rows, <)

Columns(n) ==
  [kind : {"nested"}, dtype : {"f"}, shapes : [1..n -> RowShapes]]
    \cup {[kind |-> "dense", dtype |-> "f", shapes |-> [i \in 1..n |-> s]] : s \in RowShapes}

Lists(n) == {[kind |-> "list", dtype |-> NoDtype, shapes |-> [i \in 1..n |-> NoShape]]}

Written(rows, column) ==
  Normalized(InRowOrder(rows), ExtractFieldSchema(Cardinality(rows), [x |-> column]).x)

Writes == UNION {[rows : {R}, meta : {Written(R, c) : c \in Columns(Cardinality(R))}] : R \in SomeRows}
ListWrites == UNION {[rows : {R}, meta : {Written(R, c) : c \in Lists(Cardinality(R))}] : R \in SomeRows}
Removals == [rows : SomeRows, meta : {<<>>}]

Did(op, m)   == IF op.meta = <<>> THEN Without(m, op.rows) ELSE Noted(m, op.meta, op.rows)
Knew(op, told) ==
  IF op.meta = <<>> THEN [g \in DOMAIN told \ op.rows |-> told[g]]
  ELSE Overlay(told, Told(op.meta, op.rows))

(* Whatever is written, in whatever shapes, and removed, a batch that is   *)
(* fetched gives each of its rows the shape that was written last.         *)
ASSUME HistoriesAreDescribed ==
  \A ops \in {Writes \cup Removals, ListWrites \cup Removals} : \A a, b, c \in ops :
    LET m    == Did(c, Did(b, Did(a, NoField)))
        told == Knew(c, Knew(b, Knew(a, <<>>)))
    IN  /\ \A d \in {a, b, c} \ Removals : Fitting(NoField, d.meta, d.rows)
        /\ Describes(m, told)
        /\ \A globals \in {InRowOrder(DOMAIN told), Reverse(InRowOrder(DOMAIN told))} :
             \A i \in DOMAIN globals :
               ShapeAt(ToBatchSchema(m, globals), i) = told[globals[i]]

(* What two units answer of an update's rows, and which of them, tells the *)
(* shape of each.                                                          *)
ASSUME UpdatesAreDescribed ==
  \A rows \in SomeRows : \A first \in SUBSET rows : \A told \in [rows -> RowShapes] :
    LET part(R)   == [is_non_tensor |-> FALSE, dtype |-> "f", shapes |-> [g \in R |-> told[g]]]
        described == <<part(first), part(rows \ first)>>
        globals   == Reverse(InRowOrder(rows))
        meta      == Normalized(globals, UpdateSchema(globals, described))
    IN  Fitting(NoField, meta, rows) /\ Told(meta, rows) = told

(* A tensor in a field of lists is told no shape; after one in a field of  *)
(* tensors, a list is told theirs; a nested column in a field of lists     *)
(* raises when the rows are ready already.  Only a partial update compares *)
(* the kinds (validate_field_schema).                                      *)
ASSUME KindsAreNotMixedByPut ==
  \A w \in Writes, l \in ListWrites :
    /\ NoteAccepts(Noted(NoField, l.meta, l.rows), w.meta) <=> ~w.meta.is_nested
    /\ ~w.meta.is_nested =>
         Noted(Noted(NoField, l.meta, l.rows), w.meta, w.rows).shape = NoShape
    /\ w.meta.is_nested \/ \A i \in l.rows :
         ShapeAt(ToBatchSchema(Noted(Noted(NoField, w.meta, w.rows), l.meta, l.rows), <<i>>), 1) # NoShape
=============================================================================
