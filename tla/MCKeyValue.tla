----------------------------- MODULE MCKeyValue -----------------------------
(* Small instances of KeyValue. *)
EXTENDS KeyValue, TLC

(* Two keys on two units, or one key written more often.                   *)
TwoKeysOrMoreWrites ==
  {[units |-> 2, attempts |-> 2, writes |-> 2, keys |-> 2],
   [units |-> 1, attempts |-> 2, writes |-> 4, keys |-> 1]}

(* Without what nothing reads: the allocator's own set, and the tags.       *)
View ==
  <<[q \in DOMAIN partitions |-> [partitions[q] EXCEPT !.custom_meta = {}]],
    partition_to_indexes, reusable_indexes, global_index_counter, kvVars>>

Symmetry == Permutations(Slots) \cup Permutations(Keys)
=============================================================================
