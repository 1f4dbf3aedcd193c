--------------------------- MODULE MCPersistence ---------------------------
(* Small instances of Persistence. *)
EXTENDS Persistence

MoreDataOrCalls ==
  {[data |-> 3, checkpoints |-> 2, dumps |-> 0], [data |-> 1, checkpoints |-> 3, dumps |-> 0],
   [data |-> 2, checkpoints |-> 0, dumps |-> 2], [data |-> 2, checkpoints |-> 1, dumps |-> 1]}

Symmetry == Permutations(Keys)
=============================================================================
