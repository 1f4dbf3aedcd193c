---------------------------- MODULE MCKVBackend ----------------------------
(***************************************************************************)
(* Instances of KVBackend for TLC.                                         *)
(***************************************************************************)
EXTENDS KVBackend, TLC, MCBatchMeta, MCFieldMeta

(* Mooncake with GDR in every worker or in none, and Yuanrong with NPU      *)
(* transport in some.                                                      *)
AllAlikeOrYuanrong ==
  {[client |-> "mooncake", fast |-> W] : W \in {{}, Workers}}
    \cup {[client |-> "yuanrong", fast |-> {w}] : w \in Workers}

(* One use_gdr for workers with a CUDA context and workers without one.    *)
OneWorkerHasCuda == {[client |-> "mooncake", fast |-> {CHOOSE w \in Workers : TRUE}]}

(* Two fields of two rows, out of order, and one cell of them.             *)
FourCellsOrOne == {<<{1, 2}, <<2, 1>>>>, <<{1}, <<1>>>>}

Symmetry == Permutations(Calls) \cup Permutations(Workers)
=============================================================================
