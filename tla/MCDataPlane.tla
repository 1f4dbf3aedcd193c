----------------------------- MODULE MCDataPlane -----------------------------
(***************************************************************************)
(* Instances of DataPlane for TLC.                                         *)
(***************************************************************************)
EXTENDS DataPlane, TLC

(* Two units, or one and retries: of one sample each, so that one may be   *)
(* too full.                                                               *)
TwoSmallUnitsOrRetries ==
  {[units |-> 2, size |-> 1, attempts |-> 1], [units |-> 1, size |-> 1, attempts |-> 2]}

(* Calls are interchangeable.                                              *)
Symmetry == Permutations(Calls)

(* allocated_indexes is written and never read.                            *)
View == <<partition_to_indexes, reusable_indexes, global_index_counter, partitions, planeVars>>
=============================================================================
