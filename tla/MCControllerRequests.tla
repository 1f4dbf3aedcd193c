----------------------- MODULE MCControllerRequests -----------------------
(* Small instances of ControllerRequests. *)
EXTENDS ControllerRequests, TLC

Symmetry == Permutations(Partitions) \cup Permutations(Keys) \cup Permutations(Fields)
=============================================================================
