---------------------------- MODULE MCHybridUnit -----------------------------
(***************************************************************************)
(* Instances of HybridUnit for TLC.                                        *)
(***************************************************************************)
EXTENDS HybridUnit

(* Fields are interchangeable.                                            *)
Symmetry == Permutations(Fields)
=============================================================================
