-------------------------- MODULE AtomicCheckpoint --------------------------
(***************************************************************************)
(* What a checkpoint directory promises (docs/checkpoint.md): a load finds *)
(* the last checkpoint that replaced the one before, whole, whatever       *)
(* happened to the saves since.                                            *)
(***************************************************************************)
EXTENDS Naturals

CONSTANTS
  Whole(_),   \* does a checkpoint have all its files?
  Number(_)   \* the number of the save that wrote it; 0 is that of no checkpoint

VARIABLE kept

Init == Number(kept) = 0

Replace == Whole(kept') /\ Number(kept') > Number(kept)

Spec == Init /\ [][Replace]_kept
=============================================================================
