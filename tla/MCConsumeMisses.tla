-------------------------- MODULE MCConsumeMisses --------------------------
(* Instances of ConsumeMisses for TLC.                                     *)
EXTENDS ConsumeMisses, TLC

Symmetry == Permutations(VportIDs)
=============================================================================
