------------------------------ MODULE MCDpif ------------------------------
(* Instances of Dpif for TLC.                                              *)
EXTENDS Dpif, TLC

CONSTANTS p1, p2

MCProcs == {p1, p2}

\* The goroutines are interchangeable.
Symmetry == Permutations(MCProcs)
=============================================================================
