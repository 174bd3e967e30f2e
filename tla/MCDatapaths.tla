---------------------------- MODULE MCDatapaths ----------------------------
(* Instances of Datapaths for TLC. One process runs the tool: the others   *)
(* act on the kernel in the same way as Others does.                       *)
EXTENDS Datapaths, TLC

CONSTANTS p1, a, b, n2

\* Two words and a number that may be an ifindex, or the name of a datapath.
MCNames == {a, b, n2}
MCIdOf == [n \in MCNames |-> IF n = n2 THEN 2 ELSE 0]

\* The words are interchangeable.
Symmetry == Permutations({a, b})
=============================================================================
