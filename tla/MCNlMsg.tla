------------------------------ MODULE MCNlMsg ------------------------------
(* Instances of NlMsg for TLC.                                             *)
EXTENDS NlMsg

\* Values of lengths around the alignment; one looks like an attribute.
MCValues == {<<>>, <<7>>, <<4, 0, 1, 0>>, <<4, 0, 1, 0, 9>>}
=============================================================================
