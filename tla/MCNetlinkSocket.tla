-------------------------- MODULE MCNetlinkSocket --------------------------
(* Instances of NetlinkSocket for TLC.                                     *)
EXTENDS NetlinkSocket
=============================================================================
