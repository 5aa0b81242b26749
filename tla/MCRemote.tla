------------------------------- MODULE MCRemote -------------------------------
(* Instances of Remote for TLC. *)
EXTENDS Remote

CONSTANTS p1, p2, l1, l2
=============================================================================
