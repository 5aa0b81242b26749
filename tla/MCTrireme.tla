------------------------------ MODULE MCTrireme ------------------------------
(* Instances of Trireme for TLC. *)
EXTENDS Trireme

CONSTANTS p1, p2, m1, m2, e1, pol1, pol2
=============================================================================
