------------------------------ MODULE MCCache ------------------------------
(* Instances of Cache for TLC. *)
EXTENDS Cache, TLC

CONSTANTS k1, k2, c1, c2, t1, t2, t3, t4

(* Keys, clients and timers are interchangeable.  Not used for liveness. *)
Symmetry == Permutations(Keys) \cup Permutations(Clients) \cup Permutations(Timers)
=============================================================================
