----------------------------- MODULE MCDatapath -----------------------------
(* Instances of Datapath for TLC: a container with an address, and a process
   with a mark and a port. *)
EXTENDS Datapath, TLC

CONSTANTS p1, p2, ip1, ip2, mark, port

OwnKeys == p1 :> {<<ip1, ip1>>, <<ip2, ip2>>} @@ p2 :> {<<mark, port>>}

(* Two containers, one of which gets the address of the other. *)
SharedKeys == p1 :> {<<ip1, ip1>>} @@ p2 :> {<<ip1, ip1>>}
=============================================================================
