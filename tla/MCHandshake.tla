---------------------------- MODULE MCHandshake ----------------------------
(* Instances of Handshake for TLC. *)
EXTENDS Handshake, TLC

CONSTANTS f1, f2

Symmetry == Permutations(Flows)

Setup(local, mutual, client, server, flows, attempts, expirations) ==
    [local |-> local, mutual |-> mutual, client |-> client, server |-> server,
     flows |-> flows, attempts |-> attempts, expirations |-> expirations]

(* One flow that is tried twice, while the policy of the server changes. *)
Retry == Setup(TRUE, TRUE, {"accept"}, {"accept", "reject"}, 1, 2, 0)
(* Two flows, while the policy of the client changes. *)
TwoFlows == Setup(FALSE, TRUE, {"accept", "nomatch"}, {"accept"}, 2, 1, 0)
(* One attempt, with a policy of the server that changes and an entry that expires. *)
Expiry == Setup(FALSE, TRUE, {"accept"}, {"accept", "reject"}, 1, 1, 1)
AllSetups == {Retry, TwoFlows, Expiry}

(* One attempt, as it is and with a policy that changes and an entry that expires. *)
Claims == {Setup(TRUE, FALSE, {"accept"}, {"accept"}, 1, 1, 0), Expiry}
=============================================================================
