----------------------------- MODULE MCIPSetCtrl -----------------------------
(* Instances of IPSetCtrl for TLC. *)
EXTENDS IPSetCtrl, TLC

CONSTANTS p1, n1, n2, a1, a2

Policy(a, allow, reject) == [addr |-> a, allow |-> allow, reject |-> reject]
(* Policies that disagree; no network is both accepted and rejected. *)
Opposite(p) == {Policy(a1, {n1}, {n2}), Policy(a1, {n2}, {n1})}
(* Opposite treats the two networks alike. *)
Symmetry == Permutations(Nets)
(* Any two of a failing command, a crash and Stop. *)
Setup(f, c, stop) == [faults |-> f, crashes |-> c, stop |-> stop]
AllSetups == {Setup(1, 1, FALSE), Setup(1, 0, TRUE), Setup(0, 1, TRUE)}
Quiet == {Setup(0, 0, FALSE)}

OneList == {<<a1>>}
TwoIPs == {<<a1, a2>>}
=============================================================================
