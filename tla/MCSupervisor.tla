---------------------------- MODULE MCSupervisor ----------------------------
(* Instances of Supervisor for TLC. *)
EXTENDS Supervisor

CONSTANTS p1, p2

OwnAddr == [p \in PUs |-> {<<p, 1>>}]
Only(addrs) == [p \in PUs |-> IF p = p1 THEN addrs ELSE {}]
Lists == {<<"e1", "e2">>, <<"e2">>}

Setup(mode, addrs, lists, versions, faults, crashes, stop) ==
    [mode |-> mode, addrs |-> addrs, lists |-> lists, versions |-> versions,
     faults |-> faults, crashes |-> crashes, stop |-> stop]

(* Two PUs, the exclusion list and a crash. *)
Container == Setup("LocalContainer", OwnAddr, Lists, 2, 0, 1, FALSE)
(* Two PUs, or a PU and the list, and commands that fail. *)
Failing == {Setup("RemoteContainer", OwnAddr, {}, 1, 2, 0, FALSE),
            Setup("RemoteContainer", OwnAddr, {<<"e1">>}, 2, 1, 0, FALSE)}
(* One PU that may have no mark, and commands that fail. *)
Server == Setup("LocalServer", Only({<<p1, 1>>, NoAddr}), {}, 2, 2, 0, FALSE)
(* Stop may come at any moment, and then in the middle of an update, or with a
   command that fails. *)
Stops == {Setup("LocalServer", Only({<<p1, 1>>, NoAddr}), {}, 1, 0, 0, TRUE),
          Setup("LocalServer", Only({<<p1, 1>>}), {}, 0, 1, 0, TRUE)}
AllSetups == {Container, Server} \cup Failing \cup Stops

(* An address that changes, a command that fails, Stop while a PU is supervised. *)
Claims == {Setup("LocalContainer", Only({<<p1, 1>>, <<p1, 2>>}), {}, 1, 0, 0, FALSE),
           Setup("LocalContainer", Only({<<p1, 1>>}), {}, 2, 1, 0, FALSE),
           Setup("LocalContainer", Only({<<p1, 1>>}), {}, 0, 0, 0, TRUE)}
=============================================================================
