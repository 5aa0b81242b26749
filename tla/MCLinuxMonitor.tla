--------------------------- MODULE MCLinuxMonitor ---------------------------
(* Instances of LinuxMonitor for TLC. *)
EXTENDS LinuxMonitor

CONSTANTS p1, p2
=============================================================================
