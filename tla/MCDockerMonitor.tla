--------------------------- MODULE MCDockerMonitor ---------------------------
(* Instances of DockerMonitor for TLC. *)
EXTENDS DockerMonitor

CONSTANTS c1, c2, pol
=============================================================================
