----------------------------- MODULE MCDaemonize -----------------------------
(* Two programs for Daemonize: one of a process ID of two digits.  *)
EXTENDS Daemonize

CONSTANTS p1, p2

MCPid == [p \in Procs |-> IF p = p1 THEN <<1, 2>> ELSE <<3>>]

\* The standard descriptors, or all.
MCCallers == {0 .. 2, Fds}
=============================================================================
