--------------------------- MODULE MCMonitorHistory ---------------------------
(* Instances of MonitorHistory for TLC. *)
EXTENDS MonitorHistory, TLC

CONSTANTS t1, w1, task

\* A decision and two faults, two decisions and a fault within a second, or
\* two decisions far enough apart for the first to be too old.
MCBudgets == {<<1, 2, 0>>, <<2, 1, 1>>, <<2, 0, 0>>}

\* The orders a command can carry: add_monitor and remove_monitor.
MCOrder == [target : Target, removed : BOOLEAN]
=============================================================================
