----------------------------- MODULE MCHubTasks -----------------------------
(* HubTasks for TLC: each part at its work, and all of them together.      *)
EXTENDS HubTasks

Events(a, p, r, b, k, s) ==
  [alert |-> a, pass |-> p, report |-> r, backup |-> b, package |-> k, stop |-> s]

MCMixes == {Events(5, 3, 0, 0, 0, 1), Events(0, 0, 3, 0, 0, 2), Events(0, 0, 0, 4, 0, 1),
            Events(0, 0, 0, 3, 0, 2), Events(1, 1, 0, 1, 0, 1), Events(0, 0, 1, 1, 0, 1),
            Events(0, 0, 0, 0, 6, 1)}
=============================================================================
