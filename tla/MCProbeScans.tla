---------------------------- MODULE MCProbeScans ----------------------------
(* ProbeScans for TLC: each of the two parts at its work.                  *)
EXTENDS ProbeScans, TLC

Events(d, c, p, w, x, s, t) ==
  [discovery |-> d, cancel |-> c, ports |-> p, clear |-> w, purge |-> x, stop |-> s, time |-> t]

MCMixes == {Events(4, 2, 0, 0, 0, 1, 0), Events(0, 0, 2, 0, 1, 1, 2), Events(0, 0, 2, 1, 0, 1, 1)}

MCSymmetry == Permutations(Slot) \cup Permutations(Host) \cup Permutations(Machine)
=============================================================================
