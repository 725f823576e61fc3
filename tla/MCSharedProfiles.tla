-------------------------- MODULE MCSharedProfiles ---------------------------
(* SharedProfiles on small instances. *)
EXTENDS SharedProfiles, TLC

Symmetry == Permutations(Writer) \cup Permutations(Beat) \cup Permutations(Name) \cup Permutations(Probe)

\* What the properties say nothing of is not explored further.
Orderly == ~disturbed
=============================================================================
