------------------------------ MODULE MCFleet -------------------------------
(* Fleet for TLC: the values of a set do not differ from one another.      *)
EXTENDS Fleet, TLC

Symmetry == Permutations(Site) \cup Permutations(Probe) \cup Permutations(Name)
            \cup Permutations(Machine) \cup Permutations(Request)
=============================================================================
