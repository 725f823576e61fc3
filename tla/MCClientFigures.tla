--------------------------- MODULE MCClientFigures ---------------------------
(* ClientFigures for TLC: networks and addresses are alike.  An interface   *)
(* designated or not, with a retention, and a hub on the networks of the    *)
(* probe that keeps its series for ever.                                    *)
EXTENDS ClientFigures, TLC

MCSetting == {[chosen |-> TRUE, inside |-> FALSE, retention |-> 2],
              [chosen |-> FALSE, inside |-> FALSE, retention |-> 2],
              [chosen |-> TRUE, inside |-> TRUE, retention |-> 0]}

Symmetry == Permutations(Lan) \cup Permutations(Address)
=============================================================================
