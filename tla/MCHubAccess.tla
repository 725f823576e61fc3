----------------------------- MODULE MCHubAccess ----------------------------
(* HubAccess for TLC: no account, request or telephone differs from another. *)
EXTENDS HubAccess, TLC

Symmetry == Permutations(User) \cup Permutations(Request) \cup Permutations(Device)
=============================================================================
