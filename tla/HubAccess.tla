------------------------------ MODULE HubAccess -------------------------------
(***************************************************************************)
(* Who enters the hub: persons and telephones, over the same accounts and  *)
(* through requests of the same kind.  A person's sessions and a           *)
(* telephone's rows meet in the accounts alone, so that a behaviour brings *)
(* the requests of one or of the other, and always those that change the   *)
(* accounts.                                                               *)
(***************************************************************************)
EXTENDS Logins, Devices

CONSTANT MaxLoginActs   (* bound: the requests begun when persons come in *)

ASSUME HubAccessAssumption == MaxLoginActs \in Nat

VARIABLE comes   (* "persons" or "telephones" *)

vars == <<accounts, req, acts, logins, devices, comes>>

Init ==
  /\ LoginsInit /\ DevicesInit
  /\ \/ /\ comes = "persons" /\ acts = MaxLoginActs /\ \A d \in Device : ~Known(d)
        /\ keys = {} \/ \A u \in User : ~factor[u].on   \* bound: one proof to begin with
     \/ comes = "telephones" /\ acts = MaxActs /\ keys = {} /\ \A u \in User : ~factor[u].on

\* The hub stops and starts again: requests and ceremonies are forgotten.
Restarts == AccountsRestart /\ LoginsRestart /\ UNCHANGED devices

Next ==
  /\ \/ AccountsNext /\ UNCHANGED <<logins, devices>>
     \/ comes = "persons" /\ LoginsNext /\ UNCHANGED devices
     \/ comes = "telephones" /\ DevicesNext /\ UNCHANGED logins
     \/ Restarts
  /\ UNCHANGED comes

Spec == Init /\ [][Next]_vars
=============================================================================
