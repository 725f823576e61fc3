----------------------------- MODULE ProbeScans -----------------------------
(***************************************************************************)
(* The searches and the scans of ports of a probe beside one another: they *)
(* stop together, with the program, and everything in memory is gone.      *)
(***************************************************************************)
EXTENDS Discovery, PortInventory

scansVars == <<probe, searching, ports>>

ScansInit ==
  /\ shell \in {"desktop", "headless"} /\ now = 1 /\ acts \in Mixes
  /\ DiscoveryInit /\ PortInventoryInit

\* AppState::new_with_mode: a publication under way may still arrive.
Restarts ==
  /\ Happens("stop")
  /\ guard' = "idle" /\ hosts' = {} /\ search' = [s \in Slot |-> None]
  /\ cancelled' = FALSE /\ abandoned' = FALSE
  /\ entries' = [m \in Machine |-> None] /\ scan' = [s \in Slot |-> None]
  /\ UNCHANGED <<net, records, found, blank, slow>>

ScansNext ==
  \/ DiscoveryStep /\ UNCHANGED ports
  \/ PortInventoryStep /\ UNCHANGED searching
  \/ Happens("time") /\ UNCHANGED <<searching, ports>>
  \/ Restarts

ScansSpec == ScansInit /\ [][ScansNext]_scansVars
=============================================================================
