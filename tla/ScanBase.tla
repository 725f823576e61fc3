------------------------------ MODULE ScanBase ------------------------------
(***************************************************************************)
(* What the scans of a probe share: the program they run in, the clock, and*)
(* the events still to come.  The desktop program has a window and a hub   *)
(* that gives orders; the headless one has a scheduler and the same hub.   *)
(***************************************************************************)
EXTENDS Naturals, Sequences, FiniteSets

CONSTANTS
  Slot,        (* bound: scans of one sort at the same time                 *)
  Mixes,       (* bounds: how many events of each part there may be         *)
  None

\* Where the events come from.
Part == {"discovery", "cancel", "ports", "clear", "purge", "stop", "time"}

ASSUME ScanBaseAssumption == Mixes \subseteq [Part -> Nat]

VARIABLES
  shell,       (* the program: desktop or headless                          *)
  now,
  acts         (* events still to come, by part                             *)

probe == <<shell, now, acts>>

\* An event, of those still to come.
Happens(part) == /\ acts[part] > 0 /\ acts' = [acts EXCEPT ![part] = @ - 1]
                 /\ UNCHANGED shell
                 /\ now' = IF part = "time" THEN now + 1 ELSE now

\* Who asks for scans in each program.
Askers == [desktop |-> {"window", "hub"}, headless |-> {"planned", "hub"}][shell]

\* The hub's orders are carried out one at a time, and so are the scheduler's
\* scans of one sort; the window waits for nothing.
MayAsk(by, scans) ==
  by \in Askers /\ (by = "window" \/ \A s \in Slot : scans[s] # None => scans[s].by # by)
=============================================================================
