------------------------------ MODULE HubBase -------------------------------
(***************************************************************************)
(* What the background work of the hub shares: the database it has open,   *)
(* the clock and the events still to come.  The alerts (Notifications), the*)
(* reports (Reports) and the backups (Backups) read and write it, and a    *)
(* restoration replaces it under them; the packages (Packages) only stop   *)
(* and start with them.                                                    *)
(*                                                                         *)
(* A base moved from under the hub is still read, and refuses to be        *)
(* written, until the hub starts again.                                    *)
(***************************************************************************)
EXTENDS Integers, Sequences, FiniteSets

CONSTANTS
  Probe, Report,
  Wanted,      (* the sets of kinds of alert an operator may ask for        *)
  MaxTime,     (* bound: ticks of the clock                                 *)
  Mixes,       (* bounds: how many events of each part there may be         *)
  None

\* Where the events come from; a pass of the alert loop is one.
Part == {"alert", "pass", "report", "backup", "package", "stop"}

Kind  == {"down", "up", "link down", "link up"}
State == {"down", "up", None}      (* what is known of a probe, or of its link *)
Seen  == [heard : {"never", "heard", "silent"}, link : {"online", "offline", "unknown"},
          revoked : BOOLEAN]
ReportRow == [state : {"preparing", "ready", "failed", "purged"}, until : Nat]

\* A base: the rows of the probes, what is asked and known of each one, the rows
\* of the reports, and the key its secrets are sealed with.
Base == [probe : [Probe -> Seen], asked : [Probe -> BOOLEAN \cup {None}], site : BOOLEAN,
         wanted : SUBSET Kind, known : [Probe -> State], linkKnown : [Probe -> State],
         report : [Report -> ReportRow \cup {None}], sealed : Nat]

ASSUME HubBaseAssumption ==
  /\ MaxTime \in Nat \ {0} /\ Mixes \subseteq [Part -> Nat] /\ Wanted \subseteq SUBSET Kind
  /\ None \notin Base \cup ReportRow \cup BOOLEAN \cup Nat \cup {"down", "up"}

VARIABLES
  tables,      (* what the base the hub has open holds                      *)
  stale,       (* its file was moved                                        *)
  now,
  acts         (* events still to come, by part                             *)

hub == <<tables, stale, now, acts>>

\* A base that was just made: nothing known of the probes, no report.
EmptyTables(key) ==
  [probe  |-> [p \in Probe |-> [heard |-> "never", link |-> "unknown", revoked |-> FALSE]],
   asked  |-> [p \in Probe |-> None], site |-> FALSE, wanted |-> {"down", "up"},
   known  |-> [p \in Probe |-> None], linkKnown |-> [p \in Probe |-> None],
   report |-> [r \in Report |-> None],
   sealed |-> key]

\* An event, of those still to come.
Happens(part) == acts[part] > 0 /\ acts' = [acts EXCEPT ![part] = @ - 1]
CanWrite == ~stale

Tick == /\ now < MaxTime /\ now' = now + 1
        /\ UNCHANGED <<tables, stale, acts>>
=============================================================================
