--------------------------- MODULE PortInventory ----------------------------
(***************************************************************************)
(* The open ports of the machines: the probe keeps the last result of each *)
(* (state.rs), publishes all it knows after every scan (scheduler.rs), and *)
(* the hub shows, machine by machine, the last publication that speaks of  *)
(* it (db.rs, merged_ports_inventory).                                     *)
(*                                                                         *)
(* A result is the set of protocols that have an open port.  A publication *)
(* may never come, or late and after another; it is not sent again.        *)
(***************************************************************************)
EXTENDS ScanBase

CONSTANTS
  Machine,
  ScanId       (* bound: publications the hub receives; the order of their
                  identifiers is that of chance                             *)

\* What is known of a machine: the protocols with an open port, and when.
Entry == [open : SUBSET {"tcp", "udp"}, at : Nat]

ASSUME PortInventoryAssumption == ScanId \subseteq Nat /\ None \notin Entry

VARIABLES
  entries,     (* what the probe knows of each machine                      *)
  scan,        (* the scans under way, by slot                              *)
  net,         (* publications on their way                                 *)
  records,     (* the hub's table of scans                                  *)
  (* For the properties.                                                   *)
  found,       (* what the probe ever held of each machine                  *)
  blank,       (* machines published while their first scan was under way   *)
  slow         (* a publication was dated after the second it was read in   *)

ports == <<entries, scan, net, records, found, blank, slow>>

PortInventoryInit ==
  /\ entries = [m \in Machine |-> None] /\ scan = [s \in Slot |-> None]
  /\ net = {} /\ records = {} /\ found = [m \in Machine |-> {}]
  /\ blank = {} /\ slow = FALSE

-----------------------------------------------------------------------------
(* The probe.                                                              *)

\* What a scan goes through: the window asks for one protocol, an order for
\* the second as well.
Plans == [window  |-> {<<"tcp">>, <<"udp">>}, hub |-> {<<"tcp">>, <<"tcp", "udp">>},
          planned |-> {<<"tcp">>}]

Known(m) == IF entries[m] = None THEN [open |-> {}, at |-> 0] ELSE entries[m]

\* mark_in_progress makes the entry, without a date; a scan of the second
\* protocol alone does not.
BeginsScan(s, by, m) ==
  /\ Happens("ports") /\ scan[s] = None /\ MayAsk(by, scan)
  /\ \E plan \in Plans[by] :
       /\ scan' = [scan EXCEPT ![s] =
            [by |-> by, of |-> m, todo |-> plan, read |-> 0, hosts |-> None]]
       /\ entries' = IF Head(plan) = "udp" THEN entries
                     ELSE [entries EXCEPT ![m] = Known(m)]
  /\ UNCHANGED <<net, records, found, blank, slow>>

\* set_tcp, set_udp: the result takes the place of the one before, and its date.
Held(e, proto, open) ==
  [open |-> (e.open \ {proto}) \cup open, at |-> now]

Results(s) ==
  LET m == scan[s].of IN
  /\ scan[s] # None /\ scan[s].todo # <<>>
  /\ \E open \in SUBSET {Head(scan[s].todo)} :
       LET e == Held(Known(m), Head(scan[s].todo), open) IN
       /\ entries' = [entries EXCEPT ![m] = e]
       /\ found' = [found EXCEPT ![m] = @ \cup {e}]
  /\ scan' = [scan EXCEPT ![s].todo = Tail(@)]
  /\ UNCHANGED <<probe, net, records, blank, slow>>

\* The machines to publish: all those known, with the date of each.
Snapshot == [m \in {k \in Machine : entries[k] # None} |-> entries[m]]

Done(s) == scan[s] # None /\ scan[s].todo = <<>>

\* publish_ports reads the store...
Reads(s) ==
  /\ Done(s) /\ scan[s].hosts = None
  /\ scan' = [scan EXCEPT ![s] =
       IF Snapshot = <<>> THEN None ELSE [@ EXCEPT !.hosts = Snapshot, !.read = now]]
  /\ blank' = blank \cup {m \in DOMAIN Snapshot : Snapshot[m].at = 0}
  /\ UNCHANGED <<probe, entries, net, records, found, slow>>

\* ... and dates the whole, then sends it, once.
Sends(s) ==
  /\ Done(s) /\ scan[s].hosts # None
  /\ net' = net \cup {[started |-> now, hosts |-> scan[s].hosts]}
  /\ slow' = (slow \/ now > scan[s].read)
  /\ scan' = [scan EXCEPT ![s] = None]
  /\ UNCHANGED <<probe, entries, records, found, blank>>

\* cmd_clear_portscan_entry
Clears(m) ==
  /\ Happens("clear") /\ shell = "desktop" /\ entries[m] # None
  /\ entries' = [entries EXCEPT ![m] = None]
  /\ UNCHANGED <<scan, net, records, found, blank, slow>>

-----------------------------------------------------------------------------
(* The hub.                                                                *)

\* record_scan: each publication is a scan of its own.
Records(report) ==
  /\ net' = net \ {report}
  /\ \E id \in ScanId \ {r.id : r \in records} :
       records' = records \cup {[id |-> id, started |-> report.started, hosts |-> report.hosts]}
  /\ UNCHANGED <<probe, entries, scan, found, blank, slow>>

\* prune_inventory
PurgesInventory ==
  /\ Happens("purge")
  /\ \E cutoff \in 1..now : records' = {r \in records : r.started >= cutoff}
  /\ UNCHANGED <<entries, scan, net, found, blank, slow>>

Speaking(m) == {r \in records : m \in DOMAIN r.hosts}

\* A slip: the last one received.
AsReceived(r, k, m) == r.id > k.id

\* The order of the publications: when they were made, then the date of the
\* machine (none comes last), then the identifier.
Precedes(r, k, m) ==
  \/ r.started > k.started
  \/ r.started = k.started /\ r.hosts[m].at > k.hosts[m].at
  \/ r.started = k.started /\ r.hosts[m].at = k.hosts[m].at /\ r.id > k.id

Winner(m) == CHOOSE r \in Speaking(m) : \A k \in Speaking(m) \ {r} : Precedes(r, k, m)

\* A slip: the ports of every publication that speaks of the machine.
PortsByAddress(m) == UNION {r.hosts[m].open : r \in Speaking(m)}

\* The ports of the winning publication only.
PortsOf(m) == Winner(m).hosts[m].open

Shown(m) == IF Speaking(m) = {} THEN None
            ELSE [Winner(m).hosts[m] EXCEPT !.open = PortsOf(m)]

PortInventoryStep ==
  \/ PurgesInventory
  \/ \E s \in Slot : \/ Results(s) \/ Reads(s) \/ Sends(s)
                     \/ \E by \in Askers, m \in Machine : BeginsScan(s, by, m)
  \/ \E m \in Machine : Clears(m)
  \/ \E report \in net : Records(report)

-----------------------------------------------------------------------------
(* Properties.                                                             *)

\* A machine the hub shows stays shown, and its date never goes back, whatever
\* is lost, late, cleared or forgotten by a restart (db.rs:3914); a purge takes
\* it away whole.  But for a machine published while its scan was under way,
\* and for a publication read in one second and dated in another.
InventoryOnlyGetsNewer ==
  [][\A m \in Machine \ blank' :
       Shown(m) # None /\ ~slow =>
         IF Shown(m)' = None THEN acts'["purge"] < acts["purge"]
         ELSE Shown(m)'.at >= Shown(m).at]_<<records, acts>>

\* What is shown of a machine is what the probe held of it at that date: a port
\* that was closed since disappears from it (db.rs:3922).
ShowsWhatWasFound ==
  \A m \in Machine \ blank : Shown(m) # None => Shown(m) \in found[m]
=============================================================================
