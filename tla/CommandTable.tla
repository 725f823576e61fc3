----------------------------- MODULE CommandTable -----------------------------
(***************************************************************************)
(* The hub's table of commands waiting for a probe (probe_commands), as    *)
(* pure operators.  A command is delivered with every heartbeat until the  *)
(* probe acknowledges it, and given up after MaxDeliveries deliveries.     *)
(***************************************************************************)
EXTENDS Integers

CONSTANTS
  MaxCommands,    (* bound: how many commands the hub ever issues          *)
  MaxDeliveries,  (* MAX_DELIVERIES                                        *)
  Order,          (* what a command can ask for                            *)
  NoOrder         (* the order of an identifier not issued yet             *)

ASSUME MaxCommandsAssumption   == MaxCommands \in Nat
ASSUME MaxDeliveriesAssumption == MaxDeliveries \in Nat \ {0}
ASSUME NoOrderAssumption       == NoOrder \notin Order

CommandId == 1..MaxCommands
Verdict   == {"none", "done", "failed"}

Commands == [CommandId -> [order     : Order \cup {NoOrder},
                           state     : {"unused", "pending", "done", "failed"},
                           delivered : Nat]]
Verdicts == [CommandId -> Verdict]

NoCommands == [id \in CommandId |->
                 [order |-> NoOrder, state |-> "unused", delivered |-> 0]]
NoVerdicts == [id \in CommandId |-> "none"]

\* Identifiers are given in increasing order.
IsNextId(cmds, id) ==
  /\ cmds[id].state = "unused"
  /\ \A j \in CommandId : j < id => cmds[j].state # "unused"

Enqueue(cmds, id, order) ==
  [cmds EXCEPT ![id] = [order |-> order, state |-> "pending", delivered |-> 0]]

\* Only a pending command can be settled: the first verdict stays.  Those
\* outside `stored' met a database error, which is only logged.
Settle(cmds, verdicts, stored) ==
  [id \in CommandId |->
     IF id \in stored /\ verdicts[id] # "none" /\ cmds[id].state = "pending"
     THEN [cmds[id] EXCEPT !.state = verdicts[id]]
     ELSE cmds[id]]

GiveUp(cmds) ==
  [id \in CommandId |->
     IF cmds[id].state = "pending" /\ cmds[id].delivered >= MaxDeliveries
     THEN [cmds[id] EXCEPT !.state = "failed"]
     ELSE cmds[id]]

Pending(cmds) == {id \in CommandId : cmds[id].state = "pending"}

\* take_pending_commands: one transaction that gives up on the exhausted
\* commands and counts one more delivery of each of the others, which are
\* Pending(GiveUp(cmds)).
CountDelivery(cmds) ==
  [id \in CommandId |->
     IF id \in Pending(GiveUp(cmds))
     THEN [cmds[id] EXCEPT !.delivered = @ + 1]
     ELSE GiveUp(cmds)[id]]

\* The probe executes the commands of one answer in the order of their
\* identifiers.
IsFirst(id, ids) == id \in ids /\ \A j \in ids : id <= j
=============================================================================
