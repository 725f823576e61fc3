---------------------------- MODULE MonitorTables ----------------------------
(***************************************************************************)
(* The two tables the shared list of monitored targets is made of, as pure *)
(* operators: the probe's queue of gestures the hub has not acknowledged   *)
(* yet (MonitorChangeQueue) and the hub's table of dated decisions         *)
(* (probe_monitors).                                                       *)
(*                                                                         *)
(* Time is counted in whole seconds of the hub's clock.  A gesture keeps   *)
(* the second it was made in; where in that second is abstracted into the  *)
(* `phase' of the operators that floor a difference of instants: the floor *)
(* of (now - since) is the difference of the two seconds or one less.      *)
(***************************************************************************)
EXTENDS Integers

CONSTANTS
  Target,     (* the addresses that can be monitored                       *)
  MaxAge,     (* MAX_MONITOR_AGE_SECS: an older gesture is dated on receipt *)
  None        (* no gesture, no row, no change                             *)

Gesture == [removed : BOOLEAN, since : Int, sent : BOOLEAN]
Change  == [removed : BOOLEAN, age : Int]
Row     == [removed : BOOLEAN, at : Int]

ASSUME MaxAgeAssumption == MaxAge \in Nat
ASSUME NoneAssumption   == None \notin Gesture \cup Change \cup Row

Queues  == [Target -> Gesture \cup {None}]
Changes == [Target -> Change \cup {None}]
Rows    == [Target -> Row \cup {None}]
Phases  == [Target -> {0, 1}]

Empty == [t \in Target |-> None]

-----------------------------------------------------------------------------
(* The probe's queue.                                                      *)

\* A new gesture on a target replaces the one that was waiting.
Record(queue, t, removed, now) ==
  [queue EXCEPT ![t] = [removed |-> removed, since |-> now, sent |-> FALSE]]

\* Whole seconds elapsed, 0 rather than a negative age.
AgeSecs(now, since, phase) ==
  IF now - since - phase >= 0 THEN now - since - phase ELSE 0

Snapshot(queue, now, phase) ==
  [t \in Target |->
     IF queue[t] = None THEN None
     ELSE [removed |-> queue[t].removed,
           age     |-> AgeSecs(now, queue[t].since, phase[t])]]

\* What a heartbeat does to the queue it carries off.
MarkSent(queue) ==
  [t \in Target |->
     IF queue[t] = None THEN None ELSE [queue[t] EXCEPT !.sent = TRUE]]

\* A slip: an acknowledgement carries off whatever waits on its targets.
AcknowledgeAnyGesture(queue, acks) ==
  [t \in Target |-> IF t \in acks THEN None ELSE queue[t]]

\* An acknowledgement only concerns a gesture that had left.
Acknowledge(queue, acks) ==
  [t \in Target |->
     IF queue[t] # None /\ t \in acks /\ queue[t].sent THEN None ELSE queue[t]]

\* The queue a new execution finds on disk.  `rebooted': the monotonic clock
\* restarted with the machine and is younger than the age that was stored.
Restore(disk, now, rebooted) ==
  [t \in Target |->
     IF disk[t] = None THEN None
     ELSE [removed |-> disk[t].removed,
           since   |-> IF rebooted THEN now ELSE now - disk[t].age,
           sent    |-> FALSE]]

-----------------------------------------------------------------------------
(* The hub's table.                                                        *)

\* The date of a change, in the hub's own reference.
ChangeInstant(now, age) == IF age \in 0..MaxAge THEN now - age ELSE now

\* Only a strictly more recent decision is written.
Wins(rows, t, at) == rows[t] = None \/ at > rows[t].at

ApplyChange(rows, t, removed, at) ==
  IF Wins(rows, t, at)
  THEN [rows EXCEPT ![t] = [removed |-> removed, at |-> at]]
  ELSE rows

\* One heartbeat's changes, each on its own target; those outside `written'
\* met a database error.
Arbitrate(rows, changes, written, now) ==
  [t \in Target |->
     IF changes[t] # None /\ t \in written
     THEN ApplyChange(rows, t, changes[t].removed,
                      ChangeInstant(now, changes[t].age))[t]
     ELSE rows[t]]

\* The effective list a heartbeat brings back, removed targets included.
ListOf(rows) ==
  [t \in Target |-> IF rows[t] = None THEN "unknown"
                    ELSE IF rows[t].removed THEN "removed" ELSE "active"]

Unreadable == [t \in Target |-> "unknown"]
Lists == [Target -> {"unknown", "removed", "active"}]

=============================================================================
