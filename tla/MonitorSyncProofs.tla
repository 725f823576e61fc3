-------------------------- MODULE MonitorSyncProofs --------------------------
(***************************************************************************)
(* Proofs about MonitorSync, for every set of targets, every bound and any *)
(* number of commands.  First what the operators on the probe's queue, the *)
(* hub's table of decisions and the hub's table of commands return; the    *)
(* proofs of the actions use nothing else of them.                         *)
(***************************************************************************)
EXTENDS MonitorHistory, TLAPS

-----------------------------------------------------------------------------
(* What the operators on the tables return.                                *)

\* The empty queue, file and table are well typed.
LEMMA EmptyType == Empty \in Queues /\ Empty \in Changes /\ Empty \in Rows
BY DEF Empty, Queues, Changes, Rows

\* record replaces the gesture of one target and leaves the others alone.
LEMMA RecordSpec ==
  ASSUME NEW q \in Queues, NEW t \in Target, NEW removed \in BOOLEAN, NEW n \in Int
  PROVE  /\ Record(q, t, removed, n) \in Queues
         /\ Record(q, t, removed, n)[t] =
              [removed |-> removed, since |-> n, sent |-> FALSE]
         /\ Record(q, t, removed, n)[t] # None
         /\ \A u \in Target \ {t} : Record(q, t, removed, n)[u] = q[u]
<1> DEFINE g == [removed |-> removed, since |-> n, sent |-> FALSE]
<1>1. g \in Gesture
  BY DEF Gesture
<1>2. QED
  BY <1>1, NoneAssumption DEF Record, Queues

\* Recording a gesture leaves the other targets' gestures alone
\* (MonitorChangeQueue::record).
LEMMA RecordKeeps ==
  ASSUME NEW q \in Queues, NEW t \in Target, NEW removed \in BOOLEAN, NEW n \in Int,
         NEW u \in Target, q[u] # None
  PROVE  Record(q, t, removed, n)[u] # None
<1>1. CASE u = t
  BY <1>1, RecordSpec
<1>2. CASE u # t
  <2>1. Record(q, t, removed, n)[u] = q[u]
    BY <1>2 DEF Record, Queues
  <2>2. QED
    BY <2>1
<1>3. QED
  BY <1>1, <1>2

\* snapshot keeps the targets and the actions, with an age that is not
\* negative and does not go back before the gesture.
LEMMA SnapshotSpec ==
  ASSUME NEW q \in Queues, NEW n \in Int, NEW phase \in Phases
  PROVE  /\ Snapshot(q, n, phase) \in Changes
         /\ \A t \in Target :
              /\ Snapshot(q, n, phase)[t] = None <=> q[t] = None
              /\ q[t] # None =>
                   /\ Snapshot(q, n, phase)[t].removed = q[t].removed
                   /\ Snapshot(q, n, phase)[t].age >= 0
                   /\ q[t].since <= n =>
                        n - Snapshot(q, n, phase)[t].age >= q[t].since
<1>1. ASSUME NEW t \in Target, q[t] # None
      PROVE  /\ q[t] \in Gesture /\ q[t].removed \in BOOLEAN /\ q[t].since \in Int
             /\ AgeSecs(n, q[t].since, phase[t]) \in Int
             /\ AgeSecs(n, q[t].since, phase[t]) >= 0
             /\ q[t].since <= n => n - AgeSecs(n, q[t].since, phase[t]) >= q[t].since
  <2>1. q[t] \in Gesture
    BY <1>1 DEF Queues
  <2>2. q[t].removed \in BOOLEAN /\ q[t].since \in Int
    BY <2>1 DEF Gesture
  <2>3. phase[t] \in {0, 1}
    BY DEF Phases
  <2>4. QED
    BY <2>1, <2>2, <2>3 DEF AgeSecs
<1>2. ASSUME NEW t \in Target, q[t] # None
      PROVE  /\ Snapshot(q, n, phase)[t] \in Change
             /\ Snapshot(q, n, phase)[t] # None
             /\ Snapshot(q, n, phase)[t].removed = q[t].removed
             /\ Snapshot(q, n, phase)[t].age = AgeSecs(n, q[t].since, phase[t])
  <2> DEFINE c == [removed |-> q[t].removed,
                   age     |-> AgeSecs(n, q[t].since, phase[t])]
  <2>1. Snapshot(q, n, phase)[t] = c
    BY <1>2 DEF Snapshot
  <2>2. c \in Change
    BY <1>1, <1>2 DEF Change
  <2>3. c.removed = q[t].removed /\ c.age = AgeSecs(n, q[t].since, phase[t])
    OBVIOUS
  <2> HIDE DEF c
  <2>4. QED
    BY <2>1, <2>2, <2>3, NoneAssumption
<1>3. ASSUME NEW t \in Target, q[t] = None
      PROVE  Snapshot(q, n, phase)[t] = None
  BY <1>3 DEF Snapshot
<1>4. Snapshot(q, n, phase) \in Changes
  <2>1. Snapshot(q, n, phase) = [t \in Target |-> Snapshot(q, n, phase)[t]]
    BY DEF Snapshot
  <2>2. \A t \in Target : Snapshot(q, n, phase)[t] \in Change \cup {None}
    BY <1>2, <1>3
  <2>3. QED
    BY <2>1, <2>2 DEF Changes
<1>5. QED
  BY <1>1, <1>2, <1>3, <1>4

\* Marking the queue as sent changes nothing but the mark (outgoing).
LEMMA MarkSentSpec ==
  ASSUME NEW q \in Queues
  PROVE  /\ MarkSent(q) \in Queues
         /\ \A t \in Target :
              /\ MarkSent(q)[t] = None <=> q[t] = None
              /\ q[t] # None => /\ MarkSent(q)[t].removed = q[t].removed
                                /\ MarkSent(q)[t].since = q[t].since
<1>1. ASSUME NEW t \in Target, q[t] # None
      PROVE  /\ MarkSent(q)[t] \in Gesture /\ MarkSent(q)[t] # None
             /\ MarkSent(q)[t].removed = q[t].removed
             /\ MarkSent(q)[t].since = q[t].since
  <2>1. q[t] \in Gesture
    BY <1>1 DEF Queues
  <2>2. MarkSent(q)[t] = [q[t] EXCEPT !.sent = TRUE]
    BY <1>1 DEF MarkSent
  <2>3. MarkSent(q)[t] \in Gesture
    BY <2>1, <2>2 DEF Gesture
  <2>4. QED
    BY <2>1, <2>2, <2>3, NoneAssumption DEF Gesture
<1>2. ASSUME NEW t \in Target, q[t] = None
      PROVE  MarkSent(q)[t] = None
  BY <1>2 DEF MarkSent
<1>3. MarkSent(q) = [t \in Target |-> MarkSent(q)[t]]
  BY DEF MarkSent
<1>4. QED
  BY <1>1, <1>2, <1>3 DEF Queues

\* An acknowledgement removes gestures that had left and touches no other.
LEMMA AcknowledgeSpec ==
  ASSUME NEW q \in Queues, NEW acks \in SUBSET Target
  PROVE  /\ Acknowledge(q, acks) \in Queues
         /\ \A t \in Target :
              \/ Acknowledge(q, acks)[t] = q[t]
              \/ /\ Acknowledge(q, acks)[t] = None
                 /\ q[t] # None /\ t \in acks /\ q[t].sent
BY DEF Acknowledge, Queues

\* What a new execution finds is what was on disk, not dated in the future.
LEMMA RestoreSpec ==
  ASSUME NEW d \in Changes, NEW n \in Int, NEW rebooted \in BOOLEAN,
         \A t \in Target : d[t] # None => d[t].age >= 0
  PROVE  /\ Restore(d, n, rebooted) \in Queues
         /\ \A t \in Target :
              /\ Restore(d, n, rebooted)[t] = None <=> d[t] = None
              /\ d[t] # None =>
                   /\ Restore(d, n, rebooted)[t].removed = d[t].removed
                   /\ Restore(d, n, rebooted)[t].since <= n
                   /\ ~Restore(d, n, rebooted)[t].sent
<1> DEFINE since(t) == IF rebooted THEN n ELSE n - d[t].age
<1>1. ASSUME NEW t \in Target, d[t] # None
      PROVE  /\ Restore(d, n, rebooted)[t] \in Gesture
             /\ Restore(d, n, rebooted)[t] # None
             /\ Restore(d, n, rebooted)[t].removed = d[t].removed
             /\ Restore(d, n, rebooted)[t].since <= n
             /\ ~Restore(d, n, rebooted)[t].sent
  <2>1. d[t] \in Change
    BY <1>1 DEF Changes
  <2>2. d[t].removed \in BOOLEAN /\ d[t].age \in Int /\ d[t].age >= 0
    BY <1>1, <2>1 DEF Change
  <2>3. since(t) \in Int /\ since(t) <= n
    BY <2>2
  <2> DEFINE g == [removed |-> d[t].removed, since |-> since(t), sent |-> FALSE]
  <2>4. Restore(d, n, rebooted)[t] = g
    BY <1>1 DEF Restore
  <2> HIDE DEF since
  <2>5. g \in Gesture
    BY <2>2, <2>3 DEF Gesture
  <2>6. g.removed = d[t].removed /\ g.since = since(t) /\ g.sent = FALSE
    OBVIOUS
  <2> HIDE DEF g
  <2>7. QED
    BY <2>3, <2>4, <2>5, <2>6, NoneAssumption
<1>2. ASSUME NEW t \in Target, d[t] = None
      PROVE  Restore(d, n, rebooted)[t] = None
  BY <1>2 DEF Restore
<1>3. Restore(d, n, rebooted) = [t \in Target |-> Restore(d, n, rebooted)[t]]
  BY DEF Restore
<1>4. QED
  BY <1>1, <1>2, <1>3 DEF Queues

-----------------------------------------------------------------------------
(* The hub's table of decisions.                                           *)

\* A decision is left as it is or replaced by a strictly more recent one.
NotOlder(old, new) ==
  \/ new = old
  \/ new # None /\ (old = None \/ new.at > old.at)

\* A change is dated no earlier than its age says, and never in the future.
LEMMA ChangeInstantSpec ==
  ASSUME NEW n \in Int, NEW age \in Int, age >= 0
  PROVE  /\ ChangeInstant(n, age) \in Int
         /\ ChangeInstant(n, age) >= n - age
         /\ ChangeInstant(n, age) <= n
BY MaxAgeAssumption DEF ChangeInstant

\* apply_monitor_change: afterwards the row is at least as recent as the
\* change, whoever won, and the rows of the other targets are untouched.
LEMMA ApplyChangeSpec ==
  ASSUME NEW table \in Rows, NEW t \in Target, NEW removed \in BOOLEAN, NEW at \in Int
  PROVE  /\ ApplyChange(table, t, removed, at) \in Rows
         /\ ApplyChange(table, t, removed, at)[t] # None
         /\ ApplyChange(table, t, removed, at)[t].at >= at
         /\ \A u \in Target : NotOlder(table[u], ApplyChange(table, t, removed, at)[u])
<1> DEFINE row == [removed |-> removed, at |-> at]
<1>1. row \in Row /\ row.at = at
  BY DEF Row
<1>2. row # None
  BY <1>1, NoneAssumption
<1>3. CASE Wins(table, t, at)
  <2>1. ApplyChange(table, t, removed, at) = [table EXCEPT ![t] = row]
    BY <1>3 DEF ApplyChange
  <2>2. table[t] = None \/ at > table[t].at
    BY <1>3 DEF Wins
  <2> HIDE DEF row
  <2>3. [table EXCEPT ![t] = row] \in Rows
    BY <1>1 DEF Rows
  <2>4. /\ [table EXCEPT ![t] = row][t] = row
        /\ \A u \in Target \ {t} : [table EXCEPT ![t] = row][u] = table[u]
    BY DEF Rows
  <2>5. QED
    BY <1>1, <1>2, <2>1, <2>2, <2>3, <2>4 DEF NotOlder
<1>4. CASE ~Wins(table, t, at)
  <2>1. ApplyChange(table, t, removed, at) = table
    BY <1>4 DEF ApplyChange
  <2>2. table[t] # None /\ ~(at > table[t].at)
    BY <1>4 DEF Wins
  <2>3. table[t] \in Row
    BY <2>2 DEF Rows
  <2>4. table[t].at \in Int
    BY <2>3 DEF Row
  <2>5. QED
    BY <2>1, <2>2, <2>4 DEF NotOlder
<1>5. QED
  BY <1>3, <1>4

\* One heartbeat's changes: no decision gets older, and what was written is
\* matched by a decision at least as recent.
LEMMA ArbitrateSpec ==
  ASSUME NEW table \in Rows, NEW changes \in Changes,
         NEW written \in SUBSET Target, NEW n \in Int
  PROVE  /\ Arbitrate(table, changes, written, n) \in Rows
         /\ \A t \in Target : NotOlder(table[t], Arbitrate(table, changes, written, n)[t])
         /\ \A t \in written :
              changes[t] # None =>
                /\ Arbitrate(table, changes, written, n)[t] # None
                /\ Arbitrate(table, changes, written, n)[t].at
                     >= ChangeInstant(n, changes[t].age)
<1> DEFINE result == Arbitrate(table, changes, written, n)
<1>1. ASSUME NEW t \in Target, changes[t] # None, t \in written
      PROVE  /\ result[t] \in Row \cup {None} /\ result[t] # None
             /\ result[t].at >= ChangeInstant(n, changes[t].age)
             /\ NotOlder(table[t], result[t])
  <2> DEFINE at == ChangeInstant(n, changes[t].age)
             next == ApplyChange(table, t, changes[t].removed, at)
  <2>1. changes[t] \in Change
    BY <1>1 DEF Changes
  <2>2. changes[t].removed \in BOOLEAN /\ changes[t].age \in Int
    BY <2>1 DEF Change
  <2>3. at \in Int
    BY <2>2, MaxAgeAssumption DEF ChangeInstant
  <2>4. result[t] = next[t]
    BY <1>1 DEF Arbitrate
  <2> HIDE DEF at
  <2>5. /\ next \in Rows /\ next[t] # None /\ next[t].at >= at
        /\ NotOlder(table[t], next[t])
    BY <2>2, <2>3, ApplyChangeSpec
  <2>6. next[t] \in Row \cup {None}
    BY <2>5 DEF Rows
  <2>7. QED
    BY <2>4, <2>5, <2>6 DEF at
<1>2. ASSUME NEW t \in Target, ~(changes[t] # None /\ t \in written)
      PROVE  /\ result[t] \in Row \cup {None}
             /\ NotOlder(table[t], result[t])
  <2>1. result[t] = table[t]
    BY <1>2 DEF Arbitrate
  <2>2. QED
    BY <2>1 DEF Rows, NotOlder
<1>3. result = [t \in Target |-> result[t]]
  BY DEF Arbitrate
<1>4. result \in Rows
  BY <1>1, <1>2, <1>3 DEF Rows
<1>5. QED
  BY <1>1, <1>2, <1>4

\* The list the hub answers with is a list.
LEMMA ListOfType == \A table \in Rows : ListOf(table) \in Lists
BY DEF ListOf, Lists

\* The list that stands for an unreadable one is a list.
LEMMA UnreadableType == Unreadable \in Lists
BY DEF Unreadable, Lists

-----------------------------------------------------------------------------
(* The hub's table of commands.                                            *)

\* An update of the table keeps what every issued command asks for.
KeepsOrders(old, new) ==
  /\ new \in Commands
  /\ \A id \in CommandId : new[id].order = old[id].order
  /\ \A id \in CommandId : new[id].state # "unused" => old[id].state # "unused"

\* The tables start well typed.
LEMMA NoCommandsType == NoCommands \in Commands /\ NoVerdicts \in Verdicts
BY DEF NoCommands, Commands, NoVerdicts, Verdicts, Verdict

\* Queueing an order changes one command, to pending with that order.
LEMMA EnqueueSpec ==
  ASSUME NEW table \in Commands, NEW id \in CommandId, NEW order \in Order
  PROVE  /\ Enqueue(table, id, order) \in Commands
         /\ Enqueue(table, id, order)[id].order = order
         /\ \A j \in CommandId \ {id} : Enqueue(table, id, order)[j] = table[j]
BY DEF Enqueue, Commands

\* Settling keeps the table's type and every order (settle_command).
LEMMA SettleSpec ==
  ASSUME NEW table \in Commands, NEW given \in Verdicts, NEW stored \in SUBSET CommandId
  PROVE  KeepsOrders(table, Settle(table, given, stored))
BY DEF KeepsOrders, Settle, Commands, Verdicts, Verdict

\* Giving up keeps the table's type and every order (take_pending_commands).
LEMMA GiveUpSpec ==
  ASSUME NEW table \in Commands
  PROVE  KeepsOrders(table, GiveUp(table))
BY DEF KeepsOrders, GiveUp, Commands

\* take_pending_commands delivers only commands that were issued.
LEMMA CountDeliverySpec ==
  ASSUME NEW table \in Commands
  PROVE  /\ KeepsOrders(table, CountDelivery(table))
         /\ Pending(GiveUp(table)) \in SUBSET CommandId
         /\ \A id \in Pending(GiveUp(table)) : table[id].state # "unused"
<1>1. KeepsOrders(table, GiveUp(table))
  BY GiveUpSpec
<1>2. /\ Pending(GiveUp(table)) \in SUBSET CommandId
      /\ \A id \in Pending(GiveUp(table)) : table[id].state = "pending"
  BY DEF Pending, GiveUp, Commands
<1>3. KeepsOrders(table, CountDelivery(table))
  BY <1>1, <1>2 DEF KeepsOrders, CountDelivery, Commands
<1>4. QED
  BY <1>2, <1>3

-----------------------------------------------------------------------------
(* The heartbeat as a record.                                              *)

\* Filling in the answer to a heartbeat keeps the rest of it.
LEMMA ArbitratedSpec ==
  ASSUME NEW r \in Request, NEW written \in SUBSET Target
  PROVE  /\ Arbitrated(r, written) \in Request
         /\ Arbitrated(r, written).stage = "arbitrated"
         /\ Arbitrated(r, written).acks = {t \in written : r.changes[t] # None}
         /\ Arbitrated(r, written).orders = r.orders
         /\ Arbitrated(r, written).changes = Empty
         /\ Arbitrated(r, written).list = r.list
BY EmptyType, NoCommandsType DEF Arbitrated, Request, Stage

\* What is left of a heartbeat nobody waits for any more.
LEMMA ForsakenSpec ==
  ASSUME NEW r \in Request
  PROVE  /\ Forsaken(r) \in Request
         /\ Forsaken(r).changes = r.changes
         /\ Forsaken(r).list = Unreadable
BY UnreadableType DEF Forsaken, Request, Stage

\* What a heartbeat that leaves carries, field by field (beat).
LEMMA SentSpec ==
  ASSUME NEW i \in Nat, NEW changes \in Changes, NEW settled \in Verdicts
  PROVE  LET s == [id |-> i, stage |-> "sent", changes |-> changes,
                   settled |-> settled, acks |-> {}, list |-> Unreadable,
                   orders |-> {}]
         IN  /\ s \in Request /\ s.stage = "sent"
             /\ s.changes = changes /\ s.orders = {}
BY UnreadableType DEF Request, Stage

-----------------------------------------------------------------------------
(* What several actions share.                                             *)

\* A thread begins a call (the threads' calls are apart).
Begun(h, starts, stops) ==
  /\ call' \in [Thread -> Call \cup {None}]
  /\ call'[h] # None
  /\ call'[h].starts = starts /\ call'[h].stops = stops
  /\ call'[h].copy = Empty
  /\ \A g \in Thread \ {h} : call'[g] = call[g]

LEMMA BeginsSpec ==
  ASSUME TypeOK, NEW h \in Thread, NEW step \in {"copy", "write", "act"},
         NEW starts \in SUBSET Target, NEW stops \in SUBSET Target,
         Begins(h, step, starts, stops)
  PROVE  Begun(h, starts, stops)
<1> DEFINE c == [at |-> step, starts |-> starts, stops |-> stops, copy |-> Empty]
<1>1. c \in Call
  BY EmptyType DEF Call
<1>2. c.at = step /\ c.starts = starts /\ c.stops = stops /\ c.copy = Empty
  OBVIOUS
<1>3. call' = [call EXCEPT ![h] = c]
  BY DEF Begins
<1>4. call \in [Thread -> Call \cup {None}]
  BY DEF TypeOK
<1> HIDE DEF c
<1>5. call' \in [Thread -> Call \cup {None}] /\ call'[h] = c /\ \A g \in Thread \ {h} : call'[g] = call[g]
  BY <1>1, <1>3, <1>4
<1> QED BY <1>1, <1>2, <1>5, CallAssumption DEF Begun

\* A call that begins carries no copy yet.
LEMMA BeginsInThePast ==
  ASSUME TypeOK, GesturesInThePast, queue' \in Queues, now' = now, disk' = disk,
         \A t \in Target : queue'[t] # None => queue'[t].since <= now,
         NEW h \in Thread, NEW step \in {"copy", "write", "act"},
         NEW starts \in SUBSET Target, NEW stops \in SUBSET Target,
         Begins(h, step, starts, stops)
  PROVE  GesturesInThePast'
<1>0. Begun(h, starts, stops)
  BY BeginsSpec
<1>1. call'[h].copy = Empty /\ \A g \in Thread \ {h} : call'[g] = call[g]
  BY <1>0 DEF Begun
<1>2. \A t \in Target : Empty[t] = None
  BY DEF Empty
<1> QED BY <1>1, <1>2 DEF GesturesInThePast

\* As long as decisions only get newer, what was acknowledged stays decided.
LEMMA StillDecided ==
  ASSUME TypeOK, AckedGestureIsDecided, rows' \in Rows,
         \A t \in Target : NotOlder(rows[t], rows'[t]),
         req' = req, queue' = queue
  PROVE  AckedGestureIsDecided'
<1> SUFFICES ASSUME req # None, req.stage # "sent",
                    NEW t \in req.acks, queue[t] # None, queue[t].sent
             PROVE  rows'[t] # None /\ rows'[t].at >= queue[t].since
  BY DEF AckedGestureIsDecided
<1>1. req \in Request
  BY DEF TypeOK
<1>2. t \in Target
  BY <1>1 DEF Request
<1>3. rows[t] # None /\ rows[t].at >= queue[t].since
  BY DEF AckedGestureIsDecided
<1>4. queue[t] \in Gesture /\ rows[t] \in Row
  BY <1>2, <1>3 DEF TypeOK, Queues, Rows
<1>5. rows'[t] = rows[t] \/ (rows'[t] # None /\ rows'[t].at > rows[t].at)
  BY <1>2, <1>3 DEF NotOlder
<1>6. rows'[t] # None
  BY <1>3, <1>5
<1>7. rows'[t] \in Row
  BY <1>2, <1>6 DEF Rows
<1>8. queue[t].since \in Int /\ rows[t].at \in Int /\ rows'[t].at \in Int
  BY <1>4, <1>7 DEF Gesture, Row
<1>9. QED
  BY <1>3, <1>5, <1>6, <1>8

\* Orders stay issued when the table of commands keeps them.
LEMMA StillIssued ==
  ASSUME OrdersAreIssued, TypeOK, KeepsOrders(cmds, cmds'),
         todo' \in SUBSET todo, noting' \in SUBSET noting,
         req' = None \/ req' = req
  PROVE  OrdersAreIssued'
BY DEF OrdersAreIssued, KeepsOrders, TypeOK, Request

\* A gesture at the probe, made by a person or by a command.
LEMMA GesturingSpec ==
  ASSUME IInv, up, NEW h \in Thread, NEW t \in Target, NEW removed \in BOOLEAN, Gesturing(h, t, removed),
         now' = now, rows' = rows, req' = req, up' = up, disk' = disk
  PROVE  /\ queue' \in Queues /\ call' \in [Thread -> Call \cup {None}]
         /\ GesturesInThePast' /\ DownIsEmpty'
         /\ SentGestureIsCarried' /\ AckedGestureIsDecided'
         /\ \A g \in Thread \ {h} : call'[g] = call[g]
<1> USE DEF IInv
<1>1. queue \in Queues /\ now \in Int /\ req \in Request \cup {None}
  BY DEF TypeOK
<1>2. queue' = Record(queue, t, removed, now)
  BY DEF Gesturing
<1> DEFINE g == [removed |-> removed, since |-> now, sent |-> FALSE]
<1>3. /\ queue' \in Queues
      /\ queue'[t] = g /\ queue'[t] # None
      /\ \A u \in Target \ {t} : queue'[u] = queue[u]
  BY <1>1, <1>2, RecordSpec
<1>4. g.removed = removed /\ g.since = now /\ g.sent = FALSE
  OBVIOUS
<1> HIDE DEF g
<1>5. PICK starts \in SUBSET Target, stops \in SUBSET Target : Begins(h, "copy", starts, stops)
  BY DEF Gesturing
<1>a. Begun(h, starts, stops)
  BY <1>5, BeginsSpec
<1>6. call' \in [Thread -> Call \cup {None}] /\ \A k \in Thread \ {h} : call'[k] = call[k]
  BY <1>a DEF Begun
<1>7. \A u \in Target : queue'[u] # None => queue'[u].since <= now
  BY <1>1, <1>3, <1>4 DEF GesturesInThePast
<1>8. GesturesInThePast'
  BY <1>3, <1>5, <1>7, BeginsInThePast
<1>9. DownIsEmpty'
  BY DEF DownIsEmpty
<1>10. SentGestureIsCarried'
  BY <1>3, <1>4 DEF SentGestureIsCarried
<1>11. AckedGestureIsDecided'
  <2> SUFFICES ASSUME req # None, req.stage # "sent",
                      NEW u \in req.acks, queue'[u] # None, queue'[u].sent
               PROVE  rows[u] # None /\ rows[u].at >= queue'[u].since
    BY DEF AckedGestureIsDecided
  <2>1. u \in Target \ {t}
    BY <1>1, <1>3, <1>4 DEF Request
  <2>2. QED
    BY <1>3, <2>1 DEF AckedGestureIsDecided
<1>12. QED
  BY <1>3, <1>6, <1>8, <1>9, <1>10, <1>11

-----------------------------------------------------------------------------
(* The invariant holds initially and every action preserves it.            *)

\* The invariant holds in the initial states.
LEMMA InitInvariant == Init => IInv
<1> SUFFICES ASSUME Init PROVE IInv
  OBVIOUS
<1> USE DEF Init
<1>0. acts \in Nat /\ faults \in Nat /\ now \in Nat
  BY BoundsAssumption
<1>1. TypeOK
  BY <1>0, EmptyType, NoCommandsType, UnreadableType DEF TypeOK
<1>2. \A t \in Target : queue[t] = None /\ disk[t] = None
  BY DEF Empty
<1>3. \A id \in CommandId : cmds[id].state = "unused"
  BY DEF NoCommands
<1>4. OrdersAreIssued
  BY <1>3 DEF OrdersAreIssued
<1>5. QED
  BY <1>1, <1>2, <1>4
     DEF IInv, GesturesInThePast, DownIsEmpty, SentGestureIsCarried,
         AckedGestureIsDecided, TaskWaits, Aligned

\* A second that passes makes no gesture younger than its heartbeat says.
LEMMA TickInvariant == IInv /\ Tick => IInv'
<1> SUFFICES ASSUME IInv, Tick PROVE IInv'
  OBVIOUS
<1> USE DEF IInv, Tick, hubVars, netVars, probeVars
<1>1. TypeOK'
  BY DEF TypeOK
<1>2. now \in Int /\ queue \in Queues /\ req \in Request \cup {None}
  BY DEF TypeOK
<1>3. GesturesInThePast'
  <2>1. \A t \in Target : queue[t] # None => queue[t].since \in Int
    BY <1>2 DEF Queues, Gesture
  <2>2. QED
    BY <1>2, <2>1 DEF GesturesInThePast
<1>4. SentGestureIsCarried'
  <2> SUFFICES ASSUME req # None, req.stage = "sent",
                      NEW t \in Target, queue[t] # None, queue[t].sent
               PROVE  /\ req.changes[t] # None
                      /\ ChangeInstant(now + 1, req.changes[t].age) >= queue[t].since
    BY DEF SentGestureIsCarried
  <2>1. /\ req.changes[t] # None
        /\ ChangeInstant(now, req.changes[t].age) >= queue[t].since
    BY DEF SentGestureIsCarried
  <2>2. req.changes[t] \in Change /\ queue[t] \in Gesture
    BY <1>2, <2>1 DEF Request, Changes, Queues
  <2>3. req.changes[t].age \in Int /\ queue[t].since \in Int
    BY <2>2 DEF Change, Gesture
  <2>4. QED
    BY <1>2, <2>1, <2>3, MaxAgeAssumption DEF ChangeInstant
<1>5. /\ DownIsEmpty' /\ AckedGestureIsDecided' /\ OrdersAreIssued'
      /\ TaskWaits'
  BY DEF DownIsEmpty, AckedGestureIsDecided, OrdersAreIssued,
         TaskWaits, Aligned
<1>6. QED
  BY <1>1, <1>3, <1>4, <1>5

\* A gesture at the window preserves the invariant.
LEMMA UserGestureInvariant ==
  ASSUME IInv, NEW h \in Window, NEW t \in Target, NEW removed \in BOOLEAN, UserGesture(h, t, removed)
  PROVE  IInv'
<1> USE DEF IInv, UserGesture, hubVars, netVars
<1>0. h \in Thread /\ h # Task
  BY ThreadAssumption DEF Thread
<1>1. /\ queue' \in Queues /\ call' \in [Thread -> Call \cup {None}]
      /\ GesturesInThePast' /\ DownIsEmpty'
      /\ SentGestureIsCarried' /\ AckedGestureIsDecided'
      /\ \A g \in Thread \ {h} : call'[g] = call[g]
  BY <1>0, GesturingSpec
<1>2. TypeOK'
  BY <1>1 DEF TypeOK, Act
<1>3. OrdersAreIssued'
  BY DEF OrdersAreIssued
<1>4. TaskWaits'
  BY <1>0, <1>1 DEF TaskWaits, Aligned, Thread
<1>5. QED
  BY <1>1, <1>2, <1>3, <1>4

\* Executing a command preserves the invariant.
LEMMA ExecuteCommandInvariant ==
  ASSUME IInv, NEW id \in CommandId, ExecuteCommand(id)
  PROVE  IInv'
<1> USE DEF IInv, ExecuteCommand, hubVars, netVars
<1>1. cmds[id].order \in MonitorOrder
  BY OrderAssumption DEF IsFirst, OrdersAreIssued
<1>2. cmds[id].order.target \in Target /\ cmds[id].order.removed \in BOOLEAN /\ Task \in Thread
  BY <1>1 DEF MonitorOrder, Thread
<1>3. /\ queue' \in Queues /\ call' \in [Thread -> Call \cup {None}]
      /\ GesturesInThePast' /\ DownIsEmpty'
      /\ SentGestureIsCarried' /\ AckedGestureIsDecided'
  BY <1>2, GesturingSpec
<1>4. verdicts' \in Verdicts
  BY DEF TypeOK, Verdicts, Verdict
<1>5. TypeOK'
  BY <1>3, <1>4 DEF TypeOK
<1>6. OrdersAreIssued'
  BY DEF OrdersAreIssued
<1>7. TaskWaits'
  BY DEF TaskWaits, IsFirst
<1>8. QED
  BY <1>3, <1>5, <1>6, <1>7

\* Copying the queue preserves the invariant.
LEMMA CopiesInvariant ==
  ASSUME IInv, NEW h \in Thread, Copies(h)
  PROVE  IInv'
<1> USE DEF IInv, Copies, At, hubVars, netVars
<1>1. queue \in Queues /\ now \in Int /\ call \in [Thread -> Call \cup {None}] /\ call[h] \in Call
  BY DEF TypeOK
<1>2. PICK phase \in Phases :
        call' = [call EXCEPT ![h].at = "write", ![h].copy = Snapshot(queue, now, phase)]
  OBVIOUS
<1> DEFINE copy == Snapshot(queue, now, phase)
<1>3. copy \in Changes /\ \A t \in Target : copy[t] # None => copy[t].age >= 0
  BY <1>1, SnapshotSpec
<1> DEFINE c == [call[h] EXCEPT !.at = "write", !.copy = copy]
<1>4. call' = [call EXCEPT ![h] = c]
  BY <1>1, <1>2
<1> HIDE DEF copy
<1>5. c \in Call /\ c.copy = copy
  BY <1>1, <1>3 DEF Call
<1> HIDE DEF c
<1>6. /\ call' \in [Thread -> Call \cup {None}]
      /\ call'[h] = c /\ \A g \in Thread \ {h} : call'[g] = call[g]
  BY <1>1, <1>4, <1>5
<1>7. TypeOK'
  BY <1>6 DEF TypeOK
<1>8. GesturesInThePast'
  BY <1>3, <1>5, <1>6 DEF GesturesInThePast
<1>9. DownIsEmpty' /\ TaskWaits'
  <2>1. call[h] # None
    BY <1>1, CallAssumption
  <2>2. up
    BY <2>1 DEF DownIsEmpty
  <2>3. TaskWaits'
    BY <1>6, <2>1 DEF TaskWaits, Aligned, Thread
  <2> QED BY <2>2, <2>3 DEF DownIsEmpty
<1> QED BY <1>7, <1>8, <1>9 DEF SentGestureIsCarried, AckedGestureIsDecided, OrdersAreIssued

\* What a call becomes when it has written the file.
LEMMA WritesSpec ==
  ASSUME TypeOK, NEW h \in Thread, Writes(h)
  PROVE  /\ call[h] \in Call /\ call[h] # None
         /\ call' \in [Thread -> Call \cup {None}]
         /\ \A g \in Thread \ {h} : call'[g] = call[g]
         /\ \/ call'[h] = None /\ call[h].starts = {} /\ call[h].stops = {}
            \/ /\ call'[h] # None /\ call'[h].copy = Empty
               /\ call'[h].starts = call[h].starts /\ call'[h].stops = call[h].stops
<1>1. call \in [Thread -> Call \cup {None}] /\ call[h] \in Call /\ call[h] # None
  BY DEF TypeOK, Writes, At
<1> DEFINE c == IF call[h].starts \cup call[h].stops = {} THEN None
                ELSE [call[h] EXCEPT !.at = "act", !.copy = Empty]
<1>2. call' = [call EXCEPT ![h] = c]
  BY DEF Writes
<1>3. CASE call[h].starts \cup call[h].stops = {}
  BY <1>1, <1>2, <1>3
<1>4. CASE call[h].starts \cup call[h].stops # {}
  <2> DEFINE d == [call[h] EXCEPT !.at = "act", !.copy = Empty]
  <2>1. c = d
    BY <1>4
  <2>2. /\ d \in Call /\ d.copy = Empty
        /\ d.starts = call[h].starts /\ d.stops = call[h].stops
    BY <1>1, EmptyType DEF Call
  <2> HIDE DEF d, c
  <2> QED BY <1>1, <1>2, <2>1, <2>2, CallAssumption
<1> QED BY <1>3, <1>4

\* Writing the file, or failing to, preserves the invariant.
LEMMA WritesInvariant ==
  ASSUME IInv, NEW h \in Thread, Writes(h)
  PROVE  IInv'
<1> USE DEF IInv, hubVars, netVars
<1>1. /\ call[h] \in Call /\ call[h] # None
      /\ call' \in [Thread -> Call \cup {None}]
      /\ \A g \in Thread \ {h} : call'[g] = call[g]
      /\ call'[h] = None \/ call'[h].copy = Empty
  BY WritesSpec
<1>2. /\ disk' = disk \/ disk' = call[h].copy
      /\ faults' = faults \/ Fault
      /\ UNCHANGED <<now, acts, hubVars, netVars, up, monitored, queue, verdicts, follow, todo>>
  BY DEF Writes
<1>3. disk' \in Changes
  BY <1>1, <1>2 DEF TypeOK, Call
<1>4. TypeOK'
  BY <1>1, <1>2, <1>3 DEF TypeOK, Fault
<1>5. GesturesInThePast'
  <2>1. \A t \in Target : Empty[t] = None
    BY DEF Empty
  <2> QED BY <1>1, <1>2, <2>1 DEF GesturesInThePast
<1>6. DownIsEmpty' /\ TaskWaits'
  <2>1. up
    BY <1>1 DEF DownIsEmpty
  <2>2. TaskWaits'
    BY <1>1, <1>2 DEF TaskWaits, Aligned, Thread
  <2> QED BY <1>2, <2>1, <2>2 DEF DownIsEmpty
<1> QED BY <1>2, <1>4, <1>5, <1>6 DEF SentGestureIsCarried, AckedGestureIsDecided, OrdersAreIssued

\* Starting or stopping the loops preserves the invariant.
LEMMA ActsInvariant ==
  ASSUME IInv, NEW h \in Thread, Acts(h)
  PROVE  IInv'
<1> USE DEF IInv, Acts, At, hubVars, netVars
<1>1. /\ call \in [Thread -> Call \cup {None}] /\ call[h] \in Call /\ call[h] # None
      /\ monitored \in SUBSET Target
  BY DEF TypeOK
<1>2. /\ call' \in [Thread -> Call \cup {None}]
      /\ call'[h] = None /\ \A g \in Thread \ {h} : call'[g] = call[g]
  BY <1>1
<1>3. monitored' \in SUBSET Target
  BY <1>1 DEF Call
<1>4. TypeOK'
  BY <1>2, <1>3 DEF TypeOK
<1>5. GesturesInThePast'
  BY <1>2 DEF GesturesInThePast
<1>6. DownIsEmpty' /\ TaskWaits'
  <2>1. up
    BY <1>1 DEF DownIsEmpty
  <2>2. TaskWaits'
    BY <1>2 DEF TaskWaits, Aligned, Thread
  <2> QED BY <2>1, <2>2 DEF DownIsEmpty
<1> QED BY <1>4, <1>5, <1>6 DEF SentGestureIsCarried, AckedGestureIsDecided, OrdersAreIssued

\* The heartbeat carries the queue it marks as sent.
LEMMA SendBeatInvariant == IInv /\ SendBeat => IInv'
<1> SUFFICES ASSUME IInv, SendBeat PROVE IInv'
  OBVIOUS
<1> USE DEF IInv, SendBeat, hubVars
<1>1. /\ queue \in Queues /\ now \in Int /\ faults \in Nat /\ verdicts \in Verdicts
  BY DEF TypeOK
<1>2. PICK phase \in Phases :
        req' = [id |-> faults, stage |-> "sent",
                changes |-> Snapshot(queue, now, phase), settled |-> verdicts,
                acks |-> {}, list |-> Unreadable, orders |-> {}]
  OBVIOUS
<1> DEFINE carried == Snapshot(queue, now, phase)
<1>3. /\ carried \in Changes
      /\ \A t \in Target :
           /\ carried[t] = None <=> queue[t] = None
           /\ queue[t] # None =>
                /\ carried[t].age >= 0
                /\ queue[t].since <= now => now - carried[t].age >= queue[t].since
  BY <1>1, SnapshotSpec
<1> HIDE DEF carried
<1>4. /\ req' \in Request /\ req'.stage = "sent"
      /\ req'.changes = carried /\ req'.orders = {}
  <2>1. req' = [id |-> faults, stage |-> "sent",
                changes |-> carried, settled |-> verdicts,
                acks |-> {}, list |-> Unreadable, orders |-> {}]
    BY <1>2 DEF carried
  <2>2. QED
    BY <1>1, <1>3, <2>1, SentSpec
<1>5. /\ queue' \in Queues
      /\ \A t \in Target :
           /\ queue'[t] = None <=> queue[t] = None
           /\ queue[t] # None => /\ queue'[t].removed = queue[t].removed
                                 /\ queue'[t].since = queue[t].since
  BY <1>1, MarkSentSpec
<1>6. TypeOK'
  BY <1>4, <1>5, NoCommandsType DEF TypeOK
<1>7. SentGestureIsCarried'
  <2> SUFFICES ASSUME NEW t \in Target, queue'[t] # None
               PROVE  /\ carried[t] # None
                      /\ ChangeInstant(now, carried[t].age) >= queue'[t].since
    BY <1>4 DEF SentGestureIsCarried
  <2>1. carried[t] # None /\ queue[t] # None /\ queue'[t].since = queue[t].since
    BY <1>3, <1>5
  <2>2. carried[t] \in Change /\ queue[t] \in Gesture
    BY <1>1, <1>3, <2>1 DEF Changes, Queues
  <2>3. /\ carried[t].age \in Int /\ carried[t].age >= 0 /\ queue[t].since \in Int
        /\ now - carried[t].age >= queue[t].since
    BY <1>3, <2>1, <2>2 DEF Change, Gesture, GesturesInThePast
  <2>4. /\ ChangeInstant(now, carried[t].age) \in Int
        /\ ChangeInstant(now, carried[t].age) >= now - carried[t].age
    BY <1>1, <2>3, ChangeInstantSpec
  <2>5. QED
    BY <1>1, <2>1, <2>3, <2>4
<1>8. AckedGestureIsDecided' /\ DownIsEmpty'
  BY <1>4 DEF AckedGestureIsDecided, DownIsEmpty
<1>9. GesturesInThePast' /\ TaskWaits'
  BY <1>5 DEF GesturesInThePast, TaskWaits, Aligned
<1>10. OrdersAreIssued'
  BY <1>4 DEF OrdersAreIssued
<1>11. QED
  BY <1>6, <1>7, <1>8, <1>9, <1>10

\* A beat that gives up before its request preserves the invariant.
LEMMA BeatAbortsInvariant == IInv /\ BeatAborts => IInv'
<1> SUFFICES ASSUME IInv, BeatAborts PROVE IInv'
  OBVIOUS
<1> USE DEF IInv, BeatAborts, hubVars, netVars
<1>1. TypeOK'
  BY NoCommandsType DEF TypeOK, Fault
<1>2. QED
  BY <1>1 DEF GesturesInThePast, DownIsEmpty, SentGestureIsCarried,
              AckedGestureIsDecided, OrdersAreIssued, TaskWaits, Aligned

\* What the hub acknowledges, it has decided on.
LEMMA HubArbitratesInvariant == IInv /\ HubArbitrates => IInv'
<1> SUFFICES ASSUME IInv, HubArbitrates PROVE IInv'
  OBVIOUS
<1> USE DEF IInv, HubArbitrates, probeVars
<1>1. /\ req \in Request /\ rows \in Rows /\ cmds \in Commands
      /\ now \in Int /\ queue \in Queues /\ req # None
  BY DEF TypeOK
<1>2. PICK written \in SUBSET Target, stored \in SUBSET CommandId :
        /\ Arbitrating(req, written, stored)
        /\ req' = Arbitrated(req, written)
        /\ faults' = faults \/ Fault
  OBVIOUS
<1>3. /\ req.stage = "sent" /\ req.changes \in Changes /\ req.settled \in Verdicts
  BY <1>1, <1>2 DEF Arbitrating, Request
<1>4. /\ req' \in Request /\ req'.stage = "arbitrated"
      /\ req'.acks = {t \in written : req.changes[t] # None}
      /\ req'.orders = req.orders
  BY <1>1, <1>2, ArbitratedSpec
<1>5. KeepsOrders(cmds, cmds')
  BY <1>1, <1>2, <1>3, SettleSpec DEF Arbitrating
<1>6. /\ rows' \in Rows
      /\ \A t \in written :
           req.changes[t] # None =>
             rows'[t] # None /\ rows'[t].at >= ChangeInstant(now, req.changes[t].age)
  BY <1>1, <1>2, <1>3, ArbitrateSpec DEF Arbitrating
<1>7. TypeOK'
  BY <1>2, <1>4, <1>5, <1>6 DEF TypeOK, Fault, KeepsOrders
<1>8. AckedGestureIsDecided'
  <2> SUFFICES ASSUME NEW t \in written, req.changes[t] # None,
                      queue[t] # None, queue[t].sent
               PROVE  rows'[t] # None /\ rows'[t].at >= queue[t].since
    BY <1>4 DEF AckedGestureIsDecided
  <2> DEFINE at == ChangeInstant(now, req.changes[t].age)
  <2>1. rows'[t] # None /\ rows'[t].at >= at
    BY <1>6
  <2>2. at >= queue[t].since
    BY <1>1, <1>3 DEF SentGestureIsCarried
  <2>3. req.changes[t] \in Change /\ queue[t] \in Gesture /\ rows'[t] \in Row
    BY <1>1, <1>3, <1>6, <2>1 DEF Changes, Queues, Rows
  <2>4. req.changes[t].age \in Int /\ queue[t].since \in Int /\ rows'[t].at \in Int
    BY <2>3 DEF Change, Gesture, Row
  <2>5. at \in Int
    BY <1>1, <2>4, MaxAgeAssumption DEF ChangeInstant
  <2> HIDE DEF at
  <2>6. QED
    BY <2>1, <2>2, <2>4, <2>5
<1>9. OrdersAreIssued'
  BY <1>1, <1>4, <1>5 DEF OrdersAreIssued, KeepsOrders, Request, TypeOK
<1>10. SentGestureIsCarried' /\ DownIsEmpty'
  BY <1>1, <1>4 DEF SentGestureIsCarried, DownIsEmpty
<1>11. GesturesInThePast' /\ TaskWaits'
  BY DEF GesturesInThePast, TaskWaits, Aligned
<1>12. QED
  BY <1>7, <1>8, <1>9, <1>10, <1>11

\* Reading the list, or failing to, preserves the invariant.
LEMMA HubListsInvariant == IInv /\ HubLists => IInv'
<1> SUFFICES ASSUME IInv, HubLists PROVE IInv'
  OBVIOUS
<1> USE DEF IInv, HubLists, hubVars, probeVars
<1>1. req \in Request /\ rows \in Rows
  BY DEF TypeOK
<1>2. /\ req' \in Request /\ req'.stage = "listed"
      /\ req'.acks = req.acks /\ req'.orders = req.orders
  <2>1. PICK l \in Lists : req' = [req EXCEPT !.stage = "listed", !.list = l]
    BY <1>1, ListOfType, UnreadableType
  <2>2. QED
    BY <1>1, <2>1 DEF Request, Stage
<1>3. TypeOK'
  BY <1>2 DEF TypeOK, Fault
<1>4. AckedGestureIsDecided' /\ SentGestureIsCarried' /\ OrdersAreIssued'
  BY <1>2 DEF AckedGestureIsDecided, SentGestureIsCarried, OrdersAreIssued
<1>5. QED
  BY <1>3, <1>4 DEF GesturesInThePast, DownIsEmpty, TaskWaits, Aligned

\* Taking the pending commands and answering preserves the invariant.
LEMMA HubRepliesInvariant == IInv /\ HubReplies => IInv'
<1> SUFFICES ASSUME IInv, HubReplies PROVE IInv'
  OBVIOUS
<1> USE DEF IInv, HubReplies, probeVars
<1>1. req \in Request /\ cmds \in Commands
  BY DEF TypeOK
<1>2. /\ KeepsOrders(cmds, cmds')
      /\ req' \in Request /\ req'.stage = "replied" /\ req'.acks = req.acks
      /\ \A id \in req'.orders : id \in CommandId /\ cmds[id].state # "unused"
  <2>1. CASE /\ cmds' = CountDelivery(cmds)
             /\ req' = [req EXCEPT !.stage = "replied", !.orders = Pending(GiveUp(cmds))]
    <3>1. /\ KeepsOrders(cmds, cmds') /\ Pending(GiveUp(cmds)) \in SUBSET CommandId
          /\ \A id \in Pending(GiveUp(cmds)) : cmds[id].state # "unused"
      BY <1>1, <2>1, CountDeliverySpec
    <3>2. /\ req' \in Request /\ req'.stage = "replied" /\ req'.acks = req.acks
          /\ req'.orders = Pending(GiveUp(cmds))
      BY <1>1, <2>1, <3>1 DEF Request, Stage
    <3>3. QED
      BY <3>1, <3>2
  <2>2. CASE /\ req' = [req EXCEPT !.stage = "replied", !.orders = {}]
             /\ cmds' = cmds
    <3>1. KeepsOrders(cmds, cmds')
      BY <1>1, <2>2 DEF KeepsOrders
    <3>2. /\ req' \in Request /\ req'.stage = "replied" /\ req'.acks = req.acks
          /\ req'.orders = {}
      BY <1>1, <2>2 DEF Request, Stage
    <3>3. QED
      BY <3>1, <3>2
  <2>3. QED
    BY <2>1, <2>2
<1>3. TypeOK'
  BY <1>2 DEF TypeOK, Fault, KeepsOrders
<1>4. AckedGestureIsDecided' /\ SentGestureIsCarried'
  BY <1>2 DEF AckedGestureIsDecided, SentGestureIsCarried
<1>5. OrdersAreIssued'
  BY <1>2 DEF OrdersAreIssued, KeepsOrders, TypeOK
<1>6. QED
  BY <1>3, <1>4, <1>5 DEF GesturesInThePast, DownIsEmpty, TaskWaits, Aligned

\* A heartbeat the probe gives up on preserves the invariant.
LEMMA BeatFailsInvariant == IInv /\ BeatFails => IInv'
<1> SUFFICES ASSUME IInv, BeatFails PROVE IInv'
  OBVIOUS
<1> USE DEF IInv, BeatFails, hubVars, probeVars
<1>1. late' \in SUBSET Request
  BY ForsakenSpec DEF TypeOK
<1>2. TypeOK'
  BY <1>1 DEF TypeOK, Fault
<1>3. QED
  BY <1>2 DEF GesturesInThePast, DownIsEmpty, SentGestureIsCarried,
              AckedGestureIsDecided, OrdersAreIssued, TaskWaits, Aligned

\* Arbitrating a late heartbeat preserves the invariant: the decisions
\* matching acknowledged gestures only get newer.
LEMMA LateArbitratesInvariant ==
  ASSUME IInv, NEW r \in late, LateArbitrates(r)
  PROVE  IInv'
<1> USE DEF IInv, LateArbitrates, probeVars
<1>1. /\ r \in Request /\ rows \in Rows /\ cmds \in Commands /\ now \in Int
      /\ late \in SUBSET Request
  BY DEF TypeOK
<1>2. r.changes \in Changes /\ r.settled \in Verdicts
  BY <1>1 DEF Request
<1>3. KeepsOrders(cmds, cmds')
  BY <1>1, <1>2, SettleSpec DEF Arbitrating
<1>4. rows' \in Rows /\ \A t \in Target : NotOlder(rows[t], rows'[t])
  BY <1>1, <1>2, ArbitrateSpec DEF Arbitrating
<1>5. late' \in SUBSET Request
  BY <1>1, ArbitratedSpec, ForsakenSpec
<1>6. TypeOK'
  BY <1>3, <1>4, <1>5 DEF TypeOK, KeepsOrders
<1>7. AckedGestureIsDecided'
  BY <1>4, StillDecided
<1>8. OrdersAreIssued'
  BY <1>3, StillIssued
<1>9. QED
  BY <1>6, <1>7, <1>8 DEF GesturesInThePast, DownIsEmpty, SentGestureIsCarried,
                          TaskWaits, Aligned

\* Ending a late heartbeat preserves the invariant.
LEMMA LateRepliesInvariant ==
  ASSUME IInv, NEW r \in late, LateReplies(r)
  PROVE  IInv'
<1> USE DEF IInv, LateReplies, probeVars
<1>1. KeepsOrders(cmds, cmds')
  BY CountDeliverySpec DEF TypeOK
<1>2. TypeOK'
  BY <1>1 DEF TypeOK, KeepsOrders
<1>3. OrdersAreIssued'
  BY <1>1, StillIssued
<1>4. QED
  BY <1>2, <1>3 DEF GesturesInThePast, DownIsEmpty, SentGestureIsCarried,
                    AckedGestureIsDecided, TaskWaits, Aligned

\* Acknowledging, and what is left to do, preserve the invariant.
LEMMA ApplyReplyInvariant == IInv /\ ApplyReply => IInv'
<1> SUFFICES ASSUME IInv, ApplyReply PROVE IInv'
  OBVIOUS
<1> USE DEF IInv, ApplyReply, hubVars
<1>1. /\ req \in Request /\ queue \in Queues /\ now \in Int /\ Task \in Thread
  BY DEF TypeOK, Thread
<1>2. req.acks \in SUBSET Target /\ req.list \in Lists /\ req.orders \in SUBSET CommandId
  BY <1>1 DEF Request
<1>3. /\ queue' \in Queues
      /\ \A t \in Target :
           queue'[t] = queue[t] \/ (queue'[t] = None /\ t \in req.acks)
  BY <1>1, <1>2, AcknowledgeSpec
<1>4. call' \in [Thread -> Call \cup {None}] /\ GesturesInThePast'
  <2>1. \A t \in Target : queue'[t] # None => queue'[t].since <= now
    BY <1>3 DEF GesturesInThePast
  <2>2. CASE req.acks = {}
    BY <2>1, <2>2 DEF TypeOK, GesturesInThePast
  <2>3. CASE req.acks # {}
    <3>1. Begins(Task, "copy", {}, {})
      BY <2>3
    <3>2. {} \in SUBSET Target
      OBVIOUS
    <3>3. Begun(Task, {}, {})
      BY <1>1, <3>1, <3>2, BeginsSpec
    <3>4. GesturesInThePast'
      BY <1>1, <1>3, <2>1, <3>1, <3>2, BeginsInThePast
    <3> QED BY <3>3, <3>4 DEF Begun
  <2> QED BY <2>2, <2>3
<1>5. TypeOK'
  BY <1>2, <1>3, <1>4 DEF TypeOK
<1>6. OrdersAreIssued'
  BY DEF OrdersAreIssued
<1>7. QED
  BY <1>4, <1>5, <1>6
     DEF DownIsEmpty, SentGestureIsCarried, AckedGestureIsDecided, TaskWaits, Aligned

\* Following the list begins at most a call that touches one target.
LEMMA FollowsSpec ==
  ASSUME TypeOK, NEW t \in Target, Follows(t)
  PROVE  \/ call' = call
         \/ /\ queue[t] = None
            /\ \/ Begins(Task, "act", {}, {t}) /\ follow[t] = "removed"
               \/ Begins(Task, "act", {t}, {})
BY DEF Follows, Obeys

\* Following the list preserves the invariant.
LEMMA FollowsInvariant ==
  ASSUME IInv, NEW t \in Target, Follows(t)
  PROVE  IInv'
<1> USE DEF IInv, hubVars, netVars
<1>1. /\ follow[t] # "unknown" /\ follow' = [follow EXCEPT ![t] = "unknown"]
      /\ UNCHANGED <<now, acts, faults, hubVars, netVars, up, monitored, queue, disk, verdicts, todo>>
  BY DEF Follows
<1>2. Task \in Thread /\ {} \in SUBSET Target /\ {t} \in SUBSET Target
      /\ queue' \in Queues /\ \A u \in Target : queue'[u] # None => queue'[u].since <= now
  BY <1>1 DEF Thread, TypeOK, GesturesInThePast
<1>3. call' \in [Thread -> Call \cup {None}] /\ GesturesInThePast'
  <2>1. CASE call' = call
    BY <1>1, <2>1 DEF TypeOK, GesturesInThePast
  <2>2. ASSUME NEW starts \in SUBSET Target, NEW stops \in SUBSET Target,
               Begins(Task, "act", starts, stops)
        PROVE  call' \in [Thread -> Call \cup {None}] /\ GesturesInThePast'
    <3>1. Begun(Task, starts, stops)
      BY <1>2, <2>2, BeginsSpec
    <3>2. GesturesInThePast'
      BY <1>1, <1>2, <2>2, BeginsInThePast
    <3> QED BY <3>1, <3>2 DEF Begun
  <2> QED BY <1>2, <2>1, <2>2, FollowsSpec
<1>4. follow' \in Lists
  BY <1>1 DEF TypeOK, Lists
<1>5. TypeOK'
  BY <1>1, <1>3, <1>4 DEF TypeOK
<1>6. up /\ req = None
  <2>1. Unreadable[t] = "unknown"
    BY DEF Unreadable
  <2> QED BY <1>1, <2>1 DEF DownIsEmpty, TaskWaits, Aligned
<1> QED BY <1>1, <1>3, <1>5, <1>6
           DEF DownIsEmpty, TaskWaits, SentGestureIsCarried, AckedGestureIsDecided, OrdersAreIssued

\* A crash preserves the invariant: the file is all that survives.
LEMMA CrashInvariant == IInv /\ Crash => IInv'
<1> SUFFICES ASSUME IInv, Crash PROVE IInv'
  OBVIOUS
<1> USE DEF IInv, Crash, hubVars
<1>1. late' \in SUBSET Request
  BY ForsakenSpec DEF TypeOK
<1>2. TypeOK'
  <2>1. queue' \in Queues /\ verdicts' \in Verdicts /\ follow' \in Lists
        /\ call' \in [Thread -> Call \cup {None}]
    BY EmptyType, NoCommandsType, UnreadableType
  <2>2. /\ monitored' \in SUBSET Target /\ todo' \in SUBSET CommandId
        /\ up' \in BOOLEAN /\ req' \in Request \cup {None}
    OBVIOUS
  <2>3. /\ now' \in Nat /\ acts' \in Nat /\ faults' \in Nat /\ rows' \in Rows
        /\ cmds' \in Commands /\ noting' \in SUBSET CommandId /\ disk' \in Changes
    BY DEF TypeOK, Fault
  <2>4. QED
    BY <1>1, <2>1, <2>2, <2>3 DEF TypeOK
<1>3. \A t \in Target : queue'[t] = None
  BY DEF Empty
<1>4. QED
  BY <1>2, <1>3 DEF GesturesInThePast, DownIsEmpty, SentGestureIsCarried,
                    AckedGestureIsDecided, OrdersAreIssued, TaskWaits, Aligned

\* A restart preserves the invariant: the queue is the file's.
LEMMA RestartInvariant == IInv /\ Restart => IInv'
<1> SUFFICES ASSUME IInv, Restart PROVE IInv'
  OBVIOUS
<1> USE DEF IInv, Restart, hubVars, netVars
<1>1. PICK rebooted \in BOOLEAN : queue' = Restore(disk, now, rebooted)
  OBVIOUS
<1>2. disk \in Changes /\ now \in Int /\ \A t \in Target : disk[t] # None => disk[t].age >= 0
  BY DEF TypeOK, GesturesInThePast
<1>3. /\ queue' \in Queues
      /\ \A t \in Target :
           /\ queue'[t] = None <=> disk[t] = None
           /\ disk[t] # None => /\ queue'[t].removed = disk[t].removed
                                /\ queue'[t].since <= now
  BY <1>1, <1>2, RestoreSpec
<1>4. req = None /\ monitored = {} /\ call = [h \in Thread |-> None]
  BY DEF DownIsEmpty
<1>5. TypeOK'
  BY <1>3 DEF TypeOK
<1>6. QED
  BY <1>2, <1>3, <1>4, <1>5
     DEF GesturesInThePast, DownIsEmpty, SentGestureIsCarried,
         AckedGestureIsDecided, OrdersAreIssued, TaskWaits, Aligned

\* What the three ways the hub itself writes a decision have in common.
LEMMA DecidingInvariant ==
  ASSUME IInv, NEW t \in Target, NEW removed \in BOOLEAN,
         rows' = ApplyChange(rows, t, removed, now) \/ rows' = rows,
         acts' \in Nat, faults' \in Nat, noting' \in SUBSET noting,
         UNCHANGED <<now, cmds, netVars, probeVars>>
  PROVE  IInv'
<1> USE DEF IInv, netVars, probeVars
<1>1. rows \in Rows /\ now \in Int
  BY DEF TypeOK
<1>2. rows' \in Rows /\ \A u \in Target : NotOlder(rows[u], rows'[u])
  BY <1>1, ApplyChangeSpec DEF NotOlder
<1>3. TypeOK'
  BY <1>2 DEF TypeOK
<1>4. AckedGestureIsDecided'
  BY <1>2, StillDecided
<1>5. OrdersAreIssued'
  BY DEF OrdersAreIssued
<1>6. QED
  BY <1>3, <1>4, <1>5 DEF GesturesInThePast, DownIsEmpty, SentGestureIsCarried,
                          TaskWaits, Aligned

\* Issuing a command preserves the invariant.
LEMMA CreateCommandInvariant ==
  ASSUME IInv, NEW id \in CommandId, NEW order \in Order, CreateCommand(id, order)
  PROVE  IInv'
<1> USE DEF IInv, CreateCommand, netVars, probeVars
<1>1. /\ cmds' \in Commands /\ cmds'[id].order = order
      /\ \A j \in CommandId \ {id} : cmds'[j] = cmds[j]
  BY EnqueueSpec DEF TypeOK
<1>2. TypeOK'
  BY <1>1 DEF TypeOK, Act
<1>3. OrdersAreIssued'
  BY <1>1 DEF OrdersAreIssued, TypeOK, Request
<1>4. QED
  BY <1>2, <1>3 DEF GesturesInThePast, DownIsEmpty, SentGestureIsCarried,
                    AckedGestureIsDecided, TaskWaits, Aligned

\* Writing the decision of a command preserves the invariant.
LEMMA NoteDecisionInvariant ==
  ASSUME IInv, NEW id \in CommandId, NoteDecision(id)
  PROVE  IInv'
<1> USE DEF IInv, NoteDecision
<1>1. cmds[id].order \in MonitorOrder
  BY OrderAssumption DEF OrdersAreIssued
<1>2. cmds[id].order.target \in Target /\ cmds[id].order.removed \in BOOLEAN
  BY <1>1 DEF MonitorOrder
<1>3. acts' \in Nat /\ faults' \in Nat
  BY DEF TypeOK, Fault
<1>4. QED
  BY <1>2, <1>3, DecidingInvariant

\* The invariant is inductive.
THEOREM NextInvariant == IInv /\ [Next]_vars => IInv'
<1> SUFFICES ASSUME IInv, [Next]_vars PROVE IInv'
  OBVIOUS
<1>1. CASE Tick
  BY <1>1, TickInvariant
<1>2. CASE \E h \in Window, t \in Target, removed \in BOOLEAN : UserGesture(h, t, removed)
  BY <1>2, UserGestureInvariant
<1>3. CASE \E id \in CommandId : ExecuteCommand(id)
  BY <1>3, ExecuteCommandInvariant
<1>4. CASE SendBeat
  BY <1>4, SendBeatInvariant
<1>5. CASE BeatAborts
  BY <1>5, BeatAbortsInvariant
<1>6. CASE HubArbitrates
  BY <1>6, HubArbitratesInvariant
<1>7. CASE HubLists
  BY <1>7, HubListsInvariant
<1>8. CASE HubReplies
  BY <1>8, HubRepliesInvariant
<1>9. CASE BeatFails
  BY <1>9, BeatFailsInvariant
<1>10. CASE \E r \in late : LateArbitrates(r)
  BY <1>10, LateArbitratesInvariant
<1>11. CASE \E r \in late : LateReplies(r)
  BY <1>11, LateRepliesInvariant
<1>12. CASE ApplyReply
  BY <1>12, ApplyReplyInvariant
<1>13. CASE Crash
  BY <1>13, CrashInvariant
<1>14. CASE Restart
  BY <1>14, RestartInvariant
<1>15. CASE \E t \in Target, removed \in BOOLEAN : HubDecides(t, removed)
  <2>1. PICK t \in Target, removed \in BOOLEAN : HubDecides(t, removed)
    BY <1>15
  <2>2. acts' \in Nat /\ faults' \in Nat
    BY <2>1 DEF HubDecides, Act, IInv, TypeOK
  <2>3. QED
    BY <2>1, <2>2, DecidingInvariant DEF HubDecides
<1>16. CASE \E id \in CommandId, order \in Order : CreateCommand(id, order)
  BY <1>16, CreateCommandInvariant
<1>17. CASE \E id \in CommandId : NoteDecision(id)
  BY <1>17, NoteDecisionInvariant
<1>20. CASE \E h \in Thread : Copies(h)
  BY <1>20, CopiesInvariant
<1>21. CASE \E h \in Thread : Writes(h)
  BY <1>21, WritesInvariant
<1>22. CASE \E h \in Thread : Acts(h)
  BY <1>22, ActsInvariant
<1>23. CASE \E t \in Target : Follows(t)
  BY <1>23, FollowsInvariant
<1>18. CASE UNCHANGED vars
  BY <1>18 DEF vars, hubVars, netVars, probeVars, IInv, TypeOK, GesturesInThePast,
               DownIsEmpty, SentGestureIsCarried, AckedGestureIsDecided,
               OrdersAreIssued, TaskWaits, Aligned
<1>19. QED
  BY <1>1, <1>2, <1>3, <1>4, <1>5, <1>6, <1>7, <1>8, <1>9, <1>10, <1>11, <1>12,
     <1>13, <1>14, <1>15, <1>16, <1>17, <1>18, <1>20, <1>21, <1>22, <1>23 DEF Next

-----------------------------------------------------------------------------
(* What a step does to the queue.                                          *)

\* While the application runs, the queue changes with a gesture, a heartbeat
\* that leaves or an answer that is applied.
LEMMA QueueSteps ==
  ASSUME IInv, [Next]_vars, up, up'
  PROVE  \/ queue' = queue
         \/ \E h \in Thread, t \in Target, removed \in BOOLEAN : Gesturing(h, t, removed)
         \/ SendBeat
         \/ ApplyReply
<1>1. CASE \E id \in CommandId : ExecuteCommand(id)
  <2>1. PICK id \in CommandId : ExecuteCommand(id)
    BY <1>1
  <2>2. cmds[id].order \in MonitorOrder
    BY <2>1, OrderAssumption DEF ExecuteCommand, IsFirst, IInv, OrdersAreIssued
  <2>3. cmds[id].order.target \in Target /\ cmds[id].order.removed \in BOOLEAN
    BY <2>2 DEF MonitorOrder
  <2>4. QED
    BY <2>1, <2>3 DEF ExecuteCommand, Thread
<1>2. CASE ~(\E id \in CommandId : ExecuteCommand(id))
  BY <1>2 DEF Next, vars, netVars, probeVars, Tick, UserGesture, Thread, Copies, Writes, Acts,
              Follows, BeatAborts, HubArbitrates, HubLists, HubReplies, BeatFails, LateArbitrates,
              LateReplies, Crash, Restart, HubDecides, CreateCommand, NoteDecision
<1>3. QED
  BY <1>1, <1>2

-----------------------------------------------------------------------------
(* The theorems.                                                           *)

\* The inductive invariant holds in every reachable state.
THEOREM Invariance == Spec => []IInv
<1>1. Init => IInv
  BY InitInvariant
<1>2. IInv /\ [Next]_vars => IInv'
  BY NextInvariant
<1>3. QED
  BY <1>1, <1>2, PTL DEF Spec

\* Every variable keeps its type (the tables, the heartbeats in flight, the
\* probe's queue and its file).
THEOREM TypeCorrect == Spec => []TypeOK
<1>1. IInv => TypeOK
  BY DEF IInv
<1>2. QED
  BY <1>1, Invariance, PTL

\* A gesture leaves the queue only when the hub holds a decision at least as
\* recent as it: no heartbeat, lost, late or doubled, and no acknowledgement
\* of an older gesture carries it off (acknowledge).
THEOREM NoGestureIsLost == Spec => GestureLeavesOnlyArbitrated
<1> DEFINE A == \A t \in Target :
                  up /\ up' /\ queue[t] # None /\ queue'[t] = None
                    => rows[t] # None /\ rows[t].at >= queue[t].since
<1>1. IInv /\ [Next]_vars => A
  <2> SUFFICES ASSUME IInv, [Next]_vars, NEW t \in Target, up, up',
                      queue[t] # None, queue'[t] = None
               PROVE  rows[t] # None /\ rows[t].at >= queue[t].since
    OBVIOUS
  <2>1. queue \in Queues /\ now \in Int /\ req \in Request \cup {None}
    BY DEF IInv, TypeOK
  <2>2. ASSUME NEW h \in Thread, NEW u \in Target, NEW removed \in BOOLEAN, Gesturing(h, u, removed)
        PROVE  FALSE
    <3>1. queue' = Record(queue, u, removed, now)
      BY <2>2 DEF Gesturing
    <3>2. Record(queue, u, removed, now)[t] # None
      BY <2>1, RecordKeeps
    <3>3. QED
      BY <3>1, <3>2
  <2>3. ~SendBeat
    BY <2>1, MarkSentSpec DEF SendBeat
  <2>4. ApplyReply
    BY <2>2, <2>3, QueueSteps
  <2>5. req \in Request /\ req.stage = "replied" /\ req # None
    BY <2>1, <2>4 DEF ApplyReply
  <2>6. req.acks \in SUBSET Target
    BY <2>5 DEF Request
  <2>7. queue' = Acknowledge(queue, req.acks)
    BY <2>4 DEF ApplyReply
  <2>8. t \in req.acks /\ queue[t].sent
    BY <2>1, <2>6, <2>7, AcknowledgeSpec
  <2>9. QED
    BY <2>5, <2>8 DEF IInv, AckedGestureIsDecided
<1>2. QED
  BY <1>1, Invariance, PTL DEF Spec, GestureLeavesOnlyArbitrated

-----------------------------------------------------------------------------
(* A target nobody ever asked to stop.                                     *)

\* A gesture, a decision or a change that does not ask to stop.
AsksNoStop(x) == x # None => ~x.removed

\* Whatever is waiting, written, on its way or ordered, nothing asks to stop
\* measuring the target.
NeverStopped(t) ==
  /\ AsksNoStop(rows[t]) /\ AsksNoStop(queue[t]) /\ AsksNoStop(disk[t])
  /\ follow[t] # "removed"
  /\ \A h \in Thread : call[h] # None => AsksNoStop(call[h].copy[t]) /\ t \notin call[h].stops
  /\ req # None => AsksNoStop(req.changes[t]) /\ req.list[t] # "removed"
  /\ \A r \in late : AsksNoStop(r.changes[t])
  /\ \A id \in CommandId : cmds[id].order \in Order /\ cmds[id].order.target = t => ~cmds[id].order.removed

\* Somebody asks, for another target or to measure this one (record,
\* apply_monitor_change).
LEMMA RecordAsks ==
  ASSUME NEW q \in Queues, NEW u \in Target, NEW removed \in BOOLEAN, NEW n \in Int,
         NEW t \in Target, AsksNoStop(q[t]), u = t => ~removed
  PROVE  AsksNoStop(Record(q, u, removed, n)[t])
<1> DEFINE g == [removed |-> removed, since |-> n, sent |-> FALSE]
<1>1. g.removed = removed
  OBVIOUS
<1>2. /\ Record(q, u, removed, n)[u] = g
      /\ \A v \in Target \ {u} : Record(q, u, removed, n)[v] = q[v]
  BY RecordSpec
<1> HIDE DEF g
<1> QED BY <1>1, <1>2 DEF AsksNoStop

LEMMA ApplyChangeAsks ==
  ASSUME NEW table \in Rows, NEW u \in Target, NEW removed \in BOOLEAN, NEW at \in Int,
         NEW t \in Target, AsksNoStop(table[t]), u = t => ~removed
  PROVE  AsksNoStop(ApplyChange(table, u, removed, at)[t])
<1> DEFINE row == [removed |-> removed, at |-> at]
<1>1. row.removed = removed
  OBVIOUS
<1>2. ApplyChange(table, u, removed, at) \in {table, [table EXCEPT ![u] = row]}
  BY DEF ApplyChange
<1> HIDE DEF row
<1>3. [table EXCEPT ![u] = row][u] = row /\ \A v \in Target \ {u} : [table EXCEPT ![u] = row][v] = table[v]
  BY DEF Rows
<1> QED BY <1>1, <1>2, <1>3 DEF AsksNoStop

\* One heartbeat's changes (arbitrate).
LEMMA ArbitrateAsks ==
  ASSUME NEW table \in Rows, NEW changes \in Changes, NEW written \in SUBSET Target, NEW n \in Int,
         NEW t \in Target, AsksNoStop(table[t]), AsksNoStop(changes[t])
  PROVE  AsksNoStop(Arbitrate(table, changes, written, n)[t])
<1>1. CASE changes[t] # None /\ t \in written
  <2> DEFINE at == ChangeInstant(n, changes[t].age)
  <2>1. changes[t] \in Change
    BY <1>1 DEF Changes
  <2>2. changes[t].removed = FALSE /\ changes[t].age \in Int
    BY <1>1, <2>1 DEF Change, AsksNoStop
  <2>3. at \in Int
    BY <2>2, MaxAgeAssumption DEF ChangeInstant
  <2>4. Arbitrate(table, changes, written, n)[t] = ApplyChange(table, t, FALSE, at)[t]
    BY <1>1, <2>2 DEF Arbitrate
  <2> HIDE DEF at
  <2> QED BY <2>3, <2>4, ApplyChangeAsks
<1>2. CASE ~(changes[t] # None /\ t \in written)
  BY <1>2 DEF Arbitrate
<1> QED BY <1>1, <1>2

\* The copies of a queue ask what it asks (outgoing, acknowledge, restore).
LEMMA CopiesAsk ==
  ASSUME NEW q \in Queues, NEW t \in Target, AsksNoStop(q[t])
  PROVE  /\ \A n \in Int, phase \in Phases : AsksNoStop(Snapshot(q, n, phase)[t])
         /\ AsksNoStop(MarkSent(q)[t])
         /\ \A acks \in SUBSET Target : AsksNoStop(Acknowledge(q, acks)[t])
<1>1. ASSUME NEW n \in Int, NEW phase \in Phases PROVE AsksNoStop(Snapshot(q, n, phase)[t])
  BY SnapshotSpec DEF AsksNoStop
<1>2. AsksNoStop(MarkSent(q)[t])
  BY MarkSentSpec DEF AsksNoStop
<1>3. ASSUME NEW acks \in SUBSET Target PROVE AsksNoStop(Acknowledge(q, acks)[t])
  BY AcknowledgeSpec DEF AsksNoStop
<1> QED BY <1>1, <1>2, <1>3

\* The list of the hub names no target as removed that is not.
LEMMA ListAsks ==
  ASSUME NEW table \in Rows, NEW t \in Target, AsksNoStop(table[t])
  PROVE  ListOf(table)[t] # "removed" /\ Unreadable[t] # "removed"
BY DEF ListOf, Unreadable, AsksNoStop

\* A table that keeps its orders asks what it asked.
LEMMA OrdersAsk ==
  ASSUME NEW t \in Target, KeepsOrders(cmds, cmds'),
         \A id \in CommandId : cmds[id].order \in Order /\ cmds[id].order.target = t => ~cmds[id].order.removed
  PROVE  \A id \in CommandId : cmds'[id].order \in Order /\ cmds'[id].order.target = t => ~cmds'[id].order.removed
BY DEF KeepsOrders

\* What the calls have under way asks to stop nothing.
CallsAsk(t) == \A h \in Thread : call[h] # None => AsksNoStop(call[h].copy[t]) /\ t \notin call[h].stops

\* A call that begins, but to stop the target.
LEMMA BeginsAsks ==
  ASSUME TypeOK, NEW t \in Target, NeverStopped(t), NEW h \in Thread, NEW step \in {"copy", "write", "act"},
         NEW starts \in SUBSET Target, NEW stops \in SUBSET Target, t \notin stops,
         Begins(h, step, starts, stops)
  PROVE  CallsAsk(t)'
<1>0. Begun(h, starts, stops)
  BY BeginsSpec
<1>1. /\ call'[h].copy = Empty /\ call'[h].stops = stops
      /\ \A g \in Thread \ {h} : call'[g] = call[g]
  BY <1>0 DEF Begun
<1>2. Empty[t] = None
  BY DEF Empty
<1> QED BY <1>1, <1>2 DEF CallsAsk, NeverStopped, AsksNoStop

\* A gesture at the probe, but to stop the target, asks nothing of it.
LEMMA GesturingAsks ==
  ASSUME TypeOK, NEW t \in Target, NeverStopped(t), NEW h \in Thread, NEW u \in Target, NEW removed \in BOOLEAN,
         u = t => ~removed, Gesturing(h, u, removed)
  PROVE  AsksNoStop(queue'[t]) /\ CallsAsk(t)'
<1>1. queue \in Queues /\ now \in Int
  BY DEF TypeOK
<1>2. queue' = Record(queue, u, removed, now)
  BY DEF Gesturing
<1>3. AsksNoStop(queue'[t])
  BY <1>1, <1>2, RecordAsks DEF NeverStopped
<1>4. PICK starts \in SUBSET Target, stops \in SUBSET Target :
        Begins(h, "copy", starts, stops) /\ t \notin stops
  BY DEF Gesturing
<1> QED BY <1>3, <1>4, BeginsAsks

\* Where nobody asks to stop the target, nothing comes to ask it, and it is
\* measured as long as the application runs: the steps of the system.
LEMMA SystemAsks ==
  ASSUME IInv, NEW t \in Target, NeverStopped(t), SystemSteps
  PROVE  NeverStopped(t)' /\ (t \in monitored /\ up' => t \in monitored')
<1> DEFINE Measured == t \in monitored /\ up' => t \in monitored'
           Kept == NeverStopped(t)' /\ Measured
<1>0. /\ rows \in Rows /\ cmds \in Commands /\ now \in Int /\ req \in Request \cup {None} /\ late \in SUBSET Request
      /\ queue \in Queues /\ disk \in Changes /\ monitored \in SUBSET Target /\ TypeOK
  BY DEF IInv, TypeOK
<1>a. ASSUME NEW r \in Request
      PROVE  /\ r.changes \in Changes /\ r.settled \in Verdicts /\ r.acks \in SUBSET Target /\ r.list \in Lists
             /\ \A written \in SUBSET Target : AsksNoStop(Arbitrated(r, written).changes[t])
  <2>1. r.changes \in Changes /\ r.settled \in Verdicts /\ r.acks \in SUBSET Target /\ r.list \in Lists
    BY DEF Request
  <2>2. AsksNoStop(Empty[t])
    BY DEF AsksNoStop, Empty
  <2> QED BY <2>1, <2>2, ArbitratedSpec
<1>b. ASSUME NEW r \in Request, AsksNoStop(r.changes[t]), NEW written \in SUBSET Target,
             NEW stored \in SUBSET CommandId, Arbitrating(r, written, stored)
      PROVE  AsksNoStop(rows'[t]) /\ KeepsOrders(cmds, cmds')
  BY <1>0, <1>a, <1>b, ArbitrateAsks, SettleSpec DEF Arbitrating, NeverStopped
<1>c. ASSUME NEW id \in CommandId, cmds[id].order \in Order
      PROVE  /\ cmds[id].order.target \in Target /\ cmds[id].order.removed \in BOOLEAN
             /\ cmds[id].order.target = t => ~cmds[id].order.removed
  BY <1>c, OrderAssumption DEF MonitorOrder, NeverStopped
<1>d. Task \in Thread /\ Unreadable[t] # "removed"
  BY DEF Thread, Unreadable
<1>1. CASE Tick
  BY <1>1 DEF Tick, NeverStopped, hubVars, netVars, probeVars
<1>2. CASE SendBeat
  <2>1. PICK phase \in Phases :
          req' = [id |-> faults, stage |-> "sent", changes |-> Snapshot(queue, now, phase), settled |-> verdicts,
                  acks |-> {}, list |-> Unreadable, orders |-> {}]
    BY <1>2 DEF SendBeat
  <2>2. req'.changes = Snapshot(queue, now, phase) /\ req'.list = Unreadable
    BY <2>1
  <2>3. AsksNoStop(req'.changes[t]) /\ req'.list[t] # "removed" /\ AsksNoStop(queue'[t])
    BY <1>0, <1>2, <2>2, CopiesAsk, ListAsks DEF SendBeat, NeverStopped
  <2> QED BY <1>2, <2>3 DEF SendBeat, NeverStopped, hubVars
<1>3. CASE BeatAborts
  BY <1>3 DEF BeatAborts, NeverStopped, hubVars, netVars
<1>4. CASE HubArbitrates
  <2>1. req \in Request /\ AsksNoStop(req.changes[t]) /\ req.list[t] # "removed"
    BY <1>0, <1>4 DEF HubArbitrates, NeverStopped
  <2>2. PICK written \in SUBSET Target, stored \in SUBSET CommandId :
          Arbitrating(req, written, stored) /\ req' = Arbitrated(req, written)
    BY <1>4 DEF HubArbitrates
  <2>3. AsksNoStop(rows'[t]) /\ KeepsOrders(cmds, cmds') /\ AsksNoStop(req'.changes[t])
    BY <1>a, <1>b, <2>1, <2>2
  <2>4. req'.list[t] # "removed"
    BY <2>1, <2>2, ArbitratedSpec
  <2> QED BY <1>4, <2>3, <2>4, OrdersAsk DEF HubArbitrates, NeverStopped, probeVars
<1>5. CASE HubLists
  <2>1. req \in Request /\ AsksNoStop(req.changes[t])
    BY <1>0, <1>5 DEF HubLists, NeverStopped
  <2>2. req'.changes = req.changes /\ req'.list \in {ListOf(rows), Unreadable}
    BY <1>5, <2>1 DEF HubLists, Request
  <2>3. AsksNoStop(req'.changes[t]) /\ req'.list[t] # "removed"
    BY <1>0, <2>1, <2>2, ListAsks DEF NeverStopped
  <2> QED BY <1>5, <2>3 DEF HubLists, NeverStopped, hubVars, probeVars
<1>6. CASE HubReplies
  <2>1. req \in Request /\ AsksNoStop(req.changes[t]) /\ req.list[t] # "removed"
    BY <1>0, <1>6 DEF HubReplies, NeverStopped
  <2>2. req'.changes = req.changes /\ req'.list = req.list
    BY <1>6, <2>1 DEF HubReplies, Request
  <2>3. cmds' = cmds \/ KeepsOrders(cmds, cmds')
    BY <1>0, <1>6, CountDeliverySpec DEF HubReplies
  <2> QED BY <1>6, <2>1, <2>2, <2>3, OrdersAsk DEF HubReplies, NeverStopped, probeVars
<1>7. CASE BeatFails
  <2>1. \A r \in late' : AsksNoStop(r.changes[t])
    BY <1>0, <1>7, ForsakenSpec DEF BeatFails, NeverStopped
  <2> QED BY <1>7, <2>1 DEF BeatFails, NeverStopped, hubVars, probeVars
<1>8. ASSUME NEW r \in late, LateArbitrates(r) PROVE Kept
  <2>1. r \in Request /\ AsksNoStop(r.changes[t])
    BY <1>0 DEF NeverStopped
  <2>2. AsksNoStop(rows'[t]) /\ KeepsOrders(cmds, cmds')
    BY <1>8, <1>b, <2>1 DEF LateArbitrates
  <2>3. \A q \in late' : AsksNoStop(q.changes[t])
    BY <1>8, <1>a, <2>1, ArbitratedSpec, ForsakenSpec DEF LateArbitrates, NeverStopped
  <2> QED BY <1>8, <2>2, <2>3, OrdersAsk DEF LateArbitrates, NeverStopped, probeVars
<1>9. ASSUME NEW r \in late, LateReplies(r) PROVE Kept
  <2>1. KeepsOrders(cmds, cmds')
    BY <1>0, <1>9, CountDeliverySpec DEF LateReplies
  <2> QED BY <1>9, <2>1, OrdersAsk DEF LateReplies, NeverStopped, probeVars
<1>10. CASE ApplyReply
  <2>1. req \in Request /\ req.list[t] # "removed"
    BY <1>0, <1>10 DEF ApplyReply, NeverStopped
  <2>2. AsksNoStop(queue'[t])
    BY <1>0, <1>10, <1>a, <2>1, CopiesAsk DEF ApplyReply, NeverStopped
  <2>3. CallsAsk(t)'
    <3>1. CASE req.acks = {}
      BY <1>10, <3>1 DEF ApplyReply, NeverStopped, CallsAsk
    <3>2. CASE req.acks # {}
      <4>1. Begins(Task, "copy", {}, {})
        BY <1>10, <3>2 DEF ApplyReply
      <4> QED BY <1>0, <1>d, <4>1, BeginsAsks
    <3> QED BY <3>1, <3>2
  <2> QED BY <1>10, <2>1, <2>2, <2>3 DEF ApplyReply, NeverStopped, CallsAsk, hubVars
<1>11. CASE Crash
  <2>1. AsksNoStop(queue'[t])
    BY <1>11 DEF Crash, Empty, AsksNoStop
  <2>2. \A r \in late' : AsksNoStop(r.changes[t])
    BY <1>0, <1>11, ForsakenSpec DEF Crash, NeverStopped
  <2> QED BY <1>11, <1>d, <2>1, <2>2 DEF Crash, NeverStopped, hubVars
<1>12. CASE Restart
  <2>1. PICK rebooted \in BOOLEAN : queue' = Restore(disk, now, rebooted)
    BY <1>12 DEF Restart
  <2>2. \A u \in Target : disk[u] # None => disk[u].age >= 0
    BY DEF IInv, GesturesInThePast
  <2>3. AsksNoStop(queue'[t])
    BY <1>0, <2>1, <2>2, RestoreSpec DEF NeverStopped, AsksNoStop
  <2> QED BY <1>12, <2>3 DEF Restart, NeverStopped, hubVars, netVars
<1>13. ASSUME NEW id \in CommandId, ExecuteCommand(id) PROVE Kept
  <2>1. cmds[id].order \in Order
    BY <1>13 DEF ExecuteCommand, IsFirst, IInv, OrdersAreIssued
  <2>2. AsksNoStop(queue'[t]) /\ CallsAsk(t)'
    BY <1>0, <1>13, <1>c, <1>d, <2>1, GesturingAsks DEF ExecuteCommand
  <2> QED BY <1>13, <2>2 DEF ExecuteCommand, NeverStopped, CallsAsk, hubVars, netVars
<1>14. ASSUME NEW id \in CommandId, NoteDecision(id) PROVE Kept
  <2>1. cmds[id].order \in Order
    BY <1>14 DEF NoteDecision, IInv, OrdersAreIssued
  <2>2. AsksNoStop(rows'[t])
    BY <1>0, <1>14, <1>c, <2>1, ApplyChangeAsks DEF NoteDecision, NeverStopped
  <2> QED BY <1>14, <2>2 DEF NoteDecision, NeverStopped, netVars, probeVars
<1>15. ASSUME NEW u \in Target, Follows(u) PROVE Kept
  <2>1. CallsAsk(t)'
    <3>1. CASE call' = call
      BY <3>1 DEF NeverStopped, CallsAsk
    <3>2. CASE Begins(Task, "act", {u}, {})
      BY <1>0, <1>d, <3>2, BeginsAsks
    <3>3. CASE Begins(Task, "act", {}, {u}) /\ follow[u] = "removed"
      <4>1. u # t
        BY <3>3 DEF NeverStopped
      <4> QED BY <1>0, <1>d, <3>3, <4>1, BeginsAsks
    <3> QED BY <1>0, <1>15, <3>1, <3>2, <3>3, FollowsSpec
  <2>2. follow'[t] # "removed"
    BY <1>0, <1>15 DEF Follows, NeverStopped, TypeOK, Lists
  <2> QED BY <1>15, <2>1, <2>2 DEF Follows, NeverStopped, CallsAsk, hubVars, netVars
<1>16. ASSUME NEW h \in Thread, Copies(h) PROVE Kept
  <2>1. PICK phase \in Phases :
          call' = [call EXCEPT ![h].at = "write", ![h].copy = Snapshot(queue, now, phase)]
    BY <1>16 DEF Copies
  <2>2. AsksNoStop(Snapshot(queue, now, phase)[t])
    BY <1>0, CopiesAsk DEF NeverStopped
  <2> DEFINE copy == Snapshot(queue, now, phase)
  <2> HIDE DEF copy
  <2>3. /\ call[h] \in Call /\ call[h] # None /\ call \in [Thread -> Call \cup {None}]
        /\ call' = [call EXCEPT ![h] = [call[h] EXCEPT !.at = "write", !.copy = copy]]
    BY <1>0, <1>16, <2>1 DEF Copies, At, TypeOK, copy
  <2>4. /\ call'[h].copy = copy /\ call'[h].stops = call[h].stops
        /\ \A g \in Thread \ {h} : call'[g] = call[g]
    BY <2>3 DEF Call
  <2>5. CallsAsk(t)'
    BY <2>2, <2>3, <2>4 DEF CallsAsk, NeverStopped, copy
  <2> QED BY <1>16, <2>5 DEF Copies, NeverStopped, CallsAsk, hubVars, netVars
<1>17. ASSUME NEW h \in Thread, Writes(h) PROVE Kept
  <2>1. /\ call[h] # None /\ \A g \in Thread \ {h} : call'[g] = call[g]
        /\ call'[h] = None \/ (call'[h].copy = Empty /\ call'[h].stops = call[h].stops)
    BY <1>0, <1>17, WritesSpec
  <2>2. AsksNoStop(Empty[t])
    BY DEF Empty, AsksNoStop
  <2>3. CallsAsk(t)'
    BY <2>1, <2>2 DEF CallsAsk, NeverStopped
  <2>4. disk' = disk \/ disk' = call[h].copy
    BY <1>17 DEF Writes
  <2>5. AsksNoStop(disk'[t])
    BY <2>1, <2>4 DEF NeverStopped
  <2> QED BY <1>17, <2>3, <2>5 DEF Writes, NeverStopped, CallsAsk, hubVars, netVars
<1>18. ASSUME NEW h \in Thread, Acts(h) PROVE Kept
  <2>1. call[h] # None /\ t \notin call[h].stops /\ call \in [Thread -> Call \cup {None}]
    BY <1>0, <1>18 DEF Acts, At, NeverStopped, TypeOK
  <2>2. Measured
    BY <1>18, <2>1 DEF Acts
  <2>3. CallsAsk(t)'
    BY <1>18, <2>1 DEF Acts, CallsAsk, NeverStopped
  <2> QED BY <1>18, <2>2, <2>3 DEF Acts, NeverStopped, CallsAsk, hubVars, netVars
<1> QED BY <1>1, <1>2, <1>3, <1>4, <1>5, <1>6, <1>7, <1>8, <1>9, <1>10, <1>11, <1>12, <1>13, <1>14,
           <1>15, <1>16, <1>17, <1>18 DEF SystemSteps

\* The same for what people decide of other targets, or of this one, but to
\* stop it.
LEMMA PeopleAsk ==
  ASSUME IInv, NEW t \in Target \ removedOnce', NeverStopped(t), PeopleDecide
  PROVE  t \notin removedOnce /\ NeverStopped(t)' /\ (t \in monitored /\ up' => t \in monitored')
<1> DEFINE Kept == t \notin removedOnce /\ NeverStopped(t)' /\ (t \in monitored /\ up' => t \in monitored')
<1>0. /\ rows \in Rows /\ cmds \in Commands /\ now \in Int /\ TypeOK /\ Window \subseteq Thread
  BY DEF IInv, TypeOK, Thread
<1>a. ASSUME NEW u \in Target, NEW removed \in BOOLEAN, Remembers(u, removed)
      PROVE  t \notin removedOnce /\ (u = t => ~removed)
  BY <1>a DEF Remembers
<1>1. ASSUME NEW h \in Window, NEW u \in Target, NEW removed \in BOOLEAN, UserGesture(h, u, removed),
             Remembers(u, removed)
      PROVE  Kept
  <2>1. AsksNoStop(queue'[t]) /\ CallsAsk(t)'
    BY <1>0, <1>1, <1>a, GesturingAsks DEF UserGesture
  <2> QED BY <1>1, <1>a, <2>1 DEF UserGesture, NeverStopped, CallsAsk, hubVars, netVars
<1>2. ASSUME NEW u \in Target, NEW removed \in BOOLEAN, HubDecides(u, removed), Remembers(u, removed)
      PROVE  Kept
  <2>1. AsksNoStop(rows'[t])
    BY <1>0, <1>2, <1>a, ApplyChangeAsks DEF HubDecides, NeverStopped
  <2> QED BY <1>2, <1>a, <2>1 DEF HubDecides, NeverStopped, netVars, probeVars
<1>3. ASSUME NEW id \in CommandId, NEW order \in Order, CreateCommand(id, order),
             Remembers(order.target, order.removed)
      PROVE  Kept
  <2>1. t \notin removedOnce /\ (order.target = t => ~order.removed)
    BY <1>3 DEF Remembers
  <2>2. /\ cmds'[id].order = order
        /\ \A j \in CommandId \ {id} : cmds'[j] = cmds[j]
    BY <1>0, <1>3, EnqueueSpec DEF CreateCommand
  <2>3. \A j \in CommandId : cmds'[j].order \in Order /\ cmds'[j].order.target = t => ~cmds'[j].order.removed
    BY <2>1, <2>2 DEF NeverStopped
  <2> QED BY <1>3, <2>1, <2>3 DEF CreateCommand, NeverStopped, netVars, probeVars
<1> QED BY <1>1, <1>2, <1>3 DEF PeopleDecide

\* A behaviour observed is a behaviour.
LEMMA ObservedSteps == [PeopleDecide \/ SystemSteps]_hvars => [Next]_vars
BY DEF PeopleDecide, SystemSteps, Next, hvars

HistoryInv == IInv /\ \A t \in Target \ removedOnce : NeverStopped(t)

LEMMA HistoryKept == HistoryInv /\ [PeopleDecide \/ SystemSteps]_hvars => HistoryInv'
<1> SUFFICES ASSUME HistoryInv, [PeopleDecide \/ SystemSteps]_hvars PROVE HistoryInv'
  OBVIOUS
<1>1. IInv'
  BY ObservedSteps, NextInvariant DEF HistoryInv
<1>2. ASSUME NEW t \in Target \ removedOnce' PROVE NeverStopped(t)'
  <2>1. CASE PeopleDecide
    <3>1. t \notin removedOnce
      BY <2>1 DEF PeopleDecide, Remembers
    <3> QED BY <2>1, <3>1, PeopleAsk DEF HistoryInv
  <2>2. CASE SystemSteps
    BY <2>2, SystemAsks DEF HistoryInv, SystemSteps
  <2>3. CASE UNCHANGED hvars
    BY <2>3 DEF HistoryInv, NeverStopped, hvars, vars, hubVars, netVars, probeVars
  <2> QED BY <2>1, <2>2, <2>3
<1> QED BY <1>1, <1>2 DEF HistoryInv

\* A target nobody ever removed is measured as long as the application runs:
\* an empty list, an unreadable one, a lost or a late heartbeat, a command
\* given up stop nothing (align_monitors).
THEOREM SilenceIsNoDecision == HSpec => SilenceStopsNothing
<1>1. HInit => HistoryInv
  <2> SUFFICES ASSUME HInit PROVE HistoryInv
    OBVIOUS
  <2>1. IInv
    BY InitInvariant DEF HInit
  <2>2. ASSUME NEW t \in Target PROVE NeverStopped(t)
    BY NoOrderAssumption DEF HInit, Init, NeverStopped, AsksNoStop, Empty, NoCommands, Unreadable
  <2> QED BY <2>1, <2>2 DEF HistoryInv
<1>2. HistoryInv /\ [PeopleDecide \/ SystemSteps]_hvars
        => [\A t \in Target \ removedOnce' : t \in monitored /\ up' => t \in monitored']_hvars
  <2> SUFFICES ASSUME HistoryInv, PeopleDecide \/ SystemSteps, NEW t \in Target \ removedOnce', t \in monitored, up'
               PROVE  t \in monitored'
    OBVIOUS
  <2>1. CASE PeopleDecide
    <3>1. t \notin removedOnce
      BY <2>1 DEF PeopleDecide, Remembers
    <3> QED BY <2>1, <3>1, PeopleAsk DEF HistoryInv
  <2>2. CASE SystemSteps
    BY <2>2, SystemAsks DEF HistoryInv, SystemSteps
  <2> QED BY <2>1, <2>2
<1> QED BY <1>1, <1>2, HistoryKept, PTL DEF HSpec, SilenceStopsNothing

-----------------------------------------------------------------------------
(* A gesture that waits.                                                   *)

\* The calls at work on the target do what the gesture that waits asks, and
\* once they have returned it is done.
Agreed(t) ==
  up /\ queue[t] # None =>
    /\ \A h \in Thread : OnTarget(h, t) => IF queue[t].removed THEN t \notin call[h].starts
                                           ELSE t \notin call[h].stops
    /\ (\A h \in Thread : ~OnTarget(h, t)) => (t \in monitored <=> ~queue[t].removed)

\* The calls at work on the target stay, and what they do of it.
SameCalls(t) ==
  \A h \in Thread : /\ OnTarget(h, t)' <=> OnTarget(h, t)
                    /\ OnTarget(h, t) => /\ call'[h].starts = call[h].starts
                                         /\ call'[h].stops = call[h].stops

\* A step that keeps the target's calls and loop as they are, and asks
\* nothing else of it.
LEMMA AgreedKept ==
  ASSUME NEW t \in Target, Agreed(t), SameCalls(t), up' = up, t \in monitored' <=> t \in monitored,
         queue'[t] = None \/ (queue[t] # None /\ queue'[t].removed = queue[t].removed)
  PROVE  Agreed(t)'
BY DEF Agreed, SameCalls

\* A call that begins while the thread has none touches the targets it names.
LEMMA BeginsOnTarget ==
  ASSUME TypeOK, NEW h \in Thread, NEW step \in {"copy", "write", "act"}, call[h] = None,
         NEW starts \in SUBSET Target, NEW stops \in SUBSET Target,
         Begins(h, step, starts, stops), NEW t \in Target, t \notin starts, t \notin stops
  PROVE  SameCalls(t)
<1>1. Begun(h, starts, stops)
  BY BeginsSpec
<1>2. ASSUME NEW g \in Thread
      PROVE  /\ OnTarget(g, t)' <=> OnTarget(g, t)
             /\ OnTarget(g, t) => call'[g].starts = call[g].starts /\ call'[g].stops = call[g].stops
  <2>1. CASE g = h
    BY <1>1, <2>1 DEF Begun, OnTarget
  <2>2. CASE g # h
    <3>1. call'[g] = call[g]
      BY <1>1, <2>2 DEF Begun
    <3> QED BY <3>1 DEF OnTarget
  <2> QED BY <2>1, <2>2
<1> QED BY <1>2 DEF SameCalls

\* A gesture recorded while no other call is at work on its target is the one
\* that counts; those on other targets stay.
LEMMA GesturingAgreed ==
  ASSUME TypeOK, \A v \in Target \ loose : Agreed(v), NEW h \in Thread, NEW u \in Target, NEW removed \in BOOLEAN,
         Gesturing(h, u, removed), Loosens(u), monitored' = monitored, up' = up, NEW t \in Target \ loose'
  PROVE  Agreed(t)'
<1>1. queue \in Queues /\ now \in Int
  BY DEF TypeOK
<1>2. call[h] = None /\ queue' = Record(queue, u, removed, now)
  BY DEF Gesturing
<1> DEFINE g == [removed |-> removed, since |-> now, sent |-> FALSE]
<1>3. queue'[u] = g /\ \A v \in Target \ {u} : queue'[v] = queue[v]
  BY <1>1, <1>2, RecordSpec
<1>4. g.removed = removed
  OBVIOUS
<1> HIDE DEF g
<1>5. PICK starts \in SUBSET Target, stops \in SUBSET Target :
        /\ Begins(h, "copy", starts, stops)
        /\ IF removed THEN starts = {} /\ stops = {u} ELSE starts = {u} /\ stops = {}
  BY DEF Gesturing
<1>a. Begun(h, starts, stops)
  BY <1>5, BeginsSpec
<1>6. /\ call'[h] # None /\ call'[h].starts = starts /\ call'[h].stops = stops
      /\ \A k \in Thread \ {h} : call'[k] = call[k]
  BY <1>a DEF Begun
<1>7. CASE t = u
  <2>1. \A k \in Thread : ~OnTarget(k, t)
    BY <1>7 DEF Loosens
  <2>2. OnTarget(h, t)' /\ \A k \in Thread \ {h} : ~OnTarget(k, t)'
    BY <1>5, <1>6, <1>7, <2>1 DEF OnTarget
  <2> QED BY <1>3, <1>4, <1>5, <1>6, <1>7, <2>2 DEF Agreed
<1>8. CASE t # u
  <2>1. t \in Target \ loose /\ t \notin starts /\ t \notin stops
    BY <1>5, <1>8 DEF Loosens
  <2>2. SameCalls(t)
    BY <1>2, <1>5, <2>1, BeginsOnTarget
  <2>3. queue'[t] = queue[t]
    BY <1>3, <1>8
  <2> QED BY <2>1, <2>2, <2>3, AgreedKept
<1> QED BY <1>7, <1>8

\* The steps of the probe that record nothing.
LEMMA ProbeAgreed ==
  ASSUME IInv, NEW t \in Target, Agreed(t),
         SendBeat \/ ApplyReply \/ (\E u \in Target : Follows(u))
           \/ (\E h \in Thread : Copies(h) \/ Writes(h) \/ Acts(h))
  PROVE  Agreed(t)'
<1>0. /\ TypeOK /\ queue \in Queues /\ req \in Request \cup {None} /\ Task \in Thread
      /\ call \in [Thread -> Call \cup {None}]
  BY DEF IInv, TypeOK, Thread
<1>1. CASE SendBeat
  <2>1. queue'[t] = None \/ (queue[t] # None /\ queue'[t].removed = queue[t].removed)
    BY <1>0, <1>1, MarkSentSpec DEF SendBeat
  <2>2. SameCalls(t)
    BY <1>1 DEF SendBeat, OnTarget, SameCalls
  <2> QED BY <1>1, <2>1, <2>2, AgreedKept DEF SendBeat
<1>2. CASE ApplyReply
  <2>1. req \in Request /\ req.acks \in SUBSET Target /\ call[Task] = None
    BY <1>0, <1>2 DEF ApplyReply, Request, IInv, TaskWaits, Aligned
  <2>2. queue'[t] = None \/ (queue[t] # None /\ queue'[t].removed = queue[t].removed)
    BY <1>0, <1>2, <2>1, AcknowledgeSpec DEF ApplyReply
  <2>3. SameCalls(t)
    <3>1. CASE call' = call
      BY <3>1 DEF OnTarget, SameCalls
    <3>2. CASE Begins(Task, "copy", {}, {})
      <4>1. {} \in SUBSET Target
        OBVIOUS
      <4> QED BY <1>0, <2>1, <3>2, <4>1, BeginsOnTarget
    <3> QED BY <1>2, <3>1, <3>2 DEF ApplyReply
  <2> QED BY <1>2, <2>2, <2>3, AgreedKept DEF ApplyReply
<1>3. ASSUME NEW u \in Target, Follows(u) PROVE Agreed(t)'
  <2>1. call[Task] = None /\ queue' = queue /\ monitored' = monitored /\ up' = up
    BY <1>3 DEF Follows
  <2>2. CASE queue[t] = None
    BY <2>1, <2>2 DEF Agreed
  <2>3. CASE queue[t] # None
    <3>1. SameCalls(t)
      <4>1. CASE call' = call
        BY <4>1 DEF OnTarget, SameCalls
      <4>2. ASSUME u # t, NEW starts \in {{}, {u}}, NEW stops \in {{}, {u}}, Begins(Task, "act", starts, stops)
            PROVE  SameCalls(t)
        <5>1. starts \in SUBSET Target /\ stops \in SUBSET Target /\ t \notin starts /\ t \notin stops
          BY <4>2
        <5> QED BY <1>0, <2>1, <4>2, <5>1, BeginsOnTarget
      <4> QED BY <1>0, <1>3, <2>3, <4>1, <4>2, FollowsSpec
    <3> QED BY <2>1, <2>3, <3>1, AgreedKept
  <2> QED BY <2>2, <2>3
<1>4. ASSUME NEW h \in Thread, Copies(h) PROVE Agreed(t)'
  <2>1. call[h] \in Call /\ call[h] # None
    BY <1>0, <1>4 DEF Copies, At
  <2>2. PICK phase \in Phases :
          call' = [call EXCEPT ![h].at = "write", ![h].copy = Snapshot(queue, now, phase)]
    BY <1>4 DEF Copies
  <2> DEFINE copy == Snapshot(queue, now, phase)
  <2>a. call' = [call EXCEPT ![h] = [call[h] EXCEPT !.at = "write", !.copy = copy]]
    BY <1>0, <2>2
  <2> HIDE DEF copy
  <2>3. /\ call'[h].starts = call[h].starts /\ call'[h].stops = call[h].stops /\ call'[h] # None
        /\ \A g \in Thread \ {h} : call'[g] = call[g]
    <3> DEFINE c == [call[h] EXCEPT !.at = "write", !.copy = copy]
    <3>1. call'[h] = c /\ \A g \in Thread \ {h} : call'[g] = call[g]
      BY <1>0, <2>a
    <3>2. c.starts = call[h].starts /\ c.stops = call[h].stops
      BY <2>1 DEF Call
    <3>4. c # None
      <4>1. copy \in Changes
        BY <1>0, SnapshotSpec DEF copy, TypeOK
      <4>2. c \in Call
        BY <2>1, <4>1 DEF Call
      <4> QED BY <4>2, CallAssumption
    <3> QED BY <3>1, <3>2, <3>4
  <2>4. SameCalls(t)
    BY <2>1, <2>3 DEF OnTarget, SameCalls
  <2> QED BY <1>4, <2>4, AgreedKept DEF Copies
<1>5. ASSUME NEW h \in Thread, Writes(h) PROVE Agreed(t)'
  <2>1. SameCalls(t)
    BY <1>0, <1>5, WritesSpec DEF OnTarget, SameCalls
  <2> QED BY <1>5, <2>1, AgreedKept DEF Writes
<1>6. ASSUME NEW h \in Thread, Acts(h) PROVE Agreed(t)'
  <2>1. /\ call[h] \in Call /\ call[h] # None
        /\ call'[h] = None /\ \A g \in Thread \ {h} : call'[g] = call[g]
        /\ monitored' = (monitored \ call[h].stops) \cup call[h].starts
        /\ queue' = queue /\ up' = up
    BY <1>0, <1>6 DEF Acts, At
  <2>2. \A g \in Thread : OnTarget(g, t)' => OnTarget(g, t) /\ call'[g] = call[g]
    BY <2>1 DEF OnTarget
  <2>3. CASE OnTarget(h, t)
    BY <2>1, <2>2, <2>3 DEF Agreed, OnTarget
  <2>4. CASE ~OnTarget(h, t)
    <3>1. SameCalls(t)
      BY <2>1, <2>4 DEF OnTarget, SameCalls
    <3>2. t \in monitored' <=> t \in monitored
      BY <2>1, <2>4 DEF OnTarget
    <3> QED BY <2>1, <3>1, <3>2, AgreedKept
  <2> QED BY <2>3, <2>4
<1> QED BY <1>1, <1>2, <1>3, <1>4, <1>5, <1>6

GestureInv == IInv /\ \A t \in Target \ loose : Agreed(t)

LEMMA GestureKept == GestureInv /\ [PeopleDecide \/ SystemSteps]_hvars => GestureInv'
<1> SUFFICES ASSUME GestureInv, [PeopleDecide \/ SystemSteps]_hvars PROVE GestureInv'
  OBVIOUS
<1>1. IInv'
  BY ObservedSteps, NextInvariant DEF GestureInv
<1> SUFFICES ASSUME NEW t \in Target \ loose' PROVE Agreed(t)'
  BY <1>1 DEF GestureInv
<1>0. TypeOK
  BY DEF GestureInv, IInv
<1>2. ASSUME NEW h \in Window, NEW u \in Target, NEW removed \in BOOLEAN, UserGesture(h, u, removed), Loosens(u)
      PROVE  Agreed(t)'
  BY <1>0, <1>2, GesturingAgreed DEF UserGesture, Thread, GestureInv
<1>3. ASSUME NEW id \in CommandId, ExecuteCommand(id), Loosens(cmds[id].order.target) PROVE Agreed(t)'
  <2>1. cmds[id].order \in MonitorOrder
    BY <1>3, OrderAssumption DEF ExecuteCommand, IsFirst, GestureInv, IInv, OrdersAreIssued
  <2>2. cmds[id].order.target \in Target /\ cmds[id].order.removed \in BOOLEAN /\ Task \in Thread
    BY <2>1 DEF MonitorOrder, Thread
  <2> QED BY <1>0, <1>3, <2>2, GesturingAgreed DEF ExecuteCommand, GestureInv
<1>4. CASE Crash
  <2>1. ~up'
    BY <1>4 DEF Crash
  <2> QED BY <2>1 DEF Agreed
<1>5. CASE Restart /\ loose' = {u \in Target : queue'[u] # None /\ ~queue'[u].removed}
  <2>1. monitored' = {} /\ \A h \in Thread : call'[h] = None
    BY <1>5 DEF Restart, GestureInv, IInv, DownIsEmpty
  <2>2. \A h \in Thread : ~OnTarget(h, t)'
    BY <2>1 DEF OnTarget
  <2>3. queue'[t] # None => queue'[t].removed
    BY <1>5
  <2>4. t \notin monitored'
    BY <2>1
  <2> QED BY <2>2, <2>3, <2>4 DEF Agreed
<1>6. CASE /\ loose' = loose
           /\ \/ SendBeat \/ ApplyReply \/ (\E u \in Target : Follows(u))
              \/ (\E h \in Thread : Copies(h) \/ Writes(h) \/ Acts(h))
  <2>1. IInv /\ Agreed(t)
    BY <1>6 DEF GestureInv
  <2> QED BY <1>6, <2>1, ProbeAgreed
<1>7. CASE /\ loose' = loose
           /\ \/ Tick \/ BeatAborts \/ HubArbitrates \/ HubLists \/ HubReplies \/ BeatFails
              \/ (\E r \in late : LateArbitrates(r) \/ LateReplies(r))
              \/ (\E id \in CommandId : NoteDecision(id))
              \/ (\E u \in Target, removed \in BOOLEAN : HubDecides(u, removed))
              \/ (\E id \in CommandId, order \in Order : CreateCommand(id, order))
              \/ UNCHANGED hvars
  <2>1. /\ up' = up /\ monitored' = monitored /\ queue' = queue /\ call' = call
    BY <1>7 DEF Tick, BeatAborts, HubArbitrates, HubLists, HubReplies, BeatFails, LateArbitrates, LateReplies,
                NoteDecision, HubDecides, CreateCommand, hvars, vars, probeVars
  <2>2. Agreed(t)
    BY <1>7 DEF GestureInv
  <2>3. SameCalls(t)
    BY <2>1 DEF SameCalls, OnTarget
  <2> QED BY <2>1, <2>2, <2>3, AgreedKept
<1> QED BY <1>1, <1>2, <1>3, <1>4, <1>5, <1>6, <1>7 DEF PeopleDecide, SystemSteps, hvars

\* As long as a gesture waits for the hub, the target is in the state it asked
\* for, once the calls at work on it have returned (align_monitors,
\* monitor::start and stop), but for the gestures made while another call was at
\* work on the target and the gestures to start found again by a restart.
THEOREM PendingGesturePrevails == HSpec => []PendingGestureHolds
<1>1. HInit => GestureInv
  <2> SUFFICES ASSUME HInit PROVE GestureInv
    OBVIOUS
  <2>1. IInv
    BY InitInvariant DEF HInit
  <2>2. \A t \in Target : queue[t] = None
    BY DEF HInit, Init, Empty
  <2> QED BY <2>1, <2>2 DEF GestureInv, Agreed
<1>2. GestureInv => PendingGestureHolds
  BY DEF GestureInv, Agreed, PendingGestureHolds
<1> QED BY <1>1, <1>2, GestureKept, PTL DEF HSpec

=============================================================================
