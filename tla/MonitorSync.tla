----------------------------- MODULE MonitorSync -----------------------------
(***************************************************************************)
(* The list of monitored targets shared by one probe and its hub.          *)
(*                                                                         *)
(* Both sides decide: the person at the probe's window starts and stops a  *)
(* target, an operator of the hub removes or revives one and sends         *)
(* add/remove commands.  The hub never calls the probe: everything travels *)
(* in the probe's heartbeat and in the answer to it.  A heartbeat carries  *)
(* the gestures not acknowledged yet with their age; the hub dates them in *)
(* its own clock, lets the most recent decision win, and answers with the  *)
(* targets it arbitrated, its whole list and the commands that wait.       *)
(*                                                                         *)
(* The handler of a heartbeat is cut where it releases the database: the   *)
(* operators' writes and another heartbeat can come in between.  A         *)
(* heartbeat the probe gave up on may still be handled, at any later time, *)
(* or never.                                                               *)
(*                                                                         *)
(* At the probe the window's commands run on threads of their own, beside  *)
(* the task that beats, follows the hub's list and executes its commands.  *)
(* A gesture is recorded, the queue copied, the copy written to the file   *)
(* and the loop started or stopped in four steps, and following the list   *)
(* looks for a waiting gesture in one step and acts in the next: another   *)
(* thread can come in between any two of them.  ProbeThreads takes apart   *)
(* what is one step here, starting a loop and stopping one; ProbeConfig    *)
(* the other sections of the file.                                         *)
(***************************************************************************)
EXTENDS MonitorTables, CommandTable

CONSTANTS
  Window,    (* the threads that run the window's commands                 *)
  Task,      (* the task that beats (hub::run)                             *)
  MaxTime,   (* bound: the last second of the hub's clock                  *)
  Budgets    (* bound: how many decisions people make, on both sides, how  *)
             (* many heartbeats are lost, crashes happen and databases or  *)
             (* files fail, and the second the clock starts at             *)

MonitorOrder == [target : Target, removed : BOOLEAN]

ASSUME BoundsAssumption == MaxTime \in Nat /\ Budgets \subseteq Nat \X Nat \X Nat
ASSUME OrderAssumption  == Order = MonitorOrder

Thread == Window \cup {Task}

\* A call under way: what is left of it is at the copy of the queue, at the
\* write of that copy or at the loops to start and to stop.
Call == [at     : {"copy", "write", "act"},
         starts : SUBSET Target,
         stops  : SUBSET Target,
         copy   : Changes]

ASSUME ThreadAssumption == Task \notin Window
ASSUME CallAssumption   == None \notin Call

VARIABLES
  now,        (* the hub's clock, in seconds                                *)
  acts,       (* decisions people may still make                            *)
  faults,     (* faults that may still happen                               *)
  rows,       (* hub: probe_monitors                                        *)
  cmds,       (* hub: probe_commands                                        *)
  noting,     (* hub: commands queued whose decision is not written yet     *)
  req,        (* the heartbeat the probe waits for, or None                 *)
  late,       (* heartbeats the probe gave up on and the hub may handle     *)
  up,         (* probe: the application runs                                *)
  monitored,  (* probe: targets a measuring loop runs for (ping_stop)       *)
  queue,      (* probe: gestures not acknowledged (MonitorChangeQueue)      *)
  disk,       (* probe: the queue as last persisted (hub_monitor_changes)   *)
  verdicts,   (* probe: acks of commands, for the next heartbeat            *)
  follow,     (* probe: what is left to follow of the list of the answer    *)
  todo,       (* probe: commands of the last answer still to be executed    *)
  call        (* probe: the call each thread is at, or None                 *)

hubVars   == <<rows, cmds, noting>>
netVars   == <<req, late>>
probeVars == <<up, monitored, queue, disk, verdicts, follow, todo, call>>
vars == <<now, acts, faults, hubVars, netVars, probeVars>>

Stage == {"sent", "arbitrated", "listed", "replied"}

\* A heartbeat and, as the hub fills it in, the answer to it.
Request ==
  [id      : Nat,
   stage   : Stage,
   changes : Changes,          \* monitor_changes
   settled : Verdicts,         \* command_acks
   acks    : SUBSET Target,    \* monitor_acks
   list    : Lists,            \* monitors
   orders  : SUBSET CommandId] \* commands

-----------------------------------------------------------------------------
Init ==
  /\ \E budget \in Budgets : acts = budget[1] /\ faults = budget[2] /\ now = budget[3]
  /\ rows = Empty /\ cmds = NoCommands /\ noting = {}
  /\ req = None /\ late = {}
  /\ up = TRUE /\ monitored = {} /\ queue = Empty /\ disk = Empty
  /\ verdicts = NoVerdicts /\ follow = Unreadable /\ todo = {}
  /\ call = [h \in Thread |-> None]

Tick ==
  /\ now < MaxTime
  /\ now' = now + 1
  /\ UNCHANGED <<acts, faults, hubVars, netVars, probeVars>>

Act   == acts > 0 /\ acts' = acts - 1
Fault == faults > 0 /\ faults' = faults - 1

-----------------------------------------------------------------------------
(* The probe: gestures of the person at its window, and of the commands    *)
(* it executes, which take the same path.                                  *)

At(h, step) == call[h] # None /\ call[h].at = step

Begins(h, step, starts, stops) ==
  call' = [call EXCEPT ![h] = [at |-> step, starts |-> starts, stops |-> stops,
                               copy |-> Empty]]

\* monitor::start and monitor::stop: note the gesture; the queue is still to
\* be persisted, then the loop to be started or stopped.
Gesturing(h, t, removed) ==
  /\ call[h] = None
  /\ queue' = Record(queue, t, removed, now)
  /\ IF removed THEN Begins(h, "copy", {}, {t}) ELSE Begins(h, "copy", {t}, {})

UserGesture(h, t, removed) ==
  /\ up
  /\ Act
  /\ Gesturing(h, t, removed)
  /\ UNCHANGED <<now, faults, hubVars, netVars, up, monitored, disk, verdicts, follow, todo>>

\* The task has nothing left to follow.
Aligned == call[Task] = None /\ follow = Unreadable

\* The ack is pushed when the call returns, and read by the next beat only.
ExecuteCommand(id) ==
  /\ up
  /\ Aligned /\ IsFirst(id, todo)
  /\ Gesturing(Task, cmds[id].order.target, cmds[id].order.removed)
  /\ verdicts' = [verdicts EXCEPT ![id] = "done"]
  /\ todo' = todo \ {id}
  /\ UNCHANGED <<now, acts, faults, hubVars, netVars, up, monitored, disk, follow>>

\* persist_monitor_changes: the queue as it is now, then the file.
Copies(h) ==
  /\ At(h, "copy")
  /\ \E phase \in Phases :
       call' = [call EXCEPT ![h].at = "write", ![h].copy = Snapshot(queue, now, phase)]
  /\ UNCHANGED <<now, acts, faults, hubVars, netVars, up, monitored, queue, disk,
                 verdicts, follow, todo>>

\* A write that fails is only warned of.
Writes(h) ==
  /\ At(h, "write")
  /\ \/ disk' = call[h].copy /\ UNCHANGED faults
     \/ UNCHANGED disk /\ Fault
  /\ call' = [call EXCEPT ![h] =
                IF @.starts \cup @.stops = {} THEN None
                ELSE [@ EXCEPT !.at = "act", !.copy = Empty]]
  /\ UNCHANGED <<now, acts, hubVars, netVars, up, monitored, queue, verdicts, follow, todo>>

\* start_from_hub and stop_from_hub.
Acts(h) ==
  /\ At(h, "act")
  /\ monitored' = (monitored \ call[h].stops) \cup call[h].starts
  /\ call' = [call EXCEPT ![h] = None]
  /\ UNCHANGED <<now, acts, faults, hubVars, netVars, up, queue, disk, verdicts, follow, todo>>

-----------------------------------------------------------------------------
(* The heartbeat.                                                          *)

\* The acks of commands leave with the heartbeat whatever becomes of it.
SendBeat ==
  /\ up /\ req = None /\ Aligned /\ todo = {}
  /\ queue' = MarkSent(queue)
  /\ \E phase \in Phases :
       req' = [id |-> faults, stage |-> "sent",
               changes |-> Snapshot(queue, now, phase), settled |-> verdicts,
               acks |-> {}, list |-> Unreadable, orders |-> {}]
  /\ verdicts' = NoVerdicts
  /\ UNCHANGED <<now, acts, faults, hubVars, late, up, monitored, disk, follow, todo, call>>

\* The beat gives up before it reads the queue (no source address): the acks
\* of commands it had taken are gone.
BeatAborts ==
  /\ up /\ req = None /\ Aligned /\ todo = {} /\ Fault
  /\ verdicts' = NoVerdicts
  /\ UNCHANGED <<now, acts, hubVars, netVars, up, monitored, queue, disk, follow, todo, call>>

\* Settle the acknowledged commands, then arbitrate the changes.  A target
\* whose write failed is not acknowledged; a change that lost is.
Arbitrating(r, written, stored) ==
  /\ r.stage = "sent"
  /\ cmds' = Settle(cmds, r.settled, stored)
  /\ rows' = Arbitrate(rows, r.changes, written, now)

\* A slip: the changes that lost are not acknowledged.
ArbitratedWinners(r, written) ==
  [r EXCEPT !.stage = "arbitrated",
            !.acks  = {t \in written : r.changes[t] # None
                         /\ Wins(rows, t, ChangeInstant(now, r.changes[t].age))}]

\* What has been handled is of no more use.
Arbitrated(r, written) ==
  [r EXCEPT !.stage   = "arbitrated",
            !.changes = Empty,
            !.settled = NoVerdicts,
            !.acks    = {t \in written : r.changes[t] # None}]

\* A heartbeat whose answer nobody waits for.
Forsaken(r) == [r EXCEPT !.stage = IF r.stage = "sent" THEN "sent" ELSE "arbitrated",
                         !.acks = {}, !.list = Unreadable]

HubArbitrates ==
  /\ req # None
  /\ \E written \in SUBSET Target, stored \in SUBSET CommandId :
       /\ \/ written = Target /\ stored = CommandId /\ UNCHANGED faults
          \/ (written # Target \/ stored # CommandId) /\ Fault
       /\ Arbitrating(req, written, stored)
       /\ req' = Arbitrated(req, written)
  /\ UNCHANGED <<now, acts, noting, late, probeVars>>

\* An unreadable list or command table is replaced by an empty one: the
\* heartbeat must not fail for it.
HubLists ==
  /\ req # None /\ req.stage = "arbitrated"
  /\ \/ req' = [req EXCEPT !.stage = "listed", !.list = ListOf(rows)]
        /\ UNCHANGED faults
     \/ req' = [req EXCEPT !.stage = "listed", !.list = Unreadable]
        /\ Fault
  /\ UNCHANGED <<now, acts, hubVars, late, probeVars>>

HubReplies ==
  /\ req # None /\ req.stage = "listed"
  /\ \/ /\ cmds' = CountDelivery(cmds)
        /\ req' = [req EXCEPT !.stage = "replied", !.orders = Pending(GiveUp(cmds))]
        /\ UNCHANGED faults
     \/ /\ req' = [req EXCEPT !.stage = "replied", !.orders = {}]
        /\ Fault
        /\ UNCHANGED cmds
  /\ UNCHANGED <<now, acts, rows, noting, late, probeVars>>

\* Timeout, connection lost, unreadable answer: the probe will send another
\* one.  What was in flight may still be handled.
BeatFails ==
  /\ up /\ req # None /\ Fault
  /\ late' = IF req.stage = "replied" THEN late ELSE late \cup {Forsaken(req)}
  /\ req' = None
  /\ UNCHANGED <<now, acts, hubVars, probeVars>>

LateArbitrates(r) ==
  /\ Arbitrating(r, Target, CommandId)
  /\ late' = (late \ {r}) \cup {Forsaken(Arbitrated(r, Target))}
  /\ UNCHANGED <<now, acts, faults, noting, req, probeVars>>

\* The list nobody will read, then the commands nobody will execute.
LateReplies(r) ==
  /\ r.stage # "sent"
  /\ cmds' = CountDelivery(cmds)
  /\ late' = late \ {r}
  /\ UNCHANGED <<now, acts, faults, rows, noting, req, probeVars>>

\* A slip: what the list does not name is to be stopped.
AppliesAbsence ==
  /\ up /\ req # None /\ req.stage = "replied"
  /\ queue' = Acknowledge(queue, req.acks)
  /\ IF req.acks = {} THEN UNCHANGED call ELSE Begins(Task, "copy", {}, {})
  /\ follow' = [t \in Target |-> IF req.list[t] = "unknown" THEN "removed" ELSE req.list[t]]
  /\ todo' = req.orders
  /\ req' = None
  /\ UNCHANGED <<now, acts, faults, hubVars, late, up, monitored, disk, verdicts>>

\* apply / align_monitors: acknowledge first; the queue is still to be
\* persisted, then the list to be followed and the commands to be executed.
ApplyReply ==
  /\ up /\ req # None /\ req.stage = "replied"
  /\ queue' = Acknowledge(queue, req.acks)
  /\ IF req.acks = {} THEN UNCHANGED call ELSE Begins(Task, "copy", {}, {})
  /\ follow' = req.list
  /\ todo' = req.orders
  /\ req' = None
  /\ UNCHANGED <<now, acts, faults, hubVars, late, up, monitored, disk, verdicts>>

\* What following the list starts and stops, the target just looked at.
Obeys(t) == IF follow[t] = "removed" THEN Begins(Task, "act", {}, {t})
            ELSE Begins(Task, "act", {t}, {})

\* A slip: only a removal that waits is respected.
FollowsOverAdds(t) ==
  /\ call[Task] = None /\ follow[t] # "unknown"
  /\ follow' = [follow EXCEPT ![t] = "unknown"]
  /\ IF queue[t] # None /\ queue[t].removed THEN UNCHANGED call ELSE Obeys(t)
  /\ UNCHANGED <<now, acts, faults, hubVars, netVars, up, monitored, queue, disk,
                 verdicts, todo>>

\* One target of the list: nothing is done where a gesture waits; otherwise
\* its loop is started or stopped next.
Follows(t) ==
  /\ call[Task] = None /\ follow[t] # "unknown"
  /\ follow' = [follow EXCEPT ![t] = "unknown"]
  /\ IF queue[t] # None THEN UNCHANGED call ELSE Obeys(t)
  /\ UNCHANGED <<now, acts, faults, hubVars, netVars, up, monitored, queue, disk,
                 verdicts, todo>>

-----------------------------------------------------------------------------
(* The probe's application stops and starts again: only the disk survives, *)
(* and no loop runs until the hub's list is read.                          *)

Crash ==
  /\ up /\ Fault
  /\ up' = FALSE
  /\ late' = IF req = None \/ req.stage = "replied" THEN late ELSE late \cup {Forsaken(req)}
  /\ req' = None
  /\ monitored' = {} /\ queue' = Empty
  /\ verdicts' = NoVerdicts /\ follow' = Unreadable /\ todo' = {}
  /\ call' = [h \in Thread |-> None]
  /\ UNCHANGED <<now, acts, hubVars, disk>>

Restart ==
  /\ ~up
  /\ up' = TRUE
  /\ \E rebooted \in BOOLEAN : queue' = Restore(disk, now, rebooted)
  /\ UNCHANGED <<now, acts, faults, hubVars, netVars, monitored, disk, verdicts, follow,
                 todo, call>>

-----------------------------------------------------------------------------
(* The operators of the hub.                                               *)

\* POST /monitors/remove and /monitors/revive: written at once.
HubDecides(t, removed) ==
  /\ Act
  /\ rows' = ApplyChange(rows, t, removed, now)
  /\ UNCHANGED <<now, faults, cmds, noting, netVars, probeVars>>

\* POST /commands: the order is queued, then the decision is written.
CreateCommand(id, order) ==
  /\ Act
  /\ IsNextId(cmds, id)
  /\ cmds' = Enqueue(cmds, id, order)
  /\ noting' = noting \cup {id}
  /\ UNCHANGED <<now, faults, rows, netVars, probeVars>>

NoteDecision(id) ==
  /\ id \in noting
  /\ noting' = noting \ {id}
  /\ \/ rows' = ApplyChange(rows, cmds[id].order.target,
                            cmds[id].order.removed, now)
        /\ UNCHANGED faults
     \/ Fault /\ UNCHANGED rows
  /\ UNCHANGED <<now, acts, cmds, netVars, probeVars>>

-----------------------------------------------------------------------------
Next ==
  \/ Tick
  \/ \E h \in Window, t \in Target, removed \in BOOLEAN : UserGesture(h, t, removed)
  \/ \E h \in Thread : Copies(h)
  \/ \E h \in Thread : Writes(h)
  \/ \E h \in Thread : Acts(h)
  \/ \E id \in CommandId : ExecuteCommand(id)
  \/ SendBeat
  \/ BeatAborts
  \/ HubArbitrates
  \/ HubLists
  \/ HubReplies
  \/ BeatFails
  \/ \E r \in late : LateArbitrates(r)
  \/ \E r \in late : LateReplies(r)
  \/ ApplyReply
  \/ \E t \in Target : Follows(t)
  \/ Crash
  \/ Restart
  \/ \E t \in Target, removed \in BOOLEAN : HubDecides(t, removed)
  \/ \E id \in CommandId, order \in Order : CreateCommand(id, order)
  \/ \E id \in CommandId : NoteDecision(id)

Spec == Init /\ [][Next]_vars

\* The threads of the probe, the heartbeat loop and the hub keep running, and a
\* stopped application is started again.  Nobody owes the system a decision, a fault or a tick.
Fairness ==
  /\ WF_vars(SendBeat)
  /\ WF_vars(HubArbitrates)
  /\ WF_vars(HubLists)
  /\ WF_vars(HubReplies)
  /\ WF_vars(ApplyReply)
  /\ WF_vars(\E t \in Target : Follows(t))
  /\ \A h \in Thread : WF_vars(Copies(h) \/ Writes(h) \/ Acts(h))
  /\ WF_vars(\E id \in CommandId : ExecuteCommand(id))
  /\ WF_vars(\E id \in CommandId : NoteDecision(id))
  /\ WF_vars(Restart)

FairSpec == Spec /\ Fairness

-----------------------------------------------------------------------------
(* Properties.                                                             *)

\* The type of every variable.
TypeOK ==
  /\ now \in Nat /\ acts \in Nat /\ faults \in Nat
  /\ rows \in Rows /\ cmds \in Commands /\ noting \in SUBSET CommandId
  /\ req \in Request \cup {None} /\ late \in SUBSET Request
  /\ up \in BOOLEAN /\ monitored \in SUBSET Target
  /\ queue \in Queues /\ disk \in Changes
  /\ verdicts \in Verdicts /\ follow \in Lists /\ todo \in SUBSET CommandId
  /\ call \in [Thread -> Call \cup {None}]

\* A gesture leaves the queue only if the hub holds a decision on that
\* target at least as recent as it; an acknowledgement meant for an older
\* gesture never carries off the one that replaced it (acknowledge).
GestureLeavesOnlyArbitrated ==
  [][\A t \in Target :
       up /\ up' /\ queue[t] # None /\ queue'[t] = None
         => rows[t] # None /\ rows[t].at >= queue[t].since]_vars

\* When people stop deciding and the faults stop, both sides end up agreeing
\* for good: no gesture waits and the probe measures exactly the targets the
\* hub holds as active.
Agree ==
  /\ up
  /\ queue = Empty
  /\ \A t \in Target : t \in monitored <=> rows[t] # None /\ ~rows[t].removed
EventuallyAgree == <>[]Agree

-----------------------------------------------------------------------------
(* The inductive invariant the proofs go by.                               *)

\* No gesture is dated in the future, in memory, in a copy or on disk.
GesturesInThePast ==
  \A t \in Target :
    /\ queue[t] # None => queue[t].since <= now
    /\ disk[t] # None => disk[t].age >= 0
    /\ \A h \in Thread :
         call[h] # None /\ call[h].copy[t] # None => call[h].copy[t].age >= 0

\* A stopped application holds nothing and waits for nothing.
DownIsEmpty ==
  ~up => /\ req = None /\ queue = Empty /\ monitored = {} /\ todo = {}
         /\ follow = Unreadable /\ call = [h \in Thread |-> None]

\* The task that waits for an answer has nothing else under way.
TaskWaits == req # None => Aligned /\ todo = {}

\* The heartbeat waited for carries every gesture marked as sent, and the hub
\* will not date it before it was made.
SentGestureIsCarried ==
  req # None /\ req.stage = "sent" =>
    \A t \in Target :
      queue[t] # None /\ queue[t].sent =>
        /\ req.changes[t] # None
        /\ ChangeInstant(now, req.changes[t].age) >= queue[t].since

\* Once arbitrated, an acknowledged gesture that still waits is matched by a
\* decision of the hub at least as recent.
AckedGestureIsDecided ==
  req # None /\ req.stage # "sent" =>
    \A t \in req.acks :
      queue[t] # None /\ queue[t].sent =>
        rows[t] # None /\ rows[t].at >= queue[t].since

\* Whatever is to be executed or noted was ordered.
OrdersAreIssued ==
  /\ \A id \in CommandId : cmds[id].state # "unused" => cmds[id].order \in Order
  /\ \A id \in todo \cup noting : cmds[id].order \in Order
  /\ req # None => \A id \in req.orders : cmds[id].order \in Order

IInv ==
  /\ TypeOK
  /\ GesturesInThePast
  /\ DownIsEmpty
  /\ SentGestureIsCarried
  /\ AckedGestureIsDecided
  /\ OrdersAreIssued
  /\ TaskWaits
=============================================================================
