----------------------------- MODULE ProbeThreads -----------------------------
(***************************************************************************)
(* The probe's application, step by step: the threads that run the         *)
(* window's commands, the task that beats and follows the hub's list, and  *)
(* the measuring loops they start.                                         *)
(*                                                                         *)
(* MonitorSync runs each of these handlers to its end.  In the application *)
(* the window's commands run on other threads than the heartbeat task, and *)
(* they share the queue of gestures, the stop flags (ping_stop) and the    *)
(* samples, each under a lock of its own: another thread can come in       *)
(* between any two of the steps below.  A loop looks at its target's flag  *)
(* once per round; a round is one measure and a second of rest.            *)
(***************************************************************************)
EXTENDS Integers, FiniteSets

CONSTANTS
  Target,    (* the addresses that can be monitored                        *)
  Window,    (* threads that run the window's commands                     *)
  Hub,       (* the heartbeat task                                         *)
  Caller,    (* threads that start and stop targets of their own accord:   *)
             (* the window's, and Hub when the hub sends it commands       *)
  Loop,      (* bound: the measuring loops that can be alive at once       *)
  MaxCalls,  (* bound: calls to start or stop, and answers of the hub      *)
  Free       (* no call, no loop                                           *)

Thread == Window \cup {Hub}

\* The steps at which a call can be interrupted.
Step == {"note", "look", "insert", "spawn", "confirm", "raise", "purge"}
Call == [target : Target, removes : BOOLEAN, at : Step]
Round == [target : Target, at : {"look", "measure", "rest"}]

ASSUME ThreadAssumption == Hub \notin Window /\ Caller \subseteq Thread
ASSUME BoundAssumption  == MaxCalls \in Nat
ASSUME FreeAssumption   == Free \notin Call \cup Round

VARIABLES
  gesture,   (* the action not acknowledged on each target (pending_action) *)
  sent,      (* targets whose gesture left with a heartbeat                 *)
  flag,      (* ping_stop: "absent", "running" (false) or "stopped" (true)  *)
  sampled,   (* targets that have samples (monitoring)                      *)
  call,      (* what each thread is doing                                   *)
  todo,      (* what the hub's list says, still to be followed              *)
  loops,     (* the measuring loops                                         *)
  calls      (* calls still allowed                                         *)

vars == <<gesture, sent, flag, sampled, call, todo, loops, calls>>

Verdict == {"none", "active", "removed"}

Init ==
  /\ gesture = [t \in Target |-> "none"] /\ sent = {}
  /\ flag = [t \in Target |-> "absent"] /\ sampled = {}
  /\ call = [h \in Thread |-> Free]
  /\ todo = [t \in Target |-> "none"]
  /\ loops = [l \in Loop |-> Free]
  /\ calls = MaxCalls

-----------------------------------------------------------------------------
(* What a call is doing.                                                   *)

At(h, step)  == call[h] # Free /\ call[h].at = step
Begins(h, t, removes, step) ==
  call' = [call EXCEPT ![h] = [target |-> t, removes |-> removes, at |-> step]]
GoesTo(h, step) == call' = [call EXCEPT ![h].at = step]
Returns(h)      == call' = [call EXCEPT ![h] = Free]

Monitored(t) == flag[t] = "running"     \* is_monitored
Live(l, t)   == loops[l] # Free /\ loops[l].target = t

-----------------------------------------------------------------------------
(* The window's commands, and the hub's when the heartbeat task executes   *)
(* them.                                                                   *)

Idle(h) == call[h] = Free /\ (h = Hub => \A t \in Target : todo[t] = "none")

CallBegins(h, t, removes) ==
  /\ Idle(h) /\ calls > 0
  /\ calls' = calls - 1
  /\ Begins(h, t, removes, "note")
  /\ UNCHANGED <<gesture, sent, flag, sampled, todo, loops>>

\* record_monitor_change: the gesture replaces the one that waited.
Notes(h) ==
  /\ At(h, "note")
  /\ LET c == call[h] IN
       /\ gesture' = [gesture EXCEPT ![c.target] = IF c.removes THEN "remove" ELSE "add"]
       /\ sent' = sent \ {c.target}
       /\ GoesTo(h, IF c.removes THEN "raise" ELSE "look")
  /\ UNCHANGED <<flag, sampled, todo, loops, calls>>

\* start_from_hub: nothing to do for a target already monitored.
Looks(h) ==
  /\ At(h, "look")
  /\ IF Monitored(call[h].target) THEN Returns(h) ELSE GoesTo(h, "insert")
  /\ UNCHANGED <<gesture, sent, flag, sampled, todo, loops, calls>>

\* A slip: the stopped flag is lowered for the loop it was raised for.
InsertsForTheOldLoop(h) ==
  /\ At(h, "insert")
  /\ flag' = [flag EXCEPT ![call[h].target] = "running"]
  /\ IF flag[call[h].target] = "stopped" THEN Returns(h) ELSE GoesTo(h, "spawn")
  /\ UNCHANGED <<gesture, sent, sampled, todo, loops, calls>>

Inserts(h) ==
  /\ At(h, "insert")
  /\ flag' = [flag EXCEPT ![call[h].target] = "running"]
  /\ GoesTo(h, "spawn")
  /\ UNCHANGED <<gesture, sent, sampled, todo, loops, calls>>

Spawns(h) ==
  /\ At(h, "spawn")
  /\ \E l \in Loop :
       /\ loops[l] = Free
       /\ loops' = [loops EXCEPT ![l] = [target |-> call[h].target, at |-> "look"]]
  /\ Returns(h)
  /\ UNCHANGED <<gesture, sent, flag, sampled, todo, calls>>

\* align_monitors only stops what is monitored.
Confirms(h) ==
  /\ At(h, "confirm")
  /\ IF Monitored(call[h].target) THEN GoesTo(h, "raise") ELSE Returns(h)
  /\ UNCHANGED <<gesture, sent, flag, sampled, todo, loops, calls>>

\* stop_from_hub: raise the flag, then purge the history.
Raises(h) ==
  /\ At(h, "raise")
  /\ flag' = [flag EXCEPT ![call[h].target] = "stopped"]
  /\ GoesTo(h, "purge")
  /\ UNCHANGED <<gesture, sent, sampled, todo, loops, calls>>

\* A slip: the history stays.
PurgesNothing(h) ==
  /\ At(h, "purge")
  /\ Returns(h)
  /\ UNCHANGED <<gesture, sent, flag, sampled, todo, loops, calls>>

Purges(h) ==
  /\ At(h, "purge")
  /\ sampled' = sampled \ {call[h].target}
  /\ Returns(h)
  /\ UNCHANGED <<gesture, sent, flag, todo, loops, calls>>

-----------------------------------------------------------------------------
(* The heartbeat task.                                                     *)

BeatLeaves ==
  /\ Idle(Hub)
  /\ sent' = {t \in Target : gesture[t] # "none"}
  /\ UNCHANGED <<gesture, flag, sampled, call, todo, loops, calls>>

\* The answer: what it acknowledges leaves the queue, unless it was done
\* again meanwhile; then its list is followed, one target after the other.
ReplyArrives(acks, list) ==
  /\ Idle(Hub) /\ calls > 0
  /\ calls' = calls - 1
  /\ gesture' = [t \in Target |-> IF t \in acks \cap sent THEN "none" ELSE gesture[t]]
  /\ sent' = sent \ acks
  /\ todo' = list
  /\ UNCHANGED <<flag, sampled, call, loops>>

\* A target with a gesture that waits is skipped.
Follows(t) ==
  /\ call[Hub] = Free /\ todo[t] # "none"
  /\ todo' = [todo EXCEPT ![t] = "none"]
  /\ IF gesture[t] # "none" THEN UNCHANGED call
     ELSE Begins(Hub, t, todo[t] = "removed",
                 IF todo[t] = "removed" THEN "confirm" ELSE "look")
  /\ UNCHANGED <<gesture, sent, flag, sampled, loops, calls>>

-----------------------------------------------------------------------------
(* The measuring loops.                                                    *)

\* A slip: the loop does not look at the flag again once it has started.
LoopLooksOnce(l) ==
  /\ loops[l] # Free /\ loops[l].at = "look"
  /\ loops' = [loops EXCEPT ![l].at = "measure"]
  /\ UNCHANGED <<gesture, sent, flag, sampled, call, todo, calls>>

LoopLooks(l) ==
  /\ loops[l] # Free /\ loops[l].at = "look"
  /\ loops' = IF Monitored(loops[l].target)
              THEN [loops EXCEPT ![l].at = "measure"]
              ELSE [loops EXCEPT ![l] = Free]
  /\ UNCHANGED <<gesture, sent, flag, sampled, call, todo, calls>>

\* A blackout, an interface without address or a machine that could not emit
\* leave no sample.
LoopMeasures(l) ==
  /\ loops[l] # Free /\ loops[l].at = "measure"
  /\ sampled' \in {sampled, sampled \cup {loops[l].target}}
  /\ loops' = [loops EXCEPT ![l].at = "rest"]
  /\ UNCHANGED <<gesture, sent, flag, call, todo, calls>>

LoopRests(l) ==
  /\ loops[l] # Free /\ loops[l].at = "rest"
  /\ loops' = [loops EXCEPT ![l].at = "look"]
  /\ UNCHANGED <<gesture, sent, flag, sampled, call, todo, calls>>

-----------------------------------------------------------------------------
Steps(h) ==
  \/ Notes(h) \/ Looks(h) \/ Inserts(h) \/ Spawns(h)
  \/ Confirms(h) \/ Raises(h) \/ Purges(h)

LoopSteps(l) == LoopLooks(l) \/ LoopMeasures(l) \/ LoopRests(l)

Next ==
  \/ \E h \in Caller, t \in Target, removes \in BOOLEAN : CallBegins(h, t, removes)
  \/ \E h \in Thread : Steps(h)
  \/ BeatLeaves
  \/ \E acks \in SUBSET Target, list \in [Target -> Verdict] : ReplyArrives(acks, list)
  \/ \E t \in Target : Follows(t)
  \/ \E l \in Loop : LoopSteps(l)

Spec == Init /\ [][Next]_vars

\* The runtime keeps running the threads and the loops.
Fairness ==
  /\ \A h \in Thread : WF_vars(Steps(h))
  /\ \A l \in Loop : WF_vars(LoopSteps(l))
  /\ \A t \in Target : WF_vars(Follows(t))

FairSpec == Spec /\ Fairness

-----------------------------------------------------------------------------
(* Properties.                                                             *)

\* The type of every variable.
TypeOK ==
  /\ gesture \in [Target -> {"none", "add", "remove"}] /\ sent \in SUBSET Target
  /\ flag \in [Target -> {"absent", "running", "stopped"}]
  /\ sampled \in SUBSET Target
  /\ call \in [Thread -> Call \cup {Free}]
  /\ todo \in [Target -> Verdict]
  /\ loops \in [Loop -> Round \cup {Free}]
  /\ calls \in Nat

Spawning(t) == \E h \in Thread : At(h, "spawn") /\ call[h].target = t

\* A target shown as monitored is measured: whatever threads raised and
\* lowered its flag, a loop runs for it or is about to (start_from_hub).
RunningMeansMeasured ==
  \A t \in Target : Monitored(t) => Spawning(t) \/ \E l \in Loop : Live(l, t)

\* A target stopped for good falls silent: every loop it ever had ends.
StoppedFallsSilent ==
  \A t \in Target : <>[](~Monitored(t) /\ ~Spawning(t)) => <>[](\A l \in Loop : ~Live(l, t))

=============================================================================
