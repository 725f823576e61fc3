--------------------------- MODULE MonitorHistory ---------------------------
(***************************************************************************)
(* MonitorSync observed: which targets somebody ever asked to stop         *)
(* measuring, and on which ones the gesture that waits was made while      *)
(* another call was still at work on the target.  The history never        *)
(* restrains a step.                                                       *)
(***************************************************************************)
EXTENDS MonitorSync

VARIABLES
  removedOnce,  (* the first ones                                          *)
  loose         (* the others, and those whose gesture to start was read   *)
                (* back from the file: a restart starts nothing            *)

hvars == <<vars, removedOnce, loose>>

Remembers(t, removed) ==
  removedOnce' = IF removed THEN removedOnce \cup {t} ELSE removedOnce

\* Call h is at work on t: it will start or stop its loop.
OnTarget(h, t) == call[h] # None /\ t \in call[h].starts \cup call[h].stops

\* A gesture on t is recorded.
Loosens(t) ==
  loose' = IF \E h \in Thread : OnTarget(h, t) THEN loose \cup {t} ELSE loose \ {t}

HInit == Init /\ removedOnce = {} /\ loose = {}

PeopleDecide ==
  \/ \E h \in Window, t \in Target, removed \in BOOLEAN :
       UserGesture(h, t, removed) /\ Remembers(t, removed) /\ Loosens(t)
  \/ \E t \in Target, removed \in BOOLEAN :
       HubDecides(t, removed) /\ Remembers(t, removed) /\ UNCHANGED loose
  \/ \E id \in CommandId, order \in Order :
       CreateCommand(id, order) /\ Remembers(order.target, order.removed) /\ UNCHANGED loose

SystemSteps ==
  /\ \/ /\ \/ Tick \/ SendBeat \/ BeatAborts \/ HubArbitrates \/ HubLists \/ HubReplies
           \/ BeatFails \/ ApplyReply
           \/ \E t \in Target : Follows(t)
           \/ \E h \in Thread : Copies(h) \/ Writes(h) \/ Acts(h)
           \/ \E r \in late : LateArbitrates(r) \/ LateReplies(r)
           \/ \E id \in CommandId : NoteDecision(id)
        /\ UNCHANGED loose
     \/ \E id \in CommandId : ExecuteCommand(id) /\ Loosens(cmds[id].order.target)
     \/ Crash /\ loose' = {}
     \/ Restart /\ loose' = {t \in Target : queue'[t] # None /\ ~queue'[t].removed}
  /\ UNCHANGED removedOnce

HSpec == HInit /\ [][PeopleDecide \/ SystemSteps]_hvars

HFairSpec == HSpec /\ Fairness

-----------------------------------------------------------------------------
\* As long as a gesture waits for the hub, the target is in the state it asked
\* for once the calls at work on it have returned, whatever lists, late ones
\* included, are followed meanwhile (align_monitors, `un geste non accuse
\* l'emporte').  A gesture made while another call is at work on its target has
\* no such guarantee: the look at the queue and the act are apart.
PendingGestureHolds ==
  \A t \in Target \ loose :
    up /\ queue[t] # None /\ (\A h \in Thread : ~OnTarget(h, t))
      => (t \in monitored <=> ~queue[t].removed)

\* A target nobody ever removed does not stop being measured while the
\* application runs, whatever is lost, late, restarted or unreadable
\* (align_monitors: `rien ne s'arrete au motif d'une absence').
SilenceStopsNothing ==
  [][\A t \in Target \ removedOnce' :
       t \in monitored /\ up' => t \in monitored']_hvars
=============================================================================
