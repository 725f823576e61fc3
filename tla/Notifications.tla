--------------------------- MODULE Notifications ----------------------------
(***************************************************************************)
(* The alert loop of the hub (notify.rs): it goes over the probes, notes   *)
(* each one's state, and announces the changes.                            *)
(*                                                                         *)
(* What an alert reads is the row as the pass found it when it began; what *)
(* it compares that with is read, and written, probe by probe.  The state  *)
(* is noted first and announced last: an error on a later probe, or a stop,*)
(* loses what was noted; a channel that fails is not tried again.  All the *)
(* probes of the model are in one site.                                    *)
(***************************************************************************)
EXTENDS HubBase

VARIABLES
  pass,      (* the pass under way: rows found, what is left to see, alerts *)
  (* For the properties.                                                   *)
  last,      (* what the last complete look at a probe saw                  *)
  resumed    (* probes whose alerts were switched on again, or restored     *)

alerting == <<pass, last, resumed>>

Alert == [probe : Probe, kind : Kind, new : BOOLEAN]
Pass  == [at : {"look", "send"}, rows : [Probe -> Seen], left : SUBSET Probe,
          link : SUBSET Probe, alerts : SUBSET Alert]

ASSUME PassAssumption == None \notin Pass

NotificationsInit ==
  /\ pass = None /\ resumed = {}
  /\ last = [p \in Probe |-> [probe |-> None, link |-> None]]

-----------------------------------------------------------------------------
(* What happens to the probes, and what operators ask.                     *)

\* A heartbeat, and the verdict it carries on the link.
Beats(p, link) ==
  /\ Happens("alert") /\ CanWrite /\ ~tables.probe[p].revoked
  /\ tables' = [tables EXCEPT !.probe[p] = [heard |-> "heard", link |-> link, revoked |-> FALSE]]
  /\ UNCHANGED <<stale, now, alerting>>

\* More than the delay has passed since.
FallsSilent(p) ==
  /\ Happens("alert") /\ tables.probe[p].heard = "heard"
  /\ tables' = [tables EXCEPT !.probe[p] = [tables.probe[p] EXCEPT !.heard = "silent"]]
  /\ UNCHANGED <<stale, now, alerting>>

Revokes(p) ==
  /\ Happens("alert") /\ CanWrite
  /\ tables' = [tables EXCEPT !.probe[p] = [tables.probe[p] EXCEPT !.revoked = ~@]]
  /\ UNCHANGED <<stale, now, alerting>>

\* notify_enabled_for_probe: its own exception, else its site.
EnabledIn(t, p) == IF t.asked[p] = None THEN t.site ELSE t.asked[p]

\* Switched on when something was already known of it.
Resumes(t) == {p \in Probe : EnabledIn(t, p) /\ ~EnabledIn(tables, p)
                               /\ (t.known[p] # None \/ t.linkKnown[p] # None)}

\* put_subscription
Subscribes ==
  /\ Happens("alert") /\ CanWrite
  /\ \/ \E on \in BOOLEAN : tables' = [tables EXCEPT !.site = on]
     \/ \E p \in Probe, on \in BOOLEAN \cup {None} : tables' = [tables EXCEPT !.asked[p] = on]
  /\ resumed' = resumed \cup Resumes(tables')
  /\ UNCHANGED <<stale, now, pass, last>>

Chooses(kinds) ==
  /\ Happens("alert") /\ CanWrite /\ tables' = [tables EXCEPT !.wanted = kinds]
  /\ UNCHANGED <<stale, now, alerting>>

-----------------------------------------------------------------------------
(* A pass.                                                                 *)

BeginsPass ==
  /\ Happens("pass") /\ pass = None
  /\ pass' = [at |-> "look", rows |-> tables.probe, left |-> Probe, link |-> {}, alerts |-> {}]
  /\ UNCHANGED <<tables, stale, now, last, resumed>>

Observed(p)     == IF pass.rows[p].heard = "heard" THEN "up" ELSE "down"
ObservedLink(p) == IF pass.rows[p].link = "online" THEN "up" ELSE "down"

\* Revoked, or never seen.
Skipped(p) == pass.rows[p].revoked \/ pass.rows[p].heard = "never"

\* A silent probe says nothing of its link, nor does a verdict not reached.
HasLink(p) == Observed(p) = "up" /\ pass.rows[p].link # "unknown"

LinkKind(seen) == IF seen = "up" THEN "link up" ELSE "link down"

\* A slip: a change nobody asks to hear of is not noted.
OnlyWanted(known, seen, kind) ==
  IF known # None /\ kind \notin tables.wanted THEN known ELSE seen

\* A change is noted whether or not its kind is asked for.
Noted(known, seen, kind) == seen

\* What is noted of p when something else was known; the first look is not
\* announced.
Alerts(p, known, seen, kind, before) ==
  IF known \in {None, seen} THEN {}
  ELSE {[probe |-> p, kind |-> kind, new |-> before # seen]}

SeesState(p) ==
  LET known == tables.known[p]
      seen  == Observed(p)
      looks == ~Skipped(p) /\ EnabledIn(tables, p) IN
  /\ pass # None /\ p \in pass.left /\ pass.link = {}
  /\ looks => known = seen \/ CanWrite
  /\ pass' = [pass EXCEPT !.left = @ \ {p}, !.link = IF looks /\ HasLink(p) THEN {p} ELSE {},
       !.alerts = @ \cup IF looks THEN Alerts(p, known, seen, seen, last[p].probe) ELSE {}]
  /\ IF looks THEN tables' = [tables EXCEPT !.known[p] = Noted(known, seen, seen)] ELSE UNCHANGED tables
  /\ last' = IF Skipped(p) THEN last
             ELSE [last EXCEPT ![p] = [probe |-> seen,
                     link |-> IF ~looks /\ HasLink(p) THEN ObservedLink(p) ELSE @.link]]
  /\ UNCHANGED <<stale, now, acts, resumed>>

SeesLink(p) ==
  LET known == tables.linkKnown[p]
      seen  == ObservedLink(p) IN
  /\ pass # None /\ p \in pass.link
  /\ known = seen \/ CanWrite
  /\ pass' = [pass EXCEPT !.link = {},
       !.alerts = @ \cup Alerts(p, known, seen, LinkKind(seen), last[p].link)]
  /\ tables' = [tables EXCEPT !.linkKnown[p] = Noted(known, seen, LinkKind(seen))]
  /\ last' = [last EXCEPT ![p].link = seen]
  /\ UNCHANGED <<stale, now, acts, resumed>>

\* The base refuses: what the pass had to announce is dropped with it.
FailsPass ==
  /\ pass # None /\ (pass.left # {} \/ pass.link # {})
  /\ IF stale THEN UNCHANGED acts ELSE Happens("alert")
  /\ pass' = None
  /\ UNCHANGED <<tables, stale, now, last, resumed>>

\* The kinds nobody asks for are left out at the end.
Retains ==
  /\ pass # None /\ pass.at = "look" /\ pass.left = {} /\ pass.link = {}
  /\ LET retained == {a \in pass.alerts : a.kind \in tables.wanted} IN
       pass' = IF retained = {} THEN None ELSE [pass EXCEPT !.at = "send", !.alerts = retained]
  /\ UNCHANGED <<hub, last, resumed>>

\* The others go one by one, once, whatever the channels answer; in which order
\* is left open.
Announces ==
  /\ pass # None /\ pass.at = "send"
  /\ \E a \in pass.alerts :
       pass' = IF pass.alerts = {a} THEN None ELSE [pass EXCEPT !.alerts = @ \ {a}]
  /\ UNCHANGED <<hub, last, resumed>>

NotificationsStep ==
  \/ BeginsPass \/ FailsPass \/ Retains \/ Announces \/ Subscribes
  \/ \E p \in Probe : \/ \E link \in {"online", "offline", "unknown"} : Beats(p, link)
                      \/ FallsSilent(p) \/ Revokes(p) \/ SeesState(p) \/ SeesLink(p)
  \/ \E kinds \in Wanted : Chooses(kinds)

-----------------------------------------------------------------------------
(* Properties.                                                             *)

\* An alert tells something new: the pass before had seen the contrary.  No
\* old change comes out when a kind is asked for again (notify.rs:256), when a
\* probe answers again or is no longer revoked.
NewsIsNew ==
  pass # None => \A a \in pass.alerts : a.new \/ a.probe \in resumed
=============================================================================
