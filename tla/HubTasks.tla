----------------------------- MODULE HubTasks ------------------------------
(***************************************************************************)
(* The background work of the hub together: alerts, reports and backups    *)
(* share the base, which a restoration replaces, and stop together, with   *)
(* the packages.                                                           *)
(***************************************************************************)
EXTENDS Notifications, Reports, Backups, Packages

vars == <<hub, alerting, reporting, backups, packages>>

Init ==
  /\ tables = EmptyTables(1) /\ stale = FALSE /\ now = 1 /\ acts \in Mixes
  /\ NotificationsInit /\ ReportsInit /\ BackupsInit
  /\ PackagesInit

\* The hub stops and starts: on what is in place, what was in preparation is
\* closed, and everything in memory is gone.
Restarts ==
  /\ Happens("stop") /\ UNCHANGED now /\ stale' = FALSE
  /\ tables' = [BaseAtStart EXCEPT !.report = Closed(@)]
  /\ pass' = None /\ UNCHANGED last
  /\ resumed' = IF volume.base = Open THEN resumed ELSE Probe
  /\ ReportsRestart /\ BackupsRestart /\ PackagesRestart

Next ==
  \/ NotificationsStep /\ UNCHANGED <<reporting, backups, packages>>
  \/ ReportsStep /\ UNCHANGED <<alerting, backups, packages>>
  \/ BackupsStep /\ UNCHANGED <<alerting, reporting, packages>>
  \/ PackagesStep /\ UNCHANGED <<alerting, reporting, backups>>
  \/ Tick /\ UNCHANGED <<alerting, reporting, backups, packages>>
  \/ Restarts

\* The worker goes on by itself, but for the figures it asks of the series: a
\* query has no deadline, and may never return.
Fairness ==
  WF_vars((Takes \/ Writes \/ NotesReady \/ NotesFailed) /\ UNCHANGED <<alerting, backups, packages>>)

Spec == Init /\ [][Next]_vars /\ Fairness

-----------------------------------------------------------------------------
(* Properties.                                                             *)

\* A report announced as ready has its file, whole (reports.rs:845), as long as
\* the base is not one of another time.
ReadyHasFile ==
  ~restored => \A r \in Report : RowIs(r, "ready") => workbook[r] = "whole"

\* A request does not stay in preparation (reports.rs:361) when the worker's
\* queries return or the hub starts again, unless the base refuses to hear of it.
Answered == []<>(worker = None \/ worker.at # "gather")

RequestsEnd ==
  Answered => \A r \in Report :
    RowIs(r, "preparing") ~> (~RowIs(r, "preparing") \/ stale \/ r \in slipped)
=============================================================================
