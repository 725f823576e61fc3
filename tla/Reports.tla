------------------------------ MODULE Reports -------------------------------
(***************************************************************************)
(* The workbooks the hub prepares on request (reports.rs): a row in the    *)
(* base, a file on the volume, one worker for the whole hub, and a purge.  *)
(*                                                                         *)
(* A workbook is whole, or in part when its writing was interrupted; what  *)
(* is in it, and the digest that goes with it, are left out.  A row read by *)
(* a download changes nothing here but a count.                            *)
(***************************************************************************)
EXTENDS HubBase

CONSTANT ReportDays  (* the values the setting takes                       *)

Task == [report : Report, at : {"gather", "write", "note", "fail"}]

ASSUME ReportsAssumption ==
  /\ ReportDays \subseteq Nat \ {0}
  /\ None \notin Task \cup {"part", "whole"}

VARIABLES
  line,      (* preparations that wait for the worker, in order             *)
  worker,    (* the preparation under way                                   *)
  workbook,  (* the files of the volume                                     *)
  purging,   (* files whose row the purge has dated, not yet removed        *)
  (* For the properties.                                                   *)
  slipped    (* failures that could not be noted                            *)

reporting == <<line, worker, workbook, purging, slipped>>

ReportsInit ==
  /\ line = <<>> /\ worker = None /\ purging = {} /\ slipped = {}
  /\ workbook = [r \in Report |-> None]

RowIs(r, state)  == tables.report[r] # None /\ tables.report[r].state = state
Row(state, days) == [state |-> state, until |-> days]
SetRow(r, row)   == tables' = [tables EXCEPT !.report[r] = row]

\* request_report, create_report.  The identifier was never used.
Requests(r) ==
  /\ Happens("report") /\ CanWrite /\ tables.report[r] = None /\ workbook[r] = None
  /\ r \notin {line[i] : i \in DOMAIN line} /\ (worker # None => worker.report # r)
  /\ SetRow(r, Row("preparing", 0)) /\ line' = Append(line, r)
  /\ UNCHANGED <<stale, now, worker, workbook, purging, slipped>>

\* The worker takes the next one.
Takes ==
  /\ worker = None /\ line # <<>>
  /\ worker' = [report |-> Head(line), at |-> "gather"] /\ line' = Tail(line)
  /\ UNCHANGED <<hub, workbook, purging, slipped>>

GoesTo(step) == worker' = [worker EXCEPT !.at = step]

\* The figures of every probe are asked of the series, then laid out.
Gathers ==
  /\ worker # None /\ worker.at = "gather"
  /\ \E step \in {"write", "fail"} : GoesTo(step)
  /\ UNCHANGED <<hub, line, workbook, purging, slipped>>

\* A slip: a writing that failed is taken for done.
NotedAnyway(file) == "note"

AfterWriting(file) == IF file = "whole" THEN "note" ELSE "fail"

\* The volume may be full.
Writes ==
  /\ worker # None /\ worker.at = "write"
  /\ \E file \in {None, "part", "whole"} :
       workbook' = [workbook EXCEPT ![worker.report] = file] /\ GoesTo(AfterWriting(file))
  /\ UNCHANGED <<hub, line, purging, slipped>>

\* set_report_ready: the day it lasts until is fixed here.
NotesReady ==
  /\ worker # None /\ worker.at = "note"
  /\ \/ /\ CanWrite /\ RowIs(worker.report, "preparing") /\ worker' = None
        /\ \E days \in ReportDays : SetRow(worker.report, Row("ready", now + days))
     \/ GoesTo("fail") /\ UNCHANGED tables
  /\ UNCHANGED <<stale, now, acts, line, workbook, purging, slipped>>

\* set_report_failed; when the base refuses it, that is only logged.
NotesFailed ==
  /\ worker # None /\ worker.at = "fail" /\ worker' = None
  /\ \/ /\ CanWrite /\ UNCHANGED slipped
        /\ IF RowIs(worker.report, "preparing")
             THEN SetRow(worker.report, Row("failed", 0)) ELSE UNCHANGED tables
     \/ slipped' = slipped \cup {worker.report} /\ UNCHANGED tables
  /\ UNCHANGED <<stale, now, acts, line, workbook, purging>>

Expired == {r \in Report : RowIs(r, "ready") /\ tables.report[r].until <= now}

\* purge_expired_reports, in one transaction.
DatesExpired ==
  /\ purging = {} /\ Expired # {} /\ CanWrite /\ purging' = Expired
  /\ tables' = [tables EXCEPT !.report =
       [r \in Report |-> IF r \in Expired THEN Row("purged", @[r].until) ELSE @[r]]]
  /\ UNCHANGED <<stale, now, acts, line, worker, workbook, slipped>>

\* purge_report_files: a file that cannot be removed is left.
RemovesFile(r) ==
  /\ r \in purging /\ purging' = purging \ {r}
  /\ \E file \in {None, workbook[r]} : workbook' = [workbook EXCEPT ![r] = file]
  /\ UNCHANGED <<hub, line, worker, slipped>>

\* A slip: what a stop interrupted stays in preparation.
LeftOpen(rows) == rows

\* fail_reports_interrupted_by_restart
Closed(rows) ==
  [r \in Report |-> IF rows[r] # None /\ rows[r].state = "preparing"
                      THEN Row("failed", 0) ELSE rows[r]]

\* The hub stops, and starts on base t.
ReportsRestart ==
  line' = <<>> /\ worker' = None /\ purging' = {} /\ UNCHANGED <<workbook, slipped>>

Works == Takes \/ Gathers \/ Writes \/ NotesReady \/ NotesFailed

ReportsStep ==
  \/ Works \/ DatesExpired
  \/ \E r \in Report : Requests(r) \/ RemovesFile(r)
=============================================================================
