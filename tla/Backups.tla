------------------------------ MODULE Backups -------------------------------
(***************************************************************************)
(* Backups of the hub and their restoration (backup.rs): archives that a   *)
(* loop and a person make, the retention, and a restoration that replaces  *)
(* the base and the key of a running hub.                                  *)
(*                                                                         *)
(* An archive holds a copy of the base and the key its secrets are sealed  *)
(* with.  It is listed from the moment its file is opened, under the       *)
(* instant it was begun; two begun at the same instant are refused.  Of the *)
(* volume the base and the key are kept, and what of them lies beside: moved*)
(* aside by a restoration, or left where one that failed had extracted it.  *)
(* The series are a service's.  One restoration at a time, and one a second *)
(* at most: what is extracted is named after the second.                   *)
(***************************************************************************)
EXTENDS HubBase

CONSTANTS
  Keep,        (* backup_keep_last                                         *)
  Interval     (* ticks between two scheduled backups                      *)

Maker   == {"loop", "hand"}
Instant == 0..MaxTime
Key     == Nat \cup {None}
Whole   == [is : {"whole", "torn"}, base : Base, key : Key]
Copy    == [at : {"key", "write", "prune"}, name : Instant, base : Base, key : Key]
Restoration == [at : {"aside", "aside key", "place", "place key"}, base : Base, key : Key]

\* In place: the base the hub has open, or another one.
Open == [open |-> TRUE]

ASSUME BackupsAssumption ==
  /\ Keep \in Nat /\ Interval \in Nat \ {0}
  /\ None \notin Whole \cup Copy \cup Restoration \cup {Open, [is |-> "open"], [is |-> "torn"]}

VARIABLES
  archive,     (* the archives listed, by the instant in their name         *)
  making,      (* the backups under way: the loop's, and a person's         *)
  volume,      (* the base and the key in place                             *)
  beside,      (* what the bases beside are sealed with, and the keys beside *)
  restoring,   (* the restoration under way                                 *)
  (* For the properties.                                                   *)
  crossed,     (* two of these were under way together, or one was begun on *)
               (* a base that was moved                                     *)
  overwritten, (* a key was placed over one that could not be moved aside   *)
  restored     (* the hub has started on a restored base                    *)

seals   == <<crossed, overwritten, restored>>
backups == <<archive, making, volume, beside, restoring, seals>>

Content(base) == IF base = Open THEN tables ELSE base
SealOf(base)  == IF Content(base) = None THEN {} ELSE {Content(base).sealed}

\* The archive of another machine was put in the volume.
BackupsInit ==
  /\ archive = [t \in Instant |-> IF t = 0
       THEN [is |-> "whole", base |-> EmptyTables(0), key |-> 0] ELSE None]
  /\ making = [m \in Maker |-> None] /\ restoring = None
  /\ volume = [base |-> Open, key |-> 1] /\ beside = [bases |-> {}, keys |-> {}]
  /\ crossed = FALSE /\ overwritten = FALSE /\ restored = FALSE

Listed == {t \in Instant : archive[t] # None}

-----------------------------------------------------------------------------
(* Making one.                                                             *)

\* is_due: the last archive listed counts, whatever it is worth.
IsDue == \A t \in Listed : now - t >= Interval

Busy == restoring # None \/ \E m \in Maker : making[m] # None

MakerSet(m, x) == making' = [making EXCEPT ![m] = x]

\* create: the base is copied first.
Begins(m) ==
  /\ making[m] = None
  /\ Happens("backup") /\ (m = "loop" => IsDue)
  /\ now \notin Listed /\ \A n \in Maker : making[n] # None => making[n].name # now
  /\ MakerSet(m, [at |-> "key", name |-> now, base |-> tables, key |-> None])
  /\ crossed' = (crossed \/ stale \/ Busy)
  /\ UNCHANGED <<tables, stale, now, archive, volume, beside, restoring, overwritten, restored>>

\* build_archive: the key is summed for the manifest, and its file opened.
OpensArchive(m) ==
  /\ making[m] # None /\ making[m].at = "key"
  /\ MakerSet(m, [making[m] EXCEPT !.at = "write", !.key = volume.key])
  /\ archive' = [archive EXCEPT ![making[m].name] = [is |-> "open"]]
  /\ UNCHANGED <<hub, volume, beside, restoring, seals>>

\* The key is read again to be put in; another one does not fit the manifest.
WritesArchive(m) ==
  LET a == making[m] IN
  /\ a # None /\ a.at = "write" /\ (a.key # None => volume.key # None)
  /\ archive' = [archive EXCEPT ![a.name] =
       [is |-> IF volume.key = a.key THEN "whole" ELSE "torn", base |-> a.base, key |-> a.key]]
  /\ MakerSet(m, [a EXCEPT !.at = "prune"])
  /\ UNCHANGED <<hub, volume, beside, restoring, seals>>

\* A slip: the retention is applied when the backup failed, too.
PrunesToo(m) == MakerSet(m, [making[m] EXCEPT !.at = "prune"])

GivesUp(m) == MakerSet(m, None)

\* An archive half written is moved out of the list.
FailsArchive(m) ==
  /\ Happens("backup") /\ making[m] # None /\ making[m].at \in {"key", "write"}
  /\ archive' = IF making[m].at = "write" THEN [archive EXCEPT ![making[m].name] = None] ELSE archive
  /\ GivesUp(m)
  /\ UNCHANGED <<tables, stale, now, volume, beside, restoring, seals>>

\* prune: all but the last Keep archives listed; none when Keep is zero.
Kept == IF Keep = 0 THEN Listed ELSE {t \in Listed : Cardinality({u \in Listed : u > t}) < Keep}

Prunes(m) ==
  /\ making[m] # None /\ making[m].at = "prune" /\ MakerSet(m, None)
  /\ archive' = [t \in Instant |-> IF t \in Kept THEN archive[t] ELSE None]
  /\ UNCHANGED <<hub, volume, beside, restoring, seals>>

-----------------------------------------------------------------------------
(* Restoring one.                                                          *)

\* restore, up to where it is known that the archive is whole: it is all beside.
BeginsRestore(t) ==
  /\ Happens("backup") /\ restoring = None /\ t \in Listed /\ archive[t].is = "whole"
  /\ restoring' = [at |-> "aside", base |-> archive[t].base, key |-> archive[t].key]
  /\ crossed' = (crossed \/ Busy)
  /\ UNCHANGED <<tables, stale, now, archive, making, volume, beside, overwritten, restored>>

RestoreGoes(step) == restoring' = [restoring EXCEPT !.at = step]

\* What of the archive was extracted and is not in place.
LeftBase == IF restoring # None /\ restoring.at # "place key" THEN {restoring.base.sealed} ELSE {}
LeftKey  == IF restoring # None THEN {restoring.key} \ {None} ELSE {}

LeavesBeside(bases, keys) ==
  beside' = [bases |-> beside.bases \cup bases, keys |-> beside.keys \cup keys]

\* What is in place is moved aside, file after file; a file that cannot be
\* moved stays in place, and nobody is told.
MovesBase ==
  /\ restoring # None /\ restoring.at = "aside" /\ RestoreGoes("aside key")
  /\ \/ volume' = [volume EXCEPT !.base = None] /\ LeavesBeside(SealOf(volume.base), {})
     \/ volume' = volume /\ beside' = beside
  /\ stale' = (stale \/ volume'.base # Open)
  /\ UNCHANGED <<tables, now, acts, archive, making, seals>>

MovesKey ==
  /\ restoring # None /\ restoring.at = "aside key" /\ RestoreGoes("place")
  /\ \/ volume' = [volume EXCEPT !.key = None] /\ LeavesBeside({}, {volume.key} \ {None})
     \/ volume' = volume /\ beside' = beside
  /\ UNCHANGED <<hub, archive, making, seals>>

\* What the archive holds is put in place: the base, then the key, over what
\* is still there.
PlacesBase ==
  /\ restoring # None /\ restoring.at = "place" /\ RestoreGoes("place key")
  /\ volume' = [volume EXCEPT !.base = restoring.base] /\ stale' = (stale \/ volume.base = Open)
  /\ UNCHANGED <<tables, now, acts, archive, making, beside, seals>>

\* A slip: a key that is there is not replaced.
BaseOnly(v, key) == v

WithKey(v, key) == IF key = None THEN v ELSE [v EXCEPT !.key = key]

PlacesKey ==
  /\ restoring # None /\ restoring.at = "place key" /\ restoring' = None
  /\ volume' = WithKey(volume, restoring.key)
  /\ overwritten' = (overwritten \/ (volume.key # None /\ restoring.key # None))
  /\ UNCHANGED <<hub, archive, making, beside, crossed, restored>>

\* No directory to move things into, or a file that does not go to its place:
\* the restoration ends there, and leaves what it has extracted.
FailsRestore ==
  /\ restoring # None /\ restoring.at # "aside key" /\ restoring' = None
  /\ LeavesBeside(LeftBase, LeftKey)
  /\ UNCHANGED <<hub, archive, making, volume, seals>>

-----------------------------------------------------------------------------
\* Drawn when the hub starts and finds none: of no other machine, nor time.
FreshKey == now + 2

KeyAtStart  == IF volume.key = None THEN FreshKey ELSE volume.key
BaseAtStart == IF volume.base = Open THEN tables
               ELSE IF volume.base = None THEN EmptyTables(KeyAtStart) ELSE volume.base

\* The hub stops, and starts on what is in place.
BackupsRestart ==
  /\ volume' = [base |-> Open, key |-> KeyAtStart]
  /\ archive' = [t \in Instant |-> IF archive[t] # None /\ archive[t].is = "open"
                   THEN [is |-> "torn"] ELSE archive[t]]
  /\ making' = [m \in Maker |-> None] /\ restoring' = None
  /\ LeavesBeside(LeftBase, LeftKey)
  /\ restored' = (restored \/ volume.base # Open)
  /\ UNCHANGED <<crossed, overwritten>>

BackupsStep ==
  \/ \E m \in Maker : Begins(m) \/ OpensArchive(m) \/ WritesArchive(m) \/ FailsArchive(m) \/ Prunes(m)
  \/ \E t \in Instant : BeginsRestore(t)
  \/ MovesBase \/ MovesKey \/ PlacesBase \/ PlacesKey \/ FailsRestore

-----------------------------------------------------------------------------
(* Properties.                                                             *)

\* There is always an archive to restore, whatever fails or stops, once there
\* was one, when backups and restorations come one at a time (backup.rs:543).
OneArchiveRemains ==
  ~crossed => \E t \in Listed : archive[t].is = "whole"

\* A restoration stays repairable (backup.rs:950): whatever fails or stops half
\* way, and whatever crosses it, each base on the volume, in place or beside, has
\* its key on the volume, too; unless a key could not be moved aside.
KeysHere  == (({volume.key} \cup beside.keys) \ {None}) \cup LeftKey
SealsHere == SealOf(volume.base) \cup beside.bases \cup LeftBase

SecretsCanBeOpened == ~overwritten => SealsHere \subseteq KeysHere
=============================================================================
