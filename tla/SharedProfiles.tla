--------------------------- MODULE SharedProfiles ----------------------------
(***************************************************************************)
(* The port-scan profiles the hub shares with every probe.                 *)
(*                                                                         *)
(* The hub keeps a table of profiles and a revision; every change of the   *)
(* table takes the next revision.  A deletion leaves a tombstone.  A probe *)
(* announces, at every heartbeat, the revision it applied and the profiles *)
(* made on it; the hub takes in those it never knew, notes the revision,   *)
(* prunes the tombstones every probe has learnt, and answers with what the *)
(* probe misses, or with everything when a difference would not do.        *)
(*                                                                         *)
(* Every handler of the hub is cut where it releases the database.  The    *)
(* probe saves the list and the revision in one write of its              *)
(* configuration.                                                          *)
(***************************************************************************)
EXTENDS Integers, FiniteSets, FiniteSetsExt

CONSTANTS
  Probe,      (* the probes                                                *)
  Id,         (* identifiers of profiles                                   *)
  Seeded,     (* those a new database is given                             *)
  Name,       (* names; what else a profile holds is left out              *)
  Writer,     (* requests of operators that can be under way at once       *)
  Beat,       (* messages of the probes that can be under way at once      *)
  MaxRev,     (* bound: revisions                                          *)
  MaxEdits,   (* bound: gestures of the operators and at the probes        *)
  MaxFaults,  (* bound: lost answers, failed writes, restarts, absences    *)
  Nothing     (* no profile, nothing under way                             *)

Author == Writer \cup Beat    \* whoever changes the table

\* A profile of the hub, or its tombstone; an entry of a probe's list; what a
\* message says of one; what the hub notes of a probe.
Row    == [name : Name, dead : BOOLEAN, rev : Nat \ {0}]
Entry  == [name : Name, own : BOOLEAN]
Item   == [id : Id, name : Name]
Told   == [id : Id, name : Name, dead : BOOLEAN]
Line   == [rev : Nat, counted : BOOLEAN]
Base   == [rev : Nat \ {0}, purged : Nat, table : [Id -> Row \cup {Nothing}], line : [Probe -> Line]]

\* A change of the table and a message of a probe, under way.
ChangeRow ==
  [kind : {"insert", "update", "delete"}, at : {"look", "read", "bump", "write"},
   id : Id, name : Name \cup {Nothing}, rev : Nat]
BeatRow ==
  [who : Probe, kind : {"heartbeat", "deposit"}, awaited : BOOLEAN, out : SUBSET Item,
   at : {"ingest", "prune", "mark", "since", "select", "replied"}, announced : Nat,
   floor : Nat, rev : Nat, replace : BOOLEAN, rows : SUBSET Told]

ASSUME ProfilesBounds ==
  /\ {MaxRev, MaxEdits, MaxFaults} \subseteq Nat
  /\ Seeded \subseteq Id /\ Seeded # {} /\ IsFiniteSet(Id)
  /\ Nothing \notin Name /\ Nothing \notin Row /\ Nothing \notin Entry
  /\ Nothing \notin Base /\ Nothing \notin ChangeRow /\ Nothing \notin BeatRow

VARIABLES
  rev,       (* hub: the revision (settings)                               *)
  purged,    (* hub: below it, tombstones may be missing (settings)        *)
  table,     (* hub: the rows of `portscan_profiles', tombstones included  *)
  line,      (* hub: the revision noted for each probe, and its standing   *)
  job,       (* hub: the changes of the table under way                    *)
  beat,      (* the probes' messages under way                             *)
  held,      (* each probe's list                                          *)
  applied,   (* the revision each probe applied                            *)
  saved,     (* what a backup of the hub holds                             *)
  fresh,     (* identifiers nobody has drawn yet                           *)
  acts, faults,
  (* For the properties.                                                   *)
  erased,    (* profiles deleted on the hub                                *)
  astray,    (* pruned while a message or an absent probe carried them     *)
  disturbed  (* an answer crossed a change, a purge was cut short or left  *)
             (* unmarked, or a list was edited behind the hub's back       *)

hub    == <<rev, purged, table, line, job>>
probes == <<held, applied>>
bounds == <<saved, fresh, acts, faults>>
ghosts == <<erased, astray, disturbed>>
profilesVars == <<hub, beat, probes, bounds, ghosts>>

\* seed_portscan_profiles: each profile of the application, at a revision of
\* its own.
ProfilesInit ==
  /\ rev = Cardinality(Seeded) /\ purged = 0
  /\ \E order \in [Seeded -> 1..Cardinality(Seeded)], name \in [Seeded -> Name] :
       /\ \A i, j \in Seeded : i # j => order[i] # order[j] /\ name[i] # name[j]
       /\ table = [i \in Id |-> IF i \in Seeded
                                THEN [name |-> name[i], dead |-> FALSE, rev |-> order[i]]
                                ELSE Nothing]
  /\ line = [p \in Probe |-> [rev |-> 0, counted |-> TRUE]]
  /\ job = [a \in Author |-> Nothing] /\ beat = [b \in Beat |-> Nothing]
  /\ held = [p \in Probe |-> [i \in Id |-> Nothing]] /\ applied = [p \in Probe |-> 0]
  /\ saved = Nothing /\ fresh = Id \ Seeded /\ acts = MaxEdits /\ faults = MaxFaults
  /\ erased = {} /\ astray = {} /\ disturbed = FALSE

Fault == faults > 0 /\ faults' = faults - 1
Act   == acts > 0 /\ acts' = acts - 1

Live(t) == {i \in Id : t[i] # Nothing /\ ~t[i].dead}
Taken(name, but) == \E i \in Live(table) \ {but} : table[i].name = name

-----------------------------------------------------------------------------
(* A change of the table: look at the row, read the revision, write the    *)
(* next one, write the row.                                                *)

At(a, step)  == job[a] # Nothing /\ job[a].at = step
Ends(a)      == job' = [job EXCEPT ![a] = Nothing]
Change(kind, at, i, name) == [kind |-> kind, at |-> at, id |-> i, name |-> name, rev |-> 0]

\* create_profile, update_profile, delete_profile.  A name left out is Nothing.
Begins(w) ==
  /\ job[w] = Nothing /\ Act
  /\ \/ \E i \in fresh, name \in Name :
          /\ job' = [job EXCEPT ![w] = Change("insert", "read", i, name)]
          /\ fresh' = fresh \ {i}
     \/ \E i \in Id \ fresh, name \in Name \cup {Nothing} :
          /\ job' = [job EXCEPT ![w] = Change("update", "look", i, name)]
          /\ UNCHANGED fresh
     \/ \E i \in Id \ fresh :
          /\ job' = [job EXCEPT ![w] = Change("delete", "look", i, Nothing)]
          /\ UNCHANGED fresh
  /\ UNCHANGED <<rev, purged, table, line, beat, probes, saved, faults, ghosts>>

\* What the handlers check first: an update or a deletion needs a live row,
\* ingest_probe_profiles a profile the hub never knew.
Wanted(change) ==
  IF change.kind = "insert" THEN table[change.id] = Nothing ELSE change.id \in Live(table)

Looks(a) ==
  /\ At(a, "look")
  /\ IF Wanted(job[a])
     THEN job' = [job EXCEPT ![a].at = "read",
                             ![a].name = IF @ = Nothing THEN table[job[a].id].name ELSE @]
     ELSE Ends(a)
  /\ UNCHANGED <<rev, purged, table, line, beat, probes, bounds, ghosts>>

\* bump_portscan_rev.
ReadsRev(a) ==
  /\ At(a, "read") /\ rev < MaxRev
  /\ job' = [job EXCEPT ![a].rev = rev + 1, ![a].at = "bump"]
  /\ UNCHANGED <<rev, purged, table, line, beat, probes, bounds, ghosts>>

\* A revision is taken that a probe, or a message of one, has already: a hub
\* that was restored, or two changes that crossed.
Reused(r) ==
  \/ \E p \in Probe : applied[p] >= r
  \/ \E b \in Beat : beat[b] # Nothing /\ beat[b].announced >= r

Bumps(a) ==
  /\ At(a, "bump")
  /\ rev' = job[a].rev
  /\ job' = [job EXCEPT ![a].at = "write"]
  /\ disturbed' = (disturbed \/ Reused(job[a].rev))
  /\ UNCHANGED <<purged, table, line, beat, probes, bounds, erased, astray>>

\* A slip: a deletion deletes the row.
WrittenWithout(change) ==
  CASE change.kind = "insert" -> [name |-> change.name, dead |-> FALSE, rev |-> change.rev]
    [] change.kind = "update" -> [table[change.id] EXCEPT !.name = change.name, !.rev = change.rev]
    [] change.kind = "delete" -> Nothing

\* The row a change leaves.
Written(change) ==
  CASE change.kind = "insert" -> [name |-> change.name, dead |-> FALSE, rev |-> change.rev]
    [] change.kind = "update" -> [table[change.id] EXCEPT !.name = change.name, !.rev = change.rev]
    [] change.kind = "delete" -> [table[change.id] EXCEPT !.dead = TRUE, !.rev = change.rev]

\* Refused: the row came or went meanwhile, or a live one has the name.
Refused(change) ==
  \/ (change.kind = "insert") # (table[change.id] = Nothing)
  \/ /\ change.kind # "delete" /\ Taken(change.name, change.id)
     /\ change.kind = "update" => ~table[change.id].dead

Writes(a) ==
  /\ At(a, "write")
  /\ Ends(a)
  /\ IF Refused(job[a]) THEN UNCHANGED <<table, erased>>
     ELSE /\ table' = [table EXCEPT ![job[a].id] = Written(job[a])]
          /\ erased' = IF job[a].kind = "delete" THEN erased \cup {job[a].id} ELSE erased
  /\ UNCHANGED <<rev, purged, line, beat, probes, bounds, astray, disturbed>>

Underway == {a \in Author : At(a, "bump") \/ At(a, "write")}

-----------------------------------------------------------------------------
(* The probes' messages.                                                   *)

BeatAt(b, step) == beat[b] # Nothing /\ beat[b].at = step
BeatEnds(b)     == beat' = [beat EXCEPT ![b] = Nothing]
Awaited(p)      == {b \in Beat : beat[b] # Nothing /\ beat[b].who = p /\ beat[b].awaited}

Entries(p, ids) == {[id |-> i, name |-> held[p][i].name] : i \in ids}
Held(p) == {i \in Id : held[p][i] # Nothing}

\* outgoing_portscan_profiles: what the probe owns.
Outgoing(p) == Entries(p, {i \in Held(p) : held[p][i].own})

Message(p, kind, out) ==
  [who |-> p, kind |-> kind, at |-> "ingest", awaited |-> kind = "heartbeat", out |-> out,
   announced |-> IF kind = "heartbeat" THEN applied[p] ELSE 0,
   floor |-> 0, rev |-> 0, replace |-> FALSE, rows |-> {}]

Sends(b, p) ==
  /\ beat[b] = Nothing /\ Awaited(p) = {}
  /\ beat' = [beat EXCEPT ![b] = Message(p, "heartbeat", Outgoing(p))]
  /\ UNCHANGED <<hub, probes, bounds, ghosts>>

\* upload_config, after an edition: the whole list.
Deposits(b, p) ==
  /\ beat[b] = Nothing /\ Act
  /\ beat' = [beat EXCEPT ![b] = Message(p, "deposit", Entries(p, Held(p)))]
  /\ UNCHANGED <<hub, probes, saved, fresh, faults, ghosts>>

\* ingest_probe_profiles, one profile after the other.
Ingests(b) ==
  /\ BeatAt(b, "ingest") /\ job[b] = Nothing
  /\ \E e \in beat[b].out :
       /\ beat' = [beat EXCEPT ![b].out = @ \ {e}]
       /\ job' = [job EXCEPT ![b] = Change("insert", "look", e.id, e.name)]
  /\ UNCHANGED <<rev, purged, table, line, probes, bounds, ghosts>>

Ingested(b) == BeatAt(b, "ingest") /\ job[b] = Nothing /\ beat[b].out = {}

DepositEnds(b) ==
  /\ Ingested(b) /\ beat[b].kind = "deposit"
  /\ BeatEnds(b)
  /\ UNCHANGED <<hub, probes, bounds, ghosts>>

\* note_portscan_rev: never beyond the hub's own.
Noted(announced) == Min({announced, rev})

\* A slip: the probe that is furthest decides.
FloorOfFurthest(lines) ==
  LET counted == {p \in Probe : lines[p].counted}
  IN  IF counted = {} THEN rev ELSE Max({lines[p].rev : p \in counted})

\* The probes prune_portscan_tombstones spares: those revoked, archived or
\* silent for 90 days are not counted.
Floor(lines) ==
  LET counted == {p \in Probe : lines[p].counted}
  IN  IF counted = {} THEN rev ELSE Min({lines[p].rev : p \in counted})

Pruning == {b \in Beat : BeatAt(b, "prune") \/ BeatAt(b, "mark")}

Notes(b) ==
  /\ Ingested(b) /\ beat[b].kind = "heartbeat"
  /\ line' = [line EXCEPT ![beat[b].who] = [rev |-> Noted(beat[b].announced), counted |-> TRUE]]
  /\ beat' = [beat EXCEPT ![b].at = "prune", ![b].floor = Floor(line')]
  /\ disturbed' = (disturbed \/ (~line[beat[b].who].counted /\ Pruning # {}))
  /\ UNCHANGED <<rev, purged, table, job, probes, bounds, erased, astray>>

\* A message under way, or a probe left out of the count, still carries it.
Carried(i) ==
  \/ \E a \in Author : job[a] # Nothing /\ job[a].kind = "insert" /\ job[a].id = i
  \/ \E b \in Beat : beat[b] # Nothing /\ \E e \in beat[b].out : e.id = i
  \/ \E p \in Probe : ~line[p].counted /\ i \in Held(p)

Prunable(floor) == {i \in Id : table[i] # Nothing /\ table[i].dead /\ table[i].rev <= floor}

Prunes(b) ==
  /\ BeatAt(b, "prune")
  /\ LET gone == Prunable(beat[b].floor)
     IN  /\ table' = [i \in Id |-> IF i \in gone THEN Nothing ELSE table[i]]
         /\ beat' = IF gone = {}
                    THEN [beat EXCEPT ![b].at = "since", ![b].floor = 0]
                    ELSE [beat EXCEPT ![b].at = "mark"]
         /\ astray' = astray \cup {i \in gone : Carried(i)}
  /\ UNCHANGED <<rev, purged, line, job, probes, bounds, erased, disturbed>>

\* A slip: the threshold stays.
MarkedNot(floor) == purged

Marked(floor) == Max({purged, floor + 1})

Marks(b) ==
  /\ BeatAt(b, "mark")
  /\ purged' = Marked(beat[b].floor)
  /\ beat' = [beat EXCEPT ![b].at = "since", ![b].floor = 0]
  /\ UNCHANGED <<rev, table, line, job, probes, bounds, ghosts>>

\* The threshold could not be raised, the tombstones being gone already: the
\* heartbeat goes on.
LeavesMark(b) ==
  /\ BeatAt(b, "mark") /\ purged <= beat[b].floor /\ Fault
  /\ beat' = [beat EXCEPT ![b].at = "since", ![b].floor = 0]
  /\ disturbed' = TRUE
  /\ UNCHANGED <<hub, probes, saved, fresh, acts, erased, astray>>

\* portscan_profiles_since: the revision first, the rows next.
Compares(b) ==
  /\ BeatAt(b, "since")
  /\ IF beat[b].announced = rev
     THEN beat' = [beat EXCEPT ![b].at = "replied", ![b].announced = 0]
     ELSE beat' = [beat EXCEPT ![b].at = "select", ![b].rev = rev,
                     ![b].replace = beat[b].announced > rev \/ beat[b].announced < purged]
  /\ disturbed' = (disturbed \/ Underway # {})
  /\ UNCHANGED <<hub, probes, bounds, erased, astray>>

Selects(b) ==
  /\ BeatAt(b, "select")
  /\ beat' = [beat EXCEPT ![b].at = "replied", ![b].announced = 0, ![b].rows =
       {[id |-> i, name |-> table[i].name, dead |-> table[i].dead] :
          i \in {k \in Id : table[k] # Nothing /\
                            (beat[b].replace \/ table[k].rev > beat[b].announced)}}]
  /\ UNCHANGED <<hub, probes, bounds, ghosts>>

\* merge: a tombstone removes, a live row is the hub's, and what the hub does
\* not mention stays, unless it is the hub's and the list is replaced.
Merged(list, rows, replace) ==
  [i \in Id |->
    IF \E r \in rows : r.id = i
    THEN LET r == CHOOSE r \in rows : r.id = i
         IN  IF r.dead THEN Nothing ELSE [name |-> r.name, own |-> FALSE]
    ELSE IF replace /\ list[i] # Nothing /\ ~list[i].own THEN Nothing ELSE list[i]]

\* align_portscan_profiles: nothing said, nothing done; list and revision are
\* saved together or not at all.
Aligns(b) ==
  /\ BeatAt(b, "replied") /\ beat[b].awaited
  /\ BeatEnds(b)
  /\ \/ /\ beat[b].rev # 0
        /\ held' = [held EXCEPT ![beat[b].who] = Merged(@, beat[b].rows, beat[b].replace)]
        /\ applied' = [applied EXCEPT ![beat[b].who] = beat[b].rev]
        /\ UNCHANGED faults
     \/ beat[b].rev = 0 /\ UNCHANGED <<held, applied, faults>>
     \/ beat[b].rev # 0 /\ Fault /\ UNCHANGED <<held, applied>>
  /\ UNCHANGED <<hub, saved, fresh, acts, ghosts>>

\* The probe gives up waiting; the hub goes on.
GivesUp(b) ==
  /\ beat[b] # Nothing /\ beat[b].awaited /\ Fault
  /\ beat' = [beat EXCEPT ![b].awaited = FALSE]
  /\ UNCHANGED <<hub, probes, saved, fresh, acts, ghosts>>

\* Nobody reads the answer.
Discards(b) ==
  /\ BeatAt(b, "replied") /\ ~beat[b].awaited
  /\ BeatEnds(b)
  /\ UNCHANGED <<hub, probes, bounds, ghosts>>

-----------------------------------------------------------------------------
(* People at the probe, long absences, restarts of the hub.                *)

\* add.
MakesHere(p) ==
  /\ Act
  /\ \E i \in fresh, name \in Name :
       /\ held' = [held EXCEPT ![p][i] = [name |-> name, own |-> TRUE]]
       /\ fresh' = fresh \ {i}
  /\ UNCHANGED <<hub, beat, applied, saved, faults, ghosts>>

\* edit, remove: nothing tells the hub.
EditsHere(p) ==
  /\ Act
  /\ \E i \in Held(p) :
       /\ \/ held' = [held EXCEPT ![p][i] = Nothing]
          \/ \E name \in Name \ {held[p][i].name} : held' = [held EXCEPT ![p][i].name = name]
       /\ disturbed' = (disturbed \/ ~held[p][i].own)
  /\ UNCHANGED <<hub, beat, applied, saved, fresh, faults, erased, astray>>

\* A probe is silent for 90 days, or archived.
FallsSilent(p) ==
  /\ Fault /\ line[p].counted /\ Awaited(p) = {}
  /\ line' = [line EXCEPT ![p].counted = FALSE]
  /\ UNCHANGED <<rev, purged, table, job, beat, probes, saved, fresh, acts, ghosts>>

\* The tombstones are gone, and the threshold is not raised yet.
Unmarked == \E b \in Beat : BeatAt(b, "mark")

\* A backup reads the whole database at once.
Saves ==
  /\ saved = Nothing /\ Act
  /\ saved' = [rev |-> rev, purged |-> purged, table |-> table, line |-> line]
  /\ disturbed' = (disturbed \/ Underway # {} \/ Unmarked)
  /\ UNCHANGED <<hub, beat, probes, fresh, faults, erased, astray>>

\* lift_portscan_rev.
Lifted(r, t) == Max({r} \cup {t[i].rev : i \in {k \in Id : t[k] # Nothing}})

\* The hub starts again, on its own database or on the one saved: what it was
\* doing is lost.
Starts(db) ==
  /\ Fault
  /\ rev' = Lifted(db.rev, db.table) /\ purged' = db.purged
  /\ table' = db.table /\ line' = db.line
  /\ job' = [a \in Author |-> Nothing] /\ beat' = [b \in Beat |-> Nothing]
  /\ UNCHANGED <<probes, saved, fresh, acts>>

Restarts ==
  /\ Starts([rev |-> rev, purged |-> purged, table |-> table, line |-> line])
  /\ disturbed' = (disturbed \/ Unmarked)
  /\ UNCHANGED <<erased, astray>>

Restores ==
  /\ saved # Nothing /\ Starts(saved)
  /\ disturbed' = (disturbed \/ (rev > saved.rev /\ \E p \in Probe : applied[p] \in 1..rev'))
  /\ erased' = {i \in Id : saved.table[i] # Nothing /\ saved.table[i].dead}
  /\ UNCHANGED astray

-----------------------------------------------------------------------------
AuthorSteps(a) == Looks(a) \/ ReadsRev(a) \/ Bumps(a) \/ Writes(a)
BeatSteps(b) ==
  \/ Ingests(b) \/ DepositEnds(b) \/ Notes(b) \/ Prunes(b) \/ Marks(b)
  \/ Compares(b) \/ Selects(b) \/ Aligns(b) \/ Discards(b)

WritingNext ==
  \/ \E w \in Writer : Begins(w)
  \/ \E a \in Author : AuthorSteps(a)
  \/ \E b \in Beat : BeatSteps(b) \/ GivesUp(b) \/ \E p \in Probe : Sends(b, p) \/ Deposits(b, p)
  \/ \E p \in Probe : MakesHere(p) \/ EditsHere(p) \/ FallsSilent(p)
  \/ Saves \/ Restarts \/ Restores

ProfilesNext == WritingNext \/ \E b \in Beat : LeavesMark(b)

ProfilesSpec == ProfilesInit /\ [][ProfilesNext]_profilesVars

-----------------------------------------------------------------------------
(* Properties.                                                             *)

\* What a probe has from the hub, and what the hub shares.
FromHub(p) == {<<i, held[p][i].name>> : i \in {k \in Held(p) : ~held[p][k].own}}
Shared     == {<<i, table[i].name>> : i \in Live(table)}

\* The hub tells a probe nothing when it announces the hub's revision: such a
\* probe holds the hub's list (portscan_profiles_since, `None = elle est a
\* jour').  No change must have been between its revision and its row when
\* the answer was made, and nobody edits the hub's profiles at the probe.
OrderlyUpToDate ==
  ~disturbed => \A p \in Probe : applied[p] = rev /\ Underway = {} => FromHub(p) = Shared

\* Only what every probe has learnt is pruned (prune_portscan_tombstones,
\* `les suppressions que tout le parc a apprises').  `astray' sets apart those
\* a message carried while, or after, their tombstone was pruned once.
PrunedIsLearnt ==
  [][~disturbed /\ faults' = faults => \A p \in Probe, i \in Id \ astray :
       table[i] # Nothing /\ table'[i] = Nothing /\ line[p].counted => i \notin Held(p)]_profilesVars

\* A profile deleted on the hub does not come back, neither by a probe that
\* still holds it nor by one that made it: as long as nothing is `disturbed', and
\* but for those of `astray'.
NoResurrection ==
  [][~disturbed => \A i \in (erased \cap erased') \ (Live(table) \cup astray) :
                    i \notin Live(table')]_profilesVars
=============================================================================
