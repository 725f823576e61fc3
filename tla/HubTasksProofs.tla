--------------------------- MODULE HubTasksProofs ----------------------------
(***************************************************************************)
(* Proofs about HubTasks, for every set of probes, reports and fetches,    *)
(* every retention, and any number of events.  Each part has an inductive  *)
(* invariant of its own, which the steps of the other parts leave alone.   *)
(***************************************************************************)
EXTENDS HubTasks, FiniteSetTheorems, TLAPS

-----------------------------------------------------------------------------
(* Packages.                                                               *)

PackagesType ==
  /\ released \in Version /\ met \in BOOLEAN
  /\ cache \in [Version -> Folder \cup {None}]
  /\ fetching \in [Fetch -> Underway \cup {None}]

\* While no two fetches of a version were under way together, what lies in its
\* directory is what the one fetch has come to.
FetchesApart ==
  \A f, g \in Fetch :
    fetching[f] # None /\ fetching[g] # None /\ fetching[f].version = fetching[g].version => f = g

\* A part that is being written is the part of a fetch that writes there.
PartIsWritten ==
  \A v \in Version : cache[v] # None =>
    \A f \in Fetch : cache[v].part = f => At(f, {"write", "adrift"}) /\ fetching[f].version = v

\* Who writes has his part, or the directory was purged.
WriterHasPart ==
  \A f \in Fetch : At(f, {"write", "adrift"}) /\ cache[fetching[f].version] # None =>
    cache[fetching[f].version].part = f

\* Who renames has written it all.
RenamerHasWhole ==
  \A f \in Fetch : At(f, {"rename"}) /\ cache[fetching[f].version] # None =>
    cache[fetching[f].version].part \in {None, "whole"}

FilesAreWhole ==
  \A v \in Version : cache[v] # None => cache[v].file \in {None, "whole"}

PackagesInv ==
  /\ PackagesType
  /\ ~met => /\ FetchesApart /\ PartIsWritten /\ WriterHasPart
             /\ RenamerHasWhole /\ FilesAreWhole

\* Nothing is fetched nor kept at first.
LEMMA PackagesInitially == PackagesInit => PackagesInv
<1> SUFFICES ASSUME PackagesInit PROVE PackagesInv
  OBVIOUS
<1> USE PackagesAssumption DEF PackagesInit
<1>1. PackagesType
  <2>1. released \in Version /\ cache \in [Version -> Folder \cup {None}]
    BY DEF Version
  <2>2. fetching \in [Fetch -> Underway \cup {None}] /\ met \in BOOLEAN
    OBVIOUS
  <2> QED BY <2>1, <2>2 DEF PackagesType
<1>2. FetchesApart /\ PartIsWritten /\ WriterHasPart /\ RenamerHasWhole /\ FilesAreWhole
  BY DEF FetchesApart, PartIsWritten, WriterHasPart, RenamerHasWhole, FilesAreWhole, At
<1> QED BY <1>1, <1>2 DEF PackagesInv

\* A step of one fetch keeps the directories' contents well typed, and the
\* other fetches as they were.
LEMMA PackagesStepType ==
  ASSUME PackagesType, NEW f \in Fetch,
         \/ Asks(f) \/ Refused(f) \/ OpensPart(f) \/ WritesPart(f) \/ FailsPart(f)
         \/ Renames(f) \/ Cleans(f) \/ CallerLeaves(f) \/ PurgesAfter(f)
  PROVE  PackagesType' /\ \A g \in Fetch \ {f} : fetching'[g] = fetching[g]
<1> USE PackagesAssumption DEF PackagesType
<1>1. CASE Asks(f)
  <2>1. [version |-> released, at |-> "download"] \in Underway
    BY DEF Underway
  <2> QED BY <1>1, <2>1 DEF Asks
<1>2. CASE Refused(f)
  BY <1>2 DEF Refused, Ends
<1>3. CASE OpensPart(f)
  BY <1>3 DEF OpensPart, StepTo, At, Underway, Folder, Held, NoFiles, Slot
<1>4. CASE WritesPart(f)
  BY <1>4 DEF WritesPart, Becomes, StepTo, Ends, At, Underway, Folder, Held
<1>5. CASE FailsPart(f)
  BY <1>5 DEF FailsPart, Becomes, Abandons, Ends, At, Underway, Folder, Held
<1>6. CASE Renames(f)
  BY <1>6 DEF Renames, StepTo, At, Underway, Folder, Held, Slot
<1>7. CASE Cleans(f)
  BY <1>7 DEF Cleans, Put, Ends, At, Underway, Folder, Held, Slot
<1>8. CASE CallerLeaves(f)
  BY <1>8 DEF CallerLeaves, StepTo, Ends, At, Underway
<1>9. CASE PurgesAfter(f)
  BY <1>9 DEF PurgesAfter, Purged, Ends, At
<1> QED BY <1>1, <1>2, <1>3, <1>4, <1>5, <1>6, <1>7, <1>8, <1>9

PackagesFacts == FetchesApart /\ PartIsWritten /\ WriterHasPart /\ RenamerHasWhole /\ FilesAreWhole

\* As long as versions are fetched one at a time, a fetch's step keeps what is
\* in the directories (fetch_package).
LEMMA PackagesStepFacts ==
  ASSUME PackagesType, PackagesFacts, ~met', NEW f \in Fetch,
         \/ Asks(f) \/ Refused(f) \/ OpensPart(f) \/ WritesPart(f) \/ FailsPart(f)
         \/ Renames(f) \/ Cleans(f) \/ CallerLeaves(f) \/ PurgesAfter(f)
  PROVE  PackagesFacts'
<1> USE PackagesAssumption
    DEF PackagesFacts, FetchesApart, PartIsWritten, WriterHasPart, RenamerHasWhole,
        FilesAreWhole, PackagesType, At
<1>1. CASE Asks(f)
  <2>1. /\ \A g \in Fetch : fetching[g] = None \/ fetching[g].version # released
        /\ fetching' = [fetching EXCEPT ![f] = [version |-> released, at |-> "download"]]
        /\ cache' = cache /\ fetching[f] = None
    BY <1>1 DEF Asks
  <2>2. [version |-> released, at |-> "download"] # None
    BY DEF Underway
  <2> QED BY <2>1, <2>2
<1>2. CASE Refused(f)
  BY <1>2 DEF Refused, Ends
<1>3. CASE OpensPart(f)
  BY <1>3 DEF OpensPart, StepTo, Underway, Folder, Held, NoFiles, Slot
<1>4. CASE WritesPart(f)
  BY <1>4 DEF WritesPart, Becomes, StepTo, Ends, Underway, Folder, Held, Slot
<1>5. CASE FailsPart(f)
  BY <1>5 DEF FailsPart, Becomes, Abandons, Ends, Underway, Folder, Held, Slot
<1>6. CASE Renames(f)
  BY <1>6 DEF Renames, StepTo, Underway, Folder, Held, Slot
<1>7. CASE Cleans(f)
  BY <1>7 DEF Cleans, Put, Ends, Underway, Folder, Held, Slot
<1>8. CASE CallerLeaves(f)
  BY <1>8 DEF CallerLeaves, StepTo, Ends, Underway
<1>9. CASE PurgesAfter(f)
  <2>1. \A v \in Version : cache'[v] \in {cache[v], None}
    BY <1>9 DEF PurgesAfter, Purged
  <2>2. fetching' = [fetching EXCEPT ![f] = None] /\ fetching[f].at = "purge"
    BY <1>9 DEF PurgesAfter, Ends
  <2> HIDE DEF PackagesFacts
  <2>3. FetchesApart' /\ FilesAreWhole' /\ PartIsWritten'
    BY <2>1, <2>2 DEF PackagesFacts
  <2>4. WriterHasPart' /\ RenamerHasWhole'
    BY <2>1, <2>2 DEF PackagesFacts, Underway
  <2> QED BY <2>3, <2>4 DEF PackagesFacts
<1> QED BY <1>1, <1>2, <1>3, <1>4, <1>5, <1>6, <1>7, <1>8, <1>9

\* A purge takes whole directories (purge_cached_packages).
LEMMA PurgedKeeps ==
  ASSUME PackagesInv, Purged, fetching' = fetching, met' = met, released' = released
  PROVE  PackagesInv'
<1>1. \A v \in Version : cache'[v] \in {cache[v], None}
  BY DEF Purged
<1>2. PackagesType'
  <2>1. cache' \in [Version -> Folder \cup {None}]
    BY DEF Purged, PackagesInv, PackagesType
  <2> QED BY <2>1 DEF PackagesInv, PackagesType
<1>3. ASSUME ~met PROVE PackagesFacts'
  <2> USE <1>1, <1>3 DEF PackagesInv, PackagesType
  <2>1. FetchesApart'
    BY DEF FetchesApart
  <2>2. PartIsWritten'
    BY DEF PartIsWritten, At
  <2>3. WriterHasPart'
    BY DEF WriterHasPart, At, Underway
  <2>4. RenamerHasWhole'
    BY DEF RenamerHasWhole, At, Underway
  <2>5. FilesAreWhole'
    BY DEF FilesAreWhole
  <2> QED BY <2>1, <2>2, <2>3, <2>4, <2>5 DEF PackagesFacts
<1> QED BY <1>2, <1>3 DEF PackagesInv, PackagesFacts

\* A step of the packages keeps what is offered whole.
LEMMA PackagesStepInv == PackagesInv /\ PackagesStep => PackagesInv'
<1> SUFFICES ASSUME PackagesInv, PackagesStep PROVE PackagesInv'
  OBVIOUS
<1>1. CASE Publishes
  BY <1>1, PackagesAssumption
     DEF Publishes, PackagesInv, PackagesType, FetchesApart, PartIsWritten,
         WriterHasPart, RenamerHasWhole, FilesAreWhole, At, Version
<1>2. CASE PurgesDaily
  BY <1>2, PurgedKeeps DEF PurgesDaily
<1>3. ASSUME NEW f \in Fetch,
             \/ Asks(f) \/ Refused(f) \/ OpensPart(f) \/ WritesPart(f) \/ FailsPart(f)
             \/ Renames(f) \/ Cleans(f) \/ CallerLeaves(f) \/ PurgesAfter(f)
      PROVE  PackagesInv'
  <2>1. PackagesType'
    BY <1>3, PackagesStepType DEF PackagesInv
  <2>2. met => met'
    BY <1>3 DEF Asks, Refused, OpensPart, WritesPart, FailsPart, Renames, Cleans,
                CallerLeaves, PurgesAfter
  <2>3. ASSUME ~met' PROVE PackagesFacts'
    BY <1>3, <2>2, <2>3, PackagesStepFacts DEF PackagesInv, PackagesFacts
  <2> QED BY <2>1, <2>3 DEF PackagesInv, PackagesFacts
<1> QED BY <1>1, <1>2, <1>3 DEF PackagesStep

\* A stop cuts what was being written, and forgets who wrote it.
LEMMA PackagesRestartInv == PackagesInv /\ PackagesRestart => PackagesInv'
<1> SUFFICES ASSUME PackagesInv, PackagesRestart PROVE PackagesInv'
  OBVIOUS
<1> USE PackagesAssumption DEF PackagesRestart
<1>1. PackagesType'
  BY DEF PackagesInv, PackagesType, Folder, Held
<1>2. FetchesApart' /\ WriterHasPart' /\ RenamerHasWhole'
  BY DEF FetchesApart, WriterHasPart, RenamerHasWhole, At
<1>3. ASSUME ~met PROVE PartIsWritten' /\ FilesAreWhole'
  BY <1>3 DEF PackagesInv, PackagesType, PartIsWritten, FilesAreWhole, At, Folder, Held, Slot
<1> QED BY <1>1, <1>2, <1>3 DEF PackagesInv

\* A step of the hub does.
LEMMA PackagesInductive == PackagesInv /\ [Next]_vars => PackagesInv'
<1> SUFFICES ASSUME PackagesInv, [Next]_vars PROVE PackagesInv'
  OBVIOUS
<1>1. CASE UNCHANGED packages
  BY <1>1 DEF packages, PackagesInv, PackagesType, FetchesApart, PartIsWritten,
              WriterHasPart, RenamerHasWhole, FilesAreWhole, At
<1>2. CASE PackagesStep
  BY <1>2, PackagesStepInv
<1>3. CASE Restarts
  BY <1>3, PackagesRestartInv DEF Restarts
<1> QED BY <1>1, <1>2, <1>3 DEF Next, vars

\* An installer the hub offers is whole, for every number of releases, fetches,
\* failures, purges and restarts (fetch_package, purge_cached_packages).
THEOREM InstallersAreWhole == Spec => []OfferedIsWhole
<1>1. Init => PackagesInv
  BY PackagesInitially DEF Init
<1>2. PackagesInv => OfferedIsWhole
  BY DEF PackagesInv, OfferedIsWhole, Cached, Present, FilesAreWhole
<1> QED BY <1>1, <1>2, PackagesInductive, PTL DEF Spec

-----------------------------------------------------------------------------
(* The types of the rest.                                                  *)

HubType ==
  tables \in Base /\ now \in 1..MaxTime /\ acts \in [Part -> Nat]

AlertsType ==
  /\ pass \in Pass \cup {None} /\ resumed \subseteq Probe
  /\ last \in [Probe -> [probe : State, link : State]]

ReportsType ==
  /\ line \in Seq(Report) /\ worker \in Task \cup {None}
  /\ workbook \in [Report -> {None, "part", "whole"}]
  /\ purging \subseteq Report /\ slipped \subseteq Report

BackupsType ==
  /\ archive \in [Instant -> Whole \cup {None, [is |-> "open"], [is |-> "torn"]}]
  /\ making \in [Maker -> Copy \cup {None}] /\ restoring \in Restoration \cup {None}
  /\ volume \in [base : Base \cup {Open, None}, key : Key]
  /\ beside \in [bases : SUBSET Nat, keys : SUBSET Nat]

Types == HubType /\ AlertsType /\ ReportsType /\ BackupsType

-----------------------------------------------------------------------------
(* Backups: what their properties need besides.                            *)

\* A base moved from under the hub refuses to be written.
MovedIsStale == volume.base # Open => stale

\* Backups and restorations one at a time.
OneAtATime ==
  /\ \A m, n \in Maker : making[m] # None /\ making[n] # None => m = n
  /\ restoring # None => \A m \in Maker : making[m] = None
  /\ \A m \in Maker : making[m] # None => volume.base = Open

\* What is being made is the last listed, with the key in place; it is whole
\* when the retention is applied.
MakingTheLast ==
  \A m \in Maker : making[m] # None =>
    /\ \A t \in Listed : t <= making[m].name
    /\ making[m].at = "key" => archive[making[m].name] = None
    /\ making[m].at = "write" => archive[making[m].name] = [is |-> "open"] /\ making[m].key = volume.key
    /\ making[m].at = "prune" => archive[making[m].name] # None /\ archive[making[m].name].is = "whole"

ListedInThePast ==
  /\ \A t \in Listed : t <= now
  /\ \A m \in Maker : making[m] # None => making[m].name <= now

BackupsInv ==
  /\ MovedIsStale /\ ListedInThePast
  /\ ~crossed => OneAtATime /\ MakingTheLast
  /\ OneArchiveRemains

\* What is copied from the hub, and what lies on the volume, opens with a key of
\* the volume; what an archive holds does with one, or with its own.
KeysKept ==
  /\ SealsHere \subseteq KeysHere /\ tables.sealed \in KeysHere
  /\ \A t \in Instant : archive[t] # None /\ archive[t].is = "whole" =>
       archive[t].base.sealed \in KeysHere \cup {archive[t].key}
  /\ \A m \in Maker : making[m] # None => making[m].base.sealed \in KeysHere

KeysInv == ~overwritten => KeysKept

-----------------------------------------------------------------------------
(* Reports: the same.                                                      *)

\* What waits for the worker is in preparation, and waits once.
LineIsPreparing == \A i \in 1..Len(line) : RowIs(line[i], "preparing")
WaitsOnce == \A i, j \in 1..Len(line) : line[i] = line[j] => i = j

\* So is what he has taken; he notes what he has written whole.
WorkerPrepares ==
  worker # None =>
    /\ RowIs(worker.report, "preparing") /\ \A i \in 1..Len(line) : line[i] # worker.report
    /\ worker.at = "note" => workbook[worker.report] = "whole"

PurgingIsDated == \A r \in purging : RowIs(r, "purged")

ReportsInv ==
  LineIsPreparing /\ WaitsOnce /\ WorkerPrepares /\ PurgingIsDated /\ ReadyHasFile

-----------------------------------------------------------------------------
(* Types.                                                                  *)

\* The tables of a hub just installed are tables.
LEMMA EmptyTablesType == ASSUME NEW key \in Nat PROVE EmptyTables(key) \in Base /\ EmptyTables(key).sealed = key
BY DEF EmptyTables, Base, Seen, State, Kind

\* The types hold to begin with.
LEMMA TypesInitially == Init => Types
<1> SUFFICES ASSUME Init PROVE Types
  OBVIOUS
<1> USE DEF Init
<1>1. HubType
  BY EmptyTablesType, HubBaseAssumption DEF HubType
<1>2. AlertsType
  BY DEF AlertsType, NotificationsInit, State
<1>3. ReportsType
  BY DEF ReportsType, ReportsInit
<1>4. BackupsType
  <2>1. [is |-> "whole", base |-> EmptyTables(0), key |-> 0] \in Whole
    BY EmptyTablesType DEF Whole, Key
  <2>2. [base |-> Open, key |-> 1] \in [base : Base \cup {Open, None}, key : Key]
    BY DEF Key
  <2>3. archive \in [Instant -> Whole \cup {None, [is |-> "open"], [is |-> "torn"]}]
    BY <2>1 DEF BackupsInit
  <2> QED BY <2>2, <2>3 DEF BackupsType, BackupsInit
<1> QED BY <1>1, <1>2, <1>3, <1>4 DEF Types

\* Writing the row of a probe, or what is known of it, keeps the rest.
LEMMA ProbeRowSet ==
  ASSUME tables \in Base, NEW p \in Probe, NEW s \in Seen, tables' = [tables EXCEPT !.probe[p] = s]
  PROVE  tables' \in Base /\ tables'.report = tables.report /\ tables'.sealed = tables.sealed
BY DEF Base

\* A table whose known keys are written is a table.
LEMMA KnownSet ==
  ASSUME tables \in Base, NEW p \in Probe, NEW s \in State,
         tables' = [tables EXCEPT !.known[p] = s] \/ tables' = [tables EXCEPT !.linkKnown[p] = s]
  PROVE  tables' \in Base /\ tables'.report = tables.report /\ tables'.sealed = tables.sealed
BY DEF Base

\* What happens to the probes, what operators ask and what a pass notes leave
\* the reports and the key.
LEMMA NotificationsBase ==
  ASSUME HubType, AlertsType, NotificationsStep
  PROVE  HubType' /\ tables'.report = tables.report /\ tables'.sealed = tables.sealed
<1> DEFINE Goal == HubType' /\ tables'.report = tables.report /\ tables'.sealed = tables.sealed
<1> USE HubBaseAssumption DEF HubType
<1>1. CASE BeginsPass \/ FailsPass \/ Retains \/ Announces
  <2>1. UNCHANGED <<tables, now>> /\ acts' \in [Part -> Nat]
    BY <1>1 DEF BeginsPass, FailsPass, Retains, Announces, Happens, Part, hub
  <2> QED BY <2>1
<1>2. CASE Subscribes
  <2>1. tables' \in Base /\ tables'.report = tables.report /\ tables'.sealed = tables.sealed
    BY <1>2 DEF Subscribes, Base
  <2> QED BY <1>2, <2>1 DEF Subscribes, Happens, Part
<1>3. ASSUME NEW p \in Probe, NEW link \in {"online", "offline", "unknown"}, Beats(p, link) PROVE Goal
  <2>1. [heard |-> "heard", link |-> link, revoked |-> FALSE] \in Seen
    BY DEF Seen
  <2>2. tables' \in Base /\ tables'.report = tables.report /\ tables'.sealed = tables.sealed
    BY <1>3, <2>1, ProbeRowSet DEF Beats
  <2>3. now' = now /\ acts' \in [Part -> Nat]
    BY <1>3 DEF Beats, Happens, Part
  <2> QED BY <2>2, <2>3
<1>4. ASSUME NEW p \in Probe, FallsSilent(p) PROVE Goal
  <2>1. [tables.probe[p] EXCEPT !.heard = "silent"] \in Seen
    BY DEF Seen, Base
  <2>2. tables' \in Base /\ tables'.report = tables.report /\ tables'.sealed = tables.sealed
    BY <1>4, <2>1, ProbeRowSet DEF FallsSilent
  <2>3. now' = now /\ acts' \in [Part -> Nat]
    BY <1>4 DEF FallsSilent, Happens, Part
  <2> QED BY <2>2, <2>3
<1>5. ASSUME NEW p \in Probe, Revokes(p) PROVE Goal
  <2>1. \A row \in Seen, b \in BOOLEAN : [row EXCEPT !.revoked = b] \in Seen
    BY DEF Seen
  <2>2. tables' \in Base /\ tables'.report = tables.report /\ tables'.sealed = tables.sealed
    BY <1>5, <2>1, ProbeRowSet DEF Revokes, Base
  <2>3. now' = now /\ acts' \in [Part -> Nat]
    BY <1>5 DEF Revokes, Happens, Part
  <2> QED BY <2>2, <2>3
<1>6. ASSUME NEW p \in Probe, SeesState(p) PROVE Goal
  <2>1. Observed(p) \in State
    BY DEF Observed, State
  <2>2. tables' = tables \/ tables' = [tables EXCEPT !.known[p] = Observed(p)]
    BY <1>6 DEF SeesState, Noted
  <2>3. tables' \in Base /\ tables'.report = tables.report /\ tables'.sealed = tables.sealed
    BY <2>1, <2>2, KnownSet
  <2> QED BY <1>6, <2>3 DEF SeesState
<1>7. ASSUME NEW p \in Probe, SeesLink(p) PROVE Goal
  <2>1. ObservedLink(p) \in State
    BY DEF ObservedLink, State
  <2>2. tables' \in Base /\ tables'.report = tables.report /\ tables'.sealed = tables.sealed
    BY <1>7, <2>1, KnownSet DEF SeesLink, Noted
  <2> QED BY <1>7, <2>2 DEF SeesLink
<1>8. ASSUME NEW kinds \in Wanted, Chooses(kinds) PROVE Goal
  <2>1. tables' \in Base /\ tables'.report = tables.report /\ tables'.sealed = tables.sealed
    BY <1>8 DEF Chooses, Base
  <2> QED BY <1>8, <2>1 DEF Chooses, Happens, Part
<1> QED BY <1>1, <1>2, <1>3, <1>4, <1>5, <1>6, <1>7, <1>8 DEF NotificationsStep

\* An alert is of the probe looked at, when something else was known of it.
LEMMA AlertsSpec ==
  ASSUME NEW p \in Probe, NEW known, NEW seen, NEW kind \in Kind, NEW before
  PROVE  /\ Alerts(p, known, seen, kind, before) \subseteq Alert
         /\ \A a \in Alerts(p, known, seen, kind, before) :
              a.probe = p /\ known # None /\ known # seen /\ (before # seen => a.new)
<1>1. \A b \in BOOLEAN : [probe |-> p, kind |-> kind, new |-> b] \in Alert
  BY DEF Alert
<1> DEFINE b == before # seen
<1>2. b \in BOOLEAN
  OBVIOUS
<1>3. \A a \in Alerts(p, known, seen, kind, before) :
        a = [probe |-> p, kind |-> kind, new |-> b] /\ known # None /\ known # seen
  BY DEF Alerts
<1> HIDE DEF b
<1>4. Alerts(p, known, seen, kind, before) \subseteq Alert
  BY <1>1, <1>2, <1>3
<1>5. \A a \in Alerts(p, known, seen, kind, before) : a.probe = p /\ (b => a.new)
  BY <1>2, <1>3
<1> QED BY <1>3, <1>4, <1>5 DEF b

\* A pass keeps its types.
LEMMA NotificationsTypes ==
  ASSUME HubType, AlertsType, NotificationsStep
  PROVE  AlertsType'
<1> USE HubBaseAssumption, PassAssumption DEF HubType, AlertsType
<1>1. CASE BeginsPass
  <2>1. [at |-> "look", rows |-> tables.probe, left |-> Probe, link |-> {}, alerts |-> {}] \in Pass
    BY DEF Pass, Base
  <2> QED BY <1>1, <2>1 DEF BeginsPass
<1>2. CASE FailsPass
  BY <1>2 DEF FailsPass
<1>3. CASE Retains \/ Announces
  <2>1. \A alerts \in SUBSET pass.alerts :
          pass # None => /\ [pass EXCEPT !.alerts = alerts] \in Pass
                         /\ [pass EXCEPT !.at = "send", !.alerts = alerts] \in Pass
    BY DEF Pass
  <2>2. pass' \in Pass \cup {None}
    <3>1. CASE Retains
      BY <2>1, <3>1 DEF Retains
    <3>2. CASE Announces
      BY ZenonT(30), <2>1, <3>2 DEF Announces
    <3> QED BY <1>3, <3>1, <3>2
  <2> QED BY <1>3, <2>2 DEF Retains, Announces
<1>4. CASE Subscribes
  BY <1>4 DEF Subscribes, Resumes
<1>5. ASSUME NEW p \in Probe,
             \/ \E link \in {"online", "offline", "unknown"} : Beats(p, link)
             \/ FallsSilent(p) \/ Revokes(p)
      PROVE  AlertsType'
  BY <1>5 DEF Beats, FallsSilent, Revokes, alerting
<1>6. ASSUME NEW p \in Probe, SeesState(p) PROVE AlertsType'
  <2> DEFINE seen == Observed(p)
             known == tables.known[p]
             looks == ~Skipped(p) /\ EnabledIn(tables, p)
             told == IF looks THEN Alerts(p, known, seen, seen, last[p].probe) ELSE {}
  <2>1. seen \in {"up", "down"} /\ ObservedLink(p) \in {"up", "down"}
    BY DEF Observed, ObservedLink
  <2>2. told \subseteq Alert
    <3>1. seen \in Kind
      BY <2>1 DEF Kind
    <3> QED BY <3>1, AlertsSpec
  <2>3. pass \in Pass /\ pass' = [pass EXCEPT !.left = @ \ {p},
          !.link = IF looks /\ HasLink(p) THEN {p} ELSE {}, !.alerts = @ \cup told]
    BY <1>6 DEF SeesState
  <2> HIDE DEF told
  <2>4. pass' \in Pass
    BY <2>2, <2>3 DEF Pass
  <2>6. last' \in [Probe -> [probe : State, link : State]]
    <3>1. seen \in State /\ ObservedLink(p) \in State
      BY <2>1 DEF State
    <3>2. CASE Skipped(p)
      BY <1>6, <3>2 DEF SeesState
    <3>3. CASE ~Skipped(p)
      <4>1. last' = [last EXCEPT ![p] = [probe |-> seen,
              link |-> IF ~looks /\ HasLink(p) THEN ObservedLink(p) ELSE last[p].link]]
        BY <1>6, <3>3 DEF SeesState
      <4> QED BY <3>1, <4>1
    <3> QED BY <3>2, <3>3
  <2> QED BY <1>6, <2>4, <2>6 DEF SeesState
<1>7. ASSUME NEW p \in Probe, SeesLink(p) PROVE AlertsType'
  <2> DEFINE seen == ObservedLink(p)
             told == Alerts(p, tables.linkKnown[p], seen, LinkKind(seen), last[p].link)
  <2>1. seen \in {"up", "down"}
    BY DEF ObservedLink
  <2>2. LinkKind(seen) \in Kind
    BY DEF LinkKind, Kind
  <2>3. told \subseteq Alert
    BY <2>2, AlertsSpec
  <2>4. pass \in Pass /\ pass' = [pass EXCEPT !.link = {}, !.alerts = @ \cup told]
    BY <1>7 DEF SeesLink
  <2> HIDE DEF told
  <2>5. pass' \in Pass
    BY <2>3, <2>4 DEF Pass
  <2>6. seen \in State
    BY <2>1 DEF State
  <2> HIDE DEF seen
  <2>7. last' = [last EXCEPT ![p].link = seen] /\ resumed' = resumed
    BY <1>7 DEF SeesLink, seen
  <2> QED BY <2>5, <2>6, <2>7
<1>8. ASSUME NEW kinds \in Wanted, Chooses(kinds) PROVE AlertsType'
  BY <1>8 DEF Chooses, alerting
<1> QED BY <1>1, <1>2, <1>3, <1>4, <1>5, <1>6, <1>7, <1>8 DEF NotificationsStep

\* What the rest of the hub reads in the base, the worker and the purge leave.
ReportsOnly ==
  /\ tables'.sealed = tables.sealed /\ tables'.site = tables.site /\ tables'.asked = tables.asked
  /\ tables'.known = tables.known /\ tables'.linkKnown = tables.linkKnown

\* A report whose row is written is a row.
LEMMA RowSet ==
  ASSUME tables \in Base, NEW rows \in [Report -> ReportRow \cup {None}],
         tables' = [tables EXCEPT !.report = rows]
  PROVE  tables' \in Base /\ ReportsOnly /\ tables'.report = rows
BY DEF Base, ReportsOnly

\* A row, and the rows with it.
LEMMA SetRowSpec ==
  ASSUME tables \in Base, NEW r \in Report, NEW row \in ReportRow, SetRow(r, row)
  PROVE  tables' \in Base /\ ReportsOnly /\ tables'.report = [tables.report EXCEPT ![r] = row]
<1>1. tables.report \in [Report -> ReportRow \cup {None}]
  BY DEF Base
<1>2. tables' = [tables EXCEPT !.report = [tables.report EXCEPT ![r] = row]]
  BY DEF SetRow
<1>3. [tables.report EXCEPT ![r] = row] \in [Report -> ReportRow \cup {None}]
  BY <1>1
<1> QED BY <1>2, <1>3, RowSet

\* A row written field by field is a row.
LEMMA RowType ==
  ASSUME NEW state \in {"preparing", "ready", "failed", "purged"}, NEW days \in Nat
  PROVE  Row(state, days) \in ReportRow /\ Row(state, days).state = state
BY DEF Row, ReportRow

\* The worker and the purge keep the types.
LEMMA ReportsTypes ==
  ASSUME HubType, ReportsType, ReportsStep
  PROVE  HubType' /\ ReportsType' /\ ReportsOnly
<1> DEFINE Goal == HubType' /\ ReportsType' /\ ReportsOnly
<1> USE HubBaseAssumption, ReportsAssumption DEF HubType, ReportsType
<1>1. ASSUME UNCHANGED hub PROVE HubType' /\ ReportsOnly
  BY <1>1 DEF hub, ReportsOnly
<1>2. CASE Takes
  BY <1>1, <1>2 DEF Takes, Task
<1>3. CASE Gathers
  BY <1>1, <1>3 DEF Gathers, GoesTo, Task
<1>4. CASE Writes
  <2>1. \A file \in {None, "part", "whole"} : AfterWriting(file) \in {"note", "fail"}
    BY DEF AfterWriting
  <2>2. worker' \in Task /\ workbook' \in [Report -> {None, "part", "whole"}]
    BY <1>4, <2>1 DEF Writes, GoesTo, Task
  <2> QED BY <1>1, <1>4, <2>2 DEF Writes
<1>5. CASE NotesReady
  <2>1. CASE GoesTo("fail") /\ UNCHANGED tables
    <3>1. worker' \in Task /\ ReportsOnly
      BY <1>5, <2>1 DEF NotesReady, GoesTo, Task, ReportsOnly
    <3> QED BY <1>5, <2>1, <3>1 DEF NotesReady
  <2>2. ASSUME NEW days \in ReportDays, worker' = None, SetRow(worker.report, Row("ready", now + days))
        PROVE  Goal
    <3>1. worker.report \in Report /\ now + days \in Nat
      BY <1>5, <2>2 DEF NotesReady, Task
    <3>2. tables' \in Base /\ ReportsOnly
      BY <2>2, <3>1, RowType, SetRowSpec
    <3> QED BY <1>5, <2>2, <3>2 DEF NotesReady
  <2> QED BY <1>5, <2>1, <2>2 DEF NotesReady
<1>6. CASE NotesFailed
  <2>1. worker.report \in Report
    BY <1>6 DEF NotesFailed, Task
  <2>2. tables' \in Base /\ ReportsOnly
    <3>1. CASE UNCHANGED tables
      BY <3>1 DEF ReportsOnly
    <3>2. CASE SetRow(worker.report, Row("failed", 0))
      BY <2>1, <3>2, RowType, SetRowSpec
    <3> QED BY <1>6, <3>1, <3>2 DEF NotesFailed
  <2> QED BY <1>6, <2>1, <2>2 DEF NotesFailed
<1>7. CASE DatesExpired
  <2> DEFINE rows == [r \in Report |-> IF r \in Expired THEN Row("purged", tables.report[r].until)
                                        ELSE tables.report[r]]
  <2>1. \A r \in Expired : r \in Report /\ tables.report[r] \in ReportRow
    BY DEF Expired, RowIs, Base
  <2>2. rows \in [Report -> ReportRow \cup {None}]
    BY <2>1, RowType DEF ReportRow, Base
  <2>3. tables' = [tables EXCEPT !.report = rows]
    BY <1>7 DEF DatesExpired
  <2>4. tables' \in Base /\ ReportsOnly
    BY <2>2, <2>3, RowSet
  <2> QED BY <1>7, <2>1, <2>4 DEF DatesExpired
<1>8. ASSUME NEW r \in Report, Requests(r) PROVE Goal
  <2>1. tables' \in Base /\ ReportsOnly
    BY <1>8, RowType, SetRowSpec DEF Requests
  <2>2. acts' \in [Part -> Nat]
    BY <1>8 DEF Requests, Happens, Part
  <2> QED BY <1>8, <2>1, <2>2 DEF Requests
<1>9. ASSUME NEW r \in Report, RemovesFile(r) PROVE Goal
  BY <1>1, <1>9 DEF RemovesFile
<1> QED BY <1>2, <1>3, <1>4, <1>5, <1>6, <1>7, <1>8, <1>9 DEF ReportsStep, Works

\* What a restoration leaves beside is sealed with keys, and keys.
LEMMA LeftType == ASSUME BackupsType PROVE LeftBase \subseteq Nat /\ LeftKey \subseteq Nat
BY DEF LeftBase, LeftKey, BackupsType, Restoration, Base, Key

\* Backups and restorations keep the types; the base the hub has open is only
\* replaced at a start.
LEMMA BackupsTypes ==
  ASSUME HubType, BackupsType, BackupsStep
  PROVE  HubType' /\ BackupsType' /\ UNCHANGED <<tables, now>>
<1> DEFINE Goal == HubType' /\ BackupsType' /\ UNCHANGED <<tables, now>>
<1> USE HubBaseAssumption, BackupsAssumption DEF HubType, BackupsType
<1>1. ASSUME NEW m \in Maker, Begins(m) PROVE Goal
  <2>1. [at |-> "key", name |-> now, base |-> tables, key |-> None] \in Copy
    BY DEF Copy, Key, Instant
  <2>2. making' \in [Maker -> Copy \cup {None}]
    BY <1>1, <2>1 DEF Begins, MakerSet
  <2>3. acts' \in [Part -> Nat]
    BY <1>1 DEF Begins, Happens, Part
  <2> QED BY <1>1, <2>2, <2>3 DEF Begins
<1>2. ASSUME NEW m \in Maker, OpensArchive(m) PROVE Goal
  <2>1. \A c \in Copy, key \in Key : [c EXCEPT !.at = "write", !.key = key] \in Copy
    BY DEF Copy
  <2>2. making' \in [Maker -> Copy \cup {None}]
    BY <1>2, <2>1 DEF OpensArchive, MakerSet
  <2> QED BY <1>2, <2>2 DEF OpensArchive, hub
<1>3. ASSUME NEW m \in Maker, WritesArchive(m) PROVE Goal
  <2>1. making[m] \in Copy
    BY <1>3 DEF WritesArchive
  <2>2. making' \in [Maker -> Copy \cup {None}]
    BY <1>3, <2>1 DEF WritesArchive, MakerSet, Copy
  <2>3. \A is \in {"whole", "torn"} :
          [is |-> is, base |-> making[m].base, key |-> making[m].key] \in Whole
    BY <2>1 DEF Copy, Whole
  <2> QED BY <1>3, <2>2, <2>3 DEF WritesArchive, hub
<1>4. ASSUME NEW m \in Maker, FailsArchive(m) PROVE Goal
  <2>1. acts' \in [Part -> Nat]
    BY <1>4 DEF FailsArchive, Happens, Part
  <2> QED BY <1>4, <2>1 DEF FailsArchive, GivesUp, MakerSet
<1>5. ASSUME NEW m \in Maker, Prunes(m) PROVE Goal
  BY <1>5 DEF Prunes, MakerSet, hub
<1>6. ASSUME NEW t \in Instant, BeginsRestore(t) PROVE Goal
  <2>1. archive[t] \in Whole
    BY <1>6 DEF BeginsRestore, Listed
  <2>2. restoring' \in Restoration
    BY <1>6, <2>1 DEF BeginsRestore, Whole, Restoration
  <2>3. acts' \in [Part -> Nat]
    BY <1>6 DEF BeginsRestore, Happens, Part
  <2> QED BY <1>6, <2>2, <2>3 DEF BeginsRestore
<1>7. CASE MovesBase
  <2>1. SealOf(volume.base) \subseteq Nat
    BY DEF SealOf, Content, Base
  <2>2. beside' \in [bases : SUBSET Nat, keys : SUBSET Nat]
    <3>1. CASE LeavesBeside(SealOf(volume.base), {})
      BY <2>1, <3>1 DEF LeavesBeside
    <3> QED BY <1>7, <3>1 DEF MovesBase
  <2>3. volume' \in [base : Base \cup {Open, None}, key : Key]
    BY <1>7 DEF MovesBase
  <2> QED BY <1>7, <2>2, <2>3 DEF MovesBase, RestoreGoes, Restoration
<1>8. CASE MovesKey
  <2>1. beside' \in [bases : SUBSET Nat, keys : SUBSET Nat]
    <3>1. {volume.key} \ {None} \in SUBSET Nat /\ {} \in SUBSET Nat
      BY DEF Key
    <3>2. CASE LeavesBeside({}, {volume.key} \ {None})
      BY <3>1, <3>2 DEF LeavesBeside
    <3> QED BY <1>8, <3>2 DEF MovesKey
  <2>2. volume' \in [base : Base \cup {Open, None}, key : Key]
    BY <1>8 DEF MovesKey, Key
  <2> QED BY <1>8, <2>1, <2>2 DEF MovesKey, RestoreGoes, Restoration, hub
<1>9. CASE PlacesBase
  BY <1>9 DEF PlacesBase, RestoreGoes, Restoration
<1>10. CASE PlacesKey
  BY <1>10 DEF PlacesKey, WithKey, Restoration, hub
<1>11. CASE FailsRestore
  BY <1>11, LeftType DEF FailsRestore, LeavesBeside, hub
<1> QED BY <1>1, <1>2, <1>3, <1>4, <1>5, <1>6, <1>7, <1>8, <1>9, <1>10, <1>11 DEF BackupsStep

\* What the hub starts on is a base, with a key.
LEMMA StartSpec ==
  ASSUME HubType, BackupsType
  PROVE  /\ BaseAtStart \in Base /\ KeyAtStart \in Nat
         /\ volume.base = Open => BaseAtStart = tables
         /\ volume.base \notin {Open, None} => BaseAtStart = volume.base
         /\ volume.base = None => BaseAtStart.sealed = KeyAtStart
         /\ volume.key # None => KeyAtStart = volume.key
<1> USE HubBaseAssumption, BackupsAssumption DEF HubType, BackupsType
<1>1. KeyAtStart \in Nat
  BY DEF KeyAtStart, FreshKey, Key
<1> QED BY <1>1, EmptyTablesType DEF BaseAtStart, KeyAtStart

\* A stop and a start keep the types.
LEMMA RestartsTypes ==
  ASSUME Types, Restarts
  PROVE  /\ Types' /\ tables' = [BaseAtStart EXCEPT !.report = Closed(BaseAtStart.report)]
         /\ tables'.report = Closed(BaseAtStart.report)
         /\ tables'.sealed = BaseAtStart.sealed
<1> USE HubBaseAssumption, BackupsAssumption DEF Types
<1>1. Closed(BaseAtStart.report) \in [Report -> ReportRow \cup {None}]
  <2>1. BaseAtStart.report \in [Report -> ReportRow \cup {None}]
    BY StartSpec DEF Base
  <2> QED BY <2>1, RowType DEF Closed
<1>2. tables' = [BaseAtStart EXCEPT !.report = Closed(BaseAtStart.report)]
  BY DEF Restarts
<1>3. tables' \in Base /\ tables'.report = Closed(BaseAtStart.report) /\ tables'.sealed = BaseAtStart.sealed
  BY <1>1, <1>2, StartSpec DEF Base
<1>4. acts' \in [Part -> Nat]
  BY DEF Restarts, Happens, HubType, Part
<1>5. HubType'
  BY <1>3, <1>4 DEF Restarts, HubType
<1>6. AlertsType'
  BY DEF Restarts, AlertsType
<1>7. ReportsType'
  BY DEF Restarts, ReportsRestart, ReportsType
<1>8. BackupsType'
  <2>1. volume' \in [base : Base \cup {Open, None}, key : Key]
    BY StartSpec DEF Restarts, BackupsRestart, Key
  <2>2. archive' \in [Instant -> Whole \cup {None, [is |-> "open"], [is |-> "torn"]}]
    BY DEF BackupsType, Restarts, BackupsRestart
  <2>3. beside' \in [bases : SUBSET Nat, keys : SUBSET Nat]
    BY LeftType DEF BackupsType, Restarts, BackupsRestart, LeavesBeside
  <2> QED BY <2>1, <2>2, <2>3 DEF BackupsType, Restarts, BackupsRestart
<1> QED BY <1>2, <1>3, <1>5, <1>6, <1>7, <1>8

\* The packages leave the base alone.
LEMMA PackagesOnly ==
  ASSUME acts \in [Part -> Nat], PackagesStep
  PROVE  tables' = tables /\ stale' = stale /\ now' = now /\ acts' \in [Part -> Nat]
<1>1. \/ UNCHANGED hub
      \/ tables' = tables /\ stale' = stale /\ now' = now /\ Happens("package")
  BY DEF PackagesStep, Publishes, PurgesDaily, Asks, Refused, OpensPart, WritesPart,
         FailsPart, Renames, Cleans, CallerLeaves, PurgesAfter
<1>2. Happens("package") => acts' \in [Part -> Nat]
  BY DEF Happens, Part
<1> QED BY <1>1, <1>2 DEF hub

\* The types are kept by every step of the hub.
LEMMA TypesInductive == Types /\ [Next]_vars => Types'
<1> SUFFICES ASSUME Types, [Next]_vars PROVE Types'
  OBVIOUS
<1> USE DEF Types
<1>1. CASE NotificationsStep /\ UNCHANGED <<reporting, backups, packages>>
  BY <1>1, NotificationsBase, NotificationsTypes
     DEF reporting, backups, ReportsType, BackupsType
<1>2. CASE ReportsStep /\ UNCHANGED <<alerting, backups, packages>>
  BY <1>2, ReportsTypes DEF alerting, backups, AlertsType, BackupsType
<1>3. CASE BackupsStep /\ UNCHANGED <<alerting, reporting, packages>>
  BY <1>3, BackupsTypes DEF alerting, reporting, AlertsType, ReportsType
<1>4. CASE PackagesStep /\ UNCHANGED <<alerting, reporting, backups>>
  <2>1. acts' \in [Part -> Nat] /\ tables' = tables /\ now' = now
    BY <1>4, PackagesOnly DEF HubType
  <2> QED BY <1>4, <2>1
     DEF alerting, reporting, backups, HubType, AlertsType, ReportsType, BackupsType
<1>5. CASE Tick /\ UNCHANGED <<alerting, reporting, backups, packages>>
  BY <1>5, HubBaseAssumption
     DEF Tick, alerting, reporting, backups, HubType, AlertsType, ReportsType, BackupsType
<1>6. CASE Restarts
  BY <1>6, RestartsTypes
<1>7. CASE UNCHANGED vars
  BY <1>7 DEF vars, hub, alerting, reporting, backups, HubType, AlertsType, ReportsType, BackupsType
<1> QED BY <1>1, <1>2, <1>3, <1>4, <1>5, <1>6, <1>7 DEF Next

-----------------------------------------------------------------------------
(* Backups.                                                                *)

\* The archive to begin with is whole, and of the tables there are.
LEMMA BackupsInitially == Init => BackupsInv
<1> SUFFICES ASSUME Init PROVE BackupsInv
  OBVIOUS
<1> USE BackupsAssumption DEF Init, BackupsInit
<1>1. archive[0] = [is |-> "whole", base |-> EmptyTables(0), key |-> 0] /\ archive[0] # None
  BY EmptyTablesType, HubBaseAssumption DEF Instant, Whole, Key
<1>2. Listed = {0}
  BY <1>1, HubBaseAssumption DEF Listed, Instant
<1> QED BY <1>1, <1>2 DEF BackupsInv, MovedIsStale, ListedInThePast, OneAtATime, MakingTheLast,
                          OneArchiveRemains

\* What the rest of the hub does keeps the archives and the key.
LEMMA BackupsQuiet ==
  ASSUME Types, BackupsInv, UNCHANGED backups, stale' = stale, now' \in {now, now + 1},
         tables'.sealed = tables.sealed
  PROVE  BackupsInv'
<1> USE DEF backups, seals
<1>1. MovedIsStale' /\ OneArchiveRemains'
  BY DEF BackupsInv, MovedIsStale, OneArchiveRemains, Listed
<1>4. ListedInThePast'
  BY HubBaseAssumption
     DEF BackupsInv, ListedInThePast, Listed, Types, HubType, BackupsType, Copy, Instant
<1>5. ASSUME ~crossed PROVE OneAtATime' /\ MakingTheLast'
  <2>1. OneAtATime'
    BY <1>5 DEF BackupsInv, OneAtATime
  <2>2. MakingTheLast'
    BY <1>5, HubBaseAssumption
       DEF BackupsInv, MakingTheLast, Listed, Types, HubType, BackupsType, Copy, Instant
  <2> QED BY <2>1, <2>2
<1> QED BY <1>1, <1>4, <1>5 DEF BackupsInv

\* Making an archive (create, build_archive, prune).
LEMMA BeginsInv ==
  ASSUME Types, BackupsInv, NEW m \in Maker, Begins(m)
  PROVE  BackupsInv'
<1> USE DEF Begins
<1> USE BackupsAssumption DEF Types, BackupsType
<1>1. MovedIsStale' /\ OneArchiveRemains'
  BY DEF BackupsInv, MovedIsStale, OneArchiveRemains, Listed
<1> DEFINE c == [at |-> "key", name |-> now, base |-> tables, key |-> None]
<1>2. c \in Copy /\ c.at = "key" /\ c.name = now /\ c.base = tables
  BY HubBaseAssumption DEF Copy, Key, Instant, HubType
<1>3. making' = [making EXCEPT ![m] = c]
  BY DEF MakerSet
<1> HIDE DEF c
<1>4. ListedInThePast'
  BY <1>2, <1>3, HubBaseAssumption DEF BackupsInv, ListedInThePast, Listed, HubType
<1>5. ASSUME ~crossed' PROVE OneAtATime' /\ MakingTheLast'
  <2>1. ~crossed /\ ~stale /\ restoring = None /\ \A n \in Maker : making[n] = None
    BY <1>5 DEF Busy
  <2>2. volume.base = Open
    BY <2>1 DEF BackupsInv, MovedIsStale
  <2>3. OneAtATime'
    BY <1>3, <2>1, <2>2 DEF OneAtATime
  <2>4. archive[now] = None /\ now \in Instant
    BY HubBaseAssumption DEF Listed, Instant, HubType
  <2>5. MakingTheLast'
    BY <1>2, <1>3, <2>1, <2>4 DEF MakingTheLast, Listed, BackupsInv, ListedInThePast, HubType, Instant
  <2> QED BY <2>3, <2>5
<1> QED BY <1>1, <1>4, <1>5 DEF BackupsInv

\* The file an archive is written to is opened: those that remain stay whole.
LEMMA OpensArchiveInv ==
  ASSUME Types, BackupsInv, NEW m \in Maker, OpensArchive(m)
  PROVE  BackupsInv'
<1> USE BackupsAssumption DEF OpensArchive, hub, seals, Types, BackupsType
<1>1. making[m] \in Copy /\ making[m].name \in Instant
  BY DEF Copy
<1>2. /\ \A n \in Maker \ {m} : making'[n] = making[n]
      /\ making'[m] # None /\ making'[m].at = "write" /\ making'[m].key = volume.key
      /\ making'[m].name = making[m].name /\ making'[m].base = making[m].base
  BY ZenonT(30), <1>1 DEF MakerSet, Copy
<1> DEFINE u == making[m].name
<1>3. /\ archive'[u] = [is |-> "open"] /\ Listed' = Listed \cup {u}
      /\ \A t \in Instant \ {u} : archive'[t] = archive[t]
  BY <1>1 DEF Listed
<1> HIDE DEF u
<1>5. MovedIsStale'
  BY DEF BackupsInv, MovedIsStale
<1>6. ASSUME ~crossed PROVE OneAtATime' /\ MakingTheLast'
  <2>1. OneAtATime /\ MakingTheLast
    BY <1>6 DEF BackupsInv
  <2>2. OneAtATime' /\ \A n \in Maker \ {m} : making[n] = None
    BY <1>2, <2>1 DEF OneAtATime
  <2>3. MakingTheLast'
    BY <1>1, <1>2, <1>3, <2>1, <2>2 DEF MakingTheLast, Instant, u
  <2> QED BY <2>2, <2>3
<1>7. ListedInThePast' /\ OneArchiveRemains'
  <2>1. ASSUME ~crossed PROVE OneArchiveRemains'
    <3>1. archive[u] = None
      BY <2>1 DEF BackupsInv, MakingTheLast, u
    <3> QED BY <1>3, <2>1, <3>1 DEF BackupsInv, OneArchiveRemains, Listed
  <2>2. ListedInThePast'
    BY <1>2, <1>3 DEF BackupsInv, ListedInThePast, u
  <2> QED BY <2>1, <2>2 DEF OneArchiveRemains
<1> QED BY <1>5, <1>6, <1>7 DEF BackupsInv

\* The archive is written, whole when the key is still the one it was summed with.
LEMMA WritesArchiveInv ==
  ASSUME Types, BackupsInv, NEW m \in Maker, WritesArchive(m)
  PROVE  BackupsInv'
<1> USE BackupsAssumption DEF WritesArchive, hub, seals, Types, BackupsType
<1>1. making[m] \in Copy /\ making[m].name \in Instant /\ making[m].at = "write"
  BY DEF Copy
<1>2. /\ \A n \in Maker \ {m} : making'[n] = making[n]
      /\ making'[m] # None /\ making'[m].at = "prune" /\ making'[m].key = making[m].key
      /\ making'[m].name = making[m].name /\ making'[m].base = making[m].base
  BY <1>1 DEF MakerSet, Copy
<1> DEFINE u == making[m].name
           a == [is |-> IF volume.key = making[m].key THEN "whole" ELSE "torn",
                 base |-> making[m].base, key |-> making[m].key]
<1>3. /\ a # None /\ a.base = making[m].base /\ a.key = making[m].key
      /\ a.is = "whole" <=> volume.key = making[m].key
  BY <1>1 DEF Whole, Copy
<1> HIDE DEF a
<1>4. /\ archive'[u] = a /\ Listed' = Listed \cup {u}
      /\ \A t \in Instant \ {u} : archive'[t] = archive[t]
  BY <1>1, <1>3 DEF Listed, a
<1> HIDE DEF u
<1>5. MovedIsStale'
  BY DEF BackupsInv, MovedIsStale
<1>6. ListedInThePast'
  BY <1>2, <1>4 DEF BackupsInv, ListedInThePast, u
<1>7. ASSUME ~crossed PROVE OneAtATime' /\ MakingTheLast' /\ OneArchiveRemains'
  <2>1. OneAtATime /\ MakingTheLast
    BY <1>7 DEF BackupsInv
  <2>2. OneAtATime' /\ \A n \in Maker \ {m} : making[n] = None
    BY <1>2, <2>1 DEF OneAtATime
  <2>3. a.is = "whole" /\ \A t \in Listed : t <= u
    BY <1>1, <1>3, <2>1 DEF MakingTheLast, u
  <2>4. MakingTheLast'
    BY <1>1, <1>2, <1>3, <1>4, <2>2, <2>3 DEF MakingTheLast, Instant, u
  <2>5. OneArchiveRemains'
    BY <1>4, <2>3 DEF OneArchiveRemains
  <2> QED BY <2>2, <2>4, <2>5
<1> QED BY <1>5, <1>6, <1>7 DEF BackupsInv, OneArchiveRemains

\* What was half written was listed, and never whole.
LEMMA FailsArchiveInv ==
  ASSUME Types, BackupsInv, NEW m \in Maker, FailsArchive(m)
  PROVE  BackupsInv'
<1> USE BackupsAssumption DEF FailsArchive, seals, Types, BackupsType
<1>1. making[m] \in Copy /\ making[m].name \in Instant
  BY DEF Copy
<1>2. making'[m] = None /\ \A n \in Maker \ {m} : making'[n] = making[n]
  BY DEF GivesUp, MakerSet
<1>3. \A t \in Instant : archive'[t] \in {archive[t], None}
  BY <1>1
<1>4. Listed' \subseteq Listed /\ \A t \in Listed' : archive'[t] = archive[t]
  BY <1>3 DEF Listed
<1>5. MovedIsStale' /\ ListedInThePast'
  BY <1>2, <1>4 DEF BackupsInv, MovedIsStale, ListedInThePast
<1>6. ASSUME ~crossed PROVE OneAtATime' /\ MakingTheLast' /\ OneArchiveRemains'
  <2>1. OneAtATime /\ MakingTheLast /\ OneArchiveRemains
    BY <1>6 DEF BackupsInv
  <2>2. \A n \in Maker : making'[n] = None
    BY <1>2, <2>1 DEF OneAtATime
  <2>3. OneAtATime' /\ MakingTheLast'
    BY <2>1, <2>2 DEF OneAtATime, MakingTheLast
  <2>4. archive'= archive \/ archive[making[m].name] = [is |-> "open"]
    BY <2>1 DEF MakingTheLast
  <2>5. OneArchiveRemains'
    BY <1>1, <1>3, <1>6, <2>1, <2>4 DEF OneArchiveRemains, Listed
  <2> QED BY <2>3, <2>5
<1> QED BY <1>5, <1>6 DEF BackupsInv, OneArchiveRemains

\* The retention keeps the archive that was just made (prune).
LEMMA PrunesInv ==
  ASSUME Types, BackupsInv, NEW m \in Maker, Prunes(m)
  PROVE  BackupsInv'
<1> USE BackupsAssumption DEF Prunes, hub, seals, Types, BackupsType
<1>1. making[m] \in Copy /\ making[m].name \in Instant
  BY DEF Copy
<1>2. making'[m] = None /\ \A n \in Maker \ {m} : making'[n] = making[n]
  BY DEF MakerSet
<1>3. Kept \subseteq Listed /\ Listed' = Kept /\ \A t \in Kept : archive'[t] = archive[t]
  BY DEF Kept, Listed
<1>4. MovedIsStale' /\ ListedInThePast'
  BY <1>2, <1>3 DEF BackupsInv, MovedIsStale, ListedInThePast
<1>5. ASSUME ~crossed PROVE OneAtATime' /\ MakingTheLast' /\ OneArchiveRemains'
  <2>1. OneAtATime /\ MakingTheLast
    BY <1>5 DEF BackupsInv
  <2>2. \A n \in Maker : making'[n] = None
    BY <1>2, <2>1 DEF OneAtATime
  <2>3. OneAtATime' /\ MakingTheLast'
    BY <2>1, <2>2 DEF OneAtATime, MakingTheLast
  <2> DEFINE u == making[m].name
  <2>4. u \in Listed /\ archive[u].is = "whole" /\ \A t \in Listed : t <= u
    BY <1>1, <2>1 DEF MakingTheLast, Listed
  <2>5. u \in Kept
    <3>1. {t \in Listed : t > u} = {}
      BY <1>1, <2>4 DEF Listed, Instant
    <3>2. Cardinality({t \in Listed : t > u}) = 0
      BY <3>1, FS_EmptySet
    <3> QED BY <2>4, <3>2 DEF Kept
  <2>6. OneArchiveRemains'
    BY <1>3, <2>4, <2>5 DEF OneArchiveRemains
  <2> QED BY <2>3, <2>6
<1> QED BY <1>4, <1>5 DEF BackupsInv, OneArchiveRemains

\* Restoring one (restore): no archive is touched, and a base that is replaced
\* refuses to be written.
LEMMA RestoringInv ==
  ASSUME Types, BackupsInv,
         \/ \E t \in Instant : BeginsRestore(t)
         \/ MovesBase \/ MovesKey \/ PlacesBase \/ PlacesKey \/ FailsRestore
  PROVE  BackupsInv'
<1> USE BackupsAssumption DEF Types, BackupsType, seals, hub
<1>1. UNCHANGED <<now, archive, making>> /\ (~crossed' => ~crossed)
  <2>1. ASSUME NEW t \in Instant, BeginsRestore(t)
        PROVE  UNCHANGED <<now, archive, making>> /\ (~crossed' => ~crossed)
    BY <2>1 DEF BeginsRestore
  <2>2. CASE MovesBase
    BY <2>2 DEF MovesBase
  <2>3. CASE MovesKey
    BY <2>3 DEF MovesKey
  <2>4. CASE PlacesBase
    BY <2>4 DEF PlacesBase
  <2>5. CASE PlacesKey
    BY <2>5 DEF PlacesKey
  <2>6. CASE FailsRestore
    BY <2>6 DEF FailsRestore
  <2> QED BY <2>1, <2>2, <2>3, <2>4, <2>5, <2>6
<1>2. ListedInThePast' /\ OneArchiveRemains'
  BY <1>1 DEF BackupsInv, ListedInThePast, OneArchiveRemains, Listed
<1>3. ASSUME ~crossed' PROVE OneAtATime' /\ MakingTheLast'
  <2>1. \A m \in Maker : making[m] = None
    <3>1. CASE \E t \in Instant : BeginsRestore(t)
      BY <1>3, <3>1 DEF BeginsRestore, Busy
    <3>2. CASE restoring # None
      BY <1>1, <1>3, <3>2 DEF BackupsInv, OneAtATime
    <3> QED BY <3>1, <3>2 DEF MovesBase, MovesKey, PlacesBase, PlacesKey, FailsRestore
  <2> QED BY <1>1, <2>1 DEF OneAtATime, MakingTheLast
<1>4. MovedIsStale'
  <2>1. ASSUME NEW t \in Instant, BeginsRestore(t) PROVE MovedIsStale'
    BY <2>1 DEF BeginsRestore, BackupsInv, MovedIsStale
  <2>2. CASE MovesBase
    BY <2>2 DEF MovesBase, MovedIsStale
  <2>3. CASE PlacesBase
    <3>1. volume.base # Open => stale
      BY DEF BackupsInv, MovedIsStale
    <3> QED BY <2>3, <3>1 DEF PlacesBase, MovedIsStale
  <2>4. CASE MovesKey \/ PlacesKey \/ FailsRestore
    <3>1. volume'.base = volume.base /\ stale' = stale
      BY <2>4 DEF MovesKey, PlacesKey, WithKey, FailsRestore
    <3> QED BY <3>1 DEF BackupsInv, MovedIsStale
  <2> QED BY <2>1, <2>2, <2>3, <2>4
<1> QED BY <1>2, <1>3, <1>4 DEF BackupsInv

\* A stop interrupts what was under way; the hub starts with the base that is in
\* place and the key beside it.
LEMMA RestartsBackupsInv ==
  ASSUME Types, BackupsInv, Restarts
  PROVE  BackupsInv'
<1> USE BackupsAssumption, HubBaseAssumption DEF Restarts, BackupsRestart
<1>1. volume'.base = Open /\ volume'.key = KeyAtStart /\ making' = [m \in Maker |-> None] /\ restoring' = None
  OBVIOUS
<1>2. /\ Listed' = Listed
      /\ \A t \in Listed : archive[t].is = "whole" <=> archive'[t].is = "whole"
      /\ \A t \in Listed : archive[t].is = "whole" => archive'[t] = archive[t]
  BY DEF Listed, Types, BackupsType
<1>3. MovedIsStale' /\ OneAtATime' /\ MakingTheLast'
  BY <1>1 DEF MovedIsStale, OneAtATime, MakingTheLast
<1>4. ListedInThePast' /\ OneArchiveRemains'
  BY <1>1, <1>2 DEF BackupsInv, ListedInThePast, OneArchiveRemains
<1> QED BY <1>3, <1>4 DEF BackupsInv

\* A step of the hub keeps an archive to restore.
LEMMA BackupsInductive == Types /\ BackupsInv /\ [Next]_vars => BackupsInv'
<1> SUFFICES ASSUME Types, BackupsInv, [Next]_vars PROVE BackupsInv'
  OBVIOUS
<1> USE DEF Types
<1>1. CASE NotificationsStep /\ UNCHANGED <<reporting, backups, packages>>
  <2>1. tables'.sealed = tables.sealed
    BY <1>1, NotificationsBase
  <2>2. stale' = stale /\ now' = now
    BY <1>1 DEF NotificationsStep, BeginsPass, FailsPass, Retains, Announces, Subscribes,
       Beats, FallsSilent, Revokes, SeesState, SeesLink, Chooses, hub
  <2> QED BY <1>1, <2>1, <2>2, BackupsQuiet
<1>2. CASE ReportsStep /\ UNCHANGED <<alerting, backups, packages>>
  <2>1. tables'.sealed = tables.sealed
    BY <1>2, ReportsTypes DEF ReportsOnly
  <2>2. stale' = stale /\ now' = now
    BY <1>2 DEF ReportsStep, Works, Takes, Gathers, Writes, NotesReady, NotesFailed,
       DatesExpired, Requests, RemovesFile, hub
  <2> QED BY <1>2, <2>1, <2>2, BackupsQuiet
<1>3. CASE BackupsStep
  BY <1>3, BeginsInv, OpensArchiveInv, WritesArchiveInv, FailsArchiveInv, PrunesInv,
     RestoringInv DEF BackupsStep
<1>4. CASE PackagesStep /\ UNCHANGED <<alerting, reporting, backups>>
  BY <1>4, PackagesOnly, BackupsQuiet DEF HubType
<1>5. CASE Tick /\ UNCHANGED <<alerting, reporting, backups, packages>>
  BY <1>5, BackupsQuiet DEF Tick
<1>6. CASE Restarts
  BY <1>6, RestartsBackupsInv
<1>7. CASE UNCHANGED vars
  BY <1>7, BackupsQuiet DEF vars, hub
<1> QED BY <1>1, <1>2, <1>3, <1>4, <1>5, <1>6, <1>7 DEF Next

\* Whatever backups fail, are interrupted or are pruned, there is an archive to
\* restore (create, prune), as long as they come one at a time.
THEOREM AnArchiveRemains == Spec => []OneArchiveRemains
<1>1. Types /\ BackupsInv => OneArchiveRemains
  BY DEF BackupsInv
<1> QED BY TypesInitially, BackupsInitially, TypesInductive, BackupsInductive, <1>1, PTL DEF Spec

-----------------------------------------------------------------------------
(* Backups: the keys.                                                      *)

\* The archive to begin with holds its own key, and the hub has its own.
LEMMA KeysInitially == Init => KeysInv
<1> SUFFICES ASSUME Init PROVE KeysKept
  BY DEF KeysInv
<1> USE BackupsAssumption, HubBaseAssumption DEF Init, BackupsInit
<1>1. EmptyTables(0).sealed = 0 /\ EmptyTables(1) \in Base /\ EmptyTables(1).sealed = 1
  BY EmptyTablesType
<1>2. KeysHere = {1} /\ SealsHere \subseteq {1} /\ tables.sealed = 1
  BY <1>1 DEF KeysHere, SealsHere, LeftKey, LeftBase, SealOf, Content
<1>3. \A t \in Instant : archive[t] # None => archive[t].base.sealed = archive[t].key
  BY <1>1
<1> QED BY <1>2, <1>3 DEF KeysKept

\* What leaves the volume alone leaves the keys and the seals that are there.
LEMMA VolumeSame ==
  ASSUME tables \in Base, tables' \in Base, tables'.sealed = tables.sealed,
         UNCHANGED <<volume, beside, restoring>>
  PROVE  KeysHere' = KeysHere /\ SealsHere' = SealsHere
<1>1. SealOf(volume.base)' = SealOf(volume.base)
  BY HubBaseAssumption DEF SealOf, Content
<1>2. KeysHere' = KeysHere
  BY DEF KeysHere, LeftKey
<1>3. SealsHere' = SealsHere
  BY <1>1 DEF SealsHere, LeftBase
<1> QED BY <1>2, <1>3

\* What copies nothing, and takes no key away, keeps what opens.
LEMMA KeysCarried ==
  ASSUME KeysKept, KeysHere \subseteq KeysHere', SealsHere' \subseteq KeysHere',
         UNCHANGED <<archive, making>>, tables'.sealed = tables.sealed
  PROVE  KeysKept'
BY DEF KeysKept

\* So does the rest of the hub.
LEMMA KeysQuiet ==
  ASSUME KeysInv, UNCHANGED backups, tables \in Base, tables' \in Base,
         tables'.sealed = tables.sealed
  PROVE  KeysInv'
<1> USE DEF backups, seals
<1>1. KeysHere' = KeysHere /\ SealsHere' = SealsHere
  BY VolumeSame
<1>2. ASSUME ~overwritten PROVE KeysKept'
  <2>1. KeysKept /\ SealsHere \subseteq KeysHere
    BY <1>2 DEF KeysInv, KeysKept
  <2> QED BY <1>1, <2>1, KeysCarried
<1> QED BY <1>2 DEF KeysInv

\* An archive copies the base the hub has open, whose key is on the volume
\* (create, build_archive).
LEMMA ArchivesKeepKeys ==
  ASSUME Types, Types', KeysInv, NEW m \in Maker, tables'.sealed = tables.sealed,
         Begins(m) \/ OpensArchive(m) \/ WritesArchive(m) \/ FailsArchive(m) \/ Prunes(m)
  PROVE  KeysInv'
<1> USE BackupsAssumption DEF hub, seals
<1>1. UNCHANGED <<volume, beside, restoring, overwritten>>
  BY DEF Begins, OpensArchive, WritesArchive, FailsArchive, Prunes
<1>2. KeysHere' = KeysHere /\ SealsHere' = SealsHere
  BY <1>1, VolumeSame DEF Types, HubType
<1>3. SUFFICES ASSUME ~overwritten PROVE KeysKept'
  BY <1>1 DEF KeysInv
<1>4. KeysKept
  BY <1>3 DEF KeysInv
<1>5. /\ making \in [Maker -> Copy \cup {None}]
      /\ archive \in [Instant -> Whole \cup {None, [is |-> "open"], [is |-> "torn"]}]
  BY DEF Types, BackupsType
<1>6. \A n \in Maker : making'[n] # None => making'[n].base.sealed \in KeysHere
  <2>1. \A n \in Maker \ {m} : making'[n] = making[n]
    BY <1>5 DEF Begins, OpensArchive, WritesArchive, FailsArchive, Prunes, GivesUp, MakerSet
  <2>2. making'[m] # None => making'[m].base = tables \/ (making[m] # None /\ making'[m].base = making[m].base)
    <3>1. CASE Begins(m)
      BY <1>5, <3>1 DEF Begins, MakerSet
    <3>2. CASE OpensArchive(m)
      BY <1>5, <3>2 DEF OpensArchive, MakerSet, Copy
    <3>3. CASE WritesArchive(m)
      BY <1>5, <3>3 DEF WritesArchive, MakerSet, Copy
    <3>4. CASE FailsArchive(m) \/ Prunes(m)
      BY <1>5, <3>4 DEF FailsArchive, Prunes, GivesUp, MakerSet
    <3> QED BY <3>1, <3>2, <3>3, <3>4
  <2> QED BY <1>4, <2>1, <2>2 DEF KeysKept
<1>7. \A t \in Instant : archive'[t] # None /\ archive'[t].is = "whole" =>
        archive'[t].base.sealed \in KeysHere \cup {archive'[t].key}
  <2> SUFFICES ASSUME NEW t \in Instant, archive'[t] # None, archive'[t].is = "whole"
               PROVE  archive'[t].base.sealed \in KeysHere \cup {archive'[t].key}
    OBVIOUS
  <2>1. CASE archive'[t] = archive[t]
    BY <1>4, <2>1 DEF KeysKept
  <2>2. CASE archive'[t] # archive[t]
    <3>1. WritesArchive(m) /\ making[m] # None /\ archive'[t].base = making[m].base
      BY <1>5, <2>2 DEF Begins, OpensArchive, WritesArchive, FailsArchive, Prunes
    <3> QED BY <1>4, <3>1 DEF KeysKept
  <2> QED BY <2>1, <2>2
<1> QED BY <1>2, <1>4, <1>6, <1>7 DEF KeysKept

\* A step of a restoration takes no base away but one it replaces, and no key but
\* one that could not be moved aside (restore).
LEMMA RestoringKeepsKeys ==
  ASSUME Types, KeysInv, tables' = tables,
         \/ \E t \in Instant : BeginsRestore(t)
         \/ MovesBase \/ MovesKey \/ PlacesBase \/ PlacesKey \/ FailsRestore
  PROVE  KeysInv'
<1> USE BackupsAssumption, HubBaseAssumption DEF Types, HubType, BackupsType, seals, hub
<1>1. SUFFICES ASSUME ~overwritten' PROVE KeysKept'
  BY DEF KeysInv
<1>2. UNCHANGED <<archive, making>> /\ ~overwritten
  <2>1. ASSUME NEW t \in Instant, BeginsRestore(t)
        PROVE  UNCHANGED <<archive, making, overwritten>>
    BY <2>1 DEF BeginsRestore
  <2>2. CASE MovesBase
    BY <1>1, <2>2 DEF MovesBase
  <2>3. CASE MovesKey
    BY <1>1, <2>3 DEF MovesKey
  <2>4. CASE PlacesBase
    BY <1>1, <2>4 DEF PlacesBase
  <2>5. CASE PlacesKey
    BY <1>1, <2>5 DEF PlacesKey
  <2>6. CASE FailsRestore
    BY <1>1, <2>6 DEF FailsRestore
  <2> QED BY <1>1, <2>1, <2>2, <2>3, <2>4, <2>5, <2>6
<1>3. KeysKept /\ SealsHere \subseteq KeysHere
  BY <1>2 DEF KeysInv, KeysKept
<1>4. SUFFICES KeysHere \subseteq KeysHere' /\ SealsHere' \subseteq KeysHere'
  BY <1>2, <1>3, KeysCarried
<1>5. SealOf(volume.base)' = SealOf(volume'.base)
  BY DEF SealOf, Content
<1>6. ASSUME NEW t \in Instant, BeginsRestore(t) PROVE KeysHere \subseteq KeysHere' /\ SealsHere' \subseteq KeysHere'
  <2>1. archive[t] \in Whole /\ archive[t].is = "whole" /\ archive[t] # None /\ archive[t].base.sealed \in Nat
    BY <1>6 DEF BeginsRestore, Listed, Whole, Base
  <2> DEFINE r == [at |-> "aside", base |-> archive[t].base, key |-> archive[t].key]
  <2>2. restoring' = r /\ restoring = None /\ volume' = volume /\ beside' = beside /\ r # None
    <3>1. r \in Restoration
      BY <2>1 DEF Restoration, Whole
    <3> QED BY <1>6, <3>1 DEF BeginsRestore
  <2>3. LeftKey' = {archive[t].key} \ {None} /\ LeftKey = {}
    BY <2>2 DEF LeftKey
  <2>4. LeftBase' = {archive[t].base.sealed} /\ LeftBase = {}
    BY <2>2 DEF LeftBase
  <2>5. archive[t].base.sealed \in KeysHere \cup {archive[t].key}
    BY <1>3, <2>1 DEF KeysKept
  <2>6. KeysHere' = KeysHere \cup LeftKey'
    BY <2>2, <2>3 DEF KeysHere
  <2>7. SealsHere' = SealsHere \cup LeftBase'
    BY <1>5, <2>2, <2>4 DEF SealsHere
  <2>8. archive[t].base.sealed # None
    BY <2>1
  <2> QED BY <1>3, <2>3, <2>4, <2>5, <2>6, <2>7, <2>8
<1>7. CASE restoring # None
  <2>1. restoring \in Restoration
    BY <1>7
  <2>2. LeftKey = {restoring.key} \ {None}
    BY <1>7 DEF LeftKey
  <2>3. restoring.at # "place key" => LeftBase = {restoring.base.sealed}
    BY <1>7 DEF LeftBase
  <2>4. restoring.at = "place key" => LeftBase = {}
    BY <1>7 DEF LeftBase
  <2>5. CASE MovesBase
    <3>1. restoring' # None /\ restoring'.at = "aside key" /\ restoring'.base = restoring.base
          /\ restoring'.key = restoring.key
      BY <2>1, <2>5 DEF MovesBase, RestoreGoes, Restoration
    <3>2. LeftKey' = LeftKey /\ LeftBase' = LeftBase
      BY <2>2, <2>3, <2>5, <3>1 DEF MovesBase, LeftKey, LeftBase
    <3> DEFINE s == SealOf(volume.base)
    <3>7. ASSUME volume' = [volume EXCEPT !.base = None], LeavesBeside(s, {})
          PROVE  /\ volume'.key = volume.key /\ beside'.keys = beside.keys
                 /\ SealOf(volume'.base) \cup beside'.bases = SealOf(volume.base) \cup beside.bases
      <4> HIDE DEF s
      <4>1. beside'.keys = beside.keys /\ beside'.bases = beside.bases \cup s
        BY <3>7 DEF LeavesBeside
      <4>2. volume'.key = volume.key /\ volume'.base = None
        BY <3>7
      <4>3. SealOf(None) = {}
        BY DEF SealOf, Content
      <4>4. SealOf(volume'.base) \cup beside'.bases = s \cup beside.bases
        BY <4>1, <4>2, <4>3
      <4> QED BY <4>1, <4>2, <4>4 DEF s
    <3>3. volume'.key = volume.key /\ beside'.keys = beside.keys
      BY <2>5, <3>7 DEF MovesBase
    <3>4. SealOf(volume'.base) \cup beside'.bases = SealOf(volume.base) \cup beside.bases
      BY <2>5, <3>7 DEF MovesBase
    <3>5. KeysHere' = KeysHere
      BY <3>2, <3>3 DEF KeysHere
    <3>6. SealsHere' = SealsHere
      BY <1>5, <3>2, <3>4 DEF SealsHere
    <3> QED BY <1>3, <3>5, <3>6
  <2>6. CASE MovesKey
    <3>1. restoring' # None /\ restoring'.at = "place" /\ restoring'.base = restoring.base
          /\ restoring'.key = restoring.key
      BY <2>1, <2>6 DEF MovesKey, RestoreGoes, Restoration
    <3>2. LeftKey' = LeftKey /\ LeftBase' = LeftBase
      BY <2>2, <2>3, <2>6, <3>1 DEF MovesKey, LeftKey, LeftBase
    <3> DEFINE k == {volume.key} \ {None}
    <3>7. ASSUME volume' = [volume EXCEPT !.key = None], LeavesBeside({}, k)
          PROVE  /\ volume'.base = volume.base /\ beside'.bases = beside.bases
                 /\ ({volume'.key} \cup beside'.keys) \ {None} = ({volume.key} \cup beside.keys) \ {None}
      <4>1. beside'.bases = beside.bases /\ beside'.keys = beside.keys \cup k
        BY <3>7 DEF LeavesBeside
      <4>2. volume'.base = volume.base /\ volume'.key = None
        BY <3>7
      <4>3. ({volume'.key} \cup beside'.keys) \ {None} = ({volume.key} \cup beside.keys) \ {None}
        BY <4>1, <4>2
      <4> QED BY <4>1, <4>2, <4>3
    <3>3. volume'.base = volume.base /\ beside'.bases = beside.bases
      BY <2>6, <3>7 DEF MovesKey
    <3>4. ({volume'.key} \cup beside'.keys) \ {None} = ({volume.key} \cup beside.keys) \ {None}
      BY <2>6, <3>7 DEF MovesKey
    <3>5. KeysHere' = KeysHere
      BY <3>2, <3>4 DEF KeysHere
    <3>6. SealsHere' = SealsHere
      BY <1>5, <3>2, <3>3 DEF SealsHere
    <3> QED BY <1>3, <3>5, <3>6
  <2>7. CASE PlacesBase
    <3>1. restoring' # None /\ restoring'.at = "place key" /\ restoring'.key = restoring.key
      BY <2>1, <2>7 DEF PlacesBase, RestoreGoes, Restoration
    <3>2. LeftKey' = LeftKey /\ LeftBase' = {}
      BY <2>2, <3>1 DEF LeftKey, LeftBase
    <3>3. volume'.base = restoring.base /\ volume'.key = volume.key /\ beside' = beside
      BY <2>7 DEF PlacesBase
    <3>4. SealOf(volume'.base) = LeftBase
      <4>1. restoring.base \in Base /\ restoring.base # None
        BY <2>1 DEF Restoration
      <4>2. restoring.base # Open
        <5>1. DOMAIN restoring.base # DOMAIN Open
          BY <4>1 DEF Base, Open
        <5> QED BY <5>1
      <4> QED BY <2>3, <2>7, <3>3, <4>1, <4>2 DEF PlacesBase, SealOf, Content
    <3>5. KeysHere' = KeysHere
      BY <3>2, <3>3 DEF KeysHere
    <3>6. SealsHere' \subseteq SealsHere
      BY <1>5, <3>2, <3>3, <3>4 DEF SealsHere
    <3> QED BY <1>3, <3>5, <3>6
  <2>8. CASE PlacesKey
    <3>1. LeftKey' = {} /\ LeftBase' = {} /\ LeftBase = {}
      BY <2>4, <2>8 DEF PlacesKey, LeftKey, LeftBase
    <3>2. volume'.base = volume.base /\ beside' = beside
      BY <2>8 DEF PlacesKey, WithKey
    <3>3. {volume'.key} \ {None} = ({volume.key} \cup {restoring.key}) \ {None}
      BY <1>1, <2>8 DEF PlacesKey, WithKey
    <3>4. KeysHere' = KeysHere
      BY <2>2, <3>1, <3>2, <3>3 DEF KeysHere
    <3>5. SealsHere' = SealsHere
      BY <1>5, <3>1, <3>2 DEF SealsHere
    <3> QED BY <1>3, <3>4, <3>5
  <2>9. CASE FailsRestore
    <3>1. LeftKey' = {} /\ LeftBase' = {}
      BY <2>9 DEF FailsRestore, LeftKey, LeftBase
    <3>2. volume' = volume /\ beside'.keys = beside.keys \cup LeftKey
          /\ beside'.bases = beside.bases \cup LeftBase
      BY <2>9 DEF FailsRestore, LeavesBeside
    <3>3. None \notin LeftKey
      BY <2>2
    <3>4. KeysHere' = KeysHere
      BY <3>1, <3>2, <3>3 DEF KeysHere
    <3>5. SealsHere' = SealsHere
      BY <1>5, <3>1, <3>2 DEF SealsHere
    <3> QED BY <1>3, <3>4, <3>5
  <2> QED BY <1>7, <2>5, <2>6, <2>7, <2>8, <2>9 DEF BeginsRestore
<1> QED BY <1>6, <1>7 DEF MovesBase, MovesKey, PlacesBase, PlacesKey, FailsRestore

\* The hub starts on the base in place; what was extracted stays where it is.
LEMMA RestartsKeepKeys ==
  ASSUME Types, KeysInv, Restarts
  PROVE  KeysInv'
<1> USE BackupsAssumption, HubBaseAssumption
<1>1. SUFFICES ASSUME ~overwritten PROVE KeysKept'
  BY DEF KeysInv, Restarts, BackupsRestart
<1>2. KeysKept
  BY <1>1 DEF KeysInv
<1>3. /\ volume'.base = Open /\ volume'.key = KeyAtStart /\ restoring' = None
      /\ \A m \in Maker : making'[m] = None
      /\ beside'.keys = beside.keys \cup LeftKey /\ beside'.bases = beside.bases \cup LeftBase
  BY DEF Restarts, BackupsRestart, LeavesBeside
<1>4. LeftKey' = {} /\ LeftBase' = {}
  BY <1>3 DEF LeftKey, LeftBase
<1>5. KeyAtStart \in Nat /\ (volume.key # None => KeyAtStart = volume.key)
  BY StartSpec DEF Types
<1>6. KeysHere' = ({KeyAtStart} \cup beside.keys \cup LeftKey) \ {None}
  BY <1>3, <1>4 DEF KeysHere
<1>7. KeysHere \subseteq KeysHere' /\ KeyAtStart \in KeysHere'
  <2>1. None \notin LeftKey
    BY DEF LeftKey
  <2> QED BY <1>5, <1>6, <2>1 DEF KeysHere
<1>8. tables'.sealed \in KeysHere'
  <2>1. tables'.sealed = BaseAtStart.sealed
    BY RestartsTypes
  <2>2. CASE volume.base = Open
    BY <1>2, <1>7, <2>1, <2>2, StartSpec DEF KeysKept, Types
  <2>3. CASE volume.base = None
    BY <1>7, <2>1, <2>3, StartSpec DEF Types
  <2>4. CASE volume.base \notin {Open, None}
    <3>1. BaseAtStart = volume.base /\ SealOf(volume.base) = {volume.base.sealed}
      BY <2>4, StartSpec DEF Types, SealOf, Content
    <3> QED BY <1>2, <1>7, <2>1, <3>1 DEF KeysKept, SealsHere
  <2> QED BY <2>2, <2>3, <2>4
<1>9. SealsHere' \subseteq KeysHere'
  <2>1. SealOf(volume.base)' \subseteq {tables'.sealed}
    BY <1>3 DEF SealOf, Content
  <2>2. SealsHere' \subseteq {tables'.sealed} \cup SealsHere
    BY <1>3, <1>4, <2>1 DEF SealsHere
  <2> QED BY <1>2, <1>7, <1>8, <2>2 DEF KeysKept
<1>10. \A t \in Instant : archive'[t] # None /\ archive'[t].is = "whole" => archive'[t] = archive[t]
  BY DEF Restarts, BackupsRestart
<1> QED BY <1>2, <1>3, <1>7, <1>8, <1>9, <1>10 DEF KeysKept

\* A step of the hub takes no key away that a base on the volume needs.
LEMMA KeysInductive == Types /\ Types' /\ KeysInv /\ [Next]_vars => KeysInv'
<1> SUFFICES ASSUME Types, Types', KeysInv, [Next]_vars PROVE KeysInv'
  OBVIOUS
<1> USE DEF Types, HubType
<1>1. CASE NotificationsStep /\ UNCHANGED <<reporting, backups, packages>>
  BY <1>1, NotificationsBase, KeysQuiet
<1>2. CASE ReportsStep /\ UNCHANGED <<alerting, backups, packages>>
  BY <1>2, ReportsTypes, KeysQuiet DEF ReportsOnly
<1>3. CASE BackupsStep
  <2>1. tables' = tables
    BY <1>3, BackupsTypes
  <2> QED BY <1>3, <2>1, ArchivesKeepKeys, RestoringKeepsKeys DEF BackupsStep
<1>4. CASE PackagesStep /\ UNCHANGED <<alerting, reporting, backups>>
  BY <1>4, PackagesOnly, KeysQuiet
<1>5. CASE Tick /\ UNCHANGED <<alerting, reporting, backups, packages>>
  BY <1>5, KeysQuiet DEF Tick
<1>6. CASE Restarts
  BY <1>6, RestartsKeepKeys
<1>7. CASE UNCHANGED vars
  BY <1>7, KeysQuiet DEF vars, hub
<1> QED BY <1>1, <1>2, <1>3, <1>4, <1>5, <1>6, <1>7 DEF Next

\* Each base on the volume has its key there, after any number of backups, of
\* restorations that end, fail or are cut, and of restarts (restore), unless a
\* key could not be moved aside.
THEOREM SecretsStayOpenable == Spec => []SecretsCanBeOpened
<1>1. Types /\ KeysInv => SecretsCanBeOpened
  BY DEF KeysInv, KeysKept, SecretsCanBeOpened
<1> QED BY TypesInitially, KeysInitially, TypesInductive, KeysInductive, <1>1, PTL DEF Spec

-----------------------------------------------------------------------------
(* Reports.                                                                *)

\* What the rest of the hub does leaves the requests.
LEMMA ReportsQuiet ==
  ASSUME ReportsInv, UNCHANGED reporting, tables'.report = tables.report, restored' = restored
  PROVE  ReportsInv'
BY DEF reporting, ReportsInv, LineIsPreparing, WaitsOnce, WorkerPrepares, PurgingIsDated, RowIs, ReadyHasFile

\* A request waits for the worker in its row and in the line.
LEMMA RequestsInv ==
  ASSUME Types, ReportsInv, NEW r \in Report, Requests(r), restored' = restored
  PROVE  ReportsInv'
<1> USE HubBaseAssumption, ReportsAssumption DEF Types, HubType, ReportsType
<1>1. RowIs(r, "preparing")' /\ \A q \in Report \ {r} : tables'.report[q] = tables.report[q]
  <2>1. tables'.report = [tables.report EXCEPT ![r] = Row("preparing", 0)]
    BY RowType, SetRowSpec DEF Requests
  <2> QED BY SMTT(20), <2>1, RowType DEF RowIs, Base
<1>2. /\ line' = Append(line, r) /\ \A i \in 1..Len(line) : line[i] # r
      /\ worker' = worker /\ workbook' = workbook /\ purging' = purging
      /\ tables.report[r] = None /\ (worker # None => worker.report # r)
  BY DEF Requests
<1>3. \A i \in 1..Len(line') :
        (i \in 1..Len(line) /\ line'[i] = line[i]) \/ (i = Len(line) + 1 /\ line'[i] = r)
  BY <1>2
<1>4. LineIsPreparing' /\ WaitsOnce'
  BY SMTT(20), <1>1, <1>2, <1>3 DEF ReportsInv, LineIsPreparing, WaitsOnce, WorkerPrepares, PurgingIsDated, RowIs
<1>5. WorkerPrepares'
  BY <1>1, <1>2, <1>3 DEF ReportsInv, WorkerPrepares, RowIs, Task
<1>6. PurgingIsDated'
  <2>1. \A q \in purging : q \in Report \ {r} /\ RowIs(q, "purged")
    BY <1>2 DEF ReportsInv, PurgingIsDated, RowIs
  <2> QED BY <1>1, <1>2, <2>1 DEF PurgingIsDated, RowIs
<1>7. ReadyHasFile'
  BY <1>1, <1>2 DEF ReportsInv, LineIsPreparing, WaitsOnce, WorkerPrepares, PurgingIsDated, ReadyHasFile, RowIs
<1> QED BY <1>4, <1>5, <1>6, <1>7 DEF ReportsInv, LineIsPreparing, WaitsOnce, WorkerPrepares, PurgingIsDated

\* The worker writes the file before it notes it (lancer_preparation).
LEMMA WorkerInv ==
  ASSUME Types, ReportsInv, Takes \/ Gathers \/ Writes, restored' = restored
  PROVE  ReportsInv'
<1> USE HubBaseAssumption, ReportsAssumption DEF Types, ReportsType, hub
<1>1. CASE Takes
  <2>1. /\ worker'.report = line[1] /\ worker'.at = "gather" /\ line' = Tail(line)
        /\ UNCHANGED <<tables, workbook, purging>> /\ 1 \in 1..Len(line)
    BY <1>1 DEF Takes
  <2>2. \A i \in 1..Len(line') : i + 1 \in 1..Len(line) /\ line'[i] = line[i + 1] /\ i + 1 # 1
    BY <2>1
  <2>3. LineIsPreparing' /\ WaitsOnce' /\ WorkerPrepares'
    BY <2>1, <2>2 DEF ReportsInv, LineIsPreparing, WaitsOnce, WorkerPrepares, PurgingIsDated, RowIs
  <2> QED BY <2>1, <2>3 DEF ReportsInv, LineIsPreparing, WaitsOnce, WorkerPrepares, PurgingIsDated, RowIs, ReadyHasFile
<1>2. CASE Gathers
  <2>1. /\ worker' # None /\ worker'.report = worker.report /\ worker'.at # "note"
        /\ UNCHANGED <<tables, line, workbook, purging>> /\ worker # None
    BY <1>2 DEF Gathers, GoesTo, Task
  <2> QED BY <2>1 DEF ReportsInv, LineIsPreparing, WaitsOnce, WorkerPrepares, PurgingIsDated, RowIs, ReadyHasFile
<1>3. CASE Writes
  <2>1. PICK file \in {None, "part", "whole"} :
          workbook' = [workbook EXCEPT ![worker.report] = file] /\ GoesTo(AfterWriting(file))
    BY <1>3 DEF Writes
  <2>2. /\ worker' # None /\ worker'.report = worker.report /\ worker.report \in Report
        /\ worker'.at = "note" => file = "whole"
        /\ UNCHANGED <<tables, line, purging>> /\ worker # None
    BY <1>3, <2>1 DEF Writes, GoesTo, AfterWriting, Task
  <2>3. RowIs(worker.report, "preparing") /\ ~RowIs(worker.report, "ready")
    BY <2>2 DEF ReportsInv, LineIsPreparing, WaitsOnce, WorkerPrepares, PurgingIsDated, RowIs
  <2> QED BY <2>1, <2>2, <2>3 DEF ReportsInv, LineIsPreparing, WaitsOnce, WorkerPrepares, PurgingIsDated, RowIs, ReadyHasFile
<1> QED BY <1>1, <1>2, <1>3

\* The worker notes only what is whole, and fails what is in preparation.
LEMMA NotesInv ==
  ASSUME Types, ReportsInv, NotesReady \/ NotesFailed, restored' = restored
  PROVE  ReportsInv'
<1> USE HubBaseAssumption, ReportsAssumption DEF Types, HubType, ReportsType
<1>1. worker # None /\ worker.report \in Report /\ RowIs(worker.report, "preparing")
  BY DEF NotesReady, NotesFailed, ReportsInv, WorkerPrepares, Task
<1>2. UNCHANGED <<line, workbook, purging>>
  BY DEF NotesReady, NotesFailed
<1>3. CASE UNCHANGED tables
  <2>1. worker' = None \/ (worker'.report = worker.report /\ worker'.at = "fail")
    BY <1>3 DEF NotesReady, NotesFailed, GoesTo, Task
  <2> QED BY <1>1, <1>2, <1>3, <2>1 DEF ReportsInv, LineIsPreparing, WaitsOnce, WorkerPrepares, PurgingIsDated, RowIs, ReadyHasFile
<1>4. ASSUME NEW row \in ReportRow, SetRow(worker.report, row), worker' = None,
             (row.state = "ready" /\ worker.at = "note") \/ row.state = "failed"
      PROVE  ReportsInv'
  <2>1. tables'.report = [tables.report EXCEPT ![worker.report] = row]
    BY <1>1, <1>4, SetRowSpec
  <2>2. tables'.report[worker.report] = row /\ row # None
        /\ \A q \in Report \ {worker.report} : tables'.report[q] = tables.report[q]
    BY <1>1, <2>1 DEF Base
  <2>3. \A i \in 1..Len(line) : line[i] \in Report /\ line[i] # worker.report
    BY <1>1 DEF ReportsInv, LineIsPreparing, WaitsOnce, WorkerPrepares, PurgingIsDated
  <2>4. row.state = "ready" => workbook[worker.report] = "whole"
    BY <1>1, <1>4 DEF ReportsInv, LineIsPreparing, WaitsOnce, WorkerPrepares, PurgingIsDated
  <2>5. \A r \in purging : r # worker.report
    BY <1>1 DEF ReportsInv, LineIsPreparing, WaitsOnce, WorkerPrepares, PurgingIsDated, RowIs
  <2>6. LineIsPreparing' /\ WaitsOnce' /\ WorkerPrepares'
    BY <1>2, <1>4, <2>2, <2>3 DEF ReportsInv, LineIsPreparing, WaitsOnce, WorkerPrepares, RowIs
  <2>7. PurgingIsDated'
    BY <1>2, <2>2, <2>5 DEF ReportsInv, PurgingIsDated, RowIs
  <2>8. ReadyHasFile'
    <3>1. ASSUME NEW r \in Report, ~restored, RowIs(r, "ready")' PROVE workbook[r] = "whole"
      BY <2>2, <2>4, <3>1 DEF ReportsInv, ReadyHasFile, RowIs
    <3> QED BY <1>2, <3>1 DEF ReadyHasFile
  <2> QED BY <2>6, <2>7, <2>8 DEF ReportsInv
<1>5. CASE NotesReady
  <2>1. \A days \in ReportDays : Row("ready", now + days) \in ReportRow
                                 /\ Row("ready", now + days).state = "ready"
    <3>1. \A days \in ReportDays : now + days \in Nat
      OBVIOUS
    <3> QED BY <3>1, RowType
  <2> QED BY <1>3, <1>4, <1>5, <2>1 DEF NotesReady
<1>6. CASE NotesFailed
  BY <1>3, <1>4, <1>6, RowType DEF NotesFailed
<1> QED BY <1>5, <1>6

\* The purge dates the rows first and removes the files then.
LEMMA PurgeInv ==
  ASSUME Types, ReportsInv, DatesExpired \/ \E r \in Report : RemovesFile(r), restored' = restored
  PROVE  ReportsInv'
<1> USE HubBaseAssumption, ReportsAssumption DEF Types, HubType, ReportsType, hub
<1>1. CASE DatesExpired
  <2> DEFINE rows == [r \in Report |-> IF r \in Expired THEN Row("purged", tables.report[r].until)
                                        ELSE tables.report[r]]
  <2>1. \A r \in Expired : r \in Report /\ tables.report[r] \in ReportRow /\ RowIs(r, "ready")
    BY DEF Expired, RowIs, Base
  <2>2. rows \in [Report -> ReportRow \cup {None}]
    BY <2>1, RowType DEF ReportRow, Base
  <2>3. tables'.report = rows
    BY <1>1, <2>2, RowSet DEF DatesExpired
  <2>4. /\ \A r \in Expired : RowIs(r, "purged")'
        /\ \A r \in Report \ Expired : tables'.report[r] = tables.report[r]
    <3>1. \A r \in Expired : Row("purged", tables.report[r].until) \in ReportRow
                               /\ Row("purged", tables.report[r].until).state = "purged"
      BY <2>1, RowType DEF ReportRow
    <3>2. \A r \in Expired : tables'.report[r] = Row("purged", tables.report[r].until)
      BY <2>1, <2>3
    <3>3. \A r \in Expired : RowIs(r, "purged")'
      BY <3>1, <3>2 DEF RowIs
    <3> QED BY <2>3, <3>3
  <2>5. \A r \in Report : RowIs(r, "preparing") \/ RowIs(r, "purged") => r \notin Expired
    BY <2>1 DEF RowIs
  <2>6. purging' = Expired /\ UNCHANGED <<line, worker, workbook>>
    BY <1>1 DEF DatesExpired
  <2> HIDE DEF rows
  <2>7. \A r \in Report : RowIs(r, "preparing") => RowIs(r, "preparing")'
    BY <2>4, <2>5 DEF RowIs
  <2>8. \A r \in Report : RowIs(r, "ready")' => RowIs(r, "ready")
    BY <2>4 DEF RowIs
  <2>9. /\ \A i \in 1..Len(line) : line[i] \in Report
        /\ worker # None => worker.report \in Report
    BY DEF Task
  <2>10. ReadyHasFile'
    BY <2>6, <2>8 DEF ReportsInv, LineIsPreparing, WaitsOnce, WorkerPrepares, PurgingIsDated, ReadyHasFile
  <2>11. PurgingIsDated'
    BY <2>4, <2>6 DEF PurgingIsDated, RowIs
  <2> QED BY <2>6, <2>7, <2>9, <2>10, <2>11 DEF ReportsInv, LineIsPreparing, WaitsOnce, WorkerPrepares, PurgingIsDated
<1>2. ASSUME NEW r \in Report, RemovesFile(r) PROVE ReportsInv'
  <2>1. /\ RowIs(r, "purged") /\ purging' \subseteq purging /\ UNCHANGED <<tables, line, worker>>
        /\ \A q \in Report \ {r} : workbook'[q] = workbook[q]
    BY <1>2 DEF RemovesFile, ReportsInv, PurgingIsDated
  <2>2. worker # None => worker.report \in Report \ {r}
    BY <2>1 DEF ReportsInv, LineIsPreparing, WaitsOnce, WorkerPrepares, PurgingIsDated, RowIs, Task
  <2> QED BY <2>1, <2>2 DEF ReportsInv, LineIsPreparing, WaitsOnce, WorkerPrepares, PurgingIsDated, RowIs, ReadyHasFile
<1> QED BY <1>1, <1>2

\* No report is ready to begin with.
LEMMA ReportsInitially == Init => ReportsInv
<1> SUFFICES ASSUME Init PROVE ReportsInv
  OBVIOUS
<1>1. line = <<>> /\ worker = None /\ purging = {}
  BY DEF Init, ReportsInit
<1>2. \A r \in Report : tables.report[r] = None
  BY DEF Init, EmptyTables
<1> QED BY <1>1, <1>2
  DEF ReportsInv, LineIsPreparing, WaitsOnce, WorkerPrepares, PurgingIsDated, ReadyHasFile, RowIs

\* A start closes what was in preparation; on the base of before, what is ready
\* keeps its file.
LEMMA RestartsReportsInv ==
  ASSUME Types, ReportsInv, Restarts
  PROVE  ReportsInv'
<1> USE BackupsAssumption DEF Restarts, ReportsRestart
<1>1. LineIsPreparing' /\ WaitsOnce' /\ WorkerPrepares' /\ PurgingIsDated'
  BY DEF LineIsPreparing, WaitsOnce, WorkerPrepares, PurgingIsDated
<1>2. ASSUME ~restored', NEW r \in Report, RowIs(r, "ready")' PROVE workbook'[r] = "whole"
  <2>1. ~restored /\ volume.base = Open
    BY <1>2 DEF BackupsRestart
  <2>2. tables'.report = Closed(tables.report)
    BY <2>1, RestartsTypes, StartSpec DEF Types
  <2>3. \A days \in Nat : Row("failed", days).state # "ready"
    BY DEF Row
  <2>4. RowIs(r, "ready")
    BY <1>2, <2>2, <2>3 DEF Closed, RowIs
  <2> QED BY <2>1, <2>4 DEF ReportsInv, ReadyHasFile
<1> QED BY <1>1, <1>2 DEF ReportsInv, ReadyHasFile

\* A step of the hub keeps the file of every report that is ready.
LEMMA ReportsInductive == Types /\ ReportsInv /\ [Next]_vars => ReportsInv'
<1> SUFFICES ASSUME Types, ReportsInv, [Next]_vars PROVE ReportsInv'
  OBVIOUS
<1> USE DEF Types
<1>1. CASE NotificationsStep /\ UNCHANGED <<reporting, backups, packages>>
  <2>1. tables'.report = tables.report
    BY <1>1, NotificationsBase
  <2> QED BY <1>1, <2>1, ReportsQuiet DEF backups, seals
<1>2. CASE ReportsStep /\ UNCHANGED <<alerting, backups, packages>>
  <2>1. restored' = restored
    BY <1>2 DEF backups, seals
  <2> QED BY <1>2, <2>1, RequestsInv, WorkerInv, NotesInv, PurgeInv DEF ReportsStep, Works
<1>3. CASE BackupsStep /\ UNCHANGED <<alerting, reporting, packages>>
  <2>1. tables' = tables
    BY <1>3, BackupsTypes
  <2>2. restored' = restored
    BY <1>3 DEF BackupsStep, Begins, OpensArchive, WritesArchive, FailsArchive, Prunes,
       BeginsRestore, MovesBase, MovesKey, PlacesBase, PlacesKey, FailsRestore, seals
  <2> QED BY <1>3, <2>1, <2>2, ReportsQuiet
<1>4. CASE PackagesStep /\ UNCHANGED <<alerting, reporting, backups>>
  BY <1>4, PackagesOnly, ReportsQuiet DEF HubType, backups, seals
<1>5. CASE Tick /\ UNCHANGED <<alerting, reporting, backups, packages>>
  BY <1>5, ReportsQuiet DEF Tick, backups, seals
<1>6. CASE Restarts
  BY <1>6, RestartsReportsInv
<1>7. CASE UNCHANGED vars
  BY <1>7, ReportsQuiet DEF vars, hub, backups, seals
<1> QED BY <1>1, <1>2, <1>3, <1>4, <1>5, <1>6, <1>7 DEF Next

\* A report announced has its file, whole, whatever the worker, the purge and
\* the restarts did (lancer_preparation, purge_report_files).
THEOREM ReadyReportsHaveFiles == Spec => []ReadyHasFile
<1>1. ReportsInv => ReadyHasFile
  BY DEF ReportsInv
<1> QED BY TypesInitially, ReportsInitially, TypesInductive, ReportsInductive, <1>1, PTL DEF Spec

-----------------------------------------------------------------------------
(* Alerts.                                                                 *)

\* What is known of p, when nobody switched its alerts on since, is what the
\* last look saw.
KnownIsSeen(p) ==
  EnabledIn(tables, p) /\ tables.known[p] # None => last[p].probe = tables.known[p]

\* So it is of its link, until the look under way has come to it.
LinkIsSeen(p) ==
  (EnabledIn(tables, p) \/ (pass # None /\ p \in pass.link)) /\ tables.linkKnown[p] # None
    => last[p].link = tables.linkKnown[p]

AlertsInv == (\A p \in Probe \ resumed : KnownIsSeen(p) /\ LinkIsSeen(p)) /\ NewsIsNew

\* What a look compares and remembers stays; alerts and looks are only dropped.
LEMMA AlertsQuiet ==
  ASSUME AlertsType, AlertsInv,
         tables'.site = tables.site, tables'.asked = tables.asked,
         tables'.known = tables.known, tables'.linkKnown = tables.linkKnown,
         last' = last, resumed \subseteq resumed',
         pass' # None => \/ pass'.link = {} /\ pass'.alerts = {}
                         \/ pass # None /\ pass'.link \subseteq pass.link /\ pass'.alerts \subseteq pass.alerts
  PROVE  AlertsInv'
<1>1. ASSUME NEW p \in Probe \ resumed' PROVE KnownIsSeen(p)' /\ LinkIsSeen(p)'
  <2>1. KnownIsSeen(p) /\ LinkIsSeen(p)
    BY DEF AlertsInv
  <2> QED BY <2>1 DEF KnownIsSeen, LinkIsSeen, EnabledIn
<1>2. NewsIsNew'
  BY DEF AlertsInv, NewsIsNew
<1> QED BY <1>1, <1>2 DEF AlertsInv

\* Who switches alerts on again where something is known may hear old news.
LEMMA SubscribesInv ==
  ASSUME HubType, AlertsType, AlertsInv, Subscribes
  PROVE  AlertsInv'
<1>1. UNCHANGED <<pass, last>> /\ resumed' = resumed \cup Resumes(tables')
      /\ tables'.known = tables.known /\ tables'.linkKnown = tables.linkKnown
  BY DEF Subscribes, HubType, Base
<1>2. ASSUME NEW p \in Probe \ resumed' PROVE KnownIsSeen(p)' /\ LinkIsSeen(p)'
  <2>1. KnownIsSeen(p) /\ LinkIsSeen(p) /\ p \notin Resumes(tables')
    BY <1>1 DEF AlertsInv
  <2>2. EnabledIn(tables', p) /\ ~EnabledIn(tables, p)
          => tables.known[p] = None /\ tables.linkKnown[p] = None
    BY <1>1, <2>1 DEF Resumes
  <2> QED BY <1>1, <2>1, <2>2 DEF KnownIsSeen, LinkIsSeen
<1>3. NewsIsNew'
  BY <1>1 DEF AlertsInv, NewsIsNew
<1> QED BY <1>2, <1>3 DEF AlertsInv

\* A look at the state of a probe notes what it saw, where alerts are asked for
\* (SeesState).
LEMMA SeesStateInv ==
  ASSUME HubType, AlertsType, AlertsInv, NEW p \in Probe, SeesState(p)
  PROVE  AlertsInv'
<1> DEFINE seen == Observed(p)
           looks == ~Skipped(p) /\ EnabledIn(tables, p)
           told == IF looks THEN Alerts(p, tables.known[p], seen, seen, last[p].probe) ELSE {}
<1> USE DEF HubType, AlertsType
<1>1. seen \in State /\ seen \in Kind
  BY DEF Observed, State, Kind
<1>2. /\ pass \in Pass /\ pass # None /\ pass.link = {} /\ pass' # None
      /\ pass'.alerts = pass.alerts \cup told /\ pass'.link \subseteq {p}
      /\ p \in pass'.link => EnabledIn(tables, p)
  <2>1. pass # None /\ pass.link = {} /\ pass' = [pass EXCEPT !.left = @ \ {p},
          !.link = IF looks /\ HasLink(p) THEN {p} ELSE {}, !.alerts = @ \cup told]
    BY DEF SeesState
  <2>2. pass \in Pass /\ told \subseteq Alert
    BY <1>1, <2>1, AlertsSpec
  <2>3. (IF looks /\ HasLink(p) THEN {p} ELSE {}) \in SUBSET {p}
    OBVIOUS
  <2> HIDE DEF told
  <2>4. pass' \in Pass
    BY <2>1, <2>2, <2>3 DEF Pass
  <2> QED BY <2>1, <2>2, <2>3, <2>4, PassAssumption DEF Pass
<1>3. \A a \in told : a.new \/ p \in resumed
  <2> SUFFICES ASSUME NEW a \in told, p \notin resumed PROVE a.new
    OBVIOUS
  <2>1. looks /\ tables.known[p] # None /\ tables.known[p] # seen /\ (last[p].probe # seen => a.new)
    BY <1>1, AlertsSpec
  <2>2. last[p].probe = tables.known[p]
    BY <2>1 DEF AlertsInv, KnownIsSeen
  <2> QED BY <2>1, <2>2
<1>4. \A a \in told : a.probe = p
  BY <1>1, AlertsSpec
<1> HIDE DEF told
<1>5. NewsIsNew'
  <2>1. resumed' = resumed
    BY DEF SeesState
  <2> QED BY <1>2, <1>3, <1>4, <2>1 DEF AlertsInv, NewsIsNew
<1>6. /\ resumed' = resumed /\ tables'.linkKnown = tables.linkKnown
      /\ tables'.asked = tables.asked /\ tables'.site = tables.site
      /\ IF looks THEN tables'.known = [tables.known EXCEPT ![p] = seen] ELSE tables'.known = tables.known
  BY DEF SeesState, Noted, Base
<1>7. ASSUME NEW q \in Probe \ resumed PROVE KnownIsSeen(q)' /\ LinkIsSeen(q)'
  <2>1. KnownIsSeen(q) /\ LinkIsSeen(q)
    BY <1>7 DEF AlertsInv
  <2>2. CASE q # p \/ Skipped(p)
    <3>1. last'[q] = last[q] /\ tables'.known[q] = tables.known[q]
      BY <1>6, <2>2 DEF SeesState, Base
    <3> QED BY <1>2, <1>6, <2>1, <2>2, <3>1 DEF KnownIsSeen, LinkIsSeen, EnabledIn
  <2>3. CASE q = p /\ ~Skipped(p)
    <3>1. last'[p].probe = seen /\ (looks => last'[p].link = last[p].link)
      BY <2>3 DEF SeesState
    <3>2. looks => tables'.known[p] = seen
      BY <1>6 DEF Base
    <3> QED BY <1>2, <1>6, <2>1, <2>3, <3>1, <3>2 DEF KnownIsSeen, LinkIsSeen, EnabledIn
  <2> QED BY <2>2, <2>3
<1> QED BY <1>5, <1>6, <1>7 DEF AlertsInv

\* So does the look at its link, which was asked for when the state was looked at.
LEMMA SeesLinkInv ==
  ASSUME HubType, AlertsType, AlertsInv, NEW p \in Probe, SeesLink(p)
  PROVE  AlertsInv'
<1> DEFINE seen == ObservedLink(p)
           told == Alerts(p, tables.linkKnown[p], seen, LinkKind(seen), last[p].link)
<1> USE DEF HubType, AlertsType
<1>1. seen \in State /\ LinkKind(seen) \in Kind
  BY DEF ObservedLink, LinkKind, State, Kind
<1>2. pass \in Pass /\ pass # None /\ p \in pass.link /\ pass'.alerts = pass.alerts \cup told
      /\ pass'.link = {} /\ pass' # None
  <2>1. pass # None /\ p \in pass.link /\ pass' = [pass EXCEPT !.link = {}, !.alerts = @ \cup told]
    BY DEF SeesLink
  <2>2. pass \in Pass /\ told \subseteq Alert
    BY <1>1, <2>1, AlertsSpec
  <2> HIDE DEF told
  <2>3. pass' \in Pass
    BY <2>1, <2>2 DEF Pass
  <2> QED BY <2>1, <2>2, <2>3, PassAssumption DEF Pass
<1>3. \A a \in told : a.probe = p /\ (a.new \/ p \in resumed)
  <2> SUFFICES ASSUME NEW a \in told PROVE a.probe = p /\ (p \notin resumed => a.new)
    OBVIOUS
  <2>1. a.probe = p /\ tables.linkKnown[p] # None /\ tables.linkKnown[p] # seen
        /\ (last[p].link # seen => a.new)
    BY <1>1, AlertsSpec
  <2>2. p \notin resumed => last[p].link = tables.linkKnown[p]
    BY <1>2, <2>1 DEF AlertsInv, LinkIsSeen
  <2> QED BY <2>1, <2>2
<1> HIDE DEF told
<1>4. resumed' = resumed /\ tables'.known = tables.known
      /\ tables'.asked = tables.asked /\ tables'.site = tables.site
      /\ tables'.linkKnown = [tables.linkKnown EXCEPT ![p] = seen]
      /\ last' = [last EXCEPT ![p].link = seen]
  BY DEF SeesLink, Noted, Base
<1>5. NewsIsNew'
  BY <1>2, <1>3, <1>4 DEF AlertsInv, NewsIsNew
<1>6. ASSUME NEW q \in Probe \ resumed PROVE KnownIsSeen(q)' /\ LinkIsSeen(q)'
  <2>1. KnownIsSeen(q) /\ LinkIsSeen(q)
    BY <1>6 DEF AlertsInv
  <2>2. last'[q].probe = last[q].probe
    BY <1>4
  <2>3. KnownIsSeen(q)'
    BY <1>4, <2>1, <2>2 DEF KnownIsSeen, EnabledIn
  <2>4. tables.linkKnown \in [Probe -> State]
    BY DEF Base
  <2> HIDE DEF seen
  <2>5. IF q = p THEN last'[q].link = seen /\ tables'.linkKnown[q] = seen
        ELSE last'[q] = last[q] /\ tables'.linkKnown[q] = tables.linkKnown[q]
    BY <1>4, <2>4
  <2>6. LinkIsSeen(q)'
    BY <1>2, <1>4, <2>1, <2>5 DEF LinkIsSeen, EnabledIn
  <2> QED BY <2>3, <2>6
<1> QED BY <1>4, <1>5, <1>6 DEF AlertsInv

\* A step of the notifications tells news alone.
LEMMA NotificationsStepInv ==
  ASSUME HubType, AlertsType, AlertsInv, NotificationsStep
  PROVE  AlertsInv'
<1> USE DEF HubType
<1>1. CASE BeginsPass
  <2>1. pass'.link = {} /\ pass'.alerts = {} /\ UNCHANGED <<tables, last, resumed>>
    BY <1>1 DEF BeginsPass
  <2> QED BY <2>1, AlertsQuiet
<1>2. CASE FailsPass
  BY <1>2, AlertsQuiet DEF FailsPass
<1>3. CASE Retains \/ Announces
  <2>1. pass \in Pass
    BY <1>3 DEF Retains, Announces, AlertsType
  <2>2. \A alerts \in SUBSET pass.alerts :
          /\ [pass EXCEPT !.alerts = alerts].link = pass.link
          /\ [pass EXCEPT !.alerts = alerts].alerts = alerts
          /\ [pass EXCEPT !.at = "send", !.alerts = alerts].link = pass.link
          /\ [pass EXCEPT !.at = "send", !.alerts = alerts].alerts = alerts
    BY <2>1 DEF Pass
  <2>3. pass' # None => pass'.link \subseteq pass.link /\ pass'.alerts \subseteq pass.alerts
    <3>1. CASE Retains
      BY <2>2, <3>1 DEF Retains
    <3>2. CASE Announces
      BY <2>2, <3>2 DEF Announces
    <3> QED BY <1>3, <3>1, <3>2
  <2>4. UNCHANGED <<tables, last, resumed>> /\ pass # None
    BY <1>3 DEF Retains, Announces, hub
  <2> QED BY <2>3, <2>4, AlertsQuiet
<1>4. CASE Subscribes
  BY <1>4, SubscribesInv
<1>5. ASSUME NEW p \in Probe,
             \/ \E link \in {"online", "offline", "unknown"} : Beats(p, link)
             \/ FallsSilent(p) \/ Revokes(p)
      PROVE  AlertsInv'
  <2>1. UNCHANGED alerting /\ tables'.site = tables.site /\ tables'.asked = tables.asked
        /\ tables'.known = tables.known /\ tables'.linkKnown = tables.linkKnown
    BY <1>5 DEF Beats, FallsSilent, Revokes, Base
  <2> QED BY <2>1, AlertsQuiet DEF alerting
<1>6. ASSUME NEW p \in Probe, SeesState(p) PROVE AlertsInv'
  BY <1>6, SeesStateInv
<1>7. ASSUME NEW p \in Probe, SeesLink(p) PROVE AlertsInv'
  BY <1>7, SeesLinkInv
<1>8. ASSUME NEW kinds \in Wanted, Chooses(kinds) PROVE AlertsInv'
  <2>1. UNCHANGED alerting /\ tables'.site = tables.site /\ tables'.asked = tables.asked
        /\ tables'.known = tables.known /\ tables'.linkKnown = tables.linkKnown
    BY <1>8 DEF Chooses, Base
  <2> QED BY <2>1, AlertsQuiet DEF alerting
<1> QED BY <1>1, <1>2, <1>3, <1>4, <1>5, <1>6, <1>7, <1>8 DEF NotificationsStep

\* No alert was sent to begin with.
LEMMA AlertsInitially == Init => AlertsInv
BY DEF Init, NotificationsInit, EmptyTables, AlertsInv, KnownIsSeen, LinkIsSeen, NewsIsNew

\* A start on the base of before forgets the pass; on another one, what is known
\* is of another time.
LEMMA RestartsAlertsInv ==
  ASSUME Types, AlertsInv, Restarts
  PROVE  AlertsInv'
<1> USE BackupsAssumption DEF Types
<1>1. CASE volume.base = Open
  <2>1. tables' = [tables EXCEPT !.report = Closed(tables.report)]
    BY <1>1, RestartsTypes, StartSpec
  <2>2. pass' = None /\ last' = last /\ resumed' = resumed
    BY <1>1 DEF Restarts
  <2>3. tables'.site = tables.site /\ tables'.asked = tables.asked
        /\ tables'.known = tables.known /\ tables'.linkKnown = tables.linkKnown
    BY <2>1 DEF HubType, Base
  <2> QED BY <2>2, <2>3, AlertsQuiet
<1>2. CASE volume.base # Open
  BY <1>2 DEF Restarts, AlertsInv, NewsIsNew
<1> QED BY <1>1, <1>2

\* A step of the hub tells news alone.
LEMMA AlertsInductive == Types /\ AlertsInv /\ [Next]_vars => AlertsInv'
<1> SUFFICES ASSUME Types, AlertsInv, [Next]_vars PROVE AlertsInv'
  OBVIOUS
<1> USE DEF Types, alerting
<1>1. CASE NotificationsStep
  BY <1>1, NotificationsStepInv
<1>2. CASE ReportsStep /\ UNCHANGED <<alerting, backups, packages>>
  BY <1>2, ReportsTypes, AlertsQuiet DEF ReportsOnly
<1>3. CASE BackupsStep /\ UNCHANGED <<alerting, reporting, packages>>
  BY <1>3, BackupsTypes, AlertsQuiet
<1>4. CASE PackagesStep /\ UNCHANGED <<alerting, reporting, backups>>
  BY <1>4, PackagesOnly, AlertsQuiet DEF HubType
<1>5. CASE Tick /\ UNCHANGED <<alerting, reporting, backups, packages>>
  BY <1>5, AlertsQuiet DEF Tick
<1>6. CASE Restarts
  BY <1>6, RestartsAlertsInv
<1>7. CASE UNCHANGED vars
  BY <1>7, AlertsQuiet DEF vars, hub
<1> QED BY <1>1, <1>2, <1>3, <1>4, <1>5, <1>6, <1>7 DEF Next

\* No alert tells again what a complete look had seen already, for every number
\* of probes, looks and changes of what is asked for (notify.rs).
THEOREM AlertsTellNews == Spec => []NewsIsNew
<1>1. AlertsInv => NewsIsNew
  BY DEF AlertsInv
<1> QED BY TypesInitially, AlertsInitially, TypesInductive, AlertsInductive, <1>1, PTL DEF Spec

\* The hub's base, archives, requests, alerts and packages are always what their
\* types say.
THEOREM HubTypeCorrect == Spec => [](Types /\ PackagesType)
<1>1. Init => PackagesInv
  BY PackagesInitially DEF Init
<1>2. PackagesInv => PackagesType
  BY DEF PackagesInv
<1> QED BY TypesInitially, TypesInductive, PackagesInductive, <1>1, <1>2, PTL DEF Spec

=============================================================================
