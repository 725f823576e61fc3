# LanProbe: a TLA+ model of the probe, the hub and what they share

LanProbe measures networks.  A **probe** (`crates/lanprobe-server`, embedded in
the desktop application `src-tauri` or run headless) pings targets, scans ports,
discovers hosts and runs speed tests.  A **hub** (`crates/lanprobe-web`) keeps
the fleet: accounts, sites, probes, the shared list of targets, commands, scans,
notifications, reports.  The hub never calls a probe: everything travels in the
probe's *heartbeat* and in the answer to it, so almost every hard behaviour is a
protocol over a channel that loses, delays and repeats, or a handler interrupted
between two locks.

## 1. Inventory

### Probe

| Part | State | Operations | What makes it correct |
|---|---|---|---|
| Gesture queue (`hub.rs`, `MonitorChangeQueue`) | gestures not acknowledged, each with its monotonic instant and whether it left; their copy in `app_config.json` | record, snapshot, outgoing, acknowledge, restore, persist | a gesture leaves only when the hub decided at least as recently; a crash loses none; an ack of an older gesture carries off no newer one |
| Heartbeat loop (`hub.rs`, `run`/`beat`/`apply`) | acks of commands, backoff, cadence, `PublicIpCache` | beat, apply, align monitors, align profiles, save configuration, look the public address up | follows the hub's list except against its own pending gestures; never acks a key it has not persisted; the address it announces is one of its own network |
| Monitoring loops (`monitor.rs`) | `ping_stop`, samples | start, stop, start/stop from the hub, one loop per target | what is shown as monitored is measured; a removed target leaves no samples |
| Commands (`commands.rs`) | none | execute | verdicts in order, acked with the next heartbeat |
| Configuration (`config.rs`) | JSON in memory and on disk | get, put | a section written does not undo another |
| Export (`export_buffer.rs`, `influxdb.rs`) | bounded buffer, its file, backoff | push, batch, confirm, persist, reload | nothing leaves before it is confirmed; bounds respected; what is dropped is counted |
| Searches and scans of ports (`scheduler.rs`, `state.rs`, `inventory.rs`, `src-tauri/src/lib.rs`) | `scan_cancel`, the stores of hosts and of ports | `discovery_once`, `cmd_scan_network`, `cmd_cancel_scan`, `portscan_with`, publish | one search at a time, the flag tells of it; what is published is what was seen |
| Port-scan profiles (`portscan_profiles.rs`) | local profiles, applied revision | merge an update, list what is owned | converges to the hub's shared set, never resurrects what was deleted |
| Enrolment and status (`hub.rs`) | `HubConfig`, `HubStatus` | enroll, forget, record success/failure | a detached probe stays detached |

### Hub

| Part | State | Operations | What makes it correct |
|---|---|---|---|
| Shared monitors (`db.rs`, `web.rs`) | `probe_monitors` | arbitrate a change, list, remove, revive | the most recent decision wins, nothing is decided by silence |
| Commands (`db.rs`) | `probe_commands` | enqueue, take pending, settle | delivered a bounded number of times, the first verdict stays |
| Heartbeat records (`web.rs`, `db.rs`) | last seen, `probe_public_ip_history`, `observed_source_ip` | record, note source, purge, read for a report | a second is charged to an address only between two heartbeats that said it |
| Write tokens (`db.rs`, `influx.rs`) | active, pending authorisation and version | stage, acknowledge, replace at once | an authorisation is destroyed only when nobody needs it; none is left behind |
| Shared profiles (`portscan.rs`) | profiles, tombstones, revision, revision applied by each probe | put, delete, ingest, since, prune | a probe that was away sees every deletion it missed |
| Accounts (`db.rs`, `web.rs`) | accounts, roles, `disabled_at`, the set-up token | set up, create, update, disable, rescue | an administrator who can sign in remains |
| Sessions and second factors (`totp.rs`, `passkeys.rs`, `auth.rs`) | sealed secrets, last step accepted, challenges in memory | log in, draw, confirm, drop, register, assert | a proof opens one session; nobody is locked out by a secret he never had |
| Sites, probes, enrolment (`db.rs`, `web.rs`) | sites, probes, codes, scopes | create, archive, move, merge, revoke, re-enrol, delete | a code is used once; a request stays in its scope; the probes of an archived site are archived |
| Pairing of devices (`pairing.rs`) | codes, devices, access tokens | issue, present, renew, revoke, archive | a code lets one telephone in; a revoked one is shut out at once |
| Reports (`reports.rs`, `report_xlsx.rs`) | requests, workbooks | ask, produce, download, purge | a report announced as ready has its file; a request ends |
| Notifications (`notify.rs`) | the states last announced | a pass over the probes | an alert is news |
| Backups (`backup.rs`) | archives, the base and the key in place | back up, prune, restore | a whole archive remains; the base in place opens with the key in place |
| Inventory (`db.rs`, `merged_ports_inventory`) | scans recorded | record, prune, merge by machine | of each machine the latest result is shown, and no port that closed since |
| Availability (`web.rs`, `lanprobe-core/src/sla.rs`, `web-ui/src/lib/uptime.ts`) | none, computed from the series | `compute_sla`, `compute_coverage`, `uptime_flux`, `unmeasuredLabel` | the card never announces more than the report |
| Packages (`packages.rs`) | installers by version | fetch, offer, purge | an installer offered is whole |
| Settings, series relay (`settings.rs`, `influx.rs`) | settings | store, relay | not modelled, section 7 |

### How they interact

* probe -> hub, with every heartbeat: gestures with their **age**, acks of
  commands, applied token version, applied profile revision, owned profiles,
  public address and state of the network;
* hub -> probe, in the answer: acks of gestures, the whole monitor list, pending
  commands, cadence, the staged token, the profile delta, the request to look
  the public address up again;
* probe -> hub, beside the heartbeat: batches of measures, inventories of hosts
  and of ports, neither of them sent again when it is lost (inventories) or sent
  again until confirmed (measures);
* window -> probe: direct calls that run on other threads than the heartbeat
  loop and share its queue, its configuration, `ping_stop` and `scan_cancel`;
* measurement loops -> event bus -> export buffer -> hub relay -> time series;
* every row of the hub's database is behind one lock that a handler takes for
  one statement or one transaction and releases before it awaits anything: two
  handlers interleave between any two of their database calls;
* loops of the hub (alerts, purge, backups) and its worker of reports share the
  base with the handlers, and a restoration replaces the base under all of them.

### Which behaviours are hard

* **Interleaving**: the window's threads, the heartbeat task and the measuring
  loops of one probe; the handlers of the hub cut at each release of the lock.
* **Delivery**: a heartbeat the probe gave up on may be handled later, after its
  retry or after an operator's decision; a publication comes after a newer one.
* **Crashes**: the probe keeps `app_config.json` and `buffer.ndjson` only; the hub
  its volume, and forgets challenges, set-up tokens and preparations.
* **Time**: ages cross from one clock to another; a tick lasts as long as its
  post; codes, tokens and steps of a second factor expire.
* **Read, await, write**: configuration sections, token versions, profiles,
  sites and administrators are read, then written after something else may have
  happened.
* **A base replaced under a running hub**: what was announced, prepared, archived
  or applied by probes belongs to another time.

`PROJECT.json` lists each hazard at its line, with the properties that look at
it or the reason none does.

## 2. Modules

| Module | Models | State and actions, against the code |
|---|---|---|
| `MonitorTables` | the two tables of the shared list, as pure operators | `Record`, `Snapshot`, `MarkSent`, `Acknowledge`, `Restore` are the methods of `MonitorChangeQueue`; `ChangeInstant`, `Wins`, `ApplyChange`, `Arbitrate`, `ListOf` the hub's arbitration; `Align` is `align_monitors` |
| `CommandTable` | `probe_commands`, as pure operators | `Enqueue`, `Pending`, `GiveUp`, `CountDelivery`, `Settle` |
| `MonitorSync` | **the core**: one probe and its hub sharing the list | composes the two above. `call` is what each thread of the probe is at, the window's and the task's: a gesture is recorded, the queue copied (`Copies`), the copy written (`Writes`, which may fail and is then only warned of), the loop started or stopped (`Acts`); following the hub's list looks at the queue (`Follows`), then acts. The hub's handler of a heartbeat is three actions (`HubArbitrates`, `HubLists`, `HubReplies`), one per release of the database; `BeatFails` moves a heartbeat to `late`, where the hub may still handle it |
| `MonitorHistory` | `MonitorSync` observed | remembers which targets somebody asked to stop, and which gestures were made while another call was at work on their target; restrains nothing |
| `MonitorSyncProofs` | proofs | of `MonitorSync` and `MonitorHistory`, from lemmas on what the operators of the tables return |
| `ProbeThreads` | `monitor.rs` and `align_monitors` taken apart | each thread is at a step of its call; `ping_stop` is `flag`; a loop looks, measures, rests |
| `ThreadsHistory` | `ProbeThreads` observed | remembers the targets purged while a loop awaited their measure |
| `ProbeTasksProofs`, `ProbeConfigProofs`, `ExportPipelineProofs`, `TokenRotationProofs`, `HubAccessProofs`, `FleetProofs`, `HubTasksProofs` | proofs | of the module each is named after, section 4; `ProbeTasksProofs` of what runs on the probe, threads and scans, `ProbeConfigProofs` of `SharedProfiles` too, `ExportPipelineProofs` of the public address too |
| `ProbeConfig` | `ConfigStore` and all who write it | a write is a copy read, then the file, then the memory (`WriteFile`, `WriteMemory`); the window's `cache` and its `events`; the heartbeat task's answer applied in two writes |
| `ExportPipeline` | a measure from the event bus to the hub | `bus`, `buffer`, `file` are the channel, `ExportBuffer` and `buffer.ndjson`; the task waits (`run`), sends (`run_with`) or awaits a post (`flush_once`) |
| `TokenRotation` | write keys and their replacement | `row` is the probe's line; each handler is at a step between two calls to the database or the authorisation service, and each of these calls may fail, with or without its effect |
| `SharedProfiles` | the port-scan profiles of a hub and its probes | `LeavesMark` is the threshold that could not be written after the tombstones went; `rev`, `purged`, `table`, `line` are the hub's settings and tables; an operator's change and a heartbeat are at a step between two locks; `held` and `applied` are a probe's |
| `OneUse` | **abstract**: what a short code promises | a code is issued, lapses, is presented once, and lets one bearer in at most |
| `Accounts` | roles, disabled accounts, the first account, the rescue command | a request reads the row, counts the administrators and writes the row in three steps |
| `Logins` | passwords with a second factor, passkeys, the setting up and dropping of a factor | `factor` is the columns of the second factor, `challenge` and `inscribing` the maps in memory; `GoesUnheeded` is a write whose failure the code ignores |
| `Devices` | telephones: codes, rows, tokens, revocation, archiving | `code` and `device` are the tables, `phone` what each telephone holds; implements `OneUse` |
| `HubAccess` | composes `Accounts`, `Logins` and `Devices` | all over the same accounts, with restarts |
| `Fleet` | sites, probes, enrolment codes, scopes | each handler of `web.rs` from its look at the scope to its last write; implements `OneUse` |
| `HubBase` | the base the background work shares | `tables`, whether its file was moved (`stale`), the clock |
| `Notifications` | a pass of `notify.rs` | `pass` is the rows found, what is left to look at, the alerts gathered |
| `Reports` | `reports.rs` | the worker's steps, the purge in two (`DatesExpired`, `RemovesFile`) |
| `Backups` | `backup.rs` | a backup in four steps, a restoration file by file; `beside` is the bases and keys moved aside; a move aside may fail unseen, and a placement fail and end the restoration (`FailsRestore`) |
| `Packages` | `packages.rs` | `cache` is the directories of the volume, with the part a fetch writes and the file it becomes; a fetch is at a step between two awaits, and its caller may leave |
| `HubTasks` | composes the four above | over one base, which a restoration replaces; one stop for all |
| `ScanBase` | what the scans share | which program it is, who asks for a scan, the clock |
| `Discovery` | `discovery_once`, `cmd_scan_network`, `cmd_cancel_scan` | `guard` is `scan_cancel`, `hosts` the store all searches share |
| `PortInventory` | scans of ports, their publication and what the hub shows | `entries` is the probe's store, `records` the hub's scans, `Shown` is `merged_ports_inventory` |
| `ProbeScans` | composes the two | they stop together |
| `AddressHistory` | the public address, from its lookup to a report | `cache` is `PublicIpCache`, `history` the rows of `probe_public_ip_history`, `lastId` its AUTOINCREMENT, `Before` the ORDER BY of its queries, `AddressAt` is `by_public_ip` |
| `Availability` | a target's rate and gaps, twice | `ReportRate`, `ReportGap` are `compute_sla`, `compute_coverage`; `Uptime` is what the series computes, `CardGap` `unmeasuredLabel` |
| `ClientFigures` | composes the two | a behaviour is about the one or the other |
| `MC*` | instances for TLC | `TokenRotation` and `ThreadsHistory` need none |

`MonitorSync` cuts the probe's calls between the queue, the file and the loops;
what is one step there is taken apart elsewhere: starting a loop and stopping one
in `ProbeThreads`, the file shared with the other sections of the configuration
in `ProbeConfig`, which also cuts the saving of the key that `TokenRotation`
takes to be saved when it is applied.  `Fleet` leaves the keys of the series to
`TokenRotation`, and both cut an enrolment where it awaits.

A variable said to be *for the properties* records what happened and restrains
no step.  An operator commented `A slip` is a wrong variant of the one below it,
used to make sure that some property notices; it is part of no specification.

## 3. What is checked

Each run is one `.cfg`.  Times are for two workers.

| Run | Module | States | What it shows |
|---|---|---|---|
| `sync` | `MCMonitorHistory` | 0.9 M, 2 min | one target, a window and the task, acts of people, one command, faults: no gesture is lost or gone against while it waits, no silence decides, and both sides agree in the end |
| `threads` | `ThreadsHistory` | 50 k | what is monitored is measured, what is stopped falls silent, purges hold off the races |
| `config` | `MCProbeConfig` | 3.6 M, 1 min | all writers, four acts: nothing is undone and the key announced is on disk, as long as no put overlaps another |
| `export` | `MCExportPipeline` | 0.44 M, 40 s | nothing lost silently, persisted in time, delivered in the end |
| `tokens` | `TokenRotation` | 0.7 M, 1.5 min | no probe cut, no key forgotten but by a failure, the key made active is held, a rotation ends |
| `profiles` | `MCSharedProfiles` | 3.2 M, 2.5 min | a probe told nothing is up to date, only what was learnt is pruned, nothing deleted returns |
| `access` | `MCHubAccess` | 1.1 M, 2 min | an administrator remains, a proof opens one session, nobody is locked out, a code lets one telephone in, a revoked one is shut out |
| `fleet` | `MCFleet` | 1.5 M, 2.5 min | probes follow their site into the archive but those put there since, sessions' requests stay in the scope they came with, a code enrols one machine |
| `hub` | `MCHubTasks` | 1.5 M, 3 min | alerts are news, ready reports have their file, requests end if the queries of the worker return, an archive remains, each base on the volume has its key there, installers offered are whole |
| `scans` | `MCProbeScans` | 2 M, 1.5 min | the flag tells the search, what is published is what was seen, the hub shows the latest of each machine |
| `figures` | `MCClientFigures` | 1.4 M, 1 min | seconds go to the address that was there, the address announced is fresh, the card says less than the report |
| `search_held` | `MCProbeScans` | *violated* | a search given up leaves the flag busy |

**Refinement.**  `CodeLetsOneIn` is the specification of `OneUse` with the codes
and bearers of `Devices` (a row of `paired_devices` per telephone) and of `Fleet`
(a machine whose probe was written).  A code leaves `open` when it expires, is
used or is refused for a reason that spends it; every step of either module is a
step of `OneUse` or leaves it as it was.

**Bounds.**  One target is enough for the list: rows, gestures and alignment of
different targets do not read each other, and the partial write of a heartbeat
appears with one target written or not, while the theorems hold of any number.
In `sync` TLC starts from three budgets (`MCBudgets`): a decision and two
faults, so that a heartbeat is late and the application crashes or a write
fails; two decisions within a second and a fault, where one overtakes the other
and a window's thread meets the task's; two decisions up to two seconds apart,
where `MaxAge = 1` makes the first too old.  Four calls on
one target give `ProbeThreads` a double start and an answer of the hub across
it, three loops one more than a race leaves.  Four acts in `ProbeConfig` are the
longest departure found (a gesture, a write that overlaps it, a restart) plus
one.  The export's bus holds two events so that it overflows during a single
post, its buffer two points so that both bounds bite, and the backoff has three
values.  Three requests and two heartbeats let a rotation cross another one and
a heartbeat cross both.  Two probes and three revisions let one probe be away
while the other teaches a tombstone.  Two requests at once are what crosses: a
third finds what the first two left, and comes after them within `MaxActs`.  Two
fetches of packages, six events and one version kept let fetches of one version
or of two cross each other, a purge, a stop and a full disk.  Two slots of
search are what two callers of `scan_cancel` need.  Two networks and two
addresses, five heartbeats, a time to live of three and a floor of two let an
address be left, renewed, and found again within and beyond both delays.
Stretches of one, five and twelve rounds, at one and at six seconds, with
sleeps of fourteen and thirty, put the median on either side of the mean and
gaps on either side of both thresholds.

*Mixes.*  Where several parts work beside one another, the events that may happen
are counted by part and TLC starts from several counts (`MCMixes`), most
giving one part room and the last ones a little to several: `MCExportPipeline`
(faults of the way and the disk; changes of attachment and of interface, with
stops or with lost answers), `MCHubTasks` (alerts; reports; backups; packages;
alerts and reports with backups), `MCProbeScans` (searches; scans of ports with
purges or with the window's clearing). `HubAccess` and `ClientFigures` choose at
the start what comes in (`comes`) or what the figures are about (`about`), since
the two parts meet in the accounts only, or nowhere.  In `profiles`, executions
are not followed beyond the first disturbance, of which its properties say
nothing.  Accounts of `access` start with a passkey or with a second factor on
some account, not both.  Symmetry is used where values of a set do not differ and
no liveness is checked.

**Fairness.**  `MonitorSync`: the probe's threads (`Copies`, `Writes`, `Acts`,
`Follows`), its heartbeat loop, the hub's handlers and the supervisor that
restarts the application keep running (`WF`); nobody owes a decision, a fault or a
tick.  `ProbeThreads`: the runtime schedules every thread and loop.
`ExportPipeline`: the task runs and time passes, a post ends (its timeout), and
one that is tried again and again is answered in the end (`SF`): without it there
is no delivery to speak of.  `TokenRotation`: handlers end and the probe goes on
beating.  `HubTasks`: the worker of reports goes on by itself (`WF`), but for the
figures it gathers: the client of the series sets no deadline
(`influx.rs:124-127`, `:431-440`), so `RequestsEnd` is about the executions in
which the worker is not for ever at its queries (`Answered`).  The other modules
state none, and have no liveness property.

**Premises of some properties.**  The code leaves races that no lock prevents.
Rather than weaken a property to nothing, the models record when one occurred,
and the property speaks of the executions without it.  None of these is enforced
by the code; section 5 says what happens without.

| Module | Recorded | Meaning |
|---|---|---|
| `ProbeConfig` | `disorder` | a put overlapped another, replaced more than its writer had read, was cut or failed unnoticed |
| `MonitorHistory` | `loose` | targets whose last gesture was recorded while another call was at work on them, or is a start read back from the file, which a restart does not carry out |
| `ThreadsHistory` | `tangled` | targets whose last purge came while a loop awaited their measure; calls that overlap are not excluded |
| `ExportPipeline` | `deaf`, `waited` | the bus forgot a change, or a waiting task dropped a choice of interface; the task was started without a client |
| `TokenRotation` | `strays` | keys a failure left accepted: destroying them failed, or the request that made them failed before it could note them (`influx.rs:344-350`, `web.rs:2831-2834`, `:4449-4461`) |
| `TokenRotation` | `disorder` | a rotation staged over one that waits, a handler that writes over a row changed since it read it, a heartbeat that goes on with a token replaced since it was let in |
| `SharedProfiles` | `disturbed`, `astray` | an answer crossed a change; a revision was taken that a probe or a message has already, by changes that cross or after a restoration; a purge was cut, or saved, between the tombstones and the threshold, or could not write the threshold; a list was edited behind the hub's back; and a profile carried by a message, or by a probe not counted, while its tombstone was pruned |
| `Accounts` | `crossed` | two changes of accounts were under way together |
| `Fleet` | `strayed` | probes put into a site once it is archived, or brought back while they were moved into one; requests that cross are not excluded |
| `Fleet` | `outside` | how what is out of scope was written: by an enrolment by name, which looks at no scope, on a probe moved since the request was let in, or otherwise, which `WithinScope` denies |
| `Logins` | `mixed`, `halved` | two requests met on the second factor of one account; the hub stopped between the two writes of a drop, or ignored a failed one (`web.rs:671`, `:811`, `:857`) |
| `Notifications` | `resumed` | probes whose alerts were switched on again, or restored |
| `Reports` | `slipped` | a failure that could not be noted |
| `Backups` | `crossed`, `overwritten`, `restored` | for `OneArchiveRemains`: two backups or restorations overlapped, or one began on a moved base; for `SecretsCanBeOpened`, which speaks of crossings, stops and failures alike: a key was placed over one that could not be moved aside (`backup.rs:950`, `:965`); for `ReadyHasFile`: the hub has started on a restored base |
| `Packages` | `met` | two fetches of one version were under way together |
| `Discovery` | `cancelled`, `abandoned` | a running search was cancelled; one gave up for want of an address |
| `PortInventory` | `blank`, `slow` | a machine published while its first scan was under way; a publication read in one second and dated in the next |
| `Availability` | `Plain` | every point has a verdict and a second of its own |

## 4. What is proved

With TLAPS, for every value of the constants (any number of targets, probes,
accounts, codes, requests under way, keys, faults and acts; any capacities,
periods and delays), from the assumptions named beside the constants: model values
such as `None` are no records, slots and bounds are numbers, `MaxDeliveries > 0`,
a post lasts a second at least (`Timeout`, ten in the code), a new base has a
profile (`Seeded`), and the floor between two lookups of the public address is
within its time to live (`Floor <= Ttl`: five minutes and six hours in the code).
TLC evaluates them all.  Each module of proofs ends with its theorems, and before
it proves its inductive invariant, TLC has checked that invariant on the instance
of the run.

| Module | Inductive invariant | Theorems (property of a run) |
|---|---|---|
| `MonitorSyncProofs` | `IInv`; `HistoryInv`, `GestureInv` | `NextInvariant`, `Invariance`, `TypeCorrect`, `NoGestureIsLost` (`GestureLeavesOnlyArbitrated`), `SilenceIsNoDecision` (`SilenceStopsNothing`), `PendingGesturePrevails` (`PendingGestureHolds`) |
| `ProbeTasksProofs` | `Inv`, `SilentInv`; `ScansInv` = `SearchInv`, `PortsInv` | `ThreadsTypeCorrect`, `MonitoredIsMeasured` (`RunningMeansMeasured`), `PurgedForGood` (`PurgedStaysPurged`); `ScansTypeCorrect`, `OneSearchAtATime` (`GuardTellsTheSearch`), `InventoryIsTrue` (`ShowsWhatWasFound`), `InventoryNeverGoesBack` (`InventoryOnlyGetsNewer`) |
| `ProbeConfigProofs` | `ConfigInv`; `ProfilesInv` = `Always`, and `Orderliness` unless disturbed | `ConfigTypeCorrect`, `WordIsOnDisk` (`AnnouncedKeyIsOnDisk`); `ProfilesTypeCorrect`, `UpToDateIsEnough` (`OrderlyUpToDate`), `PruningIsLearnt` (`PrunedIsLearnt`), `DeletedNeverComesBack` (`NoResurrection`) |
| `ExportPipelineProofs` | `ExportInv`; `FreshInv`, `RunsInv` | `ExportTypeCorrect`, `NoMeasureIsLostSilently` (`NothingLostSilently`), `PointsReachTheDisk` (`PersistedInTime`); `FiguresTypeCorrect`, `AnnouncedIsFresh` (`BelievedIsFresh`), `AttributionIsTrue` (`AttributedWhereItWas`) |
| `TokenRotationProofs` | `TokenInv` | `TokensTypeCorrect`, `RotationNeverCuts` (`KeyWorks`), `NoKeyIsForgotten` (`EveryKeyIsNoted`), `PromotedKeyIsHeld` (`OrderlyPromotedIsHeld`) |
| `HubAccessProofs` | `HubInv` = `AccountsInv`, `PhonesInv`, `PersonsInv` | `AccessTypeCorrect`, `ProofOpensOneSession` (`OneSessionPerProof`), `RevocationIsPrompt` (`RevokedIsShutOut`), `PairingCodeLetsOneIn` (`CodeLetsOneIn`) |
| `FleetProofs` | `FleetInv` | `FleetTypeCorrect`, `NothingDangles`, `ProbesFollowTheirSite` (`ProbesFollow`), `ScopeIsKept` (`WithinScope`), `EnrolmentCodeLetsOneIn` (`CodeLetsOneIn`) |
| `HubTasksProofs` | `Types`, and one per part: `PackagesInv`, `BackupsInv`, `KeysInv`, `ReportsInv`, `AlertsInv` | `HubTypeCorrect`, `AlertsTellNews` (`NewsIsNew`), `ReadyReportsHaveFiles` (`ReadyHasFile`), `AnArchiveRemains` (`OneArchiveRemains`), `SecretsStayOpenable` (`SecretsCanBeOpened`), `InstallersAreWhole` (`OfferedIsWhole`) |

A theorem claims no more than its property: what section 3 lists as a premise is
part of it.  `RunningMeansMeasured`, `NothingLostSilently`, `RevokedIsShutOut`,
`CodeLetsOneIn`, `GestureLeavesOnlyArbitrated` and `SilenceStopsNothing` have
none.  Two properties whose premise leaves out the very races they are about,
`OrderlyAdminRemains` and `NobodyLockedOut`, and `NoSectionUndone`, which says
nothing of puts that overlap, are model-checked and no theorem states them.

**The shared list.**  A gesture leaves the queue on an acknowledgement, and what
the theorem claims is about the hub's row.  Between the two there is a heartbeat,
so the invariant follows the gesture along it: a gesture marked as sent is in the
heartbeat awaited, with an age that will not date it before it was made
(`SentGestureIsCarried`); once arbitrated and acknowledged, the hub's row is at
least as recent (`AckedGestureIsDecided`), which later arbitrations keep because a
decision is replaced only by a more recent one.  A gesture recorded meanwhile is
not marked as sent, so neither speaks of it.  This needs gestures not dated in the
future, in the queue, in a copy under way or in the file (`GesturesInThePast`),
and a stopped application to await nothing (`DownIsEmpty`).  One lemma per action
shows that the action keeps the invariant; the first lemmas of the module say what
each operator of the tables returns, and the action proofs use nothing else of
them.

Silence is no decision for a reason apart: a target nobody removed has no row,
message, copy of the queue or command that says to stop it, and no call about to
stop it (`NeverStopped`), so no answer, late or lost, can.

A gesture that waits prevails by what the calls at work on its target are about
to do: unless it is loose, none of them does the contrary of what it asks, and
once they have returned it is done (`Agreed`).  The hub's list starts no such call
while the gesture waits; one it started before makes the gesture loose.

**Threads.**  `RunningMeansMeasured` is inductive with the types alone: only
`Inserts` raises a flag, and the thread that did is at `spawn` until the loop
exists; a loop ends only on a flag that is not raised.  For `PurgedStaysPurged`
the invariant (`PurgeHolds`) says where a stopped target can still have samples
from: a call is about to purge it, or its last purge was tangled.  The proof
showed that calls that overlap need no premise: whoever lowers the flag last goes
on to purge.

**Configuration.**  Each put changes one section of what its writer read
(`ChangesItsSection`), so a put that is alone and replaces what was read keeps the
other sections of the file (the lemma `PutsInOrderKeepSections`); the memory is
the file but for the moment between two halves (`MemoryIsFile`).  The queue moves
on while a put of it waits: the invariant says which gestures such a put holds
already (`GesturesKept`).  The attachment: an answer on its way names a key the
file holds, or the probe is detached (`AttachmentKept`), because an enrolment and
a heartbeat exclude each other (`EnrolmentApart`).

**Profiles.**  What crosses or not, a change under way has read its revision,
an identifier not drawn yet is nowhere, and a probe awaits one answer (`Always`).
Undisturbed, five facts hold together and none alone.  No change under way takes a
revision that a probe, a message or the backup has already; whoever is ahead of a
hub that was restored is ahead of all it knows (`NothingReused`, `BackupIsOlder`).
So a revision names one state of the table.  The hub never notes for a probe more
than it applied, and prunes below the least it noted (`RevisionsInOrder`).  A
list holds what the table said at its revision, and would again after any answer
on its way, whether a difference or the whole (`ListsAreSound`): this is where the
threshold is needed, a probe below it being sent everything.  A profile deleted
is a tombstone, or gone and carried by nobody (`DeletedIsGone`).  Looking for this
invariant, TLC and the proof found the premise of the model too weak, twice; both
are in section 5.

**Scans.**  One flag for idle and for stop is sound while nobody cancels: the
searches under way are one at most, and it is the one that took the flag
(`OneSearch`), so what it stores is its own (`StoreIsItsOwn`).  What the hub shows
of a machine is the latest publication that speaks of it.  It was found
(`WasFound`), it never goes back since a later publication of a machine knows
a scan at least as late as an earlier one did (`LaterKnowsMore`); rows have
identities of their own, so that the order they are read in is total (`RowsApart`).

**Public address.**  An address is as young as the lookup that gave it: the
answer comes after the request, through the network asked or not at all
(`CanAsk`), and what a failed lookup keeps is of the same network; a heartbeat
that goes by the cache was asked for within the time to live, or within the floor,
which is shorter (`FreshInv`).  For the attribution, every row is a run of
consecutive heartbeats of one address (`RowsAreRuns`), the runs follow one another
in the order of the rows (`InOrder`), so the row the queries read as the newest is
the one opened last; and a row changes only with the address or after the
retention (`RowsOpen`).  What the cap removes has `MaxIntervals` rows after it,
each of which some later heartbeat opened: they are as many (`RowsAfter`), so a
heartbeat with fewer openings after it keeps its row (`Remembers`).

**Export.**  Each step moves measures between the bus, the buffer, the hub and the
counts, so `NothingLostSilently` is inductive with the types; the lemmas say which
points a bounded buffer drops, and that it counts them.  `PersistedInTime` needs
the time a point may have waited: it is bounded by the ticks since the last write,
each as long as a post at most, and the seconds since (`Filing`).

**Write keys.**  While rotations come one at a time, a key has one version and a
version one key (`KeysApart`); the probe and the one answer it awaits are never
ahead of what is staged (`ProbeHolds`, `BeatHolds`); and a request under way
knows the row it will write over (`JobHolds`).  So what a heartbeat destroys is
a key the probe has left, and what it promotes is the key the probe holds.

**Accounts, logins, telephones.**  The three kinds of requests keep to steps of
their own, so each part of `HubInv` is kept by its steps and left alone by the
others.  Accounts: with one change at a time, the row and the count of
administrators a request read are those there are.  Logins: unless a write was
ignored or a drop halved, the codes that opened a session, or are about to, are
not later than the last step accepted (`PresentedArePast`), until the secret goes.
Telephones: a token is served only after its row was read, and what a code let in
is one row, written once.

**Fleet.**  What refers to a site or a probe refers to one that is there,
whatever requests cross (`NothingDangles`).  A request keeps the scope it came
with, and the sites it looked at are in it (`SiteInScope`, `TargetInScope`,
`FromInScope`), so that what it writes is, unless the probe's row was changed by
another one meanwhile.  Nobody marks a probe of an archived site as active but
those recorded in `strayed`.  A request let in by a code is the only one that has
it, and the code has let nobody in so far (`BearersApart`).

**Background work.**  Of backups: the newest whole archive is outside what
retention removes.  Each base on the volume, in place or beside, each copy under
way and each whole archive has its key on the volume, or in the archive itself
(`KeysKept`): a restoration moves a key aside before it places another, so what
fails or stops between two moves separates a base from its key without losing
either.  Of alerts: what a pass saw of a probe is what the hub remembers of it,
unless its alerts were switched on again (`AlertsInv`).  Of packages: with one
fetch of a version at a time, what lies in its directory is what the fetch has
come to.  Of reports: the worker's line is the requests that are preparing, each
once, and a purge is of dated requests only.

**Refinement.**  `Devices!CodeLetsOneIn` and `Fleet!CodeLetsOneIn` are the
specification of `OneUse` under the mapping; the theorems show that the initial
states are initial states of `OneUse`, and each step one of its steps or none.

**Only model-checked.**  Out of the prover's reach: liveness (`EventuallyAgree`,
`StoppedFallsSilent`, `EventuallyDelivered`, `KeySettles`, `RequestsEnd`), which
rests on fairness and `ENABLED`; induction over data; `RECURSIVE` operators,
which no module uses.  `CardSaysLess` and the median in it are sums over the
points of a series, and belong there.  `BusyMeansSearching` is what `search_held`
refutes.  `OrderlyAdminRemains`, `NobodyLockedOut` and `NoSectionUndone` are left
to TLC for the reason above.  Every other property of the runs, 30 of 40, is
stated by a theorem.

## 5. Where the code departs from what it says

One run is a counterexample to a sentence of the code: **a search held**
(`search_held`, `scheduler.rs:481`).  A search that finds its interface without
an address returns without giving the flag back, and every later search is
skipped as if one ran, while the hub's orders are acknowledged as done.  The
desktop's cancel button repairs it; a headless probe must be restarted.

The others are in the models, outside the premises of section 3, unless said
otherwise.

*Shared list.*
* The time a heartbeat spends on its way is added to the date of its gestures
  (`web.rs:2891`, against `hub.rs:421`): a newer gesture delivered faster loses.
* An add command queued before a removal and executed after it brings the target
  back, dated at its execution (`commands.rs:122`); two gestures within a second
  on one target: the second is ignored and acknowledged (`db.rs:3591`); a
  command whose acknowledgement is lost is executed again (`db.rs:3708`).
* "Un geste non accuse l'emporte" is looked at, then acted upon
  (`hub.rs:556-572`): a gesture recorded between the two is gone against until
  the next list that is followed, which is what `loose` records.
* A write of the queue that fails is only warned of (`hub.rs:511`), and a crash
  then loses the gesture for good.  Ages are brought up to date when the queue is
  written only, after a gesture or an acknowledgement (`hub.rs:452-459`); a copy
  read before an acknowledgement and written after it revives at the next start
  a gesture the hub has already answered.

*Threads of the probe.*
* Stop then start within a round leave two loops on one address: the guard of
  `start_from_hub` looks at the flag, not at the loop, which sees the flag once
  per round (`monitor.rs:83`, against `:76`).
* A measure awaited during a purge lands after it (`monitor.rs:153`).

*Configuration.*
* The queue is persisted without telling the window, which puts its whole copy
  back and erases the gesture (`hub.rs:511`, against the contract, line 2358).
* A write from an older copy brings back a gesture already acknowledged
  (`hub.rs:548`), the previous write key (`hub.rs:496`), a choice of interface
  (`lib.rs:190`) or the restored configuration (`hub.rs:1095`); an answer in
  flight attaches again a probe just detached (`hub.rs:1555`); a stop during
  `fs::write` loses the whole file (`config.rs:112`).

*Export.*
* While the task waits for its first client it has no tick: nothing is written
  to disk, a choice of interface is ignored, no depth is reported
  (`influxdb.rs:440-478`); a stop then loses the morning that "un enrolement
  tardif ne perd pas".
* It keeps posting by its previous client when detached or on an interface
  without address (`:379`); a change lost in an overflow of the bus is not heard
  of (`:396`); a period of persistence counted in ticks stretches with slow posts
  (`:320`); a clean stop does not write the buffer, since the task holds a sender
  of its own bus (`:390`); a measure is dated when it is read, up to a post later
  (`:123`).  Delivery needs a backoff longer than the timeout of a post.
* Not modelled: a point sent again after a move to another site has two series
  (`web.rs:3013`).

*Write keys.*
* Two rotations before the probe has spoken share a version; its word for the
  first promotes the second (`db.rs:3099`, against `web.rs:3163`), which also
  happens when one is staged between the two locks of
  `acknowledge_token_version` (`db.rs:3119`).
* A heartbeat let in before a new enrolment and handled after it destroys the
  key just given (`web.rs:3102`, `:3165`).
* A key is made before it is noted: an answer of the authorisation service that
  is lost or unreadable (`influx.rs:344-350`), or a row that cannot be written
  (`web.rs:2831-2834`, `:4449-4461`), leaves a key that is accepted and that
  nothing in the hub names.  So does a destruction that fails, which is only
  warned of.  `EveryKeyIsNoted` counts them apart (`strays`).

*Profiles.*
* A list edited at the probe is never written over (`portscan_profiles.rs:47`);
  a heartbeat answered between a revision and its row misses that row for good;
  two operators can take one revision or move it back; a restored hub gives the
  same numbers again (`db.rs:1720`), and until its revision passes the one a probe
  announced, that probe is noted as knowing tombstones it never heard of, which
  are then pruned under it; a clash of names at ingestion takes a new
  revision at every heartbeat; a deposit can bring back a profile whose tombstone
  is pruned.  `refresh_seeded_portscan_profiles` is not modelled.
* "Le seuil monte avec le nettoyage" (`portscan.rs:774`), but after it and under
  another lock: a hub stopped between the two, or a backup taken there and
  restored, has lost the tombstones without raising the threshold.  A probe that
  had been silent for 90 days then gets a difference, announces the hub's
  revision and keeps the deleted profile for good.  A threshold that cannot be
  written (`portscan.rs:771-780`) has the same effect, and is only warned of
  (`web.rs:3336`).
* Not modelled: at a heartbeat, a revision, an ingestion or a deletion that fails
  is skipped, and tried again at a later one.

*Accounts and logins.*
* Two first set-ups with different names both succeed, and two administrators
  who demote each other leave none (`db.rs:2190`, `:2283`); a promotion that
  crosses a disabling uses the role read before; an update is applied part by
  part.
* The rescue command changes the password, then enables the account and ignores
  a failure of it (`main.rs:459`): the password is new and the account unusable.
* The step of a code is written with `let _ =` (`web.rs:671`), and so are the
  confirmed step (`:811`) and the forgetting of a dropped secret (`:857`): when
  one of them fails, the same code opens a second session.  Not modelled: reads of
  the second factor that fail and are taken for none (`:628`, `:666`, `:745`).
* Confirming a factor does not check that one is already on, and one drawn while
  another is confirmed enables a secret nobody proved.  A drop the hub is stopped
  in leaves the secret without its last step: confirmed again, it opens a second
  session with a code already used (against `web.rs:854`), which the proof found.

*Fleet.*
* Archiving a site and bringing it back loses the flags of the probes archived
  one by one; a probe moved or enrolled into an archived site stays active
  (against `db.rs:2735`); `update_probe` reads, then writes all, and takes a move
  made meanwhile back; deleting the only site of a restricted account gives it
  every site; a code of repair issued before a revocation still repairs after it;
  a clash over the default name spends the code; probes archived still raise
  alerts.
* A restricted operator is not to put a probe with another client
  (`web.rs:2566-2568`): a request for a code is checked so, but an enrolment with
  an operator's name and password is not (`web.rs:2791-2818`), nor is the creation
  of a site: the restricted operator enrols into any site.  A probe moved after a
  request was let in is written by it where it is now; `create_reenroll_code`
  reads the probe, then writes a code for the site it was in (`web.rs:2601`,
  `db.rs:1811-1816`).
* `db.rs:611` says that nothing deletes a site, and `delete_site` does.

*Background work of the hub.*
* Switching a kind of alert on again announces an old outage
  (`notify.rs:167-169`); an error or a stop after the state is noted loses the
  alert; a message that fails is not tried again.
* `set_report_failed` may fail, which leaves the row preparing until a restart; a
  restored base may announce a purged file; whether a probe is of the site is
  looked at when the report is asked for only.
* A request is to end (`reports.rs:361`), but the client of the series sets no
  deadline (`influx.rs:124-127`, `:431-440`): a query that is never answered
  (`reports.rs:621-628`) holds the only worker (`:566-575`), and every request
  behind it, until the hub starts again.
* A stop in the middle of a backup leaves half an archive under a valid name
  (`backup.rs:421`, against `:330-332`), which counts for `is_due`; one that runs
  beside a restoration pairs an old base with the new key, or is torn and
  reported as a success; two that overlap may prune every whole archive.  A
  restoration ignores the errors of its moves aside (`:963`, "Rien n'est
  supprime") and returns on those of its placements (`:1019-1022`).  Stopped or
  failed half way, it leaves a base whose key is not in place, but under
  `.restauration-` or aside; a key that could not be moved aside is overwritten
  (`:965`), and what it had sealed is lost.  Until the hub is started again it
  refuses every write.  Not modelled: two backups in
  one second, two restorations at once, the archive uploaded being removed by
  `keep_uploaded_archive` on a clash of names.
* Two fetches of one package write the same `.part`: one renames the file the
  other has just emptied and is writing, so that half an installer is offered,
  for good if the hub stops or the disk fills then ("jamais un installeur
  tronque qui s'ouvre", `packages.rs:413`).  A caller whose connection drops
  leaves his fetch writing, and the one he starts next meets it.  A rename that
  fails removes the part that is there by then, whosever it is.
* `purge_cached_packages` counts directories, whole package or not: a version
  whose fetch failed takes the place of one that can be installed, and with one
  version kept the last installer can go.

*Scans.*
* `scan_cancel` means both idle and stop: after a cancel the next search runs
  beside the one that ends, whose own `store(true)` can cancel it
  (`lib.rs:511`).
* A publication read while the first scan of a machine is under way blanks its
  row at the hub (against `db.rs:3914`); one dated in the second after it was
  read hides a newer one; after a restart of the probe a scan of one protocol
  erases the ports of the other.  Not modelled: a clock set back, the schedules
  read again while they run, `cmd_clear_discovery`, which empties the store at any
  time but which no page of the window calls (`src-tauri/src/lib.rs:212-215`,
  registered at `:993`), and the speed test, whose flag the first of two
  clears although `state.rs` says they exclude one another.

*Public addresses and figures.*
* An interval is extended by the address alone: two networks behind one operator
  keep the gateway, and so the label, of the first, although the contract (§15)
  makes the gateway part of the label's key for that very case, and
  `by_public_ip` puts the intervals of one address under the label of the first.
* A recheck asked within the floor, or whose answer is lost, is forgotten: the
  address may be stale for the six hours; each lookup that fails renews the date,
  so that the age of an address kept has no bound; without a designated interface
  a change of network shows at the next lookup only.  An excursion seen by no
  heartbeat is charged to the interval around it, which the contract accepts; a
  late heartbeat opens an interval of its own.
* "Un MINORANT ... les deux ecrans ne peuvent pas se contredire" (`uptime.ts`)
  fails with points of earlier versions, which the report counts as measured and
  the card does not, and with several points a second, which the card counts as
  several: `CardSaysLess` holds under `Plain`.  Not modelled: an outage that ends
  with an undetermined reading gets a time of recovery (`report_xlsx.rs:238-266`).

## 6. Plan

What the modules above leave, in order:

1. The threshold and the tombstones in one transaction (section 5), once the code
   has it: `disturbed` then loses two of its causes.
2. Abstract specifications: a register where the last dated writer wins,
   implemented by the hub's table in `MonitorSync`; a bounded queue that forgets
   only what was confirmed or counted, implemented by `ExportPipeline`.
3. The labels of networks, the schedules read again, the speed test.

## 7. What is not modelled, and why

Cryptography (passwords, sealed secrets, certificates, codes of second factors,
signatures of passkeys), the network measurements themselves, line protocol and
the time series behind the relay, sheets and charts of reports, the content of
archives, the signatures of packages, and the interfaces' presentation: input and
output, rendering, or a library's.  Configuration and settings read into values,
parsing of forms and validation of names change no state the properties tell
apart. Clocks that step back or forward are not modelled: time advances, and one
clock serves the hub and the probe where they are compared (`AddressHistory`).
The command line of the headless probe, which writes the configuration from
another process, is not either, while the rescue command of the hub is
(`Accounts`).

Much of the code is one of these: of the fourteen thousand lines of `web.rs`
more than half are tests and most of the rest reads, checks and renders.  The
components of `PROJECT.json` say of each part what is left out.
