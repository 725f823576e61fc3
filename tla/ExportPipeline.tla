---------------------------- MODULE ExportPipeline ----------------------------
(***************************************************************************)
(* How a measure travels from the probe's event bus to the hub's database. *)
(*                                                                         *)
(* The export task (influxdb.rs) reads the bus, turns events into points   *)
(* dated at that moment, keeps them in a bounded buffer (export_buffer.rs) *)
(* mirrored on disk, and posts the whole buffer to the hub once a second,  *)
(* with a backoff.  The buffer forgets a point only when a post succeeded. *)
(* While it awaits a post, the task reads nothing: events pile up in the   *)
(* bus, which forgets the oldest beyond its capacity.                      *)
(*                                                                         *)
(* It posts with a client built for an attachment and a network interface; *)
(* it learns of changes to either by the same bus.  Until it has a client  *)
(* it waits, still filling the buffer.                                     *)
(*                                                                         *)
(* Time is relative: ages and delays count seconds.  The task is taken to  *)
(* react within the second: time passes when it has nothing to do, or      *)
(* while it awaits the answer to a post.                                   *)
(***************************************************************************)
EXTENDS Integers, Sequences, FiniteSets

CONSTANTS
  Mixes,        (* the sets of things that happen together, see Kind       *)
  MaxActs,      (* bound: how many of them happen                          *)
  MaxMeasures,  (* bound: measures taken                                   *)
  BusSize,      (* capacity of the bus (256)                               *)
  MaxPoints,    (* MAX_POINTS                                              *)
  MaxAge,       (* MAX_AGE, seconds                                        *)
  PersistEvery, (* PERSIST_EVERY_TICKS                                     *)
  BackoffMax,   (* BACKOFF_MAX, seconds                                    *)
  Timeout,      (* seconds before a post is given up (10)                  *)
  Attachments,  (* attachments the probe may start with: 1, or 0 for none  *)
  None          (* no client                                               *)

\* The probe is detached, attached again; an interface with or without an
\* address is selected; a post is refused, or its answer lost; the disk
\* refuses; the probe is stopped and started again.
Kind == {"forget", "enroll", "interface", "unplugged", "refused", "lost",
         "diskfull", "crash"}

ASSUME MixesAssumption == Mixes \subseteq SUBSET Kind
ASSUME BoundsAssumption ==
  /\ {MaxActs, MaxMeasures, MaxAge} \subseteq Nat /\ Attachments \subseteq {0, 1}
  /\ {BusSize, MaxPoints, PersistEvery, BackoffMax, Timeout} \subseteq Nat \ {0}

VARIABLES
  measured,   (* measures taken                                            *)
  bus,        (* events the task has not read                              *)
  overrun,    (* events the bus forgot since the task last read it         *)
  mode,       (* "waiting" (run), "sending" (run_with), "posting"          *)
  client,     (* the attachment and interface it was built for, or None    *)
  buffer,     (* ExportBuffer.points                                       *)
  dirty,      (* ExportBuffer.dirty                                        *)
  file,       (* buffer.ndjson                                             *)
  ticks,      (* ticks since the buffer was last written                   *)
  due,        (* a tick of the second is due                               *)
  elapsed,    (* seconds spent in the post                                 *)
  delay,      (* Backoff.delay                                             *)
  wait,       (* seconds before the next attempt                           *)
  shown,      (* WriteStatus: the depth the heartbeat reports              *)
  config,     (* the attachment of the configuration, 0 when detached      *)
  accepts,    (* hub: the attachment whose token it accepts                *)
  iface,      (* the interface selected, 0 when it has no address          *)
  received,   (* hub: the points in its database                           *)
  counted,    (* measures the probe has counted as lost                    *)
  gone,       (* measures a stop of the probe has lost                     *)
  deaf,       (* a change passed the task by: the bus forgot it, or it     *)
              (* came as a choice of interface while the task waited       *)
  waited,     (* the task was started without a client                     *)
  kinds,      (* the things that happen in this behaviour                  *)
  left        (* how many still may                                        *)

task  == <<mode, client, ticks, due, elapsed, delay, wait, shown>>
store == <<buffer, dirty, file>>
world == <<config, accepts, iface>>
ghost == <<counted, gone, deaf, waited>>
budget == <<kinds, left>>
vars  == <<measured, bus, overrun, task, store, world, received, ghost, budget>>

Happens(kind) == kind \in kinds /\ left > 0 /\ left' = left - 1 /\ UNCHANGED kinds

Ids(seq) == {seq[i].id : i \in DOMAIN seq} \ {0}

\* hub_client: none when detached, or on an interface without address.
Wanted == IF config = 0 \/ iface = 0 THEN None ELSE [config |-> config, iface |-> iface]

\* Where the task stands once it has looked for a client (run).
Enters == IF Wanted = None THEN "waiting" ELSE "sending"

Init ==
  /\ measured = 0 /\ bus = <<>> /\ overrun = {}
  /\ buffer = <<>> /\ dirty = FALSE /\ file = <<>>
  /\ config \in Attachments /\ accepts = 1 /\ iface = 1
  /\ mode = Enters /\ client = Wanted
  /\ ticks = 0 /\ due = (mode = "sending") /\ elapsed = 0 /\ delay = 0 /\ wait = 0
  /\ shown = 0
  /\ received = {} /\ counted = {} /\ gone = {} /\ deaf = FALSE /\ waited = (mode = "waiting")
  /\ kinds \in Mixes /\ left = MaxActs

-----------------------------------------------------------------------------
(* The bus.                                                                *)

\* broadcast::send: the oldest event makes room for the new one.  The task
\* keeps up with the bus unless it awaits a post.
Emits(what, id) ==
  LET event == [what |-> what, id |-> id] IN
    IF Len(bus) < BusSize
    THEN bus' = Append(bus, event) /\ UNCHANGED overrun
    ELSE /\ mode = "posting"
         /\ bus' = Append(Tail(bus), event) /\ overrun' = overrun \cup {Head(bus).id}

TakesMeasure ==
  /\ measured < MaxMeasures
  /\ measured' = measured + 1
  /\ Emits("measure", measured')
  /\ UNCHANGED <<task, store, world, received, ghost, budget>>

-----------------------------------------------------------------------------
(* ExportBuffer.                                                           *)

\* enforce_bounds: how many points leave by the head, the old ones first.
TooOld(points) ==
  CHOOSE n \in 0..Len(points) :
    /\ \A i \in 1..n : points[i].age > MaxAge
    /\ n < Len(points) => points[n + 1].age <= MaxAge
Without(points, n) == SubSeq(points, n + 1, Len(points))
Bounded(points) ==
  LET young == Without(points, TooOld(points)) IN
    Without(young, IF Len(young) > MaxPoints THEN Len(young) - MaxPoints ELSE 0)

\* push_at, counting what it abandons.
Pushes(event) ==
  LET grown == Append(buffer, [id |-> event.id, age |-> 0]) IN
    /\ buffer' = Bounded(grown)
    /\ counted' = counted \cup (Ids(grown) \ Ids(buffer'))
    /\ dirty' = TRUE

\* A slip: the tick that is due for a write is not counted again.
PersistsLate(points, changed) ==
  IF ~changed \/ ticks < PersistEvery
  THEN /\ dirty' = changed /\ UNCHANGED file
       /\ ticks' = IF ticks < PersistEvery THEN ticks + 1 ELSE ticks
  ELSE file' = points /\ dirty' = FALSE /\ ticks' = 0

\* persist_buffer, at the end of a tick; `points' is what the buffer holds by
\* then.  The file is replaced whole (persist), or not at all.
Persists(points, changed) ==
  IF ~changed \/ ticks + 1 < PersistEvery
  THEN /\ dirty' = changed /\ UNCHANGED file
       /\ ticks' = IF ticks < PersistEvery THEN ticks + 1 ELSE ticks
  ELSE /\ ticks' = 0
       /\ \/ file' = points /\ dirty' = FALSE
          \/ "diskfull" \in kinds /\ dirty' = TRUE /\ UNCHANGED file

-----------------------------------------------------------------------------
(* The task reads the bus, unless it awaits the answer to a post.          *)

Listens == mode # "posting"

\* RecvError::Lagged.
ReadsLagged ==
  /\ Listens /\ overrun # {}
  /\ counted' = counted \cup (overrun \ {0}) /\ overrun' = {}
  /\ deaf' = (deaf \/ 0 \in overrun)
  /\ UNCHANGED <<measured, bus, task, store, world, received, gone, waited, budget>>

Reads(what) ==
  /\ Listens /\ overrun = {}
  /\ bus # <<>> /\ Head(bus).what = what
  /\ bus' = Tail(bus)
  /\ deaf' = (deaf \/ (mode = "waiting" /\ what = "interface:selected"))
  /\ UNCHANGED <<measured, overrun, file, world, received, gone, waited, budget>>

ReadsMeasure ==
  /\ Reads("measure")
  /\ Pushes(Head(bus))
  /\ UNCHANGED task

\* A slip: the client is built once and for all (`la destination etait choisie
\* une seule fois').
RefreshesNever(what) == UNCHANGED client

\* run_with: no client can be built, the one in hand stays.
Refreshes(what) == IF Wanted = None THEN UNCHANGED client ELSE client' = Wanted

ReadsChange(what) ==
  /\ mode = "sending"
  /\ Reads(what)
  /\ Refreshes(what)
  /\ UNCHANGED <<mode, ticks, due, elapsed, delay, wait, shown, buffer, dirty, counted>>

\* run: only config:update makes it look for a client again.
ReadsWhileWaiting(what) ==
  /\ mode = "waiting"
  /\ Reads(what)
  /\ IF what = "config:update" THEN mode' = Enters /\ client' = Wanted
     ELSE UNCHANGED <<mode, client>>
  /\ due' = (mode' = "sending")
  /\ UNCHANGED <<ticks, elapsed, delay, wait, shown, buffer, dirty, counted>>

-----------------------------------------------------------------------------
(* flush_tick.                                                             *)

\* Nothing to send, or the backoff runs.
TickSkips ==
  /\ mode = "sending" /\ due
  /\ wait > 0 \/ buffer = <<>>
  /\ due' = FALSE
  /\ shown' = Len(buffer)
  /\ Persists(buffer, dirty)
  /\ UNCHANGED <<measured, bus, overrun, mode, client, elapsed, delay, wait, buffer,
                 world, received, ghost, budget>>

\* flush_once: the whole buffer leaves.
TickPosts ==
  /\ mode = "sending" /\ due
  /\ wait = 0 /\ buffer # <<>>
  /\ due' = FALSE /\ mode' = "posting" /\ elapsed' = 0
  /\ UNCHANGED <<measured, bus, overrun, client, ticks, delay, wait, shown, store,
                 world, received, ghost, budget>>

\* write_metrics: the hub's database, once the batch is written.  A point sent
\* twice replaces itself: it keeps its date.
Written == received \cup Ids(buffer)

Known == client.config = accepts

PostSucceeds ==
  /\ mode = "posting" /\ Known
  /\ received' = Written
  /\ buffer' = <<>>
  /\ mode' = "sending" /\ delay' = 0 /\ wait' = 0 /\ shown' = 0
  /\ Persists(<<>>, TRUE)
  /\ UNCHANGED <<measured, bus, overrun, client, due, elapsed, world, ghost, budget>>

\* What a failed post leaves (record_failure_at): the delay counts from the
\* moment the post began.
Backs ==
  /\ delay' = IF delay = 0 THEN 1 ELSE IF 2 * delay > BackoffMax THEN BackoffMax ELSE 2 * delay
  /\ wait' = IF delay' > elapsed THEN delay' - elapsed ELSE 0

\* The hub refuses or cannot write, or its answer is lost.
Failing ==
  \/ UNCHANGED received /\ (Known => "refused" \in kinds)
  \/ Known /\ "lost" \in kinds /\ received' = Written

\* A slip: the buffer is emptied as it leaves (what 1.1.5 did).
PostFailsEmptied ==
  /\ mode = "posting" /\ Failing
  /\ mode' = "sending" /\ Backs /\ shown' = 0
  /\ buffer' = <<>> /\ Persists(<<>>, TRUE)
  /\ UNCHANGED <<measured, bus, overrun, client, due, elapsed, world, ghost, budget>>

PostFails ==
  /\ mode = "posting" /\ Failing
  /\ mode' = "sending" /\ Backs /\ shown' = Len(buffer)
  /\ Persists(buffer, dirty)
  /\ UNCHANGED <<measured, bus, overrun, client, due, elapsed, buffer, world, ghost, budget>>

-----------------------------------------------------------------------------
(* Time.                                                                   *)

Older(points) ==
  [i \in DOMAIN points |->
     [points[i] EXCEPT !.age = IF @ > MaxAge THEN @ ELSE @ + 1]]

SecondPasses ==
  /\ \/ mode = "posting" /\ elapsed < Timeout /\ elapsed' = elapsed + 1
     \/ Listens /\ bus = <<>> /\ overrun = {} /\ ~due /\ UNCHANGED elapsed
  /\ due' = (mode # "waiting")
  /\ wait' = IF wait > 0 THEN wait - 1 ELSE 0
  /\ buffer' = Older(buffer) /\ file' = Older(file)
  /\ UNCHANGED <<measured, bus, overrun, mode, client, ticks, delay, shown, dirty, world,
                 received, ghost, budget>>

-----------------------------------------------------------------------------
(* What happens around the task.                                           *)

Forgets ==
  /\ Happens("forget") /\ config # 0
  /\ config' = 0 /\ Emits("config:update", 0)
  /\ UNCHANGED <<measured, task, store, accepts, iface, received, ghost>>

\* The hub gives the probe another token (reenroll_probe).
Enrolls ==
  /\ Happens("enroll")
  /\ accepts' = accepts + 1 /\ config' = accepts'
  /\ Emits("config:update", 0)
  /\ UNCHANGED <<measured, task, store, iface, received, ghost>>

\* cmd_set_selected_interface; the kind of choice is counted.
Selects(kind, choices) ==
  /\ Happens(kind)
  /\ iface' \in choices \ {iface} /\ Emits("interface:selected", 0)
  /\ UNCHANGED <<measured, task, store, config, accepts, received, ghost>>

\* The probe stops and starts again, at once or long after; the post it was
\* awaiting may have reached the hub.  Nothing is written on the way, even by
\* a clean stop: the task holds a sender of the bus it listens to, which therefore never closes.
Stops ==
  /\ Happens("crash")
  /\ received' \in {received} \cup (IF mode = "posting" /\ Known THEN {Written} ELSE {})
  /\ \E found \in {file, [i \in DOMAIN file |-> [file[i] EXCEPT !.age = MaxAge + 1]]} :
       /\ file' = found
       /\ buffer' = Bounded(found)
  /\ dirty' = (buffer' # file')
  /\ counted' = counted \cup (Ids(file') \ Ids(buffer'))
  /\ gone' = gone \cup ((Ids(bus) \cup (overrun \ {0}) \cup Ids(buffer)) \ Ids(file))
  /\ bus' = <<>> /\ overrun' = {} /\ deaf' = FALSE
  /\ mode' = Enters /\ client' = Wanted /\ waited' = (mode' = "waiting")
  /\ ticks' = 0 /\ due' = (mode' = "sending")
  /\ elapsed' = 0 /\ delay' = 0 /\ wait' = 0 /\ shown' = 0
  /\ UNCHANGED <<measured, world>>

Change == {"config:update", "interface:selected"}

TaskSteps ==
  \/ ReadsLagged \/ ReadsMeasure
  \/ \E what \in Change : ReadsChange(what) \/ ReadsWhileWaiting(what)
  \/ TickSkips \/ TickPosts

Next ==
  \/ TakesMeasure
  \/ TaskSteps \/ PostSucceeds \/ PostFails
  \/ SecondPasses
  \/ Forgets \/ Enrolls
  \/ Selects("interface", {1, 2}) \/ Selects("unplugged", {0})
  \/ Stops

Spec == Init /\ [][Next]_vars

\* The task runs, time passes, a post ends, and one that is tried again and
\* again is answered in the end.
Fairness ==
  /\ WF_vars(TaskSteps) /\ WF_vars(SecondPasses)
  /\ WF_vars(PostSucceeds \/ PostFails) /\ SF_vars(PostSucceeds)

FairSpec == Spec /\ Fairness

-----------------------------------------------------------------------------
(* Properties.                                                             *)

\* A measure is on its way, at the hub, counted as lost, or lost with a stop:
\* none disappears otherwise (export_buffer.rs, Dropped: `un tampon qui deborde
\* en silence ment').
NothingLostSilently ==
  1..measured \subseteq
    Ids(bus) \cup overrun \cup Ids(buffer) \cup received \cup counted \cup gone

\* A point that has waited for the period of persistence is on disk
\* (persist_buffer, flush_tick).  The period is counted in ticks, and a tick
\* can last as long as a post is waited for.  A disk that refuses puts it off,
\* and a task that waits for its first client has no tick at all.
PersistedInTime ==
  Listens /\ ~due /\ ~waited /\ "diskfull" \notin kinds =>
    \A i \in DOMAIN buffer :
      buffer[i].age >= PersistEvery * Timeout => buffer[i].id \in Ids(file)

\* If the probe stays attached on an interface that works, and the task heard
\* of it, every measure ends at the hub, counted, or lost with a stop.
EventuallyDelivered ==
  <>[](Wanted # None /\ ~deaf) =>
    []<>(1..measured \subseteq received \cup counted \cup gone)
=============================================================================
