----------------------------- MODULE ProbeConfig -----------------------------
(***************************************************************************)
(* The probe's configuration (ConfigStore) and everyone who writes it.     *)
(*                                                                         *)
(* It is one JSON object, kept in memory and in app_config.json.  Nobody   *)
(* writes a section of it: whoever has something to store takes a copy of  *)
(* the whole, changes its own section and puts the whole back, the file    *)
(* first and the memory next.  Three threads do so: the window's           *)
(* synchronous commands run on the main thread, the asynchronous ones on   *)
(* a worker, and the heartbeat task writes what the hub's answers bring.   *)
(*                                                                         *)
(* The window keeps a copy of its own and stores a setting by putting that *)
(* copy.  It is refreshed by the `config:update' events, which some of the *)
(* writers emit and some do not.                                           *)
(*                                                                         *)
(* A write can be interrupted between its read and its two halves; the     *)
(* queue of gestures is read with the configuration it will be stored in.  *)
(***************************************************************************)
EXTENDS Integers, Sequences, FiniteSets

CONSTANTS
  Allowed,      (* what happens in this instance, see Kind                 *)
  MaxActs,      (* bound: how many of these things happen                  *)
  MaxGestures,  (* bound: gestures ever made, each on a target of its own  *)
  None          (* no write under way, no answer to apply                  *)

\* Gestures at the window and by the hub's commands, settings and interface
\* chosen at the window, detaching and attaching the probe, handing the
\* restored configuration over, rotations of the write key, a restart of the
\* application, a restart that cuts a write, a failure to write.
Kind == {"window_gesture", "command", "setting", "interface", "forget",
         "enroll", "take", "rotate", "restart", "torn", "fail"}

GestureId == 1..MaxGestures

ASSUME AllowedAssumption == Allowed \subseteq Kind
ASSUME BoundsAssumption  == MaxActs \in Nat /\ MaxGestures \in Nat

Blank == [hub |-> 0, gestures |-> {}, restored |-> FALSE, settings |-> 0, interface |-> 0]

Thread == {"main", "worker", "beat"}

Config == [hub : Nat, gestures : SUBSET GestureId, restored : BOOLEAN,
           settings : Nat, interface : Nat]
\* What a configuration is put for, and how far the put is.
Purpose == {"gesture", "setting", "interface", "forget", "enroll", "enrolled",
            "take", "acks", "save"}
Write   == [read : Config, root : Config, tells : BOOLEAN, then : Purpose,
            half : {"file", "memory", "failed"}, noted : SUBSET GestureId]
Answer  == [acks : SUBSET GestureId, key : Nat, at : {"sent", "acks", "key"}]

ASSUME NoneAssumption == None \notin Write \cup Answer

VARIABLES
  memory,    (* the configuration in memory                                *)
  file,      (* app_config.json                                            *)
  cache,     (* the window's copy                                          *)
  events,    (* config:update events the window has not received           *)
  write,     (* the write each thread is in the middle of                  *)
  queue,     (* MonitorChangeQueue                                         *)
  answer,    (* beat: the hub's answer being applied, or None              *)
  current,   (* beat: the section it loaded before its request             *)
  hubKey,    (* hub: the newest key it made for the probe (1 + version)    *)
  staged,    (* hub: that key waits for the probe's word                   *)
  left,      (* things that may still happen                               *)
  (* What was asked, for the properties.                                   *)
  made,      (* gestures whose call returned                               *)
  acked,     (* gestures the probe has read the acknowledgement of         *)
  settled,   (* those whose removal from the queue was written             *)
  ackedKey,  (* the newest key the hub read the probe's word of            *)
  attached,  (* the person wants the probe attached                        *)
  chosen,    (* the interface the person chose last                        *)
  returned,  (* configurations the hub returned                            *)
  invited,   (* the window asks for it once after it attached the probe    *)
  taken,     (* how many times one was handed to the window                *)
  disorder   (* a put overlapped another, was cut, or failed unnoticed     *)

hubKeys == <<hubKey, staged>>
asked == <<made, acked, settled, ackedKey, attached, chosen, returned, invited, taken, disorder>>
vars  == <<memory, file, cache, events, write, queue, answer, current, hubKeys, left, asked>>

Happens(kind) == kind \in Allowed /\ left > 0 /\ left' = left - 1

Init ==
  /\ memory = [Blank EXCEPT !.hub = 1] /\ file = memory /\ cache = memory
  /\ events = <<>> /\ write = [h \in Thread |-> None]
  /\ queue = {} /\ answer = None /\ current = 0 /\ hubKey = 2 /\ staged = FALSE /\ left = MaxActs
  /\ made = {} /\ acked = {} /\ settled = {} /\ ackedKey = 1 /\ attached = TRUE
  /\ chosen = 0 /\ returned = 0 /\ invited = FALSE /\ taken = 0 /\ disorder = FALSE

-----------------------------------------------------------------------------
(* ConfigStore::put.                                                       *)

Free(h) == write[h] = None

\* The thread has read a configuration and holds the one it will put.
\* `tells': it emits config:update afterwards; `then': what it puts it
\* for; `noted': the gesture it stores.
PutsNoting(h, read, root, tells, then, noted) ==
  write' = [write EXCEPT ![h] =
              [read |-> read, root |-> root, tells |-> tells, then |-> then,
               half |-> "file", noted |-> noted]]

Puts(h, read, root, tells, then) == PutsNoting(h, read, root, tells, then, {})

Doing(h, what) == ~Free(h) /\ write[h].then = what

WriteFile(h) ==
  /\ ~Free(h) /\ write[h].half = "file"
  /\ file' = write[h].root
  /\ write' = [write EXCEPT ![h].half = "memory"]
  /\ settled' = IF write[h].then = "acks" THEN settled \cup answer.acks ELSE settled
  /\ ackedKey' = IF write[h].then = "enrolled" THEN 1 ELSE ackedKey
  /\ attached' = IF write[h].then \in {"forget", "enrolled"}
                 THEN write[h].then = "enrolled" ELSE attached
  /\ chosen' = IF write[h].then = "interface" THEN write[h].root.interface ELSE chosen
  /\ disorder' = (disorder \/ file # write[h].read \/ \E k \in Thread \ {h} : ~Free(k))
  /\ UNCHANGED <<memory, cache, events, queue, answer, current, hubKeys, left,
                 made, acked, returned, invited, taken>>

\* Whether the window still has to ask for the restored configuration once
\* this write has ended.
Invited(h) == \/ write[h].then = "enrolled"
              \/ invited /\ write[h].then # "take"

\* A call returns once the memory holds what it put.
WriteMemory(h) ==
  /\ ~Free(h) /\ write[h].half = "memory" /\ write[h].then # "enroll"
  /\ memory' = write[h].root
  /\ events' = IF write[h].tells THEN Append(events, write[h].root) ELSE events
  /\ write' = [write EXCEPT ![h] = None]
  /\ made' = IF write[h].then = "gesture" THEN made \cup write[h].noted ELSE made
  /\ invited' = Invited(h)
  /\ taken' = IF write[h].then = "take" THEN taken + 1 ELSE taken
  /\ UNCHANGED <<file, cache, queue, answer, current, hubKeys, left, acked, settled,
                 ackedKey, attached, chosen, returned, disorder>>

\* A slip: the memory is set although the file could not be written.
WriteFailsUnnoticed(h) ==
  /\ Happens("fail")
  /\ ~Free(h) /\ write[h].half = "file"
  /\ write' = [write EXCEPT ![h].half = "memory"]
  /\ UNCHANGED <<memory, file, cache, events, queue, answer, current, hubKeys, asked>>

\* The file could not be written: the memory is left as it was.  An enrolment
\* goes on without the configuration the hub had kept, and one that is taken
\* is handed over although it stays.
WriteFails(h) ==
  /\ Happens("fail")
  /\ ~Free(h) /\ write[h].half = "file"
  /\ write' = IF Doing(h, "enroll") THEN [write EXCEPT ![h].half = "failed"]
              ELSE [write EXCEPT ![h] = None]
  /\ invited' = (invited /\ ~Doing(h, "take"))
  /\ taken' = IF Doing(h, "take") THEN taken + 1 ELSE taken
  /\ disorder' = (disorder \/ Doing(h, "take"))
  /\ UNCHANGED <<memory, file, cache, events, queue, answer, current, hubKeys, made, acked,
                 settled, ackedKey, attached, chosen, returned>>

-----------------------------------------------------------------------------
(* Gestures.                                                               *)

WithQueueUnlessEmpty(root, before, after) ==
  IF after = {} THEN root ELSE [root EXCEPT !.gestures = after]

\* persist_monitor_changes stores the queue as it is now.
WithQueue(root, before, after) == [root EXCEPT !.gestures = after]

Gestures(h, kind) ==
  /\ Happens(kind) /\ Free(h)
  /\ \E g \in GestureId \ (made \cup acked \cup queue) :
       /\ queue' = queue \cup {g}
       /\ PutsNoting(h, memory, WithQueue(memory, queue, queue'), FALSE, "gesture", {g})
  /\ UNCHANGED <<memory, file, cache, events, answer, current, hubKeys, asked>>

-----------------------------------------------------------------------------
(* The window.                                                             *)

\* configStore.set: the copy with its new setting becomes the configuration.
StoresSetting ==
  /\ Happens("setting") /\ Free("main")
  /\ cache' = [cache EXCEPT !.settings = @ + 1]
  /\ Puts("main", cache, cache', TRUE, "setting")
  /\ UNCHANGED <<memory, file, events, queue, answer, current, hubKeys, asked>>

ReceivesEvent ==
  /\ events # <<>>
  /\ cache' = Head(events) /\ events' = Tail(events)
  /\ UNCHANGED <<memory, file, write, queue, answer, current, hubKeys, left, asked>>

\* cmd_set_selected_interface does not tell the window's copy.
ChoosesInterface ==
  /\ Happens("interface") /\ Free("main")
  /\ Puts("main", memory, [memory EXCEPT !.interface = @ + 1], FALSE, "interface")
  /\ UNCHANGED <<memory, file, cache, events, queue, answer, current, hubKeys, asked>>

\* hub::forget.
Forgets ==
  /\ Happens("forget") /\ Free("main") /\ memory.hub # 0
  /\ Puts("main", memory, [memory EXCEPT !.hub = 0], TRUE, "forget")
  /\ UNCHANGED <<memory, file, cache, events, queue, answer, current, hubKeys, asked>>

\* hub::enroll: the configuration the hub had kept is stored first, without
\* an event, then the section, whose key has no version.  The window is busy
\* until it has asked for it.  A heartbeat on its way is refused from then on.
Enrolls ==
  /\ Happens("enroll") /\ Free("worker") /\ ~invited
  /\ \/ /\ returned' = returned + 1
        /\ Puts("worker", memory, [memory EXCEPT !.restored = TRUE], FALSE, "enroll")
     \/ /\ UNCHANGED returned
        /\ Puts("worker", memory, [memory EXCEPT !.hub = 1], TRUE, "enrolled")
  /\ answer' = IF answer # None /\ answer.at = "sent" THEN None ELSE answer
  /\ UNCHANGED <<memory, file, cache, events, queue, current, hubKeys, made,
                 acked, settled, ackedKey, attached, chosen, invited, taken, disorder>>

EnrollSaves ==
  /\ Doing("worker", "enroll") /\ write["worker"].half # "file"
  /\ memory' = IF write["worker"].half = "memory" THEN write["worker"].root ELSE memory
  /\ Puts("worker", memory', [memory' EXCEPT !.hub = 1], TRUE, "enrolled")
  /\ UNCHANGED <<file, cache, events, queue, answer, current, hubKeys, left, asked>>

\* hub::take_restored_config, asked by the window once the probe is attached.
TakesRestored ==
  /\ Happens("take") /\ Free("main") /\ invited
  /\ \/ /\ memory.restored
        /\ Puts("main", memory, [memory EXCEPT !.restored = FALSE], FALSE, "take")
        /\ UNCHANGED invited
     \/ ~memory.restored /\ invited' = FALSE /\ UNCHANGED write
  /\ UNCHANGED <<memory, file, cache, events, queue, answer, current, hubKeys, made,
                 acked, settled, ackedKey, attached, chosen, returned, taken, disorder>>

-----------------------------------------------------------------------------
(* The heartbeat task.                                                     *)

\* A second rotation before the probe's word has the same version.
Rotates ==
  /\ Happens("rotate") /\ ~staged
  /\ hubKey' = hubKey + 1 /\ staged' = TRUE
  /\ UNCHANGED <<memory, file, cache, events, write, queue, answer, current, asked>>

\* The section is loaded once for the whole round; the heartbeat carries the
\* queue.  One sent during an enrolment is refused: it changes nothing.
Beats ==
  /\ Free("beat") /\ answer = None /\ memory.hub # 0
  /\ ~Doing("worker", "enroll") /\ ~Doing("worker", "enrolled")
  /\ current' = memory.hub
  /\ answer' = [acks |-> queue, key |-> 0, at |-> "sent"]
  /\ UNCHANGED <<memory, file, cache, events, write, queue, hubKeys, left, asked>>

\* The hub acknowledges the gestures, reads which key the probe holds and, as
\* long as that is not the one it staged, sends it.
Answered ==
  /\ answer # None /\ answer.at = "sent"
  /\ staged' = (staged /\ current # hubKey)
  /\ answer' = [answer EXCEPT !.key = IF staged' THEN hubKey ELSE 0, !.at = "acks"]
  /\ ackedKey' = IF current > ackedKey THEN current ELSE ackedKey
  /\ UNCHANGED <<memory, file, cache, events, write, queue, current, hubKey, left, made,
                 acked, settled, attached, chosen, returned, invited, taken, disorder>>

\* align_monitors acknowledges and stores the queue.
AppliesAcks ==
  /\ answer # None /\ answer.at = "acks" /\ Free("beat")
  /\ queue' = queue \ answer.acks
  /\ acked' = acked \cup answer.acks
  /\ answer' = [answer EXCEPT !.at = "key"]
  /\ IF answer.acks = {} THEN UNCHANGED write
     ELSE Puts("beat", memory, WithQueue(memory, queue, queue'), FALSE, "acks")
  /\ UNCHANGED <<memory, file, cache, events, current, hubKeys, left, made, settled,
                 ackedKey, attached, chosen, returned, invited, taken, disorder>>

\* apply changes a copy of the section it had loaded, and saves it.
AppliesKey ==
  /\ answer # None /\ answer.at = "key" /\ Free("beat")
  /\ answer' = None
  /\ IF answer.key > current
     THEN Puts("beat", [memory EXCEPT !.hub = current],
               [memory EXCEPT !.hub = answer.key], TRUE, "save")
     ELSE UNCHANGED write
  /\ UNCHANGED <<memory, file, cache, events, queue, current, hubKeys, left, asked>>

-----------------------------------------------------------------------------
(* The application stops and starts again: the file is all that is left.   *)
(* One stopped in the middle of writing the file leaves it unreadable, and *)
(* an unreadable configuration is an empty one.                            *)

Restarting(found) ==
  /\ memory' = found /\ cache' = found /\ file' = found
  /\ events' = <<>> /\ write' = [h \in Thread |-> None]
  /\ queue' = found.gestures /\ answer' = None /\ current' = 0
  /\ invited' = FALSE
  /\ UNCHANGED <<hubKeys, made, acked, settled, ackedKey, attached, chosen, returned, taken>>

Restart == Happens("restart") /\ Restarting(file) /\ UNCHANGED disorder

TornRestart ==
  /\ Happens("torn")
  /\ \E h \in Thread : ~Free(h) /\ write[h].half = "file"
  /\ Restarting(Blank) /\ disorder' = TRUE

Next ==
  \/ \E h \in Thread : WriteFile(h) \/ WriteFails(h) \/ WriteMemory(h)
  \/ Gestures("worker", "window_gesture")
  \/ answer = None /\ Gestures("beat", "command")
  \/ StoresSetting \/ ReceivesEvent \/ ChoosesInterface
  \/ Forgets \/ Enrolls \/ EnrollSaves \/ TakesRestored
  \/ Rotates \/ Beats \/ Answered \/ AppliesAcks \/ AppliesKey
  \/ Restart \/ TornRestart

Spec == Init /\ [][Next]_vars

-----------------------------------------------------------------------------
(* Properties.                                                             *)

Resting == answer = None /\ \A h \in Thread : Free(h)

\* Every put so far was alone and replaced the configuration its writer had
\* read, and none was cut or failed without its caller knowing.  The properties
\* say what the code keeps as long as that holds.  No lock makes it hold: a
\* setting stored at the window from a copy older than a gesture is enough to
\* erase that gesture from the file.
Orderly == ~disorder

\* A gesture whose call returned stays in the queue until the hub has
\* acknowledged it, restarts included (`un geste fait pendant que le hub est
\* injoignable survit a un redemarrage de l'app').
GesturesSurvive == Resting => made \subseteq queue \cup acked

\* A gesture the hub acknowledged never comes back to be sent again
\* (acknowledge, `retire de la file').
AcknowledgedIsGone == queue \cap settled = {}

\* A probe its owner detached is not attached again by an answer that was on
\* its way (forget, `Detache la sonde du hub').
DetachedStaysDetached == Resting /\ ~attached => memory.hub = 0

\* A configuration the hub returned is handed to the window once
\* (take_restored_config, `consommee une seule fois').
HandedOverOnce == taken <= returned

\* The interface chosen last is the one the configuration keeps
\* (cmd_set_selected_interface, `persiste cote BACKEND').
ChoiceIsKept == Resting => memory.interface = chosen

\* Nothing one writer stored is undone by what another one puts, although each
\* puts the whole configuration, restarts and failed writes included.
NoSectionUndone ==
  Orderly => /\ GesturesSurvive
             /\ AcknowledgedIsGone
             /\ DetachedStaysDetached
             /\ HandedOverOnce
             /\ ChoiceIsKept

\* The key the hub has read the probe's word of is one the probe would find
\* again after a crash: the hub destroys the previous one on that word (apply,
\* `tant qu'on n'a pas persiste celle-ci, on ne l'accuse pas').
AnnouncedKeyIsOnDisk == Orderly /\ attached => file.hub >= ackedKey
=============================================================================
